--------------------------- MODULE CheckpointStore ---------------------------
(***************************************************************************)
(* What internal/inbox promises its callers (the Repository interface): a  *)
(* single checkpoint that every call reads or advances in one step         *)
(* somewhere between its invocation and its return, and that a failed or   *)
(* interrupted call leaves as it was.                                      *)
(***************************************************************************)
EXTENDS CheckpointFile

CONSTANTS
  Callers,     \* goroutines that use the repository
  Validities   \* UIDVALIDITY values they name

VARIABLES
  cp,      \* the checkpoint
  phase,   \* caller -> "idle", "called" or "done"
  req,     \* caller -> its call, NoRequest between calls
  res      \* caller -> the result of its call, Error between calls

storeVars == <<cp, phase, req, res>>

Request ==
  [op : {"get"}, folder : Folders, validity : Validities, uid : {0}] \cup
  [op : {"advance"}, folder : Folders, validity : Validities, uid : 1..MaxUID]

NoRequest == [op |-> "none", folder |-> NoFolder, validity |-> 0, uid |-> 0]

Result  == [ok : BOOLEAN, uid : 0..MaxUID]

Done(uid) == [ok |-> TRUE, uid |-> uid]
Error     == [ok |-> FALSE, uid |-> 0]

\* GetCheckpoint on the record itself.
Read(c, r) == IF SameMailbox(c, r.folder, r.validity) THEN c.lastUID ELSE 0

Init ==
  /\ cp = ZeroCheckpoint
  /\ phase = [c \in Callers |-> "idle"]
  /\ req = [c \in Callers |-> NoRequest]
  /\ res = [c \in Callers |-> Error]

Call(c, r) ==
  /\ phase[c] = "idle"
  /\ phase' = [phase EXCEPT ![c] = "called"]
  /\ req' = [req EXCEPT ![c] = r]
  /\ UNCHANGED <<cp, res>>

Get(c) ==
  /\ phase[c] = "called" /\ req[c].op = "get"
  /\ phase' = [phase EXCEPT ![c] = "done"]
  /\ res' = [res EXCEPT ![c] = Done(Read(cp, req[c]))]
  /\ UNCHANGED <<cp, req>>

Advance(c) ==
  /\ phase[c] = "called" /\ req[c].op = "advance"
  /\ cp' = AdvanceCheckpoint(cp, req[c].folder, req[c].validity, req[c].uid)
  /\ phase' = [phase EXCEPT ![c] = "done"]
  /\ res' = [res EXCEPT ![c] = Done(0)]
  /\ UNCHANGED req

Fail(c) ==
  /\ phase[c] = "called"
  /\ phase' = [phase EXCEPT ![c] = "done"]
  /\ res' = [res EXCEPT ![c] = Error]
  /\ UNCHANGED <<cp, req>>

Return(c) ==
  /\ phase[c] = "done"
  /\ phase' = [phase EXCEPT ![c] = "idle"]
  /\ req' = [req EXCEPT ![c] = NoRequest]
  /\ res' = [res EXCEPT ![c] = Error]
  /\ UNCHANGED cp

\* The process dies: its calls are gone, the checkpoint is not.
Crash ==
  /\ phase' = [c \in Callers |-> "idle"]
  /\ req' = [c \in Callers |-> NoRequest]
  /\ res' = [c \in Callers |-> Error]
  /\ UNCHANGED cp

\* Someone deletes or damages the stored checkpoint while nobody uses it.
Lose ==
  /\ \A c \in Callers : phase[c] = "idle"
  /\ cp' = ZeroCheckpoint
  /\ UNCHANGED <<phase, req, res>>

Next ==
  \/ \E c \in Callers, r \in Request : Call(c, r)
  \/ \E c \in Callers : Get(c) \/ Advance(c) \/ Fail(c) \/ Return(c)
  \/ Crash \/ Lose

Spec == Init /\ [][Next]_storeVars
=============================================================================
