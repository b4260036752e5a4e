------------------------------ MODULE JSONRepo ------------------------------
(***************************************************************************)
(* internal/inbox/repo.go step by step: the mutex, reading the file, the   *)
(* temporary file, the rename, an error at each of them, and a crash of    *)
(* the process anywhere.  File operations are as a process crash leaves    *)
(* them; the code does not fsync, and a power failure is not modelled.     *)
(***************************************************************************)
EXTENDS CheckpointFile

CONSTANTS
  Callers,     \* goroutines that use the repository
  Validities,  \* UIDVALIDITY values they name
  NoCaller     \* the mutex is free

ASSUME ValiditiesAssumption == Validities \subseteq Nat
ASSUME NoCallerAssumption   == NoCaller \notin Callers

VARIABLES
  file,    \* checkpoint.json
  tmp,     \* checkpoint.json.tmp
  mu,      \* the caller that holds r.mu, or NoCaller
  pc,      \* caller -> where it is
  local,   \* caller -> its variable cp
  req,     \* caller -> the arguments of its call, NoRequest between calls
  res      \* caller -> the result of its call, Error between calls

vars == <<file, tmp, mu, pc, local, req, res>>

phaseOf(l) == IF l = "idle" THEN "idle" ELSE IF l = "unlock" THEN "done" ELSE "called"

\* The promise: load(file) is the abstract checkpoint.
Store == INSTANCE CheckpointStore
           WITH cp <- load(file), phase <- [c \in Callers |-> phaseOf(pc[c])]

Request == Store!Request
Result  == Store!Result

Init ==
  /\ file = MissingFile
  /\ tmp = MissingFile
  /\ mu = NoCaller
  /\ pc = [c \in Callers |-> "idle"]
  /\ local = [c \in Callers |-> ZeroCheckpoint]
  /\ req = [c \in Callers |-> Store!NoRequest]
  /\ res = [c \in Callers |-> Store!Error]

Goto(c, l) == pc' = [pc EXCEPT ![c] = l]

\* The call is over but for the deferred unlock.
Finish(c, result) ==
  /\ Goto(c, "unlock")
  /\ res' = [res EXCEPT ![c] = result]
  /\ local' = [local EXCEPT ![c] = ZeroCheckpoint]
  /\ UNCHANGED <<mu, req>>

Call(c, r) ==
  /\ pc[c] = "idle"
  /\ Goto(c, "lock")
  /\ req' = [req EXCEPT ![c] = r]
  /\ UNCHANGED <<file, tmp, mu, local, res>>

\* Mutant: no mutual exclusion.
Lock_Free(c) ==
  /\ pc[c] = "lock"
  /\ mu' = c
  /\ Goto(c, "load")
  /\ UNCHANGED <<file, tmp, local, req, res>>

Lock(c) ==
  /\ pc[c] = "lock"
  /\ mu = NoCaller
  /\ mu' = c
  /\ Goto(c, "load")
  /\ UNCHANGED <<file, tmp, local, req, res>>

LoadFails(c) ==
  /\ pc[c] = "load"
  /\ Finish(c, Store!Error)
  /\ UNCHANGED <<file, tmp>>

\* GetCheckpoint reads the record and returns.
LoadForGet(c) ==
  /\ pc[c] = "load" /\ req[c].op = "get"
  /\ Finish(c, Store!Done(GetCheckpoint(file, req[c].folder, req[c].validity)))
  /\ UNCHANGED <<file, tmp>>

\* AdvanceCheckpoint reads the record and computes the one to save.
LoadForAdvance(c) ==
  /\ pc[c] = "load" /\ req[c].op = "advance"
  /\ local' = [local EXCEPT ![c] =
                 AdvanceCheckpoint(load(file), req[c].folder, req[c].validity, req[c].uid)]
  /\ Goto(c, "write")
  /\ UNCHANGED <<file, tmp, mu, req, res>>

\* Mutant: the record is written over checkpoint.json itself.
WriteOK_InPlace(c) ==
  /\ pc[c] = "write"
  /\ \E written \in {JsonFile(local[c]), CorruptFile} : tmp' = written /\ file' = written
  /\ Goto(c, "rename")
  /\ UNCHANGED <<mu, local, req, res>>

\* MkdirAll and WriteFile of the temporary file.
WriteOK(c) ==
  /\ pc[c] = "write"
  /\ tmp' = JsonFile(local[c])
  /\ Goto(c, "rename")
  /\ UNCHANGED <<file, mu, local, req, res>>

\* MkdirAll fails, or WriteFile does, maybe after a part of the record.
WriteFails(c) ==
  /\ pc[c] = "write"
  /\ tmp' \in {tmp, CorruptFile}
  /\ Finish(c, Store!Error)
  /\ UNCHANGED file

RenameOK(c) ==
  /\ pc[c] = "rename"
  /\ file' = tmp
  /\ tmp' = MissingFile
  /\ Finish(c, Store!Done(0))

RenameFails(c) ==
  /\ pc[c] = "rename"
  /\ Finish(c, Store!Error)
  /\ UNCHANGED <<file, tmp>>

Unlock(c) ==
  /\ pc[c] = "unlock"
  /\ mu' = NoCaller
  /\ Goto(c, "idle")
  /\ req' = [req EXCEPT ![c] = Store!NoRequest]
  /\ res' = [res EXCEPT ![c] = Store!Error]
  /\ UNCHANGED <<file, tmp, local>>

\* The process dies, maybe in the middle of WriteFile, and is started again.
Crash ==
  /\ mu' = NoCaller
  /\ pc' = [c \in Callers |-> "idle"]
  /\ local' = [c \in Callers |-> ZeroCheckpoint]
  /\ \/ UNCHANGED tmp
     \/ (\E c \in Callers : pc[c] = "write") /\ tmp' = CorruptFile
  /\ req' = [c \in Callers |-> Store!NoRequest]
  /\ res' = [c \in Callers |-> Store!Error]
  /\ UNCHANGED file

\* checkpoint.json is deleted or damaged while nobody uses it.
LoseFile ==
  /\ \A c \in Callers : pc[c] = "idle"
  /\ file' \in {MissingFile, CorruptFile}
  /\ UNCHANGED <<tmp, mu, pc, local, req, res>>

Next ==
  \/ \E c \in Callers, r \in Request : Call(c, r)
  \/ \E c \in Callers :
       \/ Lock(c) \/ LoadFails(c) \/ LoadForGet(c) \/ LoadForAdvance(c)
       \/ WriteOK(c) \/ WriteFails(c) \/ RenameOK(c) \/ RenameFails(c) \/ Unlock(c)
  \/ Crash \/ LoseFile

Spec == Init /\ [][Next]_vars

-----------------------------------------------------------------------------
(* Properties *)

\* Type invariant of the repository: the record saved is always one for a UID that
\* exists.
TypeOK ==
  /\ file \in CheckpointFileType /\ tmp \in CheckpointFileType
  /\ mu \in Callers \cup {NoCaller}
  /\ pc \in [Callers -> {"idle", "lock", "load", "write", "rename", "unlock"}]
  /\ local \in [Callers -> Checkpoint]
  /\ req \in [Callers -> Request \cup {Store!NoRequest}]
  /\ res \in [Callers -> Result]

\* The repository is the single-step store of CheckpointStore: concurrent calls do not
\* lose each other's advance, and a failed or interrupted save changes nothing.
ImplementsStore == Store!Spec

\* Only LoseFile ever leaves a checkpoint.json that does not parse: whatever save does,
\* and wherever it dies, the file holds a whole record (AdvanceCheckpoint and save).
SaveNeverDamages ==
  [][file'.state = "corrupt" /\ file.state # "corrupt" => \A c \in Callers : pc[c] = "idle"]_vars

\* Between two calls for the same mailbox the stored UID never goes down while anybody is
\* in a call (AdvanceCheckpoint's comparison and the mutex together).
NoRegression ==
  [][(\E c \in Callers : pc[c] # "idle")
       /\ SameMailbox(load(file'), load(file).folder, load(file).validity)
       => load(file').lastUID >= load(file).lastUID]_vars
=============================================================================
