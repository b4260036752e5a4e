----------------------------- MODULE Aggregator -----------------------------
(***************************************************************************)
(* internal/online/aggregator.go.  SetIMAP is called by the worker and     *)
(* SetSMTP by any of the handler's goroutines; both hold the mutex while   *)
(* they set their flag and while the callback, iface.SetOnline, runs.      *)
(***************************************************************************)

CONSTANTS
  Callers,   \* goroutines
  NoOne      \* holder of the free mutex

ASSUME NoOneAssumption == NoOne \notin Callers

VARIABLES
  imap, smtp, last,  \* the Aggregator's fields
  mu,                \* who holds its mutex
  pipe,              \* what iface.SetOnline was last told
  pc,                \* caller -> where it is
  call,              \* caller -> the component and value it sets
  combined           \* caller -> the local variable of update

fields == <<imap, smtp, last>>
local  == <<call, combined>>
vars   == <<fields, mu, pipe, pc, local>>

Components == {"imap", "smtp"}
Request == [component : Components, online : BOOLEAN]

Goto(c, l) == pc' = [pc EXCEPT ![c] = l]

\* NewAggregator has called callback(false).
Init ==
  /\ imap = FALSE /\ smtp = FALSE /\ last = FALSE
  /\ mu = NoOne
  /\ pipe = FALSE
  /\ pc = [c \in Callers |-> "idle"]
  /\ call = [c \in Callers |-> [component |-> "imap", online |-> FALSE]]
  /\ combined = [c \in Callers |-> FALSE]

Call(c, r) ==
  /\ pc[c] = "idle"
  /\ call' = [call EXCEPT ![c] = r]
  /\ Goto(c, "lock")
  /\ UNCHANGED <<fields, mu, pipe, combined>>

Lock(c) ==
  /\ pc[c] = "lock"
  /\ mu = NoOne
  /\ mu' = c
  /\ Goto(c, "update")
  /\ UNCHANGED <<fields, pipe, local>>

\* The flag is set; update compares the conjunction with what was told last.
Assign(c) ==
  /\ imap' = IF call[c].component = "imap" THEN call[c].online ELSE imap
  /\ smtp' = IF call[c].component = "smtp" THEN call[c].online ELSE smtp
  /\ last' = (imap' /\ smtp')
  /\ combined' = [combined EXCEPT ![c] = last']

\* Mutant: the mutex is released before the callback.
Update_UnlocksFirst(c) ==
  /\ pc[c] = "update"
  /\ Assign(c)
  /\ Goto(c, IF last' # last THEN "callback" ELSE "unlock")
  /\ mu' = NoOne
  /\ UNCHANGED <<pipe, call>>

\* Mutant: the callback is called whether or not the conjunction changed.
Update_Always(c) ==
  /\ pc[c] = "update"
  /\ Assign(c)
  /\ Goto(c, "callback")
  /\ UNCHANGED <<mu, pipe, call>>

Update(c) ==
  /\ pc[c] = "update"
  /\ Assign(c)
  /\ Goto(c, IF last' # last THEN "callback" ELSE "unlock")
  /\ UNCHANGED <<mu, pipe, call>>

Callback(c) ==
  /\ pc[c] = "callback"
  /\ pipe' = combined[c]
  /\ Goto(c, "unlock")
  /\ UNCHANGED <<fields, mu, local>>

Unlock(c) ==
  /\ pc[c] = "unlock"
  /\ mu' = NoOne
  /\ Goto(c, "idle")
  /\ UNCHANGED <<fields, pipe, local>>

Next ==
  \E c \in Callers :
    \/ \E r \in Request : Call(c, r)
    \/ Lock(c) \/ Update(c) \/ Callback(c) \/ Unlock(c)

Spec == Init /\ [][Next]_vars

-----------------------------------------------------------------------------
(* Properties *)

\* Type invariant of the aggregator and its callers.
TypeOK ==
  /\ {imap, smtp, last, pipe} \subseteq BOOLEAN
  /\ mu \in Callers \cup {NoOne}
  /\ pc \in [Callers -> {"idle", "lock", "update", "callback", "unlock"}]
  /\ call \in [Callers -> Request]
  /\ combined \in [Callers -> BOOLEAN]

\* A change counts when the callback has been made: while one is pending the component
\* that caused it still has its old value.
Pending(component) == \E c \in Callers : pc[c] = "callback" /\ call[c].component = component

Signal == INSTANCE OnlineSignal WITH
  imap <- IF Pending("imap") THEN ~imap ELSE imap,
  smtp <- IF Pending("smtp") THEN ~smtp ELSE smtp

\* Concurrent SetIMAP and SetSMTP look to the pipe like single steps: it is told the
\* conjunction of the two, in the order in which they changed.
ImplementsSignal == Signal!Spec

\* Whenever the mutex is free the pipe has been told imap && smtp.
PipeAgrees == mu = NoOne => pipe = (imap /\ smtp)

\* iface.SetOnline is called on transitions only, never twice with the same value.
TransitionsOnly ==
  [][\A c \in Callers : pc[c] = "callback" /\ pc'[c] # "callback" => pipe' # pipe]_vars
=============================================================================
