---------------------------- MODULE SmtpHandler ----------------------------
(***************************************************************************)
(* The outbound half of the bridge: internal/pipe/handler.go with the      *)
(* outcomes of internal/transport/smtp.go's Send and Probe.                *)
(*                                                                         *)
(* Goroutines: calls of HandlePacket (TestConcurrentHandlePacket allows    *)
(* several at a time), StartupProbe, and the recover goroutines that       *)
(* beginRecovery starts.  Steps end at network operations, at sleeps, at   *)
(* the atomic operations on h.recovering and at calls of setOnline.        *)
(*                                                                         *)
(* Every failure uses up one unit of MaxFaults.                            *)
(***************************************************************************)
EXTENDS Integers, FiniteSets

CONSTANTS
  Senders,           \* concurrent calls of HandlePacket
  Startup,           \* the StartupProbe goroutine
  Recoverers,        \* identities for recover goroutines
  SendTimeouts,      \* sendTimeout may expire during a call
  RecoveryDelay,     \* smtp.recovery_delay
  MaxRecoveryDelay,  \* smtp.max_recovery_delay
  MaxFaults          \* bound: failures in a behaviour

ASSUME StartupAssumption  == Startup \notin Senders
ASSUME FlagsAssumption    == SendTimeouts \in BOOLEAN
ASSUME RecoveryAssumption == /\ RecoveryDelay \in Nat \ {0} /\ MaxRecoveryDelay \in Nat
                             /\ RecoveryDelay <= MaxRecoveryDelay
ASSUME FaultsAssumption   == MaxFaults \in Nat

maxRetries == 3
Threads == Senders \cup {Startup}

VARIABLES
  pc,          \* thread -> where it is
  attempt,     \* sender -> attempt of HandlePacket's loop
  expired,     \* sender -> sendCtx has timed out
  copies,      \* sender -> copies of its packet the mail server accepted
  recovering,  \* h.recovering
  rec,         \* recover goroutine -> where it is, "none" if it does not run
  delay,       \* recover goroutine -> its backoff
  smtpOnline,  \* the last value given to setOnline
  up,          \* the mail server can be reached
  ctxDone,     \* the process context is cancelled
  faults,      \* failures so far
  owed         \* a packet was given up and no probe has begun or succeeded since

sending  == <<attempt, expired, copies>>
recovery == <<rec, delay>>
vars == <<pc, sending, recovering, recovery, smtpOnline, up, ctxDone, faults, owed>>

Init ==
  /\ pc = [t \in Threads |-> IF t = Startup THEN "probe" ELSE "idle"]
  /\ smtpOnline = FALSE
  /\ attempt = [s \in Senders |-> 1]
  /\ expired = [s \in Senders |-> FALSE]
  /\ copies = [s \in Senders |-> 0]
  /\ recovering = FALSE
  /\ rec = [r \in Recoverers |-> "none"]
  /\ delay = [r \in Recoverers |-> RecoveryDelay]
  /\ up = TRUE
  /\ ctxDone = FALSE
  /\ faults = 0
  /\ owed = FALSE

Fault == faults < MaxFaults /\ faults' = faults + 1

\* A network operation fails by itself, or because the server is away or its context
\* is over.
NetFault(over) == IF over \/ ~up THEN UNCHANGED faults ELSE Fault

Goto(t, l) == pc' = [pc EXCEPT ![t] = l]

-----------------------------------------------------------------------------
(* HandlePacket *)

\* A packet that Encode accepts; the others are logged and dropped at once.
StartPacket(s) ==
  /\ pc[s] = "idle"
  /\ Goto(s, "send")
  /\ attempt' = [attempt EXCEPT ![s] = 1]
  /\ expired' = [expired EXCEPT ![s] = FALSE]
  /\ copies' = [copies EXCEPT ![s] = 0]
  /\ UNCHANGED <<recovering, recovery, smtpOnline, up, ctxDone, faults, owed>>

\* sendTimeout passes.
Expire(s) ==
  /\ SendTimeouts
  /\ pc[s] \in {"send", "backoff"} /\ ~expired[s]
  /\ Fault
  /\ expired' = [expired EXCEPT ![s] = TRUE]
  /\ UNCHANGED <<pc, attempt, copies, recovering, recovery, smtpOnline, up, ctxDone, owed>>

\* connect and Send look at the context, and its deadline bounds their I/O.  Cancelling
\* does not interrupt a Send that is past the last look: one that succeeds after all
\* counts as having ended before.
SendOver(s) == expired[s] \/ ctxDone

SendOK(s) ==
  /\ pc[s] = "send"
  /\ up /\ ~SendOver(s)
  /\ copies' = [copies EXCEPT ![s] = @ + 1]
  /\ Goto(s, "idle")
  /\ UNCHANGED <<attempt, expired, recovering, recovery, smtpOnline, up, ctxDone, faults, owed>>

\* Connecting, AUTH, MAIL, RCPT or DATA fails, or the server refuses the message: it has
\* not accepted it.
SendFails(s) ==
  /\ pc[s] = "send"
  /\ NetFault(SendOver(s))
  /\ Goto(s, IF attempt[s] < maxRetries THEN "backoff" ELSE "begin")
  /\ owed' = (owed \/ attempt[s] >= maxRetries)
  /\ UNCHANGED <<sending, recovering, recovery, smtpOnline, up, ctxDone>>

\* Mutant: an unclear answer is retried like any other error.
SendUnknown_Retries(s) ==
  /\ pc[s] = "send"
  /\ up
  /\ Fault
  /\ copies' \in {copies, [copies EXCEPT ![s] = @ + 1]}
  /\ Goto(s, IF attempt[s] < maxRetries THEN "backoff" ELSE "begin")
  /\ owed' = (owed \/ attempt[s] >= maxRetries)
  /\ UNCHANGED <<attempt, expired, recovering, recovery, smtpOnline, up, ctxDone>>

\* ErrDataOutcomeUnknown: the dot is sent, the answer does not come; the server may or
\* may not have the message.
SendUnknown(s) ==
  /\ pc[s] = "send"
  /\ up
  /\ Fault
  /\ copies' \in {copies, [copies EXCEPT ![s] = @ + 1]}
  /\ Goto(s, "begin")
  /\ owed' = TRUE
  /\ UNCHANGED <<attempt, expired, recovering, recovery, smtpOnline, up, ctxDone>>

BackoffElapsed(s) ==
  /\ pc[s] = "backoff"
  /\ Goto(s, "send")
  /\ attempt' = [attempt EXCEPT ![s] = @ + 1]
  /\ UNCHANGED <<expired, copies, recovering, recovery, smtpOnline, up, ctxDone, faults, owed>>

\* sendCtx.Done() in the select: the packet is lost, and that is all.
GiveUp(s) ==
  /\ pc[s] = "backoff"
  /\ SendOver(s)
  /\ Goto(s, "idle")
  /\ owed' = TRUE
  /\ UNCHANGED <<sending, recovering, recovery, smtpOnline, up, ctxDone, faults>>

-----------------------------------------------------------------------------
(* beginRecovery, called by HandlePacket and StartupProbe *)

Return(t) == Goto(t, IF t = Startup THEN "done" ELSE "idle")

\* Mutant: the flag is set whatever it was.
BeginRecovery_NoSwap(t) ==
  /\ pc[t] = "begin"
  /\ recovering' = TRUE
  /\ Goto(t, "offline")
  /\ UNCHANGED <<sending, recovery, smtpOnline, up, ctxDone, faults, owed>>

\* Mutant: offline is signalled before the flag is looked at.
BeginRecovery_OfflineFirst(t) ==
  /\ pc[t] = "begin"
  /\ smtpOnline' = FALSE
  /\ recovering' = TRUE
  /\ IF recovering THEN Return(t) ELSE Goto(t, "offline")
  /\ UNCHANGED <<sending, recovery, up, ctxDone, faults, owed>>

\* CompareAndSwap(false, true): the loser returns.
BeginRecovery(t) ==
  /\ pc[t] = "begin"
  /\ recovering' = TRUE
  /\ IF recovering THEN Return(t) ELSE Goto(t, "offline")
  /\ UNCHANGED <<sending, recovery, smtpOnline, up, ctxDone, faults, owed>>

\* setOnline(false); go h.recover(ctx)
SignalOffline(t) ==
  /\ pc[t] = "offline"
  /\ smtpOnline' = FALSE
  /\ \E r \in Recoverers :
       /\ rec[r] = "none"
       /\ rec' = [rec EXCEPT ![r] = "sleep"]
       /\ delay' = [delay EXCEPT ![r] = RecoveryDelay]
  /\ Return(t)
  /\ UNCHANGED <<sending, recovering, up, ctxDone, faults, owed>>

-----------------------------------------------------------------------------
(* StartupProbe *)

StartupProbeOK ==
  /\ pc[Startup] = "probe"
  /\ up /\ ~ctxDone
  /\ Goto(Startup, "online")
  /\ UNCHANGED <<sending, recovering, recovery, smtpOnline, up, ctxDone, faults, owed>>

StartupProbeFails ==
  /\ pc[Startup] = "probe"
  /\ NetFault(ctxDone)
  /\ Goto(Startup, "begin")
  /\ UNCHANGED <<sending, recovering, recovery, smtpOnline, up, ctxDone, owed>>

StartupOnline ==
  /\ pc[Startup] = "online"
  /\ smtpOnline' = TRUE
  /\ Goto(Startup, "done")
  /\ UNCHANGED <<sending, recovering, recovery, up, ctxDone, faults, owed>>

-----------------------------------------------------------------------------
(* recover *)

RecGoto(r, l) == rec' = [rec EXCEPT ![r] = l]

RecSleepOver(r) ==
  /\ rec[r] = "sleep"
  /\ RecGoto(r, "probe")
  /\ owed' = FALSE
  /\ UNCHANGED <<pc, sending, recovering, delay, smtpOnline, up, ctxDone, faults>>

\* Mutant: the context is only looked at by the next probe.
RecCancelled_Ignored(r) == rec[r] = "sleep" /\ ctxDone /\ UNCHANGED vars

RecCancelled(r) ==
  /\ rec[r] = "sleep" /\ ctxDone
  /\ RecGoto(r, "clear")
  /\ UNCHANGED <<pc, sending, recovering, delay, smtpOnline, up, ctxDone, faults, owed>>

\* Mutant: the flag is cleared before the interface is online again.
ProbeOK_ClearsFlag(r) ==
  /\ rec[r] = "probe"
  /\ up /\ ~ctxDone
  /\ RecGoto(r, "online")
  /\ recovering' = FALSE
  /\ owed' = FALSE
  /\ UNCHANGED <<pc, sending, delay, smtpOnline, up, ctxDone, faults>>

ProbeOK(r) ==
  /\ rec[r] = "probe"
  /\ up /\ ~ctxDone
  /\ RecGoto(r, "online")
  /\ owed' = FALSE
  /\ UNCHANGED <<pc, sending, recovering, delay, smtpOnline, up, ctxDone, faults>>

\* Mutant: doubles without the limit.
NextDelay_Unlimited(d) == 2 * d

NextDelay(d) == IF 2 * d < MaxRecoveryDelay THEN 2 * d ELSE MaxRecoveryDelay

\* Mutant: one failed probe ends the recovery.
ProbeFails_Quits(r) ==
  /\ rec[r] = "probe"
  /\ NetFault(ctxDone)
  /\ RecGoto(r, "clear")
  /\ UNCHANGED <<pc, sending, recovering, delay, smtpOnline, up, ctxDone, owed>>

ProbeFails(r) ==
  /\ rec[r] = "probe"
  /\ NetFault(ctxDone)
  /\ RecGoto(r, "sleep")
  /\ delay' = [delay EXCEPT ![r] = NextDelay(@)]
  /\ UNCHANGED <<pc, sending, recovering, smtpOnline, up, ctxDone, owed>>

RecOnline(r) ==
  /\ rec[r] = "online"
  /\ smtpOnline' = TRUE
  /\ RecGoto(r, "clear")
  /\ UNCHANGED <<pc, sending, recovering, delay, up, ctxDone, faults, owed>>

\* The deferred h.recovering.Store(false).
RecReturn(r) ==
  /\ rec[r] = "clear"
  /\ recovering' = FALSE
  /\ RecGoto(r, "none")
  /\ delay' = [delay EXCEPT ![r] = RecoveryDelay]
  /\ UNCHANGED <<pc, sending, smtpOnline, up, ctxDone, faults, owed>>

-----------------------------------------------------------------------------
(* Environment *)

ServerDown ==
  /\ up
  /\ Fault
  /\ up' = FALSE
  /\ UNCHANGED <<pc, sending, recovering, recovery, smtpOnline, ctxDone, owed>>

ServerUp ==
  /\ ~up
  /\ up' = TRUE
  /\ UNCHANGED <<pc, sending, recovering, recovery, smtpOnline, ctxDone, faults, owed>>

Cancel ==
  /\ ~ctxDone
  /\ Fault
  /\ ctxDone' = TRUE
  /\ UNCHANGED <<pc, sending, recovering, recovery, smtpOnline, up, owed>>

-----------------------------------------------------------------------------
(* Specification *)

SenderStep(s) ==
  \/ SendOK(s) \/ SendFails(s) \/ SendUnknown(s) \/ BackoffElapsed(s) \/ GiveUp(s)
  \/ BeginRecovery(s) \/ SignalOffline(s)

StartupStep ==
  \/ StartupProbeOK \/ StartupProbeFails \/ StartupOnline
  \/ BeginRecovery(Startup) \/ SignalOffline(Startup)

RecStep(r) ==
  \/ RecSleepOver(r) \/ RecCancelled(r) \/ ProbeOK(r) \/ ProbeFails(r)
  \/ RecOnline(r) \/ RecReturn(r)

Next ==
  \/ \E s \in Senders : StartPacket(s) \/ Expire(s) \/ SenderStep(s)
  \/ StartupStep
  \/ \E r \in Recoverers : RecStep(r)
  \/ ServerDown \/ ServerUp \/ Cancel

Spec == Init /\ [][Next]_vars

\* Every goroutine runs, network operations come to an end (their timeouts), and the mail
\* server comes back.  Once the context is cancelled the select of recover takes it.
Fairness ==
  /\ \A s \in Senders : WF_vars(SenderStep(s))
  /\ WF_vars(StartupStep)
  /\ \A r \in Recoverers : WF_vars(RecStep(r)) /\ SF_vars(RecCancelled(r))
  /\ WF_vars(ServerUp)

FairSpec == Spec /\ Fairness

-----------------------------------------------------------------------------
(* Properties *)

\* Type invariant of the handler: at most maxRetries attempts, and a recovery backoff
\* between its base and its limit.
TypeOK ==
  /\ pc \in [Threads -> {"idle", "send", "backoff", "begin", "offline",
                        "probe", "online", "done"}]
  /\ attempt \in [Senders -> 1..maxRetries]
  /\ expired \in [Senders -> BOOLEAN]
  /\ copies \in [Senders -> Nat]
  /\ recovering \in BOOLEAN
  /\ rec \in [Recoverers -> {"none", "sleep", "probe", "online", "clear"}]
  /\ delay \in [Recoverers -> RecoveryDelay..MaxRecoveryDelay]
  /\ {smtpOnline, up, ctxDone, owed} \subseteq BOOLEAN
  /\ faults \in 0..MaxFaults

\* At-most-once: the mail server never accepts a packet twice, although HandlePacket
\* tries three times and some answers are lost.
AtMostOnce == \A s \in Senders : copies[s] <= 1

\* h.recovering admits one recover goroutine at a time.
SingleRecovery ==
  \A r1, r2 \in Recoverers : rec[r1] # "none" /\ rec[r2] # "none" => r1 = r2

\* recover has not found the server back yet, or has not said so.
Recovering == \E r \in Recoverers : rec[r] \in {"sleep", "probe", "online"}

\* An offline interface is never abandoned: unless the bridge stops, some goroutine is on
\* its way to setOnline(true).
NeverAbandoned ==
  \/ smtpOnline
  \/ ctxDone
  \/ pc[Startup] \in {"probe", "online", "begin"}
  \/ \E t \in Threads : pc[t] = "offline"
  \/ Recovering

\* During recovery the interface is offline (README, "Delivery semantics").
OfflineWhileRecovering == Recovering => ~smtpOnline

\* How far that is so: a recovery begins offline, and nothing but the late success of
\* StartupProbe brings the interface online before the recovery does.  Concurrent packets,
\* the end of the recovery before and the start of the next one do not.
OnlyStartupOverrules ==
  [][Recovering' /\ smtpOnline' => (Recovering /\ smtpOnline) \/ StartupOnline]_vars

\* The interface comes back once the server does.
ComesBack == ~smtpOnline ~> (smtpOnline \/ ctxDone)

\* After cancellation every recovery ends.
RecoveryStops == ctxDone ~> \A r \in Recoverers : rec[r] = "none"

\* "If all retries fail, the packet is lost at this layer and a recovery probe loop
\* begins" (README): a probe begins, or one on its way succeeds, after every such packet.
ProbeFollowsLoss == owed ~> (~owed \/ ctxDone)
=============================================================================
