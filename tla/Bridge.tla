------------------------------- MODULE Bridge -------------------------------
(***************************************************************************)
(* cmd/rns-over-email/main.go: run puts the bridge together, starts its    *)
(* goroutines, waits for the first of them to end and gives the other one  *)
(* a limited time.                                                         *)
(*                                                                         *)
(* The two halves are reduced to what they do to each other: the worker to *)
(* the stages of a session, the handler to its startup probe and its       *)
(* recovery.  They meet in the aggregator, which is the single-step signal *)
(* of OnlineSignal (Aggregator implements it).  ImapWorker and SmtpHandler *)
(* model the halves in full.                                               *)
(*                                                                         *)
(* Time passes only where a limit is running, and only when no goroutine   *)
(* has something to do at once: see Busy.                                  *)
(***************************************************************************)
EXTENDS Naturals, Sequences

CONSTANTS
  DrainLimit,  \* the time run gives the second goroutine
  IOTimeout,   \* imapIOTimeout, in the same unit
  MaxFaults    \* bound: failures in a behaviour

ASSUME LimitAssumption == {DrainLimit, IOTimeout} \subseteq Nat \ {0} /\ MaxFaults \in Nat

VARIABLES
  mode,              \* imap.tls
  main,              \* where run is
  ctxDone,           \* the process context is cancelled
  stdin,             \* rnsd's end of the pipe
  iface,             \* the goroutine of iface.Start
  worker,            \* the goroutine of imapW.Run
  startup,           \* the goroutine of StartupProbe
  recovery,          \* the recover goroutine
  imap, smtp, pipe,  \* the aggregator and what it told the pipe
  errCh,             \* results of the first two goroutines
  err,               \* the result run returns
  drainLeft,         \* what is left of DrainLimit
  ioLeft,            \* what is left of the STARTTLS negotiation's timeout
  faults,            \* failures so far
  probed             \* history: a probe of the SMTP server has succeeded

outside == <<mode, stdin>>
signal == <<imap, smtp, pipe>>
clocks == <<drainLeft, ioLeft>>
result == <<errCh, err>>
outbound == <<startup, recovery, probed>>
vars == <<main, ctxDone, outside, iface, worker, outbound, signal, result, clocks, faults>>

Signal == INSTANCE OnlineSignal

Running == main # "exited"

Fault == faults < MaxFaults /\ faults' = faults + 1

\* Once the context is cancelled, failing costs nothing.
NetFault == IF ctxDone THEN UNCHANGED faults ELSE Fault

\* go-rns-pipe takes its transport to be online until it is told otherwise.
Init ==
  /\ mode \in {"tls", "starttls", "none"}
  /\ main = "new" /\ ctxDone = FALSE /\ stdin = "open"
  /\ iface = "none" /\ worker = "none" /\ startup = "none" /\ recovery = "none"
  /\ imap = FALSE /\ smtp = FALSE /\ pipe = TRUE
  /\ errCh = <<>> /\ err = "none"
  /\ drainLeft = DrainLimit /\ ioLeft = 0
  /\ faults = 0 /\ probed = FALSE

-----------------------------------------------------------------------------
(* run: construction *)

\* Mutant: the initial callback is not made.
NewAggregator_Silent ==
  /\ main = "new"
  /\ main' = "probe"
  /\ UNCHANGED <<ctxDone, outside, iface, worker, outbound, signal, result, clocks, faults>>

NewAggregator ==
  /\ main = "new"
  /\ main' = "probe"
  /\ pipe' = FALSE
  /\ UNCHANGED <<ctxDone, outside, iface, worker, outbound, imap, smtp, result, clocks, faults>>

GoStartupProbe ==
  /\ main = "probe"
  /\ main' = "pipe"
  /\ startup' = "probe"
  /\ UNCHANGED <<ctxDone, outside, iface, worker, recovery, probed, signal, result, clocks,
                 faults>>

GoPipe ==
  /\ main = "pipe"
  /\ main' = "worker"
  /\ iface' = "running"
  /\ UNCHANGED <<ctxDone, outside, worker, outbound, signal, result, clocks, faults>>

GoWorker ==
  /\ main = "worker"
  /\ main' = "wait"
  /\ worker' = "dial"
  /\ UNCHANGED <<ctxDone, outside, iface, outbound, signal, result, clocks, faults>>

-----------------------------------------------------------------------------
(* run: the end *)

\* Mutant: run does not cancel before it waits for the other goroutine.
FirstResult_NoCancel ==
  /\ main = "wait"
  /\ errCh # <<>>
  /\ main' = "drain"
  /\ err' = Head(errCh) /\ errCh' = Tail(errCh)
  /\ UNCHANGED <<ctxDone, outside, iface, worker, outbound, signal, clocks, faults>>

FirstResult ==
  /\ main = "wait"
  /\ errCh # <<>>
  /\ main' = "drain"
  /\ err' = Head(errCh) /\ errCh' = Tail(errCh)
  /\ ctxDone' = TRUE
  /\ UNCHANGED <<outside, iface, worker, outbound, signal, clocks, faults>>

SecondResult ==
  /\ main = "drain"
  /\ errCh # <<>>
  /\ main' = "exited"
  /\ errCh' = Tail(errCh)
  /\ UNCHANGED <<ctxDone, outside, iface, worker, outbound, signal, err, clocks, faults>>

\* Mutant: run waits for the other goroutine without a limit.
DrainTimeout_Never == main = "drain" /\ drainLeft = 0 /\ UNCHANGED vars

DrainTimeout ==
  /\ main = "drain"
  /\ drainLeft = 0
  /\ main' = "exited"
  /\ UNCHANGED <<ctxDone, outside, iface, worker, outbound, signal, result, clocks, faults>>

\* SIGINT or SIGTERM, from NotifyContext on.
Signalled ==
  /\ Running /\ ~ctxDone
  /\ ctxDone' = TRUE
  /\ UNCHANGED <<main, outside, iface, worker, outbound, signal, result, clocks, faults>>

-----------------------------------------------------------------------------
(* iface.Start: ends with the context, or with ErrPipeClosed when rnsd goes *)

Eof ==
  /\ Running /\ stdin = "open"
  /\ stdin' = "eof"
  /\ UNCHANGED <<mode, main, ctxDone, iface, worker, outbound, signal, result, clocks, faults>>

PipeReturns(e) ==
  /\ Running /\ iface = "running"
  /\ (e = "closed" /\ stdin = "eof") \/ (e = "cancelled" /\ ctxDone)
  /\ iface' = "returned"
  /\ errCh' = Append(errCh, e)
  /\ UNCHANGED <<main, ctxDone, outside, worker, outbound, signal, err, clocks, faults>>

-----------------------------------------------------------------------------
(* imapW.Run *)

\* Run returns, with no error: only a cancelled context makes it.
WorkerReturns == worker' = "returned" /\ errCh' = Append(errCh, "nil")

\* Mutant: Run goes back to its loop although it has given its result.
EndSession_GoesOn ==
  /\ Signal!SetIMAP(FALSE)
  /\ worker' = "sleep"
  /\ errCh' = IF ctxDone THEN Append(errCh, "nil") ELSE errCh
  /\ ioLeft' = 0

\* Mutant: a failed session ends Run.
EndSession_Returns == Signal!SetIMAP(FALSE) /\ WorkerReturns /\ ioLeft' = 0

\* runSession returns, and its deferred call signals offline.
EndSession ==
  /\ Signal!SetIMAP(FALSE)
  /\ IF ctxDone THEN WorkerReturns ELSE worker' = "sleep" /\ UNCHANGED errCh
  /\ ioLeft' = 0

\* DialContext and HandshakeContext look at the context; after a plain dial NewStartTLS
\* negotiates without one.
DialOK ==
  /\ Running /\ worker = "dial" /\ ~ctxDone
  /\ worker' = IF mode = "starttls" THEN "starttls" ELSE "login"
  /\ ioLeft' = IF mode = "starttls" THEN IOTimeout ELSE 0
  /\ UNCHANGED <<main, ctxDone, outside, iface, outbound, signal, result, drainLeft, faults>>

StartTLSOK ==
  /\ Running /\ worker = "starttls"
  /\ worker' = "login"
  /\ ioLeft' = 0
  /\ UNCHANGED <<main, ctxDone, outside, iface, outbound, signal, result, drainLeft, faults>>

\* Mutant: online is signalled after the catch-up fetch.
LoginOK_OnlineLater ==
  /\ Running /\ worker = "login" /\ ~ctxDone
  /\ worker' \in {"inject", "session"}
  /\ IF worker' = "session" THEN Signal!SetIMAP(TRUE) ELSE UNCHANGED signal
  /\ UNCHANGED <<main, ctxDone, outside, iface, outbound, result, clocks, faults>>

\* Login, Select, GetCheckpoint, then online and the catch-up fetch.
LoginOK ==
  /\ Running /\ worker = "login" /\ ~ctxDone
  /\ worker' = "session"
  /\ Signal!SetIMAP(TRUE)
  /\ UNCHANGED <<main, ctxDone, outside, iface, outbound, result, clocks, faults>>

BeginInject ==
  /\ Running /\ worker = "session" /\ ~ctxDone
  /\ worker' = "inject"
  /\ UNCHANGED <<main, ctxDone, outside, iface, outbound, signal, result, clocks, faults>>

\* InjectWithRetry repeats on ErrNotStarted and ErrOffline.
InjectOK ==
  /\ Running /\ worker = "inject"
  /\ iface = "running" /\ pipe
  /\ worker' = "session"
  /\ UNCHANGED <<main, ctxDone, outside, iface, outbound, signal, result, clocks, faults>>

\* Any stage of a session fails: by itself, because the watcher closes the connection
\* of a cancelled context, or because the STARTTLS negotiation times out.
SessionFails ==
  /\ Running /\ worker \in {"dial", "starttls", "login", "session", "inject"}
  /\ IF worker = "starttls"
       THEN IF ioLeft = 0 THEN UNCHANGED faults ELSE Fault
       ELSE NetFault
  /\ EndSession
  /\ UNCHANGED <<main, ctxDone, outside, iface, outbound, err, drainLeft>>

WakeUp ==
  /\ Running /\ worker = "sleep"
  /\ worker' = "dial"
  /\ UNCHANGED <<main, ctxDone, outside, iface, outbound, signal, result, clocks, faults>>

StopSleeping ==
  /\ Running /\ worker = "sleep" /\ ctxDone
  /\ WorkerReturns
  /\ UNCHANGED <<main, ctxDone, outside, iface, outbound, signal, err, clocks, faults>>

-----------------------------------------------------------------------------
(* The handler *)

\* beginRecovery, unless a recovery is under way.
BeginRecovery ==
  IF recovery = "none" THEN recovery' = "sleep" /\ Signal!SetSMTP(FALSE)
                       ELSE UNCHANGED <<recovery, signal>>

StartupProbeOK ==
  /\ Running /\ startup = "probe" /\ ~ctxDone
  /\ startup' = "online"
  /\ probed' = TRUE
  /\ UNCHANGED <<main, ctxDone, outside, iface, worker, recovery, signal, result, clocks, faults>>

StartupOnline ==
  /\ Running /\ startup = "online"
  /\ startup' = "done"
  /\ Signal!SetSMTP(TRUE)
  /\ UNCHANGED <<main, ctxDone, outside, iface, worker, recovery, probed, result, clocks, faults>>

StartupProbeFails ==
  /\ Running /\ startup = "probe"
  /\ NetFault
  /\ startup' = "done"
  /\ BeginRecovery
  /\ UNCHANGED <<main, ctxDone, outside, iface, worker, probed, result, clocks>>

\* HandlePacket gives a packet up.
PacketFails ==
  /\ Running /\ iface = "running"
  /\ Fault
  /\ BeginRecovery
  /\ UNCHANGED <<main, ctxDone, outside, iface, worker, startup, probed, result, clocks>>

RecoverOK ==
  /\ Running /\ recovery = "sleep" /\ ~ctxDone
  /\ recovery' = "none"
  /\ probed' = TRUE
  /\ Signal!SetSMTP(TRUE)
  /\ UNCHANGED <<main, ctxDone, outside, iface, worker, startup, result, clocks, faults>>

RecoverStops ==
  /\ Running /\ recovery = "sleep" /\ ctxDone
  /\ recovery' = "none"
  /\ UNCHANGED <<main, ctxDone, outside, iface, worker, startup, probed, signal, result,
                 clocks, faults>>

-----------------------------------------------------------------------------
(* Time *)

\* Something is due at once: run has a result to take, or the worker is anywhere but in
\* the STARTTLS negotiation and the context is cancelled.
Busy ==
  \/ main \in {"wait", "drain"} /\ errCh # <<>>
  \/ ctxDone /\ worker \in {"dial", "login", "session", "inject", "sleep"}

Tick ==
  /\ main = "drain" \/ worker = "starttls"
  /\ Running /\ ~Busy
  /\ main = "drain" => drainLeft > 0
  /\ worker = "starttls" => ioLeft > 0
  /\ drainLeft' = IF main = "drain" THEN drainLeft - 1 ELSE drainLeft
  /\ ioLeft' = IF worker = "starttls" THEN ioLeft - 1 ELSE ioLeft
  /\ UNCHANGED <<main, ctxDone, outside, iface, worker, outbound, signal, result, faults>>

-----------------------------------------------------------------------------
(* Specification *)

Main == NewAggregator \/ GoStartupProbe \/ GoPipe \/ GoWorker \/ FirstResult \/ SecondResult
        \/ DrainTimeout

PipeStep == \E e \in {"closed", "cancelled"} : PipeReturns(e)

WorkerProgress == DialOK \/ StartTLSOK \/ LoginOK \/ InjectOK \/ WakeUp \/ StopSleeping

WorkerStep == WorkerProgress \/ SessionFails

Handler == StartupProbeOK \/ StartupOnline \/ StartupProbeFails \/ RecoverOK \/ RecoverStops

Exited == main = "exited" /\ UNCHANGED vars

Next ==
  \/ Main \/ PipeStep \/ WorkerStep \/ BeginInject \/ Handler
  \/ Signalled \/ Eof \/ PacketFails \/ Tick \/ Exited

Spec == Init /\ [][Next]_vars

\* Goroutines run; network operations end, in an error when the context is cancelled or
\* their timeout is over; time passes.  That iface.Start returns is never assumed.
Fairness ==
  /\ WF_vars(Main)
  /\ WF_vars(WorkerProgress \/ (ctxDone /\ SessionFails))
  /\ WF_vars(Handler)
  /\ WF_vars(Tick)

\* ... except when rnsd goes: the read of stdin then ends.
FairSpec == Spec /\ Fairness /\ WF_vars(PipeReturns("closed"))

-----------------------------------------------------------------------------
(* Properties *)

\* Type invariant of the process.
TypeOK ==
  /\ mode \in {"tls", "starttls", "none"}
  /\ main \in {"new", "probe", "pipe", "worker", "wait", "drain", "exited"}
  /\ {ctxDone, imap, smtp, pipe, probed} \subseteq BOOLEAN
  /\ stdin \in {"open", "eof"}
  /\ iface \in {"none", "running", "returned"}
  /\ worker \in {"none", "dial", "starttls", "login", "session", "inject", "sleep", "returned"}
  /\ startup \in {"none", "probe", "online", "done"}
  /\ recovery \in {"none", "sleep"}
  /\ errCh \in Seq({"closed", "cancelled", "nil"}) /\ Len(errCh) <= 2
  /\ err \in {"none", "closed", "cancelled", "nil"}
  /\ drainLeft \in 0..DrainLimit /\ ioLeft \in 0..IOTimeout
  /\ faults \in 0..MaxFaults

\* The startup window is closed: a running pipe that is told to be online has an IMAP
\* session behind it and an SMTP server that has answered a probe.
OnlineMeansVerified ==
  iface = "running" /\ pipe => worker \in {"session", "inject"} /\ probed

\* run ends with the worker's work done: the process never exits under a worker that has a
\* session, a packet in inject or a checkpoint to save (comment in run: force-closed sessions
\* end promptly).  Only a STARTTLS negotiation, which no context watches, may outlast the limit.
WorkerEndsFirst ==
  main = "exited" => worker = "returned" \/ (mode = "starttls" /\ worker \in {"starttls", "login"})

\* Without a signal run returns only ErrPipeClosed, for which main exits with status 0: the
\* worker never ends on an error of its own.
OnlyRnsdEndsIt ==
  [][main = "wait" /\ main' = "drain" /\ ~ctxDone => err' = "closed"]_vars

\* The worker does not wait for ever for the handler, or for itself, to bring the
\* pipe online.
InjectEnds == worker = "inject" ~> (worker # "inject" \/ main = "exited")

\* A signal or the end of rnsd ends the process, also when iface.Start does not return.
Exits == (ctxDone \/ stdin = "eof") ~> main = "exited"
=============================================================================
