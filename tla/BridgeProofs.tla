----------------------------- MODULE BridgeProofs -----------------------------
(***************************************************************************)
(* The process for every choice of its two limits and any number of        *)
(* failures: the pipe is online only with both halves behind it, the       *)
(* process ends with the worker's work done, and only rnsd or a signal     *)
(* ends it.                                                                *)
(***************************************************************************)
EXTENDS Bridge, TLAPS

\* run has started a goroutine before it comes to the next line.
StartInv ==
  /\ main = "new" => startup = "none" /\ recovery = "none"
  /\ main \in {"new", "probe", "pipe"} => iface = "none"
  /\ main \in {"new", "probe", "pipe", "worker"} => worker = "none"
  /\ main \in {"worker", "wait", "drain", "exited"} => iface # "none"
  /\ main \in {"wait", "drain", "exited"} => worker # "none"

\* The pipe has been told the conjunction, and each half signals online only with
\* something behind it: a session that is open, a probe that succeeded.
SignalInv ==
  /\ main # "new" => pipe = (imap /\ smtp)
  /\ imap => worker \in {"session", "inject"}
  /\ smtp \/ startup = "online" => probed

\* errCh holds the results of the goroutines that have returned, less those run has taken.
Returned == (IF iface = "returned" THEN 1 ELSE 0) + (IF worker = "returned" THEN 1 ELSE 0)
Taken == IF main = "drain" THEN 1 ELSE 0
ResultInv ==
  /\ main # "exited" => Len(errCh) + Taken = Returned
  /\ ~ctxDone => \A i \in 1..Len(errCh) : errCh[i] = "closed"

\* Once time has passed in the drain, a worker that has not returned is in a STARTTLS
\* negotiation or just past it.
DrainInv ==
  /\ main \notin {"drain", "exited"} => drainLeft = DrainLimit
  /\ worker = "starttls" => mode = "starttls"
  /\ main = "drain" =>
       /\ ctxDone
       /\ drainLeft < DrainLimit =>
            worker = "returned" \/ (mode = "starttls" /\ worker \in {"starttls", "login"})

IndInv == TypeOK /\ StartInv /\ SignalInv /\ ResultInv /\ DrainInv /\ WorkerEndsFirst

\* beginRecovery leaves a recovery and signals behind.
LEMMA RecoveryType ==
  ASSUME TypeOK, BeginRecovery, UNCHANGED <<ctxDone, probed>>
  PROVE  recovery' \in {"none", "sleep"} /\ {ctxDone, imap, smtp, pipe, probed}' \subseteq BOOLEAN
<1>1. recovery' \in {"none", "sleep"}
  BY DEF BeginRecovery, TypeOK
<1>2. {ctxDone, imap, smtp, pipe, probed}' \subseteq BOOLEAN
  BY Zenon DEF BeginRecovery, Signal!SetSMTP, signal, TypeOK
<1>3. QED
  BY <1>1, <1>2

\* Types are kept; errCh has room for both results.
LEMMA TypeStep ==
  ASSUME TypeOK, StartInv, ResultInv, Next PROVE TypeOK'
<1> USE DEF outside, signal, clocks, result, outbound
<1>1. CASE NewAggregator
  BY <1>1 DEF NewAggregator, TypeOK, StartInv, ResultInv, Returned, Taken
<1>2. CASE GoStartupProbe
  BY <1>2 DEF GoStartupProbe, TypeOK, StartInv, ResultInv, Returned, Taken
<1>3. CASE GoPipe
  BY <1>3 DEF GoPipe, TypeOK, StartInv, ResultInv, Returned, Taken
<1>4. CASE GoWorker
  BY <1>4 DEF GoWorker, TypeOK, StartInv, ResultInv, Returned, Taken
<1>5. CASE FirstResult
  BY <1>5 DEF FirstResult, TypeOK, StartInv, ResultInv, Returned, Taken
<1>6. CASE SecondResult
  BY <1>6 DEF SecondResult, TypeOK, StartInv, ResultInv, Returned, Taken
<1>7. CASE DrainTimeout
  BY <1>7 DEF DrainTimeout, TypeOK, StartInv, ResultInv, Returned, Taken
<1>8. CASE PipeStep
  BY <1>8 DEF PipeStep, PipeReturns, Running, TypeOK, StartInv, ResultInv, Returned, Taken
<1>9. CASE DialOK
  BY <1>9, LimitAssumption DEF DialOK, Running, TypeOK, StartInv, ResultInv, Returned, Taken
<1>10. CASE StartTLSOK
  BY <1>10, LimitAssumption DEF StartTLSOK, Running, TypeOK, StartInv, ResultInv, Returned,
     Taken
<1>11. CASE LoginOK
  BY <1>11 DEF LoginOK, Signal!SetIMAP, Running, TypeOK, StartInv, ResultInv, Returned,
     Taken
<1>12. CASE InjectOK
  BY <1>12 DEF InjectOK, Running, TypeOK, StartInv, ResultInv, Returned, Taken
<1>13. CASE WakeUp
  BY <1>13 DEF WakeUp, Running, TypeOK, StartInv, ResultInv, Returned, Taken
<1>14. CASE StopSleeping
  BY <1>14 DEF StopSleeping, WorkerReturns, Running, TypeOK, StartInv, ResultInv, Returned,
     Taken
<1>15. CASE SessionFails
  <2>1. faults' \in 0..MaxFaults
    BY <1>15, LimitAssumption DEF SessionFails, NetFault, Fault, TypeOK
  <2>2. {ctxDone, imap, smtp, pipe, probed}' \subseteq BOOLEAN
    BY <1>15, Zenon DEF SessionFails, EndSession, Signal!SetIMAP, TypeOK
  <2>3. /\ worker' \in {"sleep", "returned"}
        /\ errCh' \in Seq({"closed", "cancelled", "nil"}) /\ Len(errCh') <= 2
    BY <1>15 DEF SessionFails, EndSession, WorkerReturns, Running, TypeOK, ResultInv, Returned, Taken
  <2>4. drainLeft' \in 0..DrainLimit /\ ioLeft' \in 0..IOTimeout
    BY <1>15, LimitAssumption DEF SessionFails, EndSession, TypeOK
  <2>5. QED
    BY <1>15, <2>1, <2>2, <2>3, <2>4 DEF SessionFails, TypeOK
<1>16. CASE BeginInject
  BY <1>16 DEF BeginInject, Running, TypeOK, StartInv, ResultInv, Returned, Taken
<1>17. CASE StartupProbeOK
  BY <1>17 DEF StartupProbeOK, Running, TypeOK, StartInv, ResultInv, Returned, Taken
<1>18. CASE StartupOnline
  BY <1>18 DEF StartupOnline, Signal!SetSMTP, Running, TypeOK, StartInv, ResultInv,
     Returned, Taken
<1>19. CASE StartupProbeFails
  <2>1. faults' \in 0..MaxFaults
    BY <1>19, LimitAssumption DEF StartupProbeFails, NetFault, Fault, TypeOK
  <2>2. recovery' \in {"none", "sleep"} /\ {ctxDone, imap, smtp, pipe, probed}' \subseteq BOOLEAN
    BY <1>19, RecoveryType DEF StartupProbeFails
  <2>3. QED
    BY <1>19, <2>1, <2>2 DEF StartupProbeFails, TypeOK
<1>20. CASE RecoverOK
  BY <1>20 DEF RecoverOK, Signal!SetSMTP, Running, TypeOK, StartInv, ResultInv, Returned,
     Taken
<1>21. CASE RecoverStops
  BY <1>21 DEF RecoverStops, Running, TypeOK, StartInv, ResultInv, Returned, Taken
<1>22. CASE Signalled
  BY <1>22 DEF Signalled, Running, TypeOK, StartInv, ResultInv, Returned, Taken
<1>23. CASE Eof
  BY <1>23 DEF Eof, Running, TypeOK, StartInv, ResultInv, Returned, Taken
<1>24. CASE PacketFails
  <2>1. faults' \in 0..MaxFaults
    BY <1>24, LimitAssumption DEF PacketFails, Fault, TypeOK
  <2>2. recovery' \in {"none", "sleep"} /\ {ctxDone, imap, smtp, pipe, probed}' \subseteq BOOLEAN
    BY <1>24, RecoveryType DEF PacketFails
  <2>3. QED
    BY <1>24, <2>1, <2>2 DEF PacketFails, TypeOK
<1>25. CASE Tick
  BY <1>25, LimitAssumption DEF Tick, Busy, Running, TypeOK, StartInv, ResultInv, Returned,
     Taken
<1>26. CASE Exited
  BY <1>26 DEF Exited, vars, TypeOK, StartInv, ResultInv, Returned, Taken
<1>27. QED
  BY <1>1, <1>2, <1>3, <1>4, <1>5, <1>6, <1>7, <1>8, <1>9, <1>10, <1>11, <1>12, <1>13,
     <1>14, <1>15, <1>16, <1>17, <1>18, <1>19, <1>20, <1>21, <1>22, <1>23, <1>24, <1>25,
     <1>26 DEF Next, Main, WorkerStep, WorkerProgress, Handler

\* The goroutines are started in order, and none twice.
LEMMA StartStep ==
  ASSUME TypeOK, StartInv, Next PROVE StartInv'
<1> USE DEF outside, signal, clocks, result, outbound
<1>1. CASE NewAggregator
  BY <1>1 DEF NewAggregator, TypeOK, StartInv
<1>2. CASE GoStartupProbe
  BY <1>2 DEF GoStartupProbe, TypeOK, StartInv
<1>3. CASE GoPipe
  BY <1>3 DEF GoPipe, TypeOK, StartInv
<1>4. CASE GoWorker
  BY <1>4 DEF GoWorker, TypeOK, StartInv
<1>5. CASE FirstResult
  BY <1>5 DEF FirstResult, TypeOK, StartInv
<1>6. CASE SecondResult
  BY <1>6 DEF SecondResult, TypeOK, StartInv
<1>7. CASE DrainTimeout
  BY <1>7 DEF DrainTimeout, TypeOK, StartInv
<1>8. CASE PipeStep
  BY <1>8 DEF PipeStep, PipeReturns, Running, TypeOK, StartInv
<1>9. CASE DialOK
  BY <1>9 DEF DialOK, Running, TypeOK, StartInv
<1>10. CASE StartTLSOK
  BY <1>10 DEF StartTLSOK, Running, TypeOK, StartInv
<1>11. CASE LoginOK
  BY <1>11 DEF LoginOK, Signal!SetIMAP, Running, TypeOK, StartInv
<1>12. CASE InjectOK
  BY <1>12 DEF InjectOK, Running, TypeOK, StartInv
<1>13. CASE WakeUp
  BY <1>13 DEF WakeUp, Running, TypeOK, StartInv
<1>14. CASE StopSleeping
  BY <1>14 DEF StopSleeping, WorkerReturns, Running, TypeOK, StartInv
<1>15. CASE SessionFails
  BY <1>15 DEF SessionFails, EndSession, WorkerReturns, NetFault, Fault, Signal!SetIMAP,
     Running, TypeOK, StartInv
<1>16. CASE BeginInject
  BY <1>16 DEF BeginInject, Running, TypeOK, StartInv
<1>17. CASE StartupProbeOK
  BY <1>17 DEF StartupProbeOK, Running, TypeOK, StartInv
<1>18. CASE StartupOnline
  BY <1>18 DEF StartupOnline, Signal!SetSMTP, Running, TypeOK, StartInv
<1>19. CASE StartupProbeFails
  BY <1>19 DEF StartupProbeFails, NetFault, Fault, BeginRecovery, Signal!SetSMTP, Running,
     TypeOK, StartInv
<1>20. CASE RecoverOK
  BY <1>20 DEF RecoverOK, Signal!SetSMTP, Running, TypeOK, StartInv
<1>21. CASE RecoverStops
  BY <1>21 DEF RecoverStops, Running, TypeOK, StartInv
<1>22. CASE Signalled
  BY <1>22 DEF Signalled, Running, TypeOK, StartInv
<1>23. CASE Eof
  BY <1>23 DEF Eof, Running, TypeOK, StartInv
<1>24. CASE PacketFails
  BY <1>24 DEF PacketFails, Fault, BeginRecovery, Signal!SetSMTP, Running, TypeOK, StartInv
<1>25. CASE Tick
  BY <1>25 DEF Tick, Busy, Running, TypeOK, StartInv
<1>26. CASE Exited
  BY <1>26 DEF Exited, vars, TypeOK, StartInv
<1>27. QED
  BY <1>1, <1>2, <1>3, <1>4, <1>5, <1>6, <1>7, <1>8, <1>9, <1>10, <1>11, <1>12, <1>13,
     <1>14, <1>15, <1>16, <1>17, <1>18, <1>19, <1>20, <1>21, <1>22, <1>23, <1>24, <1>25,
     <1>26 DEF Next, Main, WorkerStep, WorkerProgress, Handler

\* The end of a session takes its signal back, and online follows a probe.
LEMMA SignalStep ==
  ASSUME TypeOK, StartInv, SignalInv, Next PROVE SignalInv'
<1> USE DEF outside, signal, clocks, result, outbound
<1>1. CASE NewAggregator
  BY <1>1 DEF NewAggregator, TypeOK, StartInv, SignalInv
<1>2. CASE GoStartupProbe
  BY <1>2 DEF GoStartupProbe, TypeOK, StartInv, SignalInv
<1>3. CASE GoPipe
  BY <1>3 DEF GoPipe, TypeOK, StartInv, SignalInv
<1>4. CASE GoWorker
  BY <1>4 DEF GoWorker, TypeOK, StartInv, SignalInv
<1>5. CASE FirstResult
  BY <1>5 DEF FirstResult, TypeOK, StartInv, SignalInv
<1>6. CASE SecondResult
  BY <1>6 DEF SecondResult, TypeOK, StartInv, SignalInv
<1>7. CASE DrainTimeout
  BY <1>7 DEF DrainTimeout, TypeOK, StartInv, SignalInv
<1>8. CASE PipeStep
  BY <1>8 DEF PipeStep, PipeReturns, Running, TypeOK, StartInv, SignalInv
<1>9. CASE DialOK
  BY <1>9 DEF DialOK, Running, TypeOK, StartInv, SignalInv
<1>10. CASE StartTLSOK
  BY <1>10 DEF StartTLSOK, Running, TypeOK, StartInv, SignalInv
<1>11. CASE LoginOK
  BY <1>11 DEF LoginOK, Signal!SetIMAP, Running, TypeOK, StartInv, SignalInv
<1>12. CASE InjectOK
  BY <1>12 DEF InjectOK, Running, TypeOK, StartInv, SignalInv
<1>13. CASE WakeUp
  BY <1>13 DEF WakeUp, Running, TypeOK, StartInv, SignalInv
<1>14. CASE StopSleeping
  BY <1>14 DEF StopSleeping, WorkerReturns, Running, TypeOK, StartInv, SignalInv
<1>15. CASE SessionFails
  BY <1>15 DEF SessionFails, EndSession, WorkerReturns, NetFault, Fault, Signal!SetIMAP,
     Running, TypeOK, StartInv, SignalInv
<1>16. CASE BeginInject
  BY <1>16 DEF BeginInject, Running, TypeOK, StartInv, SignalInv
<1>17. CASE StartupProbeOK
  BY <1>17 DEF StartupProbeOK, Running, TypeOK, StartInv, SignalInv
<1>18. CASE StartupOnline
  BY <1>18 DEF StartupOnline, Signal!SetSMTP, Running, TypeOK, StartInv, SignalInv
<1>19. CASE StartupProbeFails
  BY <1>19 DEF StartupProbeFails, NetFault, Fault, BeginRecovery, Signal!SetSMTP, Running,
     TypeOK, StartInv, SignalInv
<1>20. CASE RecoverOK
  BY <1>20 DEF RecoverOK, Signal!SetSMTP, Running, TypeOK, StartInv, SignalInv
<1>21. CASE RecoverStops
  BY <1>21 DEF RecoverStops, Running, TypeOK, StartInv, SignalInv
<1>22. CASE Signalled
  BY <1>22 DEF Signalled, Running, TypeOK, StartInv, SignalInv
<1>23. CASE Eof
  BY <1>23 DEF Eof, Running, TypeOK, StartInv, SignalInv
<1>24. CASE PacketFails
  BY <1>24 DEF PacketFails, Fault, BeginRecovery, Signal!SetSMTP, Running, TypeOK, StartInv,
     SignalInv
<1>25. CASE Tick
  BY <1>25 DEF Tick, Busy, Running, TypeOK, StartInv, SignalInv
<1>26. CASE Exited
  BY <1>26 DEF Exited, vars, TypeOK, StartInv, SignalInv
<1>27. QED
  BY <1>1, <1>2, <1>3, <1>4, <1>5, <1>6, <1>7, <1>8, <1>9, <1>10, <1>11, <1>12, <1>13,
     <1>14, <1>15, <1>16, <1>17, <1>18, <1>19, <1>20, <1>21, <1>22, <1>23, <1>24, <1>25,
     <1>26 DEF Next, Main, WorkerStep, WorkerProgress, Handler

\* Each goroutine reports once.
LEMMA ResultStep ==
  ASSUME TypeOK, StartInv, ResultInv, Next PROVE ResultInv'
<1> USE DEF outside, signal, clocks, result, outbound
<1>1. CASE NewAggregator
  BY <1>1 DEF NewAggregator, TypeOK, StartInv, ResultInv, Returned, Taken
<1>2. CASE GoStartupProbe
  BY <1>2 DEF GoStartupProbe, TypeOK, StartInv, ResultInv, Returned, Taken
<1>3. CASE GoPipe
  BY <1>3 DEF GoPipe, TypeOK, StartInv, ResultInv, Returned, Taken
<1>4. CASE GoWorker
  BY <1>4 DEF GoWorker, TypeOK, StartInv, ResultInv, Returned, Taken
<1>5. CASE FirstResult
  BY <1>5 DEF FirstResult, TypeOK, StartInv, ResultInv, Returned, Taken
<1>6. CASE SecondResult
  BY <1>6 DEF SecondResult, TypeOK, StartInv, ResultInv, Returned, Taken
<1>7. CASE DrainTimeout
  BY <1>7 DEF DrainTimeout, TypeOK, StartInv, ResultInv, Returned, Taken
<1>8. CASE PipeStep
  BY <1>8 DEF PipeStep, PipeReturns, Running, TypeOK, StartInv, ResultInv, Returned, Taken
<1>9. CASE DialOK
  BY <1>9 DEF DialOK, Running, TypeOK, StartInv, ResultInv, Returned, Taken
<1>10. CASE StartTLSOK
  BY <1>10 DEF StartTLSOK, Running, TypeOK, StartInv, ResultInv, Returned, Taken
<1>11. CASE LoginOK
  BY <1>11 DEF LoginOK, Signal!SetIMAP, Running, TypeOK, StartInv, ResultInv, Returned,
     Taken
<1>12. CASE InjectOK
  BY <1>12 DEF InjectOK, Running, TypeOK, StartInv, ResultInv, Returned, Taken
<1>13. CASE WakeUp
  BY <1>13 DEF WakeUp, Running, TypeOK, StartInv, ResultInv, Returned, Taken
<1>14. CASE StopSleeping
  BY <1>14 DEF StopSleeping, WorkerReturns, Running, TypeOK, StartInv, ResultInv, Returned,
     Taken
<1>15. CASE SessionFails
  BY <1>15 DEF SessionFails, EndSession, WorkerReturns, NetFault, Fault, Signal!SetIMAP,
     Running, TypeOK, StartInv, ResultInv, Returned, Taken
<1>16. CASE BeginInject
  BY <1>16 DEF BeginInject, Running, TypeOK, StartInv, ResultInv, Returned, Taken
<1>17. CASE StartupProbeOK
  BY <1>17 DEF StartupProbeOK, Running, TypeOK, StartInv, ResultInv, Returned, Taken
<1>18. CASE StartupOnline
  BY <1>18 DEF StartupOnline, Signal!SetSMTP, Running, TypeOK, StartInv, ResultInv,
     Returned, Taken
<1>19. CASE StartupProbeFails
  BY <1>19 DEF StartupProbeFails, NetFault, Fault, BeginRecovery, Signal!SetSMTP, Running,
     TypeOK, StartInv, ResultInv, Returned, Taken
<1>20. CASE RecoverOK
  BY <1>20 DEF RecoverOK, Signal!SetSMTP, Running, TypeOK, StartInv, ResultInv, Returned,
     Taken
<1>21. CASE RecoverStops
  BY <1>21 DEF RecoverStops, Running, TypeOK, StartInv, ResultInv, Returned, Taken
<1>22. CASE Signalled
  BY <1>22 DEF Signalled, Running, TypeOK, StartInv, ResultInv, Returned, Taken
<1>23. CASE Eof
  BY <1>23 DEF Eof, Running, TypeOK, StartInv, ResultInv, Returned, Taken
<1>24. CASE PacketFails
  BY <1>24 DEF PacketFails, Fault, BeginRecovery, Signal!SetSMTP, Running, TypeOK, StartInv,
     ResultInv, Returned, Taken
<1>25. CASE Tick
  BY <1>25 DEF Tick, Busy, Running, TypeOK, StartInv, ResultInv, Returned, Taken
<1>26. CASE Exited
  BY <1>26 DEF Exited, vars, TypeOK, StartInv, ResultInv, Returned, Taken
<1>27. QED
  BY <1>1, <1>2, <1>3, <1>4, <1>5, <1>6, <1>7, <1>8, <1>9, <1>10, <1>11, <1>12, <1>13,
     <1>14, <1>15, <1>16, <1>17, <1>18, <1>19, <1>20, <1>21, <1>22, <1>23, <1>24, <1>25,
     <1>26 DEF Next, Main, WorkerStep, WorkerProgress, Handler

\* Time passes in the drain only when the worker can do nothing at once.
LEMMA DrainStep ==
  ASSUME TypeOK, StartInv, DrainInv, Next PROVE DrainInv'
<1> USE DEF outside, signal, clocks, result, outbound
<1>1. CASE NewAggregator
  BY <1>1 DEF NewAggregator, TypeOK, StartInv, DrainInv
<1>2. CASE GoStartupProbe
  BY <1>2 DEF GoStartupProbe, TypeOK, StartInv, DrainInv
<1>3. CASE GoPipe
  BY <1>3 DEF GoPipe, TypeOK, StartInv, DrainInv
<1>4. CASE GoWorker
  BY <1>4 DEF GoWorker, TypeOK, StartInv, DrainInv
<1>5. CASE FirstResult
  BY <1>5, LimitAssumption DEF FirstResult, TypeOK, StartInv, DrainInv
<1>6. CASE SecondResult
  BY <1>6 DEF SecondResult, TypeOK, StartInv, DrainInv
<1>7. CASE DrainTimeout
  BY <1>7 DEF DrainTimeout, TypeOK, StartInv, DrainInv
<1>8. CASE PipeStep
  BY <1>8 DEF PipeStep, PipeReturns, Running, TypeOK, StartInv, DrainInv
<1>9. CASE DialOK
  BY <1>9 DEF DialOK, Running, TypeOK, StartInv, DrainInv
<1>10. CASE StartTLSOK
  BY <1>10 DEF StartTLSOK, Running, TypeOK, StartInv, DrainInv
<1>11. CASE LoginOK
  BY <1>11 DEF LoginOK, Signal!SetIMAP, Running, TypeOK, StartInv, DrainInv
<1>12. CASE InjectOK
  BY <1>12 DEF InjectOK, Running, TypeOK, StartInv, DrainInv
<1>13. CASE WakeUp
  BY <1>13 DEF WakeUp, Running, TypeOK, StartInv, DrainInv
<1>14. CASE StopSleeping
  BY <1>14 DEF StopSleeping, WorkerReturns, Running, TypeOK, StartInv, DrainInv
<1>15. CASE SessionFails
  BY <1>15 DEF SessionFails, EndSession, WorkerReturns, NetFault, Fault, Signal!SetIMAP,
     Running, TypeOK, StartInv, DrainInv
<1>16. CASE BeginInject
  BY <1>16 DEF BeginInject, Running, TypeOK, StartInv, DrainInv
<1>17. CASE StartupProbeOK
  BY <1>17 DEF StartupProbeOK, Running, TypeOK, StartInv, DrainInv
<1>18. CASE StartupOnline
  BY <1>18 DEF StartupOnline, Signal!SetSMTP, Running, TypeOK, StartInv, DrainInv
<1>19. CASE StartupProbeFails
  BY <1>19 DEF StartupProbeFails, NetFault, Fault, BeginRecovery, Signal!SetSMTP, Running,
     TypeOK, StartInv, DrainInv
<1>20. CASE RecoverOK
  BY <1>20 DEF RecoverOK, Signal!SetSMTP, Running, TypeOK, StartInv, DrainInv
<1>21. CASE RecoverStops
  BY <1>21 DEF RecoverStops, Running, TypeOK, StartInv, DrainInv
<1>22. CASE Signalled
  BY <1>22 DEF Signalled, Running, TypeOK, StartInv, DrainInv
<1>23. CASE Eof
  BY <1>23 DEF Eof, Running, TypeOK, StartInv, DrainInv
<1>24. CASE PacketFails
  BY <1>24 DEF PacketFails, Fault, BeginRecovery, Signal!SetSMTP, Running, TypeOK, StartInv,
     DrainInv
<1>25. CASE Tick
  BY <1>25, LimitAssumption DEF Tick, Busy, Running, TypeOK, StartInv, DrainInv
<1>26. CASE Exited
  BY <1>26 DEF Exited, vars, TypeOK, StartInv, DrainInv
<1>27. QED
  BY <1>1, <1>2, <1>3, <1>4, <1>5, <1>6, <1>7, <1>8, <1>9, <1>10, <1>11, <1>12, <1>13,
     <1>14, <1>15, <1>16, <1>17, <1>18, <1>19, <1>20, <1>21, <1>22, <1>23, <1>24, <1>25,
     <1>26 DEF Next, Main, WorkerStep, WorkerProgress, Handler

\* Both ways out of the drain find the worker at its end.
LEMMA EndStep ==
  ASSUME TypeOK, StartInv, ResultInv, DrainInv, WorkerEndsFirst, Next PROVE WorkerEndsFirst'
<1> USE DEF outside, signal, clocks, result, outbound
<1>1. CASE NewAggregator
  BY <1>1 DEF NewAggregator, TypeOK, ResultInv, Returned, Taken, DrainInv, WorkerEndsFirst
<1>2. CASE GoStartupProbe
  BY <1>2 DEF GoStartupProbe, TypeOK, ResultInv, Returned, Taken, DrainInv, WorkerEndsFirst
<1>3. CASE GoPipe
  BY <1>3 DEF GoPipe, TypeOK, ResultInv, Returned, Taken, DrainInv, WorkerEndsFirst
<1>4. CASE GoWorker
  BY <1>4 DEF GoWorker, TypeOK, ResultInv, Returned, Taken, DrainInv, WorkerEndsFirst
<1>5. CASE FirstResult
  BY <1>5 DEF FirstResult, TypeOK, ResultInv, Returned, Taken, DrainInv, WorkerEndsFirst
<1>6. CASE SecondResult
  BY <1>6 DEF SecondResult, TypeOK, ResultInv, Returned, Taken, DrainInv, WorkerEndsFirst
<1>7. CASE DrainTimeout
  BY <1>7, LimitAssumption DEF DrainTimeout, TypeOK, ResultInv, Returned, Taken, DrainInv,
     WorkerEndsFirst
<1>8. CASE PipeStep
  BY <1>8 DEF PipeStep, PipeReturns, Running, TypeOK, ResultInv, Returned, Taken, DrainInv,
     WorkerEndsFirst
<1>9. CASE DialOK
  BY <1>9 DEF DialOK, Running, TypeOK, ResultInv, Returned, Taken, DrainInv, WorkerEndsFirst
<1>10. CASE StartTLSOK
  BY <1>10 DEF StartTLSOK, Running, TypeOK, ResultInv, Returned, Taken, DrainInv,
     WorkerEndsFirst
<1>11. CASE LoginOK
  BY <1>11 DEF LoginOK, Signal!SetIMAP, Running, TypeOK, ResultInv, Returned, Taken,
     DrainInv, WorkerEndsFirst
<1>12. CASE InjectOK
  BY <1>12 DEF InjectOK, Running, TypeOK, ResultInv, Returned, Taken, DrainInv,
     WorkerEndsFirst
<1>13. CASE WakeUp
  BY <1>13 DEF WakeUp, Running, TypeOK, ResultInv, Returned, Taken, DrainInv,
     WorkerEndsFirst
<1>14. CASE StopSleeping
  BY <1>14 DEF StopSleeping, WorkerReturns, Running, TypeOK, ResultInv, Returned, Taken,
     DrainInv, WorkerEndsFirst
<1>15. CASE SessionFails
  BY <1>15 DEF SessionFails, EndSession, WorkerReturns, NetFault, Fault, Signal!SetIMAP,
     Running, TypeOK, ResultInv, Returned, Taken, DrainInv, WorkerEndsFirst
<1>16. CASE BeginInject
  BY <1>16 DEF BeginInject, Running, TypeOK, ResultInv, Returned, Taken, DrainInv,
     WorkerEndsFirst
<1>17. CASE StartupProbeOK
  BY <1>17 DEF StartupProbeOK, Running, TypeOK, ResultInv, Returned, Taken, DrainInv,
     WorkerEndsFirst
<1>18. CASE StartupOnline
  BY <1>18 DEF StartupOnline, Signal!SetSMTP, Running, TypeOK, ResultInv, Returned, Taken,
     DrainInv, WorkerEndsFirst
<1>19. CASE StartupProbeFails
  BY <1>19 DEF StartupProbeFails, NetFault, Fault, BeginRecovery, Signal!SetSMTP, Running,
     TypeOK, ResultInv, Returned, Taken, DrainInv, WorkerEndsFirst
<1>20. CASE RecoverOK
  BY <1>20 DEF RecoverOK, Signal!SetSMTP, Running, TypeOK, ResultInv, Returned, Taken,
     DrainInv, WorkerEndsFirst
<1>21. CASE RecoverStops
  BY <1>21 DEF RecoverStops, Running, TypeOK, ResultInv, Returned, Taken, DrainInv,
     WorkerEndsFirst
<1>22. CASE Signalled
  BY <1>22 DEF Signalled, Running, TypeOK, ResultInv, Returned, Taken, DrainInv,
     WorkerEndsFirst
<1>23. CASE Eof
  BY <1>23 DEF Eof, Running, TypeOK, ResultInv, Returned, Taken, DrainInv, WorkerEndsFirst
<1>24. CASE PacketFails
  BY <1>24 DEF PacketFails, Fault, BeginRecovery, Signal!SetSMTP, Running, TypeOK,
     ResultInv, Returned, Taken, DrainInv, WorkerEndsFirst
<1>25. CASE Tick
  BY <1>25 DEF Tick, Busy, Running, TypeOK, ResultInv, Returned, Taken, DrainInv,
     WorkerEndsFirst
<1>26. CASE Exited
  BY <1>26 DEF Exited, vars, TypeOK, ResultInv, Returned, Taken, DrainInv, WorkerEndsFirst
<1>27. QED
  BY <1>1, <1>2, <1>3, <1>4, <1>5, <1>6, <1>7, <1>8, <1>9, <1>10, <1>11, <1>12, <1>13,
     <1>14, <1>15, <1>16, <1>17, <1>18, <1>19, <1>20, <1>21, <1>22, <1>23, <1>24, <1>25,
     <1>26 DEF Next, Main, WorkerStep, WorkerProgress, Handler

LEMMA InitInd == ASSUME Init PROVE IndInv
<1>1. TypeOK
  <2>1. {ctxDone, imap, smtp, pipe, probed} \subseteq BOOLEAN
    BY DEF Init
  <2>2. errCh \in Seq({"closed", "cancelled", "nil"}) /\ Len(errCh) <= 2
    BY DEF Init
  <2>3. drainLeft \in 0..DrainLimit /\ ioLeft \in 0..IOTimeout /\ faults \in 0..MaxFaults
    BY LimitAssumption DEF Init
  <2>4. QED
    BY <2>1, <2>2, <2>3 DEF Init, TypeOK
<1>2. StartInv /\ SignalInv /\ DrainInv /\ WorkerEndsFirst
  BY DEF Init, StartInv, SignalInv, DrainInv, WorkerEndsFirst
<1>3. ResultInv
  BY DEF Init, ResultInv, Returned, Taken
<1>4. QED
  BY <1>1, <1>2, <1>3 DEF IndInv

LEMMA StutterInd == ASSUME IndInv, UNCHANGED vars PROVE IndInv'
<1> USE DEF vars, outside, signal, clocks, result, outbound
<1>1. TypeOK'
  BY DEF IndInv, TypeOK
<1>2. StartInv' /\ SignalInv' /\ DrainInv' /\ WorkerEndsFirst'
  BY DEF IndInv, StartInv, SignalInv, DrainInv, WorkerEndsFirst
<1>3. ResultInv'
  BY DEF IndInv, ResultInv, Returned, Taken
<1>4. QED
  BY <1>1, <1>2, <1>3 DEF IndInv

\* The inductive invariant of the process.
THEOREM Inductive == Spec => []IndInv
<1>1. IndInv /\ Next => IndInv'
  BY TypeStep, StartStep, SignalStep, ResultStep, DrainStep, EndStep DEF IndInv
<1>2. QED
  BY <1>1, InitInd, StutterInd, PTL DEF Spec

\* Types, and no more than two results in errCh, which has a capacity of two.
THEOREM TypeCorrect == Spec => []TypeOK
  BY Inductive, PTL DEF IndInv

\* The pipe is never online before both halves are verified, nor after the session is gone.
THEOREM OnlineMeansVerifiedHolds == Spec => []OnlineMeansVerified
<1>1. IndInv => OnlineMeansVerified
  BY DEF IndInv, TypeOK, StartInv, SignalInv, OnlineMeansVerified
<1>2. QED
  BY <1>1, Inductive, PTL

\* run exits under no worker but one in a STARTTLS negotiation, whatever the two limits are.
THEOREM WorkerEndsFirstHolds == Spec => []WorkerEndsFirst
  BY Inductive, PTL DEF IndInv

\* Without a signal run returns only because rnsd closed the pipe.
THEOREM OnlyRnsdEndsItHolds == Spec => OnlyRnsdEndsIt
<1>1. ASSUME IndInv, [Next]_vars, main = "wait", main' = "drain", ~ctxDone
      PROVE  err' = "closed"
  <2>1. FirstResult
    BY <1>1 DEF Next, Main, NewAggregator, GoStartupProbe, GoPipe, GoWorker, SecondResult,
       DrainTimeout, PipeStep, PipeReturns, WorkerStep, WorkerProgress, DialOK, StartTLSOK,
       LoginOK, InjectOK, WakeUp, StopSleeping, SessionFails, BeginInject, Handler,
       StartupProbeOK, StartupOnline, StartupProbeFails, RecoverOK, RecoverStops, Signalled,
       Eof, PacketFails, Tick, Exited, vars
  <2>2. Len(errCh) >= 1
    BY <1>1, <2>1 DEF FirstResult, IndInv, TypeOK
  <2>3. QED
    BY <1>1, <2>1, <2>2 DEF FirstResult, IndInv, ResultInv, TypeOK
<1>2. QED
  BY <1>1, Inductive, PTL DEF OnlyRnsdEndsIt, Spec
=============================================================================
