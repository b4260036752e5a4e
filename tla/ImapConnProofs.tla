--------------------------- MODULE ImapConnProofs ---------------------------
(* The deadlines of the IMAP connection, for timeouts, intervals and         *)
(* latencies of any length.                                                  *)
EXTENDS ImapConn, TLAPS

\* The timeouts leave room for what the worker waits for: a Read that begins with the answer
\* to a fetch outlasts the wait for the pipe, and without IDLE the first interval of pollLoop
\* as well; one that begins in IDLE outlasts idleRestart; one that begins with the refusal of
\* IDLE outlasts the first interval; each with the answer that comes next.
TimesFit ==
  /\ InjectWait + Latency < IOTimeout
  /\ IdleRestart + Latency < IdleTimeout
  /\ PollInterval + Latency < IOTimeout
  /\ ~HasIdle => InjectWait + PollInterval + Latency < IOTimeout

-----------------------------------------------------------------------------
(* The inductive invariants *)

\* The timers that run in each state, and their ranges.
TimerInv ==
  /\ pc \in {"fetch", "inject", "idle", "poll", "noop", "dead"}
  /\ readLeft \in Nat /\ silent \in Nat
  /\ \A a \in answerLeft : a \in 0..Latency
  /\ \A k \in tickLeft : k \in 0..PollInterval
  /\ \A j, k \in tickLeft : j = k
  /\ \A w \in waitLeft : w \in Nat
  /\ pc = "inject" => waitLeft # {} /\ \A w \in waitLeft : w <= InjectWait
  /\ pc = "idle" => waitLeft # {} /\ \A w \in waitLeft : w <= IdleRestart
  /\ pc \in {"poll", "noop"} => tickLeft # {}
  /\ pc \in {"fetch", "noop"} => answerLeft # {}
  /\ pc = "idle" /\ closing => answerLeft # {}

\* The timeout is long in IDLE until DONE is sent, and short in every other state.
TimeoutInv ==
  pc # "dead" => timeout = IF pc = "idle" /\ ~closing THEN IdleTimeout ELSE IOTimeout

\* As long as the server answers, the pending Read outlasts whatever comes before its data.
MarginInv ==
  alive =>
    /\ pc # "dead"
    /\ \A a \in answerLeft : readLeft > a
    /\ pc = "idle" /\ answerLeft = {} => \A w \in waitLeft : readLeft > w + Latency
    /\ pc = "inject" => \A w \in waitLeft :
         /\ readLeft > w + Latency
         /\ tickLeft = {} /\ ~HasIdle => readLeft > w + PollInterval + Latency
    /\ pc \in {"inject", "poll"} => \A k \in tickLeft : readLeft > k + Latency

\* What is left of the pending Read bounds how long a silence can still last.
SilenceInv ==
  /\ alive => silent = 0
  /\ pc \in {"fetch", "inject"} /\ tickLeft = {} => silent + readLeft <= IOTimeout
  /\ pc # "dead" => silent + readLeft <= IdleTimeout

IndInv == TimerInv /\ TimeoutInv /\ SilenceInv

-----------------------------------------------------------------------------
(* Deadlines *)

\* The reader's Reads have the per-operation timeout only.
LEMMA NoHardDeadline ==
  ASSUME NEW t
  PROVE  effectiveDeadline(t, {}) = t
  BY DEF effectiveDeadline

\* A timer that is not over loses one unit; the timer stays set.
LEMMA TimerRuns ==
  ASSUME NEW S, \A s \in S : s \in Nat, ~IsOver(S)
  PROVE  /\ \A t \in Later(S) : t \in Nat /\ t + 1 \in S
         /\ Later(S) = {} <=> S = {}
<1>1. \A s \in S : s - 1 \in Nat /\ s = (s - 1) + 1
  BY DEF IsOver
<1>2. QED
  BY <1>1 DEF Later

\* What Tick makes of a timer that may be over.
LEMMA TimerRunsOrStays ==
  ASSUME NEW S, \A s \in S : s \in Nat, \A s, t \in S : s = t,
         NEW T, T = IF IsOver(S) THEN S ELSE Later(S)
  PROVE  /\ \A t \in T : t \in Nat /\ (t + 1 \in S \/ (t = 0 /\ 0 \in S))
         /\ \A s, t \in T : s = t
         /\ T = {} <=> S = {}
<1>1. CASE IsOver(S)
  BY <1>1 DEF IsOver
<1>2. CASE ~IsOver(S)
  BY <1>2, TimerRuns DEF Later
<1>3. QED
  BY <1>1, <1>2

-----------------------------------------------------------------------------
(* Every step keeps the invariants *)

\* The timers.
LEMMA TimerStep ==
  ASSUME TimerInv, TimeoutInv, Next
  PROVE  TimerInv'
<1> USE TimesAssumption, IdleAssumption
<1>1. CASE FetchAnswered
  BY <1>1, NoHardDeadline DEF FetchAnswered, NextRead, TimerInv, TimeoutInv
<1>2. CASE InjectDone
  BY <1>2 DEF InjectDone, BeginIdle, BeginPolling, SendCommand, TimerInv, TimeoutInv
<1>3. CASE IdleData
  BY <1>3, NoHardDeadline DEF IdleData, NextRead, worker, TimerInv, TimeoutInv
<1>4. CASE SendDone
  BY <1>4 DEF SendDone, SendCommand, TimerInv, TimeoutInv
<1>5. CASE IdleEnds
  BY <1>5, NoHardDeadline DEF IdleEnds, NextRead, SendCommand, TimerInv, TimeoutInv
<1>6. CASE IdleRefused
  BY <1>6, NoHardDeadline DEF IdleRefused, NextRead, BeginIdle, BeginPolling, SendCommand, TimerInv, TimeoutInv
<1>7. CASE SendNoop
  BY <1>7 DEF SendNoop, SendCommand, TimerInv, TimeoutInv
<1>8. CASE NoopAnswered
  BY <1>8, NoHardDeadline DEF NoopAnswered, NextRead, SendCommand, worker, TimerInv, TimeoutInv
<1>9. CASE ReadExpires
  BY <1>9 DEF ReadExpires, TimerInv, TimeoutInv
<1>10. CASE Tick
  <2>1. /\ \A t \in tickLeft' : t \in Nat /\ (t + 1 \in tickLeft \/ (t = 0 /\ 0 \in tickLeft))
        /\ \A s, t \in tickLeft' : s = t
        /\ tickLeft' = {} <=> tickLeft = {}
    BY <1>10, TimerRunsOrStays DEF Tick, TimerInv
  <2>2. /\ \A w \in waitLeft' : w \in waitLeft \/ (w \in Nat /\ w + 1 \in waitLeft)
        /\ waitLeft' = {} <=> waitLeft = {}
    BY <1>10, TimerRuns DEF Tick, TimerInv
  <2>3. /\ \A a \in answerLeft' : a \in answerLeft \/ (a \in Nat /\ a + 1 \in answerLeft)
        /\ answerLeft' = {} <=> answerLeft = {}
    BY <1>10, TimerRuns DEF Tick, TimerInv
  <2>4. QED
    BY <1>10, <2>1, <2>2, <2>3 DEF Tick, TimerInv
<1>11. CASE GoSilent
  BY <1>11 DEF GoSilent, worker, TimerInv, TimeoutInv
<1>12. CASE Dead
  BY <1>12 DEF Dead, vars, worker, TimerInv, TimeoutInv
<1>13. QED
  BY <1>1, <1>2, <1>3, <1>4, <1>5, <1>6, <1>7, <1>8, <1>9, <1>10, <1>11, <1>12 DEF Next

\* SetTimeout follows the worker.
LEMMA TimeoutStep ==
  ASSUME TimerInv, TimeoutInv, Next
  PROVE  TimeoutInv'
<1> USE TimesAssumption, IdleAssumption
<1>1. CASE FetchAnswered
  BY <1>1, NoHardDeadline DEF FetchAnswered, NextRead, TimerInv, TimeoutInv
<1>2. CASE InjectDone
  BY <1>2 DEF InjectDone, BeginIdle, BeginPolling, SendCommand, TimerInv, TimeoutInv
<1>3. CASE IdleData
  BY <1>3, NoHardDeadline DEF IdleData, NextRead, worker, TimerInv, TimeoutInv
<1>4. CASE SendDone
  BY <1>4 DEF SendDone, SendCommand, TimerInv, TimeoutInv
<1>5. CASE IdleEnds
  BY <1>5, NoHardDeadline DEF IdleEnds, NextRead, SendCommand, TimerInv, TimeoutInv
<1>6. CASE IdleRefused
  BY <1>6, NoHardDeadline DEF IdleRefused, NextRead, BeginIdle, BeginPolling, SendCommand, TimerInv, TimeoutInv
<1>7. CASE SendNoop
  BY <1>7 DEF SendNoop, SendCommand, TimerInv, TimeoutInv
<1>8. CASE NoopAnswered
  BY <1>8, NoHardDeadline DEF NoopAnswered, NextRead, SendCommand, worker, TimerInv, TimeoutInv
<1>9. CASE ReadExpires
  BY <1>9 DEF ReadExpires, TimerInv, TimeoutInv
<1>10. CASE Tick
  BY <1>10, TimerRuns DEF Tick, TimerInv, TimeoutInv
<1>11. CASE GoSilent
  BY <1>11 DEF GoSilent, worker, TimerInv, TimeoutInv
<1>12. CASE Dead
  BY <1>12 DEF Dead, vars, worker, TimerInv, TimeoutInv
<1>13. QED
  BY <1>1, <1>2, <1>3, <1>4, <1>5, <1>6, <1>7, <1>8, <1>9, <1>10, <1>11, <1>12 DEF Next

\* Only data begins a Read, and it ends the silence.
LEMMA SilenceStep ==
  ASSUME IndInv, Next
  PROVE  SilenceInv'
<1> USE TimesAssumption, IdleAssumption
<1>1. CASE FetchAnswered
  BY <1>1, NoHardDeadline DEF FetchAnswered, NextRead, IndInv, TimerInv, TimeoutInv, SilenceInv
<1>2. CASE InjectDone
  BY <1>2 DEF InjectDone, BeginIdle, BeginPolling, SendCommand, IndInv, TimerInv, TimeoutInv, SilenceInv
<1>3. CASE IdleData
  BY <1>3, NoHardDeadline DEF IdleData, NextRead, worker, IndInv, TimerInv, TimeoutInv, SilenceInv
<1>4. CASE SendDone
  BY <1>4 DEF SendDone, SendCommand, IndInv, TimerInv, TimeoutInv, SilenceInv
<1>5. CASE IdleEnds
  BY <1>5, NoHardDeadline DEF IdleEnds, NextRead, SendCommand, IndInv, TimerInv, TimeoutInv, SilenceInv
<1>6. CASE IdleRefused
  BY <1>6, NoHardDeadline DEF IdleRefused, NextRead, BeginIdle, BeginPolling, SendCommand, IndInv, TimerInv, TimeoutInv, SilenceInv
<1>7. CASE SendNoop
  BY <1>7 DEF SendNoop, SendCommand, IndInv, TimerInv, TimeoutInv, SilenceInv
<1>8. CASE NoopAnswered
  BY <1>8, NoHardDeadline DEF NoopAnswered, NextRead, SendCommand, worker, IndInv, TimerInv, TimeoutInv, SilenceInv
<1>9. CASE ReadExpires
  BY <1>9 DEF ReadExpires, IndInv, TimerInv, TimeoutInv, SilenceInv
<1>10. CASE Tick
  <2>1. tickLeft' = {} <=> tickLeft = {}
    BY <1>10, TimerRunsOrStays DEF Tick, IndInv, TimerInv
  <2>2. QED
    BY <1>10, <2>1 DEF Tick, IndInv, TimerInv, SilenceInv
<1>11. CASE GoSilent
  BY <1>11 DEF GoSilent, worker, IndInv, TimerInv, TimeoutInv, SilenceInv
<1>12. CASE Dead
  BY <1>12 DEF Dead, vars, worker, IndInv, TimerInv, TimeoutInv, SilenceInv
<1>13. QED
  BY <1>1, <1>2, <1>3, <1>4, <1>5, <1>6, <1>7, <1>8, <1>9, <1>10, <1>11, <1>12 DEF Next

\* The margin of every Read is kept.
LEMMA MarginStep ==
  ASSUME TimesFit, TimerInv, TimeoutInv, MarginInv, Next
  PROVE  MarginInv'
<1> USE TimesAssumption, IdleAssumption
<1>1. CASE FetchAnswered
  BY <1>1, NoHardDeadline DEF FetchAnswered, NextRead, TimesFit, TimerInv, TimeoutInv, MarginInv
<1>2. CASE InjectDone
  BY <1>2 DEF InjectDone, BeginIdle, BeginPolling, SendCommand, TimesFit, TimerInv, TimeoutInv, MarginInv
<1>3. CASE IdleData
  BY <1>3, NoHardDeadline DEF IdleData, NextRead, worker, TimesFit, TimerInv, TimeoutInv, MarginInv
<1>4. CASE SendDone
  BY <1>4 DEF SendDone, SendCommand, TimesFit, TimerInv, TimeoutInv, MarginInv
<1>5. CASE IdleEnds
  BY <1>5, NoHardDeadline DEF IdleEnds, NextRead, SendCommand, TimesFit, TimerInv, TimeoutInv, MarginInv
<1>6. CASE IdleRefused
  BY <1>6, NoHardDeadline DEF IdleRefused, NextRead, BeginIdle, BeginPolling, SendCommand, TimesFit, TimerInv, TimeoutInv, MarginInv
<1>7. CASE SendNoop
  BY <1>7 DEF SendNoop, SendCommand, TimesFit, TimerInv, TimeoutInv, MarginInv
<1>8. CASE NoopAnswered
  BY <1>8, NoHardDeadline DEF NoopAnswered, NextRead, SendCommand, worker, TimesFit, TimerInv, TimeoutInv, MarginInv
<1>9. CASE ReadExpires
  BY <1>9 DEF ReadExpires, TimesFit, TimerInv, TimeoutInv, MarginInv
<1>10. CASE Tick
  <2> SUFFICES ASSUME alive PROVE MarginInv'
    BY <1>10 DEF Tick, MarginInv
  <2>1. \A t \in tickLeft' : t \in Nat /\ (t + 1 \in tickLeft \/ (t = 0 /\ 0 \in tickLeft))
    BY <1>10, TimerRunsOrStays DEF Tick, TimerInv
  <2>2. tickLeft' = {} <=> tickLeft = {}
    BY <1>10, TimerRunsOrStays DEF Tick, TimerInv
  <2>3. /\ \A a \in answerLeft' : a \in Nat /\ a + 1 \in answerLeft
        /\ answerLeft' = {} <=> answerLeft = {}
    BY <1>10, TimerRuns DEF Tick, TimerInv
  <2>4. ASSUME pc = "inject" \/ (pc = "idle" /\ answerLeft = {})
        PROVE  \A w \in waitLeft' : w \in Nat /\ w + 1 \in waitLeft
    BY <1>10, <2>4, TimerRuns DEF Tick, TimerInv
  <2>5. CASE pc = "inject"
    <3>1. PICK v \in waitLeft : v \in Nat /\ v > 0
      BY <1>10, <2>5 DEF Tick, TimerInv, IsOver
    <3>2. readLeft - 1 > Latency
      BY <2>5, <3>1 DEF MarginInv, TimerInv
    <3>3. QED
      BY <1>10, <2>1, <2>2, <2>3, <2>4, <2>5, <3>2 DEF Tick, MarginInv, TimerInv
  <2>6. CASE pc = "poll"
    <3>1. \A t \in tickLeft' : t + 1 \in tickLeft
      BY <1>10, <2>6, TimerRuns DEF Tick, TimerInv
    <3>2. QED
      BY <1>10, <2>1, <2>3, <2>6, <3>1 DEF Tick, MarginInv, TimerInv
  <2>7. CASE pc \notin {"inject", "poll"}
    BY <1>10, <2>3, <2>4, <2>7 DEF Tick, MarginInv, TimerInv
  <2>8. QED
    BY <2>5, <2>6, <2>7
<1>11. CASE GoSilent
  BY <1>11 DEF GoSilent, worker, TimesFit, TimerInv, TimeoutInv, MarginInv
<1>12. CASE Dead
  BY <1>12 DEF Dead, vars, worker, TimesFit, TimerInv, TimeoutInv, MarginInv
<1>13. QED
  BY <1>1, <1>2, <1>3, <1>4, <1>5, <1>6, <1>7, <1>8, <1>9, <1>10, <1>11, <1>12 DEF Next

-----------------------------------------------------------------------------
(* The theorems *)

\* The catch-up fetch has been sent; no timer runs yet.
LEMMA InitInd ==
  ASSUME Init
  PROVE  IndInv
<1> USE TimesAssumption, IdleAssumption
<1>1. TimerInv
  BY DEF Init, TimerInv
<1>2. TimeoutInv
  BY DEF Init, TimeoutInv
<1>3. SilenceInv
  BY DEF Init, SilenceInv
<1>4. QED
  BY <1>1, <1>2, <1>3 DEF IndInv

LEMMA StepInd ==
  ASSUME IndInv, [Next]_vars
  PROVE  IndInv'
<1>1. CASE Next
  BY <1>1, TimerStep, TimeoutStep, SilenceStep DEF IndInv
<1>2. CASE UNCHANGED vars
  BY <1>2 DEF vars, worker, IndInv, TimerInv, TimeoutInv, SilenceInv
<1>3. QED
  BY <1>1, <1>2

LEMMA StepMargin ==
  ASSUME TimesFit, IndInv, MarginInv, [Next]_vars
  PROVE  MarginInv'
<1>1. CASE Next
  BY <1>1, MarginStep DEF IndInv
<1>2. CASE UNCHANGED vars
  BY <1>2 DEF vars, worker, MarginInv
<1>3. QED
  BY <1>1, <1>2

\* The invariants hold whatever the timeouts and intervals are.
THEOREM Inductive == Spec => []IndInv
  BY InitInd, StepInd, PTL DEF Spec

\* A silence of the server ends the session: within imapIOTimeout in a FETCH and in the
\* wait for the pipe, and within imapIdleTimeout whatever the worker does and however IDLE
\* ended before.  No relation between the intervals is needed.
THEOREM SilenceNoticedHolds == Spec => []SilenceNoticed
<1>1. IndInv => SilenceNoticed
  BY TimesAssumption DEF IndInv, TimerInv, SilenceInv, SilenceNoticed
<1>2. QED
  BY <1>1, Inductive, PTL

\* A server that answers in time never loses its session to a timeout, if the timeouts fit:
\* imap.poll_interval with the latency must stay below imapIOTimeout, which Validate does
\* not ask for.
THEOREM NoSpuriousTimeoutHolds == ASSUME TimesFit PROVE Spec => []NoSpuriousTimeout
<1>1. Init => MarginInv
  BY TimesAssumption DEF Init, TimesFit, MarginInv
<1>2. IndInv /\ MarginInv /\ [Next]_vars => MarginInv'
  BY TimesFit, StepMargin
<1>3. MarginInv => NoSpuriousTimeout
  BY DEF MarginInv, NoSpuriousTimeout
<1>4. QED
  BY <1>1, <1>2, <1>3, Inductive, PTL DEF Spec
=============================================================================
