------------------------------ MODULE ImapConn ------------------------------
(***************************************************************************)
(* The timing of one IMAP session after its catch-up fetch: Idle of        *)
(* internal/imap/client.go, idleLoop and pollLoop of internal/imap/        *)
(* worker.go, and the deadlines of the TimeoutConn below them.             *)
(*                                                                         *)
(* go-imap's reader goroutine has a Read pending at all times (external):  *)
(* it begins the next one as soon as data has come, and its deadline is    *)
(* fixed then, by whatever timeout is set at that moment.  A Read that     *)
(* reaches its deadline ends the connection.                               *)
(***************************************************************************)
EXTENDS TimeoutConn

CONSTANTS
  HasIdle,      \* the server has IDLE
  IOTimeout,    \* imapIOTimeout
  IdleTimeout,  \* imapIdleTimeout
  IdleRestart,  \* idleRestart
  PollInterval, \* imap.poll_interval
  Latency,      \* a server that is up answers a command within this time
  InjectWait,   \* inject waits at most this long for the pipe to be online
  maxIdleErrors

ASSUME IdleAssumption == HasIdle \in BOOLEAN
ASSUME TimesAssumption ==
  /\ {IOTimeout, IdleTimeout, IdleRestart, PollInterval, maxIdleErrors} \subseteq Nat \ {0}
  /\ {Latency, InjectWait} \subseteq Nat
  /\ IOTimeout <= IdleTimeout

VARIABLES
  pc,         \* where the worker is
  timeout,    \* the TimeoutConn's per-operation timeout
  readLeft,   \* deadline of the reader's pending Read
  waitLeft,   \* what is left of the worker's own timer, for inject or IDLE
  tickLeft,   \* when pollLoop's ticker fires; {} before pollLoop
  answerLeft, \* when an answer is due from a server that is up; {} when none is
  closing,    \* Idle has sent DONE
  idleErrors, \* consecutive errors of IDLE
  alive,      \* the server answers
  silent      \* time since it stopped

worker == <<waitLeft, tickLeft, closing, idleErrors>>
vars == <<pc, timeout, readLeft, worker, answerLeft, alive, silent>>

\* Data has come: the reader begins its next Read.
NextRead(t) == readLeft' = effectiveDeadline(t, {})

\* A command is sent; nothing is read.
SendCommand == answerLeft' = {Latency}

\* Mutant: the timeout is not raised for IDLE.
BeginIdle_KeepsTimeout ==
  /\ pc' = "idle"
  /\ timeout' = IOTimeout
  /\ waitLeft' = {IdleRestart}
  /\ closing' = FALSE
  /\ SendCommand
  /\ UNCHANGED tickLeft

\* IDLE begins: the timeout is raised before the command is sent.
BeginIdle ==
  /\ pc' = "idle"
  /\ timeout' = IdleTimeout
  /\ waitLeft' = {IdleRestart}
  /\ closing' = FALSE
  /\ SendCommand
  /\ UNCHANGED tickLeft

\* pollLoop creates its ticker.
BeginPolling == pc' = "poll" /\ tickLeft' = {PollInterval} /\ answerLeft' = {} /\ waitLeft' = {}

\* The catch-up fetch has been sent.
Init ==
  /\ pc = "fetch"
  /\ timeout = IOTimeout
  /\ readLeft = IOTimeout
  /\ waitLeft = {} /\ tickLeft = {}
  /\ answerLeft = {Latency}
  /\ closing = FALSE
  /\ idleErrors = 0
  /\ alive = TRUE /\ silent = 0

-----------------------------------------------------------------------------
(* FETCH, and the wait for the pipe inside it *)

\* The messages and the tagged OK arrive; the handler injects.
FetchAnswered ==
  /\ pc = "fetch" /\ alive
  /\ NextRead(timeout)
  /\ pc' = "inject"
  /\ waitLeft' = {InjectWait}
  /\ answerLeft' = {}
  /\ UNCHANGED <<timeout, tickLeft, closing, idleErrors, alive, silent>>

\* fetchAndProcess returns to its loop.
InjectDone ==
  /\ pc = "inject"
  /\ IF tickLeft # {}
       THEN pc' = "poll" /\ waitLeft' = {} /\ UNCHANGED <<timeout, tickLeft, closing, answerLeft>>
       ELSE IF HasIdle THEN BeginIdle
                       ELSE BeginPolling /\ UNCHANGED <<timeout, closing>>
  /\ idleErrors' = 0
  /\ UNCHANGED <<readLeft, alive, silent>>

-----------------------------------------------------------------------------
(* idleLoop and Idle *)

\* The continuation request, or an EXISTS or another untagged response.
IdleData ==
  /\ pc = "idle" /\ alive
  /\ NextRead(timeout)
  /\ answerLeft' = IF closing THEN answerLeft ELSE {}
  /\ UNCHANGED <<pc, timeout, worker, alive, silent>>

\* Mutant: the timeout is lowered only by the deferred call.
SendDone_KeepsTimeout ==
  /\ pc = "idle" /\ ~closing /\ answerLeft = {}
  /\ closing' = TRUE
  /\ SendCommand
  /\ UNCHANGED <<pc, timeout, readLeft, waitLeft, tickLeft, idleErrors, alive, silent>>

\* idleRestart is over, or an EXISTS made idleLoop cancel IDLE: the timeout is lowered
\* and DONE is sent.
SendDone ==
  /\ pc = "idle" /\ ~closing /\ answerLeft = {}
  /\ closing' = TRUE
  /\ timeout' = IOTimeout
  /\ SendCommand
  /\ UNCHANGED <<pc, readLeft, waitLeft, tickLeft, idleErrors, alive, silent>>

\* The tagged OK: Idle returns, and a fetch is sent.
IdleEnds ==
  /\ pc = "idle" /\ closing /\ alive
  /\ NextRead(timeout)
  /\ pc' = "fetch"
  /\ timeout' = IOTimeout
  /\ waitLeft' = {} /\ closing' = FALSE
  /\ SendCommand
  /\ UNCHANGED <<tickLeft, idleErrors, alive, silent>>

\* The server ends IDLE with an error of its own.  The reader begins its next Read before
\* the deferred SetTimeout, or after it.
IdleRefused ==
  /\ pc = "idle" /\ ~closing /\ alive
  /\ \E t \in {IOTimeout, IdleTimeout} : NextRead(t)
  /\ IF idleErrors + 1 < maxIdleErrors
       THEN BeginIdle /\ idleErrors' = idleErrors + 1
       ELSE BeginPolling /\ timeout' = IOTimeout /\ closing' = FALSE /\ idleErrors' = 0
  /\ UNCHANGED <<alive, silent>>

-----------------------------------------------------------------------------
(* pollLoop *)

SendNoop ==
  /\ pc = "poll" /\ IsOver(tickLeft)
  /\ pc' = "noop"
  /\ tickLeft' = {PollInterval}
  /\ SendCommand
  /\ UNCHANGED <<timeout, readLeft, waitLeft, closing, idleErrors, alive, silent>>

NoopAnswered ==
  /\ pc = "noop" /\ alive
  /\ NextRead(timeout)
  /\ pc' = "fetch"
  /\ SendCommand
  /\ UNCHANGED <<timeout, worker, alive, silent>>

-----------------------------------------------------------------------------
(* Time *)

\* The pending Read reaches its deadline: every command fails from now on.
ReadExpires ==
  /\ pc # "dead" /\ readLeft = 0
  /\ pc' = "dead"
  /\ waitLeft' = {} /\ tickLeft' = {} /\ answerLeft' = {}
  /\ UNCHANGED <<timeout, readLeft, closing, idleErrors, alive, silent>>

\* A server that is up answers in time, and the worker acts when its timer is over.
Tick ==
  /\ pc # "dead" /\ readLeft > 0
  /\ alive => ~IsOver(answerLeft)
  /\ pc = "inject" => ~IsOver(waitLeft)
  /\ pc = "idle" /\ answerLeft = {} => ~IsOver(waitLeft)
  /\ pc = "poll" => ~IsOver(tickLeft)
  /\ readLeft' = readLeft - 1
  /\ waitLeft' = IF IsOver(waitLeft) THEN waitLeft ELSE Later(waitLeft)
  /\ tickLeft' = IF IsOver(tickLeft) THEN tickLeft ELSE Later(tickLeft)
  /\ answerLeft' = IF alive THEN Later(answerLeft) ELSE answerLeft
  /\ silent' = IF alive THEN 0 ELSE silent + 1
  /\ UNCHANGED <<pc, timeout, closing, idleErrors, alive>>

\* The server, or the network to it, goes away without a word.
GoSilent ==
  /\ alive /\ pc # "dead"
  /\ alive' = FALSE
  /\ UNCHANGED <<pc, timeout, readLeft, worker, answerLeft, silent>>

Dead == pc = "dead" /\ UNCHANGED vars

Next ==
  \/ FetchAnswered \/ InjectDone
  \/ IdleData \/ SendDone \/ IdleEnds \/ IdleRefused
  \/ SendNoop \/ NoopAnswered
  \/ ReadExpires \/ Tick \/ GoSilent \/ Dead

Spec == Init /\ [][Next]_vars

-----------------------------------------------------------------------------
(* Properties *)

\* The session of a server that answers in time is not ended by a timeout: not in the
\* 25 minutes of an IDLE, nor between two polls.
NoSpuriousTimeout == alive => pc # "dead"

\* A server that goes silent in a FETCH, or while the handler waits for the pipe, is
\* noticed within imapIOTimeout: the long timeout that Idle sets from another goroutine is
\* lowered before the Read that the tagged OK of IDLE ends has a successor.  Not so in the polls
\* after a server has refused IDLE, where the long Read may be the pending one; but no silence
\* ever lasts longer than imapIdleTimeout.
SilenceNoticed ==
  /\ pc \notin {"idle", "dead"} /\ tickLeft = {} => silent <= IOTimeout
  /\ pc # "dead" => silent <= IdleTimeout
=============================================================================
