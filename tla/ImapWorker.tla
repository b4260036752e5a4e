----------------------------- MODULE ImapWorker -----------------------------
(***************************************************************************)
(* The inbound half of the bridge: internal/imap/worker.go with the client *)
(* operations it calls (client.go), the checkpoint file and the mailbox.   *)
(*                                                                         *)
(* The worker is one goroutine.  A step ends where the outside world can   *)
(* get in between: a network operation, a call of inject, a write of the   *)
(* checkpoint, a wait.  The IMAP server, the operator and the SMTP half of *)
(* the bridge (as far as it takes the pipe offline) are the environment.   *)
(*                                                                         *)
(* Every failure uses up one unit of MaxFaults, so a behaviour has finitely *)
(* many of them; nothing bounds when they happen.                          *)
(***************************************************************************)
EXTENDS Envelope, CheckpointFile

CONSTANTS
  Mail,          \* the messages that may be in the mailbox
  NoMail,        \* marks a UID that is not in the mailbox
  Folder,        \* imap.folder
  CleanupMode,   \* imap.cleanup.mode
  Caps,          \* capabilities the server advertises
  InOrder,       \* the server answers UID FETCH in ascending UID order
  SendsBodies,   \* it answers for a message that is there with the message's body
  BaseDelay,     \* imap.reconnect_delay
  MaxDelay,      \* imap.max_reconnect_delay
  MaxValidity,   \* bound: UIDVALIDITY values of the mailbox
  MaxFaults      \* bound: failures in a behaviour

ASSUME MailAssumption    == Mail \subseteq RawMessage /\ NoMail \notin RawMessage
ASSUME FolderAssumption  == Folder \in Folders
ASSUME CleanupAssumption == CleanupMode \in {"none", "delete", "move"}
ASSUME CapsAssumption    == Caps \subseteq {"IDLE", "UIDPLUS", "MOVE"}
ASSUME ServerAssumption  == InOrder \in BOOLEAN /\ SendsBodies \in BOOLEAN
ASSUME DelayAssumption   == BaseDelay \in Nat /\ MaxDelay \in Nat /\ BaseDelay <= MaxDelay
ASSUME BoundAssumption   == MaxValidity \in Nat \ {0} /\ MaxFaults \in Nat

UIDs == 1..MaxUID
maxIdleErrors == 3

VARIABLES
  \* the mailbox on the server
  validity,     \* its UIDVALIDITY
  mbox,         \* UID -> message, or NoMail
  nextUID,      \* the UID the next message gets
  \* the disk
  cpFile,       \* checkpoint.json
  \* the worker
  pc,           \* where the goroutine is
  ctxDone,      \* the process context is cancelled
  lastUID,      \* runSession's lastUID
  todo,         \* UIDs the running FETCH has still to deliver
  cur,          \* the UID being injected
  batch,        \* the local variables of fetchAndProcess
  loop,         \* idleLoop or pollLoop
  idleErrors,   \* consecutive errors of IDLE
  exists,       \* existsCh holds a notification
  backoff,      \* Run's backoff
  dialErr,      \* isDial(err) for the session that just ended
  \* the pipe interface is online when both halves of the bridge are
  imapOnline,
  smtpOnline,
  faults,       \* failures so far
  \* history, of the current UIDVALIDITY
  injected,     \* UIDs handed to RNS
  removed,      \* UIDs cleanup took out of the mailbox
  seen          \* nextUID when the session's last FETCH was issued

server  == <<validity, mbox, nextUID>>
fetch   == <<todo, cur, batch>>
waiting == <<loop, idleErrors, exists, seen>>
session == <<lastUID, fetch, waiting>>
online  == <<imapOnline, smtpOnline>>
retry   == <<backoff, dialErr>>
history == <<injected, removed>>
vars    == <<server, cpFile, pc, ctxDone, session, retry, online, faults, history>>

-----------------------------------------------------------------------------
(* Faults and the life of a session *)

Fault == faults < MaxFaults /\ faults' = faults + 1

\* A network operation fails for free once the context is cancelled: the
\* watcher goroutine of runSession has closed the connection.
NetFault == IF ctxDone THEN UNCHANGED faults ELSE Fault

EmptyBatch == [processed |-> {}, skipped |-> {}, failedUID |-> 0, decodeFailedUID |-> 0]

BatchType == [processed : SUBSET UIDs, skipped : SUBSET UIDs,
              failedUID : 0..MaxUID, decodeFailedUID : 0..MaxUID]

\* The states in which the mailbox is selected.
InSession == pc \in {"fetch", "inject", "save", "cleanup", "wait"}

ClearSession ==
  /\ lastUID' = 0
  /\ todo' = {}
  /\ cur' = 0
  /\ batch' = EmptyBatch
  /\ loop' = "poll"
  /\ idleErrors' = 0
  /\ exists' = FALSE
  /\ seen' = 0

\* runSession returns; Run stops if the context is cancelled, else it sleeps.
EndSession(isDial) ==
  /\ ClearSession
  /\ imapOnline' = FALSE
  /\ pc' = IF ctxDone THEN "down" ELSE "sleep"
  /\ dialErr' = isDial
  /\ UNCHANGED backoff

Init ==
  /\ validity = 1
  /\ mbox = [u \in UIDs |-> NoMail]
  /\ nextUID = 1
  /\ cpFile = MissingFile
  /\ pc = "down"
  /\ ctxDone = FALSE
  /\ lastUID = 0 /\ todo = {} /\ cur = 0 /\ batch = EmptyBatch
  /\ loop = "poll" /\ idleErrors = 0 /\ exists = FALSE /\ seen = 0
  /\ backoff = BaseDelay
  /\ dialErr = FALSE
  /\ imapOnline = FALSE
  /\ smtpOnline = FALSE
  /\ faults = 0
  /\ injected = {} /\ removed = {}

-----------------------------------------------------------------------------
(* Run: dial, sleep, reconnect *)

\* The process starts: both halves of the bridge are offline (NewAggregator).
Start ==
  /\ pc = "down"
  /\ pc' = "dial"
  /\ ctxDone' = FALSE
  /\ backoff' = BaseDelay
  /\ dialErr' = FALSE
  /\ smtpOnline' = FALSE
  /\ UNCHANGED <<server, cpFile, session, imapOnline, faults, history>>

DialOK ==
  /\ pc = "dial"
  /\ ~ctxDone
  /\ pc' = "login"
  /\ UNCHANGED <<server, cpFile, ctxDone, session, retry, online, faults, history>>

DialFails ==
  /\ pc = "dial"
  /\ NetFault
  /\ EndSession(TRUE)
  /\ UNCHANGED <<server, cpFile, ctxDone, smtpOnline, history>>

\* Mutant: doubles without the limit.
NextBackoff_Unlimited == IF dialErr THEN 2 * backoff ELSE BaseDelay

\* Backoff changes after the sleep, by what ended the session before it.
NextBackoff ==
  IF dialErr THEN IF 2 * backoff < MaxDelay THEN 2 * backoff ELSE MaxDelay
             ELSE BaseDelay

WakeUp ==
  /\ pc = "sleep"
  /\ pc' = "dial"
  /\ backoff' = NextBackoff
  /\ dialErr' = FALSE
  /\ UNCHANGED <<server, cpFile, ctxDone, session, online, faults, history>>

StopSleeping ==
  /\ pc = "sleep"
  /\ ctxDone
  /\ pc' = "down"
  /\ UNCHANGED <<server, cpFile, ctxDone, session, retry, online, faults, history>>

-----------------------------------------------------------------------------
(* FetchSince *)

Present == {u \in UIDs : mbox[u] # NoMail}

\* UID FETCH start:* returns the UIDs from start on, and always the largest one.
\* lastUID + 1 wraps to 0, which stands for "the largest".
FetchRange(last) ==
  LET start == IF last = MaxUID THEN 0 ELSE last + 1
  IN  {u \in Present : (start # 0 /\ start <= u) \/ (\A v \in Present : v <= u)}

\* fetchAndProcess enters FetchSince.
BeginFetch(last) ==
  /\ pc' = "fetch"
  /\ todo' = FetchRange(last)
  /\ seen' = nextUID
  /\ batch' = EmptyBatch

\* The FETCH response for u comes next.
Delivers(u) == u \in todo /\ (InOrder => \A v \in todo : u <= v)

\* Mutant: trusts the server to return only what was asked for.
DropsResponse_Unfiltered(u) == mbox[u] = NoMail

\* FetchSince drops a UID it did not ask for; a message expunged meanwhile has
\* no body to deliver.
DropsResponse(u) == u <= lastUID \/ mbox[u] = NoMail

-----------------------------------------------------------------------------
(* runSession *)

\* Mutant: IMAP is not signalled online before the catch-up fetch.
OpenSession_Offline ==
  /\ pc = "login"
  /\ lastUID' = GetCheckpoint(cpFile, Folder, validity)
  /\ BeginFetch(lastUID')
  /\ loop' = IF "IDLE" \in Caps THEN "idle" ELSE "poll"
  /\ UNCHANGED <<server, cpFile, ctxDone, cur, idleErrors, exists, retry, online, faults,
                 history>>

\* Login, Select, GetCheckpoint, online, and the catch-up fetch begins.
OpenSession ==
  /\ pc = "login"
  /\ lastUID' = GetCheckpoint(cpFile, Folder, validity)
  /\ imapOnline' = TRUE
  /\ BeginFetch(lastUID')
  /\ loop' = IF "IDLE" \in Caps THEN "idle" ELSE "poll"
  /\ UNCHANGED <<server, cpFile, ctxDone, cur, idleErrors, exists, retry, smtpOnline,
                 faults, history>>

\* Login, Select or GetCheckpoint fails.
OpenFails ==
  /\ pc = "login"
  /\ NetFault
  /\ EndSession(FALSE)
  /\ UNCHANGED <<server, cpFile, ctxDone, smtpOnline, history>>

-----------------------------------------------------------------------------
(* fetchAndProcess *)

\* So is an answer without a body, whatever the reason: it is not counted as a failure.
DropResponse(u) ==
  /\ pc = "fetch"
  /\ Delivers(u)
  /\ DropsResponse(u) \/ ~SendsBodies
  /\ todo' = todo \ {u}
  /\ UNCHANGED <<server, cpFile, pc, ctxDone, lastUID, cur, batch, waiting, retry,
                 online, faults, history>>

\* The handler is called with u, and the context is not cancelled.
Handles(u, verdict) ==
  /\ pc = "fetch"
  /\ Delivers(u)
  /\ ~DropsResponse(u)
  /\ ~ctxDone
  /\ Verdict(mbox[u]) = verdict
  /\ todo' = todo \ {u}
  /\ UNCHANGED <<server, cpFile, ctxDone, lastUID, waiting, retry, online, faults, history>>

\* Mutant: a skipped UID is not remembered as advanceable.
SkipMessage_Forgotten(u) == Handles(u, "skip") /\ UNCHANGED <<pc, cur, batch>>

SkipMessage(u) ==
  /\ Handles(u, "skip")
  /\ batch' = [batch EXCEPT !.skipped = @ \cup {u}]
  /\ UNCHANGED <<pc, cur>>

\* Mutant: the last failure in place of the lowest.
LowestFailure_Last(old, u) == u

LowestFailure(old, u) == IF old = 0 \/ u < old THEN u ELSE old

PreserveBroken(u) ==
  /\ Handles(u, "broken")
  /\ batch' = [batch EXCEPT !.decodeFailedUID = LowestFailure(@, u)]
  /\ UNCHANGED <<pc, cur>>

BeginInject(u) ==
  /\ Handles(u, "inject")
  /\ pc' = "inject"
  /\ cur' = u
  /\ UNCHANGED batch

\* InjectWithRetry tries once a second while Receive answers ErrOffline.
InjectOK ==
  /\ pc = "inject"
  /\ imapOnline /\ smtpOnline
  /\ injected' = injected \cup {cur}
  /\ batch' = [batch EXCEPT !.processed = @ \cup {cur}]
  /\ pc' = "fetch"
  /\ cur' = 0
  /\ UNCHANGED <<server, cpFile, ctxDone, lastUID, todo, waiting, retry, online, faults,
                 removed>>

\* Any other error of Receive, or the context: the rest of the FETCH is dropped.
InjectFails ==
  /\ pc = "inject"
  /\ NetFault
  /\ batch' = [batch EXCEPT !.failedUID = cur]
  /\ pc' = "save"
  /\ todo' = {}
  /\ cur' = 0
  /\ UNCHANGED <<server, cpFile, ctxDone, lastUID, waiting, retry, online, history>>

\* Mutant: existsCh is drained after the fetch.
FetchDone_Drains ==
  /\ pc = "fetch"
  /\ todo = {}
  /\ pc' = "save"
  /\ exists' = FALSE
  /\ UNCHANGED <<server, cpFile, ctxDone, lastUID, fetch, loop, idleErrors, seen, retry,
                 online, faults, history>>

FetchDone ==
  /\ pc = "fetch"
  /\ todo = {}
  /\ pc' = "save"
  /\ UNCHANGED <<server, cpFile, ctxDone, session, retry, online, faults, history>>

\* The connection breaks, or the handler sees the cancelled context: an
\* incomplete FETCH advances nothing.
FetchFails ==
  /\ pc = "fetch"
  /\ NetFault
  /\ EndSession(FALSE)
  /\ UNCHANGED <<server, cpFile, ctxDone, smtpOnline, history>>

\* Mutant: a message that does not decode is no obstacle.
Ceiling_InjectOnly(b) == b.failedUID

\* ceilingUID: the lowest UID that failed, 0 when none did.
Ceiling(b) ==
  IF b.failedUID > 0 /\ b.decodeFailedUID > 0
    THEN IF b.failedUID < b.decodeFailedUID THEN b.failedUID ELSE b.decodeFailedUID
    ELSE IF b.failedUID > 0 THEN b.failedUID ELSE b.decodeFailedUID

Advanceable(b) == b.processed \cup b.skipped

\* The values the loop over the sorted advanceable UIDs gives computedSafe.
SafeCandidates(b, last) ==
  {last} \cup {u \in Advanceable(b) : u > last /\ (Ceiling(b) = 0 \/ u <= Ceiling(b))}

IsComputedSafe(safe, b, last) ==
  safe \in SafeCandidates(b, last) /\ \A u \in SafeCandidates(b, last) : u <= safe

\* Mutant: everything processed, also above the checkpoint.
CleanupUIDs_All(b, safe) == b.processed

\* The processed UIDs cleanup may remove, once the checkpoint is at safe.
CleanupUIDs(b, safe) == {u \in b.processed : u <= safe}

\* The session goes on from last in its loop.
BackToLoop(last) ==
  /\ lastUID' = last
  /\ batch' = EmptyBatch
  /\ pc' = "wait"
  /\ UNCHANGED <<todo, cur, waiting, retry, imapOnline>>

\* fetchAndProcess returns; the error of inject ends the session.
ReturnFromFetch(last) ==
  IF batch.failedUID > 0 THEN EndSession(FALSE) ELSE BackToLoop(last)

NothingToSave ==
  /\ pc = "save"
  /\ IsComputedSafe(lastUID, batch, lastUID)
  /\ ReturnFromFetch(lastUID)
  /\ UNCHANGED <<server, cpFile, ctxDone, smtpOnline, faults, history>>

\* Mutant: a failed write leaves a truncated file (no temporary file and rename).
AdvanceFails_Truncates ==
  /\ pc = "save"
  /\ ~IsComputedSafe(lastUID, batch, lastUID)
  /\ Fault
  /\ ReturnFromFetch(lastUID)
  /\ cpFile' = CorruptFile
  /\ UNCHANGED <<server, ctxDone, smtpOnline, history>>

AdvanceFails ==
  /\ pc = "save"
  /\ ~IsComputedSafe(lastUID, batch, lastUID)
  /\ Fault
  /\ ReturnFromFetch(lastUID)
  /\ UNCHANGED <<server, cpFile, ctxDone, smtpOnline, history>>

\* The checkpoint is on disk; cleanup follows when the fetch had no error and
\* there is something to clean up.
AdvanceOK(safe) ==
  /\ pc = "save"
  /\ IsComputedSafe(safe, batch, lastUID)
  /\ safe > lastUID
  /\ cpFile' = JsonFile(AdvanceCheckpoint(load(cpFile), Folder, validity, safe))
  /\ \/ /\ batch.failedUID = 0
        /\ CleanupUIDs(batch, safe) # {}
        /\ lastUID' = safe
        /\ pc' = "cleanup"
        /\ UNCHANGED <<fetch, waiting, retry, imapOnline>>
     \/ /\ batch.failedUID > 0 \/ CleanupUIDs(batch, safe) = {}
        /\ ReturnFromFetch(safe)
  /\ UNCHANGED <<server, ctxDone, smtpOnline, faults, history>>

-----------------------------------------------------------------------------
(* cleanup: errors are logged and swallowed *)

\* DeleteUIDs needs UIDPLUS, MoveUIDs needs MOVE or UIDPLUS.
CanCleanup ==
  \/ CleanupMode = "delete" /\ "UIDPLUS" \in Caps
  \/ CleanupMode = "move" /\ ("MOVE" \in Caps \/ "UIDPLUS" \in Caps)

\* The server takes the messages in gone out of the folder.
RemoveMessages(gone) ==
  /\ mbox' = [u \in UIDs |-> IF u \in gone THEN NoMail ELSE mbox[u]]
  /\ removed' = removed \cup {u \in gone : mbox[u] # NoMail}

CleanupOK ==
  /\ pc = "cleanup"
  /\ CanCleanup
  /\ RemoveMessages(CleanupUIDs(batch, lastUID))
  /\ BackToLoop(lastUID)
  /\ UNCHANGED <<validity, nextUID, cpFile, ctxDone, smtpOnline, faults, injected>>

\* STORE, UID EXPUNGE or MOVE fails, having removed some of the messages.
CleanupFails ==
  /\ pc = "cleanup"
  /\ CanCleanup
  /\ NetFault
  /\ \E gone \in SUBSET CleanupUIDs(batch, lastUID) : RemoveMessages(gone)
  /\ BackToLoop(lastUID)
  /\ UNCHANGED <<validity, nextUID, cpFile, ctxDone, smtpOnline, injected>>

CleanupSkipped ==
  /\ pc = "cleanup"
  /\ ~CanCleanup
  /\ BackToLoop(lastUID)
  /\ UNCHANGED <<server, cpFile, ctxDone, smtpOnline, faults, history>>

-----------------------------------------------------------------------------
(* idleLoop and pollLoop.  Once the context is cancelled the connection is  *)
(* closed and the loops return; a round that select still starts would end  *)
(* the session too.                                                         *)

NextRound ==
  /\ BeginFetch(lastUID)
  /\ idleErrors' = 0
  /\ UNCHANGED <<server, cpFile, ctxDone, lastUID, cur, loop, retry, online, faults,
                 history>>

\* An EXISTS notification: existsCh is drained before the fetch.
IdleNotified ==
  /\ pc = "wait" /\ loop = "idle" /\ ~ctxDone
  /\ exists
  /\ exists' = FALSE
  /\ NextRound

\* IDLE is restarted after idleRestart, and a fetch is made then as well.
IdleTimeout ==
  /\ pc = "wait" /\ loop = "idle" /\ ~ctxDone
  /\ UNCHANGED exists
  /\ NextRound

IdleError ==
  /\ pc = "wait" /\ loop = "idle" /\ ~ctxDone
  /\ Fault
  /\ \/ idleErrors + 1 < maxIdleErrors /\ idleErrors' = idleErrors + 1 /\ loop' = "idle"
     \/ idleErrors + 1 >= maxIdleErrors /\ idleErrors' = 0 /\ loop' = "poll"
  /\ UNCHANGED <<server, cpFile, pc, ctxDone, lastUID, fetch, exists, seen, retry,
                 online, history>>

\* The ticker fires and NOOP succeeds.
PollTick ==
  /\ pc = "wait" /\ loop = "poll" /\ ~ctxDone
  /\ UNCHANGED exists
  /\ NextRound

NoopFails ==
  /\ pc = "wait" /\ loop = "poll" /\ ~ctxDone
  /\ Fault
  /\ EndSession(FALSE)
  /\ UNCHANGED <<server, cpFile, ctxDone, smtpOnline, history>>

\* Mutant: the loop does not return when the context is cancelled.
StopWaiting_Ignores == pc = "wait" /\ ctxDone /\ UNCHANGED vars

StopWaiting ==
  /\ pc = "wait" /\ ctxDone
  /\ EndSession(FALSE)
  /\ UNCHANGED <<server, cpFile, ctxDone, smtpOnline, faults, history>>

-----------------------------------------------------------------------------
(* Environment *)

\* The server announces a new message to an open session (EXISTS); onMailbox
\* puts a notification in existsCh unless one is there.
Arrive(m) ==
  /\ nextUID <= MaxUID
  /\ mbox' = [mbox EXCEPT ![nextUID] = m]
  /\ nextUID' = nextUID + 1
  /\ exists' = (exists \/ InSession)
  /\ UNCHANGED <<validity, cpFile, pc, ctxDone, lastUID, fetch, loop, idleErrors, seen,
                 retry, online, faults, history>>

\* Another client of the mailbox deletes a message.
UserDelete(u) ==
  /\ mbox[u] # NoMail
  /\ Fault
  /\ mbox' = [mbox EXCEPT ![u] = NoMail]
  /\ UNCHANGED <<validity, nextUID, cpFile, pc, ctxDone, session, retry, online, history>>

\* The server rebuilds the mailbox while it is not selected: a new UIDVALIDITY,
\* and the messages it kept numbered from 1.
Rebuild(n, kept) ==
  /\ ~InSession
  /\ validity < MaxValidity
  /\ \A i \in 1..n, j \in 1..n : i < j => kept[i] < kept[j]
  /\ validity' = validity + 1
  /\ mbox' = [u \in UIDs |-> IF u <= n THEN mbox[kept[u]] ELSE NoMail]
  /\ nextUID' = n + 1
  /\ injected' = {} /\ removed' = {}
  /\ UNCHANGED <<cpFile, pc, ctxDone, session, retry, online, faults>>

Crash ==
  /\ pc # "down"
  /\ Fault
  /\ pc' = "down"
  /\ ClearSession
  /\ imapOnline' = FALSE
  /\ UNCHANGED <<server, cpFile, ctxDone, retry, smtpOnline, history>>

\* checkpoint.json is deleted or damaged while the bridge is not running.
LoseCheckpoint(file) ==
  /\ pc = "down"
  /\ cpFile.state = "json"
  /\ Fault
  /\ cpFile' = file
  /\ UNCHANGED <<server, pc, ctxDone, session, retry, online, history>>

\* SIGINT, SIGTERM, or the pipe to rnsd closes.
Cancel ==
  /\ pc # "down" /\ ~ctxDone
  /\ Fault
  /\ ctxDone' = TRUE
  /\ UNCHANGED <<server, cpFile, pc, session, retry, online, history>>

\* The SMTP half enters recovery.
SmtpDown ==
  /\ smtpOnline
  /\ Fault
  /\ smtpOnline' = FALSE
  /\ UNCHANGED <<server, cpFile, pc, ctxDone, session, retry, imapOnline, history>>

\* Its startup probe or its recovery succeeds.
SmtpUp ==
  /\ ~smtpOnline
  /\ smtpOnline' = TRUE
  /\ UNCHANGED <<server, cpFile, pc, ctxDone, session, retry, imapOnline, faults, history>>

-----------------------------------------------------------------------------
(* Specification *)

\* What the goroutine does when nothing fails.
Progress ==
  \/ DialOK \/ WakeUp \/ StopSleeping \/ OpenSession
  \/ \E u \in UIDs : DropResponse(u) \/ SkipMessage(u) \/ PreserveBroken(u) \/ BeginInject(u)
  \/ InjectOK \/ FetchDone
  \/ NothingToSave \/ \E safe \in UIDs : AdvanceOK(safe)
  \/ CleanupOK \/ CleanupSkipped
  \/ IdleNotified \/ IdleTimeout \/ PollTick \/ StopWaiting

Failure ==
  \/ DialFails \/ OpenFails \/ FetchFails \/ InjectFails
  \/ AdvanceFails \/ CleanupFails \/ IdleError \/ NoopFails

Environment ==
  \/ \E m \in Mail : Arrive(m)
  \/ \E u \in UIDs : UserDelete(u)
  \/ \E n \in 0..MaxUID : \E kept \in [1..n -> Present] : Rebuild(n, kept)
  \/ \E file \in {MissingFile, CorruptFile} : LoseCheckpoint(file)
  \/ Crash \/ Cancel \/ SmtpDown \/ SmtpUp

Next == Start \/ Progress \/ Failure \/ Environment

Spec == Init /\ [][Next]_vars

\* The goroutine runs while it can, and notices that its context is cancelled;
\* an operator restarts the bridge; the SMTP half recovers.
Fairness ==
  /\ WF_vars(Progress \/ (ctxDone /\ Failure))
  /\ WF_vars(Start)
  /\ WF_vars(SmtpUp)

FairSpec == Spec /\ Fairness

-----------------------------------------------------------------------------
(* Properties *)

CheckpointUID == GetCheckpoint(cpFile, Folder, validity)

\* The Boolean variables.
FlagsOK == {ctxDone, exists, dialErr, imapOnline, smtpOnline} \subseteq BOOLEAN

\* The others: UIDs within their 32 bits, backoff between its base and its limit, IDLE
\* errors below the fallback to polling.
DataOK ==
  /\ validity \in 1..MaxValidity
  /\ mbox \in [UIDs -> Mail \cup {NoMail}]
  /\ nextUID \in 1..(MaxUID + 1)
  /\ cpFile \in CheckpointFileType
  /\ pc \in {"down", "dial", "login", "fetch", "inject", "save", "cleanup", "wait", "sleep"}
  /\ lastUID \in 0..MaxUID
  /\ todo \subseteq UIDs
  /\ cur \in 0..MaxUID
  /\ batch \in BatchType
  /\ loop \in {"idle", "poll"}
  /\ idleErrors \in 0..(maxIdleErrors - 1)
  /\ backoff \in BaseDelay..MaxDelay
  /\ faults \in 0..MaxFaults
  /\ injected \subseteq UIDs
  /\ removed \subseteq UIDs
  /\ seen \in 0..(MaxUID + 1)

\* Type invariant of the worker, its mailbox and the checkpoint file.
TypeOK == FlagsOK /\ DataOK

\* No message is left behind: a message at or below the checkpoint of its mailbox
\* was handed to RNS or is not for this bridge.  fetchAndProcess relies on the
\* order of FETCH responses for this when inject fails, and on every one having a body.
NoGap ==
  \A u \in Present : u <= CheckpointUID =>
    \/ Verdict(mbox[u]) = "skip"
    \/ Verdict(mbox[u]) = "inject" /\ u \in injected

\* A packet at or below the checkpoint is not injected again, although the server
\* returns the largest UID for a range above it (the filter in FetchSince).
NoReplay == pc = "inject" => cur > CheckpointUID

\* A message that came after the last FETCH was issued has left a notification in
\* existsCh, so idleLoop does not sleep over it.
NoLostWakeup ==
  pc = "wait" /\ loop = "idle" => \A u \in Present : u >= seen => exists

\* cleanup removes a message only after it was injected and a checkpoint at or above
\* it is on disk, so neither a crash nor a lost session loses it.
CleanupIsSafe ==
  [][\A u \in removed' \ removed : u \in injected /\ u <= CheckpointUID]_vars

\* While the worker runs on an unchanged mailbox its checkpoint never moves back:
\* not when a FETCH is repeated, fails, or comes back out of order.
CheckpointMonotone ==
  [][pc # "down" /\ validity' = validity => CheckpointUID' >= CheckpointUID]_vars

\* After a FETCH that ran to its end with all bodies, in whatever order, the checkpoint passes only
\* messages that were injected or skipped in it.
CompleteFetchHasNoGap ==
  [][pc = "save" /\ batch.failedUID = 0 =>
       \A u \in Present : lastUID < u /\ u <= CheckpointUID' => u \in Advanceable(batch)]_vars

\* Every message for this bridge is injected, whatever failed in between.
Delivered ==
  \A u \in UIDs :
    LET Ours == mbox[u] # NoMail /\ Verdict(mbox[u]) = "inject"
    IN  Ours ~> (u \in injected \/ ~Ours)

\* In the end the checkpoint is past every message below the lowest broken one.
CheckpointCatchesUp ==
  <>[](\A u \in Present :
         \/ u <= CheckpointUID
         \/ \E v \in Present : v <= u /\ Verdict(mbox[v]) = "broken")

\* A cancelled context stops the worker from wherever it is.
Stops == ctxDone ~> pc = "down"

\* "the mailbox accumulates stale messages until the next successful run"
\* (comment of cleanup): an injected, checkpointed message is removed in the end.
CleanedUpEventually ==
  \A u \in UIDs :
    (u \in injected /\ u <= CheckpointUID /\ mbox[u] # NoMail) ~> mbox[u] = NoMail

\* "transport mail from a non-peer sender [...] Skipped messages do not block the
\* checkpoint" (README): the ceiling is never a message of another sender.
ForeignMailNeverBlocks ==
  \A u \in Present :
    u = batch.decodeFailedUID /\ mbox[u].from.parses => canonicalAddr(mbox[u].from) = PeerEmail
=============================================================================
