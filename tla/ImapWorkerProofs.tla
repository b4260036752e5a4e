-------------------------- MODULE ImapWorkerProofs --------------------------
(* Theorems about ImapWorker, for every mailbox size, set of messages,      *)
(* capability set, cleanup mode and number of failures.                     *)
EXTENDS ImapWorker, TLAPS

-----------------------------------------------------------------------------
(* The checkpoint record *)

\* The zero record is a record, and the two files without one are files.
LEMMA ZeroType ==
  /\ ZeroCheckpoint \in Checkpoint
  /\ MissingFile \in CheckpointFileType
  /\ CorruptFile \in CheckpointFileType
<1>1. ZeroCheckpoint \in Checkpoint
  BY MaxUIDAssumption DEF Checkpoint, ZeroCheckpoint
<1> QED
  BY <1>1 DEF CheckpointFileType, MissingFile, CorruptFile

\* A checkpoint file reads as a record, whatever its state.
LEMMA LoadType ==
  ASSUME NEW file \in CheckpointFileType
  PROVE  load(file) \in Checkpoint
BY ZeroType DEF CheckpointFileType, load

\* GetCheckpoint returns a UID or 0.
LEMMA GetCheckpointType ==
  ASSUME NEW file \in CheckpointFileType, NEW v
  PROVE  GetCheckpoint(file, Folder, v) \in 0..MaxUID
BY LoadType, MaxUIDAssumption DEF GetCheckpoint, Checkpoint

\* The record AdvanceCheckpoint saves makes a well-formed file.
LEMMA AdvanceType ==
  ASSUME NEW file \in CheckpointFileType, NEW v \in Nat, NEW uid \in UIDs
  PROVE  JsonFile(AdvanceCheckpoint(load(file), Folder, v, uid)) \in CheckpointFileType
<1>1. load(file) \in Checkpoint
  BY LoadType
<1>2. AdvanceCheckpoint(load(file), Folder, v, uid) \in Checkpoint
  BY <1>1, FolderAssumption, MaxUIDAssumption DEF AdvanceCheckpoint, Checkpoint, UIDs
<1> QED
  BY <1>2 DEF JsonFile, CheckpointFileType

\* What was saved is what the next GetCheckpoint of the mailbox reads: never less
\* than the UID asked for, nor than the checkpoint before.
LEMMA AdvanceRead ==
  ASSUME NEW file \in CheckpointFileType, NEW v \in Nat, NEW uid \in UIDs
  PROVE  GetCheckpoint(JsonFile(AdvanceCheckpoint(load(file), Folder, v, uid)), Folder, v)
           = IF uid > GetCheckpoint(file, Folder, v) THEN uid ELSE GetCheckpoint(file, Folder, v)
<1>1. load(file) \in Checkpoint
  BY LoadType
<1>2. \A c : load(JsonFile(c)) = c
  BY DEF load, JsonFile
<1>3. CASE SameMailbox(load(file), Folder, v)
  BY <1>1, <1>2, <1>3, MaxUIDAssumption
     DEF GetCheckpoint, AdvanceCheckpoint, Checkpoint, SameMailbox, UIDs
<1>4. CASE ~SameMailbox(load(file), Folder, v)
  BY <1>1, <1>2, <1>4, MaxUIDAssumption
     DEF GetCheckpoint, AdvanceCheckpoint, Checkpoint, SameMailbox, UIDs
<1> QED
  BY <1>3, <1>4

-----------------------------------------------------------------------------
(* Type correctness *)

\* TypeOK is inductive once the UID being injected is known to be a UID.
TypeInv == TypeOK /\ (pc = "inject" => cur \in UIDs)

\* The initial state is well-formed.
LEMMA TypeInit == Init => TypeInv
<1> SUFFICES ASSUME Init PROVE TypeInv
  OBVIOUS
<1>1. cpFile \in CheckpointFileType
  BY ZeroType DEF Init
<1>2. batch \in BatchType
  BY MaxUIDAssumption DEF Init, BatchType, EmptyBatch
<1>3. mbox \in [UIDs -> Mail \cup {NoMail}]
  BY DEF Init
<1>4. FlagsOK
  BY DEF Init, FlagsOK
<1>5. /\ validity \in 1..MaxValidity /\ nextUID \in 1..(MaxUID + 1)
      /\ lastUID \in 0..MaxUID /\ cur \in 0..MaxUID /\ idleErrors \in 0..(maxIdleErrors - 1)
      /\ backoff \in BaseDelay..MaxDelay /\ faults \in 0..MaxFaults /\ seen \in 0..(MaxUID + 1)
  BY MaxUIDAssumption, DelayAssumption, BoundAssumption DEF Init, maxIdleErrors
<1>6. pc = "down" /\ loop = "poll" /\ todo = {} /\ injected = {} /\ removed = {}
  BY DEF Init
<1> QED
  BY <1>1, <1>2, <1>3, <1>4, <1>5, <1>6 DEF TypeInv, TypeOK, DataOK

\* fetchAndProcess starts with well-formed local variables.
LEMMA EmptyBatchType == EmptyBatch \in BatchType
BY MaxUIDAssumption DEF BatchType, EmptyBatch

\* The handler's updates of its local variables keep their type.
LEMMA BatchUpdateType ==
  ASSUME NEW b \in BatchType, NEW u \in UIDs
  PROVE  /\ [b EXCEPT !.processed = @ \cup {u}] \in BatchType
         /\ [b EXCEPT !.skipped = @ \cup {u}] \in BatchType
         /\ [b EXCEPT !.failedUID = u] \in BatchType
         /\ [b EXCEPT !.decodeFailedUID = LowestFailure(@, u)] \in BatchType
<1>1. u \in 0..MaxUID /\ LowestFailure(b.decodeFailedUID, u) \in 0..MaxUID
  BY MaxUIDAssumption DEF BatchType, UIDs, LowestFailure
<1> QED
  BY <1>1 DEF BatchType

\* Removing messages keeps the mailbox and the history well-formed.
LEMMA RemoveType ==
  ASSUME DataOK, NEW gone \in SUBSET CleanupUIDs(batch, lastUID), RemoveMessages(gone)
  PROVE  mbox' \in [UIDs -> Mail \cup {NoMail}] /\ removed' \subseteq UIDs
<1>1. gone \subseteq UIDs
  BY DEF DataOK, BatchType, CleanupUIDs
<1> QED
  BY <1>1 DEF DataOK, RemoveMessages

\* Leaving a session keeps the types.
LEMMA EndSessionType ==
  ASSUME NEW d \in BOOLEAN, EndSession(d)
  PROVE  /\ lastUID' = 0 /\ todo' = {} /\ cur' = 0
         /\ batch' \in BatchType /\ loop' \in {"idle", "poll"}
         /\ idleErrors' = 0 /\ exists' = FALSE
         /\ seen' = 0
         /\ imapOnline' = FALSE /\ pc' \in {"down", "sleep"}
         /\ dialErr' \in BOOLEAN /\ backoff' = backoff
BY EmptyBatchType DEF EndSession, ClearSession

\* No step gives a flag a value that is not Boolean.
LEMMA FlagsNext == FlagsOK /\ [Next]_vars => FlagsOK'
<1> SUFFICES ASSUME FlagsOK, [Next]_vars PROVE FlagsOK'
  OBVIOUS
<1> USE DEF FlagsOK, online, session, waiting, retry
<1>1. CASE Start
  BY <1>1, Zenon DEF Start
<1>2. CASE DialOK
  BY <1>2, Zenon DEF DialOK
<1>3. CASE DialFails
  BY <1>3, Zenon DEF DialFails, EndSession, ClearSession
<1>4. CASE WakeUp
  BY <1>4, Zenon DEF WakeUp
<1>5. CASE StopSleeping
  BY <1>5, Zenon DEF StopSleeping
<1>6. CASE OpenSession
  BY <1>6, Zenon DEF OpenSession, BeginFetch
<1>7. CASE OpenFails
  BY <1>7, Zenon DEF OpenFails, EndSession, ClearSession
<1>8. CASE \E u \in UIDs : DropResponse(u)
  BY <1>8, Zenon DEF DropResponse
<1>9. CASE \E u \in UIDs : SkipMessage(u)
  BY <1>9, Zenon DEF SkipMessage, Handles
<1>10. CASE \E u \in UIDs : PreserveBroken(u)
  BY <1>10, Zenon DEF PreserveBroken, Handles
<1>11. CASE \E u \in UIDs : BeginInject(u)
  BY <1>11, Zenon DEF BeginInject, Handles
<1>12. CASE InjectOK
  BY <1>12, Zenon DEF InjectOK
<1>13. CASE InjectFails
  BY <1>13, Zenon DEF InjectFails
<1>14. CASE FetchDone
  BY <1>14, Zenon DEF FetchDone
<1>15. CASE FetchFails
  BY <1>15, Zenon DEF FetchFails, EndSession, ClearSession
<1>16. CASE NothingToSave
  BY <1>16, Zenon DEF NothingToSave, ReturnFromFetch, BackToLoop, EndSession, ClearSession
<1>17. CASE AdvanceFails
  BY <1>17, Zenon DEF AdvanceFails, ReturnFromFetch, BackToLoop, EndSession, ClearSession
<1>18. CASE \E safe \in UIDs : AdvanceOK(safe)
  BY <1>18, Zenon DEF AdvanceOK, ReturnFromFetch, BackToLoop, EndSession, ClearSession
<1>19. CASE CleanupOK
  BY <1>19, Zenon DEF CleanupOK, BackToLoop
<1>20. CASE CleanupFails
  BY <1>20, Zenon DEF CleanupFails, BackToLoop
<1>21. CASE CleanupSkipped
  BY <1>21, Zenon DEF CleanupSkipped, BackToLoop
<1>22. CASE IdleNotified
  BY <1>22, Zenon DEF IdleNotified, NextRound, BeginFetch
<1>23. CASE IdleTimeout
  BY <1>23, Zenon DEF IdleTimeout, NextRound, BeginFetch
<1>24. CASE IdleError
  BY <1>24, Zenon DEF IdleError
<1>25. CASE PollTick
  BY <1>25, Zenon DEF PollTick, NextRound, BeginFetch
<1>26. CASE NoopFails
  BY <1>26, Zenon DEF NoopFails, EndSession, ClearSession
<1>27. CASE StopWaiting
  BY <1>27, Zenon DEF StopWaiting, EndSession, ClearSession
<1>28. CASE \E m \in Mail : Arrive(m)
  BY <1>28, Zenon DEF Arrive
<1>29. CASE \E u \in UIDs : UserDelete(u)
  BY <1>29, Zenon DEF UserDelete
<1>30. CASE \E n \in 0..MaxUID : \E kept \in [1..n -> Present] : Rebuild(n, kept)
  BY <1>30, Zenon DEF Rebuild
<1>31. CASE \E file \in {MissingFile, CorruptFile} : LoseCheckpoint(file)
  BY <1>31, Zenon DEF LoseCheckpoint
<1>32. CASE Crash
  BY <1>32, Zenon DEF Crash, ClearSession
<1>33. CASE Cancel
  BY <1>33, Zenon DEF Cancel
<1>34. CASE SmtpDown
  BY <1>34, Zenon DEF SmtpDown
<1>35. CASE SmtpUp
  BY <1>35, Zenon DEF SmtpUp
<1>36. CASE UNCHANGED vars
  BY <1>36, Zenon DEF vars
<1> QED
  BY <1>1, <1>2, <1>3, <1>4, <1>5, <1>6, <1>7, <1>8, <1>9, <1>10, <1>11, <1>12, <1>13, <1>14,
     <1>15, <1>16, <1>17, <1>18, <1>19, <1>20, <1>21, <1>22, <1>23, <1>24, <1>25, <1>26, <1>27,
     <1>28, <1>29, <1>30, <1>31, <1>32, <1>33, <1>34, <1>35, <1>36
     DEF Next, Progress, Failure, Environment

\* No step takes a variable out of its type: one case per action.
LEMMA DataNext == TypeInv /\ [Next]_vars => DataOK' /\ (pc' = "inject" => cur' \in UIDs)
<1> DEFINE Goal == DataOK' /\ (pc' = "inject" => cur' \in UIDs)
<1> SUFFICES ASSUME TypeInv, [Next]_vars PROVE Goal
  OBVIOUS
<1> USE MaxUIDAssumption, BoundAssumption
    DEF TypeInv, TypeOK, DataOK, server, session, fetch, waiting, retry, online, history,
        Fault, NetFault
<1>1. CASE Start
  BY <1>1, DelayAssumption DEF Start
<1>2. CASE DialOK
  BY <1>2 DEF DialOK
<1>3. CASE DialFails
  BY <1>3, EmptyBatchType DEF DialFails, EndSession, ClearSession, maxIdleErrors
<1>4. CASE WakeUp
  BY <1>4, DelayAssumption DEF WakeUp, NextBackoff
<1>5. CASE StopSleeping
  BY <1>5 DEF StopSleeping
<1>6. CASE OpenSession
  BY <1>6, EmptyBatchType, GetCheckpointType DEF OpenSession, BeginFetch, FetchRange, Present
<1>7. CASE OpenFails
  BY <1>7, EmptyBatchType DEF OpenFails, EndSession, ClearSession, maxIdleErrors
<1>8. CASE \E u \in UIDs : DropResponse(u)
  BY <1>8 DEF DropResponse
<1>9. CASE \E u \in UIDs : SkipMessage(u)
  BY <1>9, BatchUpdateType DEF SkipMessage, Handles
<1>10. CASE \E u \in UIDs : PreserveBroken(u)
  BY <1>10, BatchUpdateType DEF PreserveBroken, Handles
<1>11. CASE \E u \in UIDs : BeginInject(u)
  BY <1>11 DEF BeginInject, Handles, UIDs
<1>12. CASE InjectOK
  <2>1. cur \in UIDs /\ batch \in BatchType
    BY <1>12 DEF InjectOK
  <2>2. batch' \in BatchType
    BY <2>1, <1>12, BatchUpdateType DEF InjectOK
  <2> QED
    BY <2>1, <2>2, <1>12 DEF InjectOK, UIDs
<1>13. CASE InjectFails
  <2>1. cur \in UIDs /\ batch \in BatchType
    BY <1>13 DEF InjectFails
  <2>2. batch' \in BatchType
    BY <2>1, <1>13, BatchUpdateType DEF InjectFails
  <2> QED
    BY <2>1, <2>2, <1>13 DEF InjectFails
<1>14. CASE FetchDone
  BY <1>14 DEF FetchDone
<1>15. CASE FetchFails
  BY <1>15, EmptyBatchType DEF FetchFails, EndSession, ClearSession, maxIdleErrors
<1>16. CASE NothingToSave
  BY <1>16, EmptyBatchType DEF NothingToSave, ReturnFromFetch, BackToLoop, EndSession,
     ClearSession, maxIdleErrors
<1>17. CASE AdvanceFails
  BY <1>17, EmptyBatchType DEF AdvanceFails, ReturnFromFetch, BackToLoop, EndSession,
     ClearSession, maxIdleErrors
<1>18. CASE \E safe \in UIDs : AdvanceOK(safe)
  <2> PICK safe \in UIDs : AdvanceOK(safe)
    BY <1>18
  <2>1. cpFile' \in CheckpointFileType
    BY AdvanceType DEF AdvanceOK
  <2>2. UNCHANGED <<server, ctxDone, smtpOnline, faults, history>>
    BY DEF AdvanceOK
  <2>3. CASE pc' = "cleanup" /\ lastUID' = safe /\ UNCHANGED <<fetch, waiting, retry>>
    BY <2>1, <2>2, <2>3 DEF UIDs
  <2>4. safe \in 0..MaxUID
    BY DEF UIDs
  <2>5. CASE EndSession(FALSE)
    BY <2>1, <2>2, <2>5, EmptyBatchType DEF EndSession, ClearSession, maxIdleErrors
  <2>6. CASE BackToLoop(safe)
    BY <2>1, <2>2, <2>4, <2>6, EmptyBatchType DEF BackToLoop
  <2> QED
    BY <2>3, <2>5, <2>6 DEF AdvanceOK, ReturnFromFetch
<1>19. CASE CleanupOK
  BY <1>19, EmptyBatchType, RemoveType DEF CleanupOK, BackToLoop
<1>20. CASE CleanupFails
  BY <1>20, EmptyBatchType, RemoveType DEF CleanupFails, BackToLoop
<1>21. CASE CleanupSkipped
  BY <1>21, EmptyBatchType DEF CleanupSkipped, BackToLoop
<1>22. CASE IdleNotified
  BY <1>22, EmptyBatchType DEF IdleNotified, NextRound, BeginFetch, FetchRange, Present,
     maxIdleErrors
<1>23. CASE IdleTimeout
  BY <1>23, EmptyBatchType DEF IdleTimeout, NextRound, BeginFetch, FetchRange, Present,
     maxIdleErrors
<1>24. CASE IdleError
  BY <1>24 DEF IdleError, maxIdleErrors
<1>25. CASE PollTick
  BY <1>25, EmptyBatchType DEF PollTick, NextRound, BeginFetch, FetchRange, Present, maxIdleErrors
<1>26. CASE NoopFails
  BY <1>26, EmptyBatchType DEF NoopFails, EndSession, ClearSession, maxIdleErrors
<1>27. CASE StopWaiting
  BY <1>27, EmptyBatchType DEF StopWaiting, EndSession, ClearSession, maxIdleErrors
<1>28. CASE \E m \in Mail : Arrive(m)
  BY <1>28 DEF Arrive, UIDs
<1>29. CASE \E u \in UIDs : UserDelete(u)
  BY <1>29 DEF UserDelete
<1>30. CASE \E n \in 0..MaxUID : \E kept \in [1..n -> Present] : Rebuild(n, kept)
  BY <1>30 DEF Rebuild, Present, UIDs
<1>31. CASE \E file \in {MissingFile, CorruptFile} : LoseCheckpoint(file)
  BY <1>31, ZeroType DEF LoseCheckpoint
<1>32. CASE Crash
  BY <1>32, EmptyBatchType DEF Crash, ClearSession, maxIdleErrors
<1>33. CASE Cancel
  BY <1>33 DEF Cancel
<1>34. CASE SmtpDown
  BY <1>34 DEF SmtpDown
<1>35. CASE SmtpUp
  BY <1>35 DEF SmtpUp
<1>36. CASE UNCHANGED vars
  BY <1>36 DEF vars
<1> QED
  BY <1>1, <1>2, <1>3, <1>4, <1>5, <1>6, <1>7, <1>8, <1>9, <1>10, <1>11, <1>12, <1>13, <1>14,
     <1>15, <1>16, <1>17, <1>18, <1>19, <1>20, <1>21, <1>22, <1>23, <1>24, <1>25, <1>26, <1>27,
     <1>28, <1>29, <1>30, <1>31, <1>32, <1>33, <1>34, <1>35, <1>36
     DEF Next, Progress, Failure, Environment

\* Every step keeps the type invariant.
LEMMA TypeNext == TypeInv /\ [Next]_vars => TypeInv'
BY FlagsNext, DataNext DEF TypeInv, TypeOK

\* Type correctness of the IMAP worker: every variable keeps its type, the backoff
\* stays between its base and its limit, and IDLE errors stay below the fallback.
THEOREM TypeCorrect == Spec => []TypeOK
<1>1. TypeInv => TypeOK
  BY DEF TypeInv
<1> QED
  BY <1>1, TypeInit, TypeNext, PTL DEF Spec

-----------------------------------------------------------------------------
(* The inductive invariant *)

Fetching == pc \in {"fetch", "inject", "save"}

\* Outside a session the session's variables have their zero values; in one, lastUID
\* is what the file says.
SessionInv ==
  /\ ~InSession => todo = {} /\ batch = EmptyBatch /\ seen = 0
  /\ InSession => lastUID = CheckpointUID

\* Everything the worker knows of is older than the FETCH, which is older than nextUID;
\* the file never names a UIDVALIDITY from the future.
BoundsInv ==
  /\ CheckpointUID < nextUID
  /\ load(cpFile).validity <= validity
  /\ \A u \in UIDs : mbox[u] # NoMail => u < nextUID
  /\ seen <= nextUID
  /\ \A u \in UIDs : u \in Advanceable(batch) \/ u \in todo => u < seen
  /\ pc = "inject" => lastUID < cur /\ cur < seen

\* The handler filed each UID by its verdict, and injected what it says it did.
BatchInv ==
  /\ batch.processed \subseteq injected
  /\ \A u \in batch.skipped : mbox[u] # NoMail => Verdict(mbox[u]) = "skip"
  /\ \A u \in batch.processed : mbox[u] # NoMail => Verdict(mbox[u]) = "inject"
  /\ pc = "inject" => (mbox[cur] # NoMail => Verdict(mbox[cur]) = "inject")

\* Where the FETCH stands: an aborted one is over, and in order nothing it still had to
\* deliver was below the UID being injected.
OrderInv ==
  /\ pc \in {"save", "cleanup"} => todo = {}
  /\ pc \in {"fetch", "inject"} => batch.failedUID = 0
  /\ pc = "inject" /\ InOrder => \A v \in todo : cur < v

\* A fetched message is filed, still to come, or at or above a failure.
Covered(u) ==
  \/ u \in Advanceable(batch)
  \/ u \in todo
  \/ pc = "inject" /\ u = cur
  \/ batch.decodeFailedUID > 0 /\ batch.decodeFailedUID <= u
  \/ batch.failedUID > 0 /\ batch.failedUID <= u

\* Every message the running FETCH has to deliver is covered, unless bodies are left out
\* or a FETCH in arbitrary order was aborted by inject.
CoverInv ==
  Fetching /\ SendsBodies /\ (InOrder \/ batch.failedUID = 0) =>
    \A u \in UIDs : mbox[u] # NoMail /\ lastUID < u /\ u < seen => Covered(u)

\* The part of the inductive invariant beyond the types.
Rest ==
  /\ SessionInv
  /\ BoundsInv
  /\ BatchInv
  /\ OrderInv
  /\ CoverInv
  /\ InOrder /\ SendsBodies => NoGap

IndInv == TypeInv /\ Rest

\* The relations hold initially: the mailbox is empty and there is no session.
LEMMA RestInit == Init => Rest
<1> SUFFICES ASSUME Init PROVE Rest
  OBVIOUS
<1>1. mbox = [u \in UIDs |-> NoMail] /\ pc = "down" /\ seen = 0 /\ nextUID = 1
        /\ validity = 1 /\ todo = {} /\ batch = EmptyBatch /\ cpFile = MissingFile
  BY DEF Init
<1>2. load(cpFile) = ZeroCheckpoint
  BY <1>1 DEF load, MissingFile
<1>3. CheckpointUID = 0
  BY <1>1, <1>2 DEF CheckpointUID, GetCheckpoint, SameMailbox, ZeroCheckpoint
<1>4. SessionInv /\ OrderInv /\ CoverInv /\ NoGap
  BY <1>1 DEF SessionInv, OrderInv, CoverInv, NoGap, InSession, Fetching, Present
<1>5. BoundsInv
  BY <1>1, <1>2, <1>3 DEF BoundsInv, Advanceable, EmptyBatch, ZeroCheckpoint
<1>6. BatchInv
  BY <1>1 DEF BatchInv, EmptyBatch
<1> QED
  BY <1>4, <1>5, <1>6 DEF Rest

\* A step that leaves the mailbox, the file and the FETCH alone, and does not enter or
\* leave a session, keeps the invariant.
LEMMA RestStutter ==
  ASSUME Rest, UNCHANGED <<server, cpFile, lastUID, fetch, seen, injected>>,
         pc' = pc \/ (~InSession /\ ~InSession')
  PROVE  Rest'
<1> USE DEF server, fetch
<1>1. CheckpointUID' = CheckpointUID /\ load(cpFile)' = load(cpFile)
  BY DEF CheckpointUID
<1>2. SessionInv'
  BY <1>1 DEF Rest, SessionInv, InSession
<1>3. BoundsInv'
  BY <1>1 DEF Rest, BoundsInv, InSession
<1>4. BatchInv'
  BY DEF Rest, BatchInv, InSession
<1>5. OrderInv'
  BY DEF Rest, OrderInv, InSession
<1>6. CoverInv'
  BY DEF Rest, CoverInv, Covered, Fetching, InSession, Advanceable
<1>7. (InOrder /\ SendsBodies => NoGap)'
  BY <1>1 DEF Rest, NoGap, Present
<1> QED
  BY <1>2, <1>3, <1>4, <1>5, <1>6, <1>7 DEF Rest

\* Leaving a session keeps the invariant when the file is in order.
LEMMA RestLeave ==
  ASSUME TypeInv, BoundsInv, ClearSession, pc' \in {"down", "sleep"}, UNCHANGED server,
         CheckpointUID' < nextUID, load(cpFile').validity <= validity, (InOrder /\ SendsBodies => NoGap)'
  PROVE  Rest'
<1> USE DEF ClearSession, server
<1>1. SessionInv' /\ OrderInv' /\ CoverInv'
  BY DEF SessionInv, OrderInv, CoverInv, InSession, Fetching
<1>2. BatchInv'
  BY DEF BatchInv, EmptyBatch
<1>3. nextUID \in Nat
  BY MaxUIDAssumption DEF TypeInv, TypeOK, DataOK
<1>4. BoundsInv'
  BY <1>3 DEF BoundsInv, Advanceable, EmptyBatch
<1> QED
  BY <1>1, <1>2, <1>4 DEF Rest

\* The same for a session that ends without touching the file.
LEMMA RestLeaveUnchanged ==
  ASSUME TypeInv, Rest, ClearSession, pc' \in {"down", "sleep"}, UNCHANGED <<server, cpFile>>,
         injected' = injected
  PROVE  Rest'
<1>1. CheckpointUID' = CheckpointUID /\ load(cpFile)' = load(cpFile)
  BY DEF CheckpointUID, server
<1>2. (InOrder /\ SendsBodies => NoGap)'
  BY <1>1 DEF Rest, NoGap, Present, server
<1>3. CheckpointUID' < nextUID /\ load(cpFile').validity <= validity
  BY <1>1 DEF Rest, BoundsInv
<1> QED
  BY <1>2, <1>3, RestLeave DEF Rest

\* A FETCH that starts from the checkpoint has everything above it to deliver.
LEMMA RestBeginFetch ==
  ASSUME TypeInv, Rest, lastUID' = CheckpointUID, BeginFetch(lastUID'),
         UNCHANGED <<server, cpFile, injected>>
  PROVE  Rest'
<1> USE DEF server
<1>1. CheckpointUID' = CheckpointUID /\ load(cpFile)' = load(cpFile)
  BY DEF CheckpointUID
<1>2. nextUID \in Nat /\ CheckpointUID \in 0..MaxUID
  BY GetCheckpointType, MaxUIDAssumption DEF TypeInv, TypeOK, DataOK, CheckpointUID
<1>3. SessionInv'
  BY <1>1 DEF SessionInv, BeginFetch, InSession
<1>4. BatchInv' /\ OrderInv'
  BY DEF BatchInv, OrderInv, BeginFetch, EmptyBatch
<1>5. \A u \in todo' : u \in UIDs /\ mbox[u] # NoMail
  BY DEF BeginFetch, FetchRange, Present
<1>6. BoundsInv'
  BY <1>1, <1>2, <1>5 DEF Rest, BoundsInv, BeginFetch, Advanceable, EmptyBatch
<1>7. ASSUME NEW u \in UIDs, mbox[u] # NoMail, lastUID' < u
      PROVE  u \in todo'
  BY <1>2, <1>7, MaxUIDAssumption DEF BeginFetch, FetchRange, Present, UIDs
<1>8. CoverInv'
  BY <1>7 DEF CoverInv, Covered
<1>9. (InOrder /\ SendsBodies => NoGap)'
  BY <1>1 DEF Rest, NoGap, Present
<1> QED
  BY <1>3, <1>4, <1>6, <1>8, <1>9 DEF Rest

-----------------------------------------------------------------------------
(* The fetch *)

\* The mailbox and the file as the steps of a fetch leave them.
LEMMA RestHandle ==
  ASSUME TypeInv, Rest, UNCHANGED <<server, cpFile, lastUID, seen>>, pc = "fetch",
         NEW u \in todo, todo' = todo \ {u}
  PROVE  /\ CheckpointUID' = CheckpointUID
         /\ load(cpFile)' = load(cpFile)
         /\ u \in UIDs /\ u < seen /\ batch.failedUID = 0
         /\ lastUID = CheckpointUID
         /\ injected \subseteq injected' => (InOrder /\ SendsBodies => NoGap)'
<1>1. CheckpointUID' = CheckpointUID /\ load(cpFile)' = load(cpFile)
  BY DEF CheckpointUID, server
<1>2. u \in UIDs
  BY DEF TypeInv, TypeOK, DataOK
<1>3. u < seen /\ batch.failedUID = 0 /\ lastUID = CheckpointUID
  BY <1>2 DEF Rest, BoundsInv, OrderInv, SessionInv, InSession
<1>4. injected \subseteq injected' => (InOrder /\ SendsBodies => NoGap)'
  BY <1>1 DEF Rest, NoGap, Present, server
<1> QED
  BY <1>1, <1>2, <1>3, <1>4

\* A dropped response is at or below lastUID, or its message is gone, or has no body.
LEMMA RestDrop ==
  ASSUME TypeInv, Rest, NEW u \in UIDs, DropResponse(u)
  PROVE  Rest'
<1> USE DEF DropResponse, Delivers, server, fetch, history, waiting
<1>1. /\ CheckpointUID' = CheckpointUID /\ load(cpFile)' = load(cpFile)
      /\ (InOrder /\ SendsBodies => NoGap)'
  BY RestHandle
<1>2. SessionInv'
  BY <1>1 DEF Rest, SessionInv, InSession
<1>3. BoundsInv'
  BY <1>1 DEF Rest, BoundsInv
<1>4. BatchInv' /\ OrderInv'
  BY DEF Rest, BatchInv, OrderInv
<1>5. lastUID \in Int /\ u \in Int
  BY DEF TypeInv, TypeOK, DataOK, UIDs
<1>6. CoverInv'
  BY <1>5 DEF Rest, CoverInv, Covered, Fetching, Advanceable, DropsResponse
<1> QED
  BY <1>1, <1>2, <1>3, <1>4, <1>6 DEF Rest

\* A skipped message becomes advanceable as it leaves the FETCH.
LEMMA RestSkip ==
  ASSUME TypeInv, Rest, NEW u \in UIDs, SkipMessage(u)
  PROVE  Rest'
<1> USE DEF SkipMessage, Handles, Delivers, server, history, waiting
<1>0. batch \in BatchType /\ todo \subseteq UIDs
  BY DEF TypeInv, TypeOK, DataOK
<1>1. /\ CheckpointUID' = CheckpointUID /\ load(cpFile)' = load(cpFile)
      /\ u < seen /\ (InOrder /\ SendsBodies => NoGap)'
  BY RestHandle
<1>2. /\ batch'.processed = batch.processed /\ batch'.skipped = batch.skipped \cup {u}
      /\ batch'.failedUID = batch.failedUID
      /\ batch'.decodeFailedUID = batch.decodeFailedUID
  BY <1>0 DEF BatchType
<1>3. SessionInv'
  BY <1>1 DEF Rest, SessionInv, InSession
<1>4. BoundsInv'
  BY <1>1, <1>2 DEF Rest, BoundsInv, Advanceable
<1>5. BatchInv' /\ OrderInv'
  BY <1>2 DEF Rest, BatchInv, OrderInv
<1>6. CoverInv'
  BY <1>2 DEF Rest, CoverInv, Covered, Fetching, Advanceable
<1> QED
  BY <1>1, <1>3, <1>4, <1>5, <1>6 DEF Rest

\* A broken message is at or above decodeFailedUID from now on.
LEMMA RestBroken ==
  ASSUME TypeInv, Rest, NEW u \in UIDs, PreserveBroken(u)
  PROVE  Rest'
<1> USE DEF PreserveBroken, Handles, Delivers, server, history, waiting
<1>0. batch \in BatchType /\ todo \subseteq UIDs
  BY DEF TypeInv, TypeOK, DataOK
<1>1. /\ CheckpointUID' = CheckpointUID /\ load(cpFile)' = load(cpFile)
      /\ u < seen /\ (InOrder /\ SendsBodies => NoGap)'
  BY RestHandle
<1>2. /\ batch'.processed = batch.processed /\ batch'.skipped = batch.skipped
      /\ batch'.failedUID = batch.failedUID
      /\ batch'.decodeFailedUID = LowestFailure(batch.decodeFailedUID, u)
  BY <1>0 DEF BatchType
<1>3. SessionInv'
  BY <1>1 DEF Rest, SessionInv, InSession
<1>4. BoundsInv'
  BY <1>1, <1>2 DEF Rest, BoundsInv, Advanceable
<1>5. BatchInv' /\ OrderInv'
  BY <1>2 DEF Rest, BatchInv, OrderInv
<1>6. /\ batch'.decodeFailedUID > 0 /\ batch'.decodeFailedUID <= u
      /\ batch.decodeFailedUID > 0 => batch'.decodeFailedUID <= batch.decodeFailedUID
      /\ batch.decodeFailedUID \in Int /\ batch'.decodeFailedUID \in Int
  BY <1>0, <1>2 DEF LowestFailure, BatchType, UIDs
<1>7. CoverInv'
  BY <1>2, <1>6 DEF Rest, CoverInv, Covered, Fetching, Advanceable, UIDs
<1> QED
  BY <1>1, <1>3, <1>4, <1>5, <1>7 DEF Rest

\* The message being injected is out of the FETCH and above the checkpoint.
LEMMA RestBeginInject ==
  ASSUME TypeInv, Rest, NEW u \in UIDs, BeginInject(u)
  PROVE  Rest'
<1> USE DEF BeginInject, Handles, Delivers, server, history, waiting
<1>0. lastUID \in Int /\ u \in Int /\ todo \subseteq UIDs /\ \A v \in UIDs : v \in Int
  BY DEF TypeInv, TypeOK, DataOK, UIDs
<1>1. /\ CheckpointUID' = CheckpointUID /\ load(cpFile)' = load(cpFile)
      /\ u < seen /\ (InOrder /\ SendsBodies => NoGap)'
  BY RestHandle
<1>2. SessionInv'
  BY <1>1 DEF Rest, SessionInv, InSession
<1>3. BoundsInv'
  BY <1>0, <1>1 DEF Rest, BoundsInv, Advanceable, DropsResponse
<1>4. BatchInv'
  BY DEF Rest, BatchInv
<1>5. OrderInv'
  BY <1>0 DEF Rest, OrderInv
<1>6. CoverInv'
  BY DEF Rest, CoverInv, Covered, Fetching, Advanceable
<1> QED
  BY <1>1, <1>2, <1>3, <1>4, <1>5, <1>6 DEF Rest

\* An injected message becomes advanceable.
LEMMA RestInjectOK ==
  ASSUME TypeInv, Rest, InjectOK
  PROVE  Rest'
<1> USE DEF InjectOK, server, waiting
<1>0. batch \in BatchType /\ cur \in UIDs
  BY DEF TypeInv, TypeOK, DataOK
<1>1. CheckpointUID' = CheckpointUID /\ load(cpFile)' = load(cpFile)
  BY DEF CheckpointUID
<1>2. /\ batch'.processed = batch.processed \cup {cur} /\ batch'.skipped = batch.skipped
      /\ batch'.failedUID = batch.failedUID
      /\ batch'.decodeFailedUID = batch.decodeFailedUID
  BY <1>0 DEF BatchType
<1>3. SessionInv'
  BY <1>1 DEF Rest, SessionInv, InSession
<1>4. BoundsInv'
  BY <1>0, <1>1, <1>2 DEF Rest, BoundsInv, Advanceable
<1>5. BatchInv' /\ OrderInv'
  BY <1>0, <1>2 DEF Rest, BatchInv, OrderInv
<1>6. CoverInv'
  BY <1>2 DEF Rest, CoverInv, Covered, Fetching, Advanceable
<1>7. (InOrder /\ SendsBodies => NoGap)'
  BY <1>1 DEF Rest, NoGap, Present
<1> QED
  BY <1>3, <1>4, <1>5, <1>6, <1>7 DEF Rest

\* The rest of the FETCH is dropped here: in order it lies above the failed UID.
LEMMA RestInjectFails ==
  ASSUME TypeInv, Rest, InjectFails
  PROVE  Rest'
<1> USE DEF InjectFails, server, waiting, history
<1>0. batch \in BatchType /\ cur \in UIDs /\ todo \subseteq UIDs /\ \A v \in UIDs : v \in Int /\ v > 0
  BY DEF TypeInv, TypeOK, DataOK, UIDs
<1>1. CheckpointUID' = CheckpointUID /\ load(cpFile)' = load(cpFile)
  BY DEF CheckpointUID
<1>2. /\ batch'.processed = batch.processed /\ batch'.skipped = batch.skipped
      /\ batch'.failedUID = cur
      /\ batch'.decodeFailedUID = batch.decodeFailedUID
  BY <1>0 DEF BatchType
<1>3. SessionInv'
  BY <1>1 DEF Rest, SessionInv, InSession
<1>4. BoundsInv'
  BY <1>0, <1>1, <1>2 DEF Rest, BoundsInv, Advanceable
<1>5. BatchInv' /\ OrderInv'
  BY <1>0, <1>2 DEF Rest, BatchInv, OrderInv
<1>6. batch'.failedUID > 0
  BY <1>0, <1>2
<1>7. CoverInv'
  BY <1>0, <1>2, <1>6 DEF Rest, CoverInv, Covered, Fetching, Advanceable, OrderInv
<1>8. (InOrder /\ SendsBodies => NoGap)'
  BY <1>1 DEF Rest, NoGap, Present
<1> QED
  BY <1>3, <1>4, <1>5, <1>7, <1>8 DEF Rest

\* A FETCH that delivered everything has covered the mailbox above lastUID.
LEMMA RestFetchDone ==
  ASSUME TypeInv, Rest, FetchDone
  PROVE  Rest'
<1> USE DEF FetchDone, server, session, fetch, waiting, history
<1>1. CheckpointUID' = CheckpointUID /\ load(cpFile)' = load(cpFile)
  BY DEF CheckpointUID
<1>2. SessionInv'
  BY <1>1 DEF Rest, SessionInv, InSession
<1>3. BoundsInv'
  BY <1>1 DEF Rest, BoundsInv
<1>4. BatchInv' /\ OrderInv'
  BY DEF Rest, BatchInv, OrderInv
<1>5. CoverInv'
  BY DEF Rest, CoverInv, Covered, Fetching, Advanceable
<1>6. (InOrder /\ SendsBodies => NoGap)'
  BY <1>1 DEF Rest, NoGap, Present
<1> QED
  BY <1>2, <1>3, <1>4, <1>5, <1>6 DEF Rest

-----------------------------------------------------------------------------
(* The checkpoint *)

\* The session goes on in its loop.
LEMMA RestBackToLoop ==
  ASSUME TypeInv, Rest, NEW last, BackToLoop(last), last = CheckpointUID',
         UNCHANGED <<validity, nextUID>>, todo = {},
         CheckpointUID' < nextUID, load(cpFile').validity <= validity,
         \A u \in UIDs : mbox'[u] # NoMail => mbox[u] # NoMail,
         (InOrder /\ SendsBodies => NoGap)'
  PROVE  Rest'
<1> USE DEF BackToLoop, waiting
<1>1. SessionInv' /\ OrderInv' /\ CoverInv'
  BY DEF SessionInv, OrderInv, CoverInv, InSession, Fetching
<1>2. BatchInv'
  BY DEF BatchInv, EmptyBatch
<1>3. BoundsInv'
  BY DEF Rest, BoundsInv, Advanceable, EmptyBatch
<1> QED
  BY <1>1, <1>2, <1>3 DEF Rest

\* fetchAndProcess without a new checkpoint, whatever it returns.
LEMMA RestNoAdvance ==
  ASSUME TypeInv, Rest, pc = "save", ReturnFromFetch(lastUID),
         UNCHANGED <<server, cpFile, injected>>
  PROVE  Rest'
<1>1. CheckpointUID' = CheckpointUID /\ load(cpFile)' = load(cpFile)
  BY DEF CheckpointUID, server
<1>2. (InOrder /\ SendsBodies => NoGap)'
  BY <1>1 DEF Rest, NoGap, Present, server
<1>3. lastUID = CheckpointUID' /\ todo = {} /\ CheckpointUID' < nextUID
        /\ load(cpFile').validity <= validity
  BY <1>1 DEF Rest, SessionInv, InSession, OrderInv, BoundsInv
<1>4. CASE EndSession(FALSE)
  <2>1. ClearSession /\ pc' \in {"down", "sleep"}
    BY <1>4 DEF EndSession
  <2> QED
    BY <2>1, RestLeaveUnchanged
<1>5. CASE BackToLoop(lastUID)
  <2>1. UNCHANGED <<validity, nextUID, mbox>>
    BY DEF server
  <2> QED
    BY <1>2, <1>3, <1>5, <2>1, RestBackToLoop
<1> QED
  BY <1>4, <1>5 DEF ReturnFromFetch

\* The heart of the matter: the checkpoint moves to safe, and every message it passes
\* was injected or skipped, unless a FETCH in arbitrary order was aborted.
LEMMA AdvanceLemma ==
  ASSUME TypeInv, Rest, NEW safe \in UIDs, AdvanceOK(safe)
  PROVE  /\ CheckpointUID' = safe
         /\ safe < nextUID
         /\ load(cpFile').validity <= validity
         /\ SendsBodies /\ (InOrder \/ batch.failedUID = 0) =>
              \A u \in UIDs : mbox[u] # NoMail /\ lastUID < u /\ u <= safe => u \in Advanceable(batch)
         /\ (InOrder /\ SendsBodies => NoGap)'
<1> USE DEF AdvanceOK, server, history
<1>0. /\ batch \in BatchType /\ lastUID \in Int /\ validity \in Nat /\ seen \in Int
      /\ nextUID \in Int /\ cpFile \in CheckpointFileType /\ \A u \in UIDs : u \in Int
  BY BoundAssumption DEF TypeInv, TypeOK, DataOK, UIDs
<1>1. pc = "save" /\ todo = {} /\ lastUID = CheckpointUID
  BY DEF Rest, OrderInv, SessionInv, InSession
<1>2. CheckpointUID' = safe
  BY <1>0, <1>1, AdvanceRead DEF CheckpointUID
<1>3. load(cpFile').validity <= validity
  <2>1. load(cpFile') = AdvanceCheckpoint(load(cpFile), Folder, validity, safe)
    BY DEF load, JsonFile
  <2>2. load(cpFile) \in Checkpoint
    BY <1>0, LoadType
  <2> QED
    BY <1>0, <2>1, <2>2 DEF AdvanceCheckpoint, Checkpoint, SameMailbox
<1>4. safe \in Advanceable(batch) /\ (Ceiling(batch) = 0 \/ safe <= Ceiling(batch))
  BY <1>0 DEF IsComputedSafe, SafeCandidates
<1>5. safe < seen /\ seen <= nextUID
  BY <1>4 DEF Rest, BoundsInv
<1>6. /\ batch.failedUID > 0 => Ceiling(batch) > 0 /\ Ceiling(batch) <= batch.failedUID
      /\ batch.decodeFailedUID > 0 => Ceiling(batch) > 0 /\ Ceiling(batch) <= batch.decodeFailedUID
      /\ Ceiling(batch) \in Int /\ batch.failedUID \in Int /\ batch.decodeFailedUID \in Int
  BY <1>0 DEF Ceiling, BatchType
<1>7. ASSUME SendsBodies, InOrder \/ batch.failedUID = 0,
             NEW u \in UIDs, mbox[u] # NoMail, lastUID < u, u <= safe
      PROVE  u \in Advanceable(batch)
  <2>1. u < seen
    BY <1>0, <1>5, <1>7
  <2>2. Covered(u)
    BY <1>1, <1>7, <2>1 DEF Rest, CoverInv, Fetching
  <2> QED
    BY <1>0, <1>1, <1>4, <1>6, <1>7, <2>2 DEF Covered
<1>8. ASSUME InOrder, SendsBodies PROVE NoGap'
  <2> SUFFICES ASSUME NEW u \in UIDs, mbox[u] # NoMail, u <= safe
               PROVE  \/ Verdict(mbox[u]) = "skip"
                      \/ Verdict(mbox[u]) = "inject" /\ u \in injected
    BY <1>2 DEF NoGap, Present
  <2>1. CASE u <= lastUID
    BY <1>1, <1>8, <2>1 DEF Rest, NoGap, Present
  <2>2. CASE lastUID < u
    <3>1. u \in batch.processed \/ u \in batch.skipped
      BY <1>7, <1>8, <2>2 DEF Advanceable
    <3> QED
      BY <3>1 DEF Rest, BatchInv
  <2> QED
    BY <1>0, <2>1, <2>2
<1> QED
  BY <1>0, <1>2, <1>3, <1>5, <1>7, <1>8

\* A saved checkpoint keeps the invariant, with or without cleanup to follow.
LEMMA RestAdvanceOK ==
  ASSUME TypeInv, Rest, NEW safe \in UIDs, AdvanceOK(safe)
  PROVE  Rest'
<1>1. /\ CheckpointUID' = safe /\ safe < nextUID /\ load(cpFile').validity <= validity
      /\ (InOrder /\ SendsBodies => NoGap)'
  BY AdvanceLemma
<1>2. pc = "save" /\ todo = {} /\ UNCHANGED <<validity, mbox, nextUID, injected>> /\ UNCHANGED server
  BY DEF Rest, OrderInv, AdvanceOK, server, history
<1>3. CASE pc' = "cleanup" /\ lastUID' = safe /\ UNCHANGED <<fetch, waiting>>
  <2> USE DEF fetch, waiting
  <2>1. SessionInv' /\ OrderInv' /\ CoverInv'
    BY <1>1, <1>2, <1>3 DEF SessionInv, OrderInv, CoverInv, InSession, Fetching
  <2>2. BatchInv'
    BY <1>2, <1>3 DEF Rest, BatchInv
  <2>3. BoundsInv'
    BY <1>1, <1>2, <1>3 DEF Rest, BoundsInv
  <2> QED
    BY <1>1, <2>1, <2>2, <2>3 DEF Rest
<1>4. CASE EndSession(FALSE)
  <2>1. ClearSession /\ pc' \in {"down", "sleep"} /\ BoundsInv
    BY <1>4 DEF EndSession, Rest
  <2>2. CheckpointUID' < nextUID
    BY <1>1
  <2> QED
    BY <1>1, <1>2, <2>1, <2>2, RestLeave
<1>5. CASE BackToLoop(safe)
  BY <1>1, <1>2, <1>5, RestBackToLoop
<1> QED
  BY <1>3, <1>4, <1>5 DEF AdvanceOK, ReturnFromFetch

-----------------------------------------------------------------------------
(* Cleanup and the environment *)

\* cleanup takes messages out of the mailbox and changes nothing else.
LEMMA RestCleanup ==
  ASSUME TypeInv, Rest, pc = "cleanup", BackToLoop(lastUID),
         UNCHANGED <<validity, nextUID, cpFile, injected>>,
         \A u \in UIDs : mbox'[u] = NoMail \/ mbox'[u] = mbox[u]
  PROVE  Rest'
<1>1. CheckpointUID' = CheckpointUID /\ load(cpFile)' = load(cpFile)
  BY DEF CheckpointUID
<1>2. (InOrder /\ SendsBodies => NoGap)'
  BY <1>1 DEF Rest, NoGap, Present
<1>3. lastUID = CheckpointUID' /\ todo = {} /\ CheckpointUID' < nextUID
        /\ load(cpFile').validity <= validity
  BY <1>1 DEF Rest, SessionInv, InSession, OrderInv, BoundsInv
<1>4. \A u \in UIDs : mbox'[u] # NoMail => mbox[u] # NoMail
  OBVIOUS
<1> QED
  BY <1>2, <1>3, <1>4, RestBackToLoop

\* RemoveMessages only empties places in the mailbox.
LEMMA RemoveOnly ==
  ASSUME NEW gone, RemoveMessages(gone)
  PROVE  \A u \in UIDs : mbox'[u] = NoMail \/ mbox'[u] = mbox[u]
BY DEF RemoveMessages

\* A new message is above the checkpoint and outside the running FETCH.
LEMMA RestArrive ==
  ASSUME TypeInv, Rest, NEW m \in Mail, Arrive(m)
  PROVE  Rest'
<1> USE DEF Arrive, history, fetch
<1>0. /\ nextUID \in UIDs /\ seen \in Int /\ \A u \in UIDs : u \in Int
      /\ mbox \in [UIDs -> Mail \cup {NoMail}] /\ batch \in BatchType /\ todo \subseteq UIDs
      /\ CheckpointUID \in Int
  BY MaxUIDAssumption, GetCheckpointType DEF TypeInv, TypeOK, DataOK, UIDs, CheckpointUID
<1>1. CheckpointUID' = CheckpointUID /\ load(cpFile)' = load(cpFile)
  BY DEF CheckpointUID
<1>2. /\ \A u \in UIDs : u # nextUID => mbox'[u] = mbox[u]
      /\ seen <= nextUID /\ CheckpointUID < nextUID
  BY <1>0 DEF Rest, BoundsInv
<1>3. SessionInv'
  BY <1>1 DEF Rest, SessionInv, InSession
<1>4. BoundsInv'
  BY <1>0, <1>1, <1>2 DEF Rest, BoundsInv, Advanceable
<1>5. \A u \in UIDs : u \in Advanceable(batch) => u # nextUID
  BY <1>0, <1>2 DEF Rest, BoundsInv
<1>6. BatchInv'
  <2>1. batch.processed \subseteq UIDs /\ batch.skipped \subseteq UIDs
    BY <1>0 DEF BatchType
  <2>2. pc = "inject" => cur \in UIDs /\ cur # nextUID
    BY <1>0, <1>2 DEF Rest, BoundsInv, TypeInv
  <2> QED
    BY <1>2, <1>5, <2>1, <2>2 DEF Rest, BatchInv, Advanceable
<1>7. OrderInv'
  BY DEF Rest, OrderInv
<1>8. CoverInv'
  BY <1>0, <1>2 DEF Rest, CoverInv, Covered, Fetching, Advanceable
<1>9. (InOrder /\ SendsBodies => NoGap)'
  BY <1>0, <1>1, <1>2 DEF Rest, NoGap, Present
<1> QED
  BY <1>3, <1>4, <1>6, <1>7, <1>8, <1>9 DEF Rest

\* A message another client deletes needs no cover any more.
LEMMA RestUserDelete ==
  ASSUME TypeInv, Rest, NEW x \in UIDs, UserDelete(x)
  PROVE  Rest'
<1> USE DEF UserDelete, history, session, fetch, waiting
<1>0. batch \in BatchType /\ (pc = "inject" => cur \in UIDs)
        /\ mbox \in [UIDs -> Mail \cup {NoMail}]
  BY DEF TypeInv, TypeOK, DataOK
<1>1. CheckpointUID' = CheckpointUID /\ load(cpFile)' = load(cpFile)
  BY DEF CheckpointUID
<1>2. \A u \in UIDs : mbox'[u] = NoMail \/ mbox'[u] = mbox[u]
  BY <1>0
<1>3. SessionInv'
  BY <1>1 DEF Rest, SessionInv, InSession
<1>4. BoundsInv'
  BY <1>1, <1>2 DEF Rest, BoundsInv
<1>5. BatchInv' /\ OrderInv'
  BY <1>0, <1>2 DEF Rest, BatchInv, OrderInv, BatchType
<1>6. CoverInv'
  BY <1>2 DEF Rest, CoverInv, Covered, Fetching, Advanceable
<1>7. (InOrder /\ SendsBodies => NoGap)'
  BY <1>1, <1>2 DEF Rest, NoGap, Present
<1> QED
  BY <1>3, <1>4, <1>5, <1>6, <1>7 DEF Rest

\* A rebuilt mailbox has a UIDVALIDITY the file does not name: its checkpoint is 0.
LEMMA RestRebuild ==
  ASSUME TypeInv, Rest, NEW n \in 0..MaxUID, NEW kept \in [1..n -> Present], Rebuild(n, kept)
  PROVE  Rest'
<1> USE DEF Rebuild, session, fetch, waiting
<1>0. validity \in Int /\ load(cpFile).validity \in Int
  BY LoadType DEF TypeInv, TypeOK, DataOK, Checkpoint
<1>1. load(cpFile)' = load(cpFile) /\ load(cpFile).validity < validity'
  BY <1>0 DEF Rest, BoundsInv
<1>2. CheckpointUID' = 0
  BY <1>0, <1>1 DEF CheckpointUID, GetCheckpoint, SameMailbox
<1>3. ~InSession /\ ~InSession' /\ todo = {} /\ batch = EmptyBatch /\ seen = 0
  BY DEF Rest, SessionInv, InSession
<1>4. SessionInv' /\ OrderInv' /\ CoverInv' /\ BatchInv'
  BY <1>3 DEF SessionInv, OrderInv, CoverInv, BatchInv, InSession, Fetching, EmptyBatch
<1>5. \A u \in UIDs : mbox'[u] # NoMail => u <= n
  OBVIOUS
<1>6. BoundsInv'
  BY <1>0, <1>1, <1>2, <1>3, <1>5 DEF BoundsInv, Advanceable, EmptyBatch, InSession, UIDs
<1>7. NoGap'
  BY <1>2 DEF NoGap, Present, UIDs
<1> QED
  BY <1>4, <1>6, <1>7 DEF Rest

\* A lost file reads as checkpoint 0, and no message is at or below that.
LEMMA RestLoseCheckpoint ==
  ASSUME TypeInv, Rest, NEW file \in {MissingFile, CorruptFile}, LoseCheckpoint(file)
  PROVE  Rest'
<1> USE DEF LoseCheckpoint, server, history, session, fetch, waiting
<1>0. /\ load(cpFile') = ZeroCheckpoint /\ validity \in Nat \ {0} /\ nextUID \in Nat \ {0}
      /\ \A u \in UIDs : u \in Int /\ u > 0
  BY DEF load, MissingFile, CorruptFile, TypeInv, TypeOK, DataOK, UIDs
<1>1. CheckpointUID' = 0
  BY <1>0 DEF CheckpointUID, GetCheckpoint, SameMailbox, ZeroCheckpoint
<1>2. SessionInv' /\ OrderInv' /\ CoverInv' /\ BatchInv'
  BY DEF Rest, SessionInv, OrderInv, CoverInv, BatchInv, InSession, Fetching
<1>3. BoundsInv'
  BY <1>0, <1>1 DEF Rest, BoundsInv, ZeroCheckpoint
<1>4. NoGap'
  BY <1>0, <1>1 DEF NoGap, Present
<1> QED
  BY <1>2, <1>3, <1>4 DEF Rest

-----------------------------------------------------------------------------
(* The invariant holds *)

\* Every step keeps the relations: one case per action, by the lemmas above.
LEMMA RestNext == IndInv /\ [Next]_vars => Rest'
<1> SUFFICES ASSUME TypeInv, Rest, [Next]_vars PROVE Rest'
  BY DEF IndInv
<1>1. CASE Start
  BY <1>1, RestStutter DEF Start, InSession, session, fetch, waiting, history
<1>2. CASE DialOK
  BY <1>2, RestStutter DEF DialOK, InSession, session, fetch, waiting, history
<1>3. CASE DialFails
  BY <1>3, RestLeaveUnchanged DEF DialFails, EndSession, history
<1>4. CASE WakeUp
  BY <1>4, RestStutter DEF WakeUp, InSession, session, fetch, waiting, history
<1>5. CASE StopSleeping
  BY <1>5, RestStutter DEF StopSleeping, InSession, session, fetch, waiting, history
<1>6. CASE OpenSession
  BY <1>6, RestBeginFetch DEF OpenSession, CheckpointUID, history
<1>7. CASE OpenFails
  BY <1>7, RestLeaveUnchanged DEF OpenFails, EndSession, history
<1>8. CASE \E u \in UIDs : DropResponse(u)
  BY <1>8, RestDrop
<1>9. CASE \E u \in UIDs : SkipMessage(u)
  BY <1>9, RestSkip
<1>10. CASE \E u \in UIDs : PreserveBroken(u)
  BY <1>10, RestBroken
<1>11. CASE \E u \in UIDs : BeginInject(u)
  BY <1>11, RestBeginInject
<1>12. CASE InjectOK
  BY <1>12, RestInjectOK
<1>13. CASE InjectFails
  BY <1>13, RestInjectFails
<1>14. CASE FetchDone
  BY <1>14, RestFetchDone
<1>15. CASE FetchFails
  BY <1>15, RestLeaveUnchanged DEF FetchFails, EndSession, history
<1>16. CASE NothingToSave
  BY <1>16, RestNoAdvance DEF NothingToSave, history
<1>17. CASE AdvanceFails
  BY <1>17, RestNoAdvance DEF AdvanceFails, history
<1>18. CASE \E safe \in UIDs : AdvanceOK(safe)
  BY <1>18, RestAdvanceOK
<1>19. CASE CleanupOK
  BY <1>19, RestCleanup, RemoveOnly DEF CleanupOK
<1>20. CASE CleanupFails
  BY <1>20, RestCleanup, RemoveOnly DEF CleanupFails
<1>21. CASE CleanupSkipped
  BY <1>21, RestCleanup DEF CleanupSkipped, server, history
<1>22. CASE IdleNotified
  <2>1. lastUID' = CheckpointUID /\ BeginFetch(lastUID')
    BY <1>22 DEF IdleNotified, NextRound, Rest, SessionInv, InSession
  <2> QED
    BY <1>22, <2>1, RestBeginFetch DEF IdleNotified, NextRound, history
<1>23. CASE IdleTimeout
  <2>1. lastUID' = CheckpointUID /\ BeginFetch(lastUID')
    BY <1>23 DEF IdleTimeout, NextRound, Rest, SessionInv, InSession
  <2> QED
    BY <1>23, <2>1, RestBeginFetch DEF IdleTimeout, NextRound, history
<1>24. CASE IdleError
  BY <1>24, RestStutter DEF IdleError, session, fetch, waiting, history
<1>25. CASE PollTick
  <2>1. lastUID' = CheckpointUID /\ BeginFetch(lastUID')
    BY <1>25 DEF PollTick, NextRound, Rest, SessionInv, InSession
  <2> QED
    BY <1>25, <2>1, RestBeginFetch DEF PollTick, NextRound, history
<1>26. CASE NoopFails
  BY <1>26, RestLeaveUnchanged DEF NoopFails, EndSession, history
<1>27. CASE StopWaiting
  BY <1>27, RestLeaveUnchanged DEF StopWaiting, EndSession, history
<1>28. CASE \E m \in Mail : Arrive(m)
  BY <1>28, RestArrive
<1>29. CASE \E u \in UIDs : UserDelete(u)
  BY <1>29, RestUserDelete
<1>30. CASE \E n \in 0..MaxUID : \E kept \in [1..n -> Present] : Rebuild(n, kept)
  BY <1>30, RestRebuild
<1>31. CASE \E file \in {MissingFile, CorruptFile} : LoseCheckpoint(file)
  BY <1>31, RestLoseCheckpoint
<1>32. CASE Crash
  BY <1>32, RestLeaveUnchanged DEF Crash, history
<1>33. CASE Cancel
  BY <1>33, RestStutter DEF Cancel, session, fetch, waiting, history
<1>34. CASE SmtpDown
  BY <1>34, RestStutter DEF SmtpDown, session, fetch, waiting, history
<1>35. CASE SmtpUp
  BY <1>35, RestStutter DEF SmtpUp, session, fetch, waiting, history
<1>36. CASE UNCHANGED vars
  BY <1>36, RestStutter DEF vars, session, fetch, waiting, history
<1> QED
  BY <1>1, <1>2, <1>3, <1>4, <1>5, <1>6, <1>7, <1>8, <1>9, <1>10, <1>11, <1>12, <1>13,
     <1>14, <1>15, <1>16, <1>17, <1>18, <1>19, <1>20, <1>21, <1>22, <1>23, <1>24, <1>25,
     <1>26, <1>27, <1>28, <1>29, <1>30, <1>31, <1>32, <1>33, <1>34, <1>35, <1>36
     DEF Next, Progress, Failure, Environment

\* The inductive invariant: what the checkpoint, the running FETCH and the mailbox have
\* to do with each other, in every state of the worker.
THEOREM Inductive == Spec => []IndInv
<1>1. Init => IndInv
  BY TypeInit, RestInit DEF IndInv
<1>2. IndInv /\ [Next]_vars => IndInv'
  BY TypeNext, RestNext DEF IndInv
<1> QED
  BY <1>1, <1>2, PTL DEF Spec

\* No message is left behind when the server answers FETCH in order and with every body,
\* whatever fails and whenever the bridge is stopped.
THEOREM NoGapHolds == Spec => [](InOrder /\ SendsBodies => NoGap)
<1>1. IndInv => (InOrder /\ SendsBodies => NoGap)
  BY DEF IndInv, Rest
<1> QED
  BY <1>1, Inductive, PTL

\* A checkpointed packet is not injected again, in whatever order FETCH answers.
THEOREM NoReplayHolds == Spec => []NoReplay
<1>1. IndInv => NoReplay
  BY DEF IndInv, Rest, NoReplay, BoundsInv, SessionInv, InSession
<1> QED
  BY <1>1, Inductive, PTL

\* Only AdvanceOK, a rebuilt mailbox and a lost file change what GetCheckpoint reads.
LEMMA SaveSteps ==
  ASSUME Next
  PROVE  \/ UNCHANGED <<cpFile, validity>>
         \/ \E safe \in UIDs : AdvanceOK(safe)
         \/ \E n \in 0..MaxUID : \E kept \in [1..n -> Present] : Rebuild(n, kept)
         \/ \E file \in {MissingFile, CorruptFile} : LoseCheckpoint(file)
<1> USE DEF server
<1>1. CASE Start
  BY <1>1 DEF Start
<1>2. CASE DialOK
  BY <1>2 DEF DialOK
<1>3. CASE DialFails
  BY <1>3 DEF DialFails
<1>4. CASE WakeUp
  BY <1>4 DEF WakeUp
<1>5. CASE StopSleeping
  BY <1>5 DEF StopSleeping
<1>6. CASE OpenSession
  BY <1>6 DEF OpenSession
<1>7. CASE OpenFails
  BY <1>7 DEF OpenFails
<1>8. CASE \E u \in UIDs : DropResponse(u)
  BY <1>8 DEF DropResponse
<1>9. CASE \E u \in UIDs : SkipMessage(u)
  BY <1>9 DEF SkipMessage, Handles
<1>10. CASE \E u \in UIDs : PreserveBroken(u)
  BY <1>10 DEF PreserveBroken, Handles
<1>11. CASE \E u \in UIDs : BeginInject(u)
  BY <1>11 DEF BeginInject, Handles
<1>12. CASE InjectOK
  BY <1>12 DEF InjectOK
<1>13. CASE InjectFails
  BY <1>13 DEF InjectFails
<1>14. CASE FetchDone
  BY <1>14 DEF FetchDone
<1>15. CASE FetchFails
  BY <1>15 DEF FetchFails
<1>16. CASE NothingToSave
  BY <1>16 DEF NothingToSave
<1>17. CASE AdvanceFails
  BY <1>17 DEF AdvanceFails
<1>19. CASE CleanupOK
  BY <1>19 DEF CleanupOK
<1>20. CASE CleanupFails
  BY <1>20 DEF CleanupFails
<1>21. CASE CleanupSkipped
  BY <1>21 DEF CleanupSkipped
<1>22. CASE IdleNotified
  BY <1>22 DEF IdleNotified, NextRound
<1>23. CASE IdleTimeout
  BY <1>23 DEF IdleTimeout, NextRound
<1>24. CASE IdleError
  BY <1>24 DEF IdleError
<1>25. CASE PollTick
  BY <1>25 DEF PollTick, NextRound
<1>26. CASE NoopFails
  BY <1>26 DEF NoopFails
<1>27. CASE StopWaiting
  BY <1>27 DEF StopWaiting
<1>28. CASE \E m \in Mail : Arrive(m)
  BY <1>28 DEF Arrive
<1>29. CASE \E u \in UIDs : UserDelete(u)
  BY <1>29 DEF UserDelete
<1>32. CASE Crash
  BY <1>32 DEF Crash
<1>33. CASE Cancel
  BY <1>33 DEF Cancel
<1>34. CASE SmtpDown
  BY <1>34 DEF SmtpDown
<1>35. CASE SmtpUp
  BY <1>35 DEF SmtpUp
<1> QED
  BY <1>1, <1>2, <1>3, <1>4, <1>5, <1>6, <1>7, <1>8, <1>9, <1>10, <1>11, <1>12, <1>13,
     <1>14, <1>15, <1>16, <1>17, <1>19, <1>20, <1>21, <1>22, <1>23, <1>24, <1>25, <1>26,
     <1>27, <1>28, <1>29, <1>32, <1>33, <1>34, <1>35
     DEF Next, Progress, Failure, Environment

\* A FETCH that ran to its end, with every body, leaves no gap below the new checkpoint,
\* in whatever order it answered.
THEOREM CompleteFetchHolds == SendsBodies => (Spec => CompleteFetchHasNoGap)
<1> SUFFICES ASSUME SendsBodies PROVE Spec => CompleteFetchHasNoGap
  OBVIOUS
<1> DEFINE A == pc = "save" /\ batch.failedUID = 0 =>
                  \A u \in Present : lastUID < u /\ u <= CheckpointUID' => u \in Advanceable(batch)
<1>1. IndInv /\ [Next]_vars => [A]_vars
  <2> SUFFICES ASSUME IndInv, Next, pc = "save", batch.failedUID = 0,
                      NEW u \in Present, lastUID < u, u <= CheckpointUID'
               PROVE  u \in Advanceable(batch)
    OBVIOUS
  <2>1. lastUID = CheckpointUID /\ u \in UIDs /\ mbox[u] # NoMail
    BY DEF IndInv, Rest, SessionInv, InSession, Present
  <2>2. CASE \E safe \in UIDs : AdvanceOK(safe)
    BY <2>1, <2>2, AdvanceLemma DEF IndInv
  <2>3. CASE UNCHANGED <<cpFile, validity>>
    <3>1. CheckpointUID' = CheckpointUID
      BY <2>3 DEF CheckpointUID
    <3> QED
      BY <2>1, <3>1 DEF IndInv, TypeInv, TypeOK, DataOK, UIDs
  <2>4. ~LoseCheckpoint(MissingFile) /\ ~LoseCheckpoint(CorruptFile)
          /\ \A n, kept : ~Rebuild(n, kept)
    BY DEF LoseCheckpoint, Rebuild, InSession
  <2> QED
    BY <2>2, <2>3, <2>4, SaveSteps
<1> QED
  BY <1>1, Inductive, PTL DEF Spec, CompleteFetchHasNoGap

-----------------------------------------------------------------------------
(* Action properties and the wake-up *)

\* Only cleanup adds to what cleanup removed; a rebuilt mailbox starts afresh.
LEMMA RemovedSteps ==
  ASSUME Next
  PROVE  \/ removed' = removed
         \/ CleanupOK \/ CleanupFails
         \/ \E n \in 0..MaxUID : \E kept \in [1..n -> Present] : Rebuild(n, kept)
<1> USE DEF history
<1>1. CASE Start
  BY <1>1 DEF Start
<1>2. CASE DialOK
  BY <1>2 DEF DialOK
<1>3. CASE DialFails
  BY <1>3 DEF DialFails
<1>4. CASE WakeUp
  BY <1>4 DEF WakeUp
<1>5. CASE StopSleeping
  BY <1>5 DEF StopSleeping
<1>6. CASE OpenSession
  BY <1>6 DEF OpenSession
<1>7. CASE OpenFails
  BY <1>7 DEF OpenFails
<1>8. CASE \E u \in UIDs : DropResponse(u)
  BY <1>8 DEF DropResponse
<1>9. CASE \E u \in UIDs : SkipMessage(u)
  BY <1>9 DEF SkipMessage, Handles
<1>10. CASE \E u \in UIDs : PreserveBroken(u)
  BY <1>10 DEF PreserveBroken, Handles
<1>11. CASE \E u \in UIDs : BeginInject(u)
  BY <1>11 DEF BeginInject, Handles
<1>12. CASE InjectOK
  BY <1>12 DEF InjectOK
<1>13. CASE InjectFails
  BY <1>13 DEF InjectFails
<1>14. CASE FetchDone
  BY <1>14 DEF FetchDone
<1>15. CASE FetchFails
  BY <1>15 DEF FetchFails
<1>16. CASE NothingToSave
  BY <1>16 DEF NothingToSave
<1>17. CASE AdvanceFails
  BY <1>17 DEF AdvanceFails
<1>18. CASE \E safe \in UIDs : AdvanceOK(safe)
  BY <1>18 DEF AdvanceOK
<1>21. CASE CleanupSkipped
  BY <1>21 DEF CleanupSkipped
<1>22. CASE IdleNotified
  BY <1>22 DEF IdleNotified, NextRound
<1>23. CASE IdleTimeout
  BY <1>23 DEF IdleTimeout, NextRound
<1>24. CASE IdleError
  BY <1>24 DEF IdleError
<1>25. CASE PollTick
  BY <1>25 DEF PollTick, NextRound
<1>26. CASE NoopFails
  BY <1>26 DEF NoopFails
<1>27. CASE StopWaiting
  BY <1>27 DEF StopWaiting
<1>28. CASE \E m \in Mail : Arrive(m)
  BY <1>28 DEF Arrive
<1>29. CASE \E u \in UIDs : UserDelete(u)
  BY <1>29 DEF UserDelete
<1>31. CASE \E file \in {MissingFile, CorruptFile} : LoseCheckpoint(file)
  BY <1>31 DEF LoseCheckpoint
<1>32. CASE Crash
  BY <1>32 DEF Crash
<1>33. CASE Cancel
  BY <1>33 DEF Cancel
<1>34. CASE SmtpDown
  BY <1>34 DEF SmtpDown
<1>35. CASE SmtpUp
  BY <1>35 DEF SmtpUp
<1> QED
  BY <1>1, <1>2, <1>3, <1>4, <1>5, <1>6, <1>7, <1>8, <1>9, <1>10, <1>11, <1>12, <1>13,
     <1>14, <1>15, <1>16, <1>17, <1>18, <1>21, <1>22, <1>23, <1>24, <1>25, <1>26, <1>27,
     <1>28, <1>29, <1>31, <1>32, <1>33, <1>34, <1>35
     DEF Next, Progress, Failure, Environment

\* Messages leave through cleanup only when they were injected and are at or below the
\* checkpoint on disk.
THEOREM CleanupIsSafeHolds == Spec => CleanupIsSafe
<1> DEFINE A == \A u \in removed' \ removed : u \in injected /\ u <= CheckpointUID
<1>1. IndInv /\ [Next]_vars => [A]_vars
  <2> SUFFICES ASSUME IndInv, Next PROVE A
    OBVIOUS
  <2>1. ASSUME pc = "cleanup", NEW gone \in SUBSET CleanupUIDs(batch, lastUID), RemoveMessages(gone)
        PROVE  A
    BY <2>1 DEF IndInv, Rest, SessionInv, InSession, BatchInv, RemoveMessages, CleanupUIDs
  <2>2. CASE CleanupOK
    BY <2>1, <2>2 DEF CleanupOK
  <2>3. CASE CleanupFails
    BY <2>1, <2>3 DEF CleanupFails
  <2>4. CASE \E n \in 0..MaxUID : \E kept \in [1..n -> Present] : Rebuild(n, kept)
    BY <2>4 DEF Rebuild
  <2>5. CASE removed' = removed
    BY <2>5
  <2> QED
    BY <2>2, <2>3, <2>4, <2>5, RemovedSteps
<1> QED
  BY <1>1, Inductive, PTL DEF Spec, CleanupIsSafe

\* While the worker runs on an unchanged mailbox the checkpoint never moves back.
THEOREM CheckpointMonotoneHolds == Spec => CheckpointMonotone
<1> DEFINE A == pc # "down" /\ validity' = validity => CheckpointUID' >= CheckpointUID
<1>1. IndInv /\ [Next]_vars => [A]_vars
  <2> SUFFICES ASSUME IndInv, Next, pc # "down", validity' = validity
               PROVE  CheckpointUID' >= CheckpointUID
    OBVIOUS
  <2>1. CheckpointUID \in Int
    BY GetCheckpointType DEF IndInv, TypeInv, TypeOK, DataOK, CheckpointUID
  <2>2. CASE \E safe \in UIDs : AdvanceOK(safe)
    <3> PICK safe \in UIDs : AdvanceOK(safe)
      BY <2>2
    <3>1. CheckpointUID' = safe /\ safe > lastUID /\ pc = "save"
      BY AdvanceLemma DEF IndInv, AdvanceOK
    <3>2. lastUID = CheckpointUID /\ safe \in Int
      BY <3>1 DEF IndInv, Rest, SessionInv, InSession, UIDs
    <3> QED
      BY <2>1, <3>1, <3>2
  <2>3. CASE UNCHANGED <<cpFile, validity>>
    BY <2>1, <2>3 DEF CheckpointUID
  <2>4. CASE \E file \in {MissingFile, CorruptFile} : LoseCheckpoint(file)
    BY <2>4 DEF LoseCheckpoint
  <2>5. CASE \E n \in 0..MaxUID : \E kept \in [1..n -> Present] : Rebuild(n, kept)
    BY <2>5 DEF Rebuild, IndInv, TypeInv, TypeOK, DataOK
  <2> QED
    BY <2>2, <2>3, <2>4, <2>5, SaveSteps
<1> QED
  BY <1>1, Inductive, PTL DEF Spec, CheckpointMonotone

\* In a session, a message the last FETCH did not see has left a notification.
WakeInv == InSession => \A u \in UIDs : mbox[u] # NoMail /\ u >= seen => exists

\* A step that opens no session, adds no message and leaves existsCh alone keeps it.
LEMMA WakeKeep ==
  ASSUME WakeInv, exists' = exists, seen' = seen, InSession' => InSession,
         \A u \in UIDs : mbox'[u] = NoMail \/ mbox'[u] = mbox[u]
  PROVE  WakeInv'
BY Zenon DEF WakeInv

\* Everything in the mailbox is below the FETCH that starts now.
LEMMA WakeFetch ==
  ASSUME IndInv, UNCHANGED server, NEW last, BeginFetch(last)
  PROVE  WakeInv'
<1>1. \A u \in UIDs : mbox'[u] # NoMail => ~(u >= seen')
  BY DEF IndInv, Rest, BoundsInv, TypeInv, TypeOK, DataOK, UIDs, server, BeginFetch
<1> QED
  BY <1>1 DEF WakeInv

\* Every step keeps the wake-up: one case per action.
LEMMA WakeNext == IndInv /\ WakeInv /\ [Next]_vars => WakeInv'
<1> SUFFICES ASSUME IndInv, WakeInv, [Next]_vars PROVE WakeInv'
  OBVIOUS
<1>0. ASSUME ~InSession' PROVE WakeInv'
  BY <1>0 DEF WakeInv
<1>1. CASE Start
  BY <1>1, <1>0 DEF Start, InSession
<1>2. CASE DialOK
  BY <1>2, <1>0 DEF DialOK, InSession
<1>3. CASE DialFails
  BY <1>3, <1>0 DEF DialFails, EndSession, InSession
<1>4. CASE WakeUp
  BY <1>4, <1>0 DEF WakeUp, InSession
<1>5. CASE StopSleeping
  BY <1>5, <1>0 DEF StopSleeping, InSession
<1>6. CASE OpenSession
  BY <1>6, WakeFetch DEF OpenSession
<1>7. CASE OpenFails
  BY <1>7, <1>0 DEF OpenFails, EndSession, InSession
<1>8. CASE \E u \in UIDs : DropResponse(u)
  BY <1>8, WakeKeep DEF DropResponse, InSession, server, waiting
<1>9. CASE \E u \in UIDs : SkipMessage(u)
  BY <1>9, WakeKeep DEF SkipMessage, Handles, InSession, server, waiting
<1>10. CASE \E u \in UIDs : PreserveBroken(u)
  BY <1>10, WakeKeep DEF PreserveBroken, Handles, InSession, server, waiting
<1>11. CASE \E u \in UIDs : BeginInject(u)
  BY <1>11, WakeKeep DEF BeginInject, Handles, InSession, server, waiting
<1>12. CASE InjectOK
  BY <1>12, WakeKeep DEF InjectOK, InSession, server, waiting
<1>13. CASE InjectFails
  BY <1>13, WakeKeep DEF InjectFails, InSession, server, waiting
<1>14. CASE FetchDone
  BY <1>14, WakeKeep DEF FetchDone, InSession, server, session, waiting
<1>15. CASE FetchFails
  BY <1>15, <1>0 DEF FetchFails, EndSession, InSession
<1>16. CASE NothingToSave
  BY <1>16, <1>0, WakeKeep DEF NothingToSave, ReturnFromFetch, BackToLoop, EndSession,
     InSession, server, waiting
<1>17. CASE AdvanceFails
  BY <1>17, <1>0, WakeKeep DEF AdvanceFails, ReturnFromFetch, BackToLoop, EndSession, InSession,
     server, waiting
<1>18. CASE \E safe \in UIDs : AdvanceOK(safe)
  BY <1>18, <1>0, WakeKeep DEF AdvanceOK, ReturnFromFetch, BackToLoop, EndSession, InSession,
     server, waiting
<1>19. CASE CleanupOK
  BY <1>19, WakeKeep, RemoveOnly DEF CleanupOK, BackToLoop, InSession, waiting
<1>20. CASE CleanupFails
  BY <1>20, WakeKeep, RemoveOnly DEF CleanupFails, BackToLoop, InSession, waiting
<1>21. CASE CleanupSkipped
  BY <1>21, WakeKeep DEF CleanupSkipped, BackToLoop, InSession, server, waiting
<1>22. CASE IdleNotified
  BY <1>22, WakeFetch DEF IdleNotified, NextRound
<1>23. CASE IdleTimeout
  BY <1>23, WakeFetch DEF IdleTimeout, NextRound
<1>24. CASE IdleError
  BY <1>24, WakeKeep DEF IdleError, InSession, server, waiting
<1>25. CASE PollTick
  BY <1>25, WakeFetch DEF PollTick, NextRound
<1>26. CASE NoopFails
  BY <1>26, <1>0 DEF NoopFails, EndSession, InSession
<1>27. CASE StopWaiting
  BY <1>27, <1>0 DEF StopWaiting, EndSession, InSession
<1>28. CASE \E m \in Mail : Arrive(m)
  <2>1. CASE InSession
    BY <1>28, <2>1, Zenon DEF Arrive, WakeInv
  <2>2. CASE ~InSession
    BY <1>28, <1>0, <2>2 DEF Arrive, InSession
  <2> QED
    BY <2>1, <2>2
<1>29. CASE \E u \in UIDs : UserDelete(u)
  BY <1>29, WakeKeep DEF UserDelete, InSession, server, session, waiting, IndInv, TypeInv,
     TypeOK, DataOK
<1>30. CASE \E n \in 0..MaxUID : \E kept \in [1..n -> Present] : Rebuild(n, kept)
  BY <1>30, <1>0 DEF Rebuild, InSession
<1>31. CASE \E file \in {MissingFile, CorruptFile} : LoseCheckpoint(file)
  BY <1>31, <1>0 DEF LoseCheckpoint, InSession
<1>32. CASE Crash
  BY <1>32, <1>0 DEF Crash, InSession
<1>33. CASE Cancel
  BY <1>33, WakeKeep DEF Cancel, InSession, server, session, waiting
<1>34. CASE SmtpDown
  BY <1>34, WakeKeep DEF SmtpDown, InSession, server, session, waiting
<1>35. CASE SmtpUp
  BY <1>35, WakeKeep DEF SmtpUp, InSession, server, session, waiting
<1>36. CASE UNCHANGED vars
  BY <1>36, WakeKeep DEF vars, InSession, server, session, waiting
<1> QED
  BY <1>1, <1>2, <1>3, <1>4, <1>5, <1>6, <1>7, <1>8, <1>9, <1>10, <1>11, <1>12, <1>13,
     <1>14, <1>15, <1>16, <1>17, <1>18, <1>19, <1>20, <1>21, <1>22, <1>23, <1>24, <1>25,
     <1>26, <1>27, <1>28, <1>29, <1>30, <1>31, <1>32, <1>33, <1>34, <1>35, <1>36
     DEF Next, Progress, Failure, Environment

\* idleLoop never sleeps over a message that came after the last FETCH was issued.
THEOREM NoLostWakeupHolds == Spec => []NoLostWakeup
<1>1. Init => WakeInv
  BY DEF Init, WakeInv, InSession
<1>2. WakeInv => NoLostWakeup
  BY DEF WakeInv, NoLostWakeup, InSession, Present
<1> QED
  BY <1>1, <1>2, WakeNext, Inductive, PTL DEF Spec

=============================================================================
