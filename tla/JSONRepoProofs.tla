--------------------------- MODULE JSONRepoProofs ---------------------------
(* JSONRepo implements CheckpointStore, for any number of callers.          *)
EXTENDS JSONRepo, TLAPS

Critical == {"load", "write", "rename", "unlock"}

\* Who is between lock and unlock holds the mutex; the record it is about to save is still
\* what AdvanceCheckpoint makes of the file, and the temporary file holds it once written.
RepoInv ==
  /\ pc \in [Callers -> {"idle", "lock"} \cup Critical]
  /\ req \in [Callers -> Request \cup {Store!NoRequest}]
  /\ DOMAIN res = Callers
  /\ res = [c \in Callers |-> res[c]]
  /\ DOMAIN local = Callers
  /\ \A c \in Callers :
       /\ pc[c] \in Critical => mu = c
       /\ pc[c] \in {"write", "rename"} =>
            /\ req[c].op = "advance"
            /\ local[c] = AdvanceCheckpoint(load(file), req[c].folder, req[c].validity, req[c].uid)
       /\ pc[c] = "rename" => tmp = JsonFile(local[c])

\* What was written is what load reads.
LEMMA LoadJson == \A r : load(JsonFile(r)) = r
BY DEF load, JsonFile

\* The two ways to lose the file read as the zero record.
LEMMA LoadLost == load(MissingFile) = ZeroCheckpoint /\ load(CorruptFile) = ZeroCheckpoint
BY DEF load, MissingFile, CorruptFile

\* The operators of CheckpointFile mean the same inside the store.
LEMMA SameOperators ==
  /\ Store!ZeroCheckpoint = ZeroCheckpoint
  /\ \A r, f, v, u : Store!AdvanceCheckpoint(r, f, v, u) = AdvanceCheckpoint(r, f, v, u)
  /\ \A x, q : Store!Read(load(x), q) = GetCheckpoint(x, q.folder, q.validity)
BY DEF ZeroCheckpoint, Store!ZeroCheckpoint, NoFolder, Store!NoFolder, AdvanceCheckpoint,
       Store!AdvanceCheckpoint, SameMailbox, Store!SameMailbox, Store!Read, GetCheckpoint

\* The invariant holds initially.
LEMMA RepoInit == Init => RepoInv
BY DEF Init, RepoInv, Critical

\* Every step keeps the invariant: the mutex keeps the others out of the file.
LEMMA RepoNext == RepoInv /\ [Next]_vars => RepoInv'
<1> SUFFICES ASSUME RepoInv, [Next]_vars PROVE RepoInv'
  OBVIOUS
<1> USE NoCallerAssumption DEF RepoInv, Critical, Goto, Finish
<1>1. ASSUME NEW c \in Callers, NEW r \in Request, Call(c, r) PROVE RepoInv'
  BY <1>1 DEF Call
<1>2. ASSUME NEW c \in Callers, Lock(c) PROVE RepoInv'
  BY <1>2 DEF Lock
<1>3. ASSUME NEW c \in Callers, LoadFails(c) PROVE RepoInv'
  BY <1>3 DEF LoadFails
<1>4. ASSUME NEW c \in Callers, LoadForGet(c) PROVE RepoInv'
  BY <1>4 DEF LoadForGet
<1>5. ASSUME NEW c \in Callers, LoadForAdvance(c) PROVE RepoInv'
  BY <1>5 DEF LoadForAdvance
<1>6. ASSUME NEW c \in Callers, WriteOK(c) PROVE RepoInv'
  BY <1>6 DEF WriteOK
<1>7. ASSUME NEW c \in Callers, WriteFails(c) PROVE RepoInv'
  BY <1>7 DEF WriteFails
<1>8. ASSUME NEW c \in Callers, RenameOK(c) PROVE RepoInv'
  BY <1>8 DEF RenameOK
<1>9. ASSUME NEW c \in Callers, RenameFails(c) PROVE RepoInv'
  BY <1>9 DEF RenameFails
<1>10. ASSUME NEW c \in Callers, Unlock(c) PROVE RepoInv'
  BY <1>10 DEF Unlock
<1>11. CASE Crash
  BY <1>11 DEF Crash
<1>12. CASE LoseFile
  BY <1>12 DEF LoseFile
<1>13. CASE UNCHANGED vars
  BY <1>13 DEF vars
<1> QED
  BY <1>1, <1>2, <1>3, <1>4, <1>5, <1>6, <1>7, <1>8, <1>9, <1>10, <1>11, <1>12, <1>13 DEF Next

\* Every step of the code is a step of the store or invisible there: the store's advance
\* happens at the rename.
LEMMA StepRefines == RepoInv /\ [Next]_vars => [Store!Next]_(Store!storeVars)
<1> SUFFICES ASSUME RepoInv, [Next]_vars PROVE [Store!Next]_(Store!storeVars)
  OBVIOUS
<1> USE DEF RepoInv, Critical, Goto, Finish, phaseOf, Request
<1>1. ASSUME NEW c \in Callers, NEW r \in Request, Call(c, r) PROVE Store!Call(c, r)
  BY <1>1 DEF Call, Store!Call
<1>2. ASSUME NEW c \in Callers, Lock(c) PROVE UNCHANGED Store!storeVars
  BY <1>2 DEF Lock, Store!storeVars
<1>3. ASSUME NEW c \in Callers, LoadFails(c) PROVE Store!Fail(c)
  BY <1>3 DEF LoadFails, Store!Fail
<1>4. ASSUME NEW c \in Callers, LoadForGet(c) PROVE Store!Get(c)
  BY <1>4, SameOperators DEF LoadForGet, Store!Get
<1>5. ASSUME NEW c \in Callers, LoadForAdvance(c) PROVE UNCHANGED Store!storeVars
  BY <1>5 DEF LoadForAdvance, Store!storeVars
<1>6. ASSUME NEW c \in Callers, WriteOK(c) PROVE UNCHANGED Store!storeVars
  BY <1>6 DEF WriteOK, Store!storeVars
<1>7. ASSUME NEW c \in Callers, WriteFails(c) PROVE Store!Fail(c)
  BY <1>7 DEF WriteFails, Store!Fail
<1>8. ASSUME NEW c \in Callers, RenameOK(c) PROVE Store!Advance(c)
  BY <1>8, LoadJson, SameOperators DEF RenameOK, Store!Advance
<1>9. ASSUME NEW c \in Callers, RenameFails(c) PROVE Store!Fail(c)
  BY <1>9 DEF RenameFails, Store!Fail
<1>10. ASSUME NEW c \in Callers, Unlock(c) PROVE Store!Return(c)
  BY <1>10 DEF Unlock, Store!Return
<1>11. CASE Crash
  BY <1>11 DEF Crash, Store!Crash, Store!Next
<1>12. CASE LoseFile
  BY <1>12, LoadLost, SameOperators DEF LoseFile, Store!Lose, Store!Next
<1>13. CASE UNCHANGED vars
  BY <1>13 DEF vars, Store!storeVars
<1> QED
  BY <1>1, <1>2, <1>3, <1>4, <1>5, <1>6, <1>7, <1>8, <1>9, <1>10, <1>11, <1>12, <1>13
     DEF Next, Store!Next

\* The repository of repo.go implements the store its callers rely on: no lost update, no
\* half-saved record, no effect of a call that failed or died before the rename.
THEOREM Refinement == Spec => ImplementsStore
<1>1. Init => Store!Init
  BY LoadLost, SameOperators DEF Init, Store!Init, phaseOf
<1> QED
  BY <1>1, RepoInit, RepoNext, StepRefines, PTL DEF Spec, ImplementsStore, Store!Spec

-----------------------------------------------------------------------------
(* Types *)

\* The records the repository starts from.
LEMMA ConstantTypes ==
  /\ ZeroCheckpoint \in Checkpoint
  /\ MissingFile \in CheckpointFileType /\ CorruptFile \in CheckpointFileType
  /\ Store!Error \in Result /\ Store!Done(0) \in Result
<1>1. ZeroCheckpoint \in Checkpoint
  BY MaxUIDAssumption DEF ZeroCheckpoint, Checkpoint
<1>2. Store!Error \in Result /\ Store!Done(0) \in Result
  BY MaxUIDAssumption DEF Store!Error, Store!Done, Result, Store!Result
<1>3. QED
  BY <1>1, <1>2 DEF MissingFile, CorruptFile, CheckpointFileType

\* load returns a record, and a record that is saved can be loaded.
LEMMA FileTypes ==
  /\ \A f \in CheckpointFileType : load(f) \in Checkpoint
  /\ \A r \in Checkpoint : JsonFile(r) \in CheckpointFileType
BY ConstantTypes DEF load, JsonFile, CheckpointFileType

\* AdvanceCheckpoint makes a record out of a record and a request.
LEMMA AdvanceType ==
  ASSUME NEW r \in Checkpoint, NEW q \in Request, q.op = "advance"
  PROVE  AdvanceCheckpoint(r, q.folder, q.validity, q.uid) \in Checkpoint
<1>1. q.folder \in Folders /\ q.validity \in Nat /\ q.uid \in 0..MaxUID
  <2>1. q \in [op : {"advance"}, folder : Folders, validity : Validities, uid : 1..MaxUID]
    BY DEF Request, Store!Request
  <2>2. q.uid \in 1..MaxUID
    BY <2>1
  <2>3. q.uid \in 0..MaxUID
    BY <2>2, MaxUIDAssumption
  <2>4. QED
    BY <2>1, <2>3, ValiditiesAssumption
<1>2. QED
  BY <1>1 DEF AdvanceCheckpoint, Checkpoint

\* GetCheckpoint returns a UID or 0.
LEMMA GetType ==
  ASSUME NEW f \in CheckpointFileType, NEW q
  PROVE  Store!Done(GetCheckpoint(f, q.folder, q.validity)) \in Result
<1>1. GetCheckpoint(f, q.folder, q.validity) \in 0..MaxUID
  BY FileTypes, MaxUIDAssumption DEF GetCheckpoint, Checkpoint
<1>2. QED
  BY <1>1 DEF Store!Done, Result, Store!Result

\* Every step keeps the types.
LEMMA TypeNext == TypeOK /\ [Next]_vars => TypeOK'
<1> SUFFICES ASSUME TypeOK, [Next]_vars PROVE TypeOK'
  OBVIOUS
<1> USE ConstantTypes DEF TypeOK, Goto, Finish
<1>1. ASSUME NEW c \in Callers, NEW r \in Request, Call(c, r) PROVE TypeOK'
  BY <1>1 DEF Call
<1>2. ASSUME NEW c \in Callers, Lock(c) PROVE TypeOK'
  BY <1>2 DEF Lock
<1>3. ASSUME NEW c \in Callers, LoadFails(c) PROVE TypeOK'
  BY <1>3 DEF LoadFails
<1>4. ASSUME NEW c \in Callers, LoadForGet(c) PROVE TypeOK'
  BY <1>4, GetType DEF LoadForGet
<1>5. ASSUME NEW c \in Callers, LoadForAdvance(c) PROVE TypeOK'
  <2>1. req[c] \in Request
    BY <1>5 DEF LoadForAdvance, Store!NoRequest
  <2>2. AdvanceCheckpoint(load(file), req[c].folder, req[c].validity, req[c].uid) \in Checkpoint
    BY <1>5, <2>1, FileTypes, AdvanceType DEF LoadForAdvance
  <2>3. QED
    BY <1>5, <2>2 DEF LoadForAdvance
<1>6. ASSUME NEW c \in Callers, WriteOK(c) PROVE TypeOK'
  BY <1>6, FileTypes DEF WriteOK
<1>7. ASSUME NEW c \in Callers, WriteFails(c) PROVE TypeOK'
  BY <1>7 DEF WriteFails
<1>8. ASSUME NEW c \in Callers, RenameOK(c) PROVE TypeOK'
  BY <1>8 DEF RenameOK
<1>9. ASSUME NEW c \in Callers, RenameFails(c) PROVE TypeOK'
  BY <1>9 DEF RenameFails
<1>10. ASSUME NEW c \in Callers, Unlock(c) PROVE TypeOK'
  BY <1>10 DEF Unlock
<1>11. CASE Crash
  BY <1>11 DEF Crash
<1>12. CASE LoseFile
  BY <1>12 DEF LoseFile
<1>13. CASE UNCHANGED vars
  BY <1>13 DEF vars
<1> QED
  BY <1>1, <1>2, <1>3, <1>4, <1>5, <1>6, <1>7, <1>8, <1>9, <1>10, <1>11, <1>12, <1>13 DEF Next

\* The record in the file, in the temporary file and in a caller's hands is always one of a
\* UID that exists.
THEOREM TypeCorrect == Spec => []TypeOK
<1>1. Init => TypeOK
  BY ConstantTypes DEF Init, TypeOK
<1>2. QED
  BY <1>1, TypeNext, PTL DEF Spec

-----------------------------------------------------------------------------
(* What a step does to the file *)

\* checkpoint.json changes at a rename, which installs what AdvanceCheckpoint made of its
\* content, or when it is lost between calls.
LEMMA FileSteps ==
  ASSUME RepoInv, [Next]_vars, file' # file
  PROVE  \/ \A c \in Callers : pc[c] = "idle"
         \/ \E q : file' = JsonFile(AdvanceCheckpoint(load(file), q.folder, q.validity, q.uid))
<1>1. CASE LoseFile
  BY <1>1 DEF LoseFile
<1>2. ASSUME NEW c \in Callers, RenameOK(c)
      PROVE  file' = JsonFile(AdvanceCheckpoint(load(file), req[c].folder, req[c].validity, req[c].uid))
  BY <1>2 DEF RenameOK, RepoInv
<1>3. QED
  BY <1>1, <1>2 DEF Next, vars, Call, Lock, LoadFails, LoadForGet, LoadForAdvance, WriteOK,
     WriteFails, RenameFails, Unlock, Crash

\* save leaves a whole record, wherever it fails or dies.
THEOREM SaveNeverDamagesHolds == Spec => SaveNeverDamages
<1>1. ASSUME RepoInv, [Next]_vars, file'.state = "corrupt", file.state # "corrupt"
      PROVE  \A c \in Callers : pc[c] = "idle"
  BY <1>1, FileSteps DEF JsonFile
<1>2. QED
  BY <1>1, RepoInit, RepoNext, PTL DEF Spec, SaveNeverDamages

\* The stored UID of a mailbox never goes down under concurrent calls.
THEOREM NoRegressionHolds == Spec => NoRegression
<1>1. ASSUME TypeOK, TypeOK', RepoInv, [Next]_vars, NEW c \in Callers, pc[c] # "idle",
             SameMailbox(load(file'), load(file).folder, load(file).validity)
      PROVE  load(file').lastUID >= load(file).lastUID
  <2>1. load(file).lastUID \in Nat /\ load(file').lastUID \in Nat
    BY <1>1, FileTypes, MaxUIDAssumption DEF TypeOK, Checkpoint
  <2>2. CASE file' = file
    BY <2>1, <2>2
  <2>3. CASE file' # file
    <3>1. PICK q : file' = JsonFile(AdvanceCheckpoint(load(file), q.folder, q.validity, q.uid))
      BY <1>1, <2>3, FileSteps
    <3>2. load(file') = AdvanceCheckpoint(load(file), q.folder, q.validity, q.uid)
      BY <3>1, LoadJson
    <3>3. CASE load(file') = load(file)
      BY <2>1, <3>3
    <3>4. CASE load(file') # load(file)
      <4>1. SameMailbox(load(file), q.folder, q.validity)
        BY <1>1, <3>2 DEF AdvanceCheckpoint, SameMailbox
      <4>2. q.uid > load(file).lastUID /\ load(file') = [load(file) EXCEPT !.lastUID = q.uid]
        BY <3>2, <3>4, <4>1 DEF AdvanceCheckpoint
      <4>3. load(file').lastUID = q.uid
        BY <1>1, <4>2, FileTypes DEF TypeOK, Checkpoint
      <4>4. QED
        BY <2>1, <4>2, <4>3
    <3>5. QED
      BY <3>3, <3>4
  <2>4. QED
    BY <2>2, <2>3
<1>2. TypeOK /\ TypeOK' /\ RepoInv /\ [Next]_vars =>
        ((\E c \in Callers : pc[c] # "idle")
           /\ SameMailbox(load(file'), load(file).folder, load(file).validity)
         => load(file').lastUID >= load(file).lastUID)
  BY <1>1
<1>3. QED
  BY <1>2, TypeCorrect, RepoInit, RepoNext, PTL DEF Spec, NoRegression
=============================================================================
