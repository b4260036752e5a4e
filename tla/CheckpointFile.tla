--------------------------- MODULE CheckpointFile ---------------------------
(***************************************************************************)
(* The content of checkpoint.json (internal/inbox/repo.go) and the pure    *)
(* part of the two repository operations on it.  A single record names the *)
(* mailbox it belongs to (folder and UIDVALIDITY) and the highest UID      *)
(* processed there.  A file is missing, unreadable as JSON, or holds one   *)
(* record.                                                                 *)
(***************************************************************************)
EXTENDS Integers

CONSTANTS
  Folders,   \* mailbox names an operator may configure
  MaxUID     \* largest UID: 2^32 - 1 in the code

ASSUME FoldersAssumption == Folders \subseteq STRING \ {""}
ASSUME MaxUIDAssumption  == MaxUID \in Nat \ {0}

\* Validate refuses an empty imap.folder, so "" only occurs in the zero record.
NoFolder == ""

Checkpoint == [folder : Folders \cup {NoFolder}, validity : Nat, lastUID : 0..MaxUID]

ZeroCheckpoint == [folder |-> NoFolder, validity |-> 0, lastUID |-> 0]

CheckpointFileType == [state : {"missing", "corrupt", "json"}, cp : Checkpoint]

MissingFile == [state |-> "missing", cp |-> ZeroCheckpoint]
CorruptFile == [state |-> "corrupt", cp |-> ZeroCheckpoint]
JsonFile(c) == [state |-> "json", cp |-> c]

\* load: a missing file and a corrupt one both read as the zero record.
load(file) == IF file.state = "json" THEN file.cp ELSE ZeroCheckpoint

\* The record is for the mailbox (f, v).
SameMailbox(c, f, v) == c.folder = f /\ c.validity = v

GetCheckpoint(file, f, v) ==
  IF SameMailbox(load(file), f, v) THEN load(file).lastUID ELSE 0

\* Mutant: the later call wins, whatever it says.
AdvanceCheckpoint_Overwrites(c, f, v, uid) == [folder |-> f, validity |-> v, lastUID |-> uid]

\* Mutant: stores the next UID to fetch.
AdvanceCheckpoint_NextUID(c, f, v, uid) ==
  [folder |-> f, validity |-> v,
   lastUID |-> IF SameMailbox(c, f, v) /\ uid <= c.lastUID THEN c.lastUID ELSE uid + 1]

\* The record AdvanceCheckpoint saves: another mailbox starts over, the same
\* mailbox only moves forward.
AdvanceCheckpoint(c, f, v, uid) ==
  IF ~SameMailbox(c, f, v)
    THEN [folder |-> f, validity |-> v, lastUID |-> uid]
    ELSE IF uid > c.lastUID THEN [c EXCEPT !.lastUID = uid] ELSE c
=============================================================================
