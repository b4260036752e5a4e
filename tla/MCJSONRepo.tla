----------------------------- MODULE MCJSONRepo -----------------------------
(* Concurrent callers of one repository. *)
EXTENDS JSONRepo
MCFolders == {"INBOX"}
=============================================================================
