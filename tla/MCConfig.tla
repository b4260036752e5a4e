------------------------------ MODULE MCConfig ------------------------------
(* A flag sets one option and a variable the same one or another, each to   *)
(* one of a few texts; the rest of the config is valid.                     *)
EXTENDS Config, TLC

BodyLimit == 1048576
HeaderBudget == 16384
\* Around the ends of a line and of the body.
Packets == 1..4 \cup 54..60 \cup 112..116 \cup 499..501 \cup (766266 - 60)..(766266 + 60)
Headers == {400, 16200} \cup 16380..16392 \cup {1064960, 1064961, 1064962}

MCAtoi == [t \in {"-1", "0", "010", "400", "2000", "766266", "766267"} |->
             CASE t = "-1" -> -1 [] t = "0" -> 0 [] t = "010" -> 10 [] t = "400" -> 400 [] t = "2000" -> 2000
               [] t = "766266" -> 766266 [] t = "766267" -> 766267]
\* Package flag takes a leading 0 for octal.
MCParseInt      == [MCAtoi EXCEPT !["010"] = 8]
MCParseDuration == ("0s" :> 0) @@ ("30s" :> 30)
\* The quotes of a local part are taken off, and a space that they held is lost when the
\* result is parsed again; a comment may hold a line feed.
MCParseAddress  == ("u@x" :> "u@x") @@ ("U <u@x>" :> "u@x") @@ ("u@x (a\nb)" :> "u@x")
                   @@ ("\" u\"@x" :> " u@x") @@ (" u@x" :> "u@x")
MCLowerTrim     == ("TLS " :> "tls") @@ ("Move" :> "move")
MCUnsafe        == {"a\nb", "u@x (a\nb)"}
MCDerivedPath   == ("EmailTransport" :> "path1") @@ ("a/b" :> "path2")
\* INBOX is the same folder in any case (RFC 3501, 5.1).
MCSameFolder(f, g) == f = g \/ {f, g} \subseteq {"INBOX", "inbox"}

MCFiles == ("pw-file" :> <<[text |-> "secret", cr |-> TRUE], [text |-> "note", cr |-> FALSE]>>)
           @@ ("empty" :> <<>>)

\* What an option is given.
Texts(o) ==
  CASE o \in Delays                     -> {"-1", "0", "400", "2000", "many"}
    [] o = "pipe-mtu"                   -> {"0", "010", "766266", "766267", "many"}
    [] o = Duration                     -> {"0s", "30s", "many"}
    [] o \in Enums                      -> {"tls", "TLS ", "Move", "none"}
    [] o \in Addresses                  -> {"U <u@x>", "u@x (a\nb)", "\" u\"@x", "nobody", "a\nb"}
    [] o = "imap-cleanup-target-folder" -> {"INBOX", "inbox", "done"}
    [] o = "imap-folder"                -> {"done"}
    [] o = "pipe-name"                  -> {"a/b"}
    [] o = "smtp-password"              -> {"pw1"}
    [] o = "smtp-password-file"         -> {"pw-file", "empty", "missing"}

Varied == Delays \cup Addresses \cup
          {"pipe-mtu", Duration, "imap-tls", "imap-cleanup-mode", "imap-cleanup-target-folder",
           "imap-folder", "pipe-name", "smtp-password", "smtp-password-file"}

Base == [o \in Passwords \cup Addresses \cup Hosts \cup {"smtp-username", "imap-username"} |-> "u@x"]

Partial(o) == {<<>>} \cup {o :> t : t \in Texts(o) \cup {""}}

\* The rest of the config comes from the environment.
MCInvocations ==
  UNION {{[flags |-> f, env |-> e @@ Base, files |-> MCFiles] : f \in Partial(o), e \in Partial(p)} :
           <<o, p>> \in Varied \X Varied}
=============================================================================
