------------------------------- MODULE Config -------------------------------
(***************************************************************************)
(* Load of internal/config/config.go: defaults, then the environment, then *)
(* flags, then password files, the derived checkpoint path, Normalize and  *)
(* Validate.  A setting is named after its flag.  Texts are members of     *)
(* small sets, and the conversions of Go's library are tables over them:   *)
(* a text outside a table's domain is one the conversion refuses.          *)
(***************************************************************************)
EXTENDS EnvelopeSize, Sequences

CONSTANTS
  Invocations,    \* the command lines, environments and files of the runs
  ParseInt,       \* text -> number, as package flag reads it
  Atoi,           \* text -> number, as applyEnv reads it
  ParseDuration,  \* text -> seconds
  ParseAddress,   \* text -> bare address
  LowerTrim,      \* text -> itself in lower case without outer space, where that differs
  Unsafe,         \* texts with CR, LF or NUL
  DerivedPath,    \* pipe name -> DeriveCheckpointPath of it
  SameFolder(_,_),\* the server takes the two names for one folder
  PacketSizes,    \* packets that rnsd may send
  HeaderSizes     \* headers as they arrive, with what mail servers added

ASSUME SizesAssumption == PacketSizes \subseteq Nat /\ HeaderSizes \subseteq Nat

Delays    == {"smtp-recovery-delay", "smtp-max-recovery-delay",
              "imap-reconnect-delay", "imap-max-reconnect-delay"}
Ports     == {"smtp-port", "imap-port"}
Numbers   == Delays \cup Ports \cup {"pipe-mtu"}
Duration  == "imap-poll-interval"
Passwords == {"smtp-password", "imap-password"}
Addresses == {"smtp-from", "peer-email"}
Hosts     == {"smtp-host", "imap-host"}
Required  == Passwords \cup Addresses \cup Hosts \cup
             {"pipe-name", "smtp-username", "imap-username", "imap-folder", "checkpoint-path"}

\* Settings with a fixed set of values.
ValidValues == [o \in {"smtp-tls", "imap-tls", "imap-cleanup-mode", "log-level", "log-format"} |->
                  CASE o \in {"smtp-tls", "imap-tls"}   -> {"tls", "starttls", "none"}
                    [] o = "imap-cleanup-mode"          -> {"none", "delete", "move"}
                    [] o = "log-level"                  -> {"debug", "info", "warn", "error"}
                    [] o = "log-format"                 -> {"text", "json"}]
Enums == DOMAIN ValidValues

Settings == Numbers \cup {Duration} \cup Required \cup Enums \cup {"imap-cleanup-target-folder"}

\* The option that names the file of a password.
FileOption(o) == IF o = "smtp-password" THEN "smtp-password-file" ELSE "imap-password-file"

Defaults ==
  [o \in Settings |->
     CASE o = "pipe-name"                -> "EmailTransport"
       [] o = "pipe-mtu"                 -> 500
       [] o = "smtp-port"                -> 587
       [] o = "imap-port"                -> 993
       [] o = "smtp-tls"                 -> "starttls"
       [] o = "imap-tls"                 -> "tls"
       [] o = "smtp-recovery-delay"      -> 300
       [] o = "smtp-max-recovery-delay"  -> 1800
       [] o = "imap-reconnect-delay"     -> 5
       [] o = "imap-max-reconnect-delay" -> 300
       [] o = "imap-poll-interval"       -> 60
       [] o = "imap-folder"              -> "INBOX"
       [] o = "imap-cleanup-mode"        -> "none"
       [] o = "log-level"                -> "info"
       [] o = "log-format"               -> "text"
       [] OTHER                          -> ""]

VARIABLES
  inv,    \* the invocation: flags and env map the options that are set to their texts,
          \* files maps a path to its lines: what comes before the CRs, and if there are CRs
  stage,  \* what Load does next; "running" once it has returned a config, "failed" an error
  cfg     \* setting -> value

vars == <<inv, stage, cfg>>

Init == inv \in Invocations /\ stage = "parse" /\ cfg = Defaults

\* Text of an option; an empty variable is as good as an unset one.
Getenv(o)   == IF o \in DOMAIN inv.env THEN inv.env[o] ELSE ""
FlagText(o) == IF o \in DOMAIN inv.flags THEN inv.flags[o] ELSE ""

\* A stage ends Load with an error, or leaves cfg' for the next stage.
Stage(here, next, ok, new) ==
  /\ stage = here
  /\ IF ok THEN stage' = next /\ cfg' = new ELSE stage' = "failed" /\ UNCHANGED cfg
  /\ UNCHANGED inv

-----------------------------------------------------------------------------
(* Load *)

\* fs.Parse converts the numbers.
Parse ==
  Stage("parse", "env",
        \A o \in Numbers \cap DOMAIN inv.flags : inv.flags[o] \in DOMAIN ParseInt,
        cfg)

\* The value a source gives: its text, converted by ints where the setting is a number.
ValueOf(o, text, ints) == IF o \in Numbers THEN ints[text]
                          ELSE IF o = Duration THEN ParseDuration[text] ELSE text

applyEnv ==
  Stage("env", "flags",
        /\ \A o \in Numbers : Getenv(o) # "" => Getenv(o) \in DOMAIN Atoi
        /\ Getenv(Duration) # "" => Getenv(Duration) \in DOMAIN ParseDuration,
        [o \in Settings |-> IF Getenv(o) = "" THEN cfg[o] ELSE ValueOf(o, Getenv(o), Atoi)])

\* A flag counts when its value is not the zero value of its type.
FlagCounts(o) ==
  IF o \in Numbers THEN o \in DOMAIN inv.flags /\ ParseInt[inv.flags[o]] # 0
                   ELSE FlagText(o) # ""

applyFlags ==
  Stage("flags", "passwords",
        FlagCounts(Duration) => FlagText(Duration) \in DOMAIN ParseDuration,
        [o \in Settings |->
           IF FlagCounts(o) THEN ValueOf(o, FlagText(o), ParseInt) ELSE cfg[o]])

\* The file of a password: the flag's, or else the environment's.
PasswordFile(o) ==
  IF FlagText(FileOption(o)) # "" THEN FlagText(FileOption(o)) ELSE Getenv(FileOption(o))

\* The first line, without its CRs; a file without a line has one that is empty.
readPasswordFile(path) ==
  IF inv.files[path] = <<>> THEN "" ELSE Head(inv.files[path]).text

\* Mutant: a file's password gives way to one that is set directly.
applyPasswordFiles_Weak ==
  Stage("passwords", "derive",
        \A o \in Passwords : PasswordFile(o) # "" => PasswordFile(o) \in DOMAIN inv.files,
        [o \in Settings |-> IF o \in Passwords /\ PasswordFile(o) # "" /\ cfg[o] = ""
                              THEN readPasswordFile(PasswordFile(o)) ELSE cfg[o]])

applyPasswordFiles ==
  Stage("passwords", "derive",
        \A o \in Passwords : PasswordFile(o) # "" => PasswordFile(o) \in DOMAIN inv.files,
        [o \in Settings |-> IF o \in Passwords /\ PasswordFile(o) # ""
                              THEN readPasswordFile(PasswordFile(o)) ELSE cfg[o]])

DerivePath ==
  Stage("derive", "normalize", TRUE,
        IF cfg["checkpoint-path"] # "" THEN cfg
        ELSE [cfg EXCEPT !["checkpoint-path"] = DerivedPath[cfg["pipe-name"]]])

Lookup(table, text) == IF text \in DOMAIN table THEN table[text] ELSE text

\* Mutant: an address keeps its display name.
Normalize_KeepsNames ==
  Stage("normalize", "validate", TRUE,
        [o \in Settings |-> IF o \in Hosts \cup Enums THEN Lookup(LowerTrim, cfg[o]) ELSE cfg[o]])

\* An address that cannot be parsed is left for Validate.
Normalize ==
  Stage("normalize", "validate", TRUE,
        [o \in Settings |-> CASE o \in Hosts \cup Enums -> Lookup(LowerTrim, cfg[o])
                              [] o \in Addresses        -> Lookup(ParseAddress, cfg[o])
                              [] OTHER                  -> cfg[o]])

ValidDelays(c) ==
  /\ \A o \in Delays : c[o] > 0
  /\ c["imap-max-reconnect-delay"] >= c["imap-reconnect-delay"]
  /\ c["smtp-max-recovery-delay"] >= c["smtp-recovery-delay"]

ValidMTU(c)   == c["pipe-mtu"] \in 1..MaxPacketSize
ValidPorts(c) == \A o \in Ports : c[o] \in 1..65535

Valid(c) ==
  /\ \A o \in Required : c[o] # ""
  /\ ValidMTU(c)
  /\ ValidPorts(c)
  /\ \A o \in Enums : c[o] \in ValidValues[o]
  /\ c[Duration] > 0
  /\ ValidDelays(c)
  /\ c["imap-cleanup-mode"] = "move" =>
       c["imap-cleanup-target-folder"] \notin {"", c["imap-folder"]}
  /\ \A o \in Addresses : c[o] \in DOMAIN ParseAddress /\ c[o] \notin Unsafe

Validate == Stage("validate", "running", Valid(cfg), cfg)

Ended == stage \in {"running", "failed"} /\ UNCHANGED vars

Next == \/ Parse \/ applyEnv \/ applyFlags \/ applyPasswordFiles
        \/ DerivePath \/ Normalize \/ Validate \/ Ended

Spec == Init /\ [][Next]_vars

-----------------------------------------------------------------------------
(* Properties *)

\* What a setting is to be by the README's order of precedence (defaults, env, flags,
\* password-files), whatever applyFlags takes for a flag; an empty variable is an unset one.
TextOf(o) == IF o \in DOMAIN inv.flags THEN inv.flags[o] ELSE Getenv(o)

Stated(o) ==
  IF o \in Passwords /\ TextOf(FileOption(o)) # "" THEN readPasswordFile(TextOf(FileOption(o)))
  ELSE IF o \in DOMAIN inv.flags THEN ValueOf(o, inv.flags[o], ParseInt)
  ELSE IF Getenv(o) # "" THEN ValueOf(o, Getenv(o), Atoi) ELSE Defaults[o]

Canonical(o, v) == IF o \in Hosts \cup Enums THEN Lookup(LowerTrim, v)
                   ELSE IF o \in Addresses THEN Lookup(ParseAddress, v) ELSE v

\* A flag is given, with the zero or the empty text that applyFlags takes for no flag.
ZeroFlag(o) == /\ o \in DOMAIN inv.flags
               /\ inv.flags[o] = "" \/ (o \in Numbers /\ ParseInt[inv.flags[o]] = 0)

\* A bridge that starts runs on what its sources say, in the README's order, except for the
\* settings whose flag is zero or empty (FlagDecides is about those); and a number in the
\* environment that cannot be read is never passed over in silence.
RunsAsTold ==
  stage = "running" =>
    \A o \in Settings \ {"checkpoint-path"} :
      /\ ~ZeroFlag(o) /\ ~(o \in Passwords /\ ZeroFlag(FileOption(o)))
           => cfg[o] = Canonical(o, Stated(o))
      /\ o \in Numbers /\ Getenv(o) # "" => Getenv(o) \in DOMAIN Atoi

\* The addresses of a bridge that starts, which go to MAIL FROM and RCPT TO, are results of
\* mail.ParseAddress, never the texts that were given with a display name or a comment, and
\* hold no CR, LF or NUL, although Normalize passes over a text that it cannot parse and
\* Validate accepts any that can be parsed.
ParsedAddresses ==
  stage = "running" =>
    \A o \in Addresses :
      cfg[o] \in {ParseAddress[t] : t \in DOMAIN ParseAddress} \ Unsafe

\* Normalize is to leave bare addresses (config.go: "so SMTP MAIL FROM / RCPT TO receive bare
\* addresses"), which a second look leaves as they are.
BareAddresses ==
  stage = "running" => \A o \in Addresses : ParseAddress[cfg[o]] = cfg[o]

\* Every packet of the configured MTU reaches the peer whole, as long as its headers keep to
\* their budget: what Validate admits, Encode, readLiteral and Decode carry.
PacketsComeThrough ==
  stage = "running" =>
    \A n \in PacketSizes, h \in HeaderSizes :
      n \in 1..cfg["pipe-mtu"] /\ h <= maxHeaderSize => Received(n, h) = {n}

\* What readLiteral cuts is never taken for a shorter packet, also when the peer is set up
\* for longer packets, as long as headers keep to their budget.
NothingCut ==
  stage = "running" =>
    \A n \in PacketSizes, h \in HeaderSizes : h <= maxHeaderSize => Received(n, h) \subseteq {n}

\* A flag that is given decides over the environment and the default, as the README's order
\* of precedence has it.
FlagDecides ==
  stage = "running" =>
    \A o \in DOMAIN inv.flags \cap Numbers : cfg[o] = ParseInt[inv.flags[o]]

\* Cleanup by move takes a message out of the folder that is watched.
MoveLeavesFolder ==
  stage = "running" /\ cfg["imap-cleanup-mode"] = "move" =>
    ~SameFolder(cfg["imap-cleanup-target-folder"], cfg["imap-folder"])
=============================================================================
