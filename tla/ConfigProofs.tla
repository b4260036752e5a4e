---------------------------- MODULE ConfigProofs ----------------------------
(* What Load does with its sources, and what the envelope carries of the     *)
(* packets that Validate has admitted: for any command line, environment and *)
(* files, and for packets, headers and limits of any size.                   *)
EXTENDS Config, TLAPS

-----------------------------------------------------------------------------
(* MaxPacketSize is exact, whatever MaxBodySize is *)

\* Groups of four characters; a line holds 19 of them.
Quads(n) == (n + 2) \div 3

LEMMA QuadsOf ==
  ASSUME NEW n \in Nat \ {0}
  PROVE  /\ Quads(n) \in Nat \ {0}
         /\ 3 * Quads(n) >= n /\ 3 * Quads(n) <= n + 2
         /\ Base64Len(n) = 4 * Quads(n)
  BY DEF Quads, Base64Len

LEMMA SplitLines ==
  ASSUME NEW m \in Nat \ {0}
  PROVE  \E l \in Nat, q \in 1..19 : m = 19 * l + q
<1> DEFINE l == (m - 1) \div 19
           q == m - 19 * l
<1>1. m - 1 \in Nat
  OBVIOUS
<1>2. l \in Nat
  BY <1>1
<1>3. 19 * l <= m - 1 /\ m - 1 < 19 * l + 19
  BY <1>1, <1>2
<1> HIDE DEF l
<1>4. q \in 1..19 /\ m = 19 * l + q
  BY <1>2, <1>3
<1>5. QED
  BY <1>2, <1>4

LEMMA CountLines ==
  ASSUME NEW l \in Nat, NEW q \in 1..19
  PROVE  (4 * (19 * l + q) + 75) \div 76 = l + 1
  OBVIOUS

LEMMA LinesOf ==
  ASSUME NEW n \in Nat \ {0}
  PROVE  \E l \in Nat, q \in 1..19 : Quads(n) = 19 * l + q /\ BodyLen(n) = 78 * l + 4 * q + 2
<1>1. PICK l \in Nat, q \in 1..19 : Quads(n) = 19 * l + q
  BY QuadsOf, SplitLines
<1>2. (Base64Len(n) + 75) \div 76 = l + 1
  BY <1>1, QuadsOf, CountLines
<1>3. BodyLen(n) = 78 * l + 4 * q + 2
  BY <1>1, <1>2, QuadsOf DEF BodyLen
<1>4. QED
  BY <1>1, <1>3

\* The limit that Validate puts on the MTU is exact: the packets whose wrapped base64 fits
\* MaxBodySize are those up to MaxPacketSize.
THEOREM LimitExact ==
  \A n \in Nat \ {0} : BodyLen(n) <= MaxBodySize <=> n <= MaxPacketSize
<1> SUFFICES ASSUME NEW n \in Nat \ {0}
             PROVE  BodyLen(n) <= MaxBodySize <=> n <= MaxPacketSize
  OBVIOUS
<1> DEFINE k == MaxBodySize \div 78
           r == MaxBodySize % 78
<1>1. k \in Nat /\ r \in 0..77 /\ MaxBodySize = 78 * k + r
  BY LimitsAssumption
<1>2. PICK l \in Nat, q \in 1..19 : Quads(n) = 19 * l + q /\ BodyLen(n) = 78 * l + 4 * q + 2
  BY LinesOf
<1>3. 3 * (19 * l + q) >= n /\ 3 * (19 * l + q) <= n + 2
  BY <1>2, QuadsOf
<1>4. CASE r >= 2
  <2> DEFINE j == (r - 2) \div 4
  <2>1. j \in 0..18 /\ 4 * j <= r - 2 /\ r - 2 <= 4 * j + 3
    BY <1>1, <1>4
  <2>2. MaxPacketSize = 57 * k + 3 * j
    BY <1>1, <1>4, <2>1 DEF MaxPacketSize
  <2> HIDE DEF j, k, r
  <2>3. QED
    BY <1>1, <1>2, <1>3, <2>1, <2>2
<1>5. CASE r < 2
  <2>1. MaxPacketSize = 57 * k
    BY <1>1, <1>5 DEF MaxPacketSize
  <2> HIDE DEF k, r
  <2>2. QED
    BY <1>1, <1>2, <1>3, <1>5, <2>1
<1>6. QED
  BY <1>1, <1>4, <1>5

-----------------------------------------------------------------------------
(* The literal reader and Decode *)

\* A body that arrives whole has all of its characters.
LEMMA WholeBody ==
  ASSUME NEW n \in Nat \ {0}
  PROVE  CharsIn(n, BodyLen(n)) = Base64Len(n)
<1>1. PICK l \in Nat, q \in 1..19 : Quads(n) = 19 * l + q /\ BodyLen(n) = 78 * l + 4 * q + 2
  BY LinesOf
<1>2. Base64Len(n) = 76 * l + 4 * q
  BY <1>1, QuadsOf
<1>3. CASE q = 19
  <2>1. (78 * l + 78) \div 78 = l + 1 /\ (78 * l + 78) % 78 = 0
    BY <1>1
  <2>2. QED
    BY <1>1, <1>2, <1>3, <2>1 DEF CharsIn, Lesser
<1>4. CASE q # 19
  <2>1. 4 * q + 2 \in 0..77
    BY <1>1, <1>4
  <2>2. (78 * l + 4 * q + 2) \div 78 = l /\ (78 * l + 4 * q + 2) % 78 = 4 * q + 2
    BY <1>1, <2>1
  <2>3. QED
    BY <1>1, <1>2, <1>4, <2>1, <2>2 DEF CharsIn, Lesser
<1>5. QED
  BY <1>3, <1>4

\* Within the header budget exactly the packets up to MaxPacketSize come through, whole;
\* readLiteral's cut never turns a longer one into a shorter one.
THEOREM ReceivedWithinBudget ==
  ASSUME NEW n \in Nat, NEW h \in Nat, h <= maxHeaderSize
  PROVE  Received(n, h) = IF n \in 1..MaxPacketSize THEN {n} ELSE {}
<1> DEFINE literal == readLiteral(h + BodyLen(n))
           body    == literal - h
<1>0. MaxPacketSize \in Nat
  BY LimitsAssumption DEF MaxPacketSize
<1>1. CASE n = 0
  BY <1>0, <1>1 DEF Received
<1>2. CASE n # 0 /\ n <= MaxPacketSize
  <2>1. BodyLen(n) \in Nat \ {0} /\ BodyLen(n) <= MaxBodySize
    BY <1>2, LimitExact, LinesOf
  <2>2. body = BodyLen(n)
    BY <2>1, LimitsAssumption DEF readLiteral, Lesser, maxFetchLiteralSize
  <2>3. CharsIn(n, body) = Base64Len(n) /\ BytesFrom(n, CharsIn(n, body)) = n
    BY <1>2, <2>2, WholeBody DEF BytesFrom
  <2>4. Base64Len(n) % 4 = 0
    BY <1>2, QuadsOf
  <2>5. Decodes(n, body)
    BY <1>2, <2>1, <2>2, <2>3, <2>4 DEF Decodes
  <2>6. n > 0 /\ body > 0 /\ n \in 1..MaxPacketSize
    BY <1>0, <1>2, <2>1, <2>2
  <2> HIDE DEF body
  <2>7. QED
    BY <2>3, <2>5, <2>6 DEF Received, body
<1>3. CASE n # 0 /\ ~(n <= MaxPacketSize)
  <2>1. BodyLen(n) \in Nat /\ BodyLen(n) > MaxBodySize
    BY <1>3, LimitExact, LinesOf, LimitsAssumption
  <2>2. body > MaxBodySize
    BY <2>1, LimitsAssumption DEF readLiteral, Lesser, maxFetchLiteralSize
  <2>3. ~Decodes(n, body)
    BY <2>1, <2>2, LimitsAssumption DEF Decodes, readLiteral, Lesser, maxFetchLiteralSize
  <2>4. QED
    BY <1>0, <1>3, <2>3 DEF Received
<1>4. QED
  BY <1>1, <1>2, <1>3

-----------------------------------------------------------------------------
(* Validate and the packets of a running bridge *)


\* Validate is the only way to "running", and nothing changes the config after it.
AdmitInv == stage = "running" => Valid(cfg)

\* Only Validate lets a config through.
LEMMA OnlyValidateAdmits ==
  ASSUME Next, stage' = "running", stage # "running"
  PROVE  Valid(cfg) /\ cfg' = cfg
<1>1. ~Parse
  BY Zenon DEF Parse, Stage
<1>2. ~applyEnv
  BY Zenon DEF applyEnv, Stage
<1>3. ~applyFlags
  BY Zenon DEF applyFlags, Stage
<1>4. ~applyPasswordFiles
  BY Zenon DEF applyPasswordFiles, Stage
<1>5. ~DerivePath
  BY Zenon DEF DerivePath, Stage
<1>6. ~Normalize
  BY Zenon DEF Normalize, Stage
<1>7. ~Ended
  BY DEF Ended, vars
<1>8. Validate
  BY <1>1, <1>2, <1>3, <1>4, <1>5, <1>6, <1>7 DEF Next
<1>9. QED
  BY <1>8 DEF Validate, Stage

\* A running bridge has no more of Load to do.
LEMMA RunningStays ==
  ASSUME Next, stage = "running"
  PROVE  cfg' = cfg
<1>1. ~Parse /\ ~applyEnv /\ ~applyFlags
  BY Zenon DEF Parse, applyEnv, applyFlags, Stage
<1>2. ~applyPasswordFiles /\ ~DerivePath /\ ~Normalize /\ ~Validate
  BY Zenon DEF applyPasswordFiles, DerivePath, Normalize, Validate, Stage
<1>3. QED
  BY <1>1, <1>2 DEF Next, Ended, vars

LEMMA NextAdmits == ASSUME AdmitInv, [Next]_vars PROVE AdmitInv'
<1> SUFFICES ASSUME stage' = "running" PROVE Valid(cfg) /\ cfg' = cfg
  BY DEF AdmitInv
<1>1. CASE UNCHANGED vars
  BY <1>1 DEF AdmitInv, vars
<1>2. CASE Next /\ stage = "running"
  BY <1>2, RunningStays DEF AdmitInv
<1>3. CASE Next /\ stage # "running"
  BY <1>3, OnlyValidateAdmits
<1>4. QED
  BY <1>1, <1>2, <1>3

\* A bridge runs with a config that Validate has admitted, whatever the sources say.
THEOREM Admitted == Spec => []AdmitInv
<1>1. Init => AdmitInv
  BY DEF Init, AdmitInv
<1>2. QED
  BY <1>1, NextAdmits, PTL DEF Spec

\* Every packet up to the configured MTU reaches the peer whole.
THEOREM PacketsComeThroughHolds == Spec => []PacketsComeThrough
<1>1. ASSUME ValidMTU(cfg), NEW n \in PacketSizes, NEW h \in HeaderSizes,
             n \in 1..cfg["pipe-mtu"], h <= maxHeaderSize
      PROVE  Received(n, h) = {n}
  <2>1. MaxPacketSize \in Nat
    BY LimitsAssumption DEF MaxPacketSize
  <2>2. n \in Nat /\ h \in Nat /\ n \in 1..MaxPacketSize
    BY <1>1, <2>1, SizesAssumption DEF ValidMTU
  <2>3. QED
    BY <1>1, <2>2, ReceivedWithinBudget
<1>2. Valid(cfg) => ValidMTU(cfg)
  BY Zenon DEF Valid
<1>3. AdmitInv => PacketsComeThrough
  BY <1>1, <1>2 DEF AdmitInv, PacketsComeThrough
<1>4. QED
  BY <1>3, Admitted, PTL

\* A packet that readLiteral cuts is never taken for a shorter one.
THEOREM NothingCutHolds == Spec => []NothingCut
<1>1. ASSUME NEW n \in PacketSizes, NEW h \in HeaderSizes, h <= maxHeaderSize
      PROVE  Received(n, h) \subseteq {n}
  <2>1. n \in Nat /\ h \in Nat
    BY SizesAssumption
  <2>2. Received(n, h) = IF n \in 1..MaxPacketSize THEN {n} ELSE {}
    BY <1>1, <2>1, ReceivedWithinBudget
  <2>3. QED
    BY <2>2
<1>2. NothingCut
  BY <1>1 DEF NothingCut
<1>3. QED
  BY <1>2, PTL

-----------------------------------------------------------------------------
(* What Load makes of its sources *)

\* A setting after the environment, after the flags, and after the password files.
AfterEnv(o)   == IF Getenv(o) = "" THEN Defaults[o] ELSE ValueOf(o, Getenv(o), Atoi)
AfterFlags(o) == IF FlagCounts(o) THEN ValueOf(o, FlagText(o), ParseInt) ELSE AfterEnv(o)
Told(o)       == IF o \in Passwords /\ PasswordFile(o) # ""
                   THEN readPasswordFile(PasswordFile(o)) ELSE AfterFlags(o)

Given == Settings \ {"checkpoint-path"}

\* How far the config is at every stage of Load.
LoadInv ==
  /\ cfg = [o \in Settings |-> cfg[o]]
  /\ stage \in {"parse", "env"} => cfg = Defaults
  /\ stage = "flags" => \A o \in Settings : cfg[o] = AfterEnv(o)
  /\ stage = "passwords" => \A o \in Settings : cfg[o] = AfterFlags(o)
  /\ stage = "derive" => \A o \in Settings : cfg[o] = Told(o)
  /\ stage = "normalize" => \A o \in Given : cfg[o] = Told(o)
  /\ stage \in {"validate", "running"} => \A o \in Given : cfg[o] = Canonical(o, Told(o))

\* A number in the environment that cannot be read ends Load at once.
ReadableInv ==
  stage \notin {"parse", "env", "failed"} =>
    \A o \in Numbers : Getenv(o) # "" => Getenv(o) \in DOMAIN Atoi

\* Load does not change its sources.
LEMMA Unchanged ==
  ASSUME inv' = inv, NEW o
  PROVE  /\ Getenv(o)' = Getenv(o)
         /\ AfterEnv(o)' = AfterEnv(o)
         /\ AfterFlags(o)' = AfterFlags(o)
         /\ Told(o)' = Told(o)
<1>1. \A p : Getenv(p)' = Getenv(p) /\ FlagText(p)' = FlagText(p)
  BY DEF Getenv, FlagText
<1>2. AfterEnv(o)' = AfterEnv(o)
  BY <1>1 DEF AfterEnv, ValueOf
<1>3. AfterFlags(o)' = AfterFlags(o)
  BY <1>1, <1>2 DEF AfterFlags, FlagCounts, ValueOf
<1>4. PasswordFile(o)' = PasswordFile(o)
  BY <1>1 DEF PasswordFile
<1>5. readPasswordFile(PasswordFile(o))' = readPasswordFile(PasswordFile(o))
  BY <1>4 DEF readPasswordFile
<1>6. Told(o)' = Told(o)
  BY <1>3, <1>4, <1>5 DEF Told
<1>7. QED
  BY <1>1, <1>2, <1>3, <1>6

LEMMA LoadStep == ASSUME LoadInv, Next PROVE LoadInv'
<1>1. CASE Parse
  BY <1>1 DEF Parse, Stage, LoadInv
<1>2. CASE applyEnv
  BY <1>2, Unchanged DEF applyEnv, Stage, LoadInv, AfterEnv
<1>3. CASE applyFlags
  BY <1>3, Unchanged DEF applyFlags, Stage, LoadInv, AfterFlags
<1>4. CASE applyPasswordFiles
  BY <1>4, Unchanged DEF applyPasswordFiles, Stage, LoadInv, Told
<1>5. CASE DerivePath
  BY <1>5, Unchanged DEF DerivePath, Stage, LoadInv, Given
<1>6. CASE Normalize
  <2>1. /\ stage = "normalize" /\ stage' = "validate" /\ inv' = inv
        /\ cfg' = [o \in Settings |-> CASE o \in Hosts \cup Enums -> Lookup(LowerTrim, cfg[o])
                                        [] o \in Addresses        -> Lookup(ParseAddress, cfg[o])
                                        [] OTHER                  -> cfg[o]]
    BY <1>6, Zenon DEF Normalize, Stage
  <2>2. ASSUME NEW o \in Given
        PROVE  cfg'[o] = Canonical(o, cfg[o])
    <3>1. o \in Settings /\ ~(o \in Hosts \cup Enums /\ o \in Addresses)
      BY DEF Given, Hosts, Enums, Addresses, ValidValues
    <3>2. QED
      BY <2>1, <3>1 DEF Canonical
  <2>3. \A o \in Given : cfg'[o] = Canonical(o, Told(o))
    BY <2>1, <2>2 DEF LoadInv
  <2>4. \A o \in Given : Canonical(o, Told(o))' = Canonical(o, Told(o))
    BY <2>1, Unchanged DEF Canonical, Lookup
  <2>5. QED
    BY <2>1, <2>3, <2>4 DEF LoadInv
<1>7. CASE Validate
  BY <1>7, Unchanged DEF Validate, Stage, LoadInv
<1>8. CASE Ended
  BY <1>8, Unchanged DEF Ended, vars, LoadInv
<1>9. QED
  BY <1>1, <1>2, <1>3, <1>4, <1>5, <1>6, <1>7, <1>8 DEF Next

LEMMA ReadableStep == ASSUME ReadableInv, Next PROVE ReadableInv'
<1>1. CASE Parse
  BY <1>1 DEF Parse, Stage, ReadableInv
<1>2. CASE applyEnv
  BY <1>2, Unchanged DEF applyEnv, Stage, ReadableInv
<1>3. CASE applyFlags
  BY <1>3, Unchanged DEF applyFlags, Stage, ReadableInv
<1>4. CASE applyPasswordFiles
  BY <1>4, Unchanged DEF applyPasswordFiles, Stage, ReadableInv
<1>5. CASE DerivePath
  BY <1>5, Unchanged DEF DerivePath, Stage, ReadableInv
<1>6. CASE Normalize
  BY <1>6, Unchanged DEF Normalize, Stage, ReadableInv
<1>7. CASE Validate
  BY <1>7, Unchanged DEF Validate, Stage, ReadableInv
<1>8. CASE Ended
  BY <1>8, Unchanged DEF Ended, vars, ReadableInv
<1>9. QED
  BY <1>1, <1>2, <1>3, <1>4, <1>5, <1>6, <1>7, <1>8 DEF Next

\* Every stage leaves the config as its sources have it.
THEOREM Loaded == Spec => [](LoadInv /\ ReadableInv)
<1>1. Init => LoadInv /\ ReadableInv
  BY DEF Init, LoadInv, ReadableInv, Defaults
<1>2. LoadInv /\ ReadableInv /\ UNCHANGED vars => (LoadInv /\ ReadableInv)'
  BY Unchanged DEF LoadInv, ReadableInv, vars
<1>3. LoadInv /\ ReadableInv /\ [Next]_vars => (LoadInv /\ ReadableInv)'
  BY <1>2, LoadStep, ReadableStep
<1>4. QED
  BY <1>1, <1>3, PTL DEF Spec

\* The order of Load's stages gives every setting the value that the README's order of its
\* sources asks for, unless its flag is zero or empty, and Load stops at a number in the
\* environment that it cannot read.
THEOREM RunsAsToldHolds == Spec => []RunsAsTold
<1>1. ASSUME NEW o \in Settings,
             ~ZeroFlag(o), ~(o \in Passwords /\ ZeroFlag(FileOption(o)))
      PROVE  Told(o) = Stated(o)
  <2>1. AfterFlags(o) = IF o \in DOMAIN inv.flags THEN ValueOf(o, inv.flags[o], ParseInt)
                        ELSE AfterEnv(o)
    BY <1>1 DEF AfterFlags, FlagCounts, FlagText, ZeroFlag
  <2>2. o \in Passwords => PasswordFile(o) = TextOf(FileOption(o))
    BY <1>1 DEF PasswordFile, TextOf, FlagText, ZeroFlag
  <2>3. QED
    BY <2>1, <2>2 DEF Told, Stated, AfterEnv
<1>2. ASSUME LoadInv, ReadableInv, stage = "running", NEW o \in Settings \ {"checkpoint-path"}
      PROVE  /\ ~ZeroFlag(o) /\ ~(o \in Passwords /\ ZeroFlag(FileOption(o)))
                  => cfg[o] = Canonical(o, Stated(o))
             /\ o \in Numbers /\ Getenv(o) # "" => Getenv(o) \in DOMAIN Atoi
  <2>1. cfg[o] = Canonical(o, Told(o))
    BY <1>2 DEF LoadInv, Given
  <2>2. o \in Numbers /\ Getenv(o) # "" => Getenv(o) \in DOMAIN Atoi
    BY <1>2 DEF ReadableInv
  <2>3. QED
    BY <1>1, <2>1, <2>2
<1>3. LoadInv /\ ReadableInv => RunsAsTold
  BY <1>2, Zenon DEF RunsAsTold
<1>4. QED
  BY <1>3, Loaded, PTL

-----------------------------------------------------------------------------
(* The addresses *)

\* Normalize leaves what it cannot parse to Validate, and Validate refuses it: what MAIL FROM
\* and RCPT TO get comes out of mail.ParseAddress and holds no CR, LF or NUL, whatever that
\* function makes of quoted local parts and comments.
THEOREM ParsedAddressesHolds == Spec => []ParsedAddresses
<1>1. ASSUME AdmitInv, LoadInv, stage = "running", NEW o \in Addresses
      PROVE  cfg[o] \in {ParseAddress[t] : t \in DOMAIN ParseAddress} \ Unsafe
  <2>1. cfg[o] \in DOMAIN ParseAddress /\ cfg[o] \notin Unsafe
    BY <1>1, Zenon DEF AdmitInv, Valid
  <2>2. o \in Given /\ o \notin Hosts \cup Enums
    BY DEF Given, Settings, Required, Addresses, Hosts, Enums, ValidValues
  <2>3. cfg[o] = Lookup(ParseAddress, Told(o))
    BY <1>1, <2>2 DEF LoadInv, Canonical
  <2>4. Told(o) \in DOMAIN ParseAddress /\ cfg[o] = ParseAddress[Told(o)]
    BY <2>1, <2>3 DEF Lookup
  <2>5. QED
    BY <2>1, <2>4
<1>2. AdmitInv /\ LoadInv => ParsedAddresses
  BY <1>1 DEF ParsedAddresses
<1>3. QED
  BY <1>2, Admitted, Loaded, PTL
=============================================================================
