-------------------------- MODULE ConnectionProofs --------------------------
(***************************************************************************)
(* A Send keeps the deadline of its context, and its result tells the      *)
(* truth about the message: for every choice of the timeouts, every TLS    *)
(* mode, and a server that answers as slowly as it likes.                  *)
(***************************************************************************)
EXTENDS Connection, TLAPS

Stages == {"dial", "handshake", "starttls", "auth", "mail", "rcpt", "data", "write", "close",
           "quit", "ended"}

\* Probe and IMAP's Dial leave out the stages of a message.
StageInv ==
  /\ kind \in {"imap", "probe", "send"} /\ mode \in {"tls", "starttls", "none"}
  /\ stage \in Stages
  /\ kind = "imap" => stage \in {"dial", "handshake", "starttls", "ended"}
  /\ kind = "probe" => stage \in {"dial", "handshake", "starttls", "auth", "quit", "ended"}

\* The server has the message only after the dot, and every result but a success or an
\* unknown outcome comes before it.
OutcomeInv ==
  /\ accepted \in BOOLEAN
  /\ stage # "ended" => result = "none"
  /\ accepted => stage = "quit" \/ (stage = "ended" /\ result \in {"ok", "unknown"})
  /\ kind = "send" /\ (stage = "quit" \/ result = "ok") => accepted

\* Of a Send no operation pends past the deadline of the context, and the connection
\* carries that deadline from the moment it exists.
TimeInv ==
  /\ elapsed \in Nat
  /\ kind = "send" =>
       /\ ctxLeft = {sendTimeout - elapsed}
       /\ stage # "ended" => \E d \in Int : opLeft = {d} /\ d <= sendTimeout - elapsed
       /\ stage # "ended" => elapsed <= sendTimeout
       /\ stage \notin {"dial", "handshake", "ended"} => hard = ctxLeft

IndInv == StageInv /\ OutcomeInv /\ TimeInv

\* With a hard deadline an operation ends by that or by its own timeout.
LEMMA HardDeadline ==
  ASSUME NEW t \in Int, NEW h \in Int
  PROVE  effectiveDeadline(t, {h}) \in Int /\ effectiveDeadline(t, {h}) <= h
<1>1. (CHOOSE x \in {h} : TRUE) = h
  OBVIOUS
<1>2. effectiveDeadline(t, {h}) = IF h < t THEN h ELSE t
  BY <1>1 DEF effectiveDeadline
<1>3. QED
  BY <1>2

\* An operation that begins on the connection of a Send is within the budget.
LEMMA IOInBudget ==
  ASSUME TimeInv, kind = "send", NEW h \in Int, h = sendTimeout - elapsed, NEW next,
         IO(next, ctxLeft)
  PROVE  (\E d \in Int : opLeft' = {d} /\ d <= sendTimeout - elapsed) /\ hard' = ctxLeft
<1>1. IOTimeout \in Int
  BY TimeAssumption
<1>2. effectiveDeadline(IOTimeout, {h}) \in Int /\ effectiveDeadline(IOTimeout, {h}) <= h
  BY <1>1, HardDeadline
<1>3. QED
  BY <1>2 DEF IO, TimeInv

LEMMA InitInd == ASSUME Init PROVE IndInv
<1>1. StageInv /\ OutcomeInv
  BY DEF Init, StageInv, Stages, OutcomeInv
<1>2. ASSUME kind = "send"
      PROVE  \E d \in Int : opLeft = {d} /\ d <= sendTimeout - elapsed
  <2>1. DialTimeout \in Int /\ sendTimeout \in Int
    BY TimeAssumption
  <2>2. effectiveDeadline(DialTimeout, {sendTimeout}) \in Int
        /\ effectiveDeadline(DialTimeout, {sendTimeout}) <= sendTimeout
    BY <2>1, HardDeadline
  <2>3. QED
    BY <1>2, <2>1, <2>2 DEF Init, Deadline
<1>3. TimeInv
  BY <1>2, TimeAssumption DEF Init, TimeInv, Deadline
<1>4. QED
  BY <1>1, <1>3 DEF IndInv

\* The stages follow each other as the caller has them.
LEMMA StageStep == ASSUME StageInv, Next PROVE StageInv'
<1> USE DEF StageInv, Stages, call, End, IO
<1>1. CASE DialOK
  BY <1>1 DEF DialOK, Connected
<1>2. CASE HandshakeOK
  BY <1>2 DEF HandshakeOK, Connected
<1>3. CASE StageOK
  BY <1>3 DEF StageOK, Successor
<1>4. CASE CloseOK \/ Refused \/ QuitEnds
  BY <1>4 DEF CloseOK, Refused, QuitEnds
<1>5. CASE Continue \/ StageFails
  BY <1>5 DEF Continue, StageFails
<1>6. CASE Tick \/ Cancel \/ Done
  BY <1>6 DEF Tick, Cancel, Done, vars
<1>7. QED
  BY <1>1, <1>2, <1>3, <1>4, <1>5, <1>6 DEF Next

\* Only the answer to the dot, or its absence, makes the server responsible.
LEMMA OutcomeStep == ASSUME StageInv, OutcomeInv, Next PROVE OutcomeInv'
<1> USE DEF StageInv, Stages, OutcomeInv, call, End, IO
<1>1. CASE DialOK
  BY <1>1 DEF DialOK, Connected
<1>2. CASE HandshakeOK
  BY <1>2 DEF HandshakeOK, Connected
<1>3. CASE StageOK
  BY <1>3 DEF StageOK, Successor
<1>4. CASE CloseOK
  BY <1>4 DEF CloseOK
<1>5. CASE Refused
  BY <1>5 DEF Refused
<1>6. CASE QuitEnds
  BY <1>6 DEF QuitEnds
<1>7. CASE Continue
  BY <1>7 DEF Continue
<1>8. CASE StageFails
  BY <1>8 DEF StageFails, ErrorOf
<1>9. CASE Tick \/ Cancel \/ Done
  BY <1>9 DEF Tick, Cancel, Done, vars
<1>10. QED
  BY <1>1, <1>2, <1>3, <1>4, <1>5, <1>6, <1>7, <1>8, <1>9 DEF Next

\* Every operation begins within the budget, and time does not pass beyond it.
LEMMA TimeStep == ASSUME StageInv, TimeInv, Next PROVE TimeInv'
<1>0. sendTimeout - elapsed \in Int
  BY TimeAssumption DEF TimeInv
<1>1. ASSUME NEW next, kind = "send", stage # "ended", IO(next, ctxLeft),
             UNCHANGED <<call, ctxLeft, elapsed>>
      PROVE  TimeInv'
  <2>1. (\E d \in Int : opLeft' = {d} /\ d <= sendTimeout - elapsed) /\ hard' = ctxLeft
    BY <1>0, <1>1, IOInBudget
  <2>2. elapsed <= sendTimeout
    BY <1>1 DEF TimeInv
  <2>3. QED
    BY <1>1, <2>1, <2>2 DEF TimeInv, call
<1>2. ASSUME NEW r, End(r), UNCHANGED <<call, ctxLeft, elapsed>> PROVE TimeInv'
  BY <1>2 DEF End, TimeInv, call
<1>3. ASSUME kind # "send", kind' = kind, elapsed' \in Nat PROVE TimeInv'
  BY <1>3 DEF TimeInv
<1>4. elapsed' \in Nat /\ kind' = kind
  BY DEF TimeInv, Next, DialOK, HandshakeOK, StageOK, CloseOK, Refused, QuitEnds, Continue,
     StageFails, Tick, Cancel, Done, call, vars
<1>5. CASE kind # "send"
  BY <1>3, <1>4, <1>5
<1>6. CASE kind = "send"
  <2>1. ASSUME Connected, stage # "ended", UNCHANGED <<call, ctxLeft, elapsed>> PROVE TimeInv'
    BY <1>1, <1>6, <2>1 DEF Connected
  <2>2. CASE DialOK
    <3>1. CASE mode = "tls"
      <4>1. ctxLeft = {sendTimeout - elapsed} /\ elapsed <= sendTimeout
        BY <1>6, <2>2 DEF TimeInv, DialOK
      <4>2. opLeft' = {sendTimeout - elapsed} /\ stage' = "handshake"
        BY <2>2, <3>1, <4>1 DEF DialOK
      <4>3. QED
        BY <1>0, <1>4, <2>2, <4>1, <4>2 DEF TimeInv, DialOK
    <3>2. CASE mode # "tls"
      BY <2>1, <2>2, <3>2 DEF DialOK
    <3>3. QED
      BY <3>1, <3>2
  <2>3. CASE HandshakeOK
    BY <2>1, <2>3 DEF HandshakeOK
  <2>4. ASSUME stage \notin {"dial", "handshake", "ended"} PROVE hard = ctxLeft
    BY <1>6, <2>4 DEF TimeInv
  <2>5. CASE StageOK
    <3>1. stage \notin {"dial", "handshake", "ended"}
      BY <2>5 DEF StageOK, Successor
    <3>2. End("failed") \/ IO(Successor[stage], ctxLeft)
      BY <1>6, <2>4, <2>5, <3>1 DEF StageOK
    <3>3. QED
      BY <1>1, <1>2, <1>6, <2>5, <3>1, <3>2 DEF StageOK
  <2>6. CASE CloseOK
    BY <1>1, <1>6, <2>4, <2>6 DEF CloseOK
  <2>7. CASE Refused \/ QuitEnds
    BY <1>2, <2>7 DEF Refused, QuitEnds
  <2>8. CASE Continue
    BY <1>1, <1>6, <2>4, <2>8 DEF Continue
  <2>9. CASE StageFails
    BY <1>2, <2>9 DEF StageFails
  <2>10. CASE Tick
    <3>1. PICK d \in Int : opLeft = {d} /\ d <= sendTimeout - elapsed
      BY <1>6, <2>10 DEF Tick, TimeInv
    <3>2. d > 0
      BY <2>10, <3>1 DEF Tick, IsOver
    <3>3. opLeft' = {d - 1} /\ elapsed' = elapsed + 1
      BY <2>10, <3>1 DEF Tick, Later
    <3>4. sendTimeout \in Int /\ elapsed \in Int
      BY TimeAssumption DEF TimeInv
    <3>5. ctxLeft' = {sendTimeout - elapsed'}
      <4>1. ctxLeft' = {(sendTimeout - elapsed) - 1}
        BY <1>6, <2>10 DEF Tick, Later, TimeInv
      <4>2. (sendTimeout - elapsed) - 1 = sendTimeout - elapsed'
        BY <3>3, <3>4
      <4>3. QED
        BY <4>1, <4>2
    <3>6. elapsed' <= sendTimeout /\ d - 1 \in Int /\ d - 1 <= sendTimeout - elapsed'
      BY <3>1, <3>2, <3>3, <3>4
    <3>7. stage' \notin {"dial", "handshake", "ended"} => hard' = ctxLeft'
      BY <2>4, <2>10 DEF Tick
    <3>8. QED
      BY <1>4, <3>3, <3>5, <3>6, <3>7 DEF TimeInv
  <2>11. CASE Cancel \/ Done
    BY <2>11 DEF TimeInv, Cancel, Done, call, vars
  <2>12. QED
    BY <2>2, <2>3, <2>5, <2>6, <2>7, <2>8, <2>9, <2>10, <2>11 DEF Next
<1>7. QED
  BY <1>5, <1>6

\* The inductive invariant of a connection.
THEOREM Inductive == Spec => []IndInv
<1>1. IndInv /\ Next => IndInv'
  BY StageStep, OutcomeStep, TimeStep DEF IndInv
<1>2. IndInv /\ UNCHANGED vars => IndInv'
  BY DEF IndInv, StageInv, OutcomeInv, TimeInv, vars, call
<1>3. QED
  BY <1>1, <1>2, InitInd, PTL DEF Spec

\* Send returns by the deadline of its context, whatever the server does.
THEOREM WithinBudgetHolds == Spec => []WithinBudget
<1>1. IndInv => WithinBudget
  BY DEF IndInv, TimeInv, WithinBudget, Deadline
<1>2. QED
  BY <1>1, Inductive, PTL

\* An error that HandlePacket retries means that the server does not have the message.
THEOREM RetryIsSafeHolds == Spec => []RetryIsSafe
<1>1. IndInv => RetryIsSafe
  BY DEF IndInv, StageInv, OutcomeInv, RetryIsSafe
<1>2. QED
  BY <1>1, Inductive, PTL

\* A Send that succeeds means that it has.
THEOREM SuccessIsAcceptedHolds == Spec => []SuccessIsAccepted
<1>1. IndInv => SuccessIsAccepted
  BY DEF IndInv, OutcomeInv, SuccessIsAccepted
<1>2. QED
  BY <1>1, Inductive, PTL

-----------------------------------------------------------------------------
(* The dial *)

\* DialContext pends within the dialer's timeout; only "tls" has a handshake in DialTCP.
DialInv ==
  /\ elapsed \in Nat
  /\ stage = "dial" => \E d \in Nat : opLeft = {d} /\ d + elapsed <= DialTimeout
  /\ stage = "handshake" => mode = "tls"

LEMMA DialInit == ASSUME Init PROVE DialInv
<1>1. DialTimeout \in Nat /\ sendTimeout \in Nat
  BY TimeAssumption
<1>2. CASE kind = "send"
  <2>1. (CHOOSE x \in {sendTimeout} : TRUE) = sendTimeout
    OBVIOUS
  <2>2. effectiveDeadline(DialTimeout, {sendTimeout}) \in Nat
        /\ effectiveDeadline(DialTimeout, {sendTimeout}) <= DialTimeout
    BY <1>1, <2>1 DEF effectiveDeadline
  <2>3. QED
    BY <1>1, <1>2, <2>2 DEF Init, Deadline, DialInv
<1>3. CASE kind # "send"
  <2>1. effectiveDeadline(DialTimeout, {}) = DialTimeout
    BY DEF effectiveDeadline
  <2>2. QED
    BY <1>1, <1>3, <2>1 DEF Init, Deadline, DialInv
<1>4. QED
  BY <1>2, <1>3

LEMMA DialStep == ASSUME DialInv, Next PROVE DialInv'
<1>1. CASE DialOK
  BY <1>1 DEF DialOK, Connected, IO, End, call, DialInv
<1>2. CASE HandshakeOK
  BY <1>2 DEF HandshakeOK, Connected, IO, End, call, DialInv
<1>3. CASE StageOK
  <2>1. Successor[stage] \notin {"dial", "handshake"}
    BY <1>3 DEF StageOK, Successor
  <2>2. QED
    BY <1>3, <2>1 DEF StageOK, IO, End, call, DialInv
<1>4. CASE CloseOK \/ Refused \/ QuitEnds \/ StageFails
  BY <1>4 DEF CloseOK, Refused, QuitEnds, StageFails, IO, End, call, DialInv
<1>5. CASE Continue
  BY <1>5 DEF Continue, IO, call, DialInv
<1>6. CASE Tick
  <2>1. ASSUME stage = "dial"
        PROVE  \E d \in Nat : opLeft' = {d} /\ d + elapsed' <= DialTimeout
    <3>1. PICK d \in Nat : opLeft = {d} /\ d + elapsed <= DialTimeout
      BY <2>1 DEF DialInv
    <3>2. d - 1 \in Nat /\ opLeft' = {d - 1} /\ elapsed' = elapsed + 1
      BY <1>6, <3>1 DEF Tick, IsOver, Later
    <3>3. QED
      BY <3>1, <3>2, TimeAssumption DEF DialInv
  <2>2. QED
    BY <1>6, <2>1 DEF Tick, call, DialInv
<1>7. CASE Cancel \/ Done
  BY <1>7 DEF Cancel, Done, call, vars, DialInv
<1>8. QED
  BY <1>1, <1>2, <1>3, <1>4, <1>5, <1>6, <1>7 DEF Next

\* Outside mode tls the dial ends in time; the handshake of mode tls, which nothing limits
\* when the context has no deadline, is the only exception.
THEOREM DialInTimeHolds == Spec => [](mode # "tls" => DialInTime)
<1>1. DialInv /\ [Next]_vars => DialInv'
  <2>1. DialInv /\ UNCHANGED vars => DialInv'
    BY DEF DialInv, vars, call
  <2>2. QED
    BY <2>1, DialStep
<1>2. DialInv => (mode # "tls" => DialInTime)
  BY TimeAssumption DEF DialInv, DialInTime
<1>3. QED
  BY <1>1, <1>2, DialInit, PTL DEF Spec
=============================================================================
