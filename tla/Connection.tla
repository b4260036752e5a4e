----------------------------- MODULE Connection -----------------------------
(***************************************************************************)
(* One connection to a mail server: DialTCP (internal/transport/dial.go)   *)
(* and what is done with it, which is IMAP's Dial (internal/imap/client.go) *)
(* or Probe or Send (internal/transport/smtp.go).                          *)
(*                                                                         *)
(* Every stage is network I/O; a Read or Write ends with data, with an     *)
(* error, or at its deadline.  A server may answer as slowly as it likes.  *)
(***************************************************************************)
EXTENDS TimeoutConn

CONSTANTS
  sendTimeout,  \* the deadline HandlePacket gives the context of Send
  DialTimeout,  \* imapDialTimeout, smtpDialTimeout
  IOTimeout,    \* imapIOTimeout, smtpIOTimeout
  MaxTime       \* bound: the time that is looked at

ASSUME TimeAssumption ==
  {sendTimeout, DialTimeout, IOTimeout} \subseteq Nat \ {0} /\ MaxTime \in Nat

VARIABLES
  kind,     \* the caller: "imap", "probe" or "send"
  mode,     \* the TLS mode
  stage,    \* the operation that is running, or "ended"
  opLeft,   \* the deadline of its pending Read or Write
  hard,     \* the TimeoutConn's hard deadline
  ctxLeft,  \* the context's deadline
  ctxDone,  \* the context is cancelled or past its deadline
  elapsed,  \* time since the call
  accepted, \* the server has taken responsibility for the message
  result    \* "none", "ok", "failed", "unknown"

call == <<kind, mode>>
vars == <<call, stage, opLeft, hard, ctxLeft, ctxDone, elapsed, accepted, result>>

\* Only Send is called with a deadline; the contexts of Probe and of Run have none.
Deadline == IF kind = "send" THEN {sendTimeout} ELSE {}

\* DialContext is limited by the dialer's timeout and by the context.
Init ==
  /\ kind \in {"imap", "probe", "send"}
  /\ mode \in {"tls", "starttls", "none"}
  /\ stage = "dial"
  /\ opLeft = {effectiveDeadline(DialTimeout, Deadline)}
  /\ hard = {}
  /\ ctxLeft = Deadline
  /\ ctxDone = FALSE
  /\ elapsed = 0
  /\ accepted = FALSE
  /\ result = "none"

End(r) ==
  /\ stage' = "ended"
  /\ opLeft' = {} /\ hard' = {}
  /\ result' = r

\* The next stage does its I/O on the TimeoutConn.
IO(next, h) ==
  /\ stage' = next
  /\ hard' = h
  /\ opLeft' = {effectiveDeadline(IOTimeout, h)}
  /\ UNCHANGED result

-----------------------------------------------------------------------------
(* DialTCP *)

\* Mutant: no hard deadline on the connection.
Connected_NoHardDeadline ==
  IF kind = "imap" THEN IF mode = "starttls" THEN IO("starttls", {}) ELSE End("ok")
  ELSE IO(IF mode = "starttls" THEN "starttls" ELSE "auth", {})

\* The TimeoutConn is there: connect gives it the context's deadline, IMAP's Dial none.
Connected ==
  IF kind = "imap" THEN IF mode = "starttls" THEN IO("starttls", {}) ELSE End("ok")
  ELSE IO(IF mode = "starttls" THEN "starttls" ELSE "auth", ctxLeft)

\* For "tls" the raw connection gets the context's deadline, if there is one.
DialOK ==
  /\ stage = "dial" /\ ~ctxDone
  /\ IF mode = "tls"
       THEN stage' = "handshake" /\ opLeft' = ctxLeft /\ UNCHANGED <<hard, result>>
       ELSE Connected
  /\ UNCHANGED <<call, ctxLeft, ctxDone, elapsed, accepted>>

\* The deadline of the raw connection is cleared again.
HandshakeOK ==
  /\ stage = "handshake" /\ ~ctxDone
  /\ Connected
  /\ UNCHANGED <<call, ctxLeft, ctxDone, elapsed, accepted>>

-----------------------------------------------------------------------------
(* connect, Probe and Send *)

Successor ==
  [starttls |-> "auth", auth |-> IF kind = "probe" THEN "quit" ELSE "mail",
   mail |-> "rcpt", rcpt |-> "data", data |-> "write", write |-> "close"]

\* connect looks at the context after STARTTLS and Send after AUTH.
LooksAtContext == stage = "starttls" \/ (stage = "auth" /\ kind = "send")

StageOK ==
  /\ stage \in DOMAIN Successor
  /\ IF kind = "imap" THEN End("ok")
     ELSE IF LooksAtContext /\ ctxDone THEN End("failed")
     ELSE IO(Successor[stage], hard)
  /\ UNCHANGED <<call, ctxLeft, ctxDone, elapsed, accepted>>

\* The answer to the dot.
CloseOK ==
  /\ stage = "close"
  /\ accepted' = TRUE
  /\ IO("quit", hard)
  /\ UNCHANGED <<call, ctxLeft, ctxDone, elapsed>>

\* Mutant: the error of the answer to the dot is dropped.
Refused_Ignored ==
  /\ stage = "close"
  /\ IO("quit", hard)
  /\ UNCHANGED <<call, ctxLeft, ctxDone, elapsed, accepted>>

\* The answer to the dot is a 4xx or 5xx: an SMTPError.
Refused ==
  /\ stage = "close"
  /\ End("failed")
  /\ UNCHANGED <<call, ctxLeft, ctxDone, elapsed, accepted>>

\* Quit is best effort.
QuitEnds ==
  /\ stage = "quit"
  /\ End("ok")
  /\ UNCHANGED <<call, ctxLeft, ctxDone, elapsed, accepted>>

\* A Read or Write of the stage ends and the next begins.
Continue ==
  /\ stage \notin {"dial", "handshake", "ended"}
  /\ IO(stage, hard)
  /\ UNCHANGED <<call, ctxLeft, ctxDone, elapsed, accepted>>

\* Mutant: every error of Send may be retried.
ErrorOf_Uniform(s) == "failed"

\* An error without an answer to the dot is ErrDataOutcomeUnknown.
ErrorOf(s) == IF s = "close" THEN "unknown" ELSE "failed"

\* An error of the network or an answer that refuses the command, a deadline that is
\* over, or a context that ends DialContext or HandshakeContext.  The dot may have
\* reached the server.
StageFails ==
  /\ stage \notin {"quit", "ended"}
  /\ End(ErrorOf(stage))
  /\ accepted' \in (IF stage = "close" THEN BOOLEAN ELSE {accepted})
  /\ UNCHANGED <<call, ctxLeft, ctxDone, elapsed>>

-----------------------------------------------------------------------------
(* Time and cancellation *)

\* Nothing pends past its deadline, nor a dial past the end of its context.
Tick ==
  /\ stage # "ended"
  /\ ~IsOver(opLeft)
  /\ ~(ctxDone /\ stage \in {"dial", "handshake"})
  /\ elapsed < MaxTime
  /\ elapsed' = elapsed + 1
  /\ opLeft' = Later(opLeft) /\ hard' = Later(hard) /\ ctxLeft' = Later(ctxLeft)
  /\ ctxDone' = (ctxDone \/ IsOver(Later(ctxLeft)))
  /\ UNCHANGED <<call, stage, accepted, result>>

Cancel ==
  /\ stage # "ended" /\ ~ctxDone
  /\ ctxDone' = TRUE
  /\ UNCHANGED <<call, stage, opLeft, hard, ctxLeft, elapsed, accepted, result>>

Done == stage = "ended" /\ UNCHANGED vars

Next ==
  \/ DialOK \/ HandshakeOK \/ StageOK \/ CloseOK \/ Refused \/ QuitEnds \/ Continue
  \/ StageFails \/ Tick \/ Cancel \/ Done

Spec == Init /\ [][Next]_vars

-----------------------------------------------------------------------------
(* Properties *)

\* Send returns by the deadline of its context, however slowly the server answers and
\* however many reads a stage takes: "STARTTLS, AUTH, and subsequent SMTP commands
\* respect the caller's timeout budget" (comment in connect).
WithinBudget == \A t \in Deadline : stage # "ended" => elapsed <= t

\* An error that HandlePacket retries means that the server does not have the message,
\* so that a packet is accepted at most once.
RetryIsSafe == result = "failed" => ~accepted

\* A successful Send means that it has.
SuccessIsAccepted == result = "ok" /\ kind = "send" => accepted

\* A dial ends within the dial timeout and, to be generous, one operation's timeout: the
\* comment of DialTCP names tls.DialWithDialer for "tls", which applies the dialer's timeout
\* to connection and handshake as a whole.
DialInTime == stage \in {"dial", "handshake"} => elapsed <= DialTimeout + IOTimeout
=============================================================================
