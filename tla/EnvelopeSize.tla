---------------------------- MODULE EnvelopeSize ----------------------------
(***************************************************************************)
(* One packet on its way from Encode (internal/envelope/envelope.go)       *)
(* through the mail system, the literal reader of FetchSince               *)
(* (internal/imap/client.go) and Decode, as far as sizes in bytes decide   *)
(* what becomes of it.                                                     *)
(***************************************************************************)
EXTENDS Integers

CONSTANTS
  MaxBodySize,   \* envelope.MaxBodySize
  maxHeaderSize  \* the fetch literal's budget for headers

ASSUME LimitsAssumption == MaxBodySize \in Nat \ {0} /\ maxHeaderSize \in Nat

\* Characters of base64 for n bytes; each line takes 76 of them and a CR LF.
Base64Len(n) == 4 * ((n + 2) \div 3)
BodyLen(n) == Base64Len(n) + 2 * ((Base64Len(n) + 75) \div 76)

\* Mutant: forgets the CR LF of each line.
MaxPacketSize_NoLineEnds == (MaxBodySize \div 76) * 57

\* The remainder counts only when it has room for a line end (Go divides towards zero).
MaxPacketSize ==
  (MaxBodySize \div 78) * 57
    + (IF MaxBodySize % 78 >= 2 THEN (((MaxBodySize % 78) - 2) \div 4) * 3 ELSE 0)

maxFetchLiteralSize == maxHeaderSize + MaxBodySize + 1

Lesser(a, b) == IF a <= b THEN a ELSE b

\* readLiteral keeps the first maxFetchLiteralSize bytes; FetchSince ignores oversized.
readLiteral(size) == Lesser(size, maxFetchLiteralSize)

\* Base64 characters among the first k bytes of the body of a packet of n bytes.
CharsIn(n, k) == Lesser(Base64Len(n), 76 * (k \div 78) + Lesser(k % 78, 76))

\* What base64 decodes from them; only the whole text has its padding.
BytesFrom(n, chars) == IF chars = Base64Len(n) THEN n ELSE 3 * (chars \div 4)

\* Mutant: Decode trusts the fetch to have limited the body.
Decodes_Unlimited(n, body) == CharsIn(n, body) % 4 = 0 /\ BytesFrom(n, CharsIn(n, body)) > 0

\* Decode accepts the first body bytes.
Decodes(n, body) ==
  /\ body <= MaxBodySize
  /\ CharsIn(n, body) % 4 = 0
  /\ BytesFrom(n, CharsIn(n, body)) > 0

\* The size of the packet the peer gets when n bytes were sent and h bytes of headers
\* arrive, the mail servers' included; {} when it gets none.  Encode refuses an empty packet;
\* mail.ReadMessage fails when the headers themselves were cut.
Received(n, h) ==
  LET literal == readLiteral(h + BodyLen(n))
      body    == literal - h
  IN  IF n > 0 /\ body > 0 /\ Decodes(n, body) THEN {BytesFrom(n, CharsIn(n, body))} ELSE {}
=============================================================================
