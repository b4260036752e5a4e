------------------------------ MODULE Envelope ------------------------------
(***************************************************************************)
(* internal/envelope/envelope.go and the point-to-point check of           *)
(* internal/imap/worker.go: what becomes of one fetched message.           *)
(*                                                                         *)
(* A message is abstracted to what Decode looks at: whether net/mail can   *)
(* parse it, whether it carries X-RNS-Transport: 1, its Content-Type, the  *)
(* From and To addresses, and what decodeBody makes of the body.           *)
(***************************************************************************)

CONSTANTS
  Users,       \* bare addresses, domain in lower case
  PeerEmail,   \* --peer-email
  LocalEmail   \* --smtp-from

ASSUME AddressAssumption == PeerEmail \in Users /\ LocalEmail \in Users

\* A From or To header: one that is missing or does not parse, or an address
\* in some spelling (display name, capitals in the domain).
HeaderAddress == [parses : BOOLEAN, user : Users, spelling : {"bare", "display", "capitals"}]

RawMessage ==
  [parsed      : BOOLEAN,
   marker      : BOOLEAN,
   contentType : {"missing", "malformed", "octet-stream", "other"},
   from        : HeaderAddress,
   to          : HeaderAddress,
   body        : {"packet", "empty", "undecodable", "oversized"}]

Bare(u) == [parses |-> TRUE, user |-> u, spelling |-> "bare"]

\* The email Encode makes of a packet that fits MaxPacketSize.
Encode(from, to) ==
  [parsed |-> TRUE, marker |-> TRUE, contentType |-> "octet-stream",
   from |-> Bare(from), to |-> Bare(to), body |-> "packet"]

isTransport(raw) == raw.marker /\ raw.contentType = "octet-stream"

\* The error of a message that is no complete envelope: ours but broken when
\* the transport marker is there (hasTransportMarker when the message does not
\* parse, the parsed header otherwise), ErrNotTransport when it is not.
Rejected(raw) == IF raw.marker THEN "broken" ELSE "not transport"

\* decodeBody failed, gave no bytes, or was not tried because of the size limit.
BodyFails(raw) == raw.body # "packet"

Decode(raw) ==
  IF ~raw.parsed THEN Rejected(raw)
  ELSE IF raw.contentType \in {"missing", "malformed"} THEN Rejected(raw)
  ELSE IF ~isTransport(raw) THEN Rejected(raw)
  ELSE IF ~raw.from.parses \/ ~raw.to.parses THEN "broken"
  ELSE IF BodyFails(raw) THEN "broken"
  ELSE "decoded"

\* Drops the display name and lower-cases the domain.
canonicalAddr(addr) == addr.user

\* What the fetch handler does with the message: "skip" and "broken" return to
\* the fetch loop, "inject" hands the packet to RNS.
Verdict(raw) ==
  IF Decode(raw) = "not transport" THEN "skip"
  ELSE IF Decode(raw) = "broken" THEN "broken"
  ELSE IF canonicalAddr(raw.from) # PeerEmail THEN "skip"
  ELSE IF canonicalAddr(raw.to) # LocalEmail THEN "skip"
  ELSE "inject"
=============================================================================
