---------------------------- MODULE MCImapWorker ----------------------------
(* Small mailboxes for TLC: one message per verdict. *)
EXTENDS ImapWorker

CONSTANTS peer, local, other

MCUsers   == {peer, local, other}
MCFolders == {"INBOX"}

\* The peer's envelope, as its bridge sent it.
Valid == Encode(peer, local)

\* Ordinary mail.
Regular == [Valid EXCEPT !.marker = FALSE, !.contentType = "other", !.from = Bare(other)]

\* The peer's envelope with a body that does not decode.
Corrupt == [Valid EXCEPT !.body = "undecodable"]

\* The same from another sender.
ForeignCorrupt == [Corrupt EXCEPT !.from = Bare(other)]

MailValidRegularCorrupt == {Valid, Regular, Corrupt}
MailValidCorrupt        == {Valid, Corrupt}
MailValidRegular        == {Valid, Regular}
MailValid               == {Valid}
MailForeign             == {Valid, ForeignCorrupt}

CapsAll  == {"IDLE", "UIDPLUS", "MOVE"}
CapsIdle == {"IDLE"}
=============================================================================
