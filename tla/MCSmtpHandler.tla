--------------------------- MODULE MCSmtpHandler ---------------------------
(* Two concurrent packets at most. *)
EXTENDS SmtpHandler

CONSTANTS s1, s2, r1, r2
OneSender  == {s1}
TwoSenders == {s1, s2}
MCRecoverers == {r1, r2}
=============================================================================
