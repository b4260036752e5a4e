----------------------------- MODULE MCImapConn -----------------------------
(* A unit is 20 seconds. *)
EXTENDS ImapConn

MCIO == 3
MCIdle == 90
MCRestart == 75
MCErrors == 3
=============================================================================
