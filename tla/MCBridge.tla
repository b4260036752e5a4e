------------------------------ MODULE MCBridge ------------------------------
(* Ten seconds for the second goroutine, 60 for an IMAP operation: 1 to 6. *)
EXTENDS Bridge

Drain == 1
IO == 6
=============================================================================
