---------------------------- MODULE MCConnection ----------------------------
(* A unit is five seconds. *)
EXTENDS Connection

MCSend == 6
MCDial == 6
MCIO == 12
=============================================================================
