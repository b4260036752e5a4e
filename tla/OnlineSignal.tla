---------------------------- MODULE OnlineSignal ----------------------------
(* What the aggregator of internal/online promises: the pipe interface is    *)
(* told the conjunction of the two health signals, with every change of one. *)

VARIABLES imap, smtp, pipe

sigvars == <<imap, smtp, pipe>>

Init == imap = FALSE /\ smtp = FALSE /\ pipe = FALSE

SetIMAP(v) == imap' = v /\ smtp' = smtp /\ pipe' = (v /\ smtp)

SetSMTP(v) == smtp' = v /\ imap' = imap /\ pipe' = (imap /\ v)

Next == \E v \in BOOLEAN : SetIMAP(v) \/ SetSMTP(v)

Spec == Init /\ [][Next]_sigvars
=============================================================================
