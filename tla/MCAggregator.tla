---------------------------- MODULE MCAggregator ----------------------------
(* The worker and two goroutines of the handler. *)
EXTENDS Aggregator

CONSTANTS c1, c2, c3
MCCallers == {c1, c2, c3}
=============================================================================
