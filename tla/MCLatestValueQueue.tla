-------------------------- MODULE MCLatestValueQueue ------------------------
(* Two producers and three consumers: enough for a notification to reach   *)
(* the wrong one of two sleepers, and for one thread to overtake a woken   *)
(* one while another still sleeps.                                         *)
EXTENDS LatestValueQueue

CONSTANTS p1, p2, c1, c2, c3

MCProducers == {p1, p2}
MCConsumers == {c1, c2, c3}
=============================================================================
