------------------------ MODULE MCInferenceScheduler -------------------------
(* An instance of InferenceScheduler for TLC: two cameras, one of which    *)
(* weighs twice as much as the other; the bounds are in the .cfg file.     *)
EXTENDS InferenceScheduler, TLC

CONSTANTS a, b

MCTwo == {a, b}
MCWeightTwo == (a :> 2) @@ (b :> 1)
=============================================================================
