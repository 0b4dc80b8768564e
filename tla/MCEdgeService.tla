---------------------------- MODULE MCEdgeService -----------------------------
(***************************************************************************)
(* Two cameras configured, a third object with the id of the first, two    *)
(* sinks and two operators.                                                *)
(***************************************************************************)
EXTENDS EdgeService, TLC

MCIdOf == [s \in Sessions |-> IF s = "c" THEN "B" ELSE "A"]
MCSessions == {"a1", "a2", "c"}
MCConfigured == {"a1", "c"}
Symmetry == Permutations(Operators) \cup Permutations(Sinks)
=============================================================================
