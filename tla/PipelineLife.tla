----------------------------- MODULE PipelineLife -----------------------------
(***************************************************************************)
(* What the window relies on when it treats its pipeline as one of four    *)
(* states: a pipeline that runs is not started again before it has ended   *)
(* or been stopped, and one that comes to its end by itself first drains.  *)
(***************************************************************************)
VARIABLE status      \* "idle", "running", "ending" or "ended"

Init == status = "idle"

Starts == status \in {"idle", "ended"} /\ status' = "running"

(* The end of the stream, or a fatal error of the source.                  *)
Ends == status = "running" /\ status' = "ending"

Drains == status = "ending" /\ status' = "ended"

Stops == status' = "idle"

Next == Starts \/ Ends \/ Drains \/ Stops

Spec == Init /\ [][Next]_status
=============================================================================
