----------------------------- MODULE ControlLife ------------------------------
(***************************************************************************)
(* What a camera session relies on when it starts and stops the worker of  *)
(* its camera's control: the worker is on from a start until a stop has    *)
(* joined its thread.  That thread may not hear of the stop; the stop then *)
(* waits for it, and the worker is lost, until something else wakes it.    *)
(***************************************************************************)
VARIABLE status      \* "off", "on" or "lost"

Init == status = "off"

Starts == status = "off" /\ status' = "on"

Stops == status = "on" /\ status' = "off"

Misses == status = "on" /\ status' = "lost"

Wakes == status = "lost" /\ status' = "on"

Next == Starts \/ Stops \/ Misses \/ Wakes

Spec == Init /\ [][Next]_status
=============================================================================
