----------------------------- MODULE SessionLife ------------------------------
(***************************************************************************)
(* What the edge service relies on when it treats a camera session as one  *)
(* of three states: a session runs from a start until its source has ended *)
(* or it is stopped, and while it is stopped nobody takes a frame from it. *)
(* A frame taken before may still be in the inference worker's hand.       *)
(***************************************************************************)
VARIABLES status,    \* "stopped", "running" or "ended"
          inHand     \* whether the worker holds one of its frames

life == <<status, inHand>>

Init == status = "stopped" /\ inHand = FALSE

Starts == status' = "running" /\ UNCHANGED inHand

Ends == status = "running" /\ status' = "ended" /\ UNCHANGED inHand

Stops == status' = "stopped" /\ UNCHANGED inHand

Takes == /\ status # "stopped" /\ ~inHand
         /\ inHand' = TRUE /\ UNCHANGED status

(* The worker may have been the last to hold the session.                  *)
HandsOver == /\ inHand /\ inHand' = FALSE
             /\ status' \in {status, "stopped"}

Next == Starts \/ Ends \/ Stops \/ Takes \/ HandsOver

Spec == Init /\ [][Next]_life
=============================================================================
