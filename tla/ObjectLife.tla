----------------------------- MODULE ObjectLife ------------------------------
(***************************************************************************)
(* What a subscriber of the monitors' events may rely on: an object is     *)
(* announced before it is confirmed, confirmed once, and reported lost     *)
(* only if it was confirmed, and once.  An object that was never confirmed *)
(* may disappear without a word and be announced again.                    *)
(***************************************************************************)
CONSTANT Objects

VARIABLE told   \* told[o]: the last thing the events said of the object o

(* What the subscriber makes of an event, after what it heard before.      *)
Heard(before, event) ==
  IF \/ event = "detected"  /\ before \in {"nothing", "detected", "lost"}
     \/ event = "confirmed" /\ before = "detected"
     \/ event = "lost"      /\ before = "confirmed"
  THEN event ELSE "confused"

Silence == [o \in Objects |-> "nothing"]

Init == told = Silence

(* One result may tell of several objects, and announce and confirm one.   *)
Tell == \E S \in SUBSET Objects :
          told' \in [Objects -> {"nothing", "detected", "confirmed", "lost"}]
            /\ \A o \in Objects :
                 IF o \in S
                   THEN \/ told'[o] = Heard(told[o], told'[o])
                        \/ told'[o] = Heard(Heard(told[o], "detected"), told'[o])
                   ELSE told'[o] = told[o]

(* A reset of the monitor begins a new stream, with identities of its own. *)
Restart == told' = Silence

Next == Tell \/ Restart

Spec == Init /\ [][Next]_told
=============================================================================
