---------------------------- MODULE LossyChannel ----------------------------
(***************************************************************************)
(* What every user of a LatestValueQueue relies on, whatever threads push  *)
(* and pop and whichever overflow policy is chosen: a channel that may lose *)
(* items but never invents, duplicates or reorders them.  An item is the   *)
(* rank at which it was put into the channel.                              *)
(***************************************************************************)
EXTENDS Naturals

VARIABLES sent,        \* how many items have been put into the channel
          pending,     \* the items that may still be received
          received     \* the last item received, 0 before the first

vars == <<sent, pending, received>>

Init == /\ sent = 0
        /\ pending = {}
        /\ received = 0

(* An item enters; any of the older ones may be lost to make room for it.  *)
Send == /\ sent' = sent + 1
        /\ \E kept \in SUBSET pending : pending' = kept \cup {sent + 1}
        /\ UNCHANGED received

(* An item leaves.  Everything older has been received or lost before, and *)
(* the receiver may ask for newer items to be lost with it.                *)
Receive == \E item \in pending :
             /\ received < item
             /\ received' = item
             /\ pending' \in SUBSET {p \in pending : p > item}
             /\ UNCHANGED sent

Lose == /\ pending' \in SUBSET pending
        /\ UNCHANGED <<sent, received>>

Next == Send \/ Receive \/ Lose

Spec == Init /\ [][Next]_vars
=============================================================================
