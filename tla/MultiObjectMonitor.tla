-------------------------- MODULE MultiObjectMonitor --------------------------
(***************************************************************************)
(* core/monitoring/MultiObjectMonitor.cpp: the objects of one camera by    *)
(* their track id, and the events that tell of them.  An object is the id  *)
(* its tracker gave it; a result is the set of ids whose detections the    *)
(* policy accepts.  Counters stop at the limit they are compared with.     *)
(***************************************************************************)
EXTENDS Naturals

CONSTANTS Objects, ConfirmationFrames, LostFrames

ASSUME FramesAssumption == ConfirmationFrames \in Nat /\ LostFrames \in Nat

VARIABLES objects,  \* states_
          told      \* history: what a subscriber makes of the events

monitor == <<objects, told>>

Life == INSTANCE ObjectLife

(* The constructor takes no zero.                                          *)
ToConfirm == IF ConfirmationFrames = 0 THEN 1 ELSE ConfirmationFrames
ToLose    == IF LostFrames = 0 THEN 1 ELSE LostFrames

NoObjects == [o \in {} |-> <<>>]

MonitorInit == objects = NoObjects /\ told = Life!Silence

Known == DOMAIN objects

(* try_emplace, then the counters.                                         *)
Before(o) == IF o \in Known THEN objects[o]
             ELSE [state |-> "Candidate", observed |-> 0, missed |-> 0]

(* Plausible bug: a confirmed object is confirmed again.                   *)
ConfirmsAgain(o) == Before(o).observed + 1 >= ToConfirm
Confirms(o) == Before(o).state = "Candidate" /\ Before(o).observed + 1 >= ToConfirm

Observed(o) ==
  [state    |-> IF Confirms(o) THEN "Confirmed" ELSE Before(o).state,
   observed |-> IF Before(o).observed < ToConfirm THEN Before(o).observed + 1 ELSE ToConfirm,
   missed   |-> 0]

(* Of the objects not observed candidates are forgotten at once.           *)
Missed(seen) == {o \in Known \ seen : objects[o].state = "Confirmed"}
Given(seen)  == {o \in Missed(seen) : objects[o].missed + 1 >= ToLose}

(* Plausible bug: an object reported lost stays in the map.                *)
LostStays(seen) == Missed(seen)
StillKnown(seen) == Missed(seen) \ Given(seen)

(* The events about an object of the result: Detected, then Confirmed.     *)
Announced(o) == IF o \in Known THEN told[o] ELSE Life!Heard(told[o], "detected")
ToldOf(o) == IF Confirms(o) THEN Life!Heard(Announced(o), "confirmed") ELSE Announced(o)

MonitorUpdate(seen) ==
  /\ objects' = [o \in seen \cup StillKnown(seen) |->
                   IF o \in seen THEN Observed(o) ELSE [objects[o] EXCEPT !.missed = @ + 1]]
  /\ told' = [o \in Objects |-> IF o \in seen THEN ToldOf(o)
                                ELSE IF o \in Given(seen) THEN Life!Heard(told[o], "lost")
                                ELSE told[o]]

(* Nothing is reported of the objects forgotten here.                      *)
MonitorReset == objects' = NoObjects /\ told' = Life!Silence

MonitorNext == (\E seen \in SUBSET Objects : MonitorUpdate(seen)) \/ MonitorReset

MonitorSpec == MonitorInit /\ [][MonitorNext]_monitor
-----------------------------------------------------------------------------
(* The events are the whole truth: a subscriber holds an object for        *)
(* present exactly while the monitor does, although candidates disappear   *)
(* unreported and a track's id may come back after its object was lost.    *)
EventsTellPresence ==
  \A o \in Objects :
    told[o] = "confirmed" <=> o \in Known /\ objects[o].state = "Confirmed"

(* The stream of events follows the life of an object: update() confirms   *)
(* and loses an object once, whatever it sees and misses in between.       *)
ImplementsObjectLife == Life!Spec
=============================================================================
