------------------------------- MODULE AutoPtz --------------------------------
(***************************************************************************)
(* control/AutoPtzController.cpp: chooses a tracked object and turns the   *)
(* camera after it.  Of the control worker it sees manualOverrideActive    *)
(* and whether a command was accepted: an operator may take the camera     *)
(* over between the look and the call.  Times are ages that stop at the    *)
(* limit they are compared with; speeds are left out, what is modelled of  *)
(* a move is whether one is needed.                                        *)
(***************************************************************************)
EXTENDS Integers, Sequences, FiniteSetsExt

CONSTANTS PriorityClasses,                \* a sequence, the first comes first
          SwitchMargin, TargetHold, LostTimeout, CommandInterval,
          DeadZone, Hysteresis, TargetSize, ZoomDeadBand, FrameSize

ASSUME PtzAssumption == /\ SwitchMargin \in Nat
                        /\ TargetHold \in Nat /\ LostTimeout \in Nat /\ CommandInterval \in Nat
                        /\ FrameSize \in Nat \ {0}

VARIABLES ptz,      \* target and times, moving_, panActive_, tiltActive_
          manual,   \* manualOverrideActive()
          camera    \* what the last accepted command left the camera doing

control == <<ptz, manual, camera>>

NoPtz == [target |-> 0, held |-> 0, unseen |-> 0, throttle |-> 0,
          moving |-> FALSE, pan |-> FALSE, tilt |-> FALSE]

PtzInit == ptz = NoPtz /\ manual = FALSE /\ camera = "still"

(* score(): the class first, then confidence and size, in tenths.          *)
PriorityBonus(d) ==
  LET places == {i \in DOMAIN PriorityClasses : PriorityClasses[i] = d.class}
  IN IF places = {} THEN 0 ELSE Len(PriorityClasses) + 1 - Min(places)
Score(d) == 100 * PriorityBonus(d) + d.confidence + (10 * d.box.size) \div FrameSize

Abs(n) == IF n < 0 THEN 0 - n ELSE n
Best(view) == CHOOSE i \in DOMAIN view :
                \A j \in DOMAIN view : \/ Score(view[j]) < Score(view[i])
                                       \/ Score(view[j]) = Score(view[i]) /\ i <= j

(* An axis that turns goes on until the error is well inside the dead zone. *)
Active(turning, place, size) ==
  Abs(2 * place + size - FrameSize)
     > IF turning THEN Max({0, DeadZone - Hysteresis}) ELSE DeadZone

Lost(p, here) == p.target # 0 /\ ~here /\ p.unseen >= LostTimeout

(* Plausible bug: a lost target is waited for without end.                 *)
WaitsOn(p, here) == p.target # 0 /\ ~here
Waits(p, here)   == p.target # 0 /\ ~here /\ p.unseen < LostTimeout

(* The target of this result: the present one, unless another is better by *)
(* the margin and the present one was held long enough.                    *)
Chosen(p, view) ==
  LET best == view[Best(view)]
      current == CHOOSE d \in {view[i] : i \in DOMAIN view} : d.id = p.target
  IN IF p.target = 0 THEN best
     ELSE IF p.held >= TargetHold /\ Score(best) > Score(current) + SwitchMargin THEN best
     ELSE current

Followed(p, d) == [p EXCEPT !.target = d.id, !.held = IF p.target = d.id THEN @ ELSE 0,
                            !.unseen = 0]

Aimed(p, d) == [p EXCEPT !.pan = Active(@, d.box.x, d.box.size),
                         !.tilt = Active(@, d.box.y, d.box.size),
                         !.throttle = CommandInterval]
NeedsMove(p, d) == p.pan \/ p.tilt \/ Abs(TargetSize - d.box.size) > ZoomDeadBand

(* enqueueAutomatic: the operator may come first, and keeps the camera.    *)
Enqueued(effect) == \/ camera' = effect /\ manual' = manual
                    \/ camera' = "manual" /\ manual' = TRUE

(* The command for the target d, after all that has been decided before.   *)
Command(p, d) ==
  IF p.throttle > 0 THEN ptz' = p /\ UNCHANGED <<manual, camera>>
  ELSE LET q == Aimed(p, d) IN
       IF NeedsMove(q, d)
         THEN /\ Enqueued("turning")
              /\ ptz' = [q EXCEPT !.moving = (camera' = "turning")]
       ELSE IF q.moving
         THEN Enqueued("still") /\ ptz' = [q EXCEPT !.moving = FALSE]
       ELSE ptz' = q /\ UNCHANGED <<manual, camera>>

(* The target is lost: Stop, and start afresh with what is in view.  The   *)
(* operator may come before the Stop or between it and the next move.      *)
Lose(view) ==
  IF view = <<>> THEN Enqueued("still") /\ ptz' = NoPtz
  ELSE LET d == view[Best(view)]
           q == Aimed(Followed(NoPtz, d), d)
       IN IF NeedsMove(q, d)
            THEN /\ Enqueued("turning")
                 /\ ptz' = [q EXCEPT !.moving = (camera' = "turning")]
            ELSE Enqueued("still") /\ ptz' = q

(* update() with the detections that carry a track id.                     *)
PtzUpdate(view) ==
  LET here == \E i \in DOMAIN view : view[i].id = ptz.target
  IN IF manual \/ Waits(ptz, here) THEN UNCHANGED control
     ELSE IF Lost(ptz, here) THEN Lose(view)
     ELSE IF view = <<>> THEN UNCHANGED control
     ELSE LET d == Chosen(ptz, view) IN Command(Followed(ptz, d), d)

(* reset() says nothing to the camera: one that turns goes on turning.     *)
PtzReset == /\ ptz' = NoPtz
            /\ camera' = IF camera = "turning" THEN "abandoned" ELSE camera
            /\ UNCHANGED manual

(* An operator's command is in front of the automatic ones and bars them.  *)
ManualCommand == manual' = TRUE /\ camera' = "manual" /\ UNCHANGED ptz
OverrideEnds  == manual /\ manual' = FALSE /\ UNCHANGED <<ptz, camera>>

Later(age, limit) == IF age < limit THEN age + 1 ELSE age
Sooner(wait) == IF wait > 0 THEN wait - 1 ELSE 0
Tick == /\ ptz' = IF ptz.target = 0 THEN [ptz EXCEPT !.throttle = Sooner(@)]
                  ELSE [ptz EXCEPT !.held = Later(@, TargetHold),
                                   !.unseen = Later(@, LostTimeout),
                                   !.throttle = Sooner(@)]
        /\ UNCHANGED <<manual, camera>>
-----------------------------------------------------------------------------
(* It does not turn for ever after an object that is gone.                 *)
TurningIsReleased == [](camera = "turning" => <>(camera # "turning" \/ ptz.unseen = 0))
=============================================================================
