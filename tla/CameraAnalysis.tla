---------------------------- MODULE CameraAnalysis ----------------------------
(***************************************************************************)
(* What becomes of a result inside a camera session: processResult updates *)
(* the tracker, the monitor and the automatic control of the camera, one   *)
(* after the other under processingMutex_, and resetPerConnectionState     *)
(* resets them together.  CameraSession shows which results come here;     *)
(* this module shows what they do.                                         *)
(***************************************************************************)
EXTENDS ObjectTracking, MultiObjectMonitor, AutoPtz

CONSTANTS TargetClasses, MinimumConfidence,   \* of the monitor's policy
          Scenes                              \* the results that may come

(* The detector drops a box without extent.                                *)
Box       == [x : Int, y : Int, size : Nat \ {0}]
Detection == [class : Int, confidence : Nat, box : Box]

ASSUME ScenesAssumption == Scenes \subseteq Seq(Detection)
ASSUME ObjectsAssumption == IsFiniteSet(Objects) /\ Objects = 1..Cardinality(Objects)

VARIABLES tracks, nextId

vars == <<tracks, nextId, monitor, control>>

Init == /\ tracks = <<>> /\ nextId = 1
        /\ MonitorInit
        /\ PtzInit

(* ClassFilterMonitorPolicy::accepts                                       *)
Accepts(d) == /\ d.confidence >= MinimumConfidence
              /\ TargetClasses = {} \/ d.class \in TargetClasses

(* The detections with the ids the tracker gave them, where it did.        *)
WithIds(scene, labels) ==
  [i \in DOMAIN scene |-> [class |-> scene[i].class, box |-> scene[i].box,
                           confidence |-> scene[i].confidence, id |-> labels[i]]]
Tracked(detections) == Kept(detections, {i \in DOMAIN detections : detections[i].id # 0})

(* Plausible bug: a result without detections is not worth looking at.     *)
AnalyseNonEmpty(after, here) ==
  /\ tracks' = after.tracks /\ nextId' = after.nextId
  /\ IF here = <<>> THEN UNCHANGED <<monitor, control>>
     ELSE /\ MonitorUpdate({here[i].id : i \in {j \in DOMAIN here : Accepts(here[j])}})
          /\ PtzUpdate(here)

(* processResult: the tracker, the monitor, the camera control.            *)
Analyse(after, here) ==
  /\ tracks' = after.tracks /\ nextId' = after.nextId
  /\ MonitorUpdate({here[i].id : i \in {j \in DOMAIN here : Accepts(here[j])}})
  /\ PtzUpdate(here)

(* Ids come from the bounded set Objects: no scene that would need more.   *)
ProcessResult(scene) ==
  \E after \in {TrackerUpdate(tracks, nextId, scene)} :
    /\ after.nextId - 1 \in Objects \cup {0}
    /\ \E here \in {Tracked(WithIds(scene, after.labels))} : Analyse(after, here)

(* Plausible bug: the monitor is forgotten when a connection is lost.      *)
ResetKeepsMonitor == /\ tracks' = <<>> /\ nextId' = 1
                     /\ PtzReset
                     /\ UNCHANGED monitor

ResetPerConnectionState == /\ tracks' = <<>> /\ nextId' = 1
                           /\ MonitorReset
                           /\ PtzReset

Results == \E scene \in Scenes : ProcessResult(scene)

Next == \/ Results
        \/ ResetPerConnectionState
        \/ (ManualCommand \/ OverrideEnds \/ Tick) /\ UNCHANGED <<tracks, nextId, monitor>>

(* Results keep coming while the camera is connected and time passes; an   *)
(* operator need not act, and an override runs out.                        *)
FairSpec == Init /\ [][Next]_vars
              /\ WF_vars(Results)
              /\ WF_vars((Tick \/ OverrideEnds) /\ UNCHANGED <<tracks, nextId, monitor>>)
-----------------------------------------------------------------------------
(* The monitor never runs ahead of the tracker: an object it still holds   *)
(* has a track that was seen at least as recently, unless the tracker has  *)
(* given it up.  A new track can thus not be taken for an old object.      *)
MonitorFollowsTracker ==
  \A o \in Known : \/ \E i \in DOMAIN tracks : /\ tracks[i].id = o
                                               /\ tracks[i].lost <= objects[o].missed
                   \/ objects[o].missed > MaxLostFrames /\ o < nextId

(* A result gives no two detections the same id, whatever they overlap and *)
(* whichever came first: the monitor, which counts detections, counts an   *)
(* object once in a result and may be shown a set of ids.                  *)
LabelsAreUnique ==
  \A scene \in Scenes :
    LET labels == TrackerUpdate(tracks, nextId, scene).labels
    IN  \A i, j \in DOMAIN labels : labels[i] = labels[j] /\ labels[i] # 0 => i = j

(* A confirmed object that has left is reported lost, if it does not come  *)
(* back: the monitor counts the results without it, the empty ones too.    *)
LossIsReported ==
  \A o \in Objects : [](told[o] = "confirmed"
                          => <>(told[o] # "confirmed" \/ objects[o].missed = 0))
=============================================================================
