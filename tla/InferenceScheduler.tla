------------------------- MODULE InferenceScheduler --------------------------
(***************************************************************************)
(* application/InferenceScheduler.cpp, the weighted round robin over the   *)
(* cameras, and the loop of application/InferenceService.cpp that draws    *)
(* from it.  The capture thread of a camera pushes a frame and then calls  *)
(* notifyFrameAvailable; the inference worker looks through the cameras    *)
(* without holding the scheduler's mutex and then waits, so a frame may    *)
(* arrive behind its back.                                                 *)
(*                                                                         *)
(* `changed` stands for version_ # observedVersion.  A camera's queue is   *)
(* reduced to whether a frame waits in it (the newest one is taken, with   *)
(* the others), its throttle to whether nextInferenceAt_ is still to come. *)
(***************************************************************************)
EXTENDS LatestValueQueueOps, FiniteSets, SequencesExt

CONSTANTS Cameras,
          Weight,      \* the priority of each camera, clamped to 1..16
          MaxChanges,  \* bounds of the model: cameras added and removed,
          MaxStarts    \* calls of InferenceService::start

ASSUME WeightAssumption == Weight \in [Cameras -> 1..16]
ASSUME BoundsAssumption == MaxChanges \in Nat /\ MaxStarts \in Nat

VARIABLES
  running, cameras, cursor, changed,  \* the scheduler, under its mutex
  active, api, restarting,            \* the service: running_, where start or stop is
  pending, notifying, throttled,      \* per camera: a frame waits; its thread is about
                                      \* to notify; the cameras taken from too recently
  worker,                             \* the inference worker in next(): its locals
  changes, starts,                    \* history: the bounded calls
  passed                              \* history: how often a camera was passed over

scheduler == <<running, cameras, cursor, changed>>
service   == <<active, api, restarting, starts>>
sources   == <<pending, notifying, throttled>>
vars == <<scheduler, service, sources, worker, changes, passed>>

NoWorker == [at |-> "none", slots |-> <<>>, start |-> 0, offset |-> 0, early |-> {},
             awaited |-> {}]

Init == /\ running = FALSE /\ cameras = <<>> /\ cursor = 0 /\ changed = FALSE
        /\ active = FALSE /\ api = "idle" /\ restarting = FALSE
        /\ pending = {} /\ notifying = {} /\ throttled = {}
        /\ worker = NoWorker
        /\ changes = 0 /\ starts = 0 /\ passed = [c \in Cameras |-> 0]

Registered == ToSet(cameras)

(* A camera appears as often as its priority says.                         *)
Slots(list) == FlattenSeq([i \in DOMAIN list |-> [slot \in 1..Weight[list[i]] |-> list[i]]])

(* ++version_ and notify.  There is one waiter at most.                    *)
Bump == /\ changed' = TRUE
        /\ worker' = IF worker.at = "asleep" THEN [worker EXCEPT !.at = "wait"] ELSE worker
-----------------------------------------------------------------------------
(* The cameras.                                                            *)

Unpassed == [c \in Cameras |-> 0]

AddCamera(c) == /\ changes < MaxChanges
                /\ c \notin Registered
                /\ cameras' = Append(cameras, c)
                /\ throttled' = throttled \ {c}
                /\ changes' = changes + 1 /\ passed' = Unpassed
                /\ Bump
                /\ UNCHANGED <<running, cursor, service, pending, notifying>>

(* CameraManager::removeCamera has stopped the session: its thread has     *)
(* been joined and its queue is empty.                                     *)
RemoveCamera(c) == /\ changes < MaxChanges
                   /\ c \in Registered
                   /\ c \notin pending \cup notifying
                   /\ cameras' = Kept(cameras, {i \in DOMAIN cameras : cameras[i] # c})
                   /\ cursor' = 0
                   /\ changes' = changes + 1 /\ passed' = Unpassed
                   /\ Bump
                   /\ UNCHANGED <<running, service, sources>>

(* PushFrame of CameraSession, and the notification after it.              *)
PushFrame(c) == /\ c \in Registered \ notifying
                /\ pending' = pending \cup {c}
                /\ notifying' = notifying \cup {c}
                /\ UNCHANGED <<scheduler, service, throttled, worker, changes, passed>>

NotifyFrameAvailable(c) == /\ c \in notifying
                           /\ notifying' = notifying \ {c}
                           /\ Bump
                           /\ UNCHANGED <<running, cameras, cursor, service, pending,
                                          throttled, changes, passed>>

(* A reconnect or a stop empties the queue.                                *)
ClearFrames(c) == /\ c \in pending \ notifying
                  /\ pending' = pending \ {c}
                  /\ passed' = [passed EXCEPT ![c] = 0]
                  /\ UNCHANGED <<scheduler, service, notifying, throttled, worker, changes>>

NextInferenceReached(c) == /\ c \in throttled
                           /\ throttled' = throttled \ {c}
                           /\ UNCHANGED <<scheduler, service, pending, notifying, worker,
                                          changes, passed>>
-----------------------------------------------------------------------------
(* InferenceService::start and stop, called by one client.                 *)

ServiceStart == /\ api = "idle"
                /\ starts < MaxStarts
                /\ starts' = starts + 1
                /\ restarting' = (worker.at # "none")
                /\ api' = IF restarting' THEN "stop" ELSE "start"
                /\ UNCHANGED <<scheduler, active, worker>>

SchedulerStart == /\ api = "start"
                  /\ running' = TRUE
                  /\ Bump
                  /\ api' = "spawn"
                  /\ UNCHANGED <<cameras, cursor, active, restarting, starts>>

(* The constructor of std::thread may throw.                               *)
Spawn == /\ api = "spawn"
         /\ \/ /\ active' = TRUE
               /\ worker' = [NoWorker EXCEPT !.at = "next"]
               /\ UNCHANGED <<running, changed>>
            \/ /\ running' = FALSE
               /\ Bump
               /\ UNCHANGED active
         /\ api' = "idle"
         /\ UNCHANGED <<cameras, cursor, restarting, starts>>

ServiceStop == /\ \/ api = "idle" /\ restarting' = FALSE
                  \/ api = "stop" /\ UNCHANGED restarting
               /\ active \/ worker.at # "none"
               /\ active' = FALSE
               /\ api' = "stopScheduler"
               /\ UNCHANGED <<scheduler, starts, worker>>

(* Plausible bug: the scheduler is not told to stop.                       *)
StopForgotten == /\ api = "stopScheduler"
                 /\ api' = "join"
                 /\ UNCHANGED <<scheduler, active, restarting, starts, worker>>

SchedulerStop == /\ api = "stopScheduler"
                 /\ running' = FALSE
                 /\ Bump
                 /\ api' = "join"
                 /\ UNCHANGED <<cameras, cursor, active, restarting, starts>>

Join == /\ api = "join"
        /\ worker.at = "ended"
        /\ worker' = NoWorker
        /\ api' = IF restarting THEN "start" ELSE "idle"
        /\ restarting' = FALSE
        /\ UNCHANGED <<scheduler, active, starts>>

ServiceUnchanged == UNCHANGED <<sources, changes, passed>>

ServiceStep == /\ \/ SchedulerStart \/ Spawn \/ SchedulerStop \/ Join
                  \/ api = "stop" /\ ServiceStop
               /\ ServiceUnchanged

ServiceCall == /\ ServiceStart \/ (api = "idle" /\ ServiceStop)
               /\ ServiceUnchanged
-----------------------------------------------------------------------------
(* next(), called by the inference worker.                                 *)

At(point) == worker.at = point
Goto(point) == worker' = [worker EXCEPT !.at = point]

(* A camera a frame could be taken from.                                   *)
Ready(c) == c \in (Registered \cap pending) \ throttled

NextStopped == /\ At("next")
               /\ ~running
               /\ Goto("ended")
               /\ UNCHANGED <<scheduler, pending, throttled, passed>>

NextWithoutCameras == /\ At("next")
                      /\ running /\ cameras = <<>>
                      /\ changed' = FALSE
                      /\ worker' = [worker EXCEPT !.at = "asleep", !.awaited = {}]
                      /\ UNCHANGED <<running, cameras, cursor, pending, throttled, passed>>

(* The slots, the cursor, the version and the time are read.               *)
NextBegins == /\ At("next")
              /\ running /\ cameras # <<>>
              /\ changed' = FALSE
              /\ cursor' = cursor % Len(Slots(cameras))
              /\ worker' = [at |-> "scan", slots |-> Slots(cameras), start |-> cursor',
                            offset |-> 0, early |-> throttled, awaited |-> {}]
              /\ UNCHANGED <<running, cameras, pending, throttled, passed>>

Index == (worker.start + worker.offset) % Len(worker.slots)
Camera == worker.slots[Index + 1]
Scanning == At("scan") /\ worker.offset < Len(worker.slots)

(* takeForInference: throttled at the time read before, or nothing there.  *)
TakeNothing == /\ Scanning
               /\ Camera \in worker.early \/ Camera \notin pending
               /\ Goto("look")
               /\ UNCHANGED <<scheduler, pending, throttled, passed>>

(* The newest frame is too old: it is gone and the next camera is tried.   *)
TakeStale == /\ Scanning
             /\ Camera \in pending \ worker.early
             /\ pending' = pending \ {Camera}
             /\ passed' = [passed EXCEPT ![Camera] = 0]
             /\ Goto("look")
             /\ UNCHANGED <<scheduler, throttled>>

Take == /\ Scanning
        /\ Camera \in pending \ worker.early
        /\ pending' = pending \ {Camera}
        /\ throttled' = throttled \cup {Camera}
        /\ passed' = [c \in Cameras |->
                        IF c = Camera THEN 0
                        ELSE IF Ready(c) /\ worker.slots = Slots(cameras) THEN passed[c] + 1
                        ELSE passed[c]]
        /\ Goto("took")
        /\ UNCHANGED scheduler

(* Plausible bug: the camera that was served stays at the cursor.          *)
CursorStays == /\ At("took")
               /\ cursor' = Index
               /\ Goto("infer")
               /\ UNCHANGED <<running, cameras, changed, pending, throttled, passed>>

MoveCursor == /\ At("took")
              /\ cursor' = (Index + 1) % Len(worker.slots)
              /\ Goto("infer")
              /\ UNCHANGED <<running, cameras, changed, pending, throttled, passed>>

(* Plausible bug: a frame that is only throttled is not waited for.        *)
LookAway == /\ At("look")
            /\ worker' = [worker EXCEPT !.at = "scan", !.offset = @ + 1]
            /\ UNCHANGED <<scheduler, pending, throttled, passed>>

(* hasPendingFrame and nextInferenceEligibleAt.                            *)
LookPending == /\ At("look")
               /\ worker' = [worker EXCEPT !.at = "scan", !.offset = @ + 1,
                                           !.awaited = @ \cup ({Camera} \cap pending)]
               /\ UNCHANGED <<scheduler, pending, throttled, passed>>

(* Every camera has been looked at.                                        *)
ScanEnds == /\ At("scan") /\ worker.offset = Len(worker.slots)
            /\ Goto("wait")
            /\ UNCHANGED <<scheduler, pending, throttled, passed>>

(* Plausible bug: the version is observed when the wait begins.            *)
SleepUnconditionally == /\ At("wait")
                        /\ Goto(IF running THEN "asleep" ELSE "ended")
                        /\ UNCHANGED <<scheduler, pending, throttled, passed>>

(* The predicate of the wait.                                              *)
Wait == /\ At("wait")
        /\ Goto(IF ~running THEN "ended" ELSE IF changed THEN "next" ELSE "asleep")
        /\ UNCHANGED <<scheduler, pending, throttled, passed>>

(* wait_until(nextWake): a camera seen pending may be taken from again.    *)
TimedWaitEnds == /\ At("asleep")
                 /\ worker.awaited \ throttled # {}
                 /\ Goto(IF running THEN "next" ELSE "ended")
                 /\ UNCHANGED <<scheduler, pending, throttled, passed>>

(* run(): detect and everything after it.                                  *)
Infer == /\ At("infer")
         /\ Goto(IF active THEN "next" ELSE "ended")
         /\ UNCHANGED <<scheduler, pending, throttled, passed>>

WorkerStep == /\ \/ NextStopped \/ NextWithoutCameras \/ NextBegins
                 \/ TakeNothing \/ TakeStale \/ Take \/ MoveCursor
                 \/ LookPending \/ ScanEnds \/ Wait \/ TimedWaitEnds \/ Infer
              /\ UNCHANGED <<service, notifying, changes>>
-----------------------------------------------------------------------------
Next == \/ ServiceCall \/ ServiceStep \/ WorkerStep
        \/ \E c \in Cameras : \/ AddCamera(c) \/ RemoveCamera(c)
                              \/ PushFrame(c) \/ NotifyFrameAvailable(c)
                              \/ ClearFrames(c) \/ NextInferenceReached(c)

Spec == Init /\ [][Next]_vars

(* The threads run and time passes; no camera has to deliver anything.     *)
FairSpec == /\ Spec
            /\ WF_vars(ServiceStep) /\ WF_vars(WorkerStep)
            /\ \A c \in Cameras : /\ WF_vars(NotifyFrameAvailable(c))
                                  /\ WF_vars(NextInferenceReached(c))
-----------------------------------------------------------------------------
(* The worker does not sleep on a frame: one that waits in a queue has its *)
(* notification still to come, or the worker knows when to try again.      *)
(* Nor does it sleep on a scheduler that has been stopped.                 *)
NoFrameStranded ==
  At("asleep") => /\ running /\ ~changed
                  /\ Registered \cap pending \subseteq notifying \cup worker.awaited

(* Weighted round robin: a camera whose frame could be taken is passed     *)
(* over at most once for every slot of the others, counted from the last   *)
(* change of the set of cameras on.                                        *)
BoundedBypass == \A c \in Registered :
                   passed[c] <= Len(Slots(cameras)) - Weight[c]

(* Every frame of a registered camera is taken in the end (or the queue it *)
(* waits in is cleared), however many frames the other cameras deliver.    *)
EveryFrameIsTaken == \A c \in Cameras :
                       c \in pending /\ active ~> c \notin pending \/ ~active

(* InferenceService::start and stop return.                                *)
ServiceReturns == []<>(api = "idle")
=============================================================================
