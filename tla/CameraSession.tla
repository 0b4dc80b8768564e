---------------------------- MODULE CameraSession ----------------------------
(***************************************************************************)
(* application/CameraSession.cpp: one camera, from the source it reads to  *)
(* the tracker its results end in.  Four threads meet here:                *)
(*                                                                         *)
(*   api       start, stop and restart, called by one client at a time     *)
(*   capture   captureLoop: opens and reads the source, reconnects         *)
(*   worker    the inference worker: takeForInference, detect,             *)
(*             recordInferenceCompleted, ResultRouter::enqueue             *)
(*   delivery  the router's thread: pop, processResult                     *)
(*                                                                         *)
(* They share atomics (running_, state_, generation_) without a common     *)
(* lock, so each access that another thread can see is a step of its own.  *)
(* The generation stamped on a frame is what keeps the results of one      *)
(* connection out of the tracker of the next.                              *)
(*                                                                         *)
(* A frame is its id, its stamp and the connection it was read from; the   *)
(* tracker and the monitor, always reset and updated together, are the set *)
(* of frames whose results they hold.  Times are abstracted: a timed wait  *)
(* may end at any moment, a throttled camera may be taken from or not.     *)
(* The worker of the camera's control, started and stopped on the way, is  *)
(* what ControlLife says of it.                                            *)
(***************************************************************************)
EXTENDS LatestValueQueueOps, FiniteSets

CONSTANTS QueueSize,              \* capacity of frameQueue_
          ResultCapacity,         \* capacity of the router's queue
          TemporaryFailureLimit,  \* 5 in captureLoop
          Controls,               \* "none" and "off": cameras without and with a control
          MaxStarts, MaxOpens,    \* bounds of the model: calls of start,
          MaxFrames               \* successful opens, frames read

ASSUME QueueSizeAssumption == QueueSize \in Nat \ {0}
ASSUME ResultCapacityAssumption == ResultCapacity \in Nat \ {0}
ASSUME TemporaryFailureLimitAssumption == TemporaryFailureLimit \in Nat \ {0}
ASSUME ControlsAssumption == Controls \subseteq {"none", "off"}
ASSUME BoundsAssumption == MaxStarts \in Nat /\ MaxOpens \in Nat /\ MaxFrames \in Nat

VARIABLES
  running, state, generation,  \* the atomics
  queue, queueClosed,          \* frameQueue_
  initial,                     \* outcome of the first open of this start
  control,                     \* controlWorker_: "none", "off", "on", or "lost" when a
                               \* stop waits for a thread that did not hear of it
  tracker, processing,         \* tracker_ and monitor_; who holds processingMutex_
  metrics,                     \* the counters under metricsMutex_
  nextFrameId,
  api, restarting,             \* where the api thread is; start follows the stop
  capture,                     \* captureLoop: its program point and its locals
  worker, delivery,            \* program point and the frame in hand
  results,                     \* the router's queue
  starts, opens,               \* history: starts and opens
  advanced,                    \* history: the generation the present stop() advanced to,
  retired                      \* and that of the last one that has reset the tracker

atomics == <<running, state, generation>>
frames  == <<queue, queueClosed>>
history == <<starts, advanced, retired>>
stages  == <<worker, delivery, results>>
vars == <<atomics, frames, initial, control, tracker, processing, metrics, nextFrameId,
          api, restarting, capture, stages, opens, history>>

Frame == [id : Nat, gen : Nat, open : Nat]
NoFrame == [id |-> 0, gen |-> 0, open |-> 0]
NoCapture == [at |-> "none", connectedBefore |-> FALSE, failures |-> 0, frame |-> NoFrame,
              accepted |-> FALSE, dropped |-> 0]
IdleWorker == [at |-> "idle", frame |-> NoFrame, older |-> 0]
IdleDelivery == [at |-> "idle", frame |-> NoFrame]
NoMetrics == [captured |-> 0, dropped |-> 0, skipped |-> 0, stale |-> 0,
              scheduled |-> 0, inferred |-> 0]

Init == /\ running = FALSE /\ state = "Stopped" /\ generation = 0
        /\ queue = <<>> /\ queueClosed = FALSE /\ initial = "pending"
        /\ control \in Controls
        /\ tracker = {} /\ processing = "free"
        /\ metrics = NoMetrics /\ nextFrameId = 1
        /\ api = "idle" /\ restarting = FALSE /\ capture = NoCapture
        /\ worker = IdleWorker /\ delivery = IdleDelivery /\ results = <<>>
        /\ starts = 0 /\ opens = 0 /\ advanced = 0 /\ retired = 0
-----------------------------------------------------------------------------
(* start().  ApiStep, below, adds what no step of start or stop changes.   *)

Joinable == capture.at # "none"

(* What only some of the steps of start and stop change.                   *)
session == <<frames, initial, tracker, metrics>>

Start == /\ api = "idle"
         /\ starts < MaxStarts
         /\ starts' = starts + 1
         /\ api' = IF Joinable THEN "stop" ELSE "resetQueue"
         /\ restarting' = Joinable
         /\ UNCHANGED <<atomics, session, control, capture, advanced, retired>>

StartResetQueue == /\ api = "resetQueue"
                   /\ queue' = <<>> /\ queueClosed' = FALSE
                   /\ initial' = "pending"
                   /\ api' = "resetTracker"
                   /\ UNCHANGED <<atomics, tracker, metrics, control, capture, restarting,
                                  history>>

StartResetTracker == /\ api = "resetTracker"
                     /\ processing = "free"
                     /\ tracker' = {}
                     /\ api' = "resetMetrics"
                     /\ UNCHANGED <<atomics, frames, initial, metrics, control, capture,
                                    restarting, history>>

StartResetMetrics == /\ api = "resetMetrics"
                     /\ metrics' = NoMetrics
                     /\ api' = "newGeneration"
                     /\ UNCHANGED <<atomics, frames, initial, tracker, control, capture,
                                    restarting, history>>

(* Only from here on are the results of the time before refused.           *)
StartNewGeneration == /\ api = "newGeneration"
                      /\ generation' = generation + 1
                      /\ api' = "announce"
                      /\ UNCHANGED <<running, state, session, control, capture, restarting,
                                     history>>

StartAnnounce == /\ api = "announce"
                 /\ state' = "Starting"
                 /\ api' = "run"
                 /\ UNCHANGED <<running, generation, session, control, capture, restarting,
                                history>>

StartRun == /\ api = "run"
            /\ running' = TRUE
            /\ api' = "control"
            /\ UNCHANGED <<state, generation, session, control, capture, restarting, history>>

(* The adapter may fail to open; the session goes on without it.           *)
StartControl == /\ api = "control"
                /\ control' \in IF control = "none" THEN {"none"} ELSE {"off", "on"}
                /\ api' = "spawn"
                /\ UNCHANGED <<atomics, session, capture, restarting, history>>

StartSpawn == /\ api = "spawn"
              /\ capture' = [NoCapture EXCEPT !.at = "loop"]
              /\ api' = "idle"
              /\ UNCHANGED <<atomics, session, control, restarting, history>>

(* Plausible bug: the control worker is left running.                      *)
SpawnFailsUndone == /\ api = "spawn"
                    /\ running' = FALSE
                    /\ api' = "fault"
                    /\ UNCHANGED <<state, generation, session, control, capture, restarting,
                                   history>>

(* The constructor of std::thread may throw.                               *)
StartSpawnFails == /\ api = "spawn"
                   /\ running' = FALSE
                   /\ api' = "abandon"
                   /\ UNCHANGED <<state, generation, session, control, capture, restarting,
                                  history>>

StartFault == /\ api = "fault"
              /\ state' = "Faulted"
              /\ api' = "idle"
              /\ UNCHANGED <<running, generation, session, control, capture, restarting,
                             history>>
-----------------------------------------------------------------------------
(* stop()                                                                  *)

CallsStop == \/ api = "idle" /\ restarting' = FALSE
             \/ api = "stop" /\ UNCHANGED restarting

(* Plausible bug: running_ is read and not exchanged.                      *)
StopLeavesRunning == /\ CallsStop
                     /\ running \/ Joinable
                     /\ api' = "stopping"
                     /\ UNCHANGED <<atomics, session, control, capture, history>>

(* running_.exchange(false) || joinable(); otherwise stop returns at once. *)
Stop == /\ CallsStop
        /\ running \/ Joinable
        /\ running' = FALSE
        /\ api' = "stopping"
        /\ UNCHANGED <<state, generation, session, control, capture, history>>

StopInactive == /\ api = "idle"
                /\ ~running /\ ~Joinable
                /\ UNCHANGED vars

StopState == /\ api = "stopping"
             /\ state' = "Stopping"
             /\ api' = "retire"
             /\ UNCHANGED <<running, generation, session, control, capture, restarting,
                            history>>

(* Plausible bug: stop leaves the generation as it is.                     *)
StopKeepsGeneration == /\ api = "retire"
                       /\ api' = "closeQueue"
                       /\ UNCHANGED <<atomics, session, control, capture, restarting, history>>

(* Every result still in flight is out of date from here on.               *)
StopRetire == /\ api = "retire"
              /\ generation' = generation + 1
              /\ advanced' = generation + 1
              /\ api' = "closeQueue"
              /\ UNCHANGED <<running, state, session, control, capture, restarting, starts,
                             retired>>

StopCloseQueue == /\ api = "closeQueue"
                  /\ queueClosed' = TRUE
                  /\ api' = "stopControl"
                  /\ UNCHANGED <<atomics, queue, initial, tracker, metrics, control, capture,
                                 restarting, history>>

(* controlWorker_->stop(), in stop() and where start() fails: it joins a   *)
(* thread that its notification may not have reached.                      *)
StopControl == /\ api \in {"stopControl", "abandon"}
               /\ control # "lost"
               /\ control' = IF control = "on" THEN "off" ELSE control
               /\ api' = IF api = "abandon" THEN "fault" ELSE "join"
               /\ UNCHANGED <<atomics, session, capture, restarting, history>>

StopControlUnheard == /\ api \in {"stopControl", "abandon"}
                      /\ control = "on"
                      /\ control' = "lost"
                      /\ UNCHANGED <<atomics, session, capture, api, restarting, history>>

(* Nobody sends this wake-up: see CameraControlWorker.                     *)
ControlWakes == /\ control = "lost"
                /\ control' = "on"
                /\ UNCHANGED <<atomics, session, capture, api, restarting, history>>

StopJoin == /\ api = "join"
            /\ capture.at = "ended"
            /\ capture' = NoCapture
            /\ api' = "clearQueue"
            /\ UNCHANGED <<atomics, session, control, restarting, history>>

StopClearQueue == /\ api = "clearQueue"
                  /\ queue' = <<>>
                  /\ api' = "clearTracker"
                  /\ UNCHANGED <<atomics, queueClosed, initial, tracker, metrics, control,
                                 capture, restarting, history>>

StopClearTracker == /\ api = "clearTracker"
                    /\ processing = "free"
                    /\ tracker' = {}
                    /\ retired' = advanced /\ advanced' = 0
                    /\ api' = "stopped"
                    /\ UNCHANGED <<atomics, frames, initial, metrics, control, capture,
                                   restarting, starts>>

StopDone == /\ api = "stopped"
            /\ state' = "Stopped"
            /\ api' = IF restarting THEN "resetQueue" ELSE "idle"
            /\ restarting' = FALSE
            /\ UNCHANGED <<running, generation, session, control, capture, history>>

ApiUnchanged == UNCHANGED <<processing, nextFrameId, stages, opens>>

ApiStep == /\ \/ StartResetQueue \/ StartResetTracker \/ StartResetMetrics
              \/ StartNewGeneration \/ StartAnnounce \/ StartRun \/ StartControl
              \/ StartSpawn \/ StartSpawnFails \/ StartFault
              \/ StopState \/ StopRetire \/ StopCloseQueue \/ StopControl
              \/ StopControlUnheard \/ StopJoin
              \/ StopClearQueue \/ StopClearTracker \/ StopDone
              \/ api = "stop" /\ Stop
           /\ ApiUnchanged

ApiCall == \/ (Start \/ (api = "idle" /\ Stop)) /\ ApiUnchanged
           \/ StopInactive
-----------------------------------------------------------------------------
(* captureLoop(): connecting.  CaptureStep adds what it never changes.     *)

At(point) == capture.at = point
Goto(point) == capture' = [capture EXCEPT !.at = point]

(* What only some of the steps of the loop change.                         *)
shared == <<queue, initial, tracker, metrics, nextFrameId, opens>>

CaptureLoop == /\ At("loop")
               /\ Goto(IF running THEN "mark" ELSE "exit")
               /\ UNCHANGED <<atomics, shared>>

CaptureMark == /\ At("mark")
               /\ state' = IF capture.connectedBefore THEN "Reconnecting" ELSE "Starting"
               /\ Goto("open")
               /\ UNCHANGED <<running, generation, shared>>

(* reportInitialConnection: only the first attempt of a start is reported. *)
Report(outcome) == initial' = IF initial = "pending" THEN outcome ELSE initial

CaptureOpenFails == /\ At("open")
                    /\ Report("failed")
                    /\ Goto("disconnected")
                    /\ UNCHANGED <<atomics, queue, tracker, metrics, nextFrameId, opens>>

CaptureOpens == /\ At("open")
                /\ opens < MaxOpens
                /\ opens' = opens + 1
                /\ Report("connected")
                /\ Goto(IF capture.connectedBefore THEN "resetGeneration" ELSE "online")
                /\ UNCHANGED <<atomics, queue, tracker, metrics, nextFrameId>>

CaptureOnline == /\ At("online")
                 /\ state' = "Online"
                 /\ capture' = [capture EXCEPT !.at = "next", !.connectedBefore = TRUE,
                                               !.failures = 0]
                 /\ UNCHANGED <<running, generation, shared>>

CaptureDisconnected == /\ At("disconnected")
                       /\ state' = "Disconnected"
                       /\ Goto("backOff")
                       /\ UNCHANGED <<running, generation, shared>>

(* waitFor(reconnectDelay) is true only when the session is being stopped. *)
CaptureBackOff == /\ At("backOff")
                  /\ IF running
                       THEN capture' = [capture EXCEPT !.at = "loop", !.connectedBefore = TRUE]
                       ELSE Goto("exit")
                  /\ UNCHANGED <<atomics, shared>>
-----------------------------------------------------------------------------
(* resetPerConnectionState(), called when the connection is lost and again *)
(* when the source has been reopened.                                      *)

ResetGeneration == /\ At("resetGeneration") \/ At("lostGeneration")
                   /\ generation' = generation + 1
                   /\ Goto(IF At("resetGeneration") THEN "resetQueue" ELSE "lostQueue")
                   /\ UNCHANGED <<running, state, shared>>

ResetQueue == /\ At("resetQueue") \/ At("lostQueue")
              /\ queue' = <<>>
              /\ Goto(IF At("resetQueue") THEN "resetTracker" ELSE "lostTracker")
              /\ UNCHANGED <<atomics, initial, tracker, metrics, nextFrameId, opens>>

ResetTracker == /\ At("resetTracker") \/ At("lostTracker")
                /\ processing = "free"
                /\ tracker' = {}
                /\ Goto(IF At("resetTracker") THEN "online" ELSE "disconnected")
                /\ UNCHANGED <<atomics, queue, initial, metrics, nextFrameId, opens>>
-----------------------------------------------------------------------------
(* captureLoop(): reading                                                  *)

CaptureNext == /\ At("next")
               /\ Goto(IF running THEN "read" ELSE "close")
               /\ UNCHANGED <<atomics, shared>>

ReadReady == /\ At("read")
             /\ nextFrameId <= MaxFrames
             /\ state' = "Online"
             /\ capture' = [capture EXCEPT
                              !.at = "stamp", !.failures = 0,
                              !.frame = [id |-> nextFrameId, gen |-> 0, open |-> opens]]
             /\ nextFrameId' = nextFrameId + 1
             /\ UNCHANGED <<running, generation, queue, initial, tracker, metrics, opens>>

ReadTemporaryError ==
  /\ At("read")
  /\ state' = "Degraded"
  /\ capture' = [capture EXCEPT
                   !.at = IF capture.failures + 1 >= TemporaryFailureLimit
                            THEN "close" ELSE "next",
                   !.failures = capture.failures + 1]
  /\ UNCHANGED <<running, generation, shared>>

ReadEndOfStream == /\ At("read")
                   /\ running' = FALSE
                   /\ Goto("close")
                   /\ UNCHANGED <<state, generation, shared>>

(* Plausible bug: a fatal error ends the thread and leaves running_ set.   *)
FatalEndsThread == /\ At("read")
                   /\ Goto("exit")
                   /\ UNCHANGED <<atomics, shared>>

ReadFatalError == /\ At("read")
                  /\ Goto("close")
                  /\ UNCHANGED <<atomics, shared>>

(* const auto frameGeneration = generation_.load()                         *)
Stamp == /\ At("stamp")
         /\ capture' = [capture EXCEPT !.at = "push", !.frame.gen = generation]
         /\ UNCHANGED <<atomics, shared>>

PushFrame == /\ At("push")
             /\ capture' = [capture EXCEPT
                              !.at = "count", !.frame = NoFrame,
                              !.accepted = ~queueClosed,
                              !.dropped = IF queueClosed THEN 0 ELSE Dropped(queue, QueueSize)]
             /\ queue' = IF queueClosed THEN queue
                         ELSE PushLatest(queue, capture.frame, QueueSize)
             /\ UNCHANGED <<atomics, initial, tracker, metrics, nextFrameId, opens>>

CountFrame == /\ At("count")
              /\ metrics' = [metrics EXCEPT !.captured = @ + 1,
                                            !.dropped = @ + capture.dropped]
              /\ capture' = [capture EXCEPT !.at = IF capture.accepted THEN "next" ELSE "close",
                                            !.accepted = FALSE, !.dropped = 0]
              /\ UNCHANGED <<atomics, queue, initial, tracker, nextFrameId, opens>>

CaptureClose == /\ At("close")
                /\ Goto(IF running THEN "lostGeneration" ELSE "exit")
                /\ UNCHANGED <<atomics, shared>>

(* Plausible bug: the thread leaves the last state behind it.              *)
ExitKeepsState == /\ At("exit")
                  /\ Goto("ended")
                  /\ UNCHANGED <<atomics, shared>>

(* The state is Stopped at the end, unless a stop() is seen under way.     *)
CaptureExit == /\ At("exit")
               /\ Goto(IF state = "Stopping" THEN "ended" ELSE "markStopped")
               /\ UNCHANGED <<atomics, shared>>

CaptureMarkStopped == /\ At("markStopped")
                      /\ state' = "Stopped"
                      /\ Goto("ended")
                      /\ UNCHANGED <<running, generation, shared>>

Read == ReadReady \/ ReadTemporaryError \/ ReadEndOfStream \/ ReadFatalError

CaptureStep == /\ \/ CaptureLoop \/ CaptureMark \/ CaptureOpenFails \/ CaptureOpens
                  \/ CaptureOnline \/ CaptureDisconnected \/ CaptureBackOff
                  \/ ResetGeneration \/ ResetQueue \/ ResetTracker
                  \/ CaptureNext \/ Read \/ Stamp \/ PushFrame \/ CountFrame
                  \/ CaptureClose \/ CaptureExit \/ CaptureMarkStopped
               /\ UNCHANGED <<queueClosed, control, processing, api, restarting, stages,
                              history>>
-----------------------------------------------------------------------------
(* The inference worker and the router's queue.                            *)

(* Plausible bug: the older frames stay in the queue for a later call.     *)
TakeKeepsOlder == /\ worker.at = "idle"
                  /\ queue # <<>>
                  /\ worker' = [at |-> "count", frame |-> queue[Len(queue)], older |-> 0]
                  /\ queue' = SubSeq(queue, 1, Len(queue) - 1)
                  /\ UNCHANGED <<tracker, processing, metrics, results, delivery>>

(* takeForInference: tryPopLatest, then the counters, each under its lock. *)
Take == /\ worker.at = "idle"
        /\ queue # <<>>
        /\ worker' = [at |-> "count", frame |-> queue[Len(queue)], older |-> Len(queue) - 1]
        /\ queue' = <<>>
        /\ UNCHANGED <<tracker, processing, metrics, results, delivery>>

(* Plausible bug: a stale frame is counted and then scheduled all the same. *)
StaleScheduled == /\ worker.at = "count"
                  /\ \E stale \in {0, 1} :
                       metrics' = [metrics EXCEPT !.skipped = @ + worker.older,
                                                  !.stale = @ + stale]
                  /\ worker' = [worker EXCEPT !.at = "schedule", !.older = 0]
                  /\ UNCHANGED <<queue, tracker, processing, results, delivery>>

CountTaken == /\ worker.at = "count"
              /\ \/ /\ metrics' = [metrics EXCEPT !.skipped = @ + worker.older]
                    /\ worker' = [worker EXCEPT !.at = "schedule", !.older = 0]
                 \/ /\ metrics' = [metrics EXCEPT !.skipped = @ + worker.older,
                                                  !.stale = @ + 1]
                    /\ worker' = IdleWorker
              /\ UNCHANGED <<queue, tracker, processing, results, delivery>>

CountScheduled == /\ worker.at = "schedule"
                  /\ metrics' = [metrics EXCEPT !.scheduled = @ + 1]
                  /\ worker' = [worker EXCEPT !.at = "infer"]
                  /\ UNCHANGED <<queue, tracker, processing, results, delivery>>

(* recordInferenceCompleted: a result of another generation goes no further. *)
RecordInference == /\ worker.at = "infer"
                   /\ IF worker.frame.gen = generation
                        THEN /\ metrics' = [metrics EXCEPT !.inferred = @ + 1]
                             /\ worker' = [worker EXCEPT !.at = "enqueue"]
                        ELSE /\ worker' = IdleWorker
                             /\ UNCHANGED metrics
                   /\ UNCHANGED <<queue, tracker, processing, results, delivery>>

(* ResultRouter::enqueue: accepted, or refused by a router that stopped.   *)
Enqueue == /\ worker.at = "enqueue"
           /\ \/ results' = PushLatest(results, worker.frame, ResultCapacity)
              \/ UNCHANGED results
           /\ worker' = IdleWorker
           /\ UNCHANGED <<queue, tracker, processing, metrics, delivery>>

(* The router's queue is shared: a result of another camera may push out   *)
(* the oldest of this one.                                                 *)
OtherCameraEvicts == /\ results # <<>>
                     /\ results' = Tail(results)
                     /\ UNCHANGED <<queue, tracker, processing, metrics, worker, delivery>>

(* What neither the worker nor the delivery thread ever changes.           *)
SessionUnchanged == UNCHANGED <<atomics, queueClosed, initial, control, nextFrameId, api,
                                restarting, capture, opens, history>>

WorkerStep == /\ \/ Take \/ CountTaken \/ CountScheduled \/ RecordInference \/ Enqueue
              /\ SessionUnchanged
-----------------------------------------------------------------------------
(* The delivery thread, in processResult.                                  *)

PopResult == /\ delivery.at = "idle"
             /\ results # <<>>
             /\ delivery' = [at |-> "lock", frame |-> Head(results)]
             /\ results' = Tail(results)
             /\ UNCHANGED <<queue, tracker, processing, metrics, worker>>

(* The check before processingMutex_ is taken.                             *)
RejectEarly == /\ delivery.at = "lock"
               /\ delivery.frame.gen # generation
               /\ delivery' = IdleDelivery
               /\ UNCHANGED <<queue, tracker, processing, metrics, results, worker>>

(* Passed the first check: waits for the mutex whatever happens next.      *)
PassEarly == /\ delivery.at = "lock"
             /\ delivery.frame.gen = generation
             /\ delivery' = [delivery EXCEPT !.at = "recheck"]
             /\ UNCHANGED <<queue, tracker, processing, metrics, results, worker>>

(* Plausible bug: the generation is not checked again under the mutex.     *)
NoRecheck == /\ delivery.at = "recheck"
             /\ processing = "free"
             /\ delivery' = [delivery EXCEPT !.at = "update"]
             /\ processing' = "delivery"
             /\ UNCHANGED <<queue, tracker, metrics, results, worker>>

(* The check under processingMutex_.                                       *)
Recheck == /\ delivery.at = "recheck"
           /\ processing = "free"
           /\ IF delivery.frame.gen = generation
                THEN /\ delivery' = [delivery EXCEPT !.at = "update"]
                     /\ processing' = "delivery"
                ELSE /\ delivery' = IdleDelivery
                     /\ UNCHANGED processing
           /\ UNCHANGED <<queue, tracker, metrics, results, worker>>

(* The tracker and the monitor take the result unless the detector failed; *)
(* then the mutex is released.                                             *)
Update == /\ delivery.at = "update"
          /\ tracker' \in {tracker, tracker \cup {delivery.frame}}
          /\ processing' = "free"
          /\ delivery' = IdleDelivery
          /\ UNCHANGED <<queue, metrics, results, worker>>

DeliveryStep == /\ PopResult \/ RejectEarly \/ PassEarly \/ Recheck \/ Update
                /\ SessionUnchanged
-----------------------------------------------------------------------------
Next == \/ ApiCall \/ ApiStep \/ CaptureStep \/ WorkerStep \/ DeliveryStep
        \/ OtherCameraEvicts /\ SessionUnchanged
        \/ ControlWakes /\ ApiUnchanged

Spec == Init /\ [][Next]_vars

(* Every thread runs: a call of the source returns and a timed wait ends.  *)
(* Nobody has to call start or stop, and nothing wakes a control worker    *)
(* that did not hear of its stop.  Weak fairness is enough for the lock    *)
(* as well: while a thread waits for processingMutex_ to reset the tracker *)
(* no frame is read, so the delivery thread runs out of results.           *)
Fairness == /\ WF_vars(ApiStep)
            /\ WF_vars(CaptureStep)
            /\ WF_vars(WorkerStep)
            /\ WF_vars(DeliveryStep)

FairSpec == Spec /\ Fairness
-----------------------------------------------------------------------------
States == {"Starting", "Online", "Degraded", "Disconnected", "Reconnecting",
           "Stopping", "Stopped", "Faulted"}
ApiPoints == {"idle", "stop", "resetQueue", "resetTracker", "resetMetrics", "newGeneration",
              "announce", "run", "control", "spawn", "abandon", "fault",
              "stopping", "retire", "closeQueue", "stopControl", "join", "clearQueue",
              "clearTracker", "stopped"}
CapturePoints == {"none", "loop", "mark", "open", "online", "disconnected", "backOff",
                  "resetGeneration", "resetQueue", "resetTracker", "lostGeneration",
                  "lostQueue", "lostTracker", "next", "read", "stamp", "push", "count",
                  "close", "exit", "markStopped", "ended"}

CaptureType == [at : CapturePoints, connectedBefore : BOOLEAN, failures : Nat,
                frame : Frame, accepted : BOOLEAN, dropped : Nat]
WorkerType == [at : {"idle", "count", "schedule", "infer", "enqueue"}, frame : Frame,
               older : Nat]
DeliveryType == [at : {"idle", "lock", "recheck", "update"}, frame : Frame]
MetricsType == [captured : Nat, dropped : Nat, skipped : Nat, stale : Nat,
                scheduled : Nat, inferred : Nat]
Queues(capacity) == {q \in Seq(Frame) : Len(q) <= capacity}

TypeOK == /\ running \in BOOLEAN /\ state \in States /\ generation \in Nat
          /\ queue \in Queues(QueueSize) /\ queueClosed \in BOOLEAN
          /\ initial \in {"pending", "connected", "failed"}
          /\ control \in {"none", "off", "on", "lost"}
          /\ tracker \in SUBSET Frame /\ processing \in {"free", "delivery"}
          /\ metrics \in MetricsType /\ nextFrameId \in Nat
          /\ api \in ApiPoints /\ restarting \in BOOLEAN /\ capture \in CaptureType
          /\ worker \in WorkerType /\ delivery \in DeliveryType
          /\ results \in Queues(ResultCapacity)
          /\ starts \in Nat /\ opens \in Nat
          /\ advanced \in Nat /\ retired \in Nat

(* The generation keeps the results of one connection out of the tracker   *)
(* of the next.  None crosses a reconnect.  One crosses a restart, though  *)
(* architecture.md:15 says that none does, when its frame was stamped      *)
(* during the very stop that came before this start, after stop() had      *)
(* advanced the generation: start() resets the tracker before it advances  *)
(* the generation again, and a result checked between the two is let in.   *)
(* No other does, and this one is gone before a second connection is made. *)
TrackerIsolation == \A f \in tracker :
                      f.open = opens \/ (f.gen = retired /\ f.open = opens - 1)

(* Once stop() has returned, or a start has failed, no frame is left to    *)
(* schedule, the camera's control has been given back, and the tracker is  *)
(* empty but for the frames stamped during the last stop().                *)
StoppedIsQuiet ==
  api = "idle" /\ ~Joinable => /\ queue = <<>>
                               /\ control \in {"none", "off"}
                               /\ \A f \in tracker : f.gen = retired

(* Results reach the tracker in the order their frames were read, whatever *)
(* was dropped, skipped or rejected in between: IouObjectTracker matches a *)
(* result against the one before it.                                       *)
ResultsInOrder == [][\A f \in tracker' \ tracker : \A g \in tracker : g.id < f.id]_vars

(* What state() and running() say is so: a session that says Stopped or    *)
(* Faulted has no capture thread at work, one whose start or stop has      *)
(* returned without leaving a thread says so, and a running session has a  *)
(* capture thread that has not given up, or start() is about to create it. *)
StateTruthful ==
  /\ state \in {"Stopped", "Faulted"} => ~running /\ capture.at \in {"none", "ended"}
  /\ api = "idle" /\ ~Joinable => state \in {"Stopped", "Faulted"}
  /\ running => \/ capture.at \notin {"none", "exit", "markStopped", "ended"}
                \/ capture.at = "none" /\ api \in {"control", "spawn"}

(* The counters of one start: a frame is dropped, skipped, stale or        *)
(* scheduled at most once and only after it was captured, and inferred     *)
(* only after it was scheduled.  (Frames cleared on a reconnect are in no  *)
(* counter, hence no equality.)  A restart zeroes the counters without     *)
(* regard to the worker, so what one takeForInference took from the queue  *)
(* before it may be counted after it, and no more than that.               *)
CountersConsistent ==
  LET inHand == CASE worker.at = "count" -> worker.older + 1
                  [] worker.at = "schedule" -> 1
                  [] OTHER -> 0
      uncounted == IF capture.accepted THEN 1 ELSE 0
      carriedOver(n) == IF starts > 1 THEN n ELSE 0
  IN /\ metrics.dropped + capture.dropped + metrics.skipped + metrics.stale
           + metrics.scheduled + Len(queue) + inHand
          <= metrics.captured + uncounted + carriedOver(QueueSize)
     /\ metrics.inferred <= metrics.scheduled + carriedOver(1)

(* To the edge service a session is stopped, running or ended: stop()      *)
(* takes effect where it clears the queue that the thread it has joined    *)
(* has left behind, start() where it launches the thread.                  *)
SessionStatus == IF capture.at = "none" /\ api # "clearQueue" THEN "stopped"
                 ELSE IF capture.at \in {"none", "ended"} THEN "ended" ELSE "running"
Life == INSTANCE SessionLife WITH status <- SessionStatus, inHand <- worker.at # "idle"
ImplementsSessionLife == Life!Spec

(* The camera's control is used as its worker lets itself be used; a       *)
(* camera without one never starts it.                                     *)
Control == INSTANCE ControlLife WITH status <- IF control = "none" THEN "off" ELSE control
FollowsControlLife == Control!Spec

(* start(), stop() and restart() return, whatever the source and the       *)
(* delivery thread are doing; only a control worker that did not hear that *)
(* it is to stop may keep them, which CameraControlWorker shows to happen. *)
ApiReturns == []<>(api = "idle" \/ control = "lost")

(* A session that has been told to end, or whose source has ended, comes   *)
(* to say Stopped, unless its stop() is kept by the control worker: the    *)
(* edge program waits for this to exit.                                    *)
EndsStopped == ~running /\ Joinable ~> state = "Stopped" \/ control = "lost"
=============================================================================
