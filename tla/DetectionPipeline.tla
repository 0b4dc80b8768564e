------------------------- MODULE DetectionPipeline ---------------------------
(***************************************************************************)
(* application/DetectionPipeline.cpp: one source, one detector and some    *)
(* sinks, run by three threads with a queue between each two:              *)
(*                                                                         *)
(*   capture --frames--> inference --results--> delivery                   *)
(*                                                                         *)
(* The pipeline ends in one of two ways, which share the flag running_ and *)
(* the closing of the queues.  At the end of the stream every thread works *)
(* off its queue, closes the next one, and the last thread clears          *)
(* running_.  stop() clears running_, closes both queues and joins.        *)
(*                                                                         *)
(* A queue operation is one action, enabled when it would return: that the *)
(* queue wakes its waiters is shown of LatestValueQueue.  A frame is the   *)
(* rank at which it entered the first queue.  One client calls start, stop *)
(* and addSink.                                                            *)
(***************************************************************************)
EXTENDS LatestValueQueueOps, FiniteSets

CONSTANTS Sinks,           \* the sinks that may be added
          FrameQueueSize, ResultQueueSize,  \* PipelineConfig
          MaxStarts,       \* bounds of the model: starts,
          MaxFrames        \* frames captured in one start

ASSUME SizesAssumption == FrameQueueSize \in Nat \ {0} /\ ResultQueueSize \in Nat \ {0}
ASSUME BoundsAssumption == MaxStarts \in Nat /\ MaxFrames \in Nat

VARIABLES
  dropOld,                       \* PipelineConfig: chosen once, for both queues
  running,
  frames, framesClosed, results, resultsClosed,  \* the two queues
  metrics,                       \* the counters
  sourceOpen, added, started,    \* the source; the sinks added, the sinks started
  capture, inference, delivery,  \* the threads: program point and what is in hand
  api, restarting,               \* where the client is; start follows the stop
  starts, interrupted,           \* history: starts; whether stop() cut this one short
  entered, received              \* history: frames ever queued; the last one delivered

queues  == <<frames, framesClosed, results, resultsClosed>>
threads == <<capture, inference, delivery>>
outside == <<sourceOpen, added, started>>
control == <<api, restarting, starts, interrupted, dropOld>>
vars == <<running, queues, metrics, outside, threads, control, entered, received>>

NoThread == [at |-> "none", frame |-> 0, accepted |-> FALSE, dropped |-> 0]
Spawned == [NoThread EXCEPT !.at = "loop"]
NoMetrics == [captured |-> 0, inferred |-> 0, delivered |-> 0,
              droppedFrames |-> 0, droppedResults |-> 0]

Init == /\ dropOld \in BOOLEAN
        /\ running = FALSE /\ metrics = NoMetrics
        /\ frames = <<>> /\ framesClosed = FALSE /\ results = <<>> /\ resultsClosed = FALSE
        /\ sourceOpen = FALSE /\ added = {} /\ started = {}
        /\ capture = NoThread /\ inference = NoThread /\ delivery = NoThread
        /\ api = "idle" /\ restarting = FALSE /\ starts = 0 /\ interrupted = FALSE
        /\ entered = 0 /\ received = 0

Joinable(thread) == thread.at # "none"
Active == Joinable(capture) \/ Joinable(inference) \/ Joinable(delivery)
-----------------------------------------------------------------------------
(* addSink() and start()                                                   *)

(* Plausible bug: a sink may join a pipeline that runs.                    *)
AddSinkAnyTime(s) == /\ api = "idle"
                     /\ s \notin added
                     /\ added' = added \cup {s}
                     /\ UNCHANGED <<running, queues, metrics, sourceOpen, started, threads,
                                    control, entered, received>>

AddSink(s) == /\ api = "idle" /\ ~running
              /\ s \notin added
              /\ added' = added \cup {s}
              /\ UNCHANGED <<running, queues, metrics, sourceOpen, started, threads, control,
                             entered, received>>

Start == /\ api = "idle"
         /\ starts < MaxStarts
         /\ starts' = starts + 1
         /\ restarting' = Active
         /\ api' = IF Active THEN "stop" ELSE "prepare"
         /\ UNCHANGED <<running, queues, metrics, outside, threads, interrupted, entered,
                        received>>

(* No source, no detector, or the source does not open.                    *)
StartRefused == /\ api = "prepare"
                /\ api' = "idle"
                /\ UNCHANGED <<running, queues, metrics, outside, threads, restarting, starts,
                               interrupted, entered, received>>

(* One sink fails to start: all of them are stopped.                       *)
StartSinkFails == /\ api = "prepare" /\ added # {}
                  /\ started' = {} /\ sourceOpen' = FALSE
                  /\ api' = "idle"
                  /\ UNCHANGED <<running, queues, metrics, added, threads, restarting, starts,
                                 interrupted, entered, received>>

StartPrepare == /\ api = "prepare"
                /\ sourceOpen' = TRUE /\ started' = added
                /\ frames' = <<>> /\ framesClosed' = FALSE
                /\ results' = <<>> /\ resultsClosed' = FALSE
                /\ metrics' = NoMetrics
                /\ running' = TRUE /\ interrupted' = FALSE
                /\ api' = "spawnDelivery"
                /\ UNCHANGED <<added, threads, restarting, starts, entered, received>>

SpawnDelivery == /\ api = "spawnDelivery"
                 /\ delivery' = Spawned
                 /\ api' = "spawnInference"
                 /\ UNCHANGED <<capture, inference>>

SpawnInference == /\ api = "spawnInference"
                  /\ inference' = Spawned
                  /\ api' = "spawnCapture"
                  /\ UNCHANGED <<capture, delivery>>

SpawnCapture == /\ api = "spawnCapture"
                /\ capture' = Spawned
                /\ api' = "idle"
                /\ UNCHANGED <<inference, delivery>>

Spawn == /\ SpawnDelivery \/ SpawnInference \/ SpawnCapture
         /\ UNCHANGED <<running, queues, metrics, outside, restarting, starts, interrupted,
                        entered, received>>

(* A thread cannot be created: those that were are ended as by stop().     *)
SpawnFails == /\ api \in {"spawnDelivery", "spawnInference", "spawnCapture"}
              /\ running' = FALSE /\ interrupted' = TRUE
              /\ api' = "closeFrames"
              /\ UNCHANGED <<queues, metrics, outside, threads, restarting, starts, entered,
                             received>>
-----------------------------------------------------------------------------
(* stop()                                                                  *)

CallsStop == \/ api = "idle" /\ restarting' = FALSE
             \/ api = "stop" /\ UNCHANGED restarting

Stop == /\ CallsStop
        /\ running \/ Active
        /\ running' = FALSE
        /\ interrupted' = (interrupted \/ running)
        /\ api' = "closeFrames"
        /\ UNCHANGED <<queues, metrics, outside, threads, starts, entered, received>>

(* stop() closes the queues and the source of a pipeline at rest as well.  *)
StopInactive == /\ api = "idle"
                /\ ~running /\ ~Active
                /\ framesClosed' = TRUE /\ resultsClosed' = TRUE
                /\ sourceOpen' = FALSE
                /\ UNCHANGED <<running, frames, results, metrics, added, started, threads,
                               control, entered, received>>

StopCloseFrames == /\ api = "closeFrames"
                   /\ framesClosed' = TRUE
                   /\ api' = "closeResults"
                   /\ UNCHANGED <<frames, results, resultsClosed, outside, threads, restarting>>

StopCloseResults == /\ api = "closeResults"
                    /\ resultsClosed' = TRUE
                    /\ api' = "joinCapture"
                    /\ UNCHANGED <<frames, framesClosed, results, outside, threads, restarting>>

Ended(thread) == thread.at \in {"none", "ended"}

StopJoinCapture == /\ api = "joinCapture" /\ Ended(capture)
                   /\ capture' = NoThread
                   /\ api' = "joinInference"
                   /\ UNCHANGED <<queues, outside, inference, delivery, restarting>>

StopJoinInference == /\ api = "joinInference" /\ Ended(inference)
                     /\ inference' = NoThread
                     /\ api' = "joinDelivery"
                     /\ UNCHANGED <<queues, outside, capture, delivery, restarting>>

StopJoinDelivery == /\ api = "joinDelivery" /\ Ended(delivery)
                    /\ delivery' = NoThread
                    /\ api' = "release"
                    /\ UNCHANGED <<queues, outside, capture, inference, restarting>>

StopRelease == /\ api = "release"
               /\ sourceOpen' = FALSE /\ started' = {}
               /\ api' = IF restarting THEN "prepare" ELSE "idle"
               /\ restarting' = FALSE
               /\ UNCHANGED <<queues, added, threads>>

StopStep == /\ \/ StopCloseFrames \/ StopCloseResults
               \/ StopJoinCapture \/ StopJoinInference \/ StopJoinDelivery \/ StopRelease
            /\ UNCHANGED <<running, metrics, starts, interrupted, entered, received>>

ApiStep == /\ \/ StartRefused \/ StartSinkFails \/ StartPrepare \/ Spawn \/ SpawnFails
              \/ StopStep
              \/ api = "stop" /\ Stop
           /\ UNCHANGED dropOld

ApiCall == /\ \/ Start \/ StopInactive
              \/ api = "idle" /\ Stop
              \/ \E s \in Sinks : AddSink(s)
           /\ UNCHANGED dropOld
-----------------------------------------------------------------------------
(* What both queues have in common.                                        *)

(* push returns: rejected, at once, or with room for the value.            *)
PushReturns(q, closed, size) == closed \/ dropOld \/ Len(q) < size
Pushed(q, closed, size, value) == IF closed THEN q ELSE PushLatest(q, value, size)
Outcome(q, closed, size, thread) ==
  [thread EXCEPT !.at = "count", !.frame = 0, !.accepted = ~closed,
                 !.dropped = IF closed THEN 0 ELSE Dropped(q, size)]
Counted(thread) ==
  [NoThread EXCEPT !.at = IF thread.accepted THEN "loop" ELSE "close"]
-----------------------------------------------------------------------------
(* captureLoop()                                                           *)

CaptureGo(point) == capture' = [capture EXCEPT !.at = point]

(* Plausible bug: the source is read until it ends by itself.              *)
CaptureIgnoresRunning == /\ capture.at = "loop"
                         /\ CaptureGo("read")
                         /\ UNCHANGED <<frames, framesClosed, metrics, entered>>

CaptureLoop == /\ capture.at = "loop"
               /\ CaptureGo(IF running THEN "read" ELSE "close")
               /\ UNCHANGED <<frames, framesClosed, metrics, entered>>

CaptureReady == /\ capture.at = "read"
                /\ metrics.captured < MaxFrames
                /\ metrics' = [metrics EXCEPT !.captured = @ + 1]
                /\ CaptureGo("push")
                /\ UNCHANGED <<frames, framesClosed, entered>>

CaptureRetries == /\ capture.at = "read"
                  /\ CaptureGo("loop")
                  /\ UNCHANGED <<frames, framesClosed, metrics, entered>>

(* The end of the stream or a fatal error.                                 *)
CaptureEnds == /\ capture.at = "read"
               /\ CaptureGo("close")
               /\ UNCHANGED <<frames, framesClosed, metrics, entered>>

CapturePush == /\ capture.at = "push"
               /\ PushReturns(frames, framesClosed, FrameQueueSize)
               /\ frames' = Pushed(frames, framesClosed, FrameQueueSize, entered + 1)
               /\ entered' = IF framesClosed THEN entered ELSE entered + 1
               /\ capture' = Outcome(frames, framesClosed, FrameQueueSize, capture)
               /\ UNCHANGED <<framesClosed, metrics>>

CaptureCount == /\ capture.at = "count"
                /\ metrics' = [metrics EXCEPT !.droppedFrames = @ + capture.dropped]
                /\ capture' = Counted(capture)
                /\ UNCHANGED <<frames, framesClosed, entered>>

CaptureClose == /\ capture.at = "close"
                /\ framesClosed' = TRUE
                /\ UNCHANGED running
                /\ CaptureGo("ended")
                /\ UNCHANGED <<frames, metrics, entered>>

CaptureStep == /\ \/ /\ \/ CaptureLoop \/ CaptureReady \/ CaptureRetries \/ CaptureEnds
                        \/ CapturePush \/ CaptureCount
                     /\ UNCHANGED running
                  \/ CaptureClose
               /\ UNCHANGED <<results, resultsClosed, outside, inference, delivery, control,
                              received>>
-----------------------------------------------------------------------------
(* inferenceLoop()                                                         *)

InferenceGo(point) == inference' = [inference EXCEPT !.at = point]

(* Plausible bug: the loop ends as soon as either flag says so.            *)
InferenceLeavesRest == /\ inference.at = "loop"
                       /\ InferenceGo(IF running /\ ~framesClosed THEN "pop" ELSE "close")
                       /\ UNCHANGED <<frames, results, resultsClosed, metrics>>

InferenceLoop == /\ inference.at = "loop"
                 /\ InferenceGo(IF running \/ ~framesClosed THEN "pop" ELSE "close")
                 /\ UNCHANGED <<frames, results, resultsClosed, metrics>>

(* Plausible bug: the newest frame is taken and the older ones stay.       *)
InferencePopNewest == /\ inference.at = "pop"
                      /\ frames # <<>>
                      /\ inference' = [inference EXCEPT !.at = "detect",
                                                        !.frame = frames[Len(frames)]]
                      /\ frames' = SubSeq(frames, 1, Len(frames) - 1)
                      /\ UNCHANGED <<results, resultsClosed, metrics>>

InferencePop == /\ inference.at = "pop"
                /\ frames # <<>>
                /\ inference' = [inference EXCEPT !.at = "detect", !.frame = Head(frames)]
                /\ frames' = Tail(frames)
                /\ UNCHANGED <<results, resultsClosed, metrics>>

InferenceDrained == /\ inference.at = "pop"
                    /\ frames = <<>> /\ framesClosed
                    /\ InferenceGo("close")
                    /\ UNCHANGED <<frames, results, resultsClosed, metrics>>

(* detect, the tracker and the monitor, whatever the detector answers.     *)
InferenceDetect == /\ inference.at = "detect"
                   /\ metrics' = [metrics EXCEPT !.inferred = @ + 1]
                   /\ InferenceGo("push")
                   /\ UNCHANGED <<frames, results, resultsClosed>>

InferencePush == /\ inference.at = "push"
                 /\ PushReturns(results, resultsClosed, ResultQueueSize)
                 /\ results' = Pushed(results, resultsClosed, ResultQueueSize, inference.frame)
                 /\ inference' = Outcome(results, resultsClosed, ResultQueueSize, inference)
                 /\ UNCHANGED <<frames, resultsClosed, metrics>>

InferenceCount == /\ inference.at = "count"
                  /\ metrics' = [metrics EXCEPT !.droppedResults = @ + inference.dropped]
                  /\ inference' = Counted(inference)
                  /\ UNCHANGED <<frames, results, resultsClosed>>

(* Plausible bug: the thread ends without telling the next one.            *)
InferenceForgetsClose == /\ inference.at = "close"
                         /\ InferenceGo("ended")
                         /\ UNCHANGED <<frames, results, resultsClosed, metrics>>

InferenceClose == /\ inference.at = "close"
                  /\ resultsClosed' = TRUE
                  /\ InferenceGo("ended")
                  /\ UNCHANGED <<frames, results, metrics>>

InferenceStep == /\ \/ InferenceLoop \/ InferencePop \/ InferenceDrained \/ InferenceDetect
                    \/ InferencePush \/ InferenceCount \/ InferenceClose
                 /\ UNCHANGED <<running, framesClosed, outside, capture, delivery, control,
                                entered, received>>
-----------------------------------------------------------------------------
(* deliveryLoop()                                                          *)

DeliveryGo(point) == delivery' = [delivery EXCEPT !.at = point]

DeliveryLoop == /\ delivery.at = "loop"
                /\ DeliveryGo(IF running \/ ~resultsClosed THEN "pop" ELSE "finish")
                /\ UNCHANGED <<running, results, metrics, received>>

DeliveryPop == /\ delivery.at = "pop"
               /\ results # <<>>
               /\ delivery' = [delivery EXCEPT !.at = "consume", !.frame = Head(results)]
               /\ results' = Tail(results)
               /\ UNCHANGED <<running, metrics, received>>

DeliveryDrained == /\ delivery.at = "pop"
                   /\ results = <<>> /\ resultsClosed
                   /\ DeliveryGo("finish")
                   /\ UNCHANGED <<running, results, metrics, received>>

(* Every sink in turn; one that throws does not stop the others.           *)
DeliveryConsume == /\ delivery.at = "consume"
                   /\ received' = delivery.frame
                   /\ metrics' = [metrics EXCEPT !.delivered = @ + 1]
                   /\ delivery' = Spawned
                   /\ UNCHANGED <<running, results>>

DeliveryFinish == /\ delivery.at = "finish"
                  /\ running' = FALSE
                  /\ DeliveryGo("ended")
                  /\ UNCHANGED <<results, metrics, received>>

DeliveryStep == /\ \/ DeliveryLoop \/ DeliveryPop \/ DeliveryDrained \/ DeliveryConsume
                   \/ DeliveryFinish
                /\ UNCHANGED <<frames, framesClosed, resultsClosed, outside, capture,
                               inference, control, entered>>
-----------------------------------------------------------------------------
Next == ApiCall \/ ApiStep \/ CaptureStep \/ InferenceStep \/ DeliveryStep

Spec == Init /\ [][Next]_vars

(* The threads run, the source and the detector answer; nobody has to call *)
(* anything, and a source may go on for ever with temporary errors.        *)
FairSpec == Spec /\ WF_vars(ApiStep) /\ WF_vars(CaptureStep)
                 /\ WF_vars(InferenceStep) /\ WF_vars(DeliveryStep)
-----------------------------------------------------------------------------
(* When isRunning() turns false without a stop(), every frame captured has *)
(* been delivered or is counted as dropped, and the counters are final:    *)
(* the programs and the tests wait for isRunning() to read them.           *)
DrainsAtEnd ==
  ~running /\ ~interrupted =>
    /\ metrics.captured = metrics.inferred + metrics.droppedFrames
    /\ metrics.inferred = metrics.delivered + metrics.droppedResults

(* The source is read and the sinks are used between their start and their *)
(* stop only, and a start finds the source closed and every sink stopped.  *)
(* (A sink added after the end of the stream, or beside one that failed to *)
(* start, is stopped without having been started: the code allows it.)     *)
ResourcesBracketed ==
  /\ capture.at = "read" => sourceOpen
  /\ delivery.at = "consume" => started = added
  /\ api = "prepare" => started = {} /\ ~sourceOpen

(* From the first queue to the sinks: frames may be lost, but they are     *)
(* delivered once and in the order they were captured, restarts included.  *)
InHand(thread, points) == IF thread.at \in points THEN {thread.frame} ELSE {}
Channel == INSTANCE LossyChannel
             WITH sent <- entered,
                  pending <- {frames[i] : i \in DOMAIN frames}
                               \cup InHand(inference, {"detect", "push"})
                               \cup {results[i] : i \in DOMAIN results}
                               \cup InHand(delivery, {"consume"})
ImplementsChannel == Channel!Spec

(* To the window a pipeline is idle, running, ending or ended.             *)
PipelineStatus == IF running THEN IF capture.at \in {"close", "ended"} THEN "ending" ELSE "running"
                  ELSE IF Active /\ ~interrupted THEN "ended" ELSE "idle"
Life == INSTANCE PipelineLife WITH status <- PipelineStatus
ImplementsPipelineLife == Life!Spec

(* start() and stop() return, even from a source that never recovers.      *)
CallsReturn == []<>(api = "idle")

(* The end of the stream comes to be seen by whoever asks isRunning().     *)
StreamEnds == capture.at = "ended" ~> ~running
=============================================================================
