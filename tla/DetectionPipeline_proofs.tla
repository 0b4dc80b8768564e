----------------------- MODULE DetectionPipeline_proofs -----------------------
(***************************************************************************)
(* What DetectionPipeline promises, for any sinks, queue sizes and bounds: *)
(* its resources are used between their start and their stop only, every   *)
(* frame is accounted for when it has come to its end by itself, and it    *)
(* implements LossyChannel from its first queue to its sinks, and          *)
(* PipelineLife.  At the end, the window of the desktop program: its       *)
(* buttons and what it does to its pipeline.                               *)
(***************************************************************************)
EXTENDS DetectionPipeline, Desktop, LatestValueQueueOps_proofs

Ranks == Nat \ {0}
Thread(points) == [at : points, frame : Nat, accepted : BOOLEAN, dropped : Nat]

CapturePoints   == {"none", "loop", "read", "push", "count", "close", "ended"}
InferencePoints == {"none", "loop", "pop", "detect", "push", "count", "close", "ended"}
DeliveryPoints  == {"none", "loop", "pop", "consume", "finish", "ended"}
ApiPoints == {"idle", "stop", "prepare", "spawnDelivery", "spawnInference", "spawnCapture",
              "closeFrames", "closeResults", "joinCapture", "joinInference", "joinDelivery",
              "release"}

QueuesOK == /\ frames \in Seq(Ranks) /\ Len(frames) <= FrameQueueSize
            /\ results \in Seq(Ranks) /\ Len(results) <= ResultQueueSize
            /\ framesClosed \in BOOLEAN /\ resultsClosed \in BOOLEAN

ThreadsOK == /\ capture \in Thread(CapturePoints)
             /\ inference \in Thread(InferencePoints)
             /\ delivery \in Thread(DeliveryPoints)
             /\ inference.at \in {"detect", "push"} => inference.frame \in Ranks
             /\ delivery.at = "consume" => delivery.frame \in Ranks

ControlOK == /\ dropOld \in BOOLEAN /\ running \in BOOLEAN
             /\ api \in ApiPoints /\ restarting \in BOOLEAN
             /\ starts \in Nat /\ interrupted \in BOOLEAN
             /\ entered \in Nat /\ received \in Nat
             /\ metrics \in [captured : Nat, inferred : Nat, delivered : Nat,
                             droppedFrames : Nat, droppedResults : Nat]
             /\ sourceOpen \in BOOLEAN /\ added \subseteq Sinks /\ started \subseteq Sinks

PipelineTypeOK == QueuesOK /\ ThreadsOK /\ ControlOK
-----------------------------------------------------------------------------
(* The inductive invariant of what may be used and when.                   *)

(* Which threads cannot exist, and that nothing runs, where the client is. *)
JoinedInv ==
  /\ api \in {"prepare", "spawnDelivery", "release"} => ~Active
  /\ api \in {"spawnInference", "spawnCapture", "joinInference", "joinDelivery"} =>
       ~Joinable(capture)
  /\ api \in {"spawnInference", "joinDelivery"} => ~Joinable(inference)
  /\ api \in {"closeFrames", "closeResults", "joinCapture", "joinInference", "joinDelivery",
              "release", "prepare"} => ~running
  /\ running => ~interrupted

(* Whatever reads the source keeps it open; a pipeline whose delivery      *)
(* thread works is running, or being stopped, and has all its sinks        *)
(* started; one without threads has given back everything.                 *)
UseInv ==
  /\ Joinable(capture) => sourceOpen
  /\ api \in {"spawnDelivery", "spawnInference", "spawnCapture"} =>
       sourceOpen /\ started = added /\ running
  /\ ~Ended(delivery) => started = added
  /\ ~Ended(delivery) /\ api = "idle" => running
  /\ api \in {"idle", "prepare"} /\ ~Active => started = {} /\ ~sourceOpen /\ ~running
-----------------------------------------------------------------------------
(* The inductive invariant of the counters, until stop() interferes: what  *)
(* a stage has counted has been counted by the next one, is dropped, or is *)
(* on its way between the two.                                             *)
At(thread, point) == IF thread.at = point THEN 1 ELSE 0
Uncounted(thread) == IF thread.at = "count" THEN thread.dropped ELSE 0

FramesMoving  == Len(frames) + At(capture, "push") + Uncounted(capture)
                   + At(inference, "detect")
ResultsMoving == Len(results) + At(inference, "push") + Uncounted(inference)
                   + At(delivery, "consume")
CapturedAll == metrics.captured = metrics.inferred + metrics.droppedFrames + FramesMoving
InferredAll == metrics.inferred = metrics.delivered + metrics.droppedResults + ResultsMoving

CountInv == ~interrupted => CapturedAll /\ InferredAll

(* A queue is closed by the thread before it, at its end, and a thread     *)
(* ends when its queue is closed and worked off.                           *)
EndInv ==
  ~interrupted =>
    /\ framesClosed => Ended(capture) /\ (running => capture.at = "ended")
    /\ resultsClosed => Ended(inference) /\ (running => inference.at = "ended")
    /\ inference.at = "count" => inference.accepted
    /\ inference.at \in {"close", "ended"} => framesClosed /\ frames = <<>>
    /\ delivery.at = "finish" => resultsClosed /\ results = <<>>
    /\ ~running => /\ Ended(capture) /\ Ended(inference) /\ Ended(delivery)
                   /\ frames = <<>> /\ results = <<>>
-----------------------------------------------------------------------------
(* The inductive invariant of the order: from the sinks backwards to the   *)
(* first queue every frame has a higher rank than the one before it.       *)
Rising(q) == \A i, j \in DOMAIN q : i < j => q[i] < q[j]
Elements(q) == {q[i] : i \in DOMAIN q}
Delivering == InHand(delivery, {"consume"})
Inferring  == InHand(inference, {"detect", "push"})
Before(A, B) == \A a \in A, b \in B : a < b

Ordered(D, R, I, F, last, top) ==
  /\ Before(D, R) /\ Before(D, I) /\ Before(D, F)
  /\ Before(R, I) /\ Before(R, F) /\ Before(I, F)
  /\ \A r \in D \cup R \cup I \cup F : r \in Ranks /\ last < r /\ r <= top

OrderInv == /\ Rising(frames) /\ Rising(results) /\ received <= entered
            /\ Ordered(Delivering, Elements(results), Inferring, Elements(frames), received,
                       entered)

PipelineInv == PipelineTypeOK /\ JoinedInv /\ UseInv /\ CountInv /\ EndInv /\ OrderInv
-----------------------------------------------------------------------------
(* The queue sizes are positive.                                           *)
LEMMA Sizes == /\ FrameQueueSize \in Nat /\ FrameQueueSize >= 1
               /\ ResultQueueSize \in Nat /\ ResultQueueSize >= 1
BY SizesAssumption

(* What a push does to a queue of ranks.                                   *)
LEMMA PushOnQueue ==
  ASSUME NEW q \in Seq(Ranks), NEW closed \in BOOLEAN, NEW size \in Nat, size >= 1,
         Len(q) <= size, NEW value \in Ranks
  PROVE  LET r == Pushed(q, closed, size, value)
         IN  /\ r \in Seq(Ranks) /\ Len(r) <= size
             /\ closed => r = q
             /\ ~closed => PushedOnto(r, q, value, Ranks, size)
             /\ ~closed => Len(r) + Dropped(q, size) = Len(q) + 1
             /\ Dropped(q, size) \in Nat
<1> DEFINE r == PushLatest(q, value, size)
<1>1. PushedOnto(r, q, value, Ranks, size)
  BY PushFacts
<1>2. r \in Seq(Ranks) /\ Len(r) <= size
  BY <1>1 DEF PushedOnto
<1>3. /\ Shed(q, size) \in Seq(Ranks) /\ Len(Shed(q, size)) \in Nat
      /\ Len(q) - Len(Shed(q, size)) \in Nat
  <2>1. /\ Shed(q, size) \in Seq(Ranks)
        /\ \E k \in Nat : Len(Shed(q, size)) + k = Len(q)
    BY ShedFacts
  <2>2. QED
    BY <2>1
<1>4. Len(r) = Len(Shed(q, size)) + 1
  BY <1>3, AppendProperties DEF PushLatest
<1> HIDE DEF r
<1>5. Len(r) + Dropped(q, size) = Len(q) + 1 /\ Dropped(q, size) \in Nat
  BY <1>2, <1>3, <1>4 DEF Dropped
<1>6. Pushed(q, closed, size, value) = IF closed THEN q ELSE r
  BY DEF Pushed, r
<1>7. QED
  BY <1>1, <1>2, <1>5, <1>6

(* What a pop leaves of one.                                               *)
LEMMA PopOfQueue ==
  ASSUME NEW q \in Seq(Ranks), q # <<>>
  PROVE  /\ Head(q) \in Ranks /\ Tail(q) \in Seq(Ranks) /\ Len(Tail(q)) = Len(q) - 1
         /\ Head(q) = q[1] /\ Len(q) \in Nat \ {0}
         /\ \A i \in 1..(Len(q) - 1) : Tail(q)[i] = q[i + 1]
BY HeadTailProperties, EmptySeq
-----------------------------------------------------------------------------
(* Type correctness, thread by thread.                                     *)
LEMMA CaptureTypes ==
  ASSUME PipelineTypeOK, CaptureStep
  PROVE  PipelineTypeOK'
<1> USE DEF CaptureStep, CaptureGo, Thread, CapturePoints, outside, control
<1>0. /\ QueuesOK /\ ThreadsOK /\ ControlOK
      /\ entered + 1 \in Ranks /\ FrameQueueSize \in Nat /\ FrameQueueSize >= 1
  BY Sizes DEF PipelineTypeOK, ControlOK, Ranks
<1>1. capture \in Thread(CapturePoints)
  BY <1>0 DEF ThreadsOK
<1>2. metrics \in [captured : Nat, inferred : Nat, delivered : Nat,
                   droppedFrames : Nat, droppedResults : Nat]
  BY <1>0 DEF ControlOK
<1>3. QueuesOK' /\ entered' \in Nat
  <2>1. CASE CapturePush
    <3>1. /\ frames' = Pushed(frames, framesClosed, FrameQueueSize, entered + 1)
          /\ entered' \in {entered, entered + 1}
          /\ UNCHANGED <<framesClosed, results, resultsClosed>>
      BY <2>1 DEF CapturePush
    <3>2. /\ frames \in Seq(Ranks) /\ Len(frames) <= FrameQueueSize
          /\ framesClosed \in BOOLEAN /\ entered \in Nat
      BY <1>0 DEF QueuesOK, ControlOK
    <3>3. /\ Pushed(frames, framesClosed, FrameQueueSize, entered + 1) \in Seq(Ranks)
          /\ Len(Pushed(frames, framesClosed, FrameQueueSize, entered + 1)) <= FrameQueueSize
      BY <1>0, <3>2, PushOnQueue
    <3>4. QED
      BY <1>0, <3>1, <3>2, <3>3 DEF QueuesOK
  <2>2. CASE ~CapturePush
    BY <1>0, <2>2 DEF QueuesOK, ControlOK, CaptureLoop, CaptureReady, CaptureRetries, CaptureEnds,
                      CaptureCount, CaptureClose
  <2>3. QED
    BY <2>1, <2>2
<1>4. capture' \in Thread(CapturePoints)
  <2>1. CASE CapturePush
    <3>1. Dropped(frames, FrameQueueSize) \in Nat
      BY <1>0, PushOnQueue DEF QueuesOK
    <3>2. QED
      BY <1>0, <1>1, <2>1, <3>1 DEF CapturePush, Outcome, QueuesOK
  <2>2. CASE CaptureCount
    BY <1>1, <2>2 DEF CaptureCount, Counted, NoThread
  <2>3. CASE ~CapturePush /\ ~CaptureCount
    BY <1>1, <2>3 DEF CaptureLoop, CaptureReady, CaptureRetries, CaptureEnds, CaptureClose
  <2>4. QED
    BY <2>1, <2>2, <2>3
<1>5. metrics' \in [captured : Nat, inferred : Nat, delivered : Nat,
                    droppedFrames : Nat, droppedResults : Nat]
  BY <1>1, <1>2 DEF CaptureLoop, CaptureReady, CaptureRetries, CaptureEnds, CapturePush,
                    CaptureCount, CaptureClose
<1>6. UNCHANGED <<running, inference, delivery, sourceOpen, added, started, api, restarting,
                  starts, interrupted, dropOld, received>>
  BY DEF CaptureClose
<1>7. QED
  BY <1>0, <1>3, <1>4, <1>5, <1>6 DEF PipelineTypeOK, ThreadsOK, ControlOK

(* The inference thread.                                                   *)
LEMMA InferenceTypes ==
  ASSUME PipelineTypeOK, InferenceStep
  PROVE  PipelineTypeOK'
<1> USE DEF InferenceStep, InferenceGo, Thread, InferencePoints, outside, control
<1>0. /\ QueuesOK /\ ThreadsOK /\ ControlOK
      /\ ResultQueueSize \in Nat /\ ResultQueueSize >= 1
  BY Sizes DEF PipelineTypeOK
<1>1. /\ inference \in Thread(InferencePoints)
      /\ inference.at \in {"detect", "push"} => inference.frame \in Ranks
  BY <1>0 DEF ThreadsOK
<1>2. metrics \in [captured : Nat, inferred : Nat, delivered : Nat,
                   droppedFrames : Nat, droppedResults : Nat]
  BY <1>0 DEF ControlOK
<1>3. frames # <<>> => Head(frames) \in Ranks /\ Tail(frames) \in Seq(Ranks)
                       /\ Len(Tail(frames)) <= FrameQueueSize
  BY <1>0, PopOfQueue, Sizes DEF QueuesOK
<1>4. QueuesOK'
  <2>1. CASE InferencePush
    BY <1>0, <1>1, <2>1, PushOnQueue DEF InferencePush, QueuesOK
  <2>2. CASE ~InferencePush
    BY <1>0, <1>3, <2>2 DEF QueuesOK, InferenceLoop, InferencePop, InferenceDrained,
                            InferenceDetect, InferenceCount, InferenceClose
  <2>3. QED
    BY <2>1, <2>2
<1>5. /\ inference' \in Thread(InferencePoints)
      /\ inference'.at \in {"detect", "push"} => inference'.frame \in Ranks
  <2>1. CASE InferencePush
    <3>1. Dropped(results, ResultQueueSize) \in Nat
      BY <1>0, <1>1, <2>1, PushOnQueue DEF QueuesOK, InferencePush
    <3>2. QED
      BY <1>0, <1>1, <2>1, <3>1 DEF InferencePush, Outcome, QueuesOK
  <2>2. CASE InferenceCount
    BY <1>1, <2>2 DEF InferenceCount, Counted, NoThread
  <2>3. CASE InferencePop
    BY <1>1, <1>3, <2>3 DEF InferencePop, Ranks
  <2>4. CASE InferenceLoop \/ InferenceDrained \/ InferenceDetect \/ InferenceClose
    BY <1>1, <2>4 DEF InferenceLoop, InferenceDrained, InferenceDetect, InferenceClose
  <2>5. QED
    BY <2>1, <2>2, <2>3, <2>4
<1>6. metrics' \in [captured : Nat, inferred : Nat, delivered : Nat,
                    droppedFrames : Nat, droppedResults : Nat]
  BY <1>1, <1>2 DEF InferenceLoop, InferencePop, InferenceDrained, InferenceDetect,
                    InferencePush, InferenceCount, InferenceClose
<1>7. QED
  BY <1>0, <1>4, <1>5, <1>6 DEF PipelineTypeOK, ThreadsOK, ControlOK

(* The delivery thread.                                                    *)
LEMMA DeliveryTypes ==
  ASSUME PipelineTypeOK, DeliveryStep
  PROVE  PipelineTypeOK'
<1> USE DEF DeliveryStep, DeliveryGo, Thread, DeliveryPoints, outside, control
<1>0. QueuesOK /\ ThreadsOK /\ ControlOK
  BY DEF PipelineTypeOK
<1>1. /\ delivery \in Thread(DeliveryPoints)
      /\ delivery.at = "consume" => delivery.frame \in Ranks
  BY <1>0 DEF ThreadsOK
<1>2. metrics \in [captured : Nat, inferred : Nat, delivered : Nat,
                   droppedFrames : Nat, droppedResults : Nat] /\ running \in BOOLEAN
  BY <1>0 DEF ControlOK
<1>3. results # <<>> => Head(results) \in Ranks /\ Tail(results) \in Seq(Ranks)
                        /\ Len(Tail(results)) <= ResultQueueSize
  BY <1>0, PopOfQueue, Sizes DEF QueuesOK
<1>4. QueuesOK'
  BY <1>0, <1>3 DEF QueuesOK, DeliveryLoop, DeliveryPop, DeliveryDrained, DeliveryConsume,
                    DeliveryFinish
<1>5. /\ delivery' \in Thread(DeliveryPoints)
      /\ delivery'.at = "consume" => delivery'.frame \in Ranks
  <2>1. CASE DeliveryPop
    BY <1>1, <1>3, <2>1 DEF DeliveryPop, Ranks
  <2>2. CASE DeliveryConsume
    BY <2>2 DEF DeliveryConsume, Spawned, NoThread
  <2>3. CASE DeliveryLoop \/ DeliveryDrained \/ DeliveryFinish
    BY <1>1, <2>3 DEF DeliveryLoop, DeliveryDrained, DeliveryFinish
  <2>4. QED
    BY <2>1, <2>2, <2>3
<1>6. /\ metrics' \in [captured : Nat, inferred : Nat, delivered : Nat,
                       droppedFrames : Nat, droppedResults : Nat]
      /\ running' \in BOOLEAN /\ received' \in Nat
  <2>1. CASE DeliveryConsume
    BY <1>0, <1>1, <1>2, <2>1 DEF DeliveryConsume, ControlOK, Ranks
  <2>2. CASE ~DeliveryConsume
    BY <1>0, <2>2 DEF DeliveryLoop, DeliveryPop, DeliveryDrained, DeliveryFinish, ControlOK
  <2>3. QED
    BY <2>1, <2>2
<1>7. QED
  BY <1>0, <1>4, <1>5, <1>6 DEF PipelineTypeOK, ThreadsOK, ControlOK

(* The client's steps, one kind after the other.                           *)
Stopping == \/ StopCloseFrames \/ StopCloseResults \/ StopJoinCapture \/ StopJoinInference
            \/ StopJoinDelivery \/ StopRelease
Calling == Start \/ StopInactive \/ \E s \in Sinks : AddSink(s)
ClientSteps == \/ StartRefused \/ StartSinkFails \/ StartPrepare \/ Spawn \/ SpawnFails
               \/ (Stopping /\ StopStep) \/ Stop \/ Calling

(* Every step is one of the client, of a thread or a stutter.              *)
LEMMA KindsOfSteps ==
  ASSUME [Next]_vars
  PROVE  \/ ClientSteps /\ UNCHANGED dropOld
         \/ CaptureStep \/ InferenceStep \/ DeliveryStep \/ UNCHANGED vars
BY DEF Next, ApiCall, ApiStep, ClientSteps, Stopping, StopStep, Calling

(* The client.                                                             *)
LEMMA ClientTypes ==
  ASSUME PipelineTypeOK, ClientSteps, UNCHANGED dropOld
  PROVE  PipelineTypeOK'
<1> USE DEF Thread, queues, threads, outside, control
<1>0. /\ QueuesOK /\ ThreadsOK /\ ControlOK
  BY DEF PipelineTypeOK
<1>1. /\ Spawned \in Thread(CapturePoints) /\ Spawned \in Thread(InferencePoints)
      /\ Spawned \in Thread(DeliveryPoints) /\ Spawned.at = "loop"
      /\ NoThread \in Thread(CapturePoints) /\ NoThread \in Thread(InferencePoints)
      /\ NoThread \in Thread(DeliveryPoints) /\ NoThread.at = "none"
  BY DEF Spawned, NoThread, CapturePoints, InferencePoints, DeliveryPoints
<1>2. CASE StartRefused \/ StartSinkFails \/ SpawnFails \/ Start
  <2>1. QueuesOK' /\ ThreadsOK'
    BY <1>0, <1>2 DEF QueuesOK, ThreadsOK, StartRefused, StartSinkFails, SpawnFails, Start
  <2>2. /\ UNCHANGED <<metrics, added, entered, received>>
        /\ api' \in {"idle", "stop", "prepare", "closeFrames"}
    BY <1>2 DEF StartRefused, StartSinkFails, SpawnFails, Start
  <2>3. /\ running' \in {running, FALSE} /\ sourceOpen' \in {sourceOpen, FALSE}
        /\ started' \in {started, {}} /\ interrupted' \in {interrupted, TRUE}
        /\ starts' \in {starts, starts + 1}
    BY <1>2 DEF StartRefused, StartSinkFails, SpawnFails, Start
  <2>4. restarting' \in BOOLEAN
    BY <1>0, <1>2 DEF ControlOK, StartRefused, StartSinkFails, SpawnFails, Start, Active,
                      Joinable
  <2>5. running' \in BOOLEAN /\ sourceOpen' \in BOOLEAN /\ interrupted' \in BOOLEAN
    BY <1>0, <2>3 DEF ControlOK
  <2>6. starts' \in Nat /\ started' \subseteq Sinks
    <3>1. starts \in Nat /\ started \subseteq Sinks
      BY <1>0 DEF ControlOK
    <3>2. QED
      BY <2>3, <3>1
  <2>7. QED
    BY <1>0, <2>1, <2>2, <2>4, <2>5, <2>6 DEF PipelineTypeOK, ControlOK, ApiPoints
<1>3. CASE StartPrepare
  <2>1. <<>> \in Seq(Ranks) /\ Len(<<>>) = 0 /\ 0 <= FrameQueueSize /\ 0 <= ResultQueueSize
    BY Sizes
  <2>2. NoMetrics \in [captured : Nat, inferred : Nat, delivered : Nat,
                       droppedFrames : Nat, droppedResults : Nat]
    BY DEF NoMetrics
  <2>3. QueuesOK'
    BY <1>3, <2>1 DEF StartPrepare, QueuesOK
  <2>4. QED
    BY <1>0, <1>3, <2>2, <2>3 DEF PipelineTypeOK, ThreadsOK, ControlOK, StartPrepare, ApiPoints
<1>4. CASE Spawn
  <2>1. ThreadsOK'
    BY <1>0, <1>1, <1>4 DEF ThreadsOK, Spawn, SpawnDelivery, SpawnInference, SpawnCapture
  <2>2. api' \in ApiPoints
    BY <1>4 DEF Spawn, SpawnDelivery, SpawnInference, SpawnCapture, ApiPoints
  <2>3. QED
    BY <1>0, <1>4, <2>1, <2>2 DEF PipelineTypeOK, QueuesOK, ControlOK, Spawn
<1>5. CASE Stop
  BY <1>0, <1>5 DEF PipelineTypeOK, QueuesOK, ThreadsOK, ControlOK, Stop, CallsStop, ApiPoints
<1>6. CASE StopInactive \/ \E s \in Sinks : AddSink(s)
  BY <1>0, <1>6 DEF PipelineTypeOK, QueuesOK, ThreadsOK, ControlOK, StopInactive, AddSink
<1>7. CASE Stopping /\ StopStep
  <2>1. UNCHANGED <<running, metrics, starts, interrupted, entered, received, added, dropOld,
                    frames, results>>
    BY <1>7 DEF StopStep, StopCloseFrames, StopCloseResults, StopJoinCapture, StopJoinInference,
                StopJoinDelivery, StopRelease
  <2>2. ThreadsOK'
    BY <1>0, <1>1, <1>7 DEF ThreadsOK, Stopping, StopCloseFrames, StopCloseResults,
       StopJoinCapture, StopJoinInference, StopJoinDelivery, StopRelease
  <2>3. /\ framesClosed' \in BOOLEAN /\ resultsClosed' \in BOOLEAN
        /\ api' \in ApiPoints /\ restarting' \in BOOLEAN /\ sourceOpen' \in BOOLEAN
        /\ started' \subseteq Sinks
    BY <1>0, <1>7 DEF QueuesOK, ControlOK, Stopping, StopCloseFrames, StopCloseResults,
       StopJoinCapture, StopJoinInference, StopJoinDelivery, StopRelease, ApiPoints
  <2>4. QED
    BY <1>0, <2>1, <2>2, <2>3 DEF PipelineTypeOK, QueuesOK, ControlOK
<1>8. QED
  BY <1>2, <1>3, <1>4, <1>5, <1>6, <1>7 DEF ClientSteps, Calling

(* Every step keeps the types.                                             *)
LEMMA TypeStep == ASSUME PipelineTypeOK, [Next]_vars PROVE PipelineTypeOK'
<1>1. CASE UNCHANGED vars
  BY <1>1 DEF vars, queues, threads, outside, control, PipelineTypeOK, QueuesOK, ThreadsOK,
              ControlOK
<1>2. QED
  BY <1>1, KindsOfSteps, ClientTypes, CaptureTypes, InferenceTypes, DeliveryTypes
-----------------------------------------------------------------------------
(* Which threads exist, and what may be used, step by step.                *)
LEMMA UseStep ==
  ASSUME PipelineTypeOK, JoinedInv, UseInv, EndInv, [Next]_vars
  PROVE  JoinedInv' /\ UseInv'
<1> USE DEF Joinable, Active, Ended
<1>0. /\ capture \in Thread(CapturePoints) /\ inference \in Thread(InferencePoints)
      /\ delivery \in Thread(DeliveryPoints)
  BY DEF PipelineTypeOK, ThreadsOK
<1> USE DEF Thread
<1>1. NoThread.at = "none" /\ Spawned.at = "loop"
  BY DEF NoThread, Spawned
<1>2. ASSUME UNCHANGED <<api, sourceOpen, started, added, interrupted>>,
             capture'.at = "none" <=> capture.at = "none",
             inference'.at = "none" <=> inference.at = "none",
             delivery'.at = "none" <=> delivery.at = "none",
             Ended(delivery) => Ended(delivery'),
             \/ running' = running
             \/ /\ ~running' /\ delivery.at = "finish" /\ delivery'.at = "ended"
                /\ api \notin {"spawnDelivery", "spawnInference", "spawnCapture"}
      PROVE  JoinedInv' /\ UseInv'
  <2>1. running' => running
    BY <1>2
  <2>2. JoinedInv'
    BY <1>2, <2>1 DEF JoinedInv
  <2>3. ~Ended(delivery') => ~Ended(delivery) /\ running' = running
    BY <1>2
  <2>4. QED
    BY <1>2, <2>1, <2>2, <2>3 DEF UseInv
<1>3. CASE CaptureStep
  <2>1. capture'.at = "none" <=> capture.at = "none"
    BY <1>0, <1>3 DEF CaptureStep, CaptureLoop, CaptureReady, CaptureRetries, CaptureEnds,
       CapturePush, CaptureCount, CaptureClose, CaptureGo, Outcome, Counted, NoThread
  <2>2. UNCHANGED <<api, sourceOpen, started, added, interrupted, inference, delivery, running>>
    BY <1>3 DEF CaptureStep, CaptureClose, outside, control
  <2>3. QED
    BY <1>2, <2>1, <2>2
<1>4. CASE InferenceStep
  <2>1. inference'.at = "none" <=> inference.at = "none"
    BY <1>0, <1>4 DEF InferenceStep, InferenceLoop, InferencePop, InferenceDrained,
       InferenceDetect, InferencePush, InferenceCount, InferenceClose, InferenceGo, Outcome,
       Counted, NoThread
  <2>2. UNCHANGED <<api, sourceOpen, started, added, interrupted, capture, delivery, running>>
    BY <1>4 DEF InferenceStep, outside, control
  <2>3. QED
    BY <1>2, <2>1, <2>2
<1>5. CASE DeliveryStep
  <2>1. /\ ~Ended(delivery) /\ delivery'.at # "none"
        /\ \/ running' = running
           \/ ~running' /\ delivery.at = "finish" /\ delivery'.at = "ended"
    BY <1>0, <1>1, <1>5 DEF DeliveryStep, DeliveryLoop, DeliveryPop, DeliveryDrained,
       DeliveryConsume, DeliveryFinish, DeliveryGo
  <2>2. UNCHANGED <<api, sourceOpen, started, added, interrupted, capture, inference>>
    BY <1>5 DEF DeliveryStep, outside, control
  <2>3. ASSUME delivery.at = "finish",
               api \in {"spawnDelivery", "spawnInference", "spawnCapture"}
        PROVE  FALSE
    <3>1. running /\ ~interrupted /\ capture.at = "none" /\ api # "spawnDelivery"
          /\ (api = "spawnInference" => inference.at = "none")
      BY <2>3 DEF JoinedInv, UseInv
    <3>2. inference.at = "ended" /\ framesClosed
      BY <2>3, <3>1 DEF EndInv
    <3>3. QED
      BY <3>1, <3>2 DEF EndInv
  <2>4. QED
    BY <1>2, <2>1, <2>2, <2>3
<1>6. CASE UNCHANGED vars
  BY <1>2, <1>6 DEF vars, outside, control, threads
<1>7. CASE ClientSteps
  <2> USE DEF JoinedInv, UseInv, threads, outside, control
  <2>1. CASE StartRefused \/ StartSinkFails \/ Start
    BY <2>1 DEF StartRefused, StartSinkFails, Start
  <2>2. CASE StartPrepare
    BY <2>2 DEF StartPrepare
  <2>3. CASE Spawn
    BY <1>0, <1>1, <2>3 DEF Spawn, SpawnDelivery, SpawnInference, SpawnCapture
  <2>4. CASE SpawnFails \/ Stop
    BY <2>4 DEF SpawnFails, Stop, CallsStop
  <2>5. CASE StopInactive \/ \E s \in Sinks : AddSink(s)
    BY <2>5 DEF StopInactive, AddSink
  <2>6. CASE Stopping /\ StopStep
    BY <1>0, <1>1, <2>6 DEF Stopping, StopStep, StopCloseFrames, StopCloseResults,
       StopJoinCapture, StopJoinInference, StopJoinDelivery, StopRelease
  <2>7. QED
    BY <1>7, <2>1, <2>2, <2>3, <2>4, <2>5, <2>6 DEF ClientSteps, Calling
<1>8. QED
  BY <1>3, <1>4, <1>5, <1>6, <1>7, KindsOfSteps
-----------------------------------------------------------------------------
(* How the threads end, step by step.                                      *)
LEMMA EndStep ==
  ASSUME PipelineTypeOK, JoinedInv, UseInv, EndInv, [Next]_vars
  PROVE  EndInv'
<1> USE DEF Joinable, Active, Ended, Thread
<1>0. /\ capture \in Thread(CapturePoints) /\ inference \in Thread(InferencePoints)
      /\ delivery \in Thread(DeliveryPoints) /\ interrupted \in BOOLEAN
  BY DEF PipelineTypeOK, ThreadsOK, ControlOK
<1>1. NoThread.at = "none" /\ Spawned.at = "loop"
  BY DEF NoThread, Spawned
<1>2. CASE CaptureStep
  <2>1. UNCHANGED <<running, interrupted, results, resultsClosed, inference, delivery>>
    BY <1>2 DEF CaptureStep, CaptureClose, control
  <2>2. capture.at \notin {"none", "ended"} /\ (framesClosed' => framesClosed \/ CaptureClose)
    BY <1>2 DEF CaptureStep, CaptureLoop, CaptureReady, CaptureRetries, CaptureEnds, CapturePush,
                CaptureCount, CaptureClose
  <2>3. CaptureClose => capture'.at = "ended" /\ framesClosed' /\ frames' = frames
    BY <1>0 DEF CaptureClose, CaptureGo
  <2>4. ~interrupted => running /\ ~framesClosed /\ inference.at \notin {"close", "ended"}
    BY <2>2 DEF EndInv
  <2>5. QED
    BY <2>1, <2>2, <2>3, <2>4 DEF EndInv
<1>3. CASE InferenceStep
  <2>1. UNCHANGED <<running, interrupted, framesClosed, capture, delivery>>
    BY <1>3 DEF InferenceStep, control
  <2>2. inference.at \notin {"none", "ended"} /\ (resultsClosed' => resultsClosed \/ InferenceClose)
    BY <1>3 DEF InferenceStep, InferenceLoop, InferencePop, InferenceDrained, InferenceDetect,
                InferencePush, InferenceCount, InferenceClose
  <2>3. ~interrupted => running /\ ~resultsClosed /\ delivery.at # "finish"
                        /\ (inference.at = "count" => inference.accepted)
    BY <2>2 DEF EndInv
  <2>4. InferenceClose => /\ inference.at = "close" /\ inference'.at = "ended"
                          /\ resultsClosed' /\ frames' = frames
    BY <1>0 DEF InferenceClose, InferenceGo
  <2>5. ASSUME ~interrupted
        PROVE  /\ inference'.at = "count" => inference'.accepted
               /\ inference'.at \in {"close", "ended"} => framesClosed /\ frames' = <<>>
    <3>1. CASE InferenceClose
      BY <2>4, <2>5, <3>1 DEF EndInv
    <3>2. CASE InferencePush
      BY <1>0, <2>3, <2>5, <3>2 DEF InferencePush, Outcome
    <3>3. CASE InferenceCount
      BY <1>0, <2>3, <2>5, <3>3 DEF InferenceCount, Counted, NoThread
    <3>4. CASE InferenceLoop \/ InferencePop \/ InferenceDrained \/ InferenceDetect
      BY <1>0, <2>3, <2>5, <3>4 DEF InferenceLoop, InferencePop, InferenceDrained,
                                    InferenceDetect, InferenceGo
    <3>5. QED
      BY <1>3, <3>1, <3>2, <3>3, <3>4 DEF InferenceStep
  <2>6. QED
    BY <2>1, <2>2, <2>3, <2>4, <2>5 DEF EndInv
<1>4. CASE DeliveryStep
  <2>1. UNCHANGED <<interrupted, frames, framesClosed, resultsClosed, capture, inference>>
    BY <1>4 DEF DeliveryStep, control
  <2>2. delivery.at \notin {"none", "ended"}
    BY <1>4 DEF DeliveryStep, DeliveryLoop, DeliveryPop, DeliveryDrained, DeliveryConsume,
                DeliveryFinish
  <2>3. ~interrupted => running
    BY <2>2 DEF EndInv
  <2>4. CASE DeliveryFinish
    BY <1>0, <2>1, <2>3, <2>4 DEF DeliveryFinish, DeliveryGo, EndInv
  <2>5. CASE DeliveryLoop \/ DeliveryPop \/ DeliveryDrained \/ DeliveryConsume
    <3>1. ~interrupted =>
            /\ running' = running
            /\ delivery'.at = "finish" => resultsClosed /\ results' = <<>>
      BY <1>0, <1>1, <2>3, <2>5 DEF DeliveryLoop, DeliveryPop, DeliveryDrained, DeliveryConsume,
                                    DeliveryGo
    <3>2. QED
      BY <2>1, <2>3, <3>1 DEF EndInv
  <2>6. QED
    BY <1>4, <2>4, <2>5 DEF DeliveryStep
<1>5. CASE UNCHANGED vars
  BY <1>5 DEF vars, queues, threads, control, EndInv
<1>6. CASE ClientSteps
  <2> USE DEF queues, threads, control
  <2>1. CASE StartRefused \/ StartSinkFails \/ Start
    BY <2>1 DEF StartRefused, StartSinkFails, Start, EndInv
  <2>2. CASE StartPrepare
    <3>1. ~Active
      BY <2>2 DEF StartPrepare, JoinedInv
    <3>2. QED
      BY <2>2, <3>1 DEF StartPrepare, EndInv
  <2>3. CASE Spawn
    <3>1. running /\ ~interrupted /\ (api = "spawnInference" => inference.at = "none")
          /\ capture.at = "none"
      BY <2>3 DEF Spawn, SpawnDelivery, SpawnInference, SpawnCapture, JoinedInv, UseInv
    <3>2. QED
      BY <1>0, <1>1, <2>3, <3>1 DEF Spawn, SpawnDelivery, SpawnInference, SpawnCapture, EndInv
  <2>4. CASE SpawnFails
    BY <2>4 DEF SpawnFails, EndInv
  <2>5. CASE Stop
    BY <2>5 DEF Stop, EndInv
  <2>6. CASE StopInactive
    BY <2>6 DEF StopInactive, EndInv
  <2>7. CASE \E s \in Sinks : AddSink(s)
    BY <2>7 DEF AddSink, EndInv
  <2>8. CASE Stopping /\ StopStep
    <3>1. ~running /\ running' = running /\ interrupted' = interrupted
      BY <2>8 DEF Stopping, StopStep, StopCloseFrames, StopCloseResults, StopJoinCapture,
                  StopJoinInference, StopJoinDelivery, StopRelease, JoinedInv
    <3>2. /\ frames' = frames /\ results' = results
          /\ capture' \in {capture, NoThread} /\ inference' \in {inference, NoThread}
          /\ delivery' \in {delivery, NoThread}
          /\ framesClosed => framesClosed'
          /\ resultsClosed => resultsClosed'
      BY <2>8 DEF Stopping, StopCloseFrames, StopCloseResults, StopJoinCapture,
                  StopJoinInference, StopJoinDelivery, StopRelease
    <3>3. QED
      BY <1>1, <3>1, <3>2 DEF EndInv
  <2>9. QED
    BY <1>6, <2>1, <2>2, <2>3, <2>4, <2>5, <2>6, <2>7, <2>8 DEF ClientSteps, Calling
<1>7. QED
  BY <1>2, <1>3, <1>4, <1>5, <1>6, KindsOfSteps
-----------------------------------------------------------------------------
(* What the counters count, step by step.                                  *)
(* A queue that another thread does not touch has the same length.         *)
LEMMA CountTypes ==
  ASSUME PipelineTypeOK
  PROVE  /\ capture \in Thread(CapturePoints) /\ inference \in Thread(InferencePoints)
         /\ delivery \in Thread(DeliveryPoints)
         /\ metrics \in [captured : Nat, inferred : Nat, delivered : Nat,
                         droppedFrames : Nat, droppedResults : Nat]
         /\ frames \in Seq(Ranks) /\ Len(frames) \in Nat /\ Len(frames) <= FrameQueueSize
         /\ results \in Seq(Ranks) /\ Len(results) \in Nat /\ Len(results) <= ResultQueueSize
         /\ framesClosed \in BOOLEAN /\ resultsClosed \in BOOLEAN
         /\ running \in BOOLEAN /\ interrupted \in BOOLEAN
         /\ entered \in Nat /\ entered + 1 \in Ranks /\ received \in Nat
         /\ inference.at \in {"detect", "push"} => inference.frame \in Ranks
         /\ delivery.at = "consume" => delivery.frame \in Ranks
         /\ capture.dropped \in Nat /\ inference.dropped \in Nat
BY DEF PipelineTypeOK, QueuesOK, ThreadsOK, ControlOK, Ranks, Thread

(* What is on its way is counted in natural numbers.                       *)
LEMMA MovingTypes ==
  ASSUME PipelineTypeOK
  PROVE  /\ At(capture, "push") \in Nat /\ Uncounted(capture) \in Nat
         /\ At(inference, "detect") \in Nat /\ At(inference, "push") \in Nat
         /\ Uncounted(inference) \in Nat /\ At(delivery, "consume") \in Nat
         /\ FramesMoving \in Nat /\ ResultsMoving \in Nat
         /\ Len(frames) \in Nat /\ Len(results) \in Nat
         /\ metrics.captured \in Nat /\ metrics.inferred \in Nat /\ metrics.delivered \in Nat
         /\ metrics.droppedFrames \in Nat /\ metrics.droppedResults \in Nat
<1>1. /\ At(capture, "push") \in Nat /\ Uncounted(capture) \in Nat
      /\ At(inference, "detect") \in Nat /\ At(inference, "push") \in Nat
      /\ Uncounted(inference) \in Nat /\ At(delivery, "consume") \in Nat
  BY CountTypes DEF At, Uncounted
<1>2. Len(frames) \in Nat /\ Len(results) \in Nat
  BY CountTypes
<1>3. FramesMoving \in Nat /\ ResultsMoving \in Nat
  BY <1>1, <1>2 DEF FramesMoving, ResultsMoving
<1>4. QED
  BY <1>1, <1>2, <1>3, CountTypes

(* A frame is counted as captured, pushed, and what it displaced counted.  *)
LEMMA CaptureCounts ==
  ASSUME PipelineTypeOK, EndInv, CountInv, CaptureStep
  PROVE  CountInv'
<1> SUFFICES ASSUME ~interrupted'
             PROVE  CapturedAll' /\ InferredAll'
  BY DEF CountInv
<1> USE DEF Thread
<1>1. /\ UNCHANGED <<interrupted, results, inference, delivery, running>>
      /\ capture.at \notin {"none", "ended"}
  BY DEF CaptureStep, CaptureLoop, CaptureReady, CaptureRetries, CaptureEnds, CapturePush,
         CaptureCount, CaptureClose, control
<1>2. CapturedAll /\ InferredAll /\ ~framesClosed
  BY <1>1 DEF CountInv, EndInv, Ended
<1>3. ResultsMoving' = ResultsMoving
  BY <1>1 DEF ResultsMoving
<1>4. CASE CaptureReady
  <2>1. /\ capture.at = "read" /\ capture'.at = "push" /\ frames' = frames
        /\ metrics' = [metrics EXCEPT !.captured = @ + 1]
    BY <1>4, CountTypes DEF CaptureReady, CaptureGo
  <2>2. FramesMoving' = FramesMoving + 1
    <3>1. /\ At(capture, "push") = 0 /\ At(capture', "push") = 1
          /\ Uncounted(capture) = 0 /\ Uncounted(capture') = 0
          /\ At(inference', "detect") = At(inference, "detect")
      BY <1>1, <2>1 DEF At, Uncounted
    <3>2. QED
      BY <2>1, <3>1, MovingTypes DEF FramesMoving
  <2>3. /\ metrics'.captured = metrics.captured + 1 /\ metrics'.inferred = metrics.inferred
        /\ metrics'.delivered = metrics.delivered
        /\ metrics'.droppedFrames = metrics.droppedFrames
        /\ metrics'.droppedResults = metrics.droppedResults
        /\ metrics.captured \in Nat /\ metrics.inferred \in Nat /\ metrics.delivered \in Nat
        /\ metrics.droppedFrames \in Nat /\ metrics.droppedResults \in Nat
        /\ FramesMoving \in Nat /\ ResultsMoving \in Nat
    <3>1. metrics \in [captured : Nat, inferred : Nat, delivered : Nat,
                       droppedFrames : Nat, droppedResults : Nat]
      BY CountTypes
    <3>2. FramesMoving \in Nat /\ ResultsMoving \in Nat
      BY MovingTypes
    <3>3. QED
      BY <2>1, <3>1, <3>2
  <2>4. QED
    <3>1. CapturedAll'
      BY <1>2, <1>3, <2>2, <2>3 DEF CapturedAll
    <3>2. InferredAll'
      BY <1>2, <1>3, <2>2, <2>3 DEF InferredAll
    <3>3. QED
      BY <3>1, <3>2
<1>5. CASE CapturePush
  <2> DEFINE r == Pushed(frames, framesClosed, FrameQueueSize, entered + 1)
             n == Dropped(frames, FrameQueueSize)
  <2>1. /\ capture.at = "push" /\ capture'.at = "count" /\ capture'.dropped = n
        /\ frames' = r /\ metrics' = metrics
    BY <1>2, <1>5, CountTypes DEF CapturePush, Outcome
  <2>2. Len(r) + n = Len(frames) + 1 /\ r \in Seq(Ranks) /\ n \in Nat
    BY <1>2, CountTypes, Sizes, PushOnQueue
  <2> HIDE DEF r, n
  <2>3. Len(r) \in Nat
    BY <2>2
  <2>4. /\ At(capture, "push") = 1 /\ At(capture', "push") = 0
        /\ Uncounted(capture) = 0 /\ Uncounted(capture') = n
        /\ At(inference', "detect") = At(inference, "detect")
    BY <1>1, <2>1 DEF At, Uncounted
  <2>5. FramesMoving' = FramesMoving
    BY <2>1, <2>2, <2>3, <2>4, MovingTypes DEF FramesMoving
  <2>6. QED
    <3>1. CapturedAll'
      BY <1>2, <1>3, <2>1, <2>5 DEF CapturedAll
    <3>2. InferredAll'
      BY <1>2, <1>3, <2>1, <2>5 DEF InferredAll
    <3>3. QED
      BY <3>1, <3>2
<1>6. CASE CaptureCount
  <2>1. /\ capture.at = "count" /\ capture'.at \notin {"push", "count"} /\ frames' = frames
        /\ metrics' = [metrics EXCEPT !.droppedFrames = @ + capture.dropped]
    BY <1>6 DEF CaptureCount, Counted, NoThread
  <2>2. /\ At(capture, "push") = 0 /\ At(capture', "push") = 0
        /\ Uncounted(capture) = capture.dropped /\ Uncounted(capture') = 0
        /\ At(inference', "detect") = At(inference, "detect")
    BY <1>1, <2>1 DEF At, Uncounted
  <2>3. FramesMoving = FramesMoving' + capture.dropped /\ FramesMoving' \in Nat
    <3>1. Len(frames) \in Nat /\ At(inference, "detect") \in Nat /\ capture.dropped \in Nat
      BY CountTypes, MovingTypes
    <3>2. FramesMoving = Len(frames) + 0 + capture.dropped + At(inference, "detect")
      BY <2>2 DEF FramesMoving
    <3>3. FramesMoving' = Len(frames) + 0 + 0 + At(inference, "detect")
      BY <2>1, <2>2 DEF FramesMoving
    <3>4. QED
      BY <3>1, <3>2, <3>3
  <2>4. capture.dropped \in Nat
    BY CountTypes
  <2>5. /\ metrics'.captured = metrics.captured /\ metrics'.inferred = metrics.inferred
        /\ metrics'.delivered = metrics.delivered
        /\ metrics'.droppedFrames = metrics.droppedFrames + capture.dropped
        /\ metrics'.droppedResults = metrics.droppedResults
        /\ metrics.captured \in Nat /\ metrics.inferred \in Nat /\ metrics.delivered \in Nat
        /\ metrics.droppedFrames \in Nat /\ metrics.droppedResults \in Nat
        /\ FramesMoving \in Nat /\ ResultsMoving \in Nat
    <3>1. metrics \in [captured : Nat, inferred : Nat, delivered : Nat,
                       droppedFrames : Nat, droppedResults : Nat]
      BY CountTypes
    <3>2. FramesMoving \in Nat /\ ResultsMoving \in Nat
      BY MovingTypes
    <3> DEFINE lost == capture.dropped
    <3>3. metrics' = [metrics EXCEPT !.droppedFrames = @ + lost]
      BY <2>1
    <3> HIDE DEF lost
    <3>4. /\ metrics'.captured = metrics.captured /\ metrics'.inferred = metrics.inferred
          /\ metrics'.delivered = metrics.delivered
          /\ metrics'.droppedFrames = metrics.droppedFrames + lost
          /\ metrics'.droppedResults = metrics.droppedResults
      BY <3>1, <3>3
    <3>5. QED
      BY <3>1, <3>2, <3>4 DEF lost
  <2>6. QED
    <3>1. CapturedAll'
      BY <1>2, <1>3, <2>3, <2>4, <2>5 DEF CapturedAll
    <3>2. InferredAll'
      BY <1>2, <1>3, <2>3, <2>4, <2>5 DEF InferredAll
    <3>3. QED
      BY <3>1, <3>2
<1>7. CASE CaptureLoop \/ CaptureRetries \/ CaptureEnds \/ CaptureClose
  <2>1. /\ capture.at \notin {"push", "count"} /\ capture'.at \notin {"push", "count"}
        /\ frames' = frames /\ metrics' = metrics
    BY <1>7, CountTypes DEF CaptureLoop, CaptureRetries, CaptureEnds, CaptureClose, CaptureGo
  <2>2. FramesMoving' = FramesMoving
    BY <1>1, <2>1 DEF FramesMoving, At, Uncounted
  <2>3. QED
    <3>1. CapturedAll'
      BY <1>2, <1>3, <2>1, <2>2 DEF CapturedAll
    <3>2. InferredAll'
      BY <1>2, <1>3, <2>1, <2>2 DEF InferredAll
    <3>3. QED
      BY <3>1, <3>2
<1>8. QED
  BY <1>4, <1>5, <1>6, <1>7 DEF CaptureStep

(* A frame is taken, counted as inferred, and its result pushed.           *)
LEMMA InferenceCounts ==
  ASSUME PipelineTypeOK, EndInv, CountInv, InferenceStep
  PROVE  CountInv'
<1> SUFFICES ASSUME ~interrupted'
             PROVE  CapturedAll' /\ InferredAll'
  BY DEF CountInv
<1> USE DEF Thread
<1>1. /\ UNCHANGED <<interrupted, capture, delivery, running>>
      /\ inference.at \notin {"none", "ended"}
  BY DEF InferenceStep, InferenceLoop, InferencePop, InferenceDrained, InferenceDetect,
         InferencePush, InferenceCount, InferenceClose, control
<1>2. CapturedAll /\ InferredAll /\ ~resultsClosed
  BY <1>1 DEF CountInv, EndInv, Ended
<1>3. CASE InferencePop
  <2>1. /\ inference.at = "pop" /\ inference'.at = "detect"
        /\ frames' = Tail(frames) /\ results' = results /\ metrics' = metrics
    BY <1>3, CountTypes DEF InferencePop
  <2>2. Len(frames') = Len(frames) - 1
    BY <1>3, <2>1, CountTypes, PopOfQueue DEF InferencePop
  <2>3. /\ At(inference, "detect") = 0 /\ At(inference', "detect") = 1
        /\ At(capture', "push") = At(capture, "push") /\ Uncounted(capture') = Uncounted(capture)
    BY <1>1, <2>1 DEF At
  <2>4. FramesMoving' = FramesMoving
    BY <2>2, <2>3, MovingTypes DEF FramesMoving
  <2>5. ResultsMoving' = ResultsMoving
    BY <1>1, <2>1 DEF ResultsMoving, At, Uncounted
  <2>6. QED
    <3>1. CapturedAll'
      BY <1>2, <2>1, <2>4, <2>5 DEF CapturedAll
    <3>2. InferredAll'
      BY <1>2, <2>1, <2>4, <2>5 DEF InferredAll
    <3>3. QED
      BY <3>1, <3>2
<1>4. CASE InferenceDetect
  <2>1. /\ inference.at = "detect" /\ inference'.at = "push"
        /\ frames' = frames /\ results' = results
        /\ metrics' = [metrics EXCEPT !.inferred = @ + 1]
    BY <1>4, CountTypes DEF InferenceDetect, InferenceGo
  <2>2. /\ At(inference, "detect") = 1 /\ At(inference', "detect") = 0
        /\ At(capture', "push") = At(capture, "push") /\ Uncounted(capture') = Uncounted(capture)
    BY <1>1, <2>1 DEF At
  <2>3. FramesMoving = FramesMoving' + 1 /\ FramesMoving' \in Nat
    BY <2>1, <2>2, MovingTypes DEF FramesMoving
  <2>4. /\ At(inference, "push") = 0 /\ At(inference', "push") = 1
        /\ Uncounted(inference') = 0 /\ Uncounted(inference) = 0
        /\ At(delivery', "consume") = At(delivery, "consume")
    BY <1>1, <2>1 DEF At, Uncounted
  <2>5. ResultsMoving' = ResultsMoving + 1
    BY <2>1, <2>4, MovingTypes DEF ResultsMoving
  <2>6. /\ metrics'.captured = metrics.captured /\ metrics'.inferred = metrics.inferred + 1
        /\ metrics'.delivered = metrics.delivered
        /\ metrics'.droppedFrames = metrics.droppedFrames
        /\ metrics'.droppedResults = metrics.droppedResults
        /\ metrics.captured \in Nat /\ metrics.inferred \in Nat /\ metrics.delivered \in Nat
        /\ metrics.droppedFrames \in Nat /\ metrics.droppedResults \in Nat
        /\ FramesMoving \in Nat /\ ResultsMoving \in Nat
    <3>1. metrics \in [captured : Nat, inferred : Nat, delivered : Nat,
                       droppedFrames : Nat, droppedResults : Nat]
      BY CountTypes
    <3>2. FramesMoving \in Nat /\ ResultsMoving \in Nat
      BY MovingTypes
    <3>3. QED
      BY <2>1, <3>1, <3>2
  <2>7. QED
    <3>1. CapturedAll'
      BY <1>2, <2>3, <2>5, <2>6 DEF CapturedAll
    <3>2. InferredAll'
      BY <1>2, <2>3, <2>5, <2>6 DEF InferredAll
    <3>3. QED
      BY <3>1, <3>2
<1>5. CASE InferencePush
  <2> DEFINE r == Pushed(results, resultsClosed, ResultQueueSize, inference.frame)
             n == Dropped(results, ResultQueueSize)
  <2>1. /\ inference.at = "push" /\ inference'.at = "count" /\ inference'.dropped = n
        /\ results' = r /\ metrics' = metrics /\ frames' = frames
    BY <1>2, <1>5, CountTypes DEF InferencePush, Outcome
  <2>2. Len(r) + n = Len(results) + 1 /\ r \in Seq(Ranks) /\ n \in Nat
    BY <1>2, <2>1, CountTypes, Sizes, PushOnQueue
  <2> HIDE DEF r, n
  <2>3. Len(r) \in Nat
    BY <2>2
  <2>4. /\ At(inference, "push") = 1 /\ At(inference', "push") = 0
        /\ Uncounted(inference) = 0 /\ Uncounted(inference') = n
        /\ At(delivery', "consume") = At(delivery, "consume")
    BY <1>1, <2>1 DEF At, Uncounted
  <2>5. ResultsMoving' = ResultsMoving
    BY <2>1, <2>2, <2>3, <2>4, MovingTypes DEF ResultsMoving
  <2>6. FramesMoving' = FramesMoving
    BY <1>1, <2>1 DEF FramesMoving, At, Uncounted
  <2>7. QED
    <3>1. CapturedAll'
      BY <1>2, <2>1, <2>5, <2>6 DEF CapturedAll
    <3>2. InferredAll'
      BY <1>2, <2>1, <2>5, <2>6 DEF InferredAll
    <3>3. QED
      BY <3>1, <3>2
<1>6. CASE InferenceCount
  <2>1. /\ inference.at = "count" /\ inference'.at \notin {"detect", "push", "count"}
        /\ frames' = frames /\ results' = results
        /\ metrics' = [metrics EXCEPT !.droppedResults = @ + inference.dropped]
    BY <1>6 DEF InferenceCount, Counted, NoThread
  <2>2. /\ At(inference, "push") = 0 /\ At(inference', "push") = 0
        /\ Uncounted(inference) = inference.dropped /\ Uncounted(inference') = 0
        /\ At(delivery', "consume") = At(delivery, "consume")
    BY <1>1, <2>1 DEF At, Uncounted
  <2>3. inference.dropped \in Nat /\ Len(results) \in Nat /\ At(delivery, "consume") \in Nat
    BY CountTypes, MovingTypes
  <2>4. ResultsMoving = ResultsMoving' + inference.dropped /\ ResultsMoving' \in Nat
    BY <2>1, <2>2, <2>3 DEF ResultsMoving
  <2>5. FramesMoving' = FramesMoving
    BY <1>1, <2>1 DEF FramesMoving, At, Uncounted
  <2>6. /\ metrics'.captured = metrics.captured /\ metrics'.inferred = metrics.inferred
        /\ metrics'.delivered = metrics.delivered
        /\ metrics'.droppedFrames = metrics.droppedFrames
        /\ metrics'.droppedResults = metrics.droppedResults + inference.dropped
        /\ metrics.captured \in Nat /\ metrics.inferred \in Nat /\ metrics.delivered \in Nat
        /\ metrics.droppedFrames \in Nat /\ metrics.droppedResults \in Nat
        /\ FramesMoving \in Nat /\ ResultsMoving \in Nat
    <3>1. metrics \in [captured : Nat, inferred : Nat, delivered : Nat,
                       droppedFrames : Nat, droppedResults : Nat]
      BY CountTypes
    <3>2. FramesMoving \in Nat /\ ResultsMoving \in Nat
      BY MovingTypes
    <3> DEFINE lost == inference.dropped
    <3>3. metrics' = [metrics EXCEPT !.droppedResults = @ + lost]
      BY <2>1
    <3> HIDE DEF lost
    <3>4. /\ metrics'.captured = metrics.captured /\ metrics'.inferred = metrics.inferred
          /\ metrics'.delivered = metrics.delivered
          /\ metrics'.droppedFrames = metrics.droppedFrames
          /\ metrics'.droppedResults = metrics.droppedResults + lost
      BY <3>1, <3>3
    <3>5. QED
      BY <3>1, <3>2, <3>4 DEF lost
  <2>7. QED
    <3>1. CapturedAll'
      BY <1>2, <2>3, <2>4, <2>5, <2>6 DEF CapturedAll
    <3>2. InferredAll'
      BY <1>2, <2>3, <2>4, <2>5, <2>6 DEF InferredAll
    <3>3. QED
      BY <3>1, <3>2
<1>7. CASE InferenceLoop \/ InferenceDrained \/ InferenceClose
  <2>1. /\ inference.at \notin {"detect", "push", "count"}
        /\ inference'.at \notin {"detect", "push", "count"}
        /\ frames' = frames /\ results' = results /\ metrics' = metrics
    BY <1>7, CountTypes DEF InferenceLoop, InferenceDrained, InferenceClose, InferenceGo
  <2>2. FramesMoving' = FramesMoving /\ ResultsMoving' = ResultsMoving
    BY <1>1, <2>1 DEF FramesMoving, ResultsMoving, At, Uncounted
  <2>3. QED
    <3>1. CapturedAll'
      BY <1>2, <2>1, <2>2 DEF CapturedAll
    <3>2. InferredAll'
      BY <1>2, <2>1, <2>2 DEF InferredAll
    <3>3. QED
      BY <3>1, <3>2
<1>8. QED
  BY <1>3, <1>4, <1>5, <1>6, <1>7 DEF InferenceStep

(* A result is taken and counted as delivered.                             *)
LEMMA DeliveryCounts ==
  ASSUME PipelineTypeOK, CountInv, DeliveryStep
  PROVE  CountInv'
<1> SUFFICES ASSUME ~interrupted'
             PROVE  CapturedAll' /\ InferredAll'
  BY DEF CountInv
<1> USE DEF Thread
<1>1. UNCHANGED <<interrupted, capture, inference, frames>>
  BY DEF DeliveryStep, control
<1>2. CapturedAll /\ InferredAll
  BY <1>1 DEF CountInv
<1>3. FramesMoving' = FramesMoving
  BY <1>1 DEF FramesMoving
<1>4. CASE DeliveryPop
  <2>1. /\ delivery.at = "pop" /\ delivery'.at = "consume"
        /\ results' = Tail(results) /\ metrics' = metrics
    BY <1>4, CountTypes DEF DeliveryPop
  <2>2. Len(results') = Len(results) - 1
    BY <1>4, <2>1, CountTypes, PopOfQueue DEF DeliveryPop
  <2>3. /\ At(delivery, "consume") = 0 /\ At(delivery', "consume") = 1
        /\ At(inference', "push") = At(inference, "push")
        /\ Uncounted(inference') = Uncounted(inference)
    BY <1>1, <2>1 DEF At
  <2>4. ResultsMoving' = ResultsMoving
    BY <2>2, <2>3, MovingTypes DEF ResultsMoving
  <2>5. QED
    <3>1. CapturedAll'
      BY <1>2, <1>3, <2>1, <2>4 DEF CapturedAll
    <3>2. InferredAll'
      BY <1>2, <1>3, <2>1, <2>4 DEF InferredAll
    <3>3. QED
      BY <3>1, <3>2
<1>5. CASE DeliveryConsume
  <2>1. /\ delivery.at = "consume" /\ delivery'.at = "loop" /\ results' = results
        /\ metrics' = [metrics EXCEPT !.delivered = @ + 1]
    BY <1>5 DEF DeliveryConsume, Spawned, NoThread
  <2>2. /\ At(delivery, "consume") = 1 /\ At(delivery', "consume") = 0
        /\ At(inference', "push") = At(inference, "push")
        /\ Uncounted(inference') = Uncounted(inference)
    BY <1>1, <2>1 DEF At
  <2>3. ResultsMoving = ResultsMoving' + 1 /\ ResultsMoving' \in Nat
    BY <2>1, <2>2, MovingTypes DEF ResultsMoving
  <2>4. /\ metrics'.captured = metrics.captured /\ metrics'.inferred = metrics.inferred
        /\ metrics'.delivered = metrics.delivered + 1
        /\ metrics'.droppedFrames = metrics.droppedFrames
        /\ metrics'.droppedResults = metrics.droppedResults
        /\ metrics.captured \in Nat /\ metrics.inferred \in Nat /\ metrics.delivered \in Nat
        /\ metrics.droppedFrames \in Nat /\ metrics.droppedResults \in Nat
        /\ FramesMoving \in Nat /\ ResultsMoving \in Nat
    <3>1. metrics \in [captured : Nat, inferred : Nat, delivered : Nat,
                       droppedFrames : Nat, droppedResults : Nat]
      BY CountTypes
    <3>2. FramesMoving \in Nat /\ ResultsMoving \in Nat
      BY MovingTypes
    <3>3. QED
      BY <2>1, <3>1, <3>2
  <2>5. QED
    <3>1. CapturedAll'
      BY <1>2, <1>3, <2>3, <2>4 DEF CapturedAll
    <3>2. InferredAll'
      BY <1>2, <1>3, <2>3, <2>4 DEF InferredAll
    <3>3. QED
      BY <3>1, <3>2
<1>6. CASE DeliveryLoop \/ DeliveryDrained \/ DeliveryFinish
  <2>1. /\ delivery.at # "consume" /\ delivery'.at # "consume"
        /\ results' = results /\ metrics' = metrics
    BY <1>6, CountTypes DEF DeliveryLoop, DeliveryDrained, DeliveryFinish, DeliveryGo
  <2>2. ResultsMoving' = ResultsMoving
    BY <1>1, <2>1 DEF ResultsMoving, At, Uncounted
  <2>3. QED
    <3>1. CapturedAll'
      BY <1>2, <1>3, <2>1, <2>2 DEF CapturedAll
    <3>2. InferredAll'
      BY <1>2, <1>3, <2>1, <2>2 DEF InferredAll
    <3>3. QED
      BY <3>1, <3>2
<1>7. QED
  BY <1>4, <1>5, <1>6 DEF DeliveryStep

(* A start counts from zero; nothing else the client does moves a frame,   *)
(* unless it interrupts the pipeline.                                      *)
LEMMA ClientCounts ==
  ASSUME PipelineTypeOK, JoinedInv, EndInv, CountInv, ClientSteps
  PROVE  CountInv'
<1> SUFFICES ASSUME ~interrupted'
             PROVE  CapturedAll' /\ InferredAll'
  BY DEF CountInv
<1> USE DEF queues, threads, control
<1>1. NoThread.at = "none" /\ Spawned.at = "loop"
  BY DEF NoThread, Spawned
<1>2. CASE StartPrepare
  <2>1. /\ capture'.at = "none" /\ inference'.at = "none" /\ delivery'.at = "none"
        /\ frames' = <<>> /\ results' = <<>> /\ metrics' = NoMetrics
    BY <1>2 DEF StartPrepare, JoinedInv, Active, Joinable
  <2>2. /\ At(capture', "push") = 0 /\ Uncounted(capture') = 0 /\ At(inference', "detect") = 0
        /\ At(inference', "push") = 0 /\ Uncounted(inference') = 0
        /\ At(delivery', "consume") = 0 /\ Len(<<>>) = 0
    BY <2>1 DEF At, Uncounted
  <2>3. FramesMoving' = 0 /\ ResultsMoving' = 0
    BY <2>1, <2>2 DEF FramesMoving, ResultsMoving
  <2>4. QED
    BY <2>1, <2>3 DEF CapturedAll, InferredAll, NoMetrics
<1>3. ASSUME CapturedAll /\ InferredAll, UNCHANGED <<metrics, frames, results>>,
             \/ capture' = capture
             \/ /\ capture.at \in {"none", "loop", "ended"}
                /\ capture'.at \in {"none", "loop", "ended"},
             \/ inference' = inference
             \/ /\ inference.at \in {"none", "loop", "ended"}
                /\ inference'.at \in {"none", "loop", "ended"},
             \/ delivery' = delivery
             \/ /\ delivery.at \in {"none", "loop", "ended"}
                /\ delivery'.at \in {"none", "loop", "ended"}
      PROVE  CapturedAll' /\ InferredAll'
  <2>1. /\ At(capture', "push") = At(capture, "push") /\ Uncounted(capture') = Uncounted(capture)
        /\ At(inference', "detect") = At(inference, "detect")
        /\ At(inference', "push") = At(inference, "push")
        /\ Uncounted(inference') = Uncounted(inference)
        /\ At(delivery', "consume") = At(delivery, "consume")
    BY <1>3 DEF At, Uncounted
  <2>2. FramesMoving' = FramesMoving /\ ResultsMoving' = ResultsMoving
    BY <1>3, <2>1 DEF FramesMoving, ResultsMoving
  <2>3. QED
    BY <1>3, <2>2 DEF CapturedAll, InferredAll
<1>4. CASE StartRefused \/ StartSinkFails \/ Start \/ Stop \/ StopInactive
           \/ \E s \in Sinks : AddSink(s)
  <2>1. UNCHANGED <<metrics, frames, results, capture, inference, delivery>>
    BY <1>4 DEF StartRefused, StartSinkFails, Start, Stop, StopInactive, AddSink
  <2>2. interrupted' = interrupted \/ interrupted' = (interrupted \/ running)
    BY <1>4 DEF StartRefused, StartSinkFails, Start, Stop, StopInactive, AddSink
  <2>3. ~interrupted
    BY <2>2
  <2>4. QED
    BY <1>3, <2>1, <2>3 DEF CountInv
<1>5. CASE SpawnFails
  BY <1>5 DEF SpawnFails
<1>6. CASE Spawn
  <2>1. UNCHANGED <<metrics, frames, results, interrupted>>
    BY <1>6 DEF Spawn
  <2>2. CASE SpawnDelivery
    <3>1. delivery.at = "none" /\ delivery'.at = "loop" /\ UNCHANGED <<capture, inference>>
      BY <1>1, <2>2 DEF SpawnDelivery, JoinedInv, Active, Joinable
    <3>2. QED
      BY <1>3, <2>1, <3>1 DEF CountInv
  <2>3. CASE SpawnInference
    <3>1. inference.at = "none" /\ inference'.at = "loop" /\ UNCHANGED <<capture, delivery>>
      BY <1>1, <2>3 DEF SpawnInference, JoinedInv, Joinable
    <3>2. QED
      BY <1>3, <2>1, <3>1 DEF CountInv
  <2>4. CASE SpawnCapture
    <3>1. capture.at = "none" /\ capture'.at = "loop" /\ UNCHANGED <<inference, delivery>>
      BY <1>1, <2>4 DEF SpawnCapture, JoinedInv, Joinable
    <3>2. QED
      BY <1>3, <2>1, <3>1 DEF CountInv
  <2>5. QED
    BY <1>6, <2>2, <2>3, <2>4 DEF Spawn
<1>7. CASE Stopping /\ StopStep
  <2>1. UNCHANGED <<metrics, frames, results, interrupted>>
    BY <1>7 DEF Stopping, StopStep, StopCloseFrames, StopCloseResults, StopJoinCapture,
                StopJoinInference, StopJoinDelivery, StopRelease
  <2>2. /\ capture' = capture \/ (Ended(capture) /\ capture' = NoThread)
        /\ inference' = inference \/ (Ended(inference) /\ inference' = NoThread)
        /\ delivery' = delivery \/ (Ended(delivery) /\ delivery' = NoThread)
    BY <1>7 DEF Stopping, StopCloseFrames, StopCloseResults, StopJoinCapture, StopJoinInference,
                StopJoinDelivery, StopRelease
  <2>3. QED
    BY <1>1, <1>3, <2>1, <2>2 DEF CountInv, Ended
<1>8. QED
  BY <1>2, <1>4, <1>5, <1>6, <1>7 DEF ClientSteps, Calling

(* Every step keeps the balances.                                          *)
LEMMA CountStep ==
  ASSUME PipelineTypeOK, JoinedInv, EndInv, CountInv, [Next]_vars
  PROVE  CountInv'
<1>1. CASE UNCHANGED vars
  <2>1. UNCHANGED <<interrupted, metrics, frames, results, capture, inference, delivery>>
    BY <1>1 DEF vars, queues, threads, control
  <2>2. QED
    BY <2>1 DEF CountInv, CapturedAll, InferredAll, FramesMoving, ResultsMoving
<1>2. QED
  BY <1>1, KindsOfSteps, CaptureCounts, InferenceCounts, DeliveryCounts, ClientCounts
-----------------------------------------------------------------------------
(* What is on its way stays in order, as sets of ranks.                    *)
LEMMA FewerStayOrdered ==
  ASSUME NEW D, NEW R, NEW I, NEW F, NEW last \in Nat, NEW top \in Nat,
         Ordered(D, R, I, F, last, top),
         NEW D1 \in SUBSET D, NEW R1 \in SUBSET R, NEW I1 \in SUBSET I, NEW F1 \in SUBSET F
  PROVE  Ordered(D1, R1, I1, F1, last, top)
BY DEF Ordered, Before

(* ... when one enters on top of all the others ...                        *)
LEMMA EnteringStaysOrdered ==
  ASSUME NEW D, NEW R, NEW I, NEW F, NEW last \in Nat, NEW top \in Nat, last <= top,
         Ordered(D, R, I, F, last, top), NEW F1 \in SUBSET (F \cup {top + 1})
  PROVE  Ordered(D, R, I, F1, last, top + 1)
BY DEF Ordered, Before, Ranks

(* ... and when the first of one stage moves on to the next.               *)
LEMMA MovingUpStaysOrdered ==
  ASSUME NEW D, NEW R, NEW I, NEW F, NEW last \in Nat, NEW top \in Nat,
         Ordered(D, R, I, F, last, top)
  PROVE  /\ \A f \in F, F1 \in SUBSET F :
              I = {} /\ Before({f}, F1) => Ordered(D, R, {f}, F1, last, top)
         /\ \A R1 \in SUBSET (R \cup I) : Ordered(D, R1, {}, F, last, top)
         /\ \A r \in R, R1 \in SUBSET R :
              D = {} /\ Before({r}, R1) => Ordered({r}, R1, I, F, last, top)
         /\ \A d \in D : D = {d} => Ordered({}, R, I, F, d, top)
<1>1. ASSUME NEW f \in F, NEW F1 \in SUBSET F, I = {}, Before({f}, F1)
      PROVE  Ordered(D, R, {f}, F1, last, top)
  BY <1>1 DEF Ordered, Before
<1>2. ASSUME NEW R1 \in SUBSET (R \cup I)
      PROVE  Ordered(D, R1, {}, F, last, top)
  BY <1>2 DEF Ordered, Before
<1>3. ASSUME NEW r \in R, NEW R1 \in SUBSET R, D = {}, Before({r}, R1)
      PROVE  Ordered({r}, R1, I, F, last, top)
  BY <1>3 DEF Ordered, Before
<1>4. ASSUME NEW d \in D, D = {d}
      PROVE  Ordered({}, R, I, F, d, top)
  BY <1>4 DEF Ordered, Before
<1>5. QED
  BY <1>1, <1>2, <1>3, <1>4

(* A queue that takes a value above its own stays in order.                *)
LEMMA PushKeepsOrder ==
  ASSUME NEW q \in Seq(Ranks), NEW closed \in BOOLEAN, NEW size \in Nat, size >= 1,
         Len(q) <= size, NEW value \in Ranks, Rising(q), Before(Elements(q), {value}),
         NEW r, r = Pushed(q, closed, size, value)
  PROVE  /\ r \in Seq(Ranks) /\ Rising(r)
         /\ closed => r = q
         /\ ~closed => Elements(r) \subseteq Elements(q) \cup {value} /\ value \in Elements(r)
<1>1. CASE closed
  BY <1>1 DEF Pushed
<1>2. CASE ~closed
  <2>1. PushedOnto(r, q, value, Ranks, size)
    BY <1>2, PushOnQueue
  <2> DEFINE k == Len(q) + 1 - Len(r)
  <2>2. /\ r \in Seq(Ranks) /\ Len(r) \in Nat /\ Len(r) >= 1 /\ Len(q) \in Nat /\ k \in Nat
        /\ r[Len(r)] = value
        /\ \A i \in 1..(Len(r) - 1) : i + k \in 1..Len(q) /\ r[i] = q[i + k]
    BY <2>1 DEF PushedOnto
  <2> HIDE DEF k
  <2>3. DOMAIN r = 1..Len(r) /\ DOMAIN q = 1..Len(q)
    BY <2>2
  <2>4. ASSUME NEW i \in DOMAIN r
        PROVE  i \in 1..(Len(r) - 1) \/ i = Len(r)
    BY <2>2, <2>3
  <2>5. \A i \in 1..(Len(r) - 1) : r[i] \in Elements(q)
    BY <2>2, <2>3 DEF Elements
  <2>6. ASSUME NEW i \in DOMAIN r, NEW j \in DOMAIN r, i < j
        PROVE  r[i] < r[j]
    <3>1. i \in 1..(Len(r) - 1)
      BY <2>2, <2>3, <2>6
    <3>2. CASE j = Len(r)
      BY <2>2, <2>5, <3>1, <3>2 DEF Before
    <3>3. CASE j \in 1..(Len(r) - 1)
      <4>1. /\ i + k \in DOMAIN q /\ j + k \in DOMAIN q /\ i + k < j + k
            /\ r[i] = q[i + k] /\ r[j] = q[j + k]
        BY <2>2, <2>3, <2>6, <3>1, <3>3
      <4>2. QED
        BY <4>1 DEF Rising
    <3>4. QED
      BY <2>4, <3>2, <3>3
  <2>7. Elements(r) \subseteq Elements(q) \cup {value}
    BY <2>2, <2>4, <2>5 DEF Elements
  <2>8. value \in Elements(r)
    BY <2>2, <2>3 DEF Elements
  <2>9. QED
    BY <1>2, <2>2, <2>6, <2>7, <2>8 DEF Rising
<1>3. QED
  BY <1>1, <1>2

(* So does one that gives its first away, which is below all the others.   *)
LEMMA PopKeepsOrder ==
  ASSUME NEW q \in Seq(Ranks), q # <<>>, Rising(q)
  PROVE  /\ Rising(Tail(q)) /\ Elements(Tail(q)) \in SUBSET Elements(q)
         /\ Head(q) \in Elements(q) /\ Before({Head(q)}, Elements(Tail(q)))
<1> DEFINE t == Tail(q)
           n == Len(q)
<1>1. /\ t \in Seq(Ranks) /\ Len(t) = n - 1 /\ Head(q) = q[1] /\ n \in Nat \ {0}
      /\ \A i \in 1..(n - 1) : t[i] = q[i + 1]
  BY PopOfQueue
<1>2. DOMAIN t = 1..Len(t) /\ DOMAIN q = 1..n
  BY <1>1
<1> HIDE DEF t, n
<1>3. DOMAIN t = 1..(n - 1)
  BY <1>1, <1>2
<1>4. \A i \in DOMAIN t : i \in Nat /\ i >= 1 /\ i + 1 \in DOMAIN q /\ t[i] = q[i + 1]
  BY <1>1, <1>2, <1>3
<1>5. 1 \in DOMAIN q /\ Head(q) = q[1]
  BY <1>1, <1>2
<1>6. Rising(t)
  BY <1>4 DEF Rising
<1>7. Elements(t) \in SUBSET Elements(q) /\ Head(q) \in Elements(q)
  BY <1>4, <1>5 DEF Elements
<1>8. Before({Head(q)}, Elements(t))
  BY <1>4, <1>5 DEF Before, Elements, Rising
<1>9. QED
  BY <1>6, <1>7, <1>8 DEF t
-----------------------------------------------------------------------------
(* What can still be received, and what a step does to it: it takes away   *)
(* some, or adds the frame that enters, or delivers one above the last.    *)
Pending == Elements(frames) \cup Inferring \cup Elements(results) \cup Delivering

Losing   == Pending' \subseteq Pending /\ entered' = entered /\ received' = received
Entering == /\ entered' = entered + 1 /\ received' = received
            /\ entered' \in Pending' /\ Pending' \subseteq Pending \cup {entered'}
Leaving  == /\ received' \in Pending /\ received < received' /\ entered' = entered
            /\ \A p \in Pending' : p \in Pending /\ p > received'

(* The capture thread puts a frame in, at the expense of older ones.       *)
LEMMA CaptureOrder ==
  ASSUME PipelineTypeOK, OrderInv, CaptureStep
  PROVE  OrderInv' /\ (Losing \/ Entering)
<1> DEFINE F == Elements(frames)
<1>1. UNCHANGED <<results, inference, delivery, received>>
  BY DEF CaptureStep
<1>2. Delivering' = Delivering /\ Inferring' = Inferring /\ Elements(results)' = Elements(results)
  BY <1>1 DEF Delivering, Inferring
<1>3. CASE CapturePush /\ ~framesClosed
  <2>1. /\ frames' = Pushed(frames, framesClosed, FrameQueueSize, entered + 1)
        /\ entered' = entered + 1
    BY <1>3 DEF CapturePush
  <2>2. Before(F, {entered + 1})
    BY CountTypes DEF OrderInv, Ordered, Before, Ranks
  <2>3. /\ Rising(frames') /\ Elements(frames') \subseteq F \cup {entered + 1}
        /\ entered + 1 \in Elements(frames')
    <3>1. Rising(frames)
      BY DEF OrderInv
    <3>2. QED
      BY <1>3, <2>1, <2>2, <3>1, CountTypes, Sizes, PushKeepsOrder
  <2>4. Ordered(Delivering, Elements(results), Inferring, Elements(frames'), received, entered + 1)
    BY <2>3, CountTypes, EnteringStaysOrdered DEF OrderInv
  <2>5. received <= entered + 1
    BY CountTypes DEF OrderInv
  <2>6. OrderInv'
    BY <1>1, <1>2, <2>1, <2>3, <2>4, <2>5 DEF OrderInv
  <2>7. Entering
    BY <1>1, <1>2, <2>1, <2>3 DEF Entering, Pending
  <2>8. QED
    BY <2>6, <2>7
<1>4. CASE ~(CapturePush /\ ~framesClosed)
  <2>1. frames' = frames /\ entered' = entered
    BY <1>4 DEF CaptureStep, CaptureLoop, CaptureReady, CaptureRetries, CaptureEnds, CapturePush,
                CaptureCount, CaptureClose, Pushed
  <2>2. QED
    BY <1>1, <1>2, <2>1 DEF OrderInv, Losing, Pending
<1>5. QED
  BY <1>3, <1>4

(* The inference thread moves the oldest frame on.                         *)
LEMMA InferenceOrder ==
  ASSUME PipelineTypeOK, OrderInv, InferenceStep
  PROVE  OrderInv' /\ Losing
<1> USE DEF Thread
<1>1. UNCHANGED <<delivery, received, entered>>
  BY DEF InferenceStep
<1>2. Delivering' = Delivering
  BY <1>1 DEF Delivering
<1>3. CASE InferencePop
  <2>1. /\ frames # <<>> /\ frames' = Tail(frames) /\ results' = results
        /\ inference.at = "pop" /\ inference'.at = "detect" /\ inference'.frame = Head(frames)
    BY <1>3, CountTypes DEF InferencePop
  <2>2. Inferring = {} /\ Inferring' = {Head(frames)}
    BY <2>1 DEF Inferring, InHand
  <2>3. /\ Rising(frames') /\ Elements(frames') \in SUBSET Elements(frames)
        /\ Head(frames) \in Elements(frames) /\ Before({Head(frames)}, Elements(frames'))
    BY <2>1, CountTypes, PopKeepsOrder DEF OrderInv
  <2>4. Ordered(Delivering, Elements(results), {Head(frames)}, Elements(frames'), received,
                entered)
    BY <2>2, <2>3, CountTypes, MovingUpStaysOrdered DEF OrderInv
  <2>5. OrderInv'
    BY <1>1, <1>2, <2>1, <2>2, <2>3, <2>4 DEF OrderInv
  <2>6. Losing
    BY <1>1, <1>2, <2>1, <2>2, <2>3 DEF Losing, Pending
  <2>7. QED
    BY <2>5, <2>6
<1>4. CASE InferencePush
  <2>1. /\ results' = Pushed(results, resultsClosed, ResultQueueSize, inference.frame)
        /\ frames' = frames /\ inference.at = "push" /\ inference'.at = "count"
        /\ inference.frame \in Ranks
    BY <1>4, CountTypes DEF InferencePush, Outcome
  <2>2. Inferring = {inference.frame} /\ Inferring' = {}
    BY <2>1 DEF Inferring, InHand
  <2>3. Rising(results') /\ Elements(results') \in SUBSET (Elements(results) \cup Inferring)
    <3>1. Rising(results) /\ Before(Elements(results), {inference.frame})
      BY <2>2 DEF OrderInv, Ordered
    <3>2. /\ results \in Seq(Ranks) /\ Len(results) <= ResultQueueSize
          /\ resultsClosed \in BOOLEAN /\ ResultQueueSize \in Nat /\ ResultQueueSize >= 1
      BY CountTypes, Sizes
    <3>3. CASE resultsClosed
      BY <2>1, <3>1, <3>3 DEF Pushed
    <3>4. CASE ~resultsClosed
      <4>1. /\ Rising(results')
            /\ Elements(results') \subseteq Elements(results) \cup {inference.frame}
        BY <2>1, <3>1, <3>2, <3>4, PushKeepsOrder
      <4>2. QED
        BY <2>2, <4>1
    <3>5. QED
      BY <3>3, <3>4
  <2>4. Ordered(Delivering, Elements(results'), {}, Elements(frames), received, entered)
    BY <2>3, CountTypes, MovingUpStaysOrdered DEF OrderInv
  <2>5. OrderInv'
    BY <1>1, <1>2, <2>1, <2>2, <2>3, <2>4 DEF OrderInv
  <2>6. Losing
    BY <1>1, <1>2, <2>1, <2>2, <2>3 DEF Losing, Pending
  <2>7. QED
    BY <2>5, <2>6
<1>5. CASE InferenceLoop \/ InferenceDrained \/ InferenceDetect \/ InferenceCount
           \/ InferenceClose
  <2>1. frames' = frames /\ results' = results
    BY <1>5 DEF InferenceLoop, InferenceDrained, InferenceDetect, InferenceCount, InferenceClose
  <2>2. Inferring' = Inferring
    BY <1>5, CountTypes DEF Inferring, InHand, InferenceLoop, InferenceDrained, InferenceDetect,
       InferenceCount, InferenceClose, InferenceGo, Counted, NoThread
  <2>3. QED
    BY <1>1, <1>2, <2>1, <2>2 DEF OrderInv, Losing, Pending
<1>6. QED
  BY <1>3, <1>4, <1>5 DEF InferenceStep

(* The delivery thread takes the oldest result and delivers it.            *)
LEMMA DeliveryOrder ==
  ASSUME PipelineTypeOK, OrderInv, DeliveryStep
  PROVE  OrderInv' /\ (Losing \/ Leaving)
<1> USE DEF Thread
<1>1. UNCHANGED <<frames, inference, entered>>
  BY DEF DeliveryStep
<1>2. Inferring' = Inferring /\ Elements(frames)' = Elements(frames)
  BY <1>1 DEF Inferring
<1>3. CASE DeliveryPop
  <2>1. /\ results # <<>> /\ results' = Tail(results) /\ received' = received
        /\ delivery.at = "pop" /\ delivery'.at = "consume" /\ delivery'.frame = Head(results)
    BY <1>3, CountTypes DEF DeliveryPop
  <2>2. Delivering = {} /\ Delivering' = {Head(results)}
    BY <2>1 DEF Delivering, InHand
  <2>3. /\ Rising(results') /\ Elements(results') \in SUBSET Elements(results)
        /\ Head(results) \in Elements(results) /\ Before({Head(results)}, Elements(results'))
    BY <2>1, CountTypes, PopKeepsOrder DEF OrderInv
  <2>4. Ordered({Head(results)}, Elements(results'), Inferring, Elements(frames), received,
                entered)
    BY <2>2, <2>3, CountTypes, MovingUpStaysOrdered DEF OrderInv
  <2>5. OrderInv'
    BY <1>1, <1>2, <2>1, <2>2, <2>3, <2>4 DEF OrderInv
  <2>6. Losing
    BY <1>1, <1>2, <2>1, <2>2, <2>3 DEF Losing, Pending
  <2>7. QED
    BY <2>5, <2>6
<1>4. CASE DeliveryConsume
  <2>1. /\ delivery.at = "consume" /\ delivery'.at = "loop" /\ results' = results
        /\ received' = delivery.frame
    BY <1>4 DEF DeliveryConsume, Spawned, NoThread
  <2>2. Delivering = {delivery.frame} /\ Delivering' = {}
    BY <2>1 DEF Delivering, InHand
  <2>3. Ordered({}, Elements(results), Inferring, Elements(frames), delivery.frame, entered)
    BY <2>2, CountTypes, MovingUpStaysOrdered DEF OrderInv
  <2>4. received < delivery.frame /\ delivery.frame <= entered
    BY <2>2 DEF OrderInv, Ordered
  <2>5. OrderInv'
    BY <1>1, <1>2, <2>1, <2>2, <2>3, <2>4 DEF OrderInv
  <2>6. \A p \in Pending' : p \in Pending /\ p > received'
    <3>1. Pending' = Elements(frames) \cup Inferring \cup Elements(results)
      BY <1>1, <1>2, <2>1, <2>2 DEF Pending
    <3>2. \A p \in Elements(frames) \cup Inferring \cup Elements(results) :
            delivery.frame < p /\ p \in Ranks
      BY <2>3 DEF Ordered
    <3>3. QED
      BY <2>1, <3>1, <3>2, CountTypes DEF Pending, Ranks
  <2>7. Leaving
    BY <1>1, <2>1, <2>2, <2>4, <2>6 DEF Leaving, Pending
  <2>8. QED
    BY <2>5, <2>7
<1>5. CASE DeliveryLoop \/ DeliveryDrained \/ DeliveryFinish
  <2>1. results' = results /\ received' = received
    BY <1>5 DEF DeliveryLoop, DeliveryDrained, DeliveryFinish
  <2>2. Delivering' = Delivering
    BY <1>5, CountTypes DEF Delivering, InHand, DeliveryLoop, DeliveryDrained, DeliveryFinish,
       DeliveryGo
  <2>3. QED
    BY <1>1, <1>2, <2>1, <2>2 DEF OrderInv, Losing, Pending
<1>6. QED
  BY <1>3, <1>4, <1>5 DEF DeliveryStep

(* The client may empty the queues of a pipeline at rest.                  *)
LEMMA ClientOrder ==
  ASSUME PipelineTypeOK, JoinedInv, OrderInv, ClientSteps
  PROVE  OrderInv' /\ Losing
<1> USE DEF queues, threads, control
<1>1. NoThread.at = "none" /\ Spawned.at = "loop"
  BY DEF NoThread, Spawned
<1>2. UNCHANGED <<entered, received>>
  BY DEF ClientSteps, Calling, StartRefused, StartSinkFails, StartPrepare, Spawn, SpawnFails,
         StopStep, Stop, Start, StopInactive, AddSink
<1>3. frames' = frames \/ frames' = <<>>
  BY DEF ClientSteps, Stopping, Calling, StartRefused, StartSinkFails, StartPrepare, Spawn,
         SpawnFails, StopCloseFrames, StopCloseResults, StopJoinCapture, StopJoinInference,
         StopJoinDelivery, StopRelease, Stop, Start, StopInactive, AddSink
<1>4. results' = results \/ results' = <<>>
  BY DEF ClientSteps, Stopping, Calling, StartRefused, StartSinkFails, StartPrepare, Spawn,
         SpawnFails, StopCloseFrames, StopCloseResults, StopJoinCapture, StopJoinInference,
         StopJoinDelivery, StopRelease, Stop, Start, StopInactive, AddSink
<1>5. /\ inference' \in {inference, Spawned, NoThread}
      /\ delivery' \in {delivery, Spawned, NoThread}
  BY DEF ClientSteps, Stopping, Calling, StartRefused, StartSinkFails, StartPrepare, Spawn,
         SpawnDelivery, SpawnInference, SpawnCapture,
         SpawnFails, StopCloseFrames, StopCloseResults, StopJoinCapture, StopJoinInference,
         StopJoinDelivery, StopRelease, Stop, Start, StopInactive, AddSink
<1>6. /\ Rising(frames') /\ Elements(frames') \in SUBSET Elements(frames)
      /\ Rising(results') /\ Elements(results') \in SUBSET Elements(results)
  BY <1>3, <1>4 DEF OrderInv, Rising, Elements
<1>7. Inferring' \in SUBSET Inferring /\ Delivering' \in SUBSET Delivering
  BY <1>1, <1>5 DEF Inferring, Delivering, InHand
<1>8. Ordered(Delivering', Elements(results'), Inferring', Elements(frames'), received, entered)
  BY <1>6, <1>7, CountTypes, FewerStayOrdered DEF OrderInv
<1>9. OrderInv'
  BY <1>2, <1>6, <1>8 DEF OrderInv
<1>10. Losing
  BY <1>2, <1>6, <1>7 DEF Losing, Pending
<1>11. QED
  BY <1>9, <1>10

(* Every step keeps the order, and loses, puts in or delivers.             *)
LEMMA OrderStep ==
  ASSUME PipelineTypeOK, JoinedInv, OrderInv, [Next]_vars
  PROVE  OrderInv' /\ (Losing \/ Entering \/ Leaving)
<1>1. CASE UNCHANGED vars
  <2>1. UNCHANGED <<frames, results, inference, delivery, entered, received>>
    BY <1>1 DEF vars, queues, threads
  <2>2. QED
    BY <2>1 DEF OrderInv, Losing, Pending, Inferring, Delivering
<1>2. QED
  BY <1>1, KindsOfSteps, CaptureOrder, InferenceOrder, DeliveryOrder, ClientOrder
-----------------------------------------------------------------------------
(* The invariant, and what follows from it.                                *)
LEMMA InvariantInit == Init => PipelineInv
<1> SUFFICES ASSUME Init
             PROVE  PipelineInv
  OBVIOUS
<1>1. /\ frames = <<>> /\ results = <<>> /\ metrics = NoMetrics /\ entered = 0 /\ received = 0
      /\ capture = NoThread /\ inference = NoThread /\ delivery = NoThread
      /\ framesClosed = FALSE /\ resultsClosed = FALSE /\ running = FALSE /\ api = "idle"
      /\ sourceOpen = FALSE /\ added = {} /\ started = {} /\ interrupted = FALSE
      /\ restarting = FALSE /\ starts = 0 /\ dropOld \in BOOLEAN
  BY DEF Init
<1>2. /\ NoThread \in Thread(CapturePoints) /\ NoThread \in Thread(InferencePoints)
      /\ NoThread \in Thread(DeliveryPoints) /\ NoThread.at = "none"
  BY DEF NoThread, Thread, CapturePoints, InferencePoints, DeliveryPoints
<1>3. <<>> \in Seq(Ranks) /\ Len(<<>>) = 0 /\ 0 <= FrameQueueSize /\ 0 <= ResultQueueSize
  BY Sizes
<1>4. QueuesOK /\ ThreadsOK
  BY <1>1, <1>2, <1>3 DEF QueuesOK, ThreadsOK
<1>5. ControlOK
  BY <1>1 DEF ControlOK, ApiPoints, NoMetrics
<1>6. JoinedInv /\ UseInv /\ EndInv
  BY <1>1, <1>2 DEF JoinedInv, UseInv, EndInv, Active, Joinable, Ended
<1>7. FramesMoving = 0 /\ ResultsMoving = 0
  <2>1. /\ At(capture, "push") = 0 /\ Uncounted(capture) = 0 /\ At(inference, "detect") = 0
        /\ At(inference, "push") = 0 /\ Uncounted(inference) = 0
        /\ At(delivery, "consume") = 0
    BY <1>1, <1>2 DEF At, Uncounted
  <2>2. QED
    BY <1>1, <1>3, <2>1 DEF FramesMoving, ResultsMoving
<1>8. CountInv
  BY <1>1, <1>7 DEF CountInv, CapturedAll, InferredAll, NoMetrics
<1>9. /\ Inferring = {} /\ Delivering = {} /\ Elements(frames) = {} /\ Elements(results) = {}
      /\ Rising(frames) /\ Rising(results)
  BY <1>1, <1>2 DEF Inferring, Delivering, InHand, Elements, Rising
<1>10. OrderInv
  BY <1>1, <1>9 DEF OrderInv, Ordered, Before
<1>11. QED
  BY <1>4, <1>5, <1>6, <1>8, <1>10 DEF PipelineInv, PipelineTypeOK

(* The invariant of the pipeline: types, what exists and is in use, how    *)
(* the threads end, what the counters count and in which order.            *)
THEOREM PipelineInvariant == Spec => []PipelineInv
<1>1. PipelineInv /\ [Next]_vars => PipelineInv'
  BY TypeStep, UseStep, EndStep, CountStep, OrderStep DEF PipelineInv
<1>2. QED
  BY <1>1, InvariantInit, PTL DEF Spec

(* The variables have their types: the queues never hold more than their   *)
(* sizes, whatever the policy.                                             *)
THEOREM TypeCorrect == Spec => []PipelineTypeOK
<1>1. PipelineInv => PipelineTypeOK
  BY DEF PipelineInv
<1>2. QED
  BY <1>1, PipelineInvariant, PTL

(* The source is read and the sinks are used between their start and their *)
(* stop only (start, stop and the three loops of DetectionPipeline.cpp).   *)
THEOREM ResourcesAreBracketed == Spec => []ResourcesBracketed
<1>1. PipelineInv => ResourcesBracketed
  BY DEF PipelineInv, JoinedInv, UseInv, ResourcesBracketed, Joinable, Ended
<1>2. QED
  BY <1>1, PipelineInvariant, PTL

(* When isRunning() turns false without a stop(), every captured frame is  *)
(* delivered or counted as dropped.                                        *)
THEOREM EveryFrameIsAccountedFor == Spec => []DrainsAtEnd
<1>1. ASSUME PipelineInv, ~running, ~interrupted
      PROVE  /\ metrics.captured = metrics.inferred + metrics.droppedFrames
             /\ metrics.inferred = metrics.delivered + metrics.droppedResults
  <2>1. /\ frames = <<>> /\ results = <<>> /\ Ended(capture) /\ Ended(inference)
        /\ Ended(delivery) /\ CapturedAll /\ InferredAll
    BY <1>1 DEF PipelineInv, EndInv, CountInv
  <2>2. /\ At(capture, "push") = 0 /\ Uncounted(capture) = 0 /\ At(inference, "detect") = 0
        /\ At(inference, "push") = 0 /\ Uncounted(inference) = 0
        /\ At(delivery, "consume") = 0
    BY <2>1 DEF At, Uncounted, Ended
  <2>3. Len(<<>>) = 0
    OBVIOUS
  <2>4. FramesMoving = 0 /\ ResultsMoving = 0
    BY <2>1, <2>2, <2>3 DEF FramesMoving, ResultsMoving
  <2>5. /\ metrics.inferred \in Nat /\ metrics.droppedFrames \in Nat
        /\ metrics.delivered \in Nat /\ metrics.droppedResults \in Nat
    BY <1>1, MovingTypes DEF PipelineInv
  <2>6. QED
    BY <2>1, <2>4, <2>5 DEF CapturedAll, InferredAll
<1>2. PipelineInv => DrainsAtEnd
  BY <1>1 DEF DrainsAtEnd
<1>3. QED
  BY <1>2, PipelineInvariant, PTL

(* From the first queue to the sinks the pipeline is a lossy channel: what *)
(* is delivered was captured, is delivered once, and in order.             *)
THEOREM PipelineImplementsChannel == Spec => ImplementsChannel
<1>1. Init => Channel!Init
  BY DEF Init, Channel!Init, InHand, NoThread
<1>2. ASSUME PipelineInv, [Next]_vars
      PROVE  [Channel!Next]_(Channel!vars)
  <2>1. Losing \/ Entering \/ Leaving
    BY <1>2, OrderStep DEF PipelineInv
  <2> USE DEF Pending, Elements, Inferring, Delivering
  <2>2. CASE Losing
    BY <2>2 DEF Losing, Channel!Next, Channel!Lose
  <2>3. CASE Entering
    <3> DEFINE kept == Pending' \ {entered + 1}
    <3>1. kept \in SUBSET Pending /\ Pending' = kept \cup {entered + 1}
      BY <2>3 DEF Entering
    <3>2. QED
      BY <2>3, <3>1 DEF Entering, Channel!Next, Channel!Send
  <2>4. CASE Leaving
    BY <2>4 DEF Leaving, Channel!Next, Channel!Receive
  <2>5. QED
    BY <2>1, <2>2, <2>3, <2>4
<1>3. QED
  BY <1>1, <1>2, PipelineInvariant, PTL DEF Spec, ImplementsChannel, Channel!Spec
-----------------------------------------------------------------------------
(* The life of a pipeline, as the window sees it.                          *)

(* The client starts a pipeline that rests and stops one at any time.      *)
LEMMA LifeOfClient ==
  ASSUME PipelineInv, ClientSteps
  PROVE  [Life!Starts \/ Life!Stops]_PipelineStatus
<1> USE DEF PipelineStatus, Active, Joinable, queues, threads, outside, control
<1>1. JoinedInv /\ UseInv /\ running \in BOOLEAN /\ interrupted \in BOOLEAN
  BY DEF PipelineInv, PipelineTypeOK, ControlOK
<1>2. CASE StartRefused \/ StartSinkFails \/ Calling
  BY <1>2 DEF StartRefused, StartSinkFails, Calling, Start, StopInactive, AddSink
<1>3. CASE StartPrepare
  BY <1>1, <1>3 DEF StartPrepare, JoinedInv, Life!Starts
<1>4. CASE Spawn
  <2>1. running /\ ~Joinable(capture) /\ UNCHANGED running
    BY <1>1, <1>4 DEF Spawn, SpawnDelivery, SpawnInference, SpawnCapture, JoinedInv, UseInv
  <2>2. capture' \in {capture, Spawned}
    BY <1>4 DEF Spawn, SpawnDelivery, SpawnInference, SpawnCapture
  <2>3. QED
    BY <2>1, <2>2 DEF Spawned, NoThread
<1>5. CASE SpawnFails
  BY <1>5 DEF SpawnFails, Life!Stops
<1>6. CASE Stop
  <2>1. ~running' /\ interrupted' = (interrupted \/ running) /\ UNCHANGED threads
    BY <1>6 DEF Stop
  <2>2. CASE running
    BY <2>1, <2>2 DEF Life!Stops
  <2>3. CASE ~running
    BY <1>1, <2>1, <2>3
  <2>4. QED
    BY <2>2, <2>3
<1>7. CASE Stopping /\ StopStep
  <2>1. ~running /\ UNCHANGED <<running, interrupted>>
    BY <1>1, <1>7 DEF Stopping, StopStep, StopCloseFrames, StopCloseResults, StopJoinCapture,
                      StopJoinInference, StopJoinDelivery, StopRelease, JoinedInv
  <2>2. Active' => Active
    BY <1>7 DEF Stopping, StopCloseFrames, StopCloseResults, StopJoinCapture,
                StopJoinInference, StopJoinDelivery, StopRelease, NoThread
  <2>3. QED
    BY <2>1, <2>2 DEF Life!Stops
<1>8. QED
  BY <1>2, <1>3, <1>4, <1>5, <1>6, <1>7 DEF ClientSteps

(* The capture thread comes to its end; the status tells of a running one. *)
LEMMA LifeOfCapture ==
  ASSUME PipelineInv, CaptureStep
  PROVE  [Life!Ends]_PipelineStatus
<1> USE DEF Thread, CapturePoints
<1>1. /\ capture \in Thread(CapturePoints)
      /\ UNCHANGED <<running, interrupted, inference, delivery>>
  BY DEF PipelineInv, PipelineTypeOK, ThreadsOK, CaptureStep, CaptureClose, control
<1>2. /\ Joinable(capture) /\ Joinable(capture')
      /\ capture.at \in {"close", "ended"} => capture'.at \in {"close", "ended"}
  <2>1. CASE CaptureLoop \/ CaptureReady \/ CaptureRetries
    BY <1>1, <2>1 DEF CaptureLoop, CaptureReady, CaptureRetries, CaptureGo, Joinable
  <2>2. CASE CaptureEnds \/ CaptureClose
    BY <1>1, <2>2 DEF CaptureEnds, CaptureClose, CaptureGo, Joinable
  <2>3. CASE CapturePush \/ CaptureCount
    BY <1>1, <2>3 DEF CapturePush, CaptureCount, Outcome, Counted, NoThread, Joinable
  <2>4. QED
    BY <2>1, <2>2, <2>3 DEF CaptureStep
<1>3. QED
  BY <1>1, <1>2 DEF PipelineStatus, Active, Joinable, Life!Ends

(* The inference thread tells the window nothing.                          *)
LEMMA LifeOfInference ==
  ASSUME PipelineInv, InferenceStep
  PROVE  UNCHANGED PipelineStatus
<1>1. inference \in Thread(InferencePoints)
  BY DEF PipelineInv, PipelineTypeOK, ThreadsOK
<1>2. Joinable(inference) /\ Joinable(inference')
  <2> USE DEF Thread, InferencePoints, Joinable, InferenceGo
  <2>1. CASE InferenceLoop \/ InferencePop \/ InferenceDrained
    BY <1>1, <2>1 DEF InferenceLoop, InferencePop, InferenceDrained
  <2>2. CASE InferenceDetect \/ InferenceClose
    BY <1>1, <2>2 DEF InferenceDetect, InferenceClose
  <2>3. CASE InferencePush \/ InferenceCount
    BY <1>1, <2>3 DEF InferencePush, InferenceCount, Outcome, Counted, NoThread
  <2>4. QED
    BY <2>1, <2>2, <2>3 DEF InferenceStep
<1>3. QED
  BY <1>2 DEF InferenceStep, PipelineStatus, Active, Joinable, control

(* The delivery thread ends a run whose other threads have ended before.   *)
LEMMA LifeOfDelivery ==
  ASSUME PipelineInv, DeliveryStep
  PROVE  [Life!Drains]_PipelineStatus
<1>1. /\ delivery \in Thread(DeliveryPoints) /\ running \in BOOLEAN
      /\ JoinedInv /\ EndInv /\ UNCHANGED <<capture, inference, interrupted>>
  BY DEF PipelineInv, PipelineTypeOK, ThreadsOK, ControlOK, DeliveryStep, control
<1>2. Joinable(delivery) /\ Joinable(delivery')
  <2> USE DEF Thread, DeliveryPoints, Joinable, DeliveryGo
  <2>1. CASE DeliveryLoop \/ DeliveryPop \/ DeliveryDrained
    BY <1>1, <2>1 DEF DeliveryLoop, DeliveryPop, DeliveryDrained
  <2>2. CASE DeliveryConsume \/ DeliveryFinish
    BY <1>1, <2>2 DEF DeliveryConsume, DeliveryFinish, Spawned, NoThread
  <2>3. QED
    BY <2>1, <2>2 DEF DeliveryStep
<1>3. CASE UNCHANGED running
  BY <1>1, <1>2, <1>3 DEF PipelineStatus, Active, Joinable
<1>4. CASE DeliveryFinish /\ running
  <2>1. resultsClosed /\ ~interrupted
    BY <1>1, <1>4 DEF DeliveryFinish, JoinedInv, EndInv
  <2>2. inference.at = "ended" /\ capture.at = "ended"
    BY <1>1, <1>4, <2>1 DEF EndInv
  <2>3. PipelineStatus = "ending"
    BY <1>4, <2>2 DEF PipelineStatus
  <2>4. PipelineStatus' = "ended"
    BY <1>1, <1>2, <1>4, <2>1 DEF PipelineStatus, Active, DeliveryFinish, Joinable
  <2>5. QED
    BY <2>3, <2>4 DEF Life!Drains
<1>5. QED
  BY <1>1, <1>3, <1>4 DEF DeliveryStep, DeliveryLoop, DeliveryPop, DeliveryDrained,
                          DeliveryConsume, DeliveryFinish

(* A pipeline is what the window takes it for: it ends by itself only      *)
(* after it has drained, and it is not started again while it runs (start, *)
(* stop and the loops of DetectionPipeline.cpp).                           *)
THEOREM PipelineImplementsLife == Spec => ImplementsPipelineLife
<1>1. Init => Life!Init
  BY DEF Init, Life!Init, PipelineStatus, Active, Joinable, NoThread
<1>2. PipelineInv /\ [Next]_vars => [Life!Next]_PipelineStatus
  <2> SUFFICES ASSUME PipelineInv, [Next]_vars PROVE [Life!Next]_PipelineStatus
    OBVIOUS
  <2>1. CASE UNCHANGED vars
    BY <2>1 DEF vars, threads, control, PipelineStatus, Active, Joinable
  <2>2. CASE ClientSteps
    BY <2>2, LifeOfClient DEF Life!Next
  <2>3. CASE CaptureStep \/ InferenceStep \/ DeliveryStep
    BY <2>3, LifeOfCapture, LifeOfInference, LifeOfDelivery DEF Life!Next
  <2>4. QED
    BY <2>1, <2>2, <2>3, KindsOfSteps
<1>3. QED
  BY <1>1, <1>2, PipelineInvariant, PTL DEF Spec, ImplementsPipelineLife, Life!Spec
-----------------------------------------------------------------------------
(* The window of the desktop program around a pipeline.                    *)
Windows == [model : BOOLEAN, hasSource : BOOLEAN, stop : BOOLEAN, open : BOOLEAN,
            refresh : BOOLEAN]

(* Stopping is offered when starting is not; while the pipeline runs it is *)
(* offered, and no message is shown.                                       *)
WindowInv ==
  /\ window \in Windows /\ pipeline \in {"none", "idle", "running", "ending", "ended"}
  /\ window.stop = ~window.open /\ (window.refresh => window.open)
  /\ IsRunning => window.stop /\ dialog = "none"

(* What SetRunningUi leaves.                                               *)
LEMMA UiFacts ==
  ASSUME NEW w \in Windows, NEW up \in BOOLEAN
  PROVE  LET ui == SetRunningUi(w, up)
         IN  /\ ui \in Windows
             /\ ui.stop = up /\ ui.open = ~up /\ (ui.refresh => ~up)
BY DEF SetRunningUi, Windows

(* A window that opens has no pipeline yet.                                *)
LEMMA WindowInit ==
  ASSUME DesktopInit
  PROVE  WindowInv
<1>1. /\ window = [model |-> FALSE, hasSource |-> FALSE, stop |-> FALSE, open |-> TRUE,
                   refresh |-> FALSE]
      /\ pipeline = "none" /\ ~IsRunning
  BY DEF DesktopInit, IsRunning
<1>2. ~window.stop /\ window.open /\ ~window.refresh
  BY <1>1
<1>3. window \in Windows
  BY <1>1 DEF Windows
<1>4. QED
  BY <1>1, <1>2, <1>3 DEF WindowInv

(* Each click and each event of the pipeline keeps it.                    *)
LEMMA WindowStep ==
  ASSUME WindowInv, [DesktopNext]_desktop
  PROVE  WindowInv'
<1> USE DEF WindowInv, IsRunning
<1>1. ASSUME NEW w \in Windows, NEW up \in BOOLEAN,
             window' = SetRunningUi(w, up),
             IsRunning' => up /\ dialog' = "none",
             pipeline' \in {"none", "idle", "running", "ending", "ended"}
      PROVE  WindowInv'
  BY <1>1, UiFacts
<1>2. CASE ChooseModel
  BY <1>2 DEF ChooseModel, Click, Windows
<1>3. CASE SourceRefused
  BY <1>3 DEF SourceRefused, Click, Stopped
<1>4. CASE StopPipeline
  BY <1>1, <1>4 DEF StopPipeline, Click, Stopped
<1>5. CASE RefreshPipeline
  <2>1. PICK there \in {~broken, FALSE} :
          LET s == Opened(Closed(source), there)
          IN  /\ pipeline' = IF s.opened THEN "running" ELSE "idle"
              /\ dialog' = IF s.opened THEN "none" ELSE "failed"
              /\ window' = IF s.opened THEN SetRunningUi(window, TRUE) ELSE window
    BY <1>5 DEF RefreshPipeline
  <2> DEFINE opens == Opened(Closed(source), there).opened
  <2>2. CASE opens
    BY <1>1, <2>1, <2>2
  <2>3. CASE ~opens
    BY <2>1, <2>3
  <2>4. QED
    BY <2>2, <2>3
<1>6. ASSUME NEW kind \in SourceKinds, StartFails(kind)
      PROVE  WindowInv'
  BY <1>6 DEF StartFails, Click
<1>7. ASSUME NEW kind \in SourceKinds, StartSource(kind)
      PROVE  WindowInv'
  <2>1. [window EXCEPT !.hasSource = TRUE] \in Windows
    BY DEF Windows
  <2>2. QED
    BY <1>1, <1>7, <2>1 DEF StartSource, Click
<1>8. CASE CloseDialog
  BY <1>1, <1>8 DEF CloseDialog
<1>9. CASE UpdateMetrics
  BY <1>1, <1>9 DEF UpdateMetrics
<1>10. CASE Capture \/ Drained \/ Breaks
  BY <1>10 DEF Capture, Drained, Breaks
<1>11. CASE UNCHANGED desktop
  BY <1>11 DEF desktop
<1>12. QED
  BY <1>2, <1>3, <1>4, <1>5, <1>6, <1>7, <1>8, <1>9, <1>10, <1>11 DEF DesktopNext

(* The buttons of MainWindow.cpp agree with the pipeline: one that runs    *)
(* can be stopped, and neither start nor refresh is offered over it.       *)
THEOREM ButtonsAgreeWithPipeline == DesktopSpec => []ButtonsTellPipeline
<1>1. DesktopSpec => []WindowInv
  BY WindowInit, WindowStep, PTL DEF DesktopSpec
<1>2. WindowInv => ButtonsTellPipeline
  BY DEF WindowInv, ButtonsTellPipeline
<1>3. QED
  BY <1>1, <1>2, PTL

(* What the window does to a pipeline a pipeline can do: startSource and   *)
(* refreshPipeline start one that is at rest, since only then a button     *)
(* offers it.                                                              *)
LEMMA WindowUses ==
  ASSUME WindowInv, [DesktopNext]_desktop
  PROVE  [Follows!Next]_(IF pipeline = "none" THEN "idle" ELSE pipeline)
<1> USE DEF Follows!Next, Follows!Starts, Follows!Stops
<1>1. ASSUME window.open \/ window.refresh
      PROVE  pipeline \in {"none", "idle", "ended"}
  BY <1>1 DEF WindowInv, IsRunning
<1>2. CASE ChooseModel \/ CloseDialog \/ UpdateMetrics \/ Breaks
  BY <1>2 DEF ChooseModel, CloseDialog, UpdateMetrics, Breaks
<1>3. CASE SourceRefused \/ StopPipeline
  BY <1>3 DEF SourceRefused, StopPipeline, Stopped
<1>4. ASSUME NEW kind \in SourceKinds, StartFails(kind) \/ StartSource(kind)
      PROVE  Follows!Next
  <2>1. pipeline \in {"none", "idle", "ended"} /\ pipeline' \in {"running", "idle"}
    BY <1>1, <1>4 DEF StartFails, StartSource
  <2>2. QED
    BY <2>1
<1>5. CASE RefreshPipeline
  <2>1. pipeline \in {"none", "idle", "ended"} /\ pipeline' \in {"running", "idle"}
    BY <1>1, <1>5 DEF RefreshPipeline
  <2>2. QED
    BY <2>1
<1>6. CASE Capture \/ Drained
  BY <1>6 DEF Capture, Drained, Follows!Ends, Follows!Drains
<1>7. CASE UNCHANGED desktop
  BY <1>7 DEF desktop
<1>8. QED
  BY <1>2, <1>3, <1>4, <1>5, <1>6, <1>7 DEF DesktopNext

(* The window starts no pipeline over one that runs, and gives one up only *)
(* by stop(): it uses its pipeline as PipelineLife says one can be used    *)
(* (MainWindow.cpp and AppController.cpp).                                 *)
THEOREM WindowFollowsPipeline == DesktopSpec => FollowsPipelineLife
<1>1. DesktopInit => Follows!Init
  BY DEF DesktopInit, Follows!Init
<1>2. DesktopSpec => []WindowInv
  BY WindowInit, WindowStep, PTL DEF DesktopSpec
<1>3. QED
  BY <1>1, <1>2, WindowUses, PTL DEF DesktopSpec, FollowsPipelineLife,
                                     Follows!Spec
=============================================================================
