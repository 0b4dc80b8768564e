------------------------ MODULE CameraSession_proofs -------------------------
(***************************************************************************)
(* For every queue size and failure limit and every interleaving of the    *)
(* four threads: results do not cross a reconnect, nor a restart but for   *)
(* the frames stamped during the stop before it; they arrive in order; a   *)
(* stopped session is quiet; the reported state is true and the counters   *)
(* agree; to others the session lives as SessionLife says, and it relies   *)
(* of its control worker on what ControlLife says.                         *)
(***************************************************************************)
EXTENDS CameraSession, LatestValueQueueOps_proofs

Elements(s) == {s[i] : i \in 1..Len(s)}

(* The stamped frames, wherever they are.                                  *)
InFlight == Elements(queue) \cup Elements(results) \cup tracker
              \cup (IF At("push") THEN {capture.frame} ELSE {})
              \cup (IF worker.at = "idle" THEN {} ELSE {worker.frame})
              \cup (IF delivery.at = "idle" THEN {} ELSE {delivery.frame})

(* The frames past the last check of the generation.                       *)
Settled == tracker \cup (IF delivery.at = "update" THEN {delivery.frame} ELSE {})

(* The steps of start() and stop(), and what else happens to their worker. *)
ClientStep == ApiStep \/ ApiCall \/ (ControlWakes /\ ApiUnchanged)

(* The capture thread is about to make a connection ...                    *)
Unconnected == {"loop", "mark", "open", "disconnected", "backOff"}

(* ... or has made it and reads nothing from it yet ...                    *)
Clean == Unconnected \cup {"online", "resetGeneration", "resetQueue", "resetTracker"}

(* ... or has lost the last one.                                           *)
Between == Clean \cup {"lostQueue", "lostTracker"}

(* start() has advanced the generation for the thread it is to create.     *)
Launching == {"announce", "run", "control", "spawn", "abandon", "fault"}

(* The capture thread does not exist.                                      *)
Joined == {"clearQueue", "clearTracker", "stopped", "resetQueue", "resetTracker",
           "resetMetrics", "newGeneration"} \cup Launching

(* There is none, and stop() has reset the tracker.                        *)
Cleared == capture.at = "none" /\ api \notin {"clearQueue", "clearTracker"}

(* stop() has advanced the generation and not yet reset the tracker.       *)
Quitting == api \in {"closeQueue", "stopControl", "join", "clearQueue", "clearTracker"}

LockInv == processing = "delivery" <=> delivery.at = "update"

ControlInv == /\ running => api \in {"idle", "stop", "control", "spawn"}
              /\ api \in {"run", "control", "spawn"} => state = "Starting"
              /\ api \in Joined => capture.at = "none"
              /\ control \in {"on", "lost"} =>
                   api \in {"spawn", "abandon"} \/ (capture.at # "none" /\ api # "join")
              /\ control = "lost" => api \in {"stopControl", "abandon"}
              /\ Quitting /\ capture.at \in {"read", "stamp"} => generation = advanced
              /\ StateTruthful

(* No stamp is ahead of its time.                                          *)
PastInv == \A f \in InFlight : f.gen <= generation

(* A frame is stamped while the connection it was read from lasts.         *)
StampInv == At("stamp") \/ At("push") => capture.frame.open = opens

(* A frame that would pass the check is of the present connection; between *)
(* two connections and while a session is being launched there is none;    *)
(* once stop() has advanced the generation, and until the next start, its  *)
(* stamp is from that stop.                                                *)
CurrentInv == \A f \in InFlight :
                f.gen = generation =>
                  /\ f.open = opens
                  /\ capture.at \notin Between
                  /\ api \notin Launching
                  /\ Quitting => generation = advanced
                  /\ Cleared => generation = retired

(* What is past the check is of the present connection, or it was stamped  *)
(* during the last stop() and is one connection old; all of the second     *)
(* kind is gone before the next connection is made.                        *)
SettledInv == /\ \A f \in Settled :
                   f.open = opens \/ (f.gen = retired /\ f.open = opens - 1)
              /\ (capture.at \in Clean \/ Cleared) => \A f \in Settled : f.gen = retired
              /\ (capture.at \in Unconnected \/ Cleared) =>
                   \A f \in Settled : f.open = opens

QuietInv == capture.at = "none" /\ api # "clearQueue" => queue = <<>>
-----------------------------------------------------------------------------
(* The order of the frames: from the tracker back to the source, each      *)
(* stage holds frames that were read after those of the stage before it.   *)

Ids(q) == {q[i].id : i \in 1..Len(q)}
Rising(q) == \A i, j \in 1..Len(q) : i < j => q[i].id < q[j].id

Tracked == {f.id : f \in tracker}
Delivering == IF delivery.at = "idle" THEN {} ELSE {delivery.frame.id}
Inferring == IF worker.at = "idle" THEN {} ELSE {worker.frame.id}
Reading == IF capture.at \in {"stamp", "push"} THEN {capture.frame.id} ELSE {}

Before(A, B) == \A a \in A, b \in B : a < b

Ordered(T, D, R, I, Q, C, next) ==
  /\ Before(T, D \cup R \cup I \cup Q \cup C) /\ Before(D, R \cup I \cup Q \cup C)
  /\ Before(R, I \cup Q \cup C) /\ Before(I, Q \cup C) /\ Before(Q, C)
  /\ T \cup D \cup R \cup I \cup Q \cup C \subseteq 0..(next - 1)

OrderInv == /\ Rising(queue) /\ Rising(results)
            /\ Ordered(Tracked, Delivering, Ids(results), Inferring, Ids(queue), Reading,
                       nextFrameId)
-----------------------------------------------------------------------------
(* The counters: what one takeForInference has taken and not yet counted,  *)
(* what a push has accepted and not yet counted, and what a restart may    *)
(* find taken.                                                             *)
Taken == IF worker.at = "count" THEN worker.older + 1
         ELSE IF worker.at = "schedule" THEN 1 ELSE 0
InDetector == IF worker.at = "infer" THEN 1 ELSE 0
Accepted == IF capture.accepted THEN 1 ELSE 0
CarriedOver(n) == IF starts > 1 THEN n ELSE 0

Parted == metrics.dropped + capture.dropped + metrics.skipped + metrics.stale
            + metrics.scheduled + Len(queue) + Taken

(* Before the first frame can have been read ...                           *)
Untouched == \/ starts = 0
             \/ starts = 1 /\ api \in {"resetQueue", "resetTracker", "resetMetrics",
                                       "newGeneration"} \cup Launching

(* ... the worker has nothing in hand; only then a start is not a restart. *)
FreshInv == /\ Untouched => /\ capture.at = "none" /\ worker.at = "idle" /\ queue = <<>>
            /\ starts = 0 => api = "idle"
            /\ restarting => starts > 1

(* A hand is counted once.                                                 *)
HandInv == /\ capture.at # "count" => ~capture.accepted /\ capture.dropped = 0
           /\ worker.at = "count" => worker.older + 1 <= QueueSize

TallyInv == /\ Parted <= metrics.captured + Accepted + CarriedOver(QueueSize)
            /\ metrics.inferred + InDetector <= metrics.scheduled + CarriedOver(1)

CountInv == FreshInv /\ HandInv /\ TallyInv

SessionInv == /\ TypeOK /\ LockInv /\ ControlInv /\ PastInv /\ StampInv /\ CurrentInv
              /\ SettledInv /\ QuietInv /\ OrderInv /\ CountInv
-----------------------------------------------------------------------------
(* Types.                                                                  *)

(* The capacities are positive.                                            *)
LEMMA ConstantFacts == /\ QueueSize \in Nat /\ QueueSize >= 1
                       /\ ResultCapacity \in Nat /\ ResultCapacity >= 1
BY QueueSizeAssumption, ResultCapacityAssumption

(* An empty hand holds a frame of no rank.                                 *)
LEMMA NoFrameType == NoFrame \in Frame
BY DEF NoFrame, Frame

(* The empty sequence is a queue of any capacity.                          *)
LEMMA EmptyQueue == /\ \A n \in Nat : <<>> \in Queues(n)
                    /\ Elements(<<>>) = {}
BY DEF Elements, Queues

(* A push that sheds: the type and the values.                             *)
LEMMA PushType ==
  ASSUME NEW n \in Nat, n >= 1, NEW q \in Queues(n), NEW f \in Frame
  PROVE  /\ PushLatest(q, f, n) \in Queues(n)
         /\ Elements(PushLatest(q, f, n)) \subseteq Elements(q) \cup {f}
         /\ Dropped(q, n) \in Nat
<1> DEFINE r == PushLatest(q, f, n)
<1>1. q \in Seq(Frame) /\ Len(q) <= n
  BY DEF Queues
<1>2. PushedOnto(r, q, f, Frame, n)
  BY <1>1, PushFacts
<1>3. Dropped(q, n) \in Nat
  <2>1. PICK k \in Nat : Len(Shed(q, n)) + k = Len(q)
    BY <1>1, ShedFacts
  <2>2. Shed(q, n) \in Seq(Frame)
    BY <1>1, ShedFacts
  <2>3. Len(Shed(q, n)) \in Nat /\ Len(q) \in Nat
    BY <1>1, <2>2
  <2>4. QED
    BY <2>1, <2>3 DEF Dropped
<1> HIDE DEF r
<1>4. ASSUME NEW i \in 1..Len(r) PROVE r[i] \in Elements(q) \cup {f}
  <2>1. CASE i = Len(r)
    BY <1>2, <2>1 DEF PushedOnto
  <2>2. CASE i \in 1..(Len(r) - 1)
    <3>1. PICK j \in 1..Len(q) : r[i] = q[j]
      BY <1>2, <2>2 DEF PushedOnto
    <3>2. QED
      BY <3>1 DEF Elements
  <2>3. QED
    BY <1>2, <2>1, <2>2 DEF PushedOnto
<1>5. Elements(r) \subseteq Elements(q) \cup {f}
  BY <1>4 DEF Elements
<1>6. r \in Queues(n)
  BY <1>2 DEF PushedOnto, Queues
<1>7. QED
  BY <1>3, <1>5, <1>6 DEF r

(* Taking the first or the last keeps a queue a queue.                     *)
LEMMA PopType ==
  ASSUME NEW n \in Nat, NEW q \in Queues(n), q # <<>>
  PROVE  /\ Head(q) \in Frame /\ Head(q) \in Elements(q)
         /\ Tail(q) \in Queues(n)
         /\ Elements(Tail(q)) \subseteq Elements(q)
         /\ Len(q) - 1 \in Nat
         /\ q[Len(q)] \in Frame /\ q[Len(q)] \in Elements(q)
<1>1. q \in Seq(Frame) /\ Len(q) \in Nat \ {0} /\ Len(q) <= n
  BY DEF Queues
<1>2. /\ Head(q) \in Frame
      /\ Tail(q) \in Seq(Frame)
      /\ Len(Tail(q)) = Len(q) - 1
      /\ \A i \in 1..Len(Tail(q)) : Tail(q)[i] = q[i + 1]
  BY <1>1, HeadTailProperties
<1>3. Head(q) = q[1]
  BY <1>1
<1>4. \A i \in 1..Len(Tail(q)) : i + 1 \in 1..Len(q)
  BY <1>1, <1>2
<1>5. Elements(Tail(q)) \subseteq Elements(q)
  BY <1>2, <1>4 DEF Elements
<1>6. Head(q) \in Elements(q) /\ q[Len(q)] \in Elements(q) /\ q[Len(q)] \in Frame
  BY <1>1, <1>3 DEF Elements
<1>7. Tail(q) \in Queues(n)
  BY <1>1, <1>2 DEF Queues
<1>8. QED
  BY <1>1, <1>2, <1>5, <1>6, <1>7

(* The records a step writes.                                              *)
LEMMA RecordTypes ==
  /\ NoCapture \in CaptureType
  /\ [NoCapture EXCEPT !.at = "loop"] \in CaptureType
  /\ IdleWorker \in WorkerType
  /\ IdleDelivery \in DeliveryType
  /\ NoMetrics \in MetricsType
BY NoFrameType DEF NoCapture, CaptureType, CapturePoints, IdleWorker, WorkerType,
    IdleDelivery,
                   DeliveryType, NoMetrics, MetricsType

(* The initial state is typed.                                             *)
LEMMA TypeInit == Init => TypeOK
<1> SUFFICES ASSUME Init PROVE TypeOK
  OBVIOUS
<1>1. state \in States /\ api \in ApiPoints
  BY DEF Init, States, ApiPoints
<1>2. queue \in Queues(QueueSize) /\ results \in Queues(ResultCapacity)
  BY EmptyQueue, ConstantFacts DEF Init
<1>3. /\ capture \in CaptureType /\ worker \in WorkerType
      /\ delivery \in DeliveryType /\ metrics \in MetricsType
  BY RecordTypes DEF Init
<1>4. QED
  BY <1>1, <1>2, <1>3, ControlsAssumption DEF Init, TypeOK

(* The steps of start() and stop().                                        *)
LEMMA TypeApi == TypeOK /\ ClientStep => TypeOK'
<1> SUFFICES ASSUME TypeOK, ClientStep PROVE TypeOK'
  OBVIOUS
<1> USE DEF ApiUnchanged, TypeOK, atomics, frames, session, history, stages
<1>1. CASE Start /\ ApiUnchanged
  BY <1>1 DEF Start, Joinable, ApiPoints
<1>2. CASE StartResetQueue /\ ApiUnchanged
  BY <1>2, EmptyQueue, ConstantFacts DEF StartResetQueue, ApiPoints
<1>3. CASE StartResetTracker /\ ApiUnchanged
  BY <1>3 DEF StartResetTracker, ApiPoints
<1>4. CASE StartResetMetrics /\ ApiUnchanged
  BY <1>4, RecordTypes DEF StartResetMetrics, ApiPoints
<1>5. CASE StartNewGeneration /\ ApiUnchanged
  BY <1>5 DEF StartNewGeneration, ApiPoints
<1>6. CASE StartAnnounce /\ ApiUnchanged
  BY <1>6 DEF StartAnnounce, ApiPoints, States
<1>7. CASE StartRun /\ ApiUnchanged
  BY <1>7 DEF StartRun, ApiPoints
<1>8. CASE StartControl /\ ApiUnchanged
  BY <1>8 DEF StartControl, ApiPoints
<1>9. CASE StartSpawn /\ ApiUnchanged
  BY <1>9, RecordTypes DEF StartSpawn, ApiPoints
<1>10. CASE StartSpawnFails /\ ApiUnchanged
  BY <1>10 DEF StartSpawnFails, ApiPoints
<1>11. CASE StartFault /\ ApiUnchanged
  BY <1>11 DEF StartFault, ApiPoints, States
<1>12. CASE Stop /\ ApiUnchanged
  BY <1>12 DEF Stop, CallsStop, ApiPoints
<1>13. CASE StopState /\ ApiUnchanged
  BY <1>13 DEF StopState, ApiPoints, States
<1>14. CASE StopRetire /\ ApiUnchanged
  BY <1>14 DEF StopRetire, ApiPoints
<1>15. CASE StopCloseQueue /\ ApiUnchanged
  BY <1>15 DEF StopCloseQueue, ApiPoints
<1>16. CASE StopControl /\ ApiUnchanged
  BY <1>16 DEF StopControl, ApiPoints
<1>17. CASE StopControlUnheard /\ ApiUnchanged
  BY <1>17 DEF StopControlUnheard, ApiPoints
<1>18. CASE StopJoin /\ ApiUnchanged
  BY <1>18, RecordTypes DEF StopJoin, ApiPoints
<1>19. CASE StopClearQueue /\ ApiUnchanged
  BY <1>19, EmptyQueue, ConstantFacts DEF StopClearQueue, ApiPoints
<1>20. CASE StopClearTracker /\ ApiUnchanged
  BY <1>20 DEF StopClearTracker, ApiPoints
<1>21. CASE StopDone /\ ApiUnchanged
  <2>1. api' \in ApiPoints
    BY <1>21 DEF StopDone, ApiPoints
  <2>2. state' \in States
    BY <1>21 DEF StopDone, States
  <2>3. QED
    BY <1>21, <2>1, <2>2 DEF StopDone
<1>22. CASE ControlWakes /\ ApiUnchanged
  BY <1>22 DEF ControlWakes
<1>23. CASE StopInactive
  BY <1>23 DEF StopInactive, vars
<1>24. QED
  BY <1>1, <1>2, <1>3, <1>4, <1>5, <1>6, <1>7, <1>8, <1>9, <1>10, <1>11, <1>12, <1>13, <1>14,
     <1>15, <1>16, <1>17, <1>18, <1>19, <1>20, <1>21, <1>22, <1>23
     DEF ClientStep, ApiStep, ApiCall

(* The capture thread keeps the types.                                     *)
LEMMA TypeCapture == TypeOK /\ CaptureStep => TypeOK'
<1> SUFFICES ASSUME TypeOK, CaptureStep PROVE TypeOK'
  OBVIOUS
<1> USE DEF CaptureStep, TypeOK, atomics, shared, history, stages
<1>1. CASE CaptureLoop
  <2>1. capture' \in CaptureType
    BY <1>1 DEF CaptureLoop, At, Goto, CaptureType, CapturePoints
  <2>2. QED
    BY <1>1, <2>1 DEF CaptureLoop
<1>2. CASE CaptureMark
  <2>1. capture' \in CaptureType
    BY <1>2 DEF CaptureMark, At, Goto, CaptureType, CapturePoints
  <2>2. state' \in States
    BY <1>2 DEF CaptureMark, States
  <2>3. QED
    BY <1>2, <2>1, <2>2 DEF CaptureMark
<1>3. CASE CaptureOpenFails
  <2>1. capture' \in CaptureType
    BY <1>3 DEF CaptureOpenFails, At, Goto, CaptureType, CapturePoints
  <2>2. QED
    BY <1>3, <2>1 DEF CaptureOpenFails, Report
<1>4. CASE CaptureOpens
  <2>1. capture' \in CaptureType
    BY <1>4 DEF CaptureOpens, At, Goto, CaptureType, CapturePoints
  <2>2. QED
    BY <1>4, <2>1 DEF CaptureOpens, Report
<1>5. CASE CaptureOnline
  <2>1. capture' \in CaptureType
    BY <1>5 DEF CaptureOnline, At, Goto, CaptureType, CapturePoints
  <2>2. state' \in States
    BY <1>5 DEF CaptureOnline, States
  <2>3. QED
    BY <1>5, <2>1, <2>2 DEF CaptureOnline
<1>6. CASE CaptureDisconnected
  <2>1. capture' \in CaptureType
    BY <1>6 DEF CaptureDisconnected, At, Goto, CaptureType, CapturePoints
  <2>2. state' \in States
    BY <1>6 DEF CaptureDisconnected, States
  <2>3. QED
    BY <1>6, <2>1, <2>2 DEF CaptureDisconnected
<1>7. CASE CaptureBackOff
  <2>1. capture' \in CaptureType
    BY <1>7 DEF CaptureBackOff, At, Goto, CaptureType, CapturePoints
  <2>2. QED
    BY <1>7, <2>1 DEF CaptureBackOff
<1>8. CASE ResetGeneration
  <2>1. capture' \in CaptureType
    BY <1>8 DEF ResetGeneration, At, Goto, CaptureType, CapturePoints
  <2>2. QED
    BY <1>8, <2>1 DEF ResetGeneration
<1>9. CASE ResetQueue
  <2>1. capture' \in CaptureType
    BY <1>9 DEF ResetQueue, At, Goto, CaptureType, CapturePoints
  <2>2. queue' \in Queues(QueueSize)
    BY <1>9, EmptyQueue, ConstantFacts DEF ResetQueue
  <2>3. QED
    BY <1>9, <2>1, <2>2 DEF ResetQueue
<1>10. CASE ResetTracker
  <2>1. capture' \in CaptureType
    BY <1>10 DEF ResetTracker, At, Goto, CaptureType, CapturePoints
  <2>2. QED
    BY <1>10, <2>1 DEF ResetTracker
<1>11. CASE CaptureNext
  <2>1. capture' \in CaptureType
    BY <1>11 DEF CaptureNext, At, Goto, CaptureType, CapturePoints
  <2>2. QED
    BY <1>11, <2>1 DEF CaptureNext
<1>12. CASE ReadReady
  <2>1. capture' \in CaptureType
    BY <1>12 DEF ReadReady, At, Goto, CaptureType, CapturePoints, Frame
  <2>2. state' \in States
    BY <1>12 DEF ReadReady, States
  <2>3. QED
    BY <1>12, <2>1, <2>2 DEF ReadReady
<1>13. CASE ReadTemporaryError
  <2>1. capture' \in CaptureType
    <3> DEFINE p == IF capture.failures + 1 >= TemporaryFailureLimit THEN "close" ELSE "next"
    <3>1. p \in CapturePoints
      BY DEF CapturePoints
    <3>2. capture.failures + 1 \in Nat
      BY DEF CaptureType
    <3>3. capture' = [capture EXCEPT !.at = p, !.failures = capture.failures + 1]
      BY <1>13 DEF ReadTemporaryError
    <3> HIDE DEF p
    <3>4. QED
      BY <3>1, <3>2, <3>3 DEF CaptureType
  <2>2. state' \in States
    BY <1>13 DEF ReadTemporaryError, States
  <2>3. QED
    BY <1>13, <2>1, <2>2 DEF ReadTemporaryError
<1>14. CASE ReadEndOfStream
  <2>1. capture' \in CaptureType
    BY <1>14 DEF ReadEndOfStream, At, Goto, CaptureType, CapturePoints
  <2>2. QED
    BY <1>14, <2>1 DEF ReadEndOfStream
<1>15. CASE ReadFatalError
  <2>1. capture' \in CaptureType
    BY <1>15 DEF ReadFatalError, At, Goto, CaptureType, CapturePoints
  <2>2. QED
    BY <1>15, <2>1 DEF ReadFatalError
<1>16. CASE Stamp
  <2>1. capture' \in CaptureType
    BY <1>16 DEF Stamp, At, Goto, CaptureType, CapturePoints, Frame
  <2>2. QED
    BY <1>16, <2>1 DEF Stamp
<1>17. CASE PushFrame
  <2>1. capture' \in CaptureType
    BY <1>17, PushType, ConstantFacts, NoFrameType DEF PushFrame, At, Goto, CaptureType,
        CapturePoints
  <2>2. queue' \in Queues(QueueSize)
    BY <1>17, PushType, ConstantFacts DEF PushFrame, CaptureType
  <2>3. QED
    BY <1>17, <2>1, <2>2 DEF PushFrame
<1>18. CASE CountFrame
  <2>1. capture' \in CaptureType
    BY <1>18 DEF CountFrame, At, Goto, CaptureType, CapturePoints
  <2>2. metrics' \in MetricsType
    <3>1. capture.dropped \in Nat
      BY DEF CaptureType
    <3>2. metrics.captured + 1 \in Nat /\ metrics.dropped + capture.dropped \in Nat
      BY <3>1 DEF MetricsType
    <3>3. metrics' = [metrics EXCEPT !.captured = metrics.captured + 1,
                                     !.dropped = metrics.dropped + capture.dropped]
      BY <1>18 DEF CountFrame
    <3>4. QED
      BY <3>2, <3>3 DEF MetricsType
  <2>3. QED
    BY <1>18, <2>1, <2>2 DEF CountFrame
<1>19. CASE CaptureClose
  <2>1. capture' \in CaptureType
    BY <1>19 DEF CaptureClose, At, Goto, CaptureType, CapturePoints
  <2>2. QED
    BY <1>19, <2>1 DEF CaptureClose
<1>20. CASE CaptureExit
  <2>1. capture' \in CaptureType
    BY <1>20 DEF CaptureExit, At, Goto, CaptureType, CapturePoints
  <2>2. QED
    BY <1>20, <2>1 DEF CaptureExit
<1>21. CASE CaptureMarkStopped
  <2>1. capture' \in CaptureType
    BY <1>21 DEF CaptureMarkStopped, At, Goto, CaptureType, CapturePoints
  <2>2. state' \in States
    BY <1>21 DEF CaptureMarkStopped, States
  <2>3. QED
    BY <1>21, <2>1, <2>2 DEF CaptureMarkStopped
<1>22. QED
  BY <1>1, <1>2, <1>3, <1>4, <1>5, <1>6, <1>7, <1>8, <1>9, <1>10, <1>11, <1>12, <1>13,
      <1>14, <1>15, <1>16, <1>17, <1>18, <1>19, <1>20, <1>21 DEF Read

(* So do the worker, the router and the delivery thread.                   *)
LEMMA TypeStages ==
  TypeOK /\ (WorkerStep \/ DeliveryStep \/ (OtherCameraEvicts /\ SessionUnchanged)) => TypeOK'
<1> SUFFICES ASSUME TypeOK,
                    WorkerStep \/ DeliveryStep \/ (OtherCameraEvicts /\ SessionUnchanged)
             PROVE  TypeOK'
  OBVIOUS
<1> USE DEF SessionUnchanged, TypeOK, atomics, history
<1>1. CASE Take /\ SessionUnchanged
  <2>1. worker' \in WorkerType
    BY <1>1, PopType, ConstantFacts DEF Take, WorkerType
  <2>2. queue' \in Queues(QueueSize)
    BY <1>1, EmptyQueue, ConstantFacts DEF Take
  <2>3. QED
    BY <1>1, <2>1, <2>2 DEF Take
<1>2. CASE CountTaken /\ SessionUnchanged
  <2>1. metrics.skipped + worker.older \in Nat /\ metrics.stale + 1 \in Nat
    <3>1. worker.older \in Nat
      BY DEF WorkerType
    <3>2. QED
      BY <3>1 DEF MetricsType
  <2>2. worker' \in WorkerType
    <3>1. [worker EXCEPT !.at = "schedule", !.older = 0] \in WorkerType
      BY DEF WorkerType
    <3>2. QED
      BY <1>2, <3>1, RecordTypes DEF CountTaken
  <2>3. metrics' \in MetricsType
    <3> DEFINE skipped == metrics.skipped + worker.older
    <3>1. \/ metrics' = [metrics EXCEPT !.skipped = skipped]
          \/ metrics' = [metrics EXCEPT !.skipped = skipped, !.stale = metrics.stale + 1]
      BY <1>2 DEF CountTaken
    <3> HIDE DEF skipped
    <3>2. skipped \in Nat
      BY <2>1 DEF skipped
    <3>3. QED
      BY <2>1, <3>1, <3>2 DEF MetricsType
  <2>4. QED
    BY <1>2, <2>2, <2>3 DEF CountTaken
<1>3. CASE CountScheduled /\ SessionUnchanged
  <2>1. worker' \in WorkerType
    BY <1>3 DEF CountScheduled, WorkerType
  <2>2. metrics' \in MetricsType
    BY <1>3 DEF CountScheduled, MetricsType
  <2>3. QED
    BY <1>3, <2>1, <2>2 DEF CountScheduled
<1>4. CASE RecordInference /\ SessionUnchanged
  <2>1. worker' \in WorkerType
    BY <1>4, RecordTypes DEF RecordInference, WorkerType
  <2>2. metrics' \in MetricsType
    BY <1>4 DEF RecordInference, MetricsType
  <2>3. QED
    BY <1>4, <2>1, <2>2 DEF RecordInference
<1>5. CASE Enqueue /\ SessionUnchanged
  <2>1. worker' \in WorkerType
    BY <1>5, RecordTypes DEF Enqueue
  <2>2. results' \in Queues(ResultCapacity)
    BY <1>5, PushType, ConstantFacts DEF Enqueue, WorkerType
  <2>3. QED
    BY <1>5, <2>1, <2>2 DEF Enqueue
<1>6. CASE OtherCameraEvicts /\ SessionUnchanged
  <2>1. results' \in Queues(ResultCapacity)
    BY <1>6, PopType, ConstantFacts DEF OtherCameraEvicts
  <2>2. QED
    BY <1>6, <2>1 DEF OtherCameraEvicts
<1>7. CASE PopResult /\ SessionUnchanged
  <2>1. delivery' \in DeliveryType
    BY <1>7, PopType, ConstantFacts DEF PopResult, DeliveryType
  <2>2. results' \in Queues(ResultCapacity)
    BY <1>7, PopType, ConstantFacts DEF PopResult
  <2>3. QED
    BY <1>7, <2>1, <2>2 DEF PopResult
<1>8. CASE RejectEarly /\ SessionUnchanged
  <2>1. delivery' \in DeliveryType
    BY <1>8, RecordTypes DEF RejectEarly
  <2>2. QED
    BY <1>8, <2>1 DEF RejectEarly
<1>9. CASE PassEarly /\ SessionUnchanged
  <2>1. delivery' \in DeliveryType
    BY <1>9 DEF PassEarly, DeliveryType
  <2>2. QED
    BY <1>9, <2>1 DEF PassEarly
<1>10. CASE Recheck /\ SessionUnchanged
  <2>1. delivery' \in DeliveryType
    BY <1>10, RecordTypes DEF Recheck, DeliveryType
  <2>2. QED
    BY <1>10, <2>1 DEF Recheck
<1>11. CASE Update /\ SessionUnchanged
  <2>1. delivery' \in DeliveryType
    BY <1>11, RecordTypes DEF Update
  <2>2. tracker' \in SUBSET Frame
    BY <1>11 DEF Update, DeliveryType
  <2>3. QED
    BY <1>11, <2>1, <2>2 DEF Update
<1>12. QED
  BY <1>1, <1>2, <1>3, <1>4, <1>5, <1>6, <1>7, <1>8, <1>9, <1>10, <1>11 DEF WorkerStep,
      DeliveryStep

(* Every step keeps the types.                                             *)
LEMMA TypeNext == TypeOK /\ [Next]_vars => TypeOK'
<1>1. CASE UNCHANGED vars
  BY <1>1 DEF vars, TypeOK, atomics, frames, session, history, stages
<1>2. QED
  BY <1>1, TypeApi, TypeCapture, TypeStages DEF Next, ClientStep
-----------------------------------------------------------------------------
(* What a step does to the generations and to the program points.          *)

(* No result can be accepted into the tracker: the next connection has not *)
(* been read from, and the tracker of the last one is gone.                *)
Severed == capture.at \in Clean \/ Cleared

(* And the next connection has not been made.                              *)
Apart == capture.at \in Unconnected \/ Cleared

(* A generation is left for good, and while it lasts a session stays as    *)
(* connected as it was.                                                    *)
Footprint ==
  /\ generation' \in {generation, generation + 1}
  /\ generation' = generation =>
       /\ capture.at \notin Between /\ api \notin Launching =>
            capture'.at \notin Between /\ api' \notin Launching
       /\ Quitting' => Quitting /\ advanced' = advanced
       /\ Cleared' => \/ Quitting /\ retired' = advanced
                      \/ Cleared /\ retired' = retired
  /\ \/ opens' = opens
     \/ capture.at = "open" /\ opens' = opens + 1 /\ ~Apart'
  /\ ControlInv'

(* What the client does to generations and connections.                    *)
LEMMA FootprintApi ==
  TypeOK /\ ControlInv /\ ClientStep => Footprint
<1> SUFFICES ASSUME TypeOK /\ ControlInv /\ ClientStep PROVE Footprint
  OBVIOUS
<1> USE DEF Footprint, ControlInv, StateTruthful, Joinable, Between, Clean, Unconnected,
    Launching, Joined, Quitting, Cleared, Apart,
    ApiUnchanged, TypeOK, atomics, frames, session, history, stages
<1>1. CASE Start /\ ApiUnchanged
  BY <1>1 DEF Start
<1>2. CASE StartResetQueue /\ ApiUnchanged
  BY <1>2 DEF StartResetQueue
<1>3. CASE StartResetTracker /\ ApiUnchanged
  BY <1>3 DEF StartResetTracker
<1>4. CASE StartResetMetrics /\ ApiUnchanged
  BY <1>4 DEF StartResetMetrics
<1>5. CASE StartNewGeneration /\ ApiUnchanged
  BY <1>5 DEF StartNewGeneration
<1>6. CASE StartAnnounce /\ ApiUnchanged
  BY <1>6 DEF StartAnnounce
<1>7. CASE StartRun /\ ApiUnchanged
  BY <1>7 DEF StartRun
<1>8. CASE StartControl /\ ApiUnchanged
  BY <1>8 DEF StartControl
<1>9. CASE StartSpawn /\ ApiUnchanged
  BY <1>9 DEF StartSpawn, NoCapture
<1>10. CASE StartSpawnFails /\ ApiUnchanged
  BY <1>10 DEF StartSpawnFails
<1>11. CASE StartFault /\ ApiUnchanged
  BY <1>11 DEF StartFault
<1>12. CASE Stop /\ ApiUnchanged
  BY <1>12 DEF Stop, CallsStop
<1>13. CASE StopState /\ ApiUnchanged
  BY <1>13 DEF StopState
<1>14. CASE StopRetire /\ ApiUnchanged
  BY <1>14 DEF StopRetire
<1>15. CASE StopCloseQueue /\ ApiUnchanged
  BY <1>15 DEF StopCloseQueue
<1>16. CASE StopControl /\ ApiUnchanged
  BY <1>16 DEF StopControl
<1>17. CASE StopControlUnheard /\ ApiUnchanged
  BY <1>17 DEF StopControlUnheard
<1>18. CASE StopJoin /\ ApiUnchanged
  BY <1>18 DEF StopJoin, NoCapture
<1>19. CASE StopClearQueue /\ ApiUnchanged
  BY <1>19 DEF StopClearQueue
<1>20. CASE StopClearTracker /\ ApiUnchanged
  BY <1>20 DEF StopClearTracker
<1>21. CASE StopDone /\ ApiUnchanged
  BY <1>21 DEF StopDone
<1>22. CASE ControlWakes /\ ApiUnchanged
  BY <1>22 DEF ControlWakes
<1>23. CASE StopInactive
  BY <1>23 DEF StopInactive, vars
<1>24. QED
  BY <1>1, <1>2, <1>3, <1>4, <1>5, <1>6, <1>7, <1>8, <1>9, <1>10, <1>11, <1>12, <1>13, <1>14,
     <1>15, <1>16, <1>17, <1>18, <1>19, <1>20, <1>21, <1>22, <1>23
     DEF ClientStep, ApiStep, ApiCall

(* What the capture thread does to it.                                     *)
LEMMA FootprintCapture ==
  TypeOK /\ ControlInv /\ CaptureStep => Footprint
<1> SUFFICES ASSUME TypeOK /\ ControlInv /\ CaptureStep PROVE Footprint
  OBVIOUS
<1> USE DEF Footprint, ControlInv, StateTruthful, Joinable, Between, Clean, Unconnected,
    Launching, Joined, Quitting, Cleared, Apart,
    CaptureStep, TypeOK, CaptureType, At, Goto, atomics, shared, history, stages
<1>1. CASE CaptureLoop
  BY <1>1 DEF CaptureLoop
<1>2. CASE CaptureMark
  BY <1>2 DEF CaptureMark
<1>3. CASE CaptureOpenFails
  BY <1>3 DEF CaptureOpenFails
<1>4. CASE CaptureOpens
  BY <1>4 DEF CaptureOpens
<1>5. CASE CaptureOnline
  BY <1>5 DEF CaptureOnline
<1>6. CASE CaptureDisconnected
  BY <1>6 DEF CaptureDisconnected
<1>7. CASE CaptureBackOff
  BY <1>7 DEF CaptureBackOff
<1>8. CASE ResetGeneration
  BY <1>8 DEF ResetGeneration
<1>9. CASE ResetQueue
  BY <1>9 DEF ResetQueue
<1>10. CASE ResetTracker
  BY <1>10 DEF ResetTracker
<1>11. CASE CaptureNext
  BY <1>11 DEF CaptureNext
<1>12. CASE ReadReady
  BY <1>12 DEF ReadReady
<1>13. CASE ReadTemporaryError
  BY <1>13 DEF ReadTemporaryError
<1>14. CASE ReadEndOfStream
  BY <1>14 DEF ReadEndOfStream
<1>15. CASE ReadFatalError
  BY <1>15 DEF ReadFatalError
<1>16. CASE Stamp
  BY <1>16 DEF Stamp
<1>17. CASE PushFrame
  BY <1>17 DEF PushFrame
<1>18. CASE CountFrame
  BY <1>18 DEF CountFrame
<1>19. CASE CaptureClose
  BY <1>19 DEF CaptureClose
<1>20. CASE CaptureExit
  BY <1>20 DEF CaptureExit
<1>21. CASE CaptureMarkStopped
  BY <1>21 DEF CaptureMarkStopped
<1>22. QED
  BY <1>1, <1>2, <1>3, <1>4, <1>5, <1>6, <1>7, <1>8, <1>9, <1>10, <1>11, <1>12, <1>13,
     <1>14, <1>15, <1>16, <1>17, <1>18, <1>19, <1>20, <1>21 DEF Read

(* What the other threads do to it.                                        *)
LEMMA FootprintStages ==
  TypeOK /\ ControlInv /\ SessionUnchanged => Footprint
BY DEF Footprint, ControlInv, StateTruthful, Joinable, Quitting, Cleared, SessionUnchanged,
   TypeOK, atomics, history

(* What any step does to it.                                               *)
LEMMA FootprintNext == TypeOK /\ ControlInv /\ [Next]_vars => Footprint
<1>1. CASE UNCHANGED vars
  BY <1>1 DEF Footprint, ControlInv, StateTruthful, Joinable, Quitting, Cleared, TypeOK, vars,
     atomics, history
<1>2. QED
  BY <1>1, FootprintApi, FootprintCapture, FootprintStages
     DEF Next, ClientStep, WorkerStep, DeliveryStep
-----------------------------------------------------------------------------
(* The frames in flight.                                                   *)

(* The frame a step of the capture thread stamps.                          *)
Stamped == IF At("stamp") /\ capture'.at = "push" THEN {capture'.frame} ELSE {}

(* The frame the last check lets through.                                  *)
Passed == {f \in InFlight : /\ f.gen = generation /\ generation' = generation
                            /\ delivery.at = "recheck" /\ capture' = capture /\ api' = api
                            /\ opens' = opens}

FrameSteps ==
  /\ InFlight' \subseteq InFlight \cup Stamped
  /\ Settled' \subseteq Settled \cup Passed
  /\ Settled' # {} => /\ Severed' => Severed
                      /\ Apart' => Apart
                      /\ retired' = retired
  /\ LockInv'
  /\ QuietInv'

(* What the client does to the frames in flight.                           *)
LEMMA FramesApi ==
  TypeOK /\ ControlInv /\ LockInv /\ QuietInv /\ ClientStep => FrameSteps
<1> SUFFICES ASSUME TypeOK /\ ControlInv /\ LockInv /\ QuietInv /\ ClientStep
             PROVE  FrameSteps
  OBVIOUS
<1> USE DEF FrameSteps, InFlight, Settled, Stamped, Severed, Apart, Clean,
    Unconnected, Launching, Cleared, LockInv, QuietInv, Passed, Joinable, ControlInv,
    Joined, ApiUnchanged, At, TypeOK, atomics, frames, session, history, stages
<1>1. CASE Start /\ ApiUnchanged
  BY <1>1 DEF Start
<1>2. CASE StartResetQueue /\ ApiUnchanged
  BY <1>2, EmptyQueue DEF StartResetQueue
<1>3. CASE StartResetTracker /\ ApiUnchanged
  BY <1>3 DEF StartResetTracker
<1>4. CASE StartResetMetrics /\ ApiUnchanged
  BY <1>4 DEF StartResetMetrics
<1>5. CASE StartNewGeneration /\ ApiUnchanged
  BY <1>5 DEF StartNewGeneration
<1>6. CASE StartAnnounce /\ ApiUnchanged
  BY <1>6 DEF StartAnnounce
<1>7. CASE StartRun /\ ApiUnchanged
  BY <1>7 DEF StartRun
<1>8. CASE StartControl /\ ApiUnchanged
  BY <1>8 DEF StartControl
<1>9. CASE StartSpawn /\ ApiUnchanged
  BY <1>9 DEF StartSpawn, NoCapture
<1>10. CASE StartSpawnFails /\ ApiUnchanged
  BY <1>10 DEF StartSpawnFails
<1>11. CASE StartFault /\ ApiUnchanged
  BY <1>11 DEF StartFault
<1>12. CASE Stop /\ ApiUnchanged
  BY <1>12 DEF Stop, CallsStop
<1>13. CASE StopState /\ ApiUnchanged
  BY <1>13 DEF StopState
<1>14. CASE StopRetire /\ ApiUnchanged
  BY <1>14 DEF StopRetire
<1>15. CASE StopCloseQueue /\ ApiUnchanged
  BY <1>15 DEF StopCloseQueue
<1>16. CASE StopControl /\ ApiUnchanged
  BY <1>16 DEF StopControl
<1>17. CASE StopControlUnheard /\ ApiUnchanged
  BY <1>17 DEF StopControlUnheard
<1>18. CASE StopJoin /\ ApiUnchanged
  BY <1>18 DEF StopJoin, NoCapture
<1>19. CASE StopClearQueue /\ ApiUnchanged
  BY <1>19, EmptyQueue DEF StopClearQueue
<1>20. CASE StopClearTracker /\ ApiUnchanged
  BY <1>20 DEF StopClearTracker
<1>21. CASE StopDone /\ ApiUnchanged
  BY <1>21 DEF StopDone
<1>22. CASE ControlWakes /\ ApiUnchanged
  BY <1>22 DEF ControlWakes
<1>23. CASE StopInactive
  BY <1>23 DEF StopInactive, vars
<1>24. QED
  BY <1>1, <1>2, <1>3, <1>4, <1>5, <1>6, <1>7, <1>8, <1>9, <1>10, <1>11, <1>12, <1>13, <1>14,
     <1>15, <1>16, <1>17, <1>18, <1>19, <1>20, <1>21, <1>22, <1>23
     DEF ClientStep, ApiStep, ApiCall

(* What the capture thread does to them.                                   *)
LEMMA FramesCapture ==
  TypeOK /\ ControlInv /\ LockInv /\ QuietInv /\ CaptureStep => FrameSteps
<1> SUFFICES ASSUME TypeOK /\ ControlInv /\ LockInv /\ QuietInv /\ CaptureStep
             PROVE  FrameSteps
  OBVIOUS
<1> USE DEF FrameSteps, InFlight, Settled, Stamped, Severed, Apart, Clean,
    Unconnected, Launching, Cleared, LockInv, QuietInv,
    Passed, Joinable, CaptureStep, TypeOK, CaptureType, At, Goto, atomics, shared,
    history, stages
<1>1. CASE CaptureLoop
  BY <1>1 DEF CaptureLoop
<1>2. CASE CaptureMark
  BY <1>2 DEF CaptureMark
<1>3. CASE CaptureOpenFails
  BY <1>3 DEF CaptureOpenFails
<1>4. CASE CaptureOpens
  BY <1>4 DEF CaptureOpens
<1>5. CASE CaptureOnline
  BY <1>5 DEF CaptureOnline
<1>6. CASE CaptureDisconnected
  BY <1>6 DEF CaptureDisconnected
<1>7. CASE CaptureBackOff
  <2>1. /\ capture.at = "backOff" /\ capture'.at \in {"loop", "exit"}
        /\ UNCHANGED <<queue, results, tracker, processing, generation, api, opens,
                       worker, delivery, retired>>
    BY <1>7 DEF CaptureBackOff
  <2>2. QED
    BY <2>1
<1>8. CASE ResetGeneration
  BY <1>8 DEF ResetGeneration
<1>9. CASE ResetQueue
  BY <1>9, EmptyQueue DEF ResetQueue
<1>10. CASE ResetTracker
  BY <1>10 DEF ResetTracker
<1>11. CASE CaptureNext
  BY <1>11 DEF CaptureNext
<1>12. CASE ReadReady
  BY <1>12 DEF ReadReady
<1>13. CASE ReadTemporaryError
  BY <1>13 DEF ReadTemporaryError
<1>14. CASE ReadEndOfStream
  BY <1>14 DEF ReadEndOfStream
<1>15. CASE ReadFatalError
  BY <1>15 DEF ReadFatalError
<1>16. CASE Stamp
  BY <1>16 DEF Stamp
<1>17. CASE PushFrame
  BY <1>17, PushType, ConstantFacts DEF PushFrame
<1>18. CASE CountFrame
  BY <1>18 DEF CountFrame
<1>19. CASE CaptureClose
  BY <1>19 DEF CaptureClose
<1>20. CASE CaptureExit
  BY <1>20 DEF CaptureExit
<1>21. CASE CaptureMarkStopped
  BY <1>21 DEF CaptureMarkStopped
<1>22. QED
  BY <1>1, <1>2, <1>3, <1>4, <1>5, <1>6, <1>7, <1>8, <1>9, <1>10, <1>11, <1>12, <1>13,
     <1>14, <1>15, <1>16, <1>17, <1>18, <1>19, <1>20, <1>21 DEF Read

(* What the other threads do to them.                                      *)
LEMMA FramesStages ==
  TypeOK /\ ControlInv /\ LockInv /\ QuietInv
    /\ (WorkerStep \/ DeliveryStep \/ (OtherCameraEvicts /\ SessionUnchanged))
    => FrameSteps
<1> SUFFICES ASSUME TypeOK, ControlInv, LockInv, QuietInv,
                    WorkerStep \/ DeliveryStep \/ (OtherCameraEvicts /\ SessionUnchanged)
             PROVE  FrameSteps
  OBVIOUS
<1> USE DEF FrameSteps, InFlight, Settled, Stamped, Severed, Apart, Clean,
    Unconnected, Launching, Cleared, LockInv, QuietInv,
    Passed, Joinable, SessionUnchanged, At, TypeOK, WorkerType, DeliveryType, IdleWorker,
    IdleDelivery, atomics, history
<1>1. CASE Take /\ SessionUnchanged
  <2>1. worker'.at = "count" /\ worker'.frame \in Elements(queue) /\ queue' = <<>>
    BY <1>1, PopType, ConstantFacts DEF Take
  <2>2. UNCHANGED <<results, tracker, processing, capture, api, delivery, generation, opens,
                    retired>>
    BY <1>1 DEF Take
  <2>3. Elements(queue') = {}
    BY <2>1, EmptyQueue
  <2>4. QED
    BY <2>1, <2>2, <2>3
<1>2. CASE CountTaken /\ SessionUnchanged
  <2>1. worker.at = "count"
    BY <1>2 DEF CountTaken
  <2>2. UNCHANGED <<queue, results, tracker, processing, capture, api, delivery, generation,
                    opens, retired>>
    BY <1>2 DEF CountTaken
  <2>3. CASE worker' = [worker EXCEPT !.at = "schedule", !.older = 0]
    <3>1. worker \in WorkerType
      OBVIOUS
    <3>2. worker'.frame = worker.frame
      BY ONLY <2>3, <3>1 DEF WorkerType
    <3>3. QED
      BY <2>1, <2>2, <3>2
  <2>4. CASE worker' = IdleWorker
    BY <2>1, <2>2, <2>4
  <2>5. QED
    BY <1>2, <2>3, <2>4 DEF CountTaken
<1>3. CASE CountScheduled /\ SessionUnchanged
  BY <1>3 DEF CountScheduled
<1>4. CASE RecordInference /\ SessionUnchanged
  BY <1>4 DEF RecordInference
<1>5. CASE Enqueue /\ SessionUnchanged
  BY <1>5, PushType, ConstantFacts DEF Enqueue
<1>6. CASE OtherCameraEvicts /\ SessionUnchanged
  BY <1>6, EmptyQueue, PopType, ConstantFacts DEF OtherCameraEvicts
<1>7. CASE PopResult /\ SessionUnchanged
  BY <1>7, EmptyQueue, PopType, ConstantFacts DEF PopResult
<1>8. CASE RejectEarly /\ SessionUnchanged
  BY <1>8 DEF RejectEarly
<1>9. CASE PassEarly /\ SessionUnchanged
  BY <1>9 DEF PassEarly
<1>10. CASE Recheck /\ SessionUnchanged
  BY <1>10 DEF Recheck
<1>11. CASE Update /\ SessionUnchanged
  BY <1>11 DEF Update
<1>12. QED
  BY <1>1, <1>2, <1>3, <1>4, <1>5, <1>6, <1>7, <1>8, <1>9, <1>10, <1>11 DEF WorkerStep,
     DeliveryStep

(* What any step does to them.                                             *)
LEMMA FramesNext == TypeOK /\ ControlInv /\ LockInv /\ QuietInv /\ [Next]_vars => FrameSteps
<1>1. CASE UNCHANGED vars
  BY <1>1 DEF FrameSteps, InFlight, Settled, Stamped, Severed, Apart, Cleared, LockInv,
              QuietInv, At, vars,
              atomics, frames, session, history, stages
<1>2. QED
  BY <1>1, FramesApi, FramesCapture, FramesStages DEF Next, ClientStep
-----------------------------------------------------------------------------
(* The order of the frames, step by step.                                  *)

(* The identities of a hand and of a queue are numbers.                    *)
LEMMA StageTypes ==
  ASSUME TypeOK
  PROVE  /\ queue \in Seq(Frame) /\ Len(queue) \in Nat /\ Len(queue) <= QueueSize
         /\ results \in Seq(Frame) /\ Len(results) \in Nat /\ Len(results) <= ResultCapacity
         /\ capture \in CaptureType /\ capture.frame \in Frame /\ capture.frame.id \in Nat
         /\ worker \in WorkerType /\ worker.frame \in Frame /\ worker.frame.id \in Nat
         /\ delivery \in DeliveryType /\ delivery.frame \in Frame /\ delivery.frame.id \in Nat
         /\ nextFrameId \in Nat
BY DEF TypeOK, Queues, CaptureType, WorkerType, DeliveryType, Frame

(* A queue that takes a frame read after its own stays in order.           *)
LEMMA PushKeepsOrder ==
  ASSUME NEW n \in Nat, n >= 1, NEW q \in Seq(Frame), Len(q) <= n, NEW f \in Frame,
         Rising(q), Before(Ids(q), {f.id}), NEW r, r = PushLatest(q, f, n)
  PROVE  Rising(r) /\ Ids(r) \subseteq Ids(q) \cup {f.id}
<1>1. PushedOnto(r, q, f, Frame, n)
  BY PushFacts
<1> DEFINE k == Len(q) + 1 - Len(r)
<1>2. /\ r \in Seq(Frame) /\ Len(r) \in Nat /\ Len(q) \in Nat /\ k \in Nat
      /\ r[Len(r)] = f
      /\ \A i \in 1..(Len(r) - 1) : i + k \in 1..Len(q) /\ r[i] = q[i + k]
  BY <1>1 DEF PushedOnto
<1> HIDE DEF k
<1>3. \A i \in 1..Len(r) : i \in Nat /\ (i \in 1..(Len(r) - 1) \/ i = Len(r))
  BY <1>2
<1>4. \A i \in 1..(Len(r) - 1) : r[i].id \in Ids(q)
  BY <1>2 DEF Ids
<1>5. ASSUME NEW i \in 1..Len(r), NEW j \in 1..Len(r), i < j
      PROVE  r[i].id < r[j].id
  <2>1. i \in 1..(Len(r) - 1)
    BY <1>2, <1>3, <1>5
  <2>2. CASE j = Len(r)
    BY <1>2, <1>4, <2>1, <2>2 DEF Before
  <2>3. CASE j \in 1..(Len(r) - 1)
    <3>1. /\ i + k \in 1..Len(q) /\ j + k \in 1..Len(q) /\ i + k < j + k
          /\ r[i] = q[i + k] /\ r[j] = q[j + k]
      BY <1>2, <1>3, <1>5, <2>1, <2>3
    <3>2. QED
      BY <3>1 DEF Rising
  <2>4. QED
    BY <1>3, <2>2, <2>3
<1>6. Ids(r) \subseteq Ids(q) \cup {f.id}
  BY <1>2, <1>3, <1>4 DEF Ids
<1>7. QED
  BY <1>5, <1>6 DEF Rising

(* So does one that gives its first away, which was read before the rest.  *)
LEMMA PopKeepsOrder ==
  ASSUME NEW q \in Seq(Frame), q # <<>>, Rising(q)
  PROVE  /\ Rising(Tail(q)) /\ Ids(Tail(q)) \subseteq Ids(q)
         /\ Head(q).id \in Ids(q) /\ Before({Head(q).id}, Ids(Tail(q)))
         /\ q[Len(q)].id \in Ids(q)
<1> DEFINE t == Tail(q)
           n == Len(q)
<1>1. /\ Len(t) = n - 1 /\ Head(q) = q[1] /\ n \in Nat \ {0}
      /\ \A i \in 1..(n - 1) : t[i] = q[i + 1]
  BY HeadTailProperties, EmptySeq
<1> HIDE DEF t, n
<1>2. /\ \A i \in 1..Len(t) : i \in Nat /\ i + 1 \in 1..n /\ 1 < i + 1 /\ t[i] = q[i + 1]
      /\ 1 \in 1..n /\ n \in 1..n
  BY <1>1
<1>3. Rising(t)
  <2>1. ASSUME NEW i \in 1..Len(t), NEW j \in 1..Len(t), i < j
        PROVE  t[i].id < t[j].id
    <3>1. i + 1 < j + 1
      BY <1>2, <2>1
    <3>2. QED
      BY <1>2, <3>1 DEF Rising, n
  <2>2. QED
    BY <2>1 DEF Rising
<1>4. Ids(t) \subseteq Ids(q) /\ Head(q).id \in Ids(q) /\ q[n].id \in Ids(q)
  BY <1>1, <1>2 DEF Ids, n
<1>5. Before({Head(q).id}, Ids(t))
  BY <1>1, <1>2 DEF Before, Ids, Rising, n
<1>6. QED
  BY <1>3, <1>4, <1>5 DEF t, n

(* Nothing is in an empty queue.                                           *)
LEMMA EmptyRises == Rising(<<>>) /\ Ids(<<>>) = {}
BY DEF Rising, Ids

(* The stages stay in order when frames are lost ...                       *)
LEMMA FewerStayOrdered ==
  ASSUME NEW T, NEW D, NEW R, NEW I, NEW Q, NEW C, NEW next,
         Ordered(T, D, R, I, Q, C, next),
         NEW T1 \in SUBSET T, NEW D1 \in SUBSET D, NEW R1 \in SUBSET R,
         NEW I1 \in SUBSET I, NEW Q1 \in SUBSET Q, NEW C1 \in SUBSET C
  PROVE  Ordered(T1, D1, R1, I1, Q1, C1, next)
BY DEF Ordered, Before

(* ... when the next frame is read ...                                     *)
LEMMA ReadingStaysOrdered ==
  ASSUME NEW T, NEW D, NEW R, NEW I, NEW Q, NEW C, NEW next \in Nat,
         Ordered(T, D, R, I, Q, C, next)
  PROVE  Ordered(T, D, R, I, Q, {next}, next + 1)
<1>1. \A x \in T \cup D \cup R \cup I \cup Q : x \in 0..next /\ x < next
  BY DEF Ordered
<1>2. next \in 0..next /\ next + 1 - 1 = next
  OBVIOUS
<1>3. QED
  BY <1>1, <1>2 DEF Ordered, Before

(* ... and when a stage hands a frame over to the one before it.           *)
LEMMA HandOverStaysOrdered ==
  ASSUME NEW T, NEW D, NEW R, NEW I, NEW Q, NEW C, NEW next,
         Ordered(T, D, R, I, Q, C, next)
  PROVE  /\ \A Q1 \in SUBSET (Q \cup C) : Ordered(T, D, R, I, Q1, {}, next)
         /\ \A f \in Q : I = {} => Ordered(T, D, R, {f}, {}, C, next)
         /\ \A R1 \in SUBSET (R \cup I) : Ordered(T, D, R1, {}, Q, C, next)
         /\ \A f \in R, R1 \in SUBSET R :
              D = {} /\ Before({f}, R1) => Ordered(T, {f}, R1, I, Q, C, next)
         /\ \A T1 \in SUBSET (T \cup D) : Ordered(T1, {}, R, I, Q, C, next)
<1> USE DEF Ordered, Before
<1>1. ASSUME NEW Q1 \in SUBSET (Q \cup C)
      PROVE  Ordered(T, D, R, I, Q1, {}, next)
  OBVIOUS
<1>2. ASSUME NEW f \in Q, I = {}
      PROVE  Ordered(T, D, R, {f}, {}, C, next)
  BY <1>2
<1>3. ASSUME NEW R1 \in SUBSET (R \cup I)
      PROVE  Ordered(T, D, R1, {}, Q, C, next)
  OBVIOUS
<1>4. ASSUME NEW f \in R, NEW R1 \in SUBSET R, D = {}, Before({f}, R1)
      PROVE  Ordered(T, {f}, R1, I, Q, C, next)
  BY <1>4
<1>5. ASSUME NEW T1 \in SUBSET (T \cup D)
      PROVE  Ordered(T1, {}, R, I, Q, C, next)
  OBVIOUS
<1>6. QED
  BY <1>1, <1>2, <1>3, <1>4, <1>5

(* A step that only takes frames away.                                     *)
Emptying == /\ tracker' \in {tracker, {}} /\ queue' \in {queue, <<>>}
            /\ capture' = capture \/ capture'.at \notin {"stamp", "push"}
            /\ UNCHANGED <<stages, nextFrameId>>

(* Such a step keeps the order.                                            *)
LEMMA EmptyingOrder ==
  ASSUME OrderInv, Emptying
  PROVE  OrderInv'
<1>1. /\ Tracked' \in SUBSET Tracked /\ Ids(queue') \in SUBSET Ids(queue)
      /\ Reading' \in SUBSET Reading /\ Rising(queue')
  BY EmptyRises DEF Emptying, Tracked, Reading, OrderInv
<1>2. /\ Delivering' = Delivering /\ results' = results /\ Inferring' = Inferring
      /\ nextFrameId' = nextFrameId
  BY DEF Emptying, Delivering, Inferring, stages
<1>3. Ordered(Tracked', Delivering, Ids(results), Inferring, Ids(queue'), Reading', nextFrameId)
  BY <1>1, FewerStayOrdered DEF OrderInv
<1>4. QED
  BY <1>1, <1>2, <1>3 DEF OrderInv

(* The client takes frames away at most.                                   *)
LEMMA ApiEmpties == ASSUME ClientStep PROVE Emptying
<1> USE DEF Emptying, ApiUnchanged, NoCapture, atomics, frames, session, history, stages
<1>1. CASE ApiStep
  BY <1>1 DEF ApiStep, StartResetQueue, StartResetTracker, StartResetMetrics,
     StartNewGeneration, StartAnnounce, StartRun, StartControl, StartSpawn, StartSpawnFails,
     StartFault, StopState, StopRetire, StopCloseQueue, StopControl, StopControlUnheard,
     StopJoin, StopClearQueue, StopClearTracker, StopDone, Stop
<1>2. CASE ApiCall
  BY <1>2 DEF ApiCall, Start, Stop, StopInactive, vars
<1>3. CASE ControlWakes /\ ApiUnchanged
  BY <1>3 DEF ControlWakes
<1>4. QED
  BY <1>1, <1>2, <1>3 DEF ClientStep

(* The capture thread reads frames in order and pushes them in order.      *)
LEMMA CaptureOrder ==
  ASSUME TypeOK, OrderInv, CaptureStep
  PROVE  OrderInv'
<1> USE DEF At, Goto, atomics, shared, history, stages, CaptureType
<1>1. CASE ReadReady
  <2>1. /\ capture'.at = "stamp" /\ capture'.frame.id = nextFrameId
        /\ nextFrameId' = nextFrameId + 1
        /\ UNCHANGED <<tracker, queue, worker, delivery, results>>
    BY <1>1, StageTypes DEF ReadReady, CaptureStep
  <2>2. Reading' = {nextFrameId} /\ Tracked' = Tracked /\ Delivering' = Delivering
        /\ Inferring' = Inferring
    BY <2>1 DEF Reading, Tracked, Delivering, Inferring
  <2>3. Ordered(Tracked, Delivering, Ids(results), Inferring, Ids(queue), {nextFrameId},
                nextFrameId + 1)
    BY StageTypes, ReadingStaysOrdered DEF OrderInv
  <2>4. QED
    BY <2>1, <2>2, <2>3 DEF OrderInv
<1>2. CASE Stamp
  <2>1. /\ capture.at = "stamp" /\ capture'.at = "push"
        /\ capture'.frame.id = capture.frame.id
        /\ UNCHANGED <<tracker, queue, worker, delivery, results, nextFrameId>>
    BY <1>2, StageTypes DEF Stamp, CaptureStep, Frame
  <2>2. Reading' = Reading /\ Tracked' = Tracked /\ Delivering' = Delivering
        /\ Inferring' = Inferring
    BY <2>1 DEF Reading, Tracked, Delivering, Inferring
  <2>3. QED
    BY <2>1, <2>2 DEF OrderInv
<1>3. CASE PushFrame
  <2>1. /\ capture.at = "push" /\ capture'.at = "count"
        /\ queue' = queue \/ queue' = PushLatest(queue, capture.frame, QueueSize)
        /\ UNCHANGED <<tracker, worker, delivery, results, nextFrameId>>
    BY <1>3, StageTypes DEF PushFrame, CaptureStep
  <2>2. Reading = {capture.frame.id} /\ Reading' = {} /\ Tracked' = Tracked
        /\ Delivering' = Delivering /\ Inferring' = Inferring
    BY <2>1 DEF Reading, Tracked, Delivering, Inferring
  <2>3. Rising(queue') /\ Ids(queue') \in SUBSET (Ids(queue) \cup Reading)
    <3>1. Rising(queue) /\ Before(Ids(queue), {capture.frame.id})
      BY <2>2 DEF OrderInv, Ordered
    <3>2. QED
      BY <2>1, <2>2, <3>1, StageTypes, ConstantFacts, PushKeepsOrder
  <2>4. Ordered(Tracked, Delivering, Ids(results), Inferring, Ids(queue'), {}, nextFrameId)
    BY <2>3, HandOverStaysOrdered DEF OrderInv
  <2>5. QED
    BY <2>1, <2>2, <2>3, <2>4 DEF OrderInv
<1>4. CASE ~ReadReady /\ ~Stamp /\ ~PushFrame
  <2> USE StageTypes DEF Emptying
  <2>0. UNCHANGED <<worker, delivery, results, queueClosed>>
    BY DEF CaptureStep
  <2>1. ASSUME CaptureLoop \/ CaptureMark \/ CaptureOpenFails \/ CaptureOpens \/ CaptureOnline
                 \/ CaptureDisconnected \/ CaptureBackOff
        PROVE  Emptying
    BY <2>0, <2>1 DEF CaptureLoop, CaptureMark, CaptureOpenFails, CaptureOpens, CaptureOnline,
       CaptureDisconnected, CaptureBackOff
  <2>2. ASSUME ResetGeneration \/ ResetQueue \/ ResetTracker
        PROVE  Emptying
    BY <2>0, <2>2 DEF ResetGeneration, ResetQueue, ResetTracker
  <2>3. ASSUME CaptureNext \/ ReadTemporaryError \/ ReadEndOfStream \/ ReadFatalError
        PROVE  Emptying
    BY <2>0, <2>3 DEF CaptureNext, ReadTemporaryError, ReadEndOfStream, ReadFatalError
  <2>4. ASSUME CountFrame \/ CaptureClose \/ CaptureExit \/ CaptureMarkStopped
        PROVE  Emptying
    BY <2>0, <2>4 DEF CountFrame, CaptureClose, CaptureExit, CaptureMarkStopped
  <2>5. Emptying
    BY <1>4, <2>1, <2>2, <2>3, <2>4 DEF CaptureStep, Read
  <2>6. QED
    BY <2>5, EmptyingOrder
<1>5. QED
  BY <1>1, <1>2, <1>3, <1>4

(* The worker takes the newest frame and hands it on behind the others.    *)
LEMMA WorkerOrder ==
  ASSUME TypeOK, OrderInv, WorkerStep
  PROVE  OrderInv'
<1> USE DEF WorkerType, IdleWorker, NoFrame
<1>1. /\ Tracked' = Tracked /\ Delivering' = Delivering /\ Reading' = Reading
      /\ nextFrameId' = nextFrameId
  BY DEF WorkerStep, SessionUnchanged, Take, CountTaken, CountScheduled, RecordInference,
         Enqueue, Tracked, Delivering, Reading
<1>2. CASE Take
  <2>1. /\ worker.at = "idle" /\ queue # <<>> /\ queue' = <<>> /\ results' = results
        /\ worker'.at = "count" /\ worker'.frame = queue[Len(queue)]
    BY <1>2 DEF Take
  <2>2. Inferring = {} /\ Inferring' = {queue[Len(queue)].id}
    BY <2>1 DEF Inferring
  <2>3. queue[Len(queue)].id \in Ids(queue)
    BY <2>1, StageTypes, PopKeepsOrder DEF OrderInv
  <2>4. Ordered(Tracked, Delivering, Ids(results), {queue[Len(queue)].id}, {}, Reading,
                nextFrameId)
    BY <2>2, <2>3, HandOverStaysOrdered DEF OrderInv
  <2>5. QED
    BY <1>1, <2>1, <2>2, <2>4, EmptyRises DEF OrderInv
<1>3. CASE CountTaken \/ CountScheduled \/ RecordInference
  <2>1. /\ worker.at # "idle" /\ queue' = queue /\ results' = results
        /\ worker'.at = "idle" \/ worker'.frame = worker.frame
    <3>1. CASE CountTaken
      <4>1. worker.at = "count" /\ queue' = queue /\ results' = results
        BY <3>1 DEF CountTaken
      <4>2. worker' = IdleWorker \/ worker' = [worker EXCEPT !.at = "schedule", !.older = 0]
        BY <3>1 DEF CountTaken
      <4>3. worker \in WorkerType
        BY StageTypes
      <4>4. worker'.at = "idle" \/ worker'.frame = worker.frame
        <5>1. CASE worker' = IdleWorker
          BY <5>1
        <5>2. CASE worker' = [worker EXCEPT !.at = "schedule", !.older = 0]
          BY ONLY <4>3, <5>2 DEF WorkerType
        <5>3. QED
          BY <4>2, <5>1, <5>2
      <4>5. QED
        BY <4>1, <4>4
    <3>2. CASE CountScheduled \/ RecordInference
      BY <3>2, StageTypes DEF CountScheduled, RecordInference
    <3>3. QED
      BY <1>3, <3>1, <3>2
  <2>2. Inferring' \in SUBSET Inferring
    BY <2>1 DEF Inferring
  <2>3. Ordered(Tracked, Delivering, Ids(results), Inferring', Ids(queue), Reading,
                nextFrameId)
    BY <2>2, FewerStayOrdered DEF OrderInv
  <2>4. QED
    BY <1>1, <2>1, <2>3 DEF OrderInv
<1>4. CASE Enqueue
  <2>1. /\ worker.at # "idle" /\ worker'.at = "idle" /\ queue' = queue
        /\ results' = results \/ results' = PushLatest(results, worker.frame, ResultCapacity)
    BY <1>4 DEF Enqueue
  <2>2. Inferring = {worker.frame.id} /\ Inferring' = {}
    BY <2>1 DEF Inferring
  <2>3. Rising(results') /\ Ids(results') \in SUBSET (Ids(results) \cup Inferring)
    <3>1. Rising(results) /\ Before(Ids(results), {worker.frame.id})
      BY <2>2 DEF OrderInv, Ordered, Before
    <3>2. QED
      BY <2>1, <2>2, <3>1, StageTypes, ConstantFacts, PushKeepsOrder
  <2>4. Ordered(Tracked, Delivering, Ids(results'), {}, Ids(queue), Reading, nextFrameId)
    BY <2>3, HandOverStaysOrdered DEF OrderInv
  <2>5. QED
    BY <1>1, <2>1, <2>2, <2>3, <2>4 DEF OrderInv
<1>5. QED
  BY <1>2, <1>3, <1>4 DEF WorkerStep

(* The router's queue is emptied from the front.                           *)
LEMMA DeliveryOrder ==
  ASSUME TypeOK, OrderInv, DeliveryStep \/ (OtherCameraEvicts /\ SessionUnchanged)
  PROVE  OrderInv'
<1> USE DEF DeliveryType, IdleDelivery, NoFrame
<1>1. /\ Inferring' = Inferring /\ Reading' = Reading /\ nextFrameId' = nextFrameId
      /\ queue' = queue
  BY DEF DeliveryStep, SessionUnchanged, PopResult, RejectEarly, PassEarly, Recheck, Update,
         OtherCameraEvicts, Inferring, Reading
<1>2. ASSUME results # <<>>, results' = Tail(results)
      PROVE  /\ Rising(results') /\ Ids(results') \in SUBSET Ids(results)
             /\ Head(results).id \in Ids(results)
             /\ Before({Head(results).id}, Ids(results'))
  BY <1>2, StageTypes, PopKeepsOrder DEF OrderInv
<1>3. CASE OtherCameraEvicts
  <2>1. results # <<>> /\ results' = Tail(results) /\ Tracked' = Tracked
        /\ Delivering' = Delivering
    BY <1>3 DEF OtherCameraEvicts, Tracked, Delivering
  <2>2. Ordered(Tracked, Delivering, Ids(results'), Inferring, Ids(queue), Reading,
                nextFrameId)
    BY <1>2, <2>1, FewerStayOrdered DEF OrderInv
  <2>3. QED
    BY <1>1, <1>2, <2>1, <2>2 DEF OrderInv
<1>4. CASE PopResult
  <2>1. /\ results # <<>> /\ results' = Tail(results) /\ Tracked' = Tracked
        /\ Delivering = {} /\ Delivering' = {Head(results).id}
    BY <1>4 DEF PopResult, Tracked, Delivering
  <2>2. Ordered(Tracked, {Head(results).id}, Ids(results'), Inferring, Ids(queue), Reading,
                nextFrameId)
    BY <1>2, <2>1, HandOverStaysOrdered DEF OrderInv
  <2>3. QED
    BY <1>1, <1>2, <2>1, <2>2 DEF OrderInv
<1>5. CASE RejectEarly \/ PassEarly \/ Recheck
  <2>1. /\ results' = results /\ Tracked' = Tracked /\ delivery.at # "idle"
        /\ delivery'.at = "idle" \/ delivery'.frame = delivery.frame
    BY <1>5, StageTypes DEF RejectEarly, PassEarly, Recheck, Tracked
  <2>2. Delivering' \in SUBSET Delivering
    BY <2>1 DEF Delivering
  <2>3. Ordered(Tracked, Delivering', Ids(results), Inferring, Ids(queue), Reading,
                nextFrameId)
    BY <2>2, FewerStayOrdered DEF OrderInv
  <2>4. QED
    BY <1>1, <2>1, <2>3 DEF OrderInv
<1>6. CASE Update
  <2>1. /\ results' = results /\ delivery.at = "update" /\ delivery'.at = "idle"
        /\ tracker' \in {tracker, tracker \cup {delivery.frame}}
    BY <1>6 DEF Update
  <2>2. Delivering = {delivery.frame.id} /\ Delivering' = {}
    BY <2>1 DEF Delivering
  <2>3. Tracked' \in SUBSET (Tracked \cup Delivering)
    BY <2>1, <2>2 DEF Tracked
  <2>4. Ordered(Tracked', {}, Ids(results), Inferring, Ids(queue), Reading, nextFrameId)
    BY <2>3, HandOverStaysOrdered DEF OrderInv
  <2>5. QED
    BY <1>1, <2>1, <2>2, <2>4 DEF OrderInv
<1>7. QED
  BY <1>3, <1>4, <1>5, <1>6 DEF DeliveryStep

(* Every step keeps the order.                                             *)
LEMMA OrderNext == TypeOK /\ OrderInv /\ [Next]_vars => OrderInv'
<1>1. ASSUME OrderInv, UNCHANGED vars PROVE OrderInv'
  BY <1>1 DEF OrderInv, Tracked, Delivering, Inferring, Reading, vars, frames, stages
<1>2. QED
  BY <1>1, ApiEmpties, EmptyingOrder, CaptureOrder, WorkerOrder, DeliveryOrder
     DEF Next, ClientStep
-----------------------------------------------------------------------------
(* The counters, step by step.                                             *)

(* The sums, for any numbers.                                              *)
LEMMA Sums ==
  /\ \A a, b, c, d, e \in Nat : a + b + c + d + e \in Nat
  /\ \A a, b, c, d, e, f, g \in Nat : a + b + c + d + e + f + g = a + b + (c + d + e) + f + g
OBVIOUS

(* What a push adds to a queue and what it drops balance the frame.        *)
LEMMA PushBalance ==
  \A a, n, m, r, t, l, p, q \in Nat :
    r + n = l + 1 /\ a + 0 + m + l + t <= p + 0 + q => a + n + m + r + t <= p + 1 + q
OBVIOUS

(* A frame taken is counted as skipped, stale or scheduled, the balance    *)
(* stays the same.                                                         *)
LEMMA TakenBalance ==
  /\ \A m, s, t, c, l, o, p \in Nat :
       m + s + t + c + l + (o + 1) <= p =>
         /\ m + (s + o) + t + c + l + 1 <= p
         /\ m + (s + o) + (t + 1) + c + l + 0 <= p
  /\ \A m, s, t, c, l, p \in Nat :
       m + s + t + c + l + 1 <= p => m + s + t + (c + 1) + l + 0 <= p
OBVIOUS

(* Everything that is counted is a number.                                 *)
LEMMA TallyTypes ==
  ASSUME TypeOK
  PROVE  /\ metrics \in MetricsType /\ metrics.captured \in Nat /\ metrics.dropped \in Nat
         /\ metrics.skipped \in Nat /\ metrics.stale \in Nat /\ metrics.scheduled \in Nat
         /\ metrics.inferred \in Nat
         /\ capture \in CaptureType /\ capture.dropped \in Nat /\ capture.accepted \in BOOLEAN
         /\ worker \in WorkerType /\ worker.older \in Nat
         /\ Len(queue) \in Nat /\ starts \in Nat /\ QueueSize \in Nat /\ QueueSize >= 1
         /\ Taken \in Nat /\ InDetector \in Nat /\ Accepted \in Nat
         /\ CarriedOver(1) \in Nat /\ CarriedOver(QueueSize) \in Nat
<1>1. /\ metrics \in MetricsType /\ capture \in CaptureType /\ worker \in WorkerType
      /\ queue \in Seq(Frame) /\ starts \in Nat
  BY DEF TypeOK, Queues
<1>2. worker.older \in Nat /\ Len(queue) \in Nat /\ QueueSize \in Nat /\ QueueSize >= 1
  BY <1>1, ConstantFacts DEF WorkerType
<1>3. /\ Taken \in Nat /\ InDetector \in Nat /\ Accepted \in Nat
      /\ CarriedOver(1) \in Nat /\ CarriedOver(QueueSize) \in Nat
  BY <1>2 DEF Taken, InDetector, Accepted, CarriedOver
<1>4. QED
  BY <1>1, <1>2, <1>3 DEF MetricsType, CaptureType

(* What is remembered of the first start and of the hands, thread by       *)
(* thread.                                                                 *)
LEMMA FreshApi ==
  ASSUME TypeOK, FreshInv, QuietInv, ControlInv, HandInv, ClientStep
  PROVE  FreshInv' /\ HandInv'
<1> USE DEF FreshInv, HandInv, Untouched, Launching, ApiUnchanged, NoCapture, atomics, frames,
        session, history, stages
<1>1. starts \in Nat /\ restarting \in BOOLEAN /\ capture \in CaptureType
  BY DEF TypeOK
<1>2. CASE Start /\ ApiUnchanged
  BY <1>1, <1>2 DEF Start, Joinable
<1>3. CASE StartResetQueue /\ ApiUnchanged
  BY <1>1, <1>3 DEF StartResetQueue
<1>4. CASE (StartResetTracker \/ StartResetMetrics \/ StartNewGeneration) /\ ApiUnchanged
  BY <1>1, <1>4 DEF StartResetTracker, StartResetMetrics, StartNewGeneration
<1>5. CASE (StartAnnounce \/ StartRun \/ StartControl) /\ ApiUnchanged
  BY <1>1, <1>5 DEF StartAnnounce, StartRun, StartControl
<1>6. CASE (StartSpawn \/ StartSpawnFails \/ StartFault) /\ ApiUnchanged
  BY <1>1, <1>6 DEF StartSpawn, StartSpawnFails, StartFault
<1>7. CASE Stop /\ ApiUnchanged
  BY <1>1, <1>7 DEF Stop, CallsStop, Joinable, ControlInv, StateTruthful
<1>8. CASE (StopState \/ StopRetire \/ StopCloseQueue) /\ ApiUnchanged
  BY <1>1, <1>8 DEF StopState, StopRetire, StopCloseQueue
<1>9. CASE (StopControl \/ StopControlUnheard \/ ControlWakes) /\ ApiUnchanged
  BY <1>1, <1>9 DEF StopControl, StopControlUnheard, ControlWakes
<1>10. CASE (StopJoin \/ StopClearQueue \/ StopClearTracker) /\ ApiUnchanged
  BY <1>1, <1>10 DEF StopJoin, StopClearQueue, StopClearTracker
<1>11. CASE StopDone /\ ApiUnchanged
  BY <1>1, <1>11 DEF StopDone
<1>12. CASE StopInactive
  BY <1>12 DEF StopInactive, vars
<1>13. QED
  BY <1>2, <1>3, <1>4, <1>5, <1>6, <1>7, <1>8, <1>9, <1>10, <1>11, <1>12
     DEF ClientStep, ApiStep, ApiCall

(* ... the capture thread, which exists only after the first start ...     *)
LEMMA FreshCapture ==
  ASSUME TypeOK, FreshInv, HandInv, CaptureStep
  PROVE  FreshInv' /\ HandInv'
<1> USE DEF HandInv, At, Goto, atomics, shared
<1>1. capture \in CaptureType /\ capture.at # "none"
  BY DEF TypeOK, CaptureStep, Read, CaptureLoop, CaptureMark, CaptureOpenFails, CaptureOpens,
     CaptureOnline, CaptureDisconnected, CaptureBackOff, ResetGeneration, ResetQueue,
     ResetTracker, CaptureNext, ReadReady, ReadTemporaryError, ReadEndOfStream,
     ReadFatalError, Stamp, PushFrame, CountFrame, CaptureClose, CaptureExit,
     CaptureMarkStopped
<1>2. FreshInv'
  BY <1>1 DEF FreshInv, Untouched, CaptureStep, history
<1>3. ASSUME PushFrame \/ CountFrame PROVE HandInv'
  BY <1>1, <1>3 DEF PushFrame, CountFrame, CaptureStep, CaptureType, stages
<1>4. ASSUME ~PushFrame, ~CountFrame
      PROVE  /\ capture.at # "count" /\ capture'.at # "count"
             /\ capture'.accepted = capture.accepted /\ capture'.dropped = capture.dropped
  <2>1. ASSUME CaptureLoop \/ CaptureMark \/ CaptureOpenFails \/ CaptureOpens \/ CaptureOnline
                 \/ CaptureDisconnected \/ CaptureBackOff
        PROVE  /\ capture.at # "count" /\ capture'.at # "count"
               /\ capture'.accepted = capture.accepted /\ capture'.dropped = capture.dropped
    BY <1>1, <2>1 DEF CaptureLoop, CaptureMark, CaptureOpenFails, CaptureOpens, CaptureOnline,
       CaptureDisconnected, CaptureBackOff, CaptureType
  <2>2. ASSUME ResetGeneration \/ ResetQueue \/ ResetTracker \/ CaptureNext \/ Stamp
        PROVE  /\ capture.at # "count" /\ capture'.at # "count"
               /\ capture'.accepted = capture.accepted /\ capture'.dropped = capture.dropped
    BY <1>1, <2>2 DEF ResetGeneration, ResetQueue, ResetTracker, CaptureNext, Stamp, CaptureType
  <2>3. ASSUME Read \/ CaptureClose \/ CaptureExit \/ CaptureMarkStopped
        PROVE  /\ capture.at # "count" /\ capture'.at # "count"
               /\ capture'.accepted = capture.accepted /\ capture'.dropped = capture.dropped
    BY <1>1, <2>3 DEF Read, ReadReady, ReadTemporaryError, ReadEndOfStream, ReadFatalError,
       CaptureClose, CaptureExit, CaptureMarkStopped, CaptureType
  <2>4. QED
    BY <1>4, <2>1, <2>2, <2>3 DEF CaptureStep
<1>5. worker' = worker
  BY DEF CaptureStep, stages
<1>6. QED
  BY <1>2, <1>3, <1>4, <1>5

(* ... and the others, which have work only when there are frames.         *)
LEMMA FreshStages ==
  ASSUME TypeOK, FreshInv, HandInv,
         WorkerStep \/ DeliveryStep \/ (OtherCameraEvicts /\ SessionUnchanged)
  PROVE  FreshInv' /\ HandInv'
<1>1. /\ UNCHANGED <<capture, api, starts, restarting>>
      /\ worker \in WorkerType /\ Len(queue) \in Nat /\ Len(queue) <= QueueSize
      /\ QueueSize \in Nat
  BY ConstantFacts DEF TypeOK, Queues, WorkerStep, DeliveryStep, SessionUnchanged, history
<1>2. CASE Take
  <2>1. /\ worker'.at = "count" /\ worker'.older = Len(queue) - 1 /\ queue # <<>>
    BY <1>2 DEF Take
  <2>2. QED
    BY <1>1, <2>1 DEF FreshInv, Untouched, HandInv
<1>3. CASE CountTaken \/ CountScheduled \/ RecordInference \/ Enqueue
  <2>1. worker.at # "idle"
    BY <1>3 DEF CountTaken, CountScheduled, RecordInference, Enqueue
  <2>2. worker'.at # "count"
    <3>1. ASSUME worker' = [worker EXCEPT !.at = "schedule", !.older = 0]
          PROVE  worker'.at = "schedule"
      BY ONLY <1>1, <3>1 DEF WorkerType
    <3>2. worker' = [worker EXCEPT !.at = "infer"] \/ worker' = [worker EXCEPT !.at = "enqueue"]
            => worker'.at # "count"
      BY <1>1 DEF WorkerType
    <3>3. QED
      BY <1>3, <3>1, <3>2 DEF CountTaken, CountScheduled, RecordInference, Enqueue, IdleWorker
  <2>3. QED
    BY <1>1, <2>1, <2>2 DEF FreshInv, Untouched, HandInv
<1>4. CASE DeliveryStep \/ OtherCameraEvicts
  <2>1. UNCHANGED <<worker, queue>>
    BY <1>4 DEF DeliveryStep, PopResult, RejectEarly, PassEarly, Recheck, Update,
       OtherCameraEvicts
  <2>2. QED
    BY <1>1, <2>1 DEF FreshInv, Untouched, HandInv
<1>5. QED
  BY <1>2, <1>3, <1>4 DEF WorkerStep

(* A step that counts nothing, and at most loses frames or starts again.   *)
Uncounted == /\ metrics' = metrics /\ queue' \in {queue, <<>>}
             /\ capture'.accepted = capture.accepted /\ capture'.dropped = capture.dropped
             /\ Taken' = Taken /\ InDetector' = InDetector
             /\ starts' \in {starts, starts + 1}

(* Such a step keeps the balance.                                          *)
LEMMA UncountedTally == ASSUME TypeOK, TallyInv, Uncounted PROVE TallyInv'
<1> DEFINE m == metrics.dropped + capture.dropped + metrics.skipped + metrics.stale
                  + metrics.scheduled
<1>1. /\ m \in Nat /\ metrics.captured \in Nat /\ metrics.scheduled \in Nat
      /\ metrics.inferred \in Nat /\ Len(queue) \in Nat /\ Taken \in Nat
      /\ Accepted \in Nat /\ InDetector \in Nat
  <2>1. /\ metrics.captured \in Nat /\ metrics.scheduled \in Nat
        /\ metrics.inferred \in Nat /\ Len(queue) \in Nat /\ Taken \in Nat
        /\ Accepted \in Nat /\ InDetector \in Nat
        /\ metrics.dropped \in Nat /\ metrics.skipped \in Nat /\ metrics.stale \in Nat
        /\ capture.dropped \in Nat
    BY TallyTypes
  <2>2. metrics.dropped + capture.dropped + metrics.skipped + metrics.stale
          + metrics.scheduled \in Nat
    BY <2>1, Sums
  <2>3. QED
    BY <2>1, <2>2
<1>2. /\ Parted = m + Len(queue) + Taken
      /\ Parted' = m + Len(queue)' + Taken
      /\ Accepted' = Accepted
  BY DEF Parted, Uncounted, Accepted
<1> HIDE DEF m
<1>3. Len(queue)' \in Nat /\ Len(queue)' <= Len(queue)
  <2>1. Len(<<>>) = 0
    OBVIOUS
  <2>2. QED
    BY <1>1, <2>1 DEF Uncounted
<1>4. /\ CarriedOver(1) \in Nat /\ CarriedOver(1)' \in Nat
      /\ CarriedOver(1) <= CarriedOver(1)'
      /\ CarriedOver(QueueSize) \in Nat /\ CarriedOver(QueueSize)' \in Nat
      /\ CarriedOver(QueueSize) <= CarriedOver(QueueSize)'
  BY TallyTypes DEF CarriedOver, Uncounted
<1>5. Parted' <= metrics.captured + Accepted + CarriedOver(QueueSize)'
  <2>1. m + Len(queue) + Taken <= metrics.captured + Accepted + CarriedOver(QueueSize)
    BY <1>2 DEF TallyInv
  <2>2. QED
    BY <1>1, <1>2, <1>3, <1>4, <2>1
<1>6. metrics.inferred + InDetector <= metrics.scheduled + CarriedOver(1)'
  BY <1>1, <1>4 DEF TallyInv
<1>7. QED
  BY <1>2, <1>5, <1>6 DEF TallyInv, Uncounted

(* The client counts nothing but starts the counters again.                *)
LEMMA TallyApi ==
  ASSUME TypeOK, FreshInv, HandInv, QuietInv, ControlInv, TallyInv, ClientStep
  PROVE  TallyInv'
<1>1. CASE StartResetMetrics /\ ApiUnchanged
  <2>1. /\ api = "resetMetrics" /\ metrics' = NoMetrics
        /\ UNCHANGED <<queue, capture, worker, starts>>
    BY <1>1 DEF StartResetMetrics, ApiUnchanged, frames, history, stages
  <2>2. capture.at = "none" /\ queue = <<>>
    BY <2>1 DEF ControlInv, Joined, QuietInv
  <2>3. /\ Len(queue) = 0 /\ capture.dropped = 0 /\ Accepted = 0
    BY <2>2 DEF HandInv, Accepted
  <2>4. Taken <= CarriedOver(QueueSize) /\ InDetector <= CarriedOver(1)
    <3>1. starts \in Nat /\ worker.older \in Nat /\ QueueSize \in Nat /\ QueueSize >= 1
      BY TallyTypes
    <3>2. CASE starts > 1
      BY <3>1, <3>2 DEF CarriedOver, Taken, InDetector, HandInv
    <3>3. CASE ~(starts > 1)
      BY <2>1, <3>1, <3>3 DEF CarriedOver, Taken, InDetector, FreshInv, Untouched
    <3>4. QED
      BY <3>2, <3>3
  <2>5. /\ Taken' = Taken /\ InDetector' = InDetector /\ Accepted' = Accepted
        /\ CarriedOver(1)' = CarriedOver(1)
        /\ CarriedOver(QueueSize)' = CarriedOver(QueueSize)
    BY <2>1 DEF Taken, InDetector, Accepted, CarriedOver
  <2>6. /\ Parted' = 0 + 0 + 0 + 0 + 0 + 0 + Taken
        /\ metrics'.captured = 0 /\ metrics'.inferred = 0 /\ metrics'.scheduled = 0
    BY <2>1, <2>3, <2>5 DEF Parted, NoMetrics
  <2>7. /\ Taken \in Nat /\ InDetector \in Nat /\ CarriedOver(1) \in Nat
        /\ CarriedOver(QueueSize) \in Nat
    BY TallyTypes
  <2>8. QED
    BY <2>3, <2>4, <2>5, <2>6, <2>7 DEF TallyInv
<1>2. ASSUME ~(StartResetMetrics /\ ApiUnchanged) PROVE Uncounted
  <2> USE DEF Uncounted, ApiUnchanged, atomics, frames, session, history, stages
  <2>1. ApiUnchanged \/ StopInactive => Taken' = Taken /\ InDetector' = InDetector
    BY DEF Taken, InDetector, StopInactive, vars
  <2>2. ASSUME Start \/ Stop \/ StartResetQueue \/ StartResetTracker \/ StartNewGeneration,
               ApiUnchanged
        PROVE  Uncounted
    BY <2>1, <2>2 DEF Start, Stop, StartResetQueue, StartResetTracker, StartNewGeneration
  <2>3. ASSUME StartAnnounce \/ StartRun \/ StartControl \/ StartSpawnFails \/ StartFault
                 \/ StopControl \/ StopControlUnheard \/ ControlWakes,
               ApiUnchanged
        PROVE  Uncounted
    BY <2>1, <2>3 DEF StartAnnounce, StartRun, StartControl, StartSpawnFails, StartFault,
       StopControl, StopControlUnheard, ControlWakes
  <2>4. ASSUME StopState \/ StopRetire \/ StopCloseQueue \/ StopClearQueue \/ StopClearTracker
                 \/ StopDone,
               ApiUnchanged
        PROVE  Uncounted
    BY <2>1, <2>4 DEF StopState, StopRetire, StopCloseQueue, StopClearQueue, StopClearTracker,
       StopDone
  <2>5. ASSUME StartSpawn \/ StopJoin, ApiUnchanged PROVE Uncounted
    <3>1. capture.at # "count"
      BY <2>5 DEF StartSpawn, StopJoin, ControlInv, Joined, Launching
    <3>2. ~capture.accepted /\ capture.dropped = 0 /\ capture \in CaptureType
      BY <3>1, TallyTypes DEF HandInv
    <3>3. ~capture'.accepted /\ capture'.dropped = 0
      BY <2>5, <3>2 DEF StartSpawn, StopJoin, NoCapture
    <3>4. capture.accepted = FALSE /\ capture'.accepted = FALSE
      BY <2>5, <3>2 DEF StartSpawn, StopJoin, NoCapture, CaptureType
    <3>5. metrics' = metrics /\ queue' = queue /\ starts' = starts
      BY <2>5 DEF StartSpawn, StopJoin
    <3>6. QED
      BY <2>1, <2>5, <3>2, <3>3, <3>4, <3>5
  <2>6. ASSUME StopInactive PROVE Uncounted
    BY <2>1, <2>6 DEF StopInactive, vars
  <2>7. QED
    BY <1>2, <2>2, <2>3, <2>4, <2>5, <2>6 DEF ClientStep, ApiStep, ApiCall
<1>3. QED
  BY <1>1, <1>2, UncountedTally

(* A frame is pushed, then it is counted as captured.                      *)
LEMMA TallyCapture ==
  ASSUME TypeOK, HandInv, TallyInv, CaptureStep
  PROVE  TallyInv'
<1> DEFINE m == metrics.skipped + metrics.stale + metrics.scheduled
<1>0. metrics.skipped \in Nat /\ metrics.stale \in Nat /\ metrics.scheduled \in Nat
  BY TallyTypes
<1>1. /\ m \in Nat /\ metrics.captured \in Nat /\ metrics.dropped \in Nat
      /\ capture.dropped \in Nat /\ Len(queue) \in Nat /\ Taken \in Nat
      /\ CarriedOver(QueueSize) \in Nat /\ capture \in CaptureType
  <2>1. m \in Nat
    BY <1>0
  <2>2. QED
    BY <2>1, TallyTypes
<1>2. /\ UNCHANGED <<worker, starts, queueClosed>>
      /\ Taken' = Taken /\ InDetector' = InDetector
      /\ CarriedOver(1)' = CarriedOver(1)
      /\ CarriedOver(QueueSize)' = CarriedOver(QueueSize)
  BY DEF CaptureStep, stages, history, Taken, InDetector, CarriedOver
<1>3. metrics.dropped + capture.dropped + m + Len(queue) + Taken
        <= metrics.captured + Accepted + CarriedOver(QueueSize)
  <2>1. Parted = metrics.dropped + capture.dropped + metrics.skipped + metrics.stale
                   + metrics.scheduled + Len(queue) + Taken
    BY DEF Parted
  <2>2. Parted = metrics.dropped + capture.dropped + m + Len(queue) + Taken
    <3>1. \A d, c, l \in Nat :
            d + c + metrics.skipped + metrics.stale + metrics.scheduled + l + Taken
              = d + c + m + l + Taken
      BY <1>0, <1>1, Sums
    <3>2. QED
      BY <1>1, <2>1, <3>1
  <2>3. QED
    BY <2>2 DEF TallyInv
<1>4. ASSUME metrics'.dropped + capture'.dropped + m + Len(queue)' + Taken
               <= metrics'.captured + Accepted' + CarriedOver(QueueSize),
             metrics'.skipped = metrics.skipped, metrics'.stale = metrics.stale,
             metrics'.scheduled = metrics.scheduled, metrics'.inferred = metrics.inferred,
             metrics'.dropped \in Nat, capture'.dropped \in Nat, Len(queue)' \in Nat
      PROVE  TallyInv'
  <2>1. Parted' = metrics'.dropped + capture'.dropped + metrics.skipped + metrics.stale
                   + metrics.scheduled + Len(queue)' + Taken
    BY <1>2, <1>4 DEF Parted
  <2>2. Parted' = metrics'.dropped + capture'.dropped + m + Len(queue)' + Taken
    <3>1. metrics'.dropped \in Nat /\ capture'.dropped \in Nat /\ Len(queue)' \in Nat
      BY <1>4
    <3>2. \A d, c, l \in Nat :
            d + c + metrics.skipped + metrics.stale + metrics.scheduled + l + Taken
              = d + c + m + l + Taken
      BY <1>0, <1>1, Sums
    <3>3. QED
      BY <2>1, <3>1, <3>2
  <2>3. QED
    BY <1>2, <1>4, <2>2 DEF TallyInv
<1> HIDE DEF m
<1>5. CASE PushFrame
  <2>1. /\ capture.at = "push" /\ metrics' = metrics
        /\ capture.dropped = 0 /\ Accepted = 0
    BY <1>5 DEF PushFrame, HandInv, Accepted, At
  <2>2. CASE queueClosed
    <3>1. capture'.dropped = 0 /\ capture'.accepted = FALSE /\ queue' = queue
      BY <1>1, <1>5, <2>2 DEF PushFrame, CaptureType
    <3>2. Accepted' = 0
      BY <3>1 DEF Accepted
    <3>3. QED
      BY <1>1, <1>3, <1>4, <2>1, <3>1, <3>2, TallyTypes
  <2>3. CASE ~queueClosed
    <3> DEFINE r == PushLatest(queue, capture.frame, QueueSize)
               n == Dropped(queue, QueueSize)
    <3>1. capture'.dropped = n /\ capture'.accepted = TRUE /\ queue' = r
      BY <1>1, <1>5, <2>3 DEF PushFrame, CaptureType
    <3>2. Accepted' = 1
      BY <3>1 DEF Accepted
    <3>3. Len(r) + n = Len(queue) + 1 /\ Len(r) \in Nat /\ n \in Nat
      <4>1. queue \in Seq(Frame) /\ Len(queue) <= QueueSize /\ capture.frame \in Frame
        BY StageTypes
      <4>2. /\ Shed(queue, QueueSize) \in Seq(Frame)
            /\ \E k \in Nat : Len(Shed(queue, QueueSize)) + k = Len(queue)
        BY <4>1, ShedFacts, ConstantFacts
      <4>3. Len(r) = Len(Shed(queue, QueueSize)) + 1
        BY <4>1, <4>2, AppendProperties DEF PushLatest
      <4>4. Len(Shed(queue, QueueSize)) \in Nat
        BY <4>2
      <4> HIDE DEF r
      <4>5. QED
        BY <1>1, <4>2, <4>3, <4>4 DEF Dropped
    <3> HIDE DEF r, n
    <3>4. metrics.dropped + n + m + Len(r) + Taken
            <= metrics.captured + 1 + CarriedOver(QueueSize)
      <4>1. metrics.dropped + 0 + m + Len(queue) + Taken
              <= metrics.captured + 0 + CarriedOver(QueueSize)
        BY <1>3, <2>1
      <4>2. m \in Nat
        BY <1>1
      <4>3. QED
        BY <1>1, <3>3, <4>1, <4>2, PushBalance
    <3>5. QED
      BY <1>1, <1>4, <2>1, <3>1, <3>2, <3>3, <3>4, TallyTypes
  <2>4. QED
    BY <2>2, <2>3
<1>6. CASE CountFrame
  <2>1. /\ metrics' = [metrics EXCEPT !.captured = @ + 1, !.dropped = @ + capture.dropped]
        /\ queue' = queue
    BY <1>6 DEF CountFrame
  <2>2. capture'.accepted = FALSE /\ capture'.dropped = 0
    BY <1>1, <1>6 DEF CountFrame, CaptureType
  <2>3. /\ metrics'.captured = metrics.captured + 1
        /\ metrics'.dropped = metrics.dropped + capture.dropped
        /\ metrics'.skipped = metrics.skipped /\ metrics'.stale = metrics.stale
        /\ metrics'.scheduled = metrics.scheduled /\ metrics'.inferred = metrics.inferred
    <3>1. metrics \in MetricsType
      BY TallyTypes
    <3>2. QED
      BY ONLY <2>1, <3>1 DEF MetricsType
  <2>4. Accepted' = 0 /\ Accepted \in {0, 1}
    BY <2>2 DEF Accepted
  <2>5. (metrics.dropped + capture.dropped) + 0 + m + Len(queue) + Taken
          <= metrics.captured + 1 + 0 + CarriedOver(QueueSize)
    BY <1>1, <1>3, <2>4
  <2>6. QED
    BY <1>1, <1>4, <2>1, <2>2, <2>3, <2>4, <2>5
<1>7. ASSUME ~PushFrame, ~CountFrame PROVE Uncounted
  <2> USE DEF Uncounted, At, Goto, atomics, shared
  <2>1. ASSUME CaptureLoop \/ CaptureMark \/ CaptureOpenFails \/ CaptureOpens \/ CaptureOnline
                 \/ CaptureDisconnected \/ CaptureBackOff
        PROVE  Uncounted
    BY <1>1, <1>2, <2>1 DEF CaptureLoop, CaptureMark, CaptureOpenFails, CaptureOpens,
       CaptureOnline, CaptureDisconnected, CaptureBackOff, CaptureType
  <2>2. ASSUME ResetGeneration \/ ResetQueue \/ ResetTracker \/ CaptureNext \/ Stamp
        PROVE  Uncounted
    BY <1>1, <1>2, <2>2 DEF ResetGeneration, ResetQueue, ResetTracker, CaptureNext, Stamp,
       CaptureType
  <2>3. ASSUME Read \/ CaptureClose \/ CaptureExit \/ CaptureMarkStopped
        PROVE  Uncounted
    BY <1>1, <1>2, <2>3 DEF Read, ReadReady, ReadTemporaryError, ReadEndOfStream,
       ReadFatalError, CaptureClose, CaptureExit, CaptureMarkStopped, CaptureType
  <2>4. QED
    BY <1>7, <2>1, <2>2, <2>3 DEF CaptureStep
<1>8. QED
  BY <1>5, <1>6, <1>7, UncountedTally

(* The worker counts what it took, as skipped, stale or scheduled.         *)
LEMMA TallyWorker ==
  ASSUME TypeOK, TallyInv, WorkerStep
  PROVE  TallyInv'
<1> DEFINE m == metrics.dropped + capture.dropped
           p == metrics.captured + Accepted + CarriedOver(QueueSize)
<1>1. /\ metrics.dropped \in Nat /\ capture.dropped \in Nat /\ metrics.captured \in Nat
      /\ Accepted \in Nat /\ CarriedOver(QueueSize) \in Nat
  BY TallyTypes
<1>2. m \in Nat /\ p \in Nat
  BY <1>1
<1>3. /\ metrics.skipped \in Nat /\ metrics.stale \in Nat /\ metrics.scheduled \in Nat
      /\ metrics.inferred \in Nat /\ Len(queue) \in Nat /\ worker.older \in Nat
      /\ CarriedOver(1) \in Nat /\ worker \in WorkerType /\ metrics \in MetricsType
  BY TallyTypes
<1>4. /\ UNCHANGED <<capture, starts>> /\ Accepted' = Accepted
      /\ CarriedOver(1)' = CarriedOver(1)
      /\ CarriedOver(QueueSize)' = CarriedOver(QueueSize)
  BY DEF WorkerStep, SessionUnchanged, Accepted, CarriedOver, history
<1>5. /\ m + metrics.skipped + metrics.stale + metrics.scheduled + Len(queue) + Taken <= p
      /\ metrics.inferred + InDetector <= metrics.scheduled + CarriedOver(1)
  BY DEF TallyInv, Parted
<1>6. ASSUME metrics'.captured = metrics.captured, metrics'.dropped = metrics.dropped,
             m + metrics'.skipped + metrics'.stale + metrics'.scheduled + Len(queue)' + Taken'
               <= p,
             metrics'.inferred + InDetector' <= metrics'.scheduled + CarriedOver(1)
      PROVE  TallyInv'
  BY <1>4, <1>6 DEF TallyInv, Parted
<1> HIDE DEF m, p
<1>7. CASE Take
  <2>1. /\ worker.at = "idle" /\ worker'.at = "count" /\ worker'.older = Len(queue) - 1
        /\ queue' = <<>> /\ metrics' = metrics
    BY <1>7 DEF Take
  <2>2. /\ Taken = 0 /\ Taken' = Len(queue) /\ Len(queue)' = 0
        /\ InDetector' = InDetector
    BY <1>3, <2>1 DEF Taken, InDetector
  <2>3. m + metrics.skipped + metrics.stale + metrics.scheduled + 0 + Len(queue) <= p
    BY <1>2, <1>3, <1>5, <2>2
  <2>4. QED
    BY <1>5, <1>6, <2>1, <2>2, <2>3
<1>8. CASE CountTaken
  <2>1. worker.at = "count" /\ queue' = queue
    BY <1>8 DEF CountTaken
  <2>2. Taken = worker.older + 1 /\ InDetector = 0
    BY <2>1 DEF Taken, InDetector
  <2>3. CASE /\ metrics' = [metrics EXCEPT !.skipped = @ + worker.older]
             /\ worker' = [worker EXCEPT !.at = "schedule", !.older = 0]
    <3>1. worker'.at = "schedule"
      BY ONLY <1>3, <2>3 DEF WorkerType
    <3>2. /\ metrics'.skipped = metrics.skipped + worker.older
          /\ metrics'.captured = metrics.captured /\ metrics'.dropped = metrics.dropped
          /\ metrics'.stale = metrics.stale /\ metrics'.scheduled = metrics.scheduled
          /\ metrics'.inferred = metrics.inferred
      BY ONLY <1>3, <2>3 DEF MetricsType
    <3>3. Taken' = 1 /\ InDetector' = 0
      BY <3>1 DEF Taken, InDetector
    <3>4. m + (metrics.skipped + worker.older) + metrics.stale + metrics.scheduled
            + Len(queue) + 1 <= p
      <4>1. m + metrics.skipped + metrics.stale + metrics.scheduled + Len(queue)
              + (worker.older + 1) <= p
        BY <1>5, <2>2
      <4>2. QED
        BY <1>2, <1>3, <4>1, TakenBalance
    <3>5. QED
      BY <1>5, <1>6, <2>1, <2>2, <3>2, <3>3, <3>4
  <2>4. CASE /\ metrics' = [metrics EXCEPT !.skipped = @ + worker.older, !.stale = @ + 1]
             /\ worker' = IdleWorker
    <3>1. worker'.at = "idle"
      BY <2>4 DEF IdleWorker
    <3>2. /\ metrics'.skipped = metrics.skipped + worker.older
          /\ metrics'.captured = metrics.captured /\ metrics'.dropped = metrics.dropped
          /\ metrics'.stale = metrics.stale + 1 /\ metrics'.scheduled = metrics.scheduled
          /\ metrics'.inferred = metrics.inferred
      BY ONLY <1>3, <2>4 DEF MetricsType
    <3>3. Taken' = 0 /\ InDetector' = 0
      BY <3>1 DEF Taken, InDetector
    <3>4. m + (metrics.skipped + worker.older) + (metrics.stale + 1) + metrics.scheduled
            + Len(queue) + 0 <= p
      <4>1. m + metrics.skipped + metrics.stale + metrics.scheduled + Len(queue)
              + (worker.older + 1) <= p
        BY <1>5, <2>2
      <4>2. QED
        BY <1>2, <1>3, <4>1, TakenBalance
    <3>5. QED
      BY <1>5, <1>6, <2>1, <2>2, <3>2, <3>3, <3>4
  <2>5. QED
    BY <1>8, <2>3, <2>4 DEF CountTaken
<1>9. CASE CountScheduled
  <2>1. /\ worker.at = "schedule" /\ worker'.at = "infer" /\ queue' = queue
        /\ metrics' = [metrics EXCEPT !.scheduled = @ + 1]
    BY <1>3, <1>9 DEF CountScheduled, WorkerType
  <2>2. Taken = 1 /\ Taken' = 0 /\ InDetector = 0 /\ InDetector' = 1
    BY <2>1 DEF Taken, InDetector
  <2>3. /\ metrics'.scheduled = metrics.scheduled + 1
        /\ metrics'.captured = metrics.captured /\ metrics'.dropped = metrics.dropped
        /\ metrics'.stale = metrics.stale /\ metrics'.skipped = metrics.skipped
        /\ metrics'.inferred = metrics.inferred
    BY ONLY <1>3, <2>1 DEF MetricsType
  <2>4. /\ m + metrics.skipped + metrics.stale + (metrics.scheduled + 1) + Len(queue) + 0 <= p
        /\ metrics.inferred + 1 <= (metrics.scheduled + 1) + CarriedOver(1)
    <3>1. m + metrics.skipped + metrics.stale + metrics.scheduled + Len(queue) + 1 <= p
      BY <1>5, <2>2
    <3>2. m + metrics.skipped + metrics.stale + (metrics.scheduled + 1) + Len(queue) + 0 <= p
      BY <1>2, <1>3, <3>1, TakenBalance
    <3>3. metrics.inferred + 1 <= (metrics.scheduled + 1) + CarriedOver(1)
      BY <1>3, <1>5, <2>2
    <3>4. QED
      BY <3>2, <3>3
  <2>5. QED
    BY <1>6, <2>1, <2>2, <2>3, <2>4
<1>10. CASE RecordInference
  <2>1. worker.at = "infer" /\ queue' = queue
    BY <1>10 DEF RecordInference
  <2>2. worker'.at \in {"enqueue", "idle"}
    BY <1>3, <1>10 DEF RecordInference, WorkerType, IdleWorker
  <2>3. Taken = 0 /\ Taken' = 0 /\ InDetector = 1 /\ InDetector' = 0
    BY <2>1, <2>2 DEF Taken, InDetector
  <2>4. /\ metrics'.scheduled = metrics.scheduled
        /\ metrics'.captured = metrics.captured /\ metrics'.dropped = metrics.dropped
        /\ metrics'.stale = metrics.stale /\ metrics'.skipped = metrics.skipped
        /\ metrics'.inferred \in {metrics.inferred, metrics.inferred + 1}
    <3>1. metrics' = metrics \/ metrics' = [metrics EXCEPT !.inferred = @ + 1]
      BY <1>10 DEF RecordInference
    <3>2. QED
      BY ONLY <1>3, <3>1 DEF MetricsType
  <2>5. metrics'.inferred + 0 <= metrics.scheduled + CarriedOver(1)
    BY <1>3, <1>5, <2>3, <2>4
  <2>6. QED
    BY <1>5, <1>6, <2>1, <2>3, <2>4, <2>5
<1>11. CASE Enqueue
  <2>1. worker.at = "enqueue" /\ worker'.at = "idle" /\ metrics' = metrics /\ queue' = queue
    BY <1>11 DEF Enqueue, IdleWorker
  <2>2. Taken' = Taken /\ InDetector' = InDetector
    BY <2>1 DEF Taken, InDetector
  <2>3. QED
    BY <1>5, <1>6, <2>1, <2>2
<1>12. QED
  BY <1>7, <1>8, <1>9, <1>10, <1>11 DEF WorkerStep

(* The delivery thread and the other cameras count nothing here.           *)
LEMMA TallyDelivery ==
  ASSUME TypeOK, TallyInv, DeliveryStep \/ (OtherCameraEvicts /\ SessionUnchanged)
  PROVE  TallyInv'
<1>1. UNCHANGED <<worker, queue, metrics, capture, starts>>
  BY DEF DeliveryStep, PopResult, RejectEarly, PassEarly, Recheck, Update, OtherCameraEvicts,
     SessionUnchanged, history
<1>2. Uncounted
  BY <1>1 DEF Uncounted, Taken, InDetector
<1>3. QED
  BY <1>2, UncountedTally

(* Every step keeps the balance of the counters.                           *)
LEMMA CountNext ==
  TypeOK /\ ControlInv /\ QuietInv /\ CountInv /\ [Next]_vars => CountInv'
<1> SUFFICES ASSUME TypeOK, ControlInv, QuietInv, CountInv, [Next]_vars PROVE CountInv'
  OBVIOUS
<1>1. FreshInv /\ HandInv /\ TallyInv
  BY DEF CountInv
<1>2. CASE UNCHANGED vars
  BY <1>1, <1>2 DEF CountInv, FreshInv, HandInv, TallyInv, Untouched, Parted, Taken,
     InDetector, Accepted, CarriedOver, vars, frames, history, stages
<1>3. CASE ClientStep
  BY <1>1, <1>3, FreshApi, TallyApi DEF CountInv
<1>4. CASE CaptureStep
  BY <1>1, <1>4, FreshCapture, TallyCapture DEF CountInv
<1>5. CASE WorkerStep
  BY <1>1, <1>5, FreshStages, TallyWorker DEF CountInv
<1>6. CASE DeliveryStep \/ (OtherCameraEvicts /\ SessionUnchanged)
  BY <1>1, <1>6, FreshStages, TallyDelivery DEF CountInv
<1>7. QED
  BY <1>2, <1>3, <1>4, <1>5, <1>6 DEF Next, ClientStep

(* Nothing is in order and counted at the beginning.                       *)
LEMMA OrderAndCountInit == Init => OrderInv /\ CountInv
<1> SUFFICES ASSUME Init PROVE OrderInv /\ CountInv
  OBVIOUS
<1>1. OrderInv
  <2>1. /\ Tracked = {} /\ Delivering = {} /\ Inferring = {} /\ Reading = {}
        /\ Ids(queue) = {} /\ Ids(results) = {} /\ Rising(queue) /\ Rising(results)
    BY EmptyRises DEF Init, Tracked, Delivering, Inferring, Reading, NoCapture, IdleWorker,
                      IdleDelivery
  <2>2. QED
    BY <2>1 DEF OrderInv, Ordered, Before
<1>2. FreshInv /\ HandInv
  BY DEF Init, FreshInv, HandInv, Untouched, NoCapture, IdleWorker
<1>3. TallyInv
  <2>1. /\ Taken = 0 /\ InDetector = 0 /\ Accepted = 0 /\ Len(queue) = 0
        /\ metrics = NoMetrics /\ capture.dropped = 0
        /\ CarriedOver(1) = 0 /\ CarriedOver(QueueSize) = 0
    BY DEF Init, Taken, InDetector, Accepted, CarriedOver, NoCapture, IdleWorker
  <2>2. QED
    BY <2>1 DEF TallyInv, Parted, NoMetrics
<1>4. QED
  BY <1>1, <1>2, <1>3 DEF CountInv
-----------------------------------------------------------------------------
(* The invariant, conjunct by conjunct.                                    *)

(* The invariant holds initially.                                          *)
LEMMA InitInv == Init => SessionInv
<1> SUFFICES ASSUME Init PROVE SessionInv
  OBVIOUS
<1> USE DEF Init, NoCapture, IdleWorker, IdleDelivery
<1>1. TypeOK
  BY TypeInit
<1>2. ControlInv /\ LockInv
  BY ControlsAssumption
     DEF ControlInv, LockInv, StateTruthful, Joinable, Joined, Launching, Quitting
<1>3. InFlight = {} /\ Settled = {}
  BY EmptyQueue DEF InFlight, Settled, At
<1>4. PastInv /\ CurrentInv /\ SettledInv
  BY <1>3 DEF PastInv, CurrentInv, SettledInv
<1>5. StampInv /\ QuietInv
  BY DEF StampInv, QuietInv, At
<1>6. QED
  BY <1>1, <1>2, <1>4, <1>5, OrderAndCountInit DEF SessionInv

(* Whatever is in flight is a frame.                                       *)
LEMMA InFlightFrames == TypeOK => InFlight \subseteq Frame
<1> SUFFICES ASSUME TypeOK PROVE InFlight \subseteq Frame
  OBVIOUS
<1>1. queue \in Seq(Frame) /\ results \in Seq(Frame)
  BY DEF TypeOK, Queues
<1>2. Elements(queue) \subseteq Frame /\ Elements(results) \subseteq Frame
  BY <1>1 DEF Elements
<1>3. capture.frame \in Frame /\ worker.frame \in Frame /\ delivery.frame \in Frame
  BY DEF TypeOK, CaptureType, WorkerType, DeliveryType
<1>4. QED
  BY <1>2, <1>3 DEF InFlight, TypeOK

(* The frame that is being stamped.                                        *)
LEMMA StampedFrame ==
  ASSUME TypeOK, StampInv, [Next]_vars, NEW f \in Stamped
  PROVE  /\ f.gen = generation /\ generation' = generation
         /\ f.open = opens /\ opens' = opens
         /\ capture.at = "stamp" /\ capture'.at = "push" /\ api' = api
<1>1. At("stamp") /\ capture'.at = "push" /\ f = capture'.frame
  BY DEF Stamped
<1>2. Stamp /\ CaptureStep
  <2>1. capture' # capture
    BY <1>1 DEF At
  <2>2. ~ClientStep
    BY <1>1, <2>1 DEF At, ClientStep, ApiCall, ApiStep, Start, StartResetQueue,
       StartResetTracker, StartResetMetrics, StartNewGeneration, StartAnnounce, StartRun,
       StartControl, StartSpawn, StartSpawnFails, StartFault, Stop, StopInactive, StopState,
       StopRetire, StopCloseQueue, StopControl, StopControlUnheard, StopJoin, StopClearQueue,
       StopClearTracker, StopDone, ControlWakes, NoCapture, vars
  <2>3. CaptureStep
    BY <2>1, <2>2 DEF Next, ClientStep, vars, WorkerStep, DeliveryStep, SessionUnchanged
  <2>4. QED
    BY <1>1, <2>3 DEF CaptureStep, Read, At, CaptureLoop, CaptureMark, CaptureOpenFails,
         CaptureOpens, CaptureOnline, CaptureDisconnected, CaptureBackOff, ResetGeneration,
         ResetQueue, ResetTracker, CaptureNext, ReadReady, ReadTemporaryError,
         ReadEndOfStream, ReadFatalError, PushFrame, CountFrame, CaptureClose, CaptureExit,
         CaptureMarkStopped
<1>3. f.gen = generation /\ f.open = capture.frame.open
  BY <1>1, <1>2 DEF Stamp, TypeOK, CaptureType, Frame
<1>4. UNCHANGED <<generation, opens, api>>
  BY <1>2 DEF Stamp, CaptureStep, atomics, shared, history
<1>5. QED
  BY <1>1, <1>3, <1>4 DEF StampInv, At

(* No stamp comes from the future.                                         *)
LEMMA PastNext ==
  TypeOK /\ PastInv /\ StampInv /\ Footprint /\ FrameSteps /\ [Next]_vars => PastInv'
<1> SUFFICES ASSUME TypeOK, PastInv, StampInv, Footprint, FrameSteps, [Next]_vars
             PROVE  PastInv'
  OBVIOUS
<1>1. generation \in Nat /\ generation <= generation' /\ generation' \in Nat
  BY DEF Footprint, TypeOK
<1>2. ASSUME NEW f \in InFlight' PROVE f.gen <= generation'
  <2>1. CASE f \in Stamped
    BY <1>1, <2>1, StampedFrame
  <2>2. CASE f \in InFlight
    <3>1. f.gen \in Nat /\ f.gen <= generation
      BY <2>2, InFlightFrames DEF PastInv, Frame
    <3>2. QED
      BY <1>1, <3>1
  <2>3. QED
    BY <2>1, <2>2 DEF FrameSteps
<1>3. QED
  BY <1>2 DEF PastInv

(* A frame of the current generation is of the present connection.         *)
LEMMA CurrentNext ==
  TypeOK /\ ControlInv /\ PastInv /\ StampInv /\ CurrentInv /\ Footprint /\ FrameSteps
    /\ [Next]_vars
    => CurrentInv'
<1> SUFFICES ASSUME TypeOK, ControlInv, PastInv, StampInv, CurrentInv, Footprint, FrameSteps,
                    [Next]_vars, NEW f \in InFlight', f.gen = generation'
             PROVE  /\ f.open = opens'
                    /\ capture'.at \notin Between
                    /\ api' \notin Launching
                    /\ Quitting' => generation' = advanced'
                    /\ Cleared' => generation' = retired'
  BY DEF CurrentInv
<1>1. CASE f \in Stamped
  <2>1. /\ f.gen = generation /\ generation' = generation
        /\ f.open = opens /\ opens' = opens
        /\ capture.at = "stamp" /\ capture'.at = "push" /\ api' = api
    BY <1>1, StampedFrame
  <2>2. Quitting => generation = advanced
    BY <2>1 DEF ControlInv
  <2>3. Quitting' => Quitting /\ advanced' = advanced
    BY <2>1 DEF Footprint
  <2>4. api \notin Launching
    BY <2>1 DEF ControlInv, Joined
  <2>5. QED
    BY <2>1, <2>2, <2>3, <2>4 DEF Between, Clean, Unconnected, Cleared
<1>2. CASE f \in InFlight
  <2>1. generation' = generation
    <3>1. f.gen <= generation /\ generation \in Nat
      BY <1>2 DEF PastInv, TypeOK
    <3>2. QED
      BY <3>1 DEF Footprint
  <2>2. /\ f.open = opens /\ capture.at \notin Between /\ api \notin Launching
        /\ (Quitting => generation = advanced) /\ (Cleared => generation = retired)
    BY <1>2, <2>1 DEF CurrentInv
  <2>3. capture.at # "open"
    BY <2>2 DEF Between, Clean, Unconnected
  <2>4. QED
    BY <2>1, <2>2, <2>3 DEF Footprint
<1>3. QED
  BY <1>1, <1>2 DEF FrameSteps

(* What the tracker holds is settled.                                      *)
LEMMA SettledNext ==
  TypeOK /\ CurrentInv /\ SettledInv /\ Footprint /\ FrameSteps => SettledInv'
<1> SUFFICES ASSUME TypeOK, CurrentInv, SettledInv, Footprint, FrameSteps,
                    NEW f \in Settled'
             PROVE  /\ f.open = opens' \/ (f.gen = retired' /\ f.open = opens' - 1)
                    /\ Severed' => f.gen = retired'
                    /\ Apart' => f.open = opens'
  BY DEF SettledInv, Severed, Apart
<1>1. retired' = retired /\ (Severed' => Severed) /\ (Apart' => Apart)
  BY DEF FrameSteps
<1>2. CASE f \in Settled
  <2>1. /\ f.open = opens \/ (f.gen = retired /\ f.open = opens - 1)
        /\ Severed => f.gen = retired
        /\ Apart => f.open = opens
    BY <1>2 DEF SettledInv, Severed, Apart
  <2>2. CASE opens' = opens
    BY <1>1, <2>1, <2>2
  <2>3. CASE capture.at = "open" /\ opens' = opens + 1 /\ ~Apart'
    <3>1. Severed /\ Apart /\ opens \in Nat
      BY <2>3 DEF Severed, Apart, Clean, Unconnected, TypeOK
    <3>2. QED
      BY <1>1, <2>1, <2>3, <3>1
  <2>4. QED
    BY <2>2, <2>3 DEF Footprint
<1>3. CASE f \in Passed
  <2>1. /\ f.open = opens /\ opens' = opens /\ f.gen = generation
        /\ capture.at \notin Between /\ (Cleared => generation = retired)
    BY <1>3 DEF Passed, CurrentInv
  <2>2. Severed => Cleared
    BY <2>1 DEF Severed, Between
  <2>3. QED
    BY <1>1, <2>1, <2>2
<1>4. QED
  BY <1>2, <1>3 DEF FrameSteps

(* The client leaves a frame about to be stamped its connection.           *)
LEMMA StampApi == TypeOK /\ ControlInv /\ StampInv /\ ClientStep => StampInv'
<1> SUFFICES ASSUME TypeOK, ControlInv, StampInv, ClientStep PROVE StampInv'
  OBVIOUS
<1> USE DEF StampInv, ControlInv, Joined, Launching, TypeOK, CaptureType, At,
            ApiUnchanged, atomics, frames, session, history, stages
<1>1. CASE Start /\ ApiUnchanged
  BY <1>1 DEF Start
<1>2. CASE StartResetQueue /\ ApiUnchanged
  BY <1>2 DEF StartResetQueue
<1>3. CASE StartResetTracker /\ ApiUnchanged
  BY <1>3 DEF StartResetTracker
<1>4. CASE StartResetMetrics /\ ApiUnchanged
  BY <1>4 DEF StartResetMetrics
<1>5. CASE StartNewGeneration /\ ApiUnchanged
  BY <1>5 DEF StartNewGeneration
<1>6. CASE StartAnnounce /\ ApiUnchanged
  BY <1>6 DEF StartAnnounce
<1>7. CASE StartRun /\ ApiUnchanged
  BY <1>7 DEF StartRun
<1>8. CASE StartControl /\ ApiUnchanged
  BY <1>8 DEF StartControl
<1>9. CASE StartSpawn /\ ApiUnchanged
  BY <1>9 DEF StartSpawn, NoCapture
<1>10. CASE StartSpawnFails /\ ApiUnchanged
  BY <1>10 DEF StartSpawnFails
<1>11. CASE StartFault /\ ApiUnchanged
  BY <1>11 DEF StartFault
<1>12. CASE Stop /\ ApiUnchanged
  BY <1>12 DEF Stop, CallsStop
<1>13. CASE StopState /\ ApiUnchanged
  BY <1>13 DEF StopState
<1>14. CASE StopRetire /\ ApiUnchanged
  BY <1>14 DEF StopRetire
<1>15. CASE StopCloseQueue /\ ApiUnchanged
  BY <1>15 DEF StopCloseQueue
<1>16. CASE StopControl /\ ApiUnchanged
  BY <1>16 DEF StopControl
<1>17. CASE StopControlUnheard /\ ApiUnchanged
  BY <1>17 DEF StopControlUnheard
<1>18. CASE StopJoin /\ ApiUnchanged
  BY <1>18 DEF StopJoin, NoCapture
<1>19. CASE StopClearQueue /\ ApiUnchanged
  BY <1>19 DEF StopClearQueue
<1>20. CASE StopClearTracker /\ ApiUnchanged
  BY <1>20 DEF StopClearTracker
<1>21. CASE StopDone /\ ApiUnchanged
  BY <1>21 DEF StopDone
<1>22. CASE ControlWakes /\ ApiUnchanged
  BY <1>22 DEF ControlWakes
<1>23. CASE StopInactive
  BY <1>23 DEF StopInactive, vars, history
<1>24. QED
  BY <1>1, <1>2, <1>3, <1>4, <1>5, <1>6, <1>7, <1>8, <1>9, <1>10, <1>11, <1>12, <1>13, <1>14,
     <1>15, <1>16, <1>17, <1>18, <1>19, <1>20, <1>21, <1>22, <1>23
     DEF ClientStep, ApiStep, ApiCall

(* So does the capture thread.                                             *)
LEMMA StampCapture == TypeOK /\ ControlInv /\ StampInv /\ CaptureStep => StampInv'
<1> SUFFICES ASSUME TypeOK, ControlInv, StampInv, CaptureStep PROVE StampInv'
  OBVIOUS
<1> USE DEF StampInv, ControlInv, Joined, Launching, TypeOK, CaptureType, At,
            Goto, CaptureStep, atomics, shared, history, stages
<1>1. CASE CaptureLoop
  BY <1>1 DEF CaptureLoop
<1>2. CASE CaptureMark
  BY <1>2 DEF CaptureMark
<1>3. CASE CaptureOpenFails
  BY <1>3 DEF CaptureOpenFails
<1>4. CASE CaptureOpens
  BY <1>4 DEF CaptureOpens
<1>5. CASE CaptureOnline
  BY <1>5 DEF CaptureOnline
<1>6. CASE CaptureDisconnected
  BY <1>6 DEF CaptureDisconnected
<1>7. CASE CaptureBackOff
  BY <1>7 DEF CaptureBackOff
<1>8. CASE ResetGeneration
  BY <1>8 DEF ResetGeneration
<1>9. CASE ResetQueue
  BY <1>9 DEF ResetQueue
<1>10. CASE ResetTracker
  BY <1>10 DEF ResetTracker
<1>11. CASE CaptureNext
  BY <1>11 DEF CaptureNext
<1>12. CASE ReadReady
  BY <1>12 DEF ReadReady
<1>13. CASE ReadTemporaryError
  BY <1>13 DEF ReadTemporaryError
<1>14. CASE ReadEndOfStream
  BY <1>14 DEF ReadEndOfStream
<1>15. CASE ReadFatalError
  BY <1>15 DEF ReadFatalError
<1>16. CASE Stamp
  <2>1. capture'.at = "push" /\ capture'.frame.open = capture.frame.open
    BY <1>16 DEF Stamp, Frame
  <2>2. QED
    BY <1>16, <2>1 DEF Stamp
<1>17. CASE PushFrame
  BY <1>17 DEF PushFrame
<1>18. CASE CountFrame
  BY <1>18 DEF CountFrame
<1>19. CASE CaptureClose
  BY <1>19 DEF CaptureClose
<1>20. CASE CaptureExit
  BY <1>20 DEF CaptureExit
<1>21. CASE CaptureMarkStopped
  BY <1>21 DEF CaptureMarkStopped
<1>22. QED
  BY <1>1, <1>2, <1>3, <1>4, <1>5, <1>6, <1>7, <1>8, <1>9, <1>10, <1>11, <1>12, <1>13,
     <1>14, <1>15, <1>16, <1>17, <1>18, <1>19, <1>20, <1>21 DEF Read

(* So does any step.                                                       *)
LEMMA StampNext == TypeOK /\ ControlInv /\ StampInv /\ [Next]_vars => StampInv'
<1>1. CASE UNCHANGED vars
  BY <1>1 DEF StampInv, At, vars, atomics, history
<1>2. ASSUME StampInv, SessionUnchanged PROVE StampInv'
  BY <1>2 DEF StampInv, At, SessionUnchanged, atomics, history
<1>3. QED
  BY <1>1, <1>2, StampApi, StampCapture DEF Next, ClientStep, WorkerStep, DeliveryStep

(* Every step keeps the invariant.                                         *)
LEMMA NextInv == SessionInv /\ [Next]_vars => SessionInv'
<1> SUFFICES ASSUME SessionInv, [Next]_vars PROVE SessionInv'
  OBVIOUS
<1>1. /\ TypeOK /\ LockInv /\ ControlInv /\ PastInv /\ StampInv
      /\ CurrentInv /\ SettledInv /\ QuietInv /\ OrderInv /\ CountInv
  BY DEF SessionInv
<1>2. Footprint
  BY <1>1, FootprintNext
<1>3. FrameSteps
  BY <1>1, FramesNext
<1>4. TypeOK'
  BY <1>1, TypeNext
<1>5. LockInv' /\ QuietInv' /\ ControlInv'
  BY <1>2, <1>3 DEF Footprint, FrameSteps
<1>6. PastInv'
  BY <1>1, <1>2, <1>3, PastNext
<1>7. StampInv'
  BY <1>1, StampNext
<1>8. CurrentInv'
  BY <1>1, <1>2, <1>3, CurrentNext
<1>9. SettledInv'
  BY <1>1, <1>2, <1>3, SettledNext
<1>10. OrderInv' /\ CountInv'
  BY <1>1, OrderNext, CountNext
<1>11. QED
  BY <1>4, <1>5, <1>6, <1>7, <1>8, <1>9, <1>10 DEF SessionInv

(* The invariant holds in every reachable state.                           *)
LEMMA Invariance == Spec => []SessionInv
BY InitInv, NextInv, PTL DEF Spec
-----------------------------------------------------------------------------
(* The theorems.                                                           *)

(* Every step leaves the session in a state of its types: neither queue    *)
(* outgrows its capacity, and every thread is at one of its points.        *)
THEOREM TypeCorrect == Spec => []TypeOK
<1>1. SessionInv => TypeOK
  BY DEF SessionInv
<1>2. QED
  BY <1>1, Invariance, PTL

(* No result in the tracker and the monitor is of an earlier connection,   *)
(* but for those stamped during the stop() before the present start, and   *)
(* these are not older than the connection before (generation_, checked by *)
(* processResult).                                                         *)
THEOREM ResultsStayInConnection == Spec => []TrackerIsolation
<1>1. SessionInv => TrackerIsolation
  BY DEF SessionInv, SettledInv, Settled, TrackerIsolation
<1>2. QED
  BY <1>1, Invariance, PTL

(* After stop(), or a start that failed, the queue is empty, the camera's  *)
(* control is given back, and the tracker holds at most frames stamped     *)
(* during the last stop().                                                 *)
THEOREM StoppedSessionIsQuiet == Spec => []StoppedIsQuiet
<1>1. SessionInv => StoppedIsQuiet
  BY DEF SessionInv, TypeOK, ControlInv, SettledInv, Settled, Cleared, QuietInv,
         StoppedIsQuiet, Joinable
<1>2. QED
  BY <1>1, Invariance, PTL

(* What state() and running() report is true of the capture thread.        *)
THEOREM StateIsTruthful == Spec => []StateTruthful
<1>1. SessionInv => StateTruthful
  BY DEF SessionInv, ControlInv
<1>2. QED
  BY <1>1, Invariance, PTL

(* The tracker takes the results in the order their frames were read       *)
(* (takeForInference, the router's queue, processResult).                  *)
THEOREM ResultsArriveInOrder == Spec => ResultsInOrder
<1> DEFINE Later == \A f \in tracker' \ tracker : \A g \in tracker : g.id < f.id
<1>1. ASSUME SessionInv, Next PROVE Later
  <2>1. CASE Update
    <3>1. delivery.at # "idle" /\ tracker' \ tracker \subseteq {delivery.frame}
      BY <2>1 DEF Update
    <3>2. Before(Tracked, {delivery.frame.id})
      BY <1>1, <3>1 DEF SessionInv, OrderInv, Ordered, Before, Delivering
    <3>3. QED
      BY <3>1, <3>2 DEF Before, Tracked
  <2>2. CASE ~Update
    <3>1. tracker' \in {tracker, {}}
      <4>1. ClientStep => tracker' \in {tracker, {}}
        BY ApiEmpties DEF Emptying
      <4>2. CaptureStep => tracker' \in {tracker, {}}
        BY DEF CaptureStep, Read, CaptureLoop, CaptureMark, CaptureOpenFails, CaptureOpens,
           CaptureOnline, CaptureDisconnected, CaptureBackOff, ResetGeneration, ResetQueue,
           ResetTracker, CaptureNext, ReadReady, ReadTemporaryError, ReadEndOfStream,
           ReadFatalError, Stamp, PushFrame, CountFrame, CaptureClose, CaptureExit,
           CaptureMarkStopped, shared
      <4>3. WorkerStep \/ DeliveryStep \/ OtherCameraEvicts => tracker' = tracker
        BY <2>2 DEF WorkerStep, DeliveryStep, Take, CountTaken, CountScheduled,
           RecordInference, Enqueue, PopResult, RejectEarly, PassEarly, Recheck,
           OtherCameraEvicts
      <4>4. QED
        BY <1>1, <4>1, <4>2, <4>3 DEF Next, ClientStep
    <3>2. QED
      BY <3>1
  <2>3. QED
    BY <2>1, <2>2
<1>2. SessionInv /\ [Next]_vars => [Later]_vars
  BY <1>1
<1>3. QED
  BY <1>2, Invariance, PTL DEF Spec, ResultsInOrder

(* A captured frame is dropped, skipped, stale or scheduled once, and a    *)
(* scheduled one is inferred at most once, but for what a restart finds in *)
(* the worker's hands (metrics_, reset by start()).                        *)
THEOREM CountersAgree == Spec => []CountersConsistent
<1>1. SessionInv => CountersConsistent
  <2> SUFFICES ASSUME SessionInv PROVE CountersConsistent
    OBVIOUS
  <2>1. TypeOK /\ TallyInv
    BY DEF SessionInv, CountInv
  <2>2. metrics.inferred <= metrics.scheduled + CarriedOver(1)
    <3>1. /\ metrics.inferred \in Nat /\ metrics.scheduled \in Nat
          /\ InDetector \in Nat /\ CarriedOver(1) \in Nat
      BY <2>1, TallyTypes
    <3>2. QED
      BY <2>1, <3>1 DEF TallyInv
  <2>3. (CASE worker.at = "count" -> worker.older + 1
           [] worker.at = "schedule" -> 1
           [] OTHER -> 0) = Taken
    BY DEF Taken
  <2>4. QED
    BY <2>1, <2>2, <2>3 DEF TallyInv, Parted, Accepted, CarriedOver, CountersConsistent
<1>2. QED
  BY <1>1, Invariance, PTL
-----------------------------------------------------------------------------
(* The life of a session, as the edge service sees it.                     *)

(* The client starts and stops; the thread it joins has ended before.      *)
LEMMA LifeApi ==
  ASSUME TypeOK, ControlInv, ClientStep
  PROVE  [Life!Starts \/ Life!Stops]_(Life!life)
<1> USE DEF Life!Starts, Life!Stops, Life!life, SessionStatus, ControlInv, Joined, ApiUnchanged,
    Joinable, TypeOK, atomics, frames, session, history, stages
<1>1. CASE Start /\ ApiUnchanged
  BY <1>1 DEF Start
<1>2. CASE StartResetQueue /\ ApiUnchanged
  BY <1>2 DEF StartResetQueue
<1>3. CASE StartResetTracker /\ ApiUnchanged
  BY <1>3 DEF StartResetTracker
<1>4. CASE StartResetMetrics /\ ApiUnchanged
  BY <1>4 DEF StartResetMetrics
<1>5. CASE StartNewGeneration /\ ApiUnchanged
  BY <1>5 DEF StartNewGeneration
<1>6. CASE StartAnnounce /\ ApiUnchanged
  BY <1>6 DEF StartAnnounce
<1>7. CASE StartRun /\ ApiUnchanged
  BY <1>7 DEF StartRun
<1>8. CASE StartControl /\ ApiUnchanged
  BY <1>8 DEF StartControl
<1>9. CASE StartSpawn /\ ApiUnchanged
  BY <1>9 DEF StartSpawn, NoCapture
<1>10. CASE StartSpawnFails /\ ApiUnchanged
  BY <1>10 DEF StartSpawnFails
<1>11. CASE StartFault /\ ApiUnchanged
  BY <1>11 DEF StartFault
<1>12. CASE Stop /\ ApiUnchanged
  BY <1>12 DEF Stop, CallsStop
<1>13. CASE StopState /\ ApiUnchanged
  BY <1>13 DEF StopState
<1>14. CASE StopRetire /\ ApiUnchanged
  BY <1>14 DEF StopRetire
<1>15. CASE StopCloseQueue /\ ApiUnchanged
  BY <1>15 DEF StopCloseQueue
<1>16. CASE StopControl /\ ApiUnchanged
  BY <1>16 DEF StopControl
<1>17. CASE StopControlUnheard /\ ApiUnchanged
  BY <1>17 DEF StopControlUnheard
<1>18. CASE StopJoin /\ ApiUnchanged
  BY <1>18 DEF StopJoin, NoCapture
<1>19. CASE StopClearQueue /\ ApiUnchanged
  BY <1>19 DEF StopClearQueue
<1>20. CASE StopClearTracker /\ ApiUnchanged
  BY <1>20 DEF StopClearTracker
<1>21. CASE StopDone /\ ApiUnchanged
  BY <1>21 DEF StopDone
<1>22. CASE ControlWakes /\ ApiUnchanged
  BY <1>22 DEF ControlWakes
<1>23. CASE StopInactive
  BY <1>23 DEF StopInactive, vars
<1>24. QED
  BY <1>1, <1>2, <1>3, <1>4, <1>5, <1>6, <1>7, <1>8, <1>9, <1>10, <1>11, <1>12, <1>13, <1>14,
     <1>15, <1>16, <1>17, <1>18, <1>19, <1>20, <1>21, <1>22, <1>23
     DEF ClientStep, ApiStep, ApiCall

(* The thread goes from point to point until it ends.                      *)
LEMMA LifeCapture ==
  ASSUME TypeOK, CaptureStep
  PROVE  [Life!Ends]_(Life!life)
<1> USE DEF CaptureType, At, Goto
<1>1. /\ capture.at \notin {"none", "ended"} /\ capture'.at # "none"
      /\ UNCHANGED <<api, worker>>
  <2>1. UNCHANGED <<api, worker>> /\ capture \in CaptureType
    BY DEF CaptureStep, stages, TypeOK
  <2>2. CASE CaptureLoop \/ CaptureMark \/ CaptureOpenFails \/ CaptureOpens
    BY <2>1, <2>2 DEF CaptureLoop, CaptureMark, CaptureOpenFails, CaptureOpens
  <2>3. CASE CaptureOnline \/ CaptureDisconnected \/ CaptureBackOff
    BY <2>1, <2>3 DEF CaptureOnline, CaptureDisconnected, CaptureBackOff
  <2>4. CASE ResetGeneration \/ ResetQueue \/ ResetTracker
    BY <2>1, <2>4 DEF ResetGeneration, ResetQueue, ResetTracker
  <2>5. CASE CaptureNext \/ ReadReady \/ ReadTemporaryError \/ ReadEndOfStream \/ ReadFatalError
    BY <2>1, <2>5 DEF CaptureNext, ReadReady, ReadTemporaryError, ReadEndOfStream,
                      ReadFatalError
  <2>6. CASE Stamp \/ PushFrame \/ CountFrame
    BY <2>1, <2>6 DEF Stamp, PushFrame, CountFrame
  <2>7. CASE CaptureClose \/ CaptureExit \/ CaptureMarkStopped
    BY <2>1, <2>7 DEF CaptureClose, CaptureExit, CaptureMarkStopped
  <2>8. QED
    BY <2>1, <2>2, <2>3, <2>4, <2>5, <2>6, <2>7 DEF CaptureStep, Read
<1>2. QED
  BY <1>1 DEF Life!Ends, Life!life, SessionStatus

(* A frame that is taken comes from a queue that no stop() has emptied.    *)
LEMMA LifeStages ==
  ASSUME TypeOK, QuietInv,
         WorkerStep \/ DeliveryStep \/ (OtherCameraEvicts /\ SessionUnchanged)
  PROVE  [Life!Takes \/ Life!HandsOver]_(Life!life)
<1>1. SessionStatus' = SessionStatus
  BY DEF SessionStatus, WorkerStep, DeliveryStep, SessionUnchanged
<1>2. CASE Take
  <2>1. worker.at = "idle" /\ worker'.at = "count" /\ queue # <<>>
    BY <1>2 DEF Take
  <2>2. SessionStatus # "stopped"
    BY <2>1 DEF QuietInv, SessionStatus
  <2>3. QED
    BY <1>1, <2>1, <2>2 DEF Life!Takes
<1>3. CASE CountTaken \/ CountScheduled \/ RecordInference \/ Enqueue
  <2>1. worker.at # "idle" /\ worker \in WorkerType
    BY <1>3 DEF CountTaken, CountScheduled, RecordInference, Enqueue, TypeOK
  <2>2. CASE worker'.at = "idle"
    BY <1>1, <2>1, <2>2 DEF Life!HandsOver
  <2>3. CASE worker'.at # "idle"
    BY <1>1, <2>1, <2>3 DEF Life!life
  <2>4. QED
    BY <2>2, <2>3
<1>4. CASE UNCHANGED worker
  BY <1>1, <1>4 DEF Life!life
<1>5. QED
  BY <1>2, <1>3, <1>4 DEF WorkerStep, DeliveryStep, PopResult, RejectEarly, PassEarly, Recheck,
                          Update, OtherCameraEvicts

(* A session is what the edge service takes it for: it runs from a start() *)
(* until its source has ended or it has been stopped, and when stop() has  *)
(* emptied the queue no frame is taken from it (start, stop, captureLoop   *)
(* and takeForInference of CameraSession.cpp).                             *)
THEOREM SessionImplementsLife == Spec => ImplementsSessionLife
<1>1. Init => Life!Init
  BY DEF Init, Life!Init, SessionStatus, NoCapture, IdleWorker
<1>2. SessionInv /\ [Next]_vars => [Life!Next]_(Life!life)
  <2> SUFFICES ASSUME SessionInv, [Next]_vars PROVE [Life!Next]_(Life!life)
    OBVIOUS
  <2>1. TypeOK /\ ControlInv /\ QuietInv
    BY DEF SessionInv
  <2>2. CASE UNCHANGED vars
    BY <2>2 DEF vars, stages, Life!life, SessionStatus
  <2>3. CASE ClientStep
    BY <2>1, <2>3, LifeApi DEF Life!Next
  <2>4. CASE CaptureStep
    BY <2>1, <2>4, LifeCapture DEF Life!Next
  <2>5. CASE WorkerStep \/ DeliveryStep \/ (OtherCameraEvicts /\ SessionUnchanged)
    BY <2>1, <2>5, LifeStages DEF Life!Next
  <2>6. QED
    BY <2>2, <2>3, <2>4, <2>5 DEF Next, ClientStep
<1>3. QED
  BY <1>1, <1>2, Invariance, PTL DEF Spec, ImplementsSessionLife, Life!Spec

(* A session uses its camera's control as that lets itself be used: it     *)
(* starts a worker that is off, stops one that is on, and waits for one it *)
(* has lost (lines 102-113 and 132 of CameraSession.cpp).                  *)
THEOREM SessionFollowsControl == Spec => FollowsControlLife
<1> DEFINE status == IF control = "none" THEN "off" ELSE control
<1> USE DEF Control!Next, Control!Starts, Control!Stops, Control!Misses, Control!Wakes
<1>1. Init => Control!Init
  BY ControlsAssumption DEF Init, Control!Init
<1>2. SessionInv /\ [Next]_vars => [Control!Next]_status
  <2> SUFFICES ASSUME SessionInv, [Next]_vars PROVE [Control!Next]_status
    OBVIOUS
  <2>1. CASE UNCHANGED control
    BY <2>1
  <2>2. CASE StartControl
    <3>1. control \in {"none", "off"}
      BY <2>2 DEF SessionInv, TypeOK, ControlInv, StartControl, Joined, Launching
    <3>2. QED
      BY <2>2, <3>1 DEF StartControl
  <2>3. CASE StopControl \/ StopControlUnheard \/ ControlWakes
    BY <2>3 DEF StopControl, StopControlUnheard, ControlWakes
  <2>4. QED
    <3>1. CASE ClientStep
      BY <2>1, <2>2, <2>3, <3>1
         DEF ClientStep, ApiStep, ApiCall, Start, StartResetQueue, StartResetTracker,
             StartResetMetrics, StartNewGeneration, StartAnnounce, StartRun, StartSpawn,
             StartSpawnFails, StartFault, Stop, StopInactive, StopState, StopRetire,
             StopCloseQueue, StopJoin, StopClearQueue, StopClearTracker, StopDone, vars
    <3>2. CASE CaptureStep \/ WorkerStep \/ DeliveryStep \/ SessionUnchanged
      BY <2>1, <3>2 DEF CaptureStep, WorkerStep, DeliveryStep, SessionUnchanged
    <3>3. CASE UNCHANGED vars
      BY <2>1, <3>3 DEF vars
    <3>4. QED
      BY <3>1, <3>2, <3>3 DEF Next, ClientStep
<1>3. QED
  BY <1>1, <1>2, Invariance, PTL DEF Spec, FollowsControlLife, Control!Spec
=============================================================================
