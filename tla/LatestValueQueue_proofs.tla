----------------------- MODULE LatestValueQueue_proofs -----------------------
(***************************************************************************)
(* What LatestValueQueue promises, for every set of threads, capacity and  *)
(* overflow policy: no wake-up is lost, values keep their order, and the   *)
(* queue implements LossyChannel.                                          *)
(***************************************************************************)
EXTENDS LatestValueQueue, LatestValueQueueOps_proofs, FiniteSetTheorems

(* The capacity the constructor stores is at least one.                    *)
LEMMA CapacityPositive == Capacity \in Nat /\ Capacity >= 1
BY CapacityAssumption DEF Capacity

(* PushFacts for this queue, whose values are ranks.                        *)
LEMMA PushRank ==
  ASSUME queue \in Seq(Nat), Len(queue) <= Capacity, NEW v \in Nat
  PROVE  PushedOnto(PushLatest(queue, v, Capacity), queue, v, Nat, Capacity)
BY CapacityPositive, PushFacts

-----------------------------------------------------------------------------
(* How a step changes the sets of sleepers and of notified threads.        *)

(* The threads of one kind that sleep or are woken can be counted.         *)
LEMMA ThreadSets ==
  ASSUME NEW S \in {Producers, Consumers}
  PROVE  /\ S \subseteq Threads
         /\ IsFiniteSet(Waiting(S)) /\ IsFiniteSet(Woken(S))
         /\ Cardinality(Woken(S)) \in Nat
<1>1. S \subseteq Threads /\ IsFiniteSet(S)
  BY ThreadsAssumption DEF Threads
<1>2. Waiting(S) \in SUBSET S /\ Woken(S) \in SUBSET S
  BY DEF Waiting, Woken
<1>3. IsFiniteSet(Waiting(S)) /\ IsFiniteSet(Woken(S))
  BY <1>1, <1>2, FS_Subset
<1>4. QED
  BY <1>1, <1>3, FS_CardinalityType

(* A thread that leaves the mutex without notifying anybody of its own     *)
(* kind takes at most itself out of the notified ones.                     *)
LEMMA LeaveOwn ==
  ASSUME TypeOK, NEW S \in {Producers, Consumers}, NEW t \in S, Evaluates(t),
         NEW W, W \cap S = {}, NEW now \in {"none", "waiting"}, Leave(t, now, W)
  PROVE  /\ Cardinality(Woken(S)') \in Nat
         /\ Cardinality(Woken(S)') >= Cardinality(Woken(S)) - 1
         /\ now = "none" => Waiting(S)' = Waiting(S)
<1>1. S \subseteq Threads
  BY ThreadSets
<1>2. Woken(S)' = Woken(S) \ {t}
  BY <1>1 DEF Woken, Leave, Evaluates, TypeOK
<1>3. now = "none" => Waiting(S)' = Waiting(S)
  BY <1>1 DEF Waiting, Leave, Evaluates, TypeOK
<1>4. /\ IsFiniteSet(Woken(S))
      /\ Cardinality(Woken(S)) \in Nat
  BY ThreadSets
<1>5. Cardinality(Woken(S) \ {t}) = IF t \in Woken(S) THEN Cardinality(Woken(S)) - 1
                                                     ELSE Cardinality(Woken(S))
  BY <1>4, FS_RemoveElement
<1>6. IsFiniteSet(Woken(S) \ {t})
  BY <1>4, FS_RemoveElement
<1>7. Cardinality(Woken(S) \ {t}) \in Nat
  BY <1>6, FS_CardinalityType
<1>8. QED
  BY <1>2, <1>3, <1>4, <1>5, <1>7

(* notify_one on the condition variable of S, by a thread that is not in S:*)
(* if anybody sleeps, one more thread of S is notified.                    *)
LEMMA LeaveOther ==
  ASSUME TypeOK, NEW S \in {Producers, Consumers}, NEW t \in Threads \ S,
         NEW W \in NotifyOne(S), NEW now, Leave(t, now, W)
  PROVE  /\ Cardinality(Woken(S)') \in Nat
         /\ Waiting(S) # {} => Cardinality(Woken(S)') = Cardinality(Woken(S)) + 1
         /\ Waiting(S) = {} => Waiting(S)' = {}
<1>1. S \subseteq Threads /\ IsFiniteSet(Woken(S)) /\ Cardinality(Woken(S)) \in Nat
  BY ThreadSets
<1>2. CASE Waiting(S) = {}
  <2>1. W = {}
    BY <1>2 DEF NotifyOne
  <2>2. Waiting(S)' = {} /\ Woken(S)' = Woken(S)
    BY <1>1, <1>2, <2>1 DEF Waiting, Woken, Leave, TypeOK
  <2>3. QED
    BY <1>1, <1>2, <2>2
<1>3. CASE Waiting(S) # {}
  <2>1. PICK w \in Waiting(S) : W = {w}
    BY <1>3 DEF NotifyOne
  <2>2. Woken(S)' = Woken(S) \cup {w} /\ w \notin Woken(S)
    BY <1>1, <2>1 DEF Waiting, Woken, Leave, TypeOK
  <2>3. Cardinality(Woken(S) \cup {w}) = Cardinality(Woken(S)) + 1
    BY <1>1, <2>2, FS_AddElement
  <2>4. QED
    BY <1>1, <1>3, <2>2, <2>3
<1>4. QED
  BY <1>2, <1>3

(* A thread outside S that notifies nobody of S does not concern S.        *)
LEMMA LeaveApart ==
  ASSUME TypeOK, NEW S \in {Producers, Consumers}, NEW t \in Threads \ S,
         NEW now, Leave(t, now, {})
  PROVE  Waiting(S)' = Waiting(S) /\ Woken(S)' = Woken(S)
BY ThreadSets DEF Waiting, Woken, Leave, TypeOK

(* notify_all on the condition variable of S.                              *)
LEMMA NotifyAllFacts ==
  ASSUME TypeOK, NEW S \in {Producers, Consumers}, NEW R,
         NotifyAll(R)
  PROVE  /\ S \subseteq R => Waiting(S)' = {}
         /\ S \cap R = {} => Waiting(S)' = Waiting(S) /\ Woken(S)' = Woken(S)
BY ThreadSets DEF Waiting, Woken, NotifyAll, TypeOK
-----------------------------------------------------------------------------
(* The values: types, capacity and order, preserved by every action.       *)
DataInv == TypeOK /\ Ordered

(* The empty queue.                                                        *)
LEMMA EmptyFacts == <<>> \in Seq(Nat) /\ Len(<<>>) = 0 /\ 1..Len(<<>>) = {}
OBVIOUS

(* The data invariant holds initially.                                     *)
LEMMA DataInit == Init => DataInv
<1> SUFFICES ASSUME Init PROVE TypeOK /\ Ordered
  BY DEF DataInv
<1>1. TypeOK
  <2>1. queue \in Seq(Nat) /\ Len(queue) <= Capacity
    BY EmptyFacts, CapacityPositive DEF Init
  <2>2. call \in [Threads -> {"none", "waiting", "woken"}]
    BY DEF Init
  <2>3. QED
    BY <2>1, <2>2 DEF Init, TypeOK
<1>2. Ordered
  BY EmptyFacts DEF Init, Ordered
<1>3. QED
  BY <1>1, <1>2

(* A push keeps it.                                                        *)
LEMMA DataPush == ASSUME DataInv, NEW p \in Producers, PushAccepted(p)
                  PROVE  DataInv'
<1> DEFINE r == PushLatest(queue, sent + 1, Capacity)
<1>1. /\ queue \in Seq(Nat) /\ Len(queue) <= Capacity /\ sent \in Nat /\ sent + 1 \in Nat
      /\ Ordered
  BY DEF DataInv, TypeOK
<1>2. /\ queue' = r /\ sent' = sent + 1 /\ UNCHANGED <<dropOld, closed, received>>
      /\ \E W \in NotifyOne(Consumers) : Leave(p, "none", W)
  BY DEF PushAccepted
<1>3. /\ r \in Seq(Nat)
      /\ Len(r) \in 1..Capacity
      /\ r[Len(r)] = sent + 1
      /\ \A i \in 1..(Len(r) - 1) :
           /\ i + (Len(queue) + 1 - Len(r)) \in 1..Len(queue)
           /\ r[i] = queue[i + (Len(queue) + 1 - Len(r))]
  <2> HIDE DEF r
  <2>1. QED
    BY <1>1, PushRank DEF r, PushedOnto
<1> HIDE DEF r
<1>4. call' \in [Threads -> {"none", "waiting", "woken"}]
  BY <1>2 DEF Leave, DataInv, TypeOK
<1>5. TypeOK'
  BY <1>1, <1>2, <1>3, <1>4, CapacityPositive DEF DataInv, TypeOK
<1>6. received \in Nat /\ received <= sent /\ Len(queue) \in Nat
  BY <1>1 DEF DataInv, TypeOK, Ordered
<1>7. \A i \in 1..Len(queue) : received < queue[i] /\ queue[i] <= sent /\ queue[i] \in Nat
  <2>1. \A i \in 1..Len(queue) : i < Len(queue) => queue[i] < queue[Len(queue)]
    BY <1>1, <1>6 DEF Ordered
  <2>2. QED
    BY <1>1, <1>6, <2>1 DEF Ordered
<1>8. \A i \in 1..(Len(r) - 1) : r[i] \in Nat /\ received < r[i] /\ r[i] < sent + 1
  <2>1. TAKE i \in 1..(Len(r) - 1)
  <2>2. PICK j \in 1..Len(queue) : r[i] = queue[j]
    BY <1>3
  <2>3. QED
    BY <1>1, <1>6, <1>7, <2>2
<1>9. \A i, j \in 1..Len(r) : i < j => r[i] < r[j]
  <2>1. SUFFICES ASSUME NEW i \in 1..Len(r), NEW j \in 1..Len(r), i < j
                 PROVE  r[i] < r[j]
    OBVIOUS
  <2>2. CASE j = Len(r)
    BY <1>3, <1>8, <2>1, <2>2
  <2>3. CASE j # Len(r)
    <3> DEFINE k == Len(queue) + 1 - Len(r)
    <3>1. i \in 1..(Len(r) - 1) /\ j \in 1..(Len(r) - 1)
      BY <1>3, <2>1, <2>3
    <3>2. /\ i + k \in 1..Len(queue) /\ j + k \in 1..Len(queue)
          /\ r[i] = queue[i + k] /\ r[j] = queue[j + k]
      BY <1>3, <3>1
    <3>3. i + k < j + k
      BY <1>3, <1>6, <2>1
    <3> HIDE DEF k
    <3>4. QED
      BY <1>1, <3>2, <3>3 DEF Ordered
  <2>4. QED
    BY <2>2, <2>3
<1>10. \A i \in 1..Len(r) : received < r[i]
  BY <1>1, <1>3, <1>6, <1>8
<1>11. Ordered'
  BY <1>1, <1>2, <1>3, <1>6, <1>9, <1>10 DEF Ordered
<1>12. QED
  BY <1>5, <1>11 DEF DataInv

(* So does a pop,                                                          *)
LEMMA DataPop == ASSUME DataInv, NEW c \in Consumers, PopValue(c)
                 PROVE  DataInv'
<1>1. /\ queue \in Seq(Nat) /\ queue # <<>> /\ Ordered /\ Len(queue) \in Nat
      /\ Len(queue) > 0
  BY DEF DataInv, TypeOK, PopValue
<1>2. /\ Head(queue) = queue[1] /\ Head(queue) \in Nat
      /\ Tail(queue) \in Seq(Nat)
      /\ Len(Tail(queue)) = Len(queue) - 1
      /\ \A i \in 1..Len(Tail(queue)) : Tail(queue)[i] = queue[i + 1]
  BY <1>1, HeadTailProperties
<1>3. call' \in [Threads -> {"none", "waiting", "woken"}]
  BY DEF PopValue, Leave, DataInv, TypeOK
<1>4. TypeOK'
  BY <1>1, <1>2, <1>3, CapacityPositive DEF PopValue, DataInv, TypeOK
<1>5. received' = queue[1] /\ queue' = Tail(queue) /\ sent' = sent /\ sent \in Nat
  BY <1>2 DEF PopValue, DataInv, TypeOK
<1>6. \A i \in 1..Len(queue') : queue'[i] = queue[i + 1]
  BY <1>2, <1>5
<1>7. /\ \A i, j \in 1..Len(queue') : i < j => queue'[i] < queue'[j]
      /\ \A i \in 1..Len(queue') : received' < queue'[i]
  BY <1>1, <1>2, <1>5, <1>6 DEF Ordered
<1>8. queue' # <<>> => queue'[Len(queue')] = sent'
  BY <1>1, <1>2, <1>5, <1>6 DEF Ordered
<1>9. received' <= sent'
  <2>1. queue[Len(queue)] = sent /\ (1 < Len(queue) => queue[1] < queue[Len(queue)])
    BY <1>1 DEF Ordered
  <2>2. QED
    BY <1>1, <1>2, <1>5, <2>1
<1>10. QED
  BY <1>4, <1>7, <1>8, <1>9 DEF DataInv, Ordered

(* and a pop of the latest,                                                *)
LEMMA DataTryPopLatest == ASSUME DataInv, NEW c \in Consumers, TryPopLatest(c)
                          PROVE  DataInv'
<1>1. queue[Len(queue)] \in Nat /\ queue[Len(queue)] = sent
  BY DEF DataInv, TypeOK, Ordered, TryPopLatest
<1>2. call' \in [Threads -> {"none", "waiting", "woken"}]
  BY DEF TryPopLatest, Leave, DataInv, TypeOK
<1>3. QED
  BY <1>1, <1>2, CapacityPositive DEF TryPopLatest, DataInv, TypeOK, Ordered

(* The remaining actions leave the values alone or drop them all.          *)
LEMMA DataOther ==
  ASSUME DataInv, call' \in [Threads -> {"none", "waiting", "woken"}],
         closed' \in BOOLEAN, queue' \in {queue, <<>>},
         UNCHANGED <<dropOld, sent, received>>
  PROVE  DataInv'
<1>1. TypeOK /\ Ordered
  BY DEF DataInv
<1>2. CASE queue' = queue
  BY <1>1, <1>2 DEF DataInv, TypeOK, Ordered
<1>3. CASE queue' = <<>>
  <2>1. TypeOK'
    BY <1>1, <1>3, EmptyFacts, CapacityPositive DEF TypeOK
  <2>2. Ordered'
    BY <1>1, <1>3, EmptyFacts DEF Ordered
  <2>3. QED
    BY <2>1, <2>2 DEF DataInv
<1>4. QED
  BY <1>2, <1>3

(* and every step.                                                         *)
LEMMA DataNext == DataInv /\ [Next]_vars => DataInv'
<1> SUFFICES ASSUME DataInv, [Next]_vars PROVE DataInv'
  OBVIOUS
<1>1. ASSUME NEW p \in Producers, Push(p) PROVE DataInv'
  <2>1. CASE PushAccepted(p)
    BY <2>1, DataPush
  <2>2. CASE PushWait(p)
    BY <2>2, DataOther DEF PushWait, Leave, DataInv, TypeOK
  <2>3. CASE PushClosed(p)
    BY <2>3, DataOther DEF PushClosed, Leave, DataInv, TypeOK
  <2>4. QED
    BY <1>1, <2>1, <2>2, <2>3 DEF Push
<1>2. ASSUME NEW c \in Consumers, Pop(c) PROVE DataInv'
  <2>1. CASE PopValue(c)
    BY <2>1, DataPop
  <2>2. CASE PopWait(c)
    BY <2>2, DataOther DEF PopWait, Leave, DataInv, TypeOK
  <2>3. CASE PopNothing(c)
    BY <2>3, DataOther DEF PopNothing, Leave, DataInv, TypeOK
  <2>4. QED
    BY <1>2, <2>1, <2>2, <2>3 DEF Pop
<1>3. ASSUME NEW c \in Consumers, TryPopLatest(c) PROVE DataInv'
  BY <1>3, DataTryPopLatest
<1>4. CASE Clear
  BY <1>4, DataOther DEF Clear, NotifyAll, DataInv, TypeOK
<1>5. CASE Close
  BY <1>5, DataOther DEF Close, NotifyAll, DataInv, TypeOK
<1>6. CASE Reset
  BY <1>6, DataOther DEF Reset, NotifyAll, DataInv, TypeOK
<1>7. ASSUME NEW t \in Threads, SpuriousWake(t) PROVE DataInv'
  BY <1>7, DataOther DEF SpuriousWake, DataInv, TypeOK
<1>8. CASE UNCHANGED vars
  BY <1>8, DataOther DEF vars, DataInv, TypeOK
<1>9. QED
  BY <1>1, <1>2, <1>3, <1>4, <1>5, <1>6, <1>7, <1>8 DEF Next
-----------------------------------------------------------------------------
(* The wake-ups.                                                           *)
WakeInv == NoValueStranded /\ NoSpaceStranded /\ ClosedWakesAll

QueueInv == DataInv /\ WakeInv

(* Who sleeps is a producer or a consumer.                                 *)
LEMMA Sleepers ==
  /\ Waiting(Threads) = Waiting(Producers) \cup Waiting(Consumers)
  /\ Waiting(Threads)' = Waiting(Producers)' \cup Waiting(Consumers)'
BY DEF Waiting, Threads

(* The invariant on sleepers holds initially.                              *)
LEMMA WakeInit == Init => WakeInv
<1> SUFFICES ASSUME Init PROVE WakeInv
  OBVIOUS
<1>1. Waiting(Producers) = {} /\ Waiting(Consumers) = {}
  BY DEF Init, Waiting, Threads
<1>2. QED
  BY <1>1, Sleepers DEF Init, WakeInv, NoValueStranded, NoSpaceStranded, ClosedWakesAll

(* A notified or idle thread runs, apart from the threads of the other kind. *)
LEMMA WakePush ==
  ASSUME QueueInv, NEW p \in Producers, Push(p)
  PROVE  WakeInv'
<1>1. /\ TypeOK /\ NoValueStranded /\ NoSpaceStranded /\ ClosedWakesAll
      /\ queue \in Seq(Nat) /\ Len(queue) \in Nat /\ Len(queue) <= Capacity
      /\ Capacity \in Nat
  BY CapacityPositive DEF QueueInv, DataInv, WakeInv, TypeOK
<1>2. p \in Threads \ Consumers
  BY ThreadsAssumption DEF Threads
<1>3. /\ Cardinality(Woken(Producers)) \in Nat
      /\ Cardinality(Woken(Consumers)) \in Nat
  BY ThreadSets
<1>4. CASE PushWait(p)
  <2>1. Leave(p, "waiting", {}) /\ Evaluates(p) /\ ~closed /\ UNCHANGED <<queue, closed>>
        /\ Len(queue) = Capacity
    BY <1>1, <1>4 DEF PushWait
  <2>2. Waiting(Consumers)' = Waiting(Consumers) /\ Woken(Consumers)' = Woken(Consumers)
    BY <1>1, <1>2, <2>1, LeaveApart
  <2>3. Cardinality(Woken(Producers)') \in Nat
    BY <1>1, <2>1, LeaveOwn
  <2>4. QED
    BY <1>1, <2>1, <2>2, <2>3, CapacityPositive
       DEF WakeInv, NoValueStranded, NoSpaceStranded, ClosedWakesAll, Capacity
<1>5. CASE PushClosed(p)
  <2>1. Leave(p, "none", {}) /\ Evaluates(p) /\ closed /\ UNCHANGED <<queue, closed>>
    BY <1>5 DEF PushClosed
  <2>2. Waiting(Consumers)' = Waiting(Consumers) /\ Woken(Consumers)' = Woken(Consumers)
    BY <1>1, <1>2, <2>1, LeaveApart
  <2>3. Waiting(Producers)' = Waiting(Producers)
    BY <1>1, <2>1, LeaveOwn
  <2>4. Waiting(Producers) = {} /\ Waiting(Consumers) = {}
    BY <1>1, <2>1, Sleepers DEF ClosedWakesAll
  <2>5. Waiting(Threads)' = {}
    BY <2>2, <2>3, <2>4, Sleepers
  <2>6. QED
    BY <2>2, <2>3, <2>4, <2>5
       DEF WakeInv, NoValueStranded, NoSpaceStranded, ClosedWakesAll
<1>6. CASE PushAccepted(p)
  <2>1. PICK W \in NotifyOne(Consumers) : Leave(p, "none", W)
    BY <1>6 DEF PushAccepted
  <2>2. Evaluates(p) /\ ~closed /\ closed' = closed /\ (dropOld \/ Len(queue) < Capacity)
        /\ queue' = PushLatest(queue, sent + 1, Capacity)
    BY <1>6 DEF PushAccepted
  <2>3. sent + 1 \in Nat
    BY <1>1 DEF TypeOK
  <2>4. /\ Len(queue') \in 1..Capacity
        /\ Len(queue') <= Len(queue) + 1
        /\ Len(queue) < Capacity => Len(queue') = Len(queue) + 1
        /\ Len(queue) = Capacity => Len(queue') = Capacity
    BY <1>1, <2>2, <2>3, PushRank DEF PushedOnto
  <2>5. W \cap Producers = {}
    BY ThreadsAssumption DEF NotifyOne, Waiting
  <2>6. /\ Cardinality(Woken(Consumers)') \in Nat
        /\ Waiting(Consumers) # {} =>
             Cardinality(Woken(Consumers)') = Cardinality(Woken(Consumers)) + 1
        /\ Waiting(Consumers) = {} => Waiting(Consumers)' = {}
    BY <1>1, <1>2, <2>1, LeaveOther
  <2>7. /\ Cardinality(Woken(Producers)') \in Nat
        /\ Cardinality(Woken(Producers)') >= Cardinality(Woken(Producers)) - 1
        /\ Waiting(Producers)' = Waiting(Producers)
    BY <1>1, <2>1, <2>2, <2>5, LeaveOwn
  <2>8. NoValueStranded'
    BY <1>1, <1>3, <2>4, <2>6 DEF NoValueStranded
  <2>9. NoSpaceStranded'
    <3>1. (Capacity - Len(queue))' = Capacity - Len(queue')
      BY DEF Capacity
    <3>2. CASE Len(queue) < Capacity
      BY <1>1, <1>3, <2>4, <2>7, <3>1, <3>2 DEF NoSpaceStranded
    <3>3. CASE Len(queue) = Capacity
      BY <1>1, <2>4, <2>7, <3>1, <3>3 DEF NoSpaceStranded
    <3>4. QED
      BY <1>1, <3>2, <3>3
  <2>10. QED
    BY <2>2, <2>8, <2>9 DEF WakeInv, ClosedWakesAll
<1>7. QED
  BY <1>4, <1>5, <1>6 DEF Push

(* A pop keeps it.                                                         *)
LEMMA WakePop ==
  ASSUME QueueInv, NEW c \in Consumers, Pop(c) \/ TryPopLatest(c)
  PROVE  WakeInv'
<1>1. /\ TypeOK /\ NoValueStranded /\ NoSpaceStranded /\ ClosedWakesAll
      /\ queue \in Seq(Nat) /\ Len(queue) \in Nat /\ Len(queue) <= Capacity
      /\ Capacity \in Nat
  BY CapacityPositive DEF QueueInv, DataInv, WakeInv, TypeOK
<1>2. c \in Threads \ Producers
  BY ThreadsAssumption DEF Threads
<1>3. /\ Cardinality(Woken(Producers)) \in Nat
      /\ Cardinality(Woken(Consumers)) \in Nat
  BY ThreadSets
<1>4. CASE PopWait(c)
  <2>1. Leave(c, "waiting", {}) /\ Evaluates(c) /\ ~closed /\ UNCHANGED <<queue, closed>>
        /\ Len(queue) = 0
    BY <1>4, EmptyFacts DEF PopWait
  <2>2. Waiting(Producers)' = Waiting(Producers) /\ Woken(Producers)' = Woken(Producers)
    BY <1>1, <1>2, <2>1, LeaveApart
  <2>3. Cardinality(Woken(Consumers)') \in Nat
    BY <1>1, <2>1, LeaveOwn
  <2>4. QED
    BY <1>1, <2>1, <2>2, <2>3
       DEF WakeInv, NoValueStranded, NoSpaceStranded, ClosedWakesAll, Capacity
<1>5. CASE PopNothing(c)
  <2>1. Leave(c, "none", {}) /\ Evaluates(c) /\ closed /\ UNCHANGED <<queue, closed>>
    BY <1>5 DEF PopNothing
  <2>2. Waiting(Producers)' = Waiting(Producers) /\ Woken(Producers)' = Woken(Producers)
    BY <1>1, <1>2, <2>1, LeaveApart
  <2>3. Waiting(Consumers)' = Waiting(Consumers)
    BY <1>1, <2>1, LeaveOwn
  <2>4. Waiting(Producers) = {} /\ Waiting(Consumers) = {}
    BY <1>1, <2>1, Sleepers DEF ClosedWakesAll
  <2>5. Waiting(Threads)' = {}
    BY <2>2, <2>3, <2>4, Sleepers
  <2>6. QED
    BY <2>2, <2>3, <2>4, <2>5
       DEF WakeInv, NoValueStranded, NoSpaceStranded, ClosedWakesAll
<1>6. CASE PopValue(c)
  <2>1. PICK W \in NotifyOne(Producers) : Leave(c, "none", W)
    BY <1>6 DEF PopValue
  <2>2. Evaluates(c) /\ queue # <<>> /\ queue' = Tail(queue) /\ closed' = closed
    BY <1>6 DEF PopValue
  <2>3. Len(queue') = Len(queue) - 1
    BY <1>1, <2>2, HeadTailProperties
  <2>4. W \cap Consumers = {}
    BY ThreadsAssumption DEF NotifyOne, Waiting
  <2>5. /\ Cardinality(Woken(Producers)') \in Nat
        /\ Waiting(Producers) # {} =>
             Cardinality(Woken(Producers)') = Cardinality(Woken(Producers)) + 1
        /\ Waiting(Producers) = {} => Waiting(Producers)' = {}
    BY <1>1, <1>2, <2>1, LeaveOther
  <2>6. /\ Cardinality(Woken(Consumers)') \in Nat
        /\ Cardinality(Woken(Consumers)') >= Cardinality(Woken(Consumers)) - 1
        /\ Waiting(Consumers)' = Waiting(Consumers)
    BY <1>1, <2>1, <2>2, <2>4, LeaveOwn
  <2>7. NoValueStranded'
    BY <1>1, <1>3, <2>3, <2>6 DEF NoValueStranded
  <2>8. NoSpaceStranded'
    BY <1>1, <1>3, <2>3, <2>5 DEF NoSpaceStranded, Capacity
  <2>9. ClosedWakesAll'
    <3>1. closed => Waiting(Producers) = {} /\ Waiting(Consumers) = {}
      BY <1>1, Sleepers DEF ClosedWakesAll
    <3>2. QED
      BY <2>2, <2>5, <2>6, <3>1, Sleepers DEF ClosedWakesAll
  <2>10. QED
    BY <2>7, <2>8, <2>9 DEF WakeInv
<1>7. CASE TryPopLatest(c)
  <2>1. Leave(c, "none", Waiting(Producers)) /\ Evaluates(c) /\ queue' = <<>> /\ closed' = closed
    BY <1>7 DEF TryPopLatest, Evaluates
  <2>2. Waiting(Producers) \cap Consumers = {}
    BY ThreadsAssumption DEF Waiting
  <2>3. /\ Cardinality(Woken(Consumers)') \in Nat
        /\ Waiting(Consumers)' = Waiting(Consumers)
    BY <1>1, <2>1, <2>2, LeaveOwn
  <2>4. Waiting(Producers)' = {}
    BY <1>1, <1>2, <2>1, ThreadSets DEF Leave, Waiting, TypeOK
  <2>5. closed => Waiting(Consumers) = {}
    BY <1>1, Sleepers DEF ClosedWakesAll
  <2>6. QED
    BY <2>1, <2>3, <2>4, <2>5, EmptyFacts, Sleepers
       DEF WakeInv, NoValueStranded, NoSpaceStranded, ClosedWakesAll
<1>8. QED
  BY <1>4, <1>5, <1>6, <1>7 DEF Pop

(* So do clear, close and reset,                                           *)
LEMMA WakeOwner ==
  ASSUME QueueInv, Clear \/ Close \/ Reset
  PROVE  WakeInv'
<1>1. TypeOK /\ ClosedWakesAll
  BY DEF QueueInv, DataInv, WakeInv
<1>2. CASE Clear
  <2>1. Waiting(Producers)' = {}
    BY <1>1, <1>2, NotifyAllFacts DEF Clear
  <2>2. Waiting(Consumers)' = Waiting(Consumers) /\ Woken(Consumers)' = Woken(Consumers)
    BY <1>1, <1>2, NotifyAllFacts, ThreadsAssumption DEF Clear
  <2>3. Cardinality(Woken(Consumers)') \in Nat
    BY <2>2, ThreadSets
  <2>4. QED
    BY <1>1, <1>2, <2>1, <2>2, <2>3, EmptyFacts, Sleepers
       DEF Clear, WakeInv, NoValueStranded, NoSpaceStranded, ClosedWakesAll
<1>3. CASE Close \/ Reset
  <2>1. Waiting(Producers)' = {} /\ Waiting(Consumers)' = {}
    BY <1>1, <1>3, NotifyAllFacts, ThreadSets DEF Close, Reset
  <2>2. QED
    BY <2>1, Sleepers DEF WakeInv, NoValueStranded, NoSpaceStranded, ClosedWakesAll
<1>4. QED
  BY <1>2, <1>3

(* and a spurious wake-up.                                                 *)
LEMMA WakeSpurious ==
  ASSUME QueueInv, NEW t \in Threads, SpuriousWake(t)
  PROVE  WakeInv'
<1>1. /\ TypeOK /\ NoValueStranded /\ NoSpaceStranded /\ ClosedWakesAll
      /\ queue \in Seq(Nat) /\ Len(queue) \in Nat /\ Capacity \in Nat
  BY CapacityPositive DEF QueueInv, DataInv, WakeInv, TypeOK
<1>2. UNCHANGED <<queue, closed>>
  BY DEF SpuriousWake
<1>3. ASSUME NEW S \in {Producers, Consumers}
      PROVE  /\ Cardinality(Woken(S)) \in Nat
             /\ Cardinality(Woken(S)') \in Nat
             /\ Cardinality(Woken(S)') >= Cardinality(Woken(S))
             /\ Waiting(S)' \subseteq Waiting(S)
  <2>1. S \subseteq Threads /\ IsFiniteSet(Woken(S)) /\ Cardinality(Woken(S)) \in Nat
    BY ThreadSets
  <2>2. Waiting(S)' \subseteq Waiting(S)
    BY <1>1, <2>1 DEF SpuriousWake, Waiting, TypeOK
  <2>3. CASE t \in S
    <3>1. Woken(S)' = Woken(S) \cup {t} /\ t \notin Woken(S)
      BY <1>1, <2>1, <2>3 DEF SpuriousWake, Woken, TypeOK
    <3>2. Cardinality(Woken(S) \cup {t}) = Cardinality(Woken(S)) + 1
      BY <2>1, <3>1, FS_AddElement
    <3>3. QED
      BY <2>1, <2>2, <3>1, <3>2
  <2>4. CASE t \notin S
    <3>1. Woken(S)' = Woken(S)
      BY <1>1, <2>1, <2>4 DEF SpuriousWake, Woken, TypeOK
    <3>2. QED
      BY <2>1, <2>2, <3>1
  <2>5. QED
    BY <2>3, <2>4
<1>4. NoValueStranded'
  BY <1>1, <1>2, <1>3 DEF NoValueStranded
<1>5. NoSpaceStranded'
  <2>1. (Capacity - Len(queue))' = Capacity - Len(queue)
    BY <1>2 DEF Capacity
  <2>2. QED
    BY <1>1, <1>3, <2>1 DEF NoSpaceStranded
<1>6. ClosedWakesAll'
  BY <1>1, <1>2, <1>3, Sleepers DEF ClosedWakesAll
<1>7. QED
  BY <1>4, <1>5, <1>6 DEF WakeInv

(* Every step keeps the invariant.                                         *)
LEMMA QueueInvNext == QueueInv /\ [Next]_vars => QueueInv'
<1> SUFFICES ASSUME QueueInv, [Next]_vars PROVE QueueInv'
  OBVIOUS
<1>1. DataInv'
  BY DataNext DEF QueueInv
<1>2. WakeInv'
  <2>1. ASSUME NEW p \in Producers, Push(p) PROVE WakeInv'
    BY <2>1, WakePush
  <2>2. ASSUME NEW c \in Consumers, Pop(c) \/ TryPopLatest(c) PROVE WakeInv'
    BY <2>2, WakePop
  <2>3. CASE Clear \/ Close \/ Reset
    BY <2>3, WakeOwner
  <2>4. ASSUME NEW t \in Threads, SpuriousWake(t) PROVE WakeInv'
    BY <2>4, WakeSpurious
  <2>5. CASE UNCHANGED vars
    BY <2>5 DEF vars, QueueInv, WakeInv, NoValueStranded, NoSpaceStranded, ClosedWakesAll,
                Waiting, Woken, Capacity
  <2>6. QED
    BY <2>1, <2>2, <2>3, <2>4, <2>5 DEF Next
<1>3. QED
  BY <1>1, <1>2 DEF QueueInv

(* The invariant holds in every reachable state.                           *)
LEMMA QueueInvariant == Spec => []QueueInv
<1>1. Init => QueueInv
  BY DataInit, WakeInit DEF QueueInv
<1>2. QED
  BY <1>1, QueueInvNext, PTL DEF Spec
-----------------------------------------------------------------------------
(* Types and bounds of the queue, for every capacity and set of threads.   *)
THEOREM TypeCorrect == Spec => []TypeOK
<1>1. QueueInv => TypeOK
  BY DEF QueueInv, DataInv
<1>2. QED
  BY <1>1, QueueInvariant, PTL

(* push and pop notify one sleeper each (LatestValueQueue.h), and that is  *)
(* enough: no value is stranded while a consumer sleeps.                   *)
THEOREM ConsumersAreWoken == Spec => []NoValueStranded
<1>1. QueueInv => NoValueStranded
  BY DEF QueueInv, WakeInv
<1>2. QED
  BY <1>1, QueueInvariant, PTL

(* ... and no free place is stranded while a producer of a blocking queue  *)
(* sleeps.                                                                 *)
THEOREM ProducersAreWoken == Spec => []NoSpaceStranded
<1>1. QueueInv => NoSpaceStranded
  BY DEF QueueInv, WakeInv
<1>2. QED
  BY <1>1, QueueInvariant, PTL

(* close leaves nobody asleep, and nobody falls asleep on a closed queue.  *)
THEOREM CloseWakesEverybody == Spec => []ClosedWakesAll
<1>1. QueueInv => ClosedWakesAll
  BY DEF QueueInv, WakeInv
<1>2. QED
  BY <1>1, QueueInvariant, PTL

(* Values are handed out in the order of their pushes.                     *)
THEOREM ValuesStayOrdered == Spec => []Ordered
<1>1. QueueInv => Ordered
  BY DEF QueueInv, DataInv
<1>2. QED
  BY <1>1, QueueInvariant, PTL
-----------------------------------------------------------------------------
(* The refinement of LossyChannel.                                         *)
Pending == {queue[i] : i \in 1..Len(queue)}

(* Initially the channel is empty.                                         *)
LEMMA ChannelInit == Init => Abstract!Init
BY EmptyFacts DEF Init, Abstract!Init

(* An accepted push sends.                                                 *)
LEMMA ChannelSend ==
  ASSUME QueueInv, NEW p \in Producers, PushAccepted(p)
  PROVE  Abstract!Send
<1> DEFINE r == PushLatest(queue, sent + 1, Capacity)
<1>1. queue' = r /\ sent' = sent + 1 /\ received' = received
  BY DEF PushAccepted
<1>2. queue \in Seq(Nat) /\ Len(queue) <= Capacity /\ sent + 1 \in Nat
  BY DEF QueueInv, DataInv, TypeOK
<1>3. /\ r \in Seq(Nat)
      /\ Len(r) \in 1..Capacity
      /\ r[Len(r)] = sent + 1
      /\ \A i \in 1..(Len(r) - 1) :
           /\ i + (Len(queue) + 1 - Len(r)) \in 1..Len(queue)
           /\ r[i] = queue[i + (Len(queue) + 1 - Len(r))]
  <2> HIDE DEF r
  <2>1. QED
    BY <1>2, PushRank DEF r, PushedOnto
<1> HIDE DEF r
<1> DEFINE kept == {r[i] : i \in 1..(Len(r) - 1)}
<1>4. kept \subseteq Pending
  BY <1>3 DEF Pending
<1>5. Pending' = kept \cup {sent + 1}
  <2>1. Pending' = {r[i] : i \in 1..Len(r)}
    BY <1>1 DEF Pending
  <2>2. 1..Len(r) = (1..(Len(r) - 1)) \cup {Len(r)}
    BY <1>3
  <2>3. QED
    BY <1>3, <2>1, <2>2
<1> HIDE DEF kept
<1>6. QED
  BY <1>1, <1>4, <1>5 DEF Abstract!Send, Pending

(* A successful pop, or a pop of the latest, receives.                     *)
LEMMA ChannelReceive ==
  ASSUME QueueInv, NEW c \in Consumers, PopValue(c) \/ TryPopLatest(c)
  PROVE  Abstract!Receive
<1>1. /\ queue \in Seq(Nat) /\ Len(queue) \in Nat /\ queue # <<>> /\ Len(queue) > 0
      /\ Ordered
  BY DEF QueueInv, DataInv, TypeOK, PopValue, TryPopLatest
<1>2. CASE PopValue(c)
  <2>1. /\ Head(queue) = queue[1]
        /\ Len(Tail(queue)) = Len(queue) - 1
        /\ \A i \in 1..Len(Tail(queue)) : Tail(queue)[i] = queue[i + 1]
    BY <1>1, HeadTailProperties
  <2>2. received' = queue[1] /\ queue' = Tail(queue) /\ sent' = sent
    BY <1>2, <2>1 DEF PopValue
  <2>3. queue[1] \in Pending /\ received < queue[1]
    BY <1>1 DEF Pending, Ordered
  <2>4. \A i \in 1..Len(queue') : queue'[i] \in Pending /\ queue'[i] > queue[1]
    BY <1>1, <2>1, <2>2 DEF Ordered, Pending
  <2>5. Pending' \in SUBSET {x \in Pending : x > queue[1]}
    BY <2>4 DEF Pending
  <2>6. QED
    BY <2>2, <2>3, <2>5 DEF Abstract!Receive, Pending
<1>3. CASE TryPopLatest(c)
  <2>1. received' = queue[Len(queue)] /\ queue' = <<>> /\ sent' = sent
    BY <1>3 DEF TryPopLatest
  <2>2. queue[Len(queue)] \in Pending /\ received < queue[Len(queue)]
    BY <1>1 DEF Pending, Ordered
  <2>3. Pending' = {}
    BY <2>1, EmptyFacts DEF Pending
  <2>4. QED
    BY <2>1, <2>2, <2>3 DEF Abstract!Receive, Pending
<1>4. QED
  BY <1>2, <1>3

(* What neither adds nor delivers loses.                                   *)
LEMMA ChannelQuiet ==
  ASSUME queue' \in {queue, <<>>}, UNCHANGED <<sent, received>>
  PROVE  Abstract!Lose
<1>1. Pending' \in SUBSET Pending
  BY EmptyFacts DEF Pending
<1>2. QED
  BY <1>1 DEF Abstract!Lose, Pending

(* Every step is one of the channel.                                       *)
LEMMA ChannelNext == QueueInv /\ [Next]_vars => Abstract!Next
<1> SUFFICES ASSUME QueueInv, [Next]_vars PROVE Abstract!Next
  OBVIOUS
<1>1. ASSUME NEW p \in Producers, Push(p) PROVE Abstract!Next
  <2>1. CASE PushAccepted(p)
    BY <2>1, ChannelSend DEF Abstract!Next
  <2>2. CASE PushWait(p) \/ PushClosed(p)
    BY <2>2, ChannelQuiet DEF PushWait, PushClosed, Abstract!Next
  <2>3. QED
    BY <1>1, <2>1, <2>2 DEF Push
<1>2. ASSUME NEW c \in Consumers, Pop(c) \/ TryPopLatest(c) PROVE Abstract!Next
  <2>1. CASE PopValue(c) \/ TryPopLatest(c)
    BY <2>1, ChannelReceive DEF Abstract!Next
  <2>2. CASE PopWait(c) \/ PopNothing(c)
    BY <2>2, ChannelQuiet DEF PopWait, PopNothing, Abstract!Next
  <2>3. QED
    BY <1>2, <2>1, <2>2 DEF Pop
<1>3. CASE Clear \/ Close \/ Reset
  BY <1>3, ChannelQuiet DEF Clear, Close, Reset, Abstract!Next
<1>4. CASE (\E t \in Threads : SpuriousWake(t)) \/ UNCHANGED vars
  BY <1>4, ChannelQuiet DEF SpuriousWake, vars, Abstract!Next
<1>5. QED
  BY <1>1, <1>2, <1>3, <1>4 DEF Next

(* Whatever the threads do, the queue is a channel that may lose values    *)
(* but never duplicates or reorders them.                                  *)
THEOREM QueueImplementsChannel == Spec => ImplementsChannel
<1>1. Init => Abstract!Init
  BY ChannelInit
<1>2. QueueInv /\ [Next]_vars => [Abstract!Next]_Abstract!vars
  BY ChannelNext
<1>3. QED
  BY <1>1, <1>2, QueueInvariant, PTL DEF Spec, ImplementsChannel, Abstract!Spec
=============================================================================
