-------------------------- MODULE LatestValueQueue --------------------------
(***************************************************************************)
(* application/LatestValueQueue.h: the bounded queue between two threads   *)
(* of the service (capture -> inference, inference -> delivery).  One      *)
(* mutex protects the queue, two condition variables say "a value is       *)
(* available" and "space is available".  With dropOld the queue sheds its  *)
(* oldest value to take a new one; without it a producer waits for space.  *)
(*                                                                         *)
(* Each method body runs under the mutex, so a call is one action, unless  *)
(* it waits: then it is the action that enters the wait set and, once      *)
(* notified, the action that finds the mutex free again and re-evaluates   *)
(* the predicate.  A value is the rank at which it entered the queue.      *)
(***************************************************************************)
EXTENDS LatestValueQueueOps, FiniteSets

CONSTANTS Producers,          \* threads that call push
          Consumers,          \* threads that call pop and tryPopLatest
          RequestedCapacity,  \* the constructor's argument
          MaxSent             \* bound of the model: values ever accepted

ASSUME ThreadsAssumption == /\ IsFiniteSet(Producers)
                            /\ IsFiniteSet(Consumers)
                            /\ Producers \cap Consumers = {}
ASSUME CapacityAssumption == RequestedCapacity \in Nat
ASSUME MaxSentAssumption == MaxSent \in Nat

Capacity == IF RequestedCapacity = 0 THEN 1 ELSE RequestedCapacity

VARIABLES dropOld,   \* dropOld_, the constructor's second argument
          queue,     \* the deque, oldest value first
          closed,    \* closed_
          call,      \* call[t]: "none", "waiting" in a wait set, or "woken"
          sent,      \* values accepted so far
          received   \* the newest value ever handed to a consumer

vars == <<dropOld, queue, closed, call, sent, received>>

Threads == Producers \cup Consumers

Init == /\ dropOld \in BOOLEAN
        /\ queue = <<>>
        /\ closed = FALSE
        /\ call = [t \in Threads |-> "none"]
        /\ sent = 0
        /\ received = 0
-----------------------------------------------------------------------------
Waiting(S) == {t \in S : call[t] = "waiting"}
Woken(S)   == {t \in S : call[t] = "woken"}

(* The thread t leaves the mutex with the state `now'; of the wait set of  *)
(* the condition variable the threads in S wait on, W are notified.        *)
Leave(t, now, W) ==
  call' = [u \in Threads |-> IF u = t THEN now
                             ELSE IF u \in W THEN "woken" ELSE call[u]]

(* notify_one wakes one waiter, if there is one.                           *)
NotifyOne(S) == IF Waiting(S) = {} THEN {{}} ELSE {{w} : w \in Waiting(S)}

(* A thread is about to evaluate its predicate under the mutex.            *)
Evaluates(t) == call[t] \in {"none", "woken"}

PushWait(p) == /\ Evaluates(p)
               /\ ~dropOld /\ ~closed /\ Len(queue) >= Capacity
               /\ Leave(p, "waiting", {})
               /\ UNCHANGED <<dropOld, queue, closed, sent, received>>

PushClosed(p) == /\ Evaluates(p)
                 /\ closed
                 /\ Leave(p, "none", {})
                 /\ UNCHANGED <<dropOld, queue, closed, sent, received>>

(* Plausible bug: only the push that makes the queue non-empty notifies.   *)
PushNotifiesIfEmpty(p) ==
  /\ Evaluates(p)
  /\ ~closed
  /\ dropOld \/ Len(queue) < Capacity
  /\ sent < MaxSent
  /\ sent' = sent + 1
  /\ queue' = PushLatest(queue, sent + 1, Capacity)
  /\ \E W \in IF queue = <<>> THEN NotifyOne(Consumers) ELSE {{}} : Leave(p, "none", W)
  /\ UNCHANGED <<dropOld, closed, received>>

PushAccepted(p) == /\ Evaluates(p)
                   /\ ~closed
                   /\ dropOld \/ Len(queue) < Capacity
                   /\ sent < MaxSent
                   /\ sent' = sent + 1
                   /\ queue' = PushLatest(queue, sent + 1, Capacity)
                   /\ \E W \in NotifyOne(Consumers) : Leave(p, "none", W)
                   /\ UNCHANGED <<dropOld, closed, received>>

PopWait(c) == /\ Evaluates(c)
              /\ ~closed /\ queue = <<>>
              /\ Leave(c, "waiting", {})
              /\ UNCHANGED <<dropOld, queue, closed, sent, received>>

PopNothing(c) == /\ Evaluates(c)
                 /\ closed /\ queue = <<>>
                 /\ Leave(c, "none", {})
                 /\ UNCHANGED <<dropOld, queue, closed, sent, received>>

(* Plausible bug: only the pop that finds the queue full notifies.         *)
PopNotifiesIfFull(c) ==
  /\ Evaluates(c)
  /\ queue # <<>>
  /\ received' = Head(queue)
  /\ queue' = Tail(queue)
  /\ \E W \in IF Len(queue) = Capacity THEN NotifyOne(Producers) ELSE {{}} : Leave(c, "none", W)
  /\ UNCHANGED <<dropOld, closed, sent>>

PopValue(c) == /\ Evaluates(c)
               /\ queue # <<>>
               /\ received' = Head(queue)
               /\ queue' = Tail(queue)
               /\ \E W \in NotifyOne(Producers) : Leave(c, "none", W)
               /\ UNCHANGED <<dropOld, closed, sent>>

(* Plausible bug: tryPopLatest leaves the older values.                    *)
TryPopKeepsOlder(c) == /\ call[c] = "none"
                       /\ queue # <<>>
                       /\ received' = queue[Len(queue)]
                       /\ queue' = SubSeq(queue, 1, Len(queue) - 1)
                       /\ Leave(c, "none", Waiting(Producers))
                       /\ UNCHANGED <<dropOld, closed, sent>>

(* tryPopLatest takes no part in the waiting: it is a call of its own.     *)
TryPopLatest(c) == /\ call[c] = "none"
                   /\ queue # <<>>
                   /\ received' = queue[Len(queue)]
                   /\ queue' = <<>>
                   /\ Leave(c, "none", Waiting(Producers))
                   /\ UNCHANGED <<dropOld, closed, sent>>
-----------------------------------------------------------------------------
(* clear, close and reset are called by the thread that owns the queue,    *)
(* which is neither a producer nor a consumer of it.                       *)
NotifyAll(S) == call' = [u \in Threads |-> IF u \in Waiting(S) THEN "woken" ELSE call[u]]

Clear == /\ queue' = <<>>
         /\ NotifyAll(Producers)
         /\ UNCHANGED <<dropOld, closed, sent, received>>

(* Plausible bug: close wakes the consumers and forgets blocked producers. *)
CloseForgetsProducers == /\ closed' = TRUE
                         /\ NotifyAll(Consumers)
                         /\ UNCHANGED <<dropOld, queue, sent, received>>

Close == /\ closed' = TRUE
         /\ NotifyAll(Threads)
         /\ UNCHANGED <<dropOld, queue, sent, received>>

Reset == /\ queue' = <<>>
         /\ closed' = FALSE
         /\ NotifyAll(Threads)
         /\ UNCHANGED <<dropOld, sent, received>>

(* A condition variable may also wake a waiter nobody notified.            *)
SpuriousWake(t) == /\ call[t] = "waiting"
                   /\ call' = [call EXCEPT ![t] = "woken"]
                   /\ UNCHANGED <<dropOld, queue, closed, sent, received>>

Push(p) == PushWait(p) \/ PushClosed(p) \/ PushAccepted(p)
Pop(c)  == PopWait(c) \/ PopNothing(c) \/ PopValue(c)

Next == \/ \E p \in Producers : Push(p)
        \/ \E c \in Consumers : Pop(c) \/ TryPopLatest(c)
        \/ Clear \/ Close \/ Reset
        \/ \E t \in Threads : SpuriousWake(t)

Spec == Init /\ [][Next]_vars
-----------------------------------------------------------------------------
TypeOK == /\ dropOld \in BOOLEAN
          /\ queue \in Seq(Nat)
          /\ Len(queue) <= Capacity
          /\ closed \in BOOLEAN
          /\ call \in [Threads -> {"none", "waiting", "woken"}]
          /\ sent \in Nat
          /\ received \in Nat

(* No lost wake-up, consumers.  The code notifies ONE consumer per pushed  *)
(* value; a value may not lie in the queue while a consumer sleeps, unless *)
(* a consumer already awake is on its way to every one of the values.      *)
NoValueStranded == Waiting(Consumers) # {} => Len(queue) <= Cardinality(Woken(Consumers))

(* No lost wake-up, producers.  The same for the room in the queue: a      *)
(* blocked producer sleeps only if the free places are spoken for.         *)
NoSpaceStranded ==
  Waiting(Producers) # {} => Capacity - Len(queue) <= Cardinality(Woken(Producers))

(* Nobody sleeps on a closed queue: close is the stop signal of the worker *)
(* threads, whose owners join them next.                                   *)
ClosedWakesAll == closed => Waiting(Threads) = {}

(* The values in the queue are in the order of their pushes and newer than *)
(* anything received, and the newest of them is the last one pushed: no    *)
(* consumer gets a value older than one a consumer had before, and         *)
(* shedding never costs the newest.                                        *)
Ordered == /\ \A i, j \in 1..Len(queue) : i < j => queue[i] < queue[j]
           /\ \A i \in 1..Len(queue) : received < queue[i]
           /\ received <= sent
           /\ queue # <<>> => queue[Len(queue)] = sent

(* The queue as its users see it: a lossy channel that never reorders.     *)
Abstract == INSTANCE LossyChannel
              WITH pending <- {queue[i] : i \in 1..Len(queue)}
ImplementsChannel == Abstract!Spec
=============================================================================
