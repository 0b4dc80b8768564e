--------------------- MODULE CameraControlWorker_proofs ----------------------
(***************************************************************************)
(* Theorems about CameraControlWorker, for any callers, queue size and     *)
(* number of starts.                                                       *)
(***************************************************************************)
EXTENDS CameraControlWorker, LatestValueQueueOps_proofs

Points  == {"none", "loop", "look", "falling", "asleep", "pace", "execute", "account", "ended"}
Places  == {"idle", "open", "prepare", "run", "spawn", "stop", "notify", "join", "release",
            "clear"}
Types   == {"none", "Move", "Stop"}
Origins == {"none", "automatic", "manual"}
Command == [type : Types, origin : Origins, id : Nat]
Call    == [at : {"idle", "enqueue"}, origin : Origins, type : Types, late : BOOLEAN]
Metrics == [queued : Nat, executed : Nat, dropped : Nat, errors : Nat]

FlagsOK == /\ running \in BOOLEAN /\ overriding \in BOOLEAN /\ ready \in BOOLEAN
           /\ early \in BOOLEAN /\ restarting \in BOOLEAN
           /\ api \in Places /\ starts \in Nat

DataOK == /\ queue \in Seq(Command) /\ Len(queue) <= QueueSize
          /\ metrics \in Metrics
          /\ worker \in [at : Points, command : Command]
          /\ call \in [Callers -> Call]
          /\ newest \in Command /\ attempted \in Command

WorkerTypeOK == FlagsOK /\ DataOK

(* Where the client and the thread can be at once, and what that says of   *)
(* the flag and of the adapter.                                            *)
Exists == worker.at # "none"

PlacesInv == /\ Exists => api \in {"idle", "stop", "notify", "join"}
             /\ api \in {"stop", "notify", "join"} => Exists
             /\ running => api \in {"idle", "stop", "spawn"}
             /\ running /\ api # "spawn" => Exists

AdapterInv == /\ Exists \/ api \in {"prepare", "run", "spawn", "release"} => ready
              /\ ~Exists /\ api \in {"idle", "open", "clear"} => ~ready
              /\ ~Exists /\ api # "release" => attempted.type \in {"none", "Stop"}

(* The last command asked for is the last one waiting, in hand or done.    *)
LastAskedInv ==
  running \/ api = "run" => newest = IF queue # <<>> THEN queue[Len(queue)]
                                     ELSE IF InHand THEN worker.command
                                     ELSE attempted

PaceInv == worker.at = "pace" => queue # <<>>

(* No call that will be let in believes that the override is over.         *)
OverrideInv == overriding => \A c \in Callers : ~call[c].late

(* Nothing waits in front of a Stop.                                       *)
StopGoesFirst == \A i \in DOMAIN queue : queue[i].type = "Stop" => i = 1

WorkerInv == /\ WorkerTypeOK /\ PlacesInv /\ AdapterInv
             /\ LastAskedInv /\ PaceInv
             /\ OverrideInv /\ ManualHolds /\ StopGoesFirst
-----------------------------------------------------------------------------
(* What the enqueuing of a command makes of the queue: the command is      *)
(* last, what is in front of it was there before, and not further in front. *)
Inserted(r, q, command) ==
  /\ r \in Seq(Command)
  /\ Len(r) \in 1..QueueSize
  /\ r[Len(r)] = command
  /\ Len(r) <= Len(AfterOverride(q, command)) + 1
  /\ command.type = "Stop" => Len(r) = 1
  /\ \A i \in 1..(Len(r) - 1) :
       \E j \in i..Len(q) : r[i] = q[j] /\ (command.origin = "manual" => q[j].origin = "manual")

(* What a manual command leaves of the queue is in order, and all manual.  *)
LEMMA AfterOverrideFacts ==
  ASSUME NEW q \in Seq(Command), NEW command \in Command
  PROVE  /\ AfterOverride(q, command) \in Seq(Command)
         /\ Len(AfterOverride(q, command)) <= Len(q)
         /\ \A i \in 1..Len(AfterOverride(q, command)) :
              \E j \in i..Len(q) : /\ AfterOverride(q, command)[i] = q[j]
                                   /\ command.origin = "manual" => q[j].origin = "manual"
<1>1. CASE command.origin = "manual"
  <2> DEFINE manual == {i \in DOMAIN q : q[i].origin = "manual"}
  <2>1. AfterOverride(q, command) = Kept(q, manual)
    BY <1>1 DEF AfterOverride
  <2>2. \A j \in manual : q[j].origin = "manual"
    OBVIOUS
  <2> HIDE DEF manual
  <2>3. /\ Kept(q, manual) \in Seq(Command)
        /\ Len(Kept(q, manual)) <= Len(q)
        /\ \A i \in 1..Len(Kept(q, manual)) :
             \E j \in i..Len(q) : j \in manual /\ Kept(q, manual)[i] = q[j]
    BY KeptFacts
  <2>4. QED
    BY <2>1, <2>2, <2>3
<1>2. CASE command.origin # "manual"
  <2>1. AfterOverride(q, command) = q
    BY <1>2 DEF AfterOverride
  <2>2. QED
    BY <1>2, <2>1
<1>3. QED
  BY <1>1, <1>2

(* What enqueue writes: what it keeps is in order, the new command last.   *)
LEMMA InsertFacts ==
  ASSUME NEW q \in Seq(Command), Len(q) <= QueueSize, NEW command \in Command
  PROVE  Inserted(Insert(q, command), q, command)
<1> DEFINE kept == AfterOverride(q, command)
           left == Superseded(kept, command)
           r == PushLatest(left, command, QueueSize)
<1>1. /\ kept \in Seq(Command)
      /\ Len(kept) <= Len(q)
      /\ \A i \in 1..Len(kept) :
           \E j \in i..Len(q) : /\ kept[i] = q[j]
                                /\ command.origin = "manual" => q[j].origin = "manual"
  BY AfterOverrideFacts
<1>2. QueueSize \in Nat /\ QueueSize >= 1 /\ Len(kept) \in Nat /\ Len(q) \in Nat
  BY <1>1, QueueSizeAssumption
<1>3. CASE ~IsMove(command)
  <2>1. Insert(q, command) = <<command>>
    BY <1>3 DEF Insert
  <2>2. <<command>> \in Seq(Command) /\ Len(<<command>>) = 1 /\ <<command>>[1] = command
    OBVIOUS
  <2>3. QED
    BY <1>2, <2>1, <2>2 DEF Inserted
<1>4. CASE IsMove(command)
  <2>1. Insert(q, command) = r
    BY <1>4 DEF Insert
  <2>2. /\ left \in Seq(Command)
        /\ Len(left) <= Len(kept)
        /\ \A i \in 1..Len(left) : \E j \in i..Len(kept) : left[i] = kept[j]
    <3> DEFINE others == {i \in DOMAIN kept : kept[i].origin # command.origin
                                              \/ ~IsMove(kept[i])}
    <3>1. left = Kept(kept, others)
      BY DEF Superseded
    <3> HIDE DEF kept, left, others
    <3>2. /\ Kept(kept, others) \in Seq(Command)
          /\ Len(Kept(kept, others)) <= Len(kept)
          /\ \A i \in 1..Len(Kept(kept, others)) :
               \E j \in i..Len(kept) : j \in others /\ Kept(kept, others)[i] = kept[j]
      BY <1>1, KeptFacts
    <3>3. QED
      BY <3>1, <3>2
  <2> HIDE DEF kept, left
  <2>3. PushedOnto(r, left, command, Command, QueueSize)
    <3>1. Len(left) <= QueueSize
      BY <1>1, <1>2, <2>2
    <3>2. QED
      BY <1>2, <2>2, <3>1, PushFacts
  <2> HIDE DEF r
  <2>4. ASSUME NEW i \in 1..(Len(r) - 1)
        PROVE  \E j \in i..Len(q) :
                 r[i] = q[j] /\ (command.origin = "manual" => q[j].origin = "manual")
    <3>1. PICK k \in i..Len(left) : r[i] = left[k]
      <4>1. Len(r) \in Nat /\ Len(left) \in Nat /\ Len(r) <= Len(left) + 1
        BY <2>2, <2>3 DEF PushedOnto
      <4>2. /\ i + (Len(left) + 1 - Len(r)) \in 1..Len(left)
            /\ r[i] = left[i + (Len(left) + 1 - Len(r))]
        BY <2>3 DEF PushedOnto
      <4>3. i + (Len(left) + 1 - Len(r)) \in i..Len(left)
        BY <4>1, <4>2
      <4>4. QED
        BY <4>2, <4>3
    <3>2. k \in 1..Len(left)
      BY <2>2, <3>1
    <3>3. PICK m \in k..Len(kept) : left[k] = kept[m]
      BY <2>2, <3>2
    <3>4. m \in 1..Len(kept)
      BY <1>2, <3>2, <3>3
    <3>5. PICK j \in m..Len(q) : /\ kept[m] = q[j]
                                 /\ command.origin = "manual" => q[j].origin = "manual"
      BY <1>1, <3>4
    <3>6. j \in i..Len(q)
      BY <1>2, <3>1, <3>3, <3>5
    <3>7. QED
      BY <3>1, <3>3, <3>5, <3>6
  <2>5. command.type # "Stop"
    BY <1>4 DEF IsMove
  <2>6. Len(r) <= Len(kept) + 1
    BY <1>2, <2>2, <2>3 DEF PushedOnto
  <2>7. QED
    BY <2>1, <2>3, <2>4, <2>5, <2>6 DEF Inserted, PushedOnto, kept
<1>5. QED
  BY <1>3, <1>4
-----------------------------------------------------------------------------
(* A woken thread is the same thread: it looks again if it was asleep.     *)
LEMMA WokenFacts ==
  ASSUME WorkerTypeOK
  PROVE  /\ Woken \in [at : Points, command : Command]
         /\ Woken.command = worker.command
         /\ Woken.at = IF worker.at = "asleep" THEN "look" ELSE worker.at
BY DEF Woken, WorkerTypeOK, DataOK, Points

(* The commands that stand for nothing and for the final Stop.             *)
LEMMA ConstantCommands ==
  /\ NoCommand \in Command /\ FinalStop \in Command
  /\ NoCommand.type = "none" /\ FinalStop.type = "Stop"
  /\ NoWorker \in [at : Points, command : Command] /\ NoWorker.at = "none"
  /\ NoCall \in Call /\ NoCall.late = FALSE
  /\ NoMetrics \in Metrics
BY DEF NoCommand, FinalStop, NoWorker, NoCall, NoMetrics, Command, Call, Metrics, Types,
       Origins, Points

(* Taking the front command of a queue.                                    *)
LEMMA PopFacts ==
  ASSUME WorkerTypeOK, queue # <<>>
  PROVE  /\ Head(queue) \in Command /\ Head(queue) = queue[1]
         /\ Tail(queue) \in Seq(Command) /\ Len(Tail(queue)) = Len(queue) - 1
         /\ \A i \in 1..Len(Tail(queue)) : Tail(queue)[i] = queue[i + 1]
         /\ (Tail(queue) = <<>>) <=> (Len(queue) = 1)
<1>1. queue \in Seq(Command) /\ Len(queue) \in Nat
  BY DEF WorkerTypeOK, DataOK
<1>2. /\ Head(queue) \in Command /\ Tail(queue) \in Seq(Command)
      /\ Len(Tail(queue)) = Len(queue) - 1
      /\ \A i \in 1..Len(Tail(queue)) : Tail(queue)[i] = queue[i + 1]
  BY <1>1, HeadTailProperties
<1>3. Head(queue) = queue[1]
  BY <1>1
<1>4. (Tail(queue) = <<>>) <=> (Len(Tail(queue)) = 0)
  BY <1>2, EmptySeq
<1>5. QED
  BY <1>1, <1>2, <1>3, <1>4

(* The initial state is typed ...                                          *)
LEMMA TypeInit == Init => WorkerTypeOK
<1>1. SUFFICES ASSUME Init PROVE WorkerTypeOK
  OBVIOUS
<1>2. FlagsOK
  BY <1>1 DEF Init, FlagsOK, Places
<1>3. queue \in Seq(Command) /\ Len(queue) <= QueueSize
  BY <1>1, QueueSizeAssumption DEF Init
<1>4. call \in [Callers -> Call]
  BY <1>1, ConstantCommands DEF Init
<1>5. QED
  BY <1>1, <1>2, <1>3, <1>4, ConstantCommands DEF Init, WorkerTypeOK, DataOK

(* A step writes no flag a value that is not of its type.                  *)
LEMMA FlagsStep == ASSUME WorkerTypeOK, [Next]_vars PROVE FlagsOK'
<1> USE DEF WorkerTypeOK, FlagsOK, Places, settings, history
<1>1. CASE ApiCall
  <2>1. CASE Start
    <3>1. Joinable \in BOOLEAN
      BY DEF Joinable
    <3>2. api' \in Places /\ starts' \in Nat /\ restarting' \in BOOLEAN
      BY <2>1, <3>1 DEF Start
    <3>3. QED
      BY <2>1, <3>2 DEF Start
  <2>2. CASE Stop
    BY <2>2 DEF Stop
  <2>3. CASE StopInactive
    BY <2>3 DEF StopInactive, vars
  <2>4. QED
    BY <1>1, <2>1, <2>2, <2>3 DEF ApiCall
<1>2. CASE ApiStep
  BY <1>2 DEF ApiStep, StartOpen, StartRun, StartSpawn, StopNotify, StopJoin, StopRelease,
              StopClear, Stop
<1>3. CASE Prepare
  BY <1>3 DEF Prepare, StartPrepare
<1>4. CASE WorkerStep
  BY <1>4 DEF WorkerStep, WorkerLoop, WorkerEnds, WorkerTakesStop, WorkerHoldsMove,
              WorkerFindsNothing, WorkerSleeps, WorkerPaced, WorkerPacedEnds, WorkerExecutes,
              WorkerAccounts, WorkerUnchanged, Pop
<1>5. CASE SpuriousWake \/ NextAllowedReached \/ OverrideEnds
  BY <1>5 DEF SpuriousWake, NextAllowedReached, OverrideEnds
<1>6. ASSUME NEW c \in Callers, EnqueueStep(c) PROVE FlagsOK'
  BY <1>6 DEF EnqueueStep, EnqueueRefused, EnqueueAccepted
<1>7. ASSUME NEW c \in Callers, NEW origin, NEW type, EnqueueCall(c, origin, type)
      PROVE  FlagsOK'
  BY <1>7 DEF EnqueueCall
<1>8. CASE UNCHANGED vars
  BY <1>8 DEF vars
<1>9. QED
  BY <1>1, <1>2, <1>3, <1>4, <1>5, <1>6, <1>7, <1>8 DEF Next

(* Nor the queue, the counters, the thread and the calls.                  *)
LEMMA DataStep == ASSUME WorkerTypeOK, PaceInv, [Next]_vars PROVE DataOK'
<1> USE DEF settings, history
<1>0. DataOK
  BY DEF WorkerTypeOK
<1>1. CASE ApiCall
  BY <1>0, <1>1 DEF ApiCall, Start, Stop, StopInactive, vars, DataOK
<1>2. CASE ApiStep
  <2>1. CASE StartOpen \/ StartRun \/ (api = "stop" /\ Stop)
    BY <1>0, <1>2, <2>1 DEF ApiStep, StartOpen, StartRun, Stop, DataOK
  <2>2. CASE StartSpawn
    <3>1. [NoWorker EXCEPT !.at = "loop"] \in [at : Points, command : Command]
      BY ConstantCommands DEF Points
    <3>2. QED
      BY <1>0, <1>2, <2>2, <3>1 DEF ApiStep, StartSpawn, DataOK
  <2>3. CASE StopNotify
    BY <1>0, <1>2, <2>3, WokenFacts DEF ApiStep, StopNotify, DataOK
  <2>4. CASE StopJoin
    BY <1>0, <1>2, <2>4, ConstantCommands DEF ApiStep, StopJoin, DataOK
  <2>5. CASE StopRelease
    BY <1>0, <1>2, <2>5, ConstantCommands DEF ApiStep, StopRelease, DataOK
  <2>6. CASE StopClear
    BY <1>0, <1>2, <2>6, QueueSizeAssumption DEF ApiStep, StopClear, DataOK
  <2>7. QED
    BY <1>2, <2>1, <2>2, <2>3, <2>4, <2>5, <2>6 DEF ApiStep
<1>3. CASE Prepare
  <2>1. call' \in [Callers -> Call]
    BY <1>0, <1>3 DEF Prepare, DataOK, Call
  <2>2. queue' \in Seq(Command) /\ Len(queue') <= QueueSize
    BY <1>3, QueueSizeAssumption DEF Prepare, StartPrepare
  <2>3. QED
    BY <1>0, <1>3, <2>1, <2>2, ConstantCommands DEF Prepare, StartPrepare, DataOK
<1>4. CASE WorkerStep
  <2>1. UNCHANGED <<call, newest>>
    BY <1>4 DEF WorkerStep, WorkerUnchanged
  <2>2. CASE \/ WorkerLoop \/ WorkerEnds \/ WorkerHoldsMove \/ WorkerFindsNothing
             \/ WorkerSleeps \/ WorkerPacedEnds
    BY <1>0, <2>1, <2>2 DEF WorkerLoop, WorkerEnds, WorkerHoldsMove, WorkerFindsNothing,
                            WorkerSleeps, WorkerPacedEnds, GoOn, DataOK, Points
  <2>3. ASSUME queue # <<>>, Pop PROVE DataOK'
    <3>1. worker' \in [at : Points, command : Command]
      BY <2>3, PopFacts DEF Pop, Points
    <3>2. queue' \in Seq(Command) /\ Len(queue') <= QueueSize
      BY <1>0, <2>3, PopFacts, QueueSizeAssumption DEF Pop, DataOK
    <3>3. QED
      BY <1>0, <2>1, <2>3, <3>1, <3>2 DEF Pop, DataOK
  <2>4. CASE WorkerExecutes
    BY <1>0, <2>1, <2>4 DEF WorkerExecutes, GoOn, DataOK, Points
  <2>5. CASE WorkerAccounts
    <3>1. metrics' \in Metrics
      BY <1>0, <2>5 DEF WorkerAccounts, DataOK, Metrics
    <3>2. worker' \in [at : Points, command : Command]
      BY <2>5, ConstantCommands DEF WorkerAccounts, Points
    <3>3. QED
      BY <1>0, <2>1, <2>5, <3>1, <3>2 DEF WorkerAccounts, DataOK
  <2>6. QED
    BY <1>4, <2>2, <2>3, <2>4, <2>5
       DEF WorkerStep, WorkerTakesStop, WorkerPaced, PaceInv, WorkerAt
<1>5. CASE SpuriousWake \/ NextAllowedReached \/ OverrideEnds
  BY <1>0, <1>5, WokenFacts DEF SpuriousWake, NextAllowedReached, OverrideEnds, DataOK
<1>6. ASSUME NEW c \in Callers, EnqueueRefused(c) PROVE DataOK'
  BY <1>0, <1>6, ConstantCommands DEF EnqueueRefused, DataOK
<1>7. ASSUME NEW c \in Callers, EnqueueAccepted(c) PROVE DataOK'
  <2> DEFINE command == [type |-> call[c].type, origin |-> call[c].origin, id |-> newest.id + 1]
  <2>1. command \in Command
    BY <1>0 DEF DataOK, Call, Command
  <2>2. /\ queue' = Insert(queue, command) /\ newest' = command /\ worker' = Woken
        /\ metrics' = [metrics EXCEPT !.queued = @ + 1,
                                      !.dropped = @ + Replaced(queue, command)]
        /\ attempted' = attempted
    BY <1>7 DEF EnqueueAccepted
  <2> HIDE DEF command
  <2>3. Inserted(Insert(queue, command), queue, command)
    BY <1>0, <2>1, InsertFacts DEF DataOK
  <2>4. Replaced(queue, command) \in Nat
    <3>1. AfterOverride(queue, command) \in Seq(Command)
      BY <1>0, <2>1, AfterOverrideFacts DEF DataOK
    <3>2. QED
      BY <2>3, <3>1 DEF Inserted, Replaced
  <2>5. metrics' \in Metrics
    <3>1. metrics \in Metrics
      BY <1>0 DEF DataOK
    <3> DEFINE replaced == Replaced(queue, command)
    <3>2. replaced \in Nat
      BY <2>4
    <3> HIDE DEF replaced
    <3>3. metrics' = [metrics EXCEPT !.queued = @ + 1, !.dropped = @ + replaced]
      BY <2>2 DEF replaced
    <3>4. metrics' = [queued |-> metrics.queued + 1, executed |-> metrics.executed,
                      dropped |-> metrics.dropped + replaced, errors |-> metrics.errors]
      BY <3>1, <3>3 DEF Metrics
    <3>5. QED
      BY <3>1, <3>2, <3>4 DEF Metrics
  <2>6. call' \in [Callers -> Call]
    BY <1>0, <1>7, ConstantCommands DEF EnqueueAccepted, DataOK, Call
  <2>7. QED
    BY <1>0, <2>1, <2>2, <2>3, <2>5, <2>6, WokenFacts DEF DataOK, Inserted
<1>8. ASSUME NEW c \in Callers, NEW origin \in {"automatic", "manual"},
             NEW type \in {"Move", "Stop"}, EnqueueCall(c, origin, type)
      PROVE  DataOK'
  BY <1>0, <1>8 DEF EnqueueCall, DataOK, Call, Types, Origins
<1>9. CASE UNCHANGED vars
  BY <1>0, <1>9 DEF vars, DataOK
<1>10. QED
  BY <1>1, <1>2, <1>3, <1>4, <1>5, <1>6, <1>7, <1>8, <1>9 DEF Next, EnqueueStep

(* ... and every step keeps the types.                                     *)
LEMMA TypeStep == ASSUME WorkerTypeOK, PaceInv, [Next]_vars PROVE WorkerTypeOK'
BY FlagsStep, DataStep DEF WorkerTypeOK
-----------------------------------------------------------------------------
(* The thread writes nothing of the client's, and does not end its object. *)
LEMMA WorkerFootprint ==
  ASSUME WorkerTypeOK, WorkerStep
  PROVE  /\ UNCHANGED <<running, overriding, ready, api, restarting, call, starts, newest>>
         /\ Exists /\ Exists'
         /\ worker.at = "execute" \/ attempted' = attempted
<1>1. worker \in [at : Points, command : Command]
  BY DEF WorkerTypeOK, DataOK
<1>2. UNCHANGED <<running, overriding, ready, api, restarting, call, starts, newest>>
  BY DEF WorkerStep, WorkerUnchanged
<1>3. Exists /\ Exists'
  BY <1>1 DEF WorkerStep, WorkerLoop, WorkerEnds, WorkerTakesStop, WorkerHoldsMove,
              WorkerFindsNothing, WorkerSleeps, WorkerPaced, WorkerPacedEnds, WorkerExecutes,
              WorkerAccounts, WorkerAt, GoOn, Pop, Exists
<1>4. worker.at = "execute" \/ attempted' = attempted
  BY DEF WorkerStep, WorkerLoop, WorkerEnds, WorkerTakesStop, WorkerHoldsMove,
         WorkerFindsNothing, WorkerSleeps, WorkerPaced, WorkerPacedEnds, WorkerExecutes,
         WorkerAccounts, WorkerAt, Pop
<1>5. QED
  BY <1>2, <1>3, <1>4

(* Nor does an enqueue.                                                    *)
LEMMA EnqueueFootprint ==
  ASSUME WorkerTypeOK, NEW c \in Callers,
         \/ EnqueueStep(c)
         \/ \E origin \in {"automatic", "manual"}, type \in {"Move", "Stop"} :
              EnqueueCall(c, origin, type)
  PROVE  UNCHANGED <<running, ready, api, restarting, attempted, Exists>>
<1>1. CASE EnqueueAccepted(c)
  BY <1>1, WokenFacts DEF EnqueueAccepted, Exists
<1>2. QED
  BY <1>1 DEF EnqueueStep, EnqueueRefused, EnqueueCall, settings, history, Exists

(* The client, the flag and the thread are where the code lets them be.    *)
LEMMA PlacesStep == ASSUME WorkerInv, [Next]_vars PROVE PlacesInv'
<1> USE DEF PlacesInv
<1>0. WorkerTypeOK /\ PlacesInv
  BY DEF WorkerInv
<1>1. CASE ApiCall
  BY <1>0, <1>1 DEF ApiCall, Start, Stop, StopInactive, Joinable, Exists, vars
<1>2. CASE ApiStep
  <2>1. CASE StartOpen \/ StartRun \/ StopRelease \/ StopClear \/ (api = "stop" /\ Stop)
    BY <1>0, <2>1 DEF StartOpen, StartRun, StopRelease, StopClear, Stop, Exists, settings,
                      history
  <2>2. CASE StartSpawn
    <3>1. [NoWorker EXCEPT !.at = "loop"].at = "loop"
      BY DEF NoWorker
    <3>2. QED
      BY <1>0, <2>2, <3>1 DEF StartSpawn, Exists
  <2>3. CASE StopNotify
    BY <1>0, <2>3, WokenFacts DEF StopNotify, Exists
  <2>4. CASE StopJoin
    BY <1>0, <2>4, ConstantCommands DEF StopJoin, Exists
  <2>5. QED
    BY <1>2, <2>1, <2>2, <2>3, <2>4 DEF ApiStep
<1>3. CASE Prepare
  BY <1>0, <1>3 DEF Prepare, StartPrepare, Exists
<1>4. CASE WorkerStep
  BY <1>0, <1>4, WorkerFootprint
<1>5. CASE SpuriousWake \/ NextAllowedReached \/ OverrideEnds
  BY <1>0, <1>5, WokenFacts DEF SpuriousWake, NextAllowedReached, OverrideEnds, Exists
<1>6. ASSUME NEW c \in Callers,
             \/ EnqueueStep(c)
             \/ \E origin \in {"automatic", "manual"}, type \in {"Move", "Stop"} :
                  EnqueueCall(c, origin, type)
      PROVE  PlacesInv'
  BY <1>0, <1>6, EnqueueFootprint
<1>7. CASE UNCHANGED vars
  BY <1>0, <1>7 DEF vars, Exists
<1>8. QED
  BY <1>1, <1>2, <1>3, <1>4, <1>5, <1>6, <1>7 DEF Next

(* The adapter is open exactly while the thread needs it; what was sent    *)
(* last before it was closed is a Stop.                                    *)
LEMMA AdapterStep == ASSUME WorkerInv, [Next]_vars PROVE AdapterInv'
<1> USE DEF AdapterInv
<1>0. WorkerTypeOK /\ PlacesInv /\ AdapterInv
  BY DEF WorkerInv
<1>1. CASE ApiCall
  BY <1>0, <1>1 DEF ApiCall, Start, Stop, StopInactive, Joinable, Exists, vars, settings,
                    history, PlacesInv
<1>2. CASE ApiStep
  <2>1. CASE StartOpen \/ StartRun \/ StopClear \/ (api = "stop" /\ Stop)
    BY <1>0, <2>1 DEF StartOpen, StartRun, StopClear, Stop, Exists, settings, history,
                      PlacesInv
  <2>2. CASE StartSpawn
    <3>1. [NoWorker EXCEPT !.at = "loop"].at = "loop"
      BY DEF NoWorker
    <3>2. QED
      BY <1>0, <2>2, <3>1 DEF StartSpawn, Exists, history, PlacesInv
  <2>3. CASE StopNotify
    BY <1>0, <2>3, WokenFacts DEF StopNotify, Exists, settings, history, PlacesInv
  <2>4. CASE StopJoin
    BY <1>0, <2>4, ConstantCommands DEF StopJoin, Exists, settings, history
  <2>5. CASE StopRelease
    BY <1>0, <2>5, ConstantCommands DEF StopRelease, Exists, PlacesInv
  <2>6. QED
    BY <1>2, <2>1, <2>2, <2>3, <2>4, <2>5 DEF ApiStep
<1>3. CASE Prepare
  BY <1>0, <1>3, ConstantCommands DEF Prepare, StartPrepare, Exists, PlacesInv
<1>4. CASE WorkerStep
  BY <1>0, <1>4, WorkerFootprint DEF PlacesInv
<1>5. CASE SpuriousWake \/ NextAllowedReached \/ OverrideEnds
  BY <1>0, <1>5, WokenFacts DEF SpuriousWake, NextAllowedReached, OverrideEnds, Exists,
                                settings, history
<1>6. ASSUME NEW c \in Callers,
             \/ EnqueueStep(c)
             \/ \E origin \in {"automatic", "manual"}, type \in {"Move", "Stop"} :
                  EnqueueCall(c, origin, type)
      PROVE  AdapterInv'
  BY <1>0, <1>6, EnqueueFootprint
<1>7. CASE UNCHANGED vars
  BY <1>0, <1>7 DEF vars, Exists, settings, history
<1>8. QED
  BY <1>1, <1>2, <1>3, <1>4, <1>5, <1>6, <1>7 DEF Next
-----------------------------------------------------------------------------
(* An accepted command: what it does to the queue and the other calls.     *)
LEMMA AcceptedFacts ==
  ASSUME WorkerTypeOK, NEW c \in Callers, EnqueueAccepted(c)
  PROVE  /\ queue' # <<>> /\ queue'[Len(queue')] = newest'
         /\ newest' \in Command /\ newest'.origin = call[c].origin
         /\ Inserted(queue', queue, newest')
         /\ Woken = worker'
<1> DEFINE command == [type |-> call[c].type, origin |-> call[c].origin, id |-> newest.id + 1]
<1>1. queue \in Seq(Command) /\ Len(queue) <= QueueSize /\ command \in Command
  BY DEF WorkerTypeOK, DataOK, Call, Command
<1>2. queue' = Insert(queue, command) /\ newest' = command /\ worker' = Woken
  BY DEF EnqueueAccepted
<1>3. command.origin = call[c].origin
  OBVIOUS
<1> HIDE DEF command
<1>4. Inserted(queue', queue, command)
  BY <1>1, <1>2, InsertFacts
<1>5. queue' # <<>>
  BY <1>4 DEF Inserted
<1>6. QED
  BY <1>1, <1>2, <1>3, <1>4, <1>5 DEF Inserted

(* A worker that is paced holds its command in the queue.                  *)
LEMMA PaceStep == ASSUME WorkerInv, [Next]_vars PROVE PaceInv'
<1> USE DEF PaceInv
<1>0. WorkerTypeOK /\ PlacesInv /\ PaceInv
  BY DEF WorkerInv
<1>1. CASE ApiCall
  BY <1>0, <1>1 DEF ApiCall, Start, Stop, StopInactive, vars
<1>2. CASE ApiStep
  <2>1. CASE StartOpen \/ StartRun \/ StopRelease \/ (api = "stop" /\ Stop)
    BY <1>0, <2>1 DEF StartOpen, StartRun, StopRelease, Stop
  <2>2. CASE StartSpawn
    <3>1. [NoWorker EXCEPT !.at = "loop"].at = "loop"
      BY DEF NoWorker
    <3>2. QED
      BY <1>0, <2>2, <3>1 DEF StartSpawn
  <2>3. CASE StopNotify
    BY <1>0, <2>3, WokenFacts DEF StopNotify
  <2>4. CASE StopJoin
    BY <1>0, <2>4, ConstantCommands DEF StopJoin
  <2>5. CASE StopClear
    BY <1>0, <2>5 DEF StopClear, PlacesInv, Exists
  <2>6. QED
    BY <1>2, <2>1, <2>2, <2>3, <2>4, <2>5 DEF ApiStep
<1>3. CASE Prepare
  BY <1>0, <1>3 DEF Prepare, StartPrepare, PlacesInv, Exists
<1>4. CASE WorkerStep
  <2>1. worker \in [at : Points, command : Command]
    BY <1>0 DEF WorkerTypeOK, DataOK
  <2>2. QED
    BY <1>0, <1>4, <2>1 DEF WorkerStep, WorkerLoop, WorkerEnds, WorkerTakesStop,
       WorkerHoldsMove, WorkerFindsNothing, WorkerSleeps, WorkerPaced, WorkerPacedEnds,
       WorkerExecutes, WorkerAccounts, WorkerAt, GoOn, Pop
<1>5. CASE SpuriousWake \/ NextAllowedReached \/ OverrideEnds
  BY <1>0, <1>5, WokenFacts DEF SpuriousWake, NextAllowedReached, OverrideEnds
<1>6. ASSUME NEW c \in Callers, EnqueueAccepted(c) PROVE PaceInv'
  BY <1>0, <1>6, AcceptedFacts
<1>7. ASSUME NEW c \in Callers, NEW origin, NEW type,
             EnqueueRefused(c) \/ EnqueueCall(c, origin, type)
      PROVE  PaceInv'
  BY <1>0, <1>7 DEF EnqueueRefused, EnqueueCall
<1>8. CASE UNCHANGED vars
  BY <1>0, <1>8 DEF vars
<1>9. QED
  BY <1>1, <1>2, <1>3, <1>4, <1>5, <1>6, <1>7, <1>8 DEF Next, EnqueueStep

(* The last command asked for stays behind all others, in the queue, then  *)
(* in the worker's hand, then as the last one sent.                        *)
LEMMA LastAskedStep == ASSUME WorkerInv, [Next]_vars PROVE LastAskedInv'
<1> USE DEF LastAskedInv, InHand
<1>0. WorkerTypeOK /\ PlacesInv /\ PaceInv /\ LastAskedInv
  BY DEF WorkerInv
<1>1. CASE ApiCall
  BY <1>0, <1>1 DEF ApiCall, Start, Stop, StopInactive, vars, history, PlacesInv
<1>2. CASE ApiStep
  <2>1. CASE StartOpen \/ StartRun \/ StopClear \/ StopRelease \/ (api = "stop" /\ Stop)
    BY <1>0, <2>1 DEF StartOpen, StartRun, StopClear, StopRelease, Stop, settings, history,
                      PlacesInv, Exists
  <2>2. CASE StartSpawn
    <3>1. [NoWorker EXCEPT !.at = "loop"].at = "loop"
      BY DEF NoWorker
    <3>2. QED
      BY <1>0, <2>2, <3>1 DEF StartSpawn, history, PlacesInv, Exists
  <2>3. CASE StopNotify \/ StopJoin
    BY <1>0, <2>3 DEF StopNotify, StopJoin, PlacesInv
  <2>4. QED
    BY <1>2, <2>1, <2>2, <2>3 DEF ApiStep
<1>3. CASE Prepare
  BY <1>0, <1>3 DEF Prepare, StartPrepare, PlacesInv, Exists
<1>4. CASE WorkerStep
  <2>1. worker \in [at : Points, command : Command]
    BY <1>0 DEF WorkerTypeOK, DataOK
  <2>2. UNCHANGED <<running, api, newest>>
    BY <1>0, <1>4, WorkerFootprint
  <2>3. CASE \/ WorkerLoop \/ WorkerEnds \/ WorkerHoldsMove \/ WorkerFindsNothing
             \/ WorkerSleeps \/ WorkerPacedEnds
    BY <1>0, <2>1, <2>2, <2>3 DEF WorkerLoop, WorkerEnds, WorkerHoldsMove,
       WorkerFindsNothing, WorkerSleeps, WorkerPacedEnds, WorkerAt, GoOn
  <2>4. ASSUME queue # <<>>, Pop PROVE LastAskedInv'
    <3>1. queue \in Seq(Command) /\ Len(queue) \in Nat /\ Len(queue) >= 1
      BY <1>0, <2>4 DEF WorkerTypeOK, DataOK
    <3>2. worker' = [at |-> "execute", command |-> queue[1]] /\ queue' = Tail(queue)
      BY <1>0, <2>4, PopFacts DEF Pop
    <3>3. CASE Len(queue) = 1
      BY <1>0, <2>2, <2>4, <3>2, <3>3, PopFacts
    <3>4. CASE Len(queue) > 1
      <4>1. /\ queue' # <<>> /\ Len(queue') = Len(queue) - 1
            /\ \A i \in 1..Len(queue') : queue'[i] = queue[i + 1]
        BY <1>0, <2>4, <3>2, <3>4, PopFacts
      <4>2. queue'[Len(queue')] = queue[Len(queue)]
        <5>1. Len(queue') \in 1..Len(queue')
          BY <3>1, <3>4, <4>1
        <5>2. QED
          BY <3>1, <4>1, <5>1
      <4>3. running \/ api = "run" => newest = queue[Len(queue)]
        BY <1>0, <2>4
      <4>4. running' \/ api' = "run" => newest' = queue'[Len(queue')]
        BY <2>2, <4>2, <4>3
      <4>5. QED
        BY <4>1, <4>4
    <3> DEFINE n == Len(queue)
    <3>5. n \in Nat /\ n >= 1
      BY <3>1
    <3> HIDE DEF n
    <3>6. n = 1 \/ n > 1
      BY <3>5
    <3>7. QED
      BY <3>3, <3>4, <3>6 DEF n
  <2>5. CASE WorkerExecutes
    BY <1>0, <2>1, <2>2, <2>5 DEF WorkerExecutes, WorkerAt, GoOn
  <2>6. CASE WorkerAccounts
    BY <1>0, <2>2, <2>6 DEF WorkerAccounts, WorkerAt
  <2>7. QED
    BY <1>0, <1>4, <2>3, <2>4, <2>5, <2>6
       DEF WorkerStep, WorkerTakesStop, WorkerPaced, PaceInv, WorkerAt
<1>5. CASE SpuriousWake \/ NextAllowedReached \/ OverrideEnds
  BY <1>0, <1>5, WokenFacts DEF SpuriousWake, NextAllowedReached, OverrideEnds, history
<1>6. ASSUME NEW c \in Callers, EnqueueAccepted(c) PROVE LastAskedInv'
  BY <1>0, <1>6, AcceptedFacts
<1>7. ASSUME NEW c \in Callers, NEW origin, NEW type,
             EnqueueRefused(c) \/ EnqueueCall(c, origin, type)
      PROVE  LastAskedInv'
  BY <1>0, <1>7 DEF EnqueueRefused, EnqueueCall, history
<1>8. CASE UNCHANGED vars
  BY <1>0, <1>8 DEF vars, history
<1>9. QED
  BY <1>1, <1>2, <1>3, <1>4, <1>5, <1>6, <1>7, <1>8 DEF Next, EnqueueStep
-----------------------------------------------------------------------------
(* The steps that leave the queue and what is left of it.                  *)
QueueKept == UNCHANGED queue \/ queue' = <<>> \/ (queue # <<>> /\ queue' = Tail(queue))

(* A step takes from the front of the queue, empties it, or enqueues.      *)
LEMMA QueueSteps ==
  ASSUME WorkerInv, [Next]_vars
  PROVE  QueueKept \/ \E c \in Callers : EnqueueAccepted(c)
<1> USE DEF QueueKept, settings, history
<1>1. CASE ApiCall
  BY <1>1 DEF ApiCall, Start, Stop, StopInactive, vars
<1>2. CASE ApiStep
  BY <1>2 DEF ApiStep, StartOpen, StartRun, StartSpawn, StopNotify, StopJoin, StopRelease,
              StopClear, Stop
<1>3. CASE Prepare
  BY <1>3 DEF Prepare, StartPrepare
<1>4. CASE WorkerStep
  BY <1>4 DEF WorkerInv, PaceInv, WorkerStep, WorkerLoop, WorkerEnds, WorkerTakesStop,
              WorkerHoldsMove, WorkerFindsNothing, WorkerSleeps, WorkerPaced, WorkerPacedEnds,
              WorkerExecutes, WorkerAccounts, WorkerAt, Pop
<1>5. CASE SpuriousWake \/ NextAllowedReached \/ OverrideEnds
  BY <1>5 DEF SpuriousWake, NextAllowedReached, OverrideEnds
<1>6. ASSUME NEW c \in Callers, NEW origin, NEW type,
             EnqueueRefused(c) \/ EnqueueCall(c, origin, type)
      PROVE  UNCHANGED queue
  BY <1>6 DEF EnqueueRefused, EnqueueCall
<1>7. CASE UNCHANGED vars
  BY <1>7 DEF vars
<1>8. QED
  BY <1>1, <1>2, <1>3, <1>4, <1>5, <1>6, <1>7 DEF Next, EnqueueStep

(* What is left of the queue are commands that were in it.                 *)
LEMMA KeptFromQueue ==
  ASSUME WorkerTypeOK, QueueKept, NEW i \in DOMAIN queue'
  PROVE  \E j \in DOMAIN queue : j >= i /\ queue'[i] = queue[j]
<1>1. queue \in Seq(Command) /\ Len(queue) \in Nat
  BY DEF WorkerTypeOK, DataOK
<1>2. CASE UNCHANGED queue
  BY <1>1, <1>2
<1>3. CASE queue' = <<>>
  BY <1>3
<1>4. CASE queue # <<>> /\ queue' = Tail(queue)
  <2>1. i \in 1..(Len(queue) - 1) /\ queue'[i] = queue[i + 1]
    BY <1>4, PopFacts
  <2>2. i + 1 \in DOMAIN queue
    BY <1>1, <2>1
  <2>3. QED
    BY <2>1, <2>2
<1>5. QED
  BY <1>2, <1>3, <1>4 DEF QueueKept

(* A Stop clears the queue and goes in front; nothing comes before it.     *)
LEMMA StopFirstStep == ASSUME WorkerInv, [Next]_vars PROVE StopGoesFirst'
<1> USE DEF StopGoesFirst
<1>0. WorkerTypeOK /\ StopGoesFirst /\ queue \in Seq(Command)
  BY DEF WorkerInv, WorkerTypeOK, DataOK
<1>1. SUFFICES ASSUME NEW i \in DOMAIN queue', queue'[i].type = "Stop" PROVE i = 1
  OBVIOUS
<1>2. queue' \in Seq(Command) /\ i \in Nat /\ i >= 1 /\ i \in 1..Len(queue')
  BY TypeStep DEF WorkerInv, WorkerTypeOK, DataOK
<1>3. CASE QueueKept
  <2>1. PICK j \in DOMAIN queue : j >= i /\ queue'[i] = queue[j]
    BY <1>0, <1>3, KeptFromQueue
  <2>2. QED
    BY <1>0, <1>1, <1>2, <2>1
<1>4. ASSUME NEW c \in Callers, EnqueueAccepted(c) PROVE i = 1
  <2>1. Inserted(queue', queue, newest') /\ newest' \in Command
    BY <1>0, <1>4, AcceptedFacts
  <2>2. CASE i = Len(queue')
    BY <1>1, <2>1, <2>2 DEF Inserted
  <2>3. CASE i # Len(queue')
    <3>1. i \in 1..(Len(queue') - 1)
      BY <1>2, <2>3
    <3>2. PICK j \in i..Len(queue) : queue'[i] = queue[j]
      BY <2>1, <3>1 DEF Inserted
    <3>3. j \in DOMAIN queue
      BY <1>0, <1>2, <3>2
    <3>4. QED
      BY <1>0, <1>1, <1>2, <3>2, <3>3
  <2>4. QED
    BY <2>2, <2>3
<1>5. QED
  BY <1>3, <1>4, QueueSteps

(* How an override comes into force, and what a call makes of it.          *)
LEMMA OverrideStep == ASSUME WorkerInv, [Next]_vars PROVE OverrideInv'
<1> USE DEF OverrideInv
<1>0. WorkerTypeOK /\ OverrideInv /\ call \in [Callers -> Call]
  BY DEF WorkerInv, WorkerTypeOK, DataOK
<1>1. CASE ApiCall
  BY <1>0, <1>1 DEF ApiCall, Start, Stop, StopInactive, vars, settings
<1>2. CASE ApiStep
  BY <1>0, <1>2 DEF ApiStep, StartOpen, StartRun, StartSpawn, StopNotify, StopJoin,
                    StopRelease, StopClear, Stop, settings
<1>3. CASE Prepare
  BY <1>3 DEF Prepare, StartPrepare
<1>4. CASE WorkerStep
  BY <1>0, <1>4, WorkerFootprint
<1>5. CASE SpuriousWake \/ NextAllowedReached \/ OverrideEnds
  BY <1>0, <1>5 DEF SpuriousWake, NextAllowedReached, OverrideEnds, settings
<1>6. ASSUME NEW c \in Callers, EnqueueRefused(c) PROVE OverrideInv'
  BY <1>0, <1>6, ConstantCommands DEF EnqueueRefused, settings
<1>7. ASSUME NEW c \in Callers, EnqueueAccepted(c) PROVE OverrideInv'
  <2>1. SUFFICES ASSUME overriding', NEW d \in Callers PROVE ~call'[d].late
    OBVIOUS
  <2>2. overriding' = overriding \/ call[c].origin = "manual"
    BY <1>7 DEF EnqueueAccepted
  <2>3. call'[d] = IF d = c THEN NoCall
                   ELSE [call[d] EXCEPT !.late = @ /\ ~(call[c].origin = "manual" /\ overriding')]
    BY <1>7 DEF EnqueueAccepted
  <2>4. call[d] \in Call
    BY <1>0
  <2>5. QED
    BY <1>0, <2>1, <2>2, <2>3, <2>4, ConstantCommands DEF Call
<1>8. ASSUME NEW c \in Callers, NEW origin \in {"automatic", "manual"},
             NEW type \in {"Move", "Stop"}, EnqueueCall(c, origin, type)
      PROVE  OverrideInv'
  BY <1>0, <1>8 DEF EnqueueCall, settings
<1>9. CASE UNCHANGED vars
  BY <1>0, <1>9 DEF vars, settings
<1>10. QED
  BY <1>1, <1>2, <1>3, <1>4, <1>5, <1>6, <1>7, <1>8, <1>9 DEF Next, EnqueueStep

(* While an override is in force no automatic command gets in or stays.    *)
LEMMA ManualStep == ASSUME WorkerInv, [Next]_vars PROVE ManualHolds'
<1> USE DEF ManualHolds
<1>0. /\ WorkerTypeOK /\ ManualHolds /\ OverrideInv
      /\ queue \in Seq(Command) /\ Len(queue) \in Nat
  BY DEF WorkerInv, WorkerTypeOK, DataOK
<1>1. SUFFICES ASSUME overriding', NEW i \in DOMAIN queue' PROVE queue'[i].origin = "manual"
  OBVIOUS
<1>2. queue' \in Seq(Command) /\ i \in Nat /\ i >= 1 /\ i \in 1..Len(queue')
  BY TypeStep DEF WorkerInv, WorkerTypeOK, DataOK
<1>3. ASSUME NEW c \in Callers, EnqueueAccepted(c) PROVE queue'[i].origin = "manual"
  <2>1. Inserted(queue', queue, newest') /\ newest'.origin = call[c].origin
    BY <1>0, <1>3, AcceptedFacts
  <2>2. call[c].origin = "manual"
    <3>1. SUFFICES ASSUME call[c].origin # "manual" PROVE FALSE
      OBVIOUS
    <3>2. overriding /\ call[c].late
      BY <1>1, <1>3, <3>1 DEF EnqueueAccepted
    <3>3. QED
      BY <1>0, <3>2 DEF OverrideInv
  <2>3. CASE i = Len(queue')
    BY <2>1, <2>2, <2>3 DEF Inserted
  <2>4. CASE i # Len(queue')
    <3>1. i \in 1..(Len(queue') - 1)
      BY <1>2, <2>4
    <3>2. QED
      BY <2>1, <2>2, <3>1 DEF Inserted
  <2>5. QED
    BY <2>3, <2>4
<1>4. CASE QueueKept /\ overriding
  BY <1>0, <1>4, KeptFromQueue
<1>5. ASSUME ~overriding, \A c \in Callers : ~EnqueueAccepted(c) PROVE FALSE
  <2>1. ~overriding /\ overriding'
    BY <1>1, <1>5
  <2>2. ~WorkerStep
    BY <1>0, <2>1, WorkerFootprint
  <2>3. ~ApiCall /\ ~ApiStep /\ ~Prepare
    BY <2>1 DEF ApiCall, ApiStep, Prepare, Start, StartOpen, StartPrepare, StartRun,
                StartSpawn, StopNotify, StopJoin, StopRelease, StopClear, Stop, StopInactive,
                vars, settings
  <2>4. ~SpuriousWake /\ ~NextAllowedReached /\ ~OverrideEnds /\ ~UNCHANGED vars
    BY <2>1 DEF SpuriousWake, NextAllowedReached, OverrideEnds, vars, settings
  <2>5. ASSUME NEW c \in Callers, NEW origin, NEW type
        PROVE  ~EnqueueRefused(c) /\ ~EnqueueCall(c, origin, type)
    BY <2>1 DEF EnqueueRefused, EnqueueCall, settings
  <2>6. QED
    BY <1>5, <2>2, <2>3, <2>4, <2>5 DEF Next, EnqueueStep
<1>6. QED
  BY <1>3, <1>4, <1>5, QueueSteps
-----------------------------------------------------------------------------
(* WorkerInv holds initially and every step preserves it.                  *)
LEMMA WorkerInvInit == Init => WorkerInv
<1>1. SUFFICES ASSUME Init PROVE WorkerInv
  OBVIOUS
<1>2. WorkerTypeOK
  BY <1>1, TypeInit
<1>3. /\ ~running /\ ~overriding /\ ~ready /\ api = "idle" /\ queue = <<>>
      /\ worker.at = "none" /\ attempted.type = "none"
  BY <1>1, ConstantCommands DEF Init
<1>4. QED
  BY <1>2, <1>3 DEF WorkerInv, PlacesInv, AdapterInv, LastAskedInv, PaceInv, OverrideInv,
                    ManualHolds, StopGoesFirst, Exists

(* Every step keeps the invariant, conjunct by conjunct.                   *)
LEMMA WorkerInvStep == ASSUME WorkerInv, [Next]_vars PROVE WorkerInv'
<1>1. WorkerTypeOK'
  BY TypeStep DEF WorkerInv
<1>2. QED
  BY <1>1, PlacesStep, AdapterStep, LastAskedStep, PaceStep, OverrideStep, ManualStep,
     StopFirstStep DEF WorkerInv

(* The invariant of the worker holds in every reachable state: types, what *)
(* is in the queue and in hand, and what is remembered of stops and        *)
(* overrides.                                                              *)
THEOREM WorkerInvariant == Spec => []WorkerInv
<1>1. QED
  BY WorkerInvInit, WorkerInvStep, PTL DEF Spec

(* Type correctness: the queue keeps its size, its threads and its client  *)
(* are at known points of start, stop, enqueue and run.                    *)
THEOREM TypeCorrect == Spec => []WorkerTypeOK
<1>1. WorkerInv => WorkerTypeOK
  BY DEF WorkerInv
<1>2. QED
  BY <1>1, WorkerInvariant, PTL

(* However starts, stops and commands interleave, a camera whose adapter   *)
(* is closed was told to stop last, and no command is executed on a closed *)
(* adapter (stop(), CameraControlWorker.cpp:49-56).                        *)
THEOREM ClosedCamerasStand == Spec => []StoppedLast
<1>1. WorkerInv => StoppedLast
  <2>1. SUFFICES ASSUME WorkerInv PROVE StoppedLast
    OBVIOUS
  <2>2. InHand => ready
    BY <2>1 DEF WorkerInv, AdapterInv, Exists, InHand
  <2>3. ~ready => attempted.type \in {"none", "Stop"}
    BY <2>1 DEF WorkerInv, AdapterInv
  <2>4. QED
    BY <2>2, <2>3 DEF StoppedLast
<1>2. QED
  BY <1>1, WorkerInvariant, PTL

(* While a manual override is in force only manual commands wait, whatever *)
(* calls read the clock before it began (enqueue(), lines 69-77).          *)
THEOREM OverrideExcludesAutomatic == Spec => []ManualHolds
<1>1. WorkerInv => ManualHolds
  BY DEF WorkerInv
<1>2. QED
  BY <1>1, WorkerInvariant, PTL

(* Nothing waits in front of a Stop (enqueue(), lines 78-82).              *)
THEOREM StopsComeFirst == Spec => []StopGoesFirst
<1>1. WorkerInv => StopGoesFirst
  BY DEF WorkerInv
<1>2. QED
  BY <1>1, WorkerInvariant, PTL

(* A running worker with nothing left to do has sent the command that was  *)
(* accepted last, whatever it replaced or dropped (lines 72-93).           *)
THEOREM NewestIsSentLast == Spec => []SettlesOnNewest
<1>1. WorkerInv => SettlesOnNewest
  BY DEF WorkerInv, LastAskedInv, SettlesOnNewest
<1>2. QED
  BY <1>1, WorkerInvariant, PTL

(* A worker that waited for its time takes a command that is there: no     *)
(* enqueue, override or stop empties the queue under it (run(), lines      *)
(* 119-127).                                                               *)
THEOREM PacedWorkerFindsCommand == Spec => []PaceFindsCommand
<1>1. WorkerInv => PaceFindsCommand
  BY DEF WorkerInv, PaceInv, PaceFindsCommand, WorkerAt
<1>2. QED
  BY <1>1, WorkerInvariant, PTL
-----------------------------------------------------------------------------
(* The life of the worker, as the session sees it.                         *)

(* The client creates the thread and joins it.                             *)
LEMMA LifeClient ==
  ASSUME WorkerInv, ApiStep \/ ApiCall \/ Prepare
  PROVE  [Life!Next]_ControlStatus
<1> USE DEF Life!Next, Life!Starts, Life!Stops, ControlStatus
<1>1. WorkerTypeOK /\ PlacesInv /\ worker \in [at : Points, command : Command]
  BY DEF WorkerInv, WorkerTypeOK, DataOK
<1>2. CASE Start \/ Stop \/ StopInactive
  BY <1>1, <1>2 DEF Start, Stop, StopInactive, Joinable, vars
<1>3. CASE StartOpen \/ StartPrepare \/ StartRun
  BY <1>1, <1>3 DEF StartOpen, StartPrepare, StartRun
<1>4. CASE StartSpawn
  BY <1>1, <1>4 DEF StartSpawn, NoWorker, PlacesInv, Exists
<1>5. CASE StopNotify
  BY <1>1, <1>5, WokenFacts DEF StopNotify
<1>6. CASE StopJoin
  BY <1>6 DEF StopJoin, NoWorker
<1>7. CASE StopRelease \/ StopClear
  BY <1>1, <1>7 DEF StopRelease, StopClear
<1>8. QED
  BY <1>2, <1>3, <1>4, <1>5, <1>6, <1>7 DEF ApiStep, ApiCall, Prepare

(* The thread may fall asleep after the notification; a command or a       *)
(* spurious wake-up lets it see that it is to end.                         *)
LEMMA LifeThread ==
  ASSUME WorkerInv, WorkerStep \/ SpuriousWake \/ \E c \in Callers : EnqueueStep(c)
  PROVE  [Life!Next]_ControlStatus
<1> USE DEF Life!Next, Life!Misses, Life!Wakes, ControlStatus
<1>1. WorkerTypeOK /\ worker \in [at : Points, command : Command]
  BY DEF WorkerInv, WorkerTypeOK, DataOK
<1>2. CASE WorkerStep
  <2>1. api' = api /\ worker.at \notin {"none", "asleep"} /\ worker'.at # "none"
    BY <1>1, <1>2 DEF WorkerStep, WorkerLoop, WorkerEnds, WorkerTakesStop, WorkerHoldsMove,
       WorkerFindsNothing, WorkerSleeps, WorkerPaced, WorkerPacedEnds, WorkerExecutes,
       WorkerAccounts, WorkerUnchanged, WorkerAt, GoOn, Pop
  <2>2. QED
    BY <2>1
<1>3. CASE SpuriousWake
  BY <1>1, <1>3, WokenFacts DEF SpuriousWake, WorkerAt
<1>4. ASSUME NEW c \in Callers, EnqueueStep(c)
      PROVE  [Life!Next]_ControlStatus
  BY <1>1, <1>4, WokenFacts DEF EnqueueStep, EnqueueRefused, EnqueueAccepted
<1>5. QED
  BY <1>2, <1>3, <1>4

(* The worker is what a camera session takes it for: on from a start()     *)
(* until a stop() has joined its thread, and lost to a stop() it did not   *)
(* hear of until something wakes it (start, stop and run of                *)
(* CameraControlWorker.cpp).                                               *)
THEOREM WorkerImplementsLife == Spec => ImplementsControlLife
<1>1. Init => Life!Init
  BY DEF Init, Life!Init, ControlStatus, NoWorker
<1>2. WorkerInv /\ [Next]_vars => [Life!Next]_ControlStatus
  <2> SUFFICES ASSUME WorkerInv, [Next]_vars PROVE [Life!Next]_ControlStatus
    OBVIOUS
  <2>1. CASE \/ UNCHANGED vars
             \/ NextAllowedReached \/ OverrideEnds
             \/ \E c \in Callers, origin \in {"automatic", "manual"},
                   type \in {"Move", "Stop"} : EnqueueCall(c, origin, type)
    BY <2>1 DEF vars, NextAllowedReached, OverrideEnds, EnqueueCall, ControlStatus
  <2>2. CASE ApiStep \/ ApiCall \/ Prepare
    BY <2>2, LifeClient
  <2>3. CASE WorkerStep \/ SpuriousWake \/ \E c \in Callers : EnqueueStep(c)
    BY <2>3, LifeThread
  <2>4. QED
    BY <2>1, <2>2, <2>3 DEF Next
<1>3. QED
  BY <1>1, <1>2, WorkerInvariant, PTL DEF Spec, ImplementsControlLife, Life!Spec
=============================================================================
