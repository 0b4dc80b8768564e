------------------------ MODULE CameraControlWorker --------------------------
(***************************************************************************)
(* control/CameraControlWorker.cpp: the thread that sends PTZ commands to  *)
(* one camera.  Callers queue automatic commands (AutoPtzController, on    *)
(* the router's thread) and manual ones; one client starts and stops.      *)
(*                                                                         *)
(* mutex_ guards the queue; running_ is an atomic that stop() changes      *)
(* without it.  A critical section is one step, except where the worker    *)
(* looks at running_ inside one and then waits: stop() may come between.   *)
(*                                                                         *)
(* Times are abstracted: `early` holds until nextAllowed is reached,       *)
(* `overriding` until manualOverrideUntil_ is, and a call remembers in     *)
(* `late` whether the time it read was past the override.                  *)
(***************************************************************************)
EXTENDS LatestValueQueueOps

CONSTANTS Callers,      \* threads that queue commands
          QueueSize,    \* config_.queueSize
          MaxCommands,  \* bounds of the model: commands accepted,
          MaxStarts     \* calls of start

ASSUME QueueSizeAssumption == QueueSize \in Nat \ {0}
ASSUME BoundsAssumption == MaxCommands \in Nat /\ MaxStarts \in Nat

VARIABLES
  running, queue, overriding, metrics,
  ready,              \* the adapter is open
  early,              \* nextAllowed has not been reached
  api, restarting,    \* where the client is in start or stop
  worker,             \* the thread: its program point, the command in hand
  call,               \* for each caller, its enqueue
  starts,             \* history: calls of start,
  newest, attempted   \* the last command accepted and the last one executed

settings == <<overriding, metrics, ready, early>>
history  == <<starts, newest, attempted>>
vars == <<running, queue, settings, api, restarting, worker, call, history>>

NoCommand == [type |-> "none", origin |-> "none", id |-> 0]
FinalStop == [type |-> "Stop", origin |-> "none", id |-> 0]
NoWorker == [at |-> "none", command |-> NoCommand]
NoCall == [at |-> "idle", origin |-> "none", type |-> "none", late |-> FALSE]
NoMetrics == [queued |-> 0, executed |-> 0, dropped |-> 0, errors |-> 0]

Init == /\ running = FALSE /\ queue = <<>> /\ overriding = FALSE /\ metrics = NoMetrics
        /\ ready = FALSE /\ early = FALSE
        /\ api = "idle" /\ restarting = FALSE
        /\ worker = NoWorker /\ call = [c \in Callers |-> NoCall]
        /\ starts = 0 /\ newest = NoCommand /\ attempted = NoCommand

(* The worker holds mutex_ between looking at the queue and waiting.       *)
MutexFree == worker.at # "falling"

Joinable == worker.at # "none"

(* Plausible bug: nobody is notified.                                      *)
NotWoken == worker

(* The worker is told to look again, if it is waiting.                     *)
Woken == IF worker.at = "asleep" THEN [worker EXCEPT !.at = "look"] ELSE worker
-----------------------------------------------------------------------------
(* start()                                                                 *)

Start == /\ api = "idle"
         /\ starts < MaxStarts
         /\ starts' = starts + 1
         /\ api' = IF Joinable THEN "stop" ELSE "open"
         /\ restarting' = Joinable
         /\ UNCHANGED <<running, queue, settings, worker, newest, attempted>>

(* The adapter may fail to open.                                           *)
StartOpen == /\ api = "open"
             /\ \/ ready' = TRUE /\ api' = "prepare"
                \/ ready' = FALSE /\ api' = "idle"
             /\ UNCHANGED <<running, queue, overriding, metrics, early, worker, restarting,
                            history>>

(* A call that is under way finds the override over.                       *)
StartPrepare == /\ api = "prepare"
                /\ queue' = <<>> /\ metrics' = NoMetrics /\ overriding' = FALSE
                /\ newest' = NoCommand /\ attempted' = NoCommand
                /\ api' = "run"
                /\ UNCHANGED <<running, ready, early, worker, restarting, starts>>

StartRun == /\ api = "run"
            /\ running' = TRUE
            /\ api' = "spawn"
            /\ UNCHANGED <<queue, settings, worker, restarting, history>>

(* The constructor of std::thread may throw.                               *)
StartSpawn == /\ api = "spawn"
              /\ \/ /\ worker' = [NoWorker EXCEPT !.at = "loop"]
                    /\ early' = FALSE
                    /\ UNCHANGED <<running, ready>>
                 \/ /\ running' = FALSE /\ ready' = FALSE
                    /\ UNCHANGED <<worker, early>>
              /\ api' = "idle"
              /\ UNCHANGED <<queue, overriding, metrics, restarting, history>>
-----------------------------------------------------------------------------
(* stop()                                                                  *)

Stop == /\ \/ api = "idle" /\ restarting' = FALSE
           \/ api = "stop" /\ UNCHANGED restarting
        /\ running \/ Joinable
        /\ running' = FALSE
        /\ api' = "notify"
        /\ UNCHANGED <<queue, settings, worker, history>>

StopInactive == /\ api = "idle"
                /\ ~running /\ ~Joinable
                /\ UNCHANGED vars

StopNotify == /\ api = "notify"
              /\ worker' = Woken
              /\ api' = "join"
              /\ UNCHANGED <<running, queue, settings, restarting, history>>

(* Plausible bug: the thread is not waited for.                            *)
StopWithoutJoin == /\ api = "join"
                   /\ api' = "release"
                   /\ UNCHANGED <<running, queue, settings, worker, restarting, history>>

StopJoin == /\ api = "join"
            /\ worker.at = "ended"
            /\ worker' = NoWorker
            /\ api' = "release"
            /\ UNCHANGED <<running, queue, settings, restarting, history>>

(* A last Stop, then the adapter is closed.                                *)
StopRelease == /\ api = "release"
               /\ attempted' = IF ready THEN FinalStop ELSE attempted
               /\ ready' = FALSE
               /\ api' = "clear"
               /\ UNCHANGED <<running, queue, overriding, metrics, early, worker, restarting,
                              starts, newest>>

StopClear == /\ api = "clear"
             /\ queue' = <<>>
             /\ api' = IF restarting THEN "open" ELSE "idle"
             /\ restarting' = FALSE
             /\ UNCHANGED <<running, settings, worker, history>>

ApiStep == /\ \/ StartOpen \/ StartRun \/ StartSpawn \/ StopNotify \/ StopJoin
              \/ StopRelease \/ StopClear
              \/ api = "stop" /\ Stop
           /\ UNCHANGED call

Prepare == /\ StartPrepare
           /\ call' = [c \in Callers |-> [call[c] EXCEPT !.late = TRUE]]

ApiCall == \/ (Start \/ (api = "idle" /\ Stop)) /\ UNCHANGED call
           \/ StopInactive
-----------------------------------------------------------------------------
(* enqueueAutomatic and enqueueManual                                      *)

IsMove(queued) == queued.type # "Stop"

(* The queue without the commands a new one replaces: an override ends the *)
(* automatic ones, a move supersedes the waiting move of its origin.       *)
AfterOverride(q, command) ==
  IF command.origin = "manual" THEN Kept(q, {i \in DOMAIN q : q[i].origin = "manual"})
                               ELSE q
Superseded(q, command) ==
  Kept(q, {i \in DOMAIN q : q[i].origin # command.origin \/ ~IsMove(q[i])})

(* Plausible bug: a full queue refuses to make room and keeps the old.     *)
InsertIfRoom(q, command) ==
  LET kept == AfterOverride(q, command)
  IN IF ~IsMove(command) THEN <<command>>
     ELSE IF Len(Superseded(kept, command)) >= QueueSize THEN Superseded(kept, command)
     ELSE Append(Superseded(kept, command), command)

(* Plausible bug: automatic commands stay queued during the override.      *)
InsertKeepsAutomatic(q, command) ==
  IF IsMove(command) THEN PushLatest(Superseded(q, command), command, QueueSize)
                     ELSE <<command>>

(* A full queue sheds its front, as the frame queue does.                  *)
Insert(q, command) ==
  LET kept == AfterOverride(q, command)
  IN IF IsMove(command) THEN PushLatest(Superseded(kept, command), command, QueueSize)
                        ELSE <<command>>

(* What commandsDropped_ counts: everything replaced but what the override *)
(* removed.                                                                *)
Replaced(q, command) == Len(AfterOverride(q, command)) + 1 - Len(Insert(q, command))

(* running_ and the clock are read before the mutex is taken.              *)
EnqueueCall(c, origin, type) ==
  /\ call[c].at = "idle"
  /\ running
  /\ metrics.queued < MaxCommands
  /\ call' = [call EXCEPT ![c] = [at |-> "enqueue", origin |-> origin, type |-> type,
                                  late |-> ~overriding]]
  /\ UNCHANGED <<running, queue, settings, api, restarting, worker, history>>

(* The time was read before the override ended.                            *)
EnqueueRefused(c) ==
  /\ call[c].at = "enqueue" /\ MutexFree
  /\ call[c].origin = "automatic" /\ ~call[c].late
  /\ call' = [call EXCEPT ![c] = NoCall]
  /\ UNCHANGED <<running, queue, settings, api, restarting, worker, history>>

(* A manual command puts an override in force, and no call that has        *)
(* already read the clock will find it over; unless so much time went by   *)
(* since this call read it that the override is over at once.              *)
EnqueueAccepted(c) ==
  LET command == [type |-> call[c].type, origin |-> call[c].origin, id |-> newest.id + 1]
      manual == command.origin = "manual"
  IN /\ call[c].at = "enqueue" /\ MutexFree
     /\ call[c].origin = "manual" \/ call[c].late
     /\ queue' = Insert(queue, command)
     /\ metrics' = [metrics EXCEPT !.queued = @ + 1, !.dropped = @ + Replaced(queue, command)]
     /\ newest' = command
     /\ worker' = Woken
     /\ overriding' \in IF manual THEN BOOLEAN ELSE {overriding}
     /\ call' = [d \in Callers |->
                   IF d = c THEN NoCall
                   ELSE [call[d] EXCEPT !.late = @ /\ ~(manual /\ overriding')]]
     /\ UNCHANGED <<running, ready, early, api, restarting, starts, attempted>>
-----------------------------------------------------------------------------
(* run()                                                                   *)

WorkerAt(point) == worker.at = point
GoOn(point) == worker' = [worker EXCEPT !.at = point]

WorkerLoop == /\ WorkerAt("loop")
              /\ GoOn(IF running THEN "look" ELSE "ended")
              /\ UNCHANGED <<queue, metrics, early, attempted>>

Pop == /\ worker' = [at |-> "execute", command |-> Head(queue)]
       /\ queue' = Tail(queue)
       /\ UNCHANGED <<metrics, early, attempted>>

(* The predicate of the first wait.                                        *)
WorkerEnds == /\ WorkerAt("look")
              /\ ~running
              /\ GoOn("ended")
              /\ UNCHANGED <<queue, metrics, early, attempted>>

WorkerTakesStop == /\ WorkerAt("look")
                   /\ running /\ queue # <<>> /\ ~IsMove(Head(queue))
                   /\ Pop

WorkerHoldsMove == /\ WorkerAt("look")
                   /\ running /\ queue # <<>> /\ IsMove(Head(queue))
                   /\ GoOn("pace")
                   /\ UNCHANGED <<queue, metrics, early, attempted>>

WorkerFindsNothing == /\ WorkerAt("look")
                      /\ running /\ queue = <<>>
                      /\ GoOn("falling")
                      /\ UNCHANGED <<queue, metrics, early, attempted>>

(* The wait gives up the mutex.                                            *)
WorkerSleeps == /\ WorkerAt("falling")
                /\ GoOn("asleep")
                /\ UNCHANGED <<queue, metrics, early, attempted>>

(* wait_until(nextAllowed) ends when the time is reached or a Stop is in   *)
(* front; what is in front by then is taken.                               *)
WorkerPaced == /\ WorkerAt("pace")
               /\ running
               /\ ~early \/ ~IsMove(Head(queue))
               /\ Pop

WorkerPacedEnds == /\ WorkerAt("pace")
                   /\ ~running
                   /\ GoOn("ended")
                   /\ UNCHANGED <<queue, metrics, early, attempted>>

(* Outside the mutex, and it may fail.                                     *)
WorkerExecutes == /\ WorkerAt("execute")
                  /\ attempted' = worker.command
                  /\ GoOn("account")
                  /\ UNCHANGED <<queue, metrics, early>>

WorkerAccounts == /\ WorkerAt("account")
                  /\ \/ metrics' = [metrics EXCEPT !.executed = @ + 1]
                     \/ metrics' = [metrics EXCEPT !.errors = @ + 1]
                  /\ worker' = [at |-> "loop", command |-> NoCommand]
                  /\ early' = TRUE
                  /\ UNCHANGED <<queue, attempted>>

WorkerUnchanged == UNCHANGED <<running, overriding, ready, api, restarting, call, starts, newest>>

WorkerStep == /\ \/ WorkerLoop \/ WorkerEnds \/ WorkerTakesStop \/ WorkerHoldsMove
                 \/ WorkerFindsNothing \/ WorkerSleeps \/ WorkerPaced \/ WorkerPacedEnds
                 \/ WorkerExecutes \/ WorkerAccounts
              /\ WorkerUnchanged

(* A condition variable may wake its waiter for no reason.                 *)
SpuriousWake == /\ WorkerAt("asleep")
                /\ worker' = Woken
                /\ UNCHANGED <<running, queue, settings, api, restarting, call, history>>

NextAllowedReached == /\ early
                      /\ early' = FALSE
                      /\ UNCHANGED <<running, queue, overriding, metrics, ready, api,
                                     restarting, worker, call, history>>

OverrideEnds == /\ overriding
                /\ overriding' = FALSE
                /\ UNCHANGED <<running, queue, metrics, ready, early, api, restarting, worker,
                               call, history>>
-----------------------------------------------------------------------------
EnqueueStep(c) == EnqueueRefused(c) \/ EnqueueAccepted(c)

Next == \/ ApiCall \/ ApiStep \/ Prepare \/ WorkerStep
        \/ SpuriousWake \/ NextAllowedReached \/ OverrideEnds
        \/ \E c \in Callers :
             \/ EnqueueStep(c)
             \/ \E origin \in {"automatic", "manual"}, type \in {"Move", "Stop"} :
                  EnqueueCall(c, origin, type)

Spec == Init /\ [][Next]_vars

(* The threads run and time passes; nobody has to call anything, and no    *)
(* wake-up comes that nobody sent.                                         *)
FairSpec == /\ Spec
            /\ WF_vars(ApiStep \/ Prepare) /\ WF_vars(WorkerStep)
            /\ WF_vars(NextAllowedReached)
            /\ \A c \in Callers : WF_vars(EnqueueStep(c))
-----------------------------------------------------------------------------
InHand == worker.at = "execute"

(* A closed camera was told to stop last, and a closed adapter is not      *)
(* used: no move is sent after the final Stop (architecture.md:24).        *)
StoppedLast == /\ ~ready => attempted.type \in {"none", "Stop"}
               /\ InHand => ready

(* No automatic command waits while a manual one is in force, so none is   *)
(* taken (configuration.md:52).                                            *)
ManualHolds == overriding => \A i \in DOMAIN queue : queue[i].origin = "manual"

(* Whatever was replaced or dropped on the way, the camera has been told   *)
(* last what was asked last once nothing is waiting.                       *)
SettlesOnNewest == running /\ queue = <<>> /\ ~InHand => attempted = newest

(* The worker that waits for its time has given up the mutex.  Whatever    *)
(* the callers replace, the override removes and a full queue sheds        *)
(* meanwhile, there is a command in front when it takes one without        *)
(* looking again.                                                          *)
PaceFindsCommand == WorkerAt("pace") => queue # <<>>

(* A running worker comes to send what was asked last, unless it is        *)
(* stopped: no enqueue leaves it waiting.                                  *)
NewestIsSent == running /\ queue # <<>> ~> ~running \/ attempted = newest

(* To its session the worker is on or off, or lost while a stop() waits    *)
(* for a thread that has gone to sleep after the notification.             *)
ControlStatus == IF worker.at = "none" THEN "off"
                 ELSE IF api = "join" /\ worker.at = "asleep" THEN "lost" ELSE "on"
Life == INSTANCE ControlLife WITH status <- ControlStatus
ImplementsControlLife == Life!Spec

(* start() and stop() return.                                              *)
ApiReturns == []<>(api = "idle")
=============================================================================
