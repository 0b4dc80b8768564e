----------------------------- MODULE EdgeService ------------------------------
(***************************************************************************)
(* application/EdgeMonitoringService.cpp with the CameraManager it owns,   *)
(* the life cycle of its ResultRouter and the loop of apps/edge/main.cpp.  *)
(* The main thread starts and stops the service while operators add,       *)
(* remove, stop and restart cameras.  Every access to sessions_ (under its *)
(* mutex) and to running_ is a step of its own, and so is every call into  *)
(* a session, the scheduler, a sink or a thread.                           *)
(*                                                                         *)
(* A session is an object, IdOf its camera's id: an id may be removed and  *)
(* added again.  The object is destroyed, and stopped by its destructor,   *)
(* when nobody holds it any more; the scheduler holds it weakly.  Inside,  *)
(* a session is what CameraSession models: here it is stopped, running or  *)
(* ended by itself, and two calls of one session follow one another.       *)
(***************************************************************************)
EXTENDS Naturals, Sequences

CONSTANTS Sessions, IdOf, Configured, Operators, Sinks, ResultCapacity, MaxStarts,
          MaxCalls, NoSession, NoId

ASSUME EdgeAssumption == /\ Configured \subseteq Sessions
                         /\ ResultCapacity \in Nat \ {0} /\ MaxStarts \in Nat /\ MaxCalls \in Nat
                         /\ NoSession \notin Sessions
                         /\ \A s \in Sessions : IdOf[s] # NoId

VARIABLES
  failFast,                \* of the configuration
  running,                 \* running_ of the service
  registered,              \* sessions_
  scheduled,               \* the scheduler's cameras
  session,                 \* session[s]: "none" before and after the object's life
  sink,                    \* sink[k]: "absent", "stopped" or "started"
  router, packets, delivering,  \* its state, its queue, the packet in hand
  inference, inferring,    \* its state, the frame in the worker's hand
  main,                    \* where the main thread is, its snapshots, what is left to do
  operator,                \* where each operator's call is, its camera id and session
  starts, calls,           \* bounded by MaxStarts and MaxCalls
  late,                    \* history: sessions started in a service that was not running
  excused                  \* history: sessions that need not run

objects == <<registered, scheduled, session, late, excused>>
pipes   == <<sink, router, packets, delivering, inference, inferring>>
clients == <<failFast, running, main, operator, starts, calls>>
vars    == <<objects, pipes, clients>>

Idle == [at |-> "idle", todo |-> {}, held |-> {}, any |-> FALSE]
OperatorIdle == [at |-> "idle", id |-> NoId, session |-> NoSession]

Init == /\ failFast \in BOOLEAN
        /\ running = FALSE
        /\ registered = {} /\ scheduled = {}
        /\ session = [s \in Sessions |-> "none"]
        /\ sink = [k \in Sinks |-> "absent"]
        /\ router = "stopped" /\ packets = <<>> /\ delivering = NoSession
        /\ inference = "stopped" /\ inferring = NoSession
        /\ \E enabled \in SUBSET Configured :
             main = [Idle EXCEPT !.at = "configure", !.todo = enabled]
        /\ operator = [o \in Operators |-> OperatorIdle]
        /\ starts = 0 /\ calls = 0 /\ late = {} /\ excused = {}
-----------------------------------------------------------------------------
(* The holders of a session.                                               *)
Held(s) == \/ s \in registered \cup main.held \cup {inferring, delivering}
           \/ \E o \in Operators : operator[o].session = s
           \/ \E i \in DOMAIN packets : packets[i] = s

Becomes(after, cameras, outside, alive) ==
  /\ session' = [s \in Sessions |-> IF s \in alive THEN after[s] ELSE "none"]
  /\ scheduled' = cameras \cap alive
  /\ late' = {s \in outside \cap alive : after[s] = "running"}

(* Plausible bug: a session that nobody holds any more is left running.    *)
SessionsLeak(after, cameras, outside) ==
  Becomes(after, cameras, outside, {s \in Sessions : after[s] # "none"})

(* ~CameraSession stops the session.  Conjoined after what it looks at.    *)
SessionsBecome(after, cameras, outside) ==
  Becomes(after, cameras, outside, {s \in Sessions : Held(s)'})

Set(s, now)  == [session EXCEPT ![s] = now]
Settle       == SessionsBecome(session, scheduled, late)
Found(id)    == {s \in registered : IdOf[s] = id}
Register(s)  == registered' = IF Found(IdOf[s]) = {} THEN registered \cup {s} ELSE registered

(* What a step of the main thread leaves alone.                            *)
otherClients == <<failFast, operator, starts, calls>>
MainAt(point) == main.at = point
Goto(point)   == main' = [main EXCEPT !.at = point]
Returns       == main' = Idle
Done(s)       == main' = [main EXCEPT !.todo = @ \ {s}]
Moves         == UNCHANGED <<otherClients, running, registered, excused, pipes>> /\ Settle
OnPipes       == UNCHANGED <<otherClients, running, objects>>
Sessionwise(s, now, excuses, outside) ==
  /\ excused' = excuses
  /\ UNCHANGED <<otherClients, running, registered, pipes>>
  /\ SessionsBecome(Set(s, now), scheduled, outside)
-----------------------------------------------------------------------------
(* The constructor: CameraManager::configure of the enabled cameras, all   *)
(* of them or none.                                                        *)

ConfigureAdd == \E s \in main.todo :
  /\ MainAt("configure") /\ Found(IdOf[s]) = {}
  /\ Register(s) /\ Done(s)
  /\ UNCHANGED <<otherClients, running, excused, pipes>>
  /\ SessionsBecome(Set(s, "stopped"), scheduled \cup {s}, late)

(* A duplicate id or an adapter that cannot be built: nothing remains.     *)
ConfigureFails == /\ MainAt("configure") /\ main.todo # {}
                  /\ registered' = {} /\ Goto("notReady")
                  /\ UNCHANGED <<otherClients, running, excused, pipes>>
                  /\ SessionsBecome(session, {}, late)

ConfigureEnds == /\ MainAt("configure") /\ main.todo = {}
                 /\ IF registered = {} THEN Goto("notReady") ELSE Returns
                 /\ Moves

AddSink(k) == /\ MainAt("idle") /\ router = "stopped" /\ sink[k] = "absent"
              /\ sink' = [sink EXCEPT ![k] = "stopped"]
              /\ OnPipes
              /\ UNCHANGED <<main, router, packets, delivering, inference, inferring>>
-----------------------------------------------------------------------------
(* start(): the router with its sinks, the inference thread, the cameras.  *)

StopSinks == sink' = [k \in Sinks |-> "stopped"]

(* The program has added its sinks by then.                                *)
Start == /\ MainAt("idle") /\ ~running
         /\ \A k \in Sinks : sink[k] # "absent"
         /\ starts < MaxStarts /\ starts' = starts + 1
         /\ main' = [Idle EXCEPT !.at = "sinks", !.todo = Sinks]
         /\ excused' = {}
         /\ UNCHANGED <<failFast, running, operator, calls, registered, scheduled, session, late,
                        pipes>>

StartSink == \E k \in main.todo :
  /\ MainAt("sinks") /\ Done(k)
  /\ sink' = [sink EXCEPT ![k] = "started"]
  /\ OnPipes /\ UNCHANGED <<router, packets, delivering, inference, inferring>>

(* Plausible bug: the sinks started before the failure stay started.       *)
StartSinkFailsDirty == /\ MainAt("sinks") /\ main.todo # {} /\ Returns
                       /\ Moves

StartSinkFails == /\ MainAt("sinks") /\ main.todo # {} /\ Returns
                  /\ StopSinks
                  /\ OnPipes
                  /\ UNCHANGED <<router, packets, delivering, inference, inferring>>

(* The queue is emptied; the thread may not come up.                       *)
StartDelivery == /\ MainAt("sinks") /\ main.todo = {}
                 /\ packets' = <<>>
                 /\ \/ router' = "running" /\ Goto("inference") /\ UNCHANGED sink
                    \/ router' = "stopped" /\ StopSinks /\ Returns
                 /\ OnPipes /\ UNCHANGED <<delivering, inference, inferring>>

StartInference == /\ MainAt("inference")
                  /\ \/ inference' = "running" /\ Goto("startAll")
                     \/ inference' = "stopped" /\ Goto("closeRouter")
                  /\ OnPipes /\ UNCHANGED <<sink, router, packets, delivering, inferring>>

(* startAll works on a copy of the map.                                    *)
StartAll == /\ MainAt("startAll")
            /\ main' = [at |-> "startCameras", todo |-> registered, held |-> registered,
                        any |-> FALSE]
            /\ Moves

StartCamera == \E s \in main.todo :
  /\ MainAt("startCameras")
  /\ main' = [main EXCEPT !.todo = @ \ {s}, !.any = TRUE]
  /\ Sessionwise(s, "running", excused \ {s}, late \ {s})

StartCameraFails == \E s \in main.todo :
  /\ MainAt("startCameras")
  /\ IF failFast THEN Goto("stopAll") ELSE Done(s)
  /\ Sessionwise(s, "stopped", excused \cup {s}, late)

(* None started: nothing to stop.  The copy of the map is given up.        *)
CamerasStarted ==
  /\ MainAt("startCameras") /\ main.todo = {}
  /\ main' = IF ~main.any THEN [Idle EXCEPT !.at = "stopInference"]
             ELSE IF failFast THEN [main EXCEPT !.at = "wait", !.todo = main.held]
             ELSE [Idle EXCEPT !.at = "up"]
  /\ Moves

(* waitForInitialConnection of each, in turn; it fails or times out.       *)
Connected    == MainAt("wait") /\ (\E s \in main.todo : Done(s)) /\ Moves
NotConnected == MainAt("wait") /\ main.todo # {} /\ Goto("stopAll") /\ Moves
AllConnected == /\ MainAt("wait") /\ main.todo = {}
                /\ main' = [Idle EXCEPT !.at = "up"]
                /\ Moves

Up == /\ MainAt("up") /\ Returns
      /\ running' = TRUE
      /\ late' = {}
      /\ UNCHANGED <<otherClients, registered, scheduled, session, excused, pipes>>
-----------------------------------------------------------------------------
(* stop(), and the way back of a start() that failed.  The program stops   *)
(* when it is interrupted, at any time, or no camera is active.            *)

Stop == /\ MainAt("idle") /\ running /\ Goto("stopAll")
        /\ running' = FALSE
        /\ UNCHANGED <<otherClients, objects, pipes>>

(* A rollback still holds the copy startAll made.                          *)
StopAll == /\ MainAt("stopAll")
           /\ main' = [main EXCEPT !.at = "stopCameras", !.todo = registered,
                                   !.held = @ \cup registered]
           /\ Moves

StopOne == \E s \in main.todo : /\ MainAt("stopCameras") /\ Done(s)
                                /\ Sessionwise(s, "stopped", excused, late)

CamerasStopped == /\ MainAt("stopCameras") /\ main.todo = {}
                  /\ main' = [Idle EXCEPT !.at = "stopInference"]
                  /\ Moves

StopInference == /\ MainAt("stopInference") /\ Goto("joinInference")
                 /\ inference' = "stopping"
                 /\ OnPipes /\ UNCHANGED <<sink, router, packets, delivering, inferring>>

JoinInference == /\ MainAt("joinInference") /\ inferring = NoSession /\ Goto("closeRouter")
                 /\ inference' = "stopped"
                 /\ OnPipes /\ UNCHANGED <<sink, router, packets, delivering, inferring>>

CloseRouter == /\ MainAt("closeRouter") /\ Goto("joinRouter")
               /\ router' = "closed"
               /\ OnPipes /\ UNCHANGED <<sink, packets, delivering, inference, inferring>>

RouterStops == /\ router' = "stopped" /\ StopSinks /\ Returns
               /\ excused' = {}
               /\ UNCHANGED <<otherClients, running, registered, scheduled, session, late,
                              packets, delivering, inference, inferring>>

(* Plausible bug: the sinks are stopped before the thread has been joined. *)
RouterNotJoined == MainAt("joinRouter") /\ RouterStops

(* The thread delivers what is queued before it ends.                      *)
JoinRouter == MainAt("joinRouter") /\ packets = <<>> /\ delivering = NoSession /\ RouterStops
-----------------------------------------------------------------------------
(* An operator's call.  It needs a service that has been constructed.      *)

At(o, point)  == operator[o].at = point
Mine(o)       == operator[o].session
OnService     == UNCHANGED <<failFast, running, main, starts, pipes>>
Around        == OnService /\ UNCHANGED calls
Goes(o, point) == operator' = [operator EXCEPT ![o].at = point]
Drops(o, point) == operator' = [operator EXCEPT ![o].at = point, ![o].session = NoSession]
Takes(o, point, s) ==
  operator' = [operator EXCEPT ![o] = [at |-> point, id |-> IdOf[s], session |-> s]]
CallReturns(o) == operator' = [operator EXCEPT ![o] = OperatorIdle]
Excuse(them) == excused' = IF MainAt("idle") /\ ~running THEN {} ELSE excused \cup them
Called(o) == /\ At(o, "idle") /\ main.at \notin {"configure", "notReady"}
             /\ calls < MaxCalls /\ calls' = calls + 1

AddCamera(o, s) == /\ Called(o)
                   /\ session[s] = "none" /\ Found(IdOf[s]) = {}
                   /\ Takes(o, "schedule", s)
                   /\ excused' = excused \ {s}
                   /\ OnService /\ UNCHANGED registered
                   /\ SessionsBecome(Set(s, "stopped"), scheduled, late)

(* The scheduler refuses an id it still has; then the object goes.         *)
AddSchedule(o) == LET refused == \E t \in scheduled : IdOf[t] = operator[o].id IN
  /\ At(o, "schedule")
  /\ IF refused THEN CallReturns(o) ELSE Goes(o, "emplace")
  /\ Around /\ UNCHANGED <<registered, excused>>
  /\ SessionsBecome(session, IF refused THEN scheduled ELSE scheduled \cup {Mine(o)}, late)

AddEmplace(o) == /\ At(o, "emplace") /\ Drops(o, "isRunning")
                 /\ Register(Mine(o))
                 /\ Around /\ UNCHANGED excused
                 /\ Settle

(* A camera registered after start() has taken its copy of the map, but    *)
(* before running_ is set, is not started by anybody.                      *)
AddIsRunning(o) ==
  /\ At(o, "isRunning")
  /\ IF running THEN Goes(o, "find") /\ UNCHANGED excused
     ELSE CallReturns(o) /\ Excuse(Found(operator[o].id))
  /\ Around /\ UNCHANGED <<registered, scheduled, session, late>>

(* Plausible bug: the session is left to the next start() of the service.  *)
AddFindUnstarted(o) == At(o, "find") /\ CallReturns(o) /\ Around /\ UNCHANGED objects

AddFind(o) == LET found == Found(operator[o].id) IN
  /\ At(o, "find")
  /\ IF found = {} THEN Goes(o, "erase") ELSE \E s \in found : Takes(o, "start", s)
  /\ Around /\ UNCHANGED objects

(* start() or restart(), and stop(), of the session an operator has found. *)
OperatorStarts(o) ==
  /\ excused' = excused \ {Mine(o)}
  /\ Around /\ UNCHANGED registered
  /\ SessionsBecome(Set(Mine(o), "running"), scheduled,
                    IF running THEN {} ELSE late \cup {Mine(o)})

OperatorStops(o) ==
  /\ Excuse({Mine(o)})
  /\ Around /\ UNCHANGED registered
  /\ SessionsBecome(Set(Mine(o), "stopped"), scheduled, late)

AddStart(o)   == At(o, "start") /\ CallReturns(o) /\ OperatorStarts(o)
AddFails(o)   == At(o, "start") /\ Drops(o, "erase") /\ OperatorStops(o)
Restart(o)    == At(o, "restart") /\ CallReturns(o) /\ (OperatorStarts(o) \/ OperatorStops(o))
StopCamera(o) == At(o, "stop") /\ CallReturns(o) /\ OperatorStops(o)

Find(o, s) == /\ Called(o) /\ s \in registered
              /\ (Takes(o, "restart", s) \/ Takes(o, "stop", s))
              /\ OnService /\ UNCHANGED objects

(* removeCamera: taken out of the map, stopped, taken from the scheduler.  *)
Erases(o, s) == /\ s \in registered /\ registered' = registered \ {s}
                /\ Takes(o, "stopErased", s)
                /\ OnService /\ UNCHANGED excused
                /\ Settle
Erase(o, s)  == Called(o) /\ Erases(o, s)
EraseAdded(o, s) == At(o, "erase") /\ IdOf[s] = operator[o].id /\ UNCHANGED calls /\ Erases(o, s)
EraseNone(o) == /\ At(o, "erase") /\ Found(operator[o].id) = {}
                /\ CallReturns(o) /\ Around /\ UNCHANGED objects

StopErased(o) == At(o, "stopErased") /\ Goes(o, "unschedule") /\ OperatorStops(o)

Unschedule(o) == /\ At(o, "unschedule") /\ CallReturns(o)
                 /\ Around /\ UNCHANGED <<registered, excused>>
                 /\ SessionsBecome(session, {s \in scheduled : IdOf[s] # operator[o].id}, late)
-----------------------------------------------------------------------------
(* Capture threads, the inference worker and the delivery thread.          *)

threads == <<clients, registered, excused, sink, router, inference>>

SessionEnds(s) == /\ session[s] = "running"
                  /\ UNCHANGED <<threads, packets, delivering, inferring>>
                  /\ SessionsBecome(Set(s, "ended"), scheduled, late)

InferenceTakes(s) == /\ inference = "running" /\ inferring = NoSession
                     /\ s \in scheduled /\ session[s] \in {"running", "ended"}
                     /\ inferring' = s
                     /\ UNCHANGED <<threads, packets, delivering>> /\ Settle

(* A full queue sheds its oldest packet.  A stop() or a reconnect may have *)
(* retired the frame; one stamped while its session was being stopped, or  *)
(* recorded before that, is handed over after it.                          *)
InferenceHandsOver ==
  /\ inferring # NoSession /\ inferring' = NoSession
  /\ \/ UNCHANGED packets
     \/ /\ router = "running"
        /\ packets' = Append(IF Len(packets) = ResultCapacity THEN Tail(packets) ELSE packets,
                             inferring)
  /\ UNCHANGED <<threads, delivering>> /\ Settle

DeliveryTakes == /\ router # "stopped" /\ delivering = NoSession /\ packets # <<>>
                 /\ delivering' = Head(packets) /\ packets' = Tail(packets)
                 /\ UNCHANGED <<threads, inferring>> /\ Settle

Delivered == /\ delivering # NoSession /\ delivering' = NoSession
             /\ UNCHANGED <<threads, packets, inferring>> /\ Settle

MainStep == \/ ConfigureAdd \/ ConfigureFails \/ ConfigureEnds \/ Start \/ Stop
            \/ StartSink \/ StartSinkFails \/ StartDelivery \/ StartInference
            \/ StartAll \/ StartCamera \/ StartCameraFails \/ CamerasStarted
            \/ Connected \/ NotConnected \/ AllConnected \/ Up
            \/ StopAll \/ StopOne \/ CamerasStopped \/ StopInference \/ JoinInference
            \/ CloseRouter \/ JoinRouter
OperatorStep(o) == \/ AddSchedule(o) \/ AddEmplace(o) \/ AddIsRunning(o) \/ AddFind(o)
                   \/ AddStart(o) \/ AddFails(o) \/ Restart(o) \/ StopCamera(o)
                   \/ EraseNone(o) \/ StopErased(o) \/ Unschedule(o)
                   \/ \E s \in Sessions : \/ AddCamera(o, s) \/ Find(o, s)
                                          \/ Erase(o, s) \/ EraseAdded(o, s)

Next == \/ MainStep
        \/ \E k \in Sinks : AddSink(k)
        \/ \E o \in Operators : OperatorStep(o)
        \/ \E s \in Sessions : SessionEnds(s) \/ InferenceTakes(s)
        \/ InferenceHandsOver \/ DeliveryTakes \/ Delivered

Spec == Init /\ [][Next]_vars
-----------------------------------------------------------------------------
(* Whatever failed on the way up or came in between, a service that is     *)
(* stopped has given back all it started: sinks, threads and cameras, but  *)
(* for those an operator is removing, or has started in spite of that.     *)
NothingLeftRunning == MainAt("idle") /\ ~running =>
  /\ inference = "stopped" /\ router = "stopped"
  /\ \A k \in Sinks : sink[k] # "started"
  /\ {s \in Sessions : session[s] = "running"}
       \subseteq late \cup {operator[o].session : o \in Operators}

(* A result is only ever given to sinks that are started, and while the    *)
(* inference worker runs there is a router to take its results.            *)
SinksReady == /\ delivering # NoSession => \A k \in Sinks : sink[k] = "started"
              /\ inference # "stopped" => router = "running"

AtRest == MainAt("idle") /\ \A o \in Operators : At(o, "idle")

(* In a service that is up and left alone every camera was started, unless *)
(* its start failed, an operator stopped it, or it was added while start() *)
(* was on its way.                                                         *)
EveryCameraStarted == AtRest /\ running =>
  \A s \in registered \ excused : session[s] \in {"running", "ended"}

(* Between calls the scheduler knows the registered cameras, one of an id, *)
(* and no session runs that neither the map nor a thread holds.            *)
ManagerConsistent == AtRest =>
  /\ scheduled \cap registered = registered
  /\ \A s, t \in scheduled : IdOf[s] = IdOf[t] => s = t
  /\ \A s \in Sessions \ registered : session[s] = "running" =>
       s \in {inferring, delivering} \/ \E i \in DOMAIN packets : packets[i] = s

(* What the service does with a session, and sees of it, is what a session *)
(* does: it starts, ends and is stopped, by its destructor at the latest,  *)
(* and has its frames taken only while it is not stopped.                  *)
StatusOf(s) == IF session[s] = "none" THEN "stopped" ELSE session[s]
Life(s) == INSTANCE SessionLife WITH status <- StatusOf(s), inHand <- inferring = s
FollowsSessionLife(s) == Life(s)!Spec
=============================================================================
