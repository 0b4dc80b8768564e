-------------------------- MODULE EdgeService_proofs --------------------------
(***************************************************************************)
(* Theorems about EdgeService, for any sessions, ids, operators and sinks, *)
(* and at the end about the configuration its program is started with, for *)
(* files of any length.                                                    *)
(***************************************************************************)
EXTENDS EdgeService, ConfigReaders, SequenceTheorems, FiniteSetTheorems, TLAPS

Points == {"configure", "notReady", "idle", "sinks", "inference", "startAll", "startCameras",
           "wait", "up", "stopAll", "stopCameras", "stopInference", "joinInference",
           "closeRouter", "joinRouter"}
Calls  == {"idle", "schedule", "emplace", "isRunning", "find", "start", "erase", "restart",
           "stop", "stopErased", "unschedule"}
Free   == {"idle", "isRunning", "find", "erase"}   \* an operator there holds no session
Ids    == {IdOf[s] : s \in Sessions} \cup {NoId}
Some   == Sessions \cup {NoSession}

ObjectsOK == /\ registered \subseteq Sessions /\ scheduled \subseteq Sessions
             /\ session \in [Sessions -> {"none", "stopped", "running", "ended"}]
             /\ late \subseteq Sessions /\ excused \subseteq Sessions

PipesOK == /\ sink \in [Sinks -> {"absent", "stopped", "started"}]
           /\ router \in {"stopped", "running", "closed"}
           /\ packets \in Seq(Sessions) /\ delivering \in Some
           /\ inference \in {"stopped", "running", "stopping"} /\ inferring \in Some

ClientsOK == /\ failFast \in BOOLEAN /\ running \in BOOLEAN
             /\ starts \in Nat /\ calls \in Nat
             /\ main \in [at : Points, todo : SUBSET (Sessions \cup Sinks),
                          held : SUBSET Sessions, any : BOOLEAN]
             /\ operator \in [Operators -> [at : Calls, id : Ids, session : Some]]

EdgeTypeOK == ObjectsOK /\ PipesOK /\ ClientsOK

(* What the main thread and an operator hold where they are.               *)
MainInv == /\ main.at = "sinks" => main.todo \subseteq Sinks
           /\ main.at = "configure" => main.todo \subseteq Sessions
           /\ main.at \in {"startCameras", "wait", "stopCameras"} => main.todo \subseteq main.held
           /\ main.at \notin {"startCameras", "wait", "stopAll", "stopCameras"} => main.held = {}
           /\ running => main.at = "idle"

(* Nobody calls a service that is being constructed.                       *)
ConfigureInv == main.at \in {"configure", "notReady"} =>
  /\ \A o \in Operators : operator[o].at = "idle"
  /\ scheduled = registered

OperatorInv == \A o \in Operators :
  IF operator[o].at \in Free THEN operator[o].session = NoSession
  ELSE operator[o].session \in Sessions /\ operator[o].id = IdOf[operator[o].session]

(* The router and the inference thread are up where start() has brought    *)
(* them up and stop() has not taken them down; the pipes are empty after.  *)
Serving == \/ MainAt("idle") /\ running
           \/ main.at \in {"startAll", "startCameras", "wait", "up", "stopAll", "stopCameras",
                           "stopInference"}

PipesInv == /\ inference = IF Serving THEN "running"
                           ELSE IF MainAt("joinInference") THEN "stopping" ELSE "stopped"
            /\ router = IF Serving \/ main.at \in {"inference", "joinInference", "closeRouter"}
                        THEN "running" ELSE IF MainAt("joinRouter") THEN "closed" ELSE "stopped"
            /\ inference = "stopped" => inferring = NoSession
            /\ router = "stopped" => packets = <<>> /\ delivering = NoSession

SinksInv == /\ router # "stopped" => \A k \in Sinks : sink[k] = "started"
            /\ MainAt("sinks") => \A k \in Sinks \ main.todo : sink[k] = "started"
            /\ main.at \in {"configure", "notReady", "idle"} /\ ~running =>
                 \A k \in Sinks : sink[k] # "started"

(* An object lives as long as somebody holds it.                           *)
HoldInv == \A s \in Sessions : session[s] = "none" <=> ~Held(s)

(* A camera being added is its operator's alone, and stopped; one that has *)
(* been taken out of the map is out of it for good.                        *)
Adding   == {"schedule", "emplace"}
Removing == {"stopErased", "unschedule"}
AddedInv == \A o \in Operators : At(o, "schedule") \/ At(o, "emplace") =>
  /\ session[Mine(o)] = "stopped"
  /\ Mine(o) \notin registered \cup main.held \cup {inferring, delivering}
  /\ \A i \in DOMAIN packets : packets[i] # Mine(o)
  /\ \A p \in Operators \ {o} : Mine(p) # Mine(o)

RemovedInv == \A o \in Operators : operator[o].at \in Removing =>
  /\ Mine(o) \notin registered
  /\ \A p \in Operators \ {o} : operator[p].at \in Removing => Mine(p) # Mine(o)

(* The scheduler has every registered camera, the ones about to be and the *)
(* ones still to be taken from it, one of an id.                           *)
ScheduledInv == /\ registered \subseteq scheduled
                /\ \A o \in Operators :
                     operator[o].at \in Removing \cup {"emplace"} => Mine(o) \in scheduled
                /\ \A s, t \in scheduled : IdOf[s] = IdOf[t] => s = t

(* Outside of start() and stop(), a running session of the map or of the   *)
(* copy being started was started by an operator, or is in its hands, or   *)
(* is still to be stopped.                                                 *)
Theirs == {operator[o].session : o \in Operators}
Quiet  == /\ ~running
          /\ main.at \notin {"wait", "up", "stopAll"}
          /\ MainAt("startCameras") => ~main.any
Copied == IF MainAt("startCameras") THEN main.held ELSE {}
ToStop == IF MainAt("stopCameras") THEN main.todo ELSE {}

LeftInv == Quiet => \A s \in registered \cup Copied :
                      session[s] = "running" => s \in late \cup Theirs \cup ToStop

(* Nobody starts a camera of the copy again once it has been taken out.    *)
UnscheduledInv == \A o \in Operators :
  /\ Quiet /\ At(o, "unschedule")
  /\ Mine(o) \in Copied
  /\ session[Mine(o)] = "running"
  => Mine(o) \in late

(* A registered camera that is stopped in a service that is up or comes up *)
(* is excused, or still to be started by the main thread or an operator.   *)
ComingUp == (MainAt("idle") /\ running) \/ main.at \in {"startCameras", "wait", "up"}
StartedInv == ComingUp => \A s \in registered : session[s] = "stopped" =>
  \/ s \in excused
  \/ MainAt("startCameras") /\ s \in main.todo
  \/ \E o \in Operators :
       \/ operator[o].at \in {"isRunning", "find"} /\ operator[o].id = IdOf[s]
       \/ At(o, "start") /\ Mine(o) = s

EdgeInv == /\ EdgeTypeOK /\ MainInv /\ ConfigureInv /\ OperatorInv /\ PipesInv
           /\ SinksInv /\ HoldInv /\ AddedInv /\ RemovedInv /\ ScheduledInv
           /\ LeftInv /\ UnscheduledInv /\ StartedInv
-----------------------------------------------------------------------------
(* What SessionsBecome writes, session by session.                         *)
Effect(after, cameras, outside) ==
  /\ \A s \in Sessions : session'[s] = IF Held(s)' THEN after[s] ELSE "none"
  /\ \A s \in Sessions : s \in scheduled' <=> s \in cameras /\ Held(s)'
  /\ \A s \in Sessions : s \in late' <=> s \in outside /\ Held(s)' /\ after[s] = "running"
  /\ scheduled' \subseteq Sessions /\ late' \subseteq Sessions

(* Every SessionsBecome has this effect.                                   *)
LEMMA EffectOfBecoming ==
  ASSUME NEW after, NEW cameras, NEW outside, SessionsBecome(after, cameras, outside)
  PROVE  Effect(after, cameras, outside)
BY DEF SessionsBecome, Becomes, Effect

(* It leaves the objects' types as they are.                               *)
LEMMA BecomingKeepsTypes ==
  ASSUME NEW after \in [Sessions -> {"none", "stopped", "running", "ended"}],
         NEW cameras, NEW outside, SessionsBecome(after, cameras, outside)
  PROVE  /\ session' \in [Sessions -> {"none", "stopped", "running", "ended"}]
         /\ scheduled' \subseteq Sessions /\ late' \subseteq Sessions
<1> DEFINE alive == {s \in Sessions : Held(s)'}
<1> HIDE DEF alive
<1>1. /\ session' = [s \in Sessions |-> IF s \in alive THEN after[s] ELSE "none"]
      /\ scheduled' = cameras \cap alive
      /\ late' = {s \in outside \cap alive : after[s] = "running"}
  BY DEF SessionsBecome, Becomes, alive
<1>2. alive \subseteq Sessions
  BY DEF alive
<1>3. QED
  BY <1>1, <1>2

(* One session set to another state.                                       *)
LEMMA SetKeepsType ==
  ASSUME ObjectsOK, NEW s, NEW now \in {"stopped", "running", "ended"}
  PROVE  Set(s, now) \in [Sessions -> {"none", "stopped", "running", "ended"}]
BY DEF ObjectsOK, Set

(* The operators' own state keeps its type.                                 *)
LEMMA OperatorTypes ==
  ASSUME ClientsOK, NEW o \in Operators, NEW point \in Calls,
         \/ Goes(o, point) \/ Drops(o, point) \/ CallReturns(o)
         \/ \E s \in Sessions : Takes(o, point, s)
  PROVE  operator' \in [Operators -> [at : Calls, id : Ids, session : Some]]
<1>1. operator \in [Operators -> [at : Calls, id : Ids, session : Some]]
  BY DEF ClientsOK
<1>2. operator[o].id \in Ids /\ operator[o].session \in Some
  BY <1>1
<1>3. OperatorIdle \in [at : Calls, id : Ids, session : Some]
  BY DEF OperatorIdle, Calls, Ids, Some
<1>4. CASE Goes(o, point)
  BY <1>1, <1>2, <1>4 DEF Goes
<1>5. CASE Drops(o, point)
  BY <1>1, <1>2, <1>5 DEF Drops, Some
<1>6. ASSUME NEW s \in Sessions, Takes(o, point, s)
      PROVE  operator' \in [Operators -> [at : Calls, id : Ids, session : Some]]
  <2>1. IdOf[s] \in Ids /\ s \in Some
    BY DEF Ids, Some
  <2>2. QED
    BY <1>1, <1>6, <2>1 DEF Takes
<1>7. CASE CallReturns(o)
  BY <1>1, <1>3, <1>7 DEF CallReturns
<1>8. QED
  BY <1>4, <1>5, <1>6, <1>7
-----------------------------------------------------------------------------
(* Type correctness, action by action: the steps of the main thread.       *)
LEMMA MainTypes ==
  ASSUME EdgeTypeOK, MainInv, MainStep \/ (\E k \in Sinks : AddSink(k))
  PROVE  main' \in [at : Points, todo : SUBSET (Sessions \cup Sinks),
                    held : SUBSET Sessions, any : BOOLEAN]
<1>1. /\ main \in [at : Points, todo : SUBSET (Sessions \cup Sinks),
                   held : SUBSET Sessions, any : BOOLEAN]
      /\ registered \subseteq Sessions
  BY DEF EdgeTypeOK, ClientsOK, ObjectsOK
<1>2. Idle \in [at : Points, todo : SUBSET (Sessions \cup Sinks),
                held : SUBSET Sessions, any : BOOLEAN]
  BY DEF Idle, Points
<1>3. CASE \/ ConfigureAdd \/ ConfigureFails \/ ConfigureEnds \/ Start \/ Stop
           \/ StartSink \/ StartSinkFails \/ StartDelivery \/ StartInference
  BY <1>1, <1>2, <1>3
     DEF ConfigureAdd, ConfigureFails, ConfigureEnds, Start, Stop, StartSink, StartSinkFails,
         StartDelivery, StartInference, Done, Goto, Returns, Points, Idle
<1>4. CASE \/ StartAll \/ StartCamera \/ StartCameraFails \/ CamerasStarted
           \/ Connected \/ NotConnected \/ AllConnected \/ Up
  <2>1. CASE StartAll \/ StartCamera \/ StartCameraFails \/ Connected \/ NotConnected \/ Up
    <3>1. CASE StartAll
      <4>1. registered \in SUBSET (Sessions \cup Sinks) /\ registered \in SUBSET Sessions
        BY <1>1
      <4>2. "startCameras" \in Points
        BY DEF Points
      <4>3. QED
        BY <3>1, <4>1, <4>2 DEF StartAll
    <3>2. CASE StartCamera
      BY <1>1, <3>2 DEF StartCamera
    <3>3. CASE StartCameraFails \/ Connected
      BY <1>1, <3>3 DEF StartCameraFails, Connected, Done, Goto, Points
    <3>4. CASE NotConnected \/ Up
      BY <1>1, <1>2, <3>4 DEF NotConnected, Up, Goto, Returns, Points
    <3>5. QED
      BY <2>1, <3>1, <3>2, <3>3, <3>4
  <2>2. CASE CamerasStarted \/ AllConnected
    <3>1. [Idle EXCEPT !.at = "stopInference"] \in
            [at : Points, todo : SUBSET (Sessions \cup Sinks), held : SUBSET Sessions,
             any : BOOLEAN]
      BY DEF Idle, Points
    <3>2. [Idle EXCEPT !.at = "up"] \in
            [at : Points, todo : SUBSET (Sessions \cup Sinks), held : SUBSET Sessions,
             any : BOOLEAN]
      BY DEF Idle, Points
    <3>3. [main EXCEPT !.at = "wait", !.todo = main.held] \in
            [at : Points, todo : SUBSET (Sessions \cup Sinks), held : SUBSET Sessions,
             any : BOOLEAN]
      BY <1>1 DEF Points
    <3>4. QED
      BY <2>2, <3>1, <3>2, <3>3 DEF CamerasStarted, AllConnected
  <2>3. QED
    BY <1>4, <2>1, <2>2
<1>5. CASE \/ StopAll \/ StopOne \/ CamerasStopped \/ StopInference \/ JoinInference
           \/ CloseRouter \/ JoinRouter \/ (\E k \in Sinks : AddSink(k))
  BY <1>1, <1>2, <1>5
     DEF StopAll, StopOne, CamerasStopped, StopInference, JoinInference, CloseRouter,
         JoinRouter, RouterStops, AddSink, Done, Goto, Returns, Points, Idle
<1>6. QED
  BY <1>3, <1>4, <1>5 DEF MainStep

(* The objects: every step leaves them alone or lets some go.              *)
LEMMA MainObjectTypes ==
  ASSUME EdgeTypeOK, MainInv, MainStep \/ (\E k \in Sinks : AddSink(k))
  PROVE  ObjectsOK'
<1> USE DEF EdgeTypeOK
<1>1. ObjectsOK
  OBVIOUS
<1>2. CASE \/ StartSink \/ StartSinkFails \/ StartDelivery \/ StartInference \/ StopInference
           \/ JoinInference \/ CloseRouter \/ JoinRouter \/ Start \/ Stop \/ Up
           \/ (\E k \in Sinks : AddSink(k))
  BY <1>1, <1>2
     DEF StartSink, StartSinkFails, StartDelivery, StartInference, StopInference,
         JoinInference, CloseRouter, JoinRouter, RouterStops, Start, Stop, Up, AddSink,
         OnPipes, objects, ObjectsOK
<1>3. CASE \/ ConfigureEnds \/ StartAll \/ CamerasStarted \/ Connected \/ NotConnected
           \/ AllConnected \/ StopAll \/ CamerasStopped
  <2>1. Moves
    BY <1>3 DEF ConfigureEnds, StartAll, CamerasStarted, Connected, NotConnected,
                AllConnected, StopAll, CamerasStopped
  <2>2. QED
    BY <1>1, <2>1, BecomingKeepsTypes DEF Moves, Settle, ObjectsOK
<1>4. ASSUME NEW s \in main.todo, MainAt("startCameras") \/ MainAt("stopCameras"),
             NEW now \in {"stopped", "running"}, NEW excuses, NEW outside,
             excuses \subseteq excused \cup {s}, Sessionwise(s, now, excuses, outside)
      PROVE  ObjectsOK'
  <2>1. s \in Sessions
    <3>1. main.held \subseteq Sessions
      BY DEF ClientsOK
    <3>2. QED
      BY <1>4, <3>1 DEF MainInv, MainAt
  <2>2. Set(s, now) \in [Sessions -> {"none", "stopped", "running", "ended"}]
    BY <1>1, <1>4, SetKeepsType
  <2>3. QED
    BY <1>1, <1>4, <2>1, <2>2, BecomingKeepsTypes DEF Sessionwise, ObjectsOK
<1>5. CASE StartCamera \/ StartCameraFails \/ StopOne
  <2>1. \E s \in main.todo, now \in {"stopped", "running"} : \E excuses, outside :
          /\ MainAt("startCameras") \/ MainAt("stopCameras")
          /\ excuses \subseteq excused \cup {s}
          /\ Sessionwise(s, now, excuses, outside)
    <3>1. ASSUME NEW s PROVE excused \ {s} \subseteq excused \cup {s}
                             /\ excused \cup {s} \subseteq excused \cup {s}
                             /\ excused \subseteq excused \cup {s}
      OBVIOUS
    <3>2. QED
      BY <1>5, <3>1 DEF StartCamera, StartCameraFails, StopOne
  <2>2. QED
    BY <1>4, <2>1
<1>6. CASE ConfigureAdd
  <2>1. PICK s \in main.todo :
               /\ MainAt("configure") /\ Register(s) /\ UNCHANGED excused
               /\ SessionsBecome(Set(s, "stopped"), scheduled \cup {s}, late)
    BY <1>6 DEF ConfigureAdd
  <2>2. s \in Sessions
    BY <2>1 DEF MainInv, MainAt
  <2>3. Set(s, "stopped") \in [Sessions -> {"none", "stopped", "running", "ended"}]
    BY <1>1, SetKeepsType
  <2>4. registered' \subseteq Sessions
    BY <1>1, <2>1, <2>2 DEF Register, ObjectsOK
  <2>5. QED
    BY <1>1, <2>1, <2>3, <2>4, BecomingKeepsTypes DEF ObjectsOK
<1>7. CASE ConfigureFails
  BY <1>1, <1>7, BecomingKeepsTypes DEF ConfigureFails, ObjectsOK
<1>8. QED
  BY <1>2, <1>3, <1>5, <1>6, <1>7 DEF MainStep

(* The steps of the operators.                                             *)
LEMMA OperatorStepTypes ==
  ASSUME EdgeTypeOK, OperatorInv, NEW o \in Operators, OperatorStep(o)
  PROVE  /\ ObjectsOK' /\ UNCHANGED <<failFast, running, main, starts, pipes>>
         /\ operator' \in [Operators -> [at : Calls, id : Ids, session : Some]]
         /\ calls' \in Nat
<1> USE DEF EdgeTypeOK
<1>1. ObjectsOK /\ ClientsOK
  OBVIOUS
<1>2. UNCHANGED <<failFast, running, main, starts, pipes>>
  BY DEF OperatorStep, AddSchedule, AddEmplace, AddIsRunning, AddFind, AddStart, AddFails,
         Restart, StopCamera, EraseNone, StopErased, Unschedule, AddCamera, Find, Erase,
         EraseAdded, Erases, OperatorStarts, OperatorStops, Around, OnService
<1>3. calls' \in Nat
  BY DEF OperatorStep, AddSchedule, AddEmplace, AddIsRunning, AddFind, AddStart, AddFails,
         Restart, StopCamera, EraseNone, StopErased, Unschedule, AddCamera, Find, Erase,
         EraseAdded, Erases, OperatorStarts, OperatorStops, Around, OnService, Called,
         ClientsOK
<1>4. operator' \in [Operators -> [at : Calls, id : Ids, session : Some]]
  <2>1. \E point \in Calls : \/ Goes(o, point) \/ Drops(o, point) \/ CallReturns(o)
                             \/ \E s \in Sessions : Takes(o, point, s)
    <3>1. registered \subseteq Sessions
      BY DEF ObjectsOK
    <3>2. QED
      BY <3>1 DEF OperatorStep, AddSchedule, AddEmplace, AddIsRunning, AddFind, AddStart,
         AddFails, Restart, StopCamera, EraseNone, StopErased, Unschedule, AddCamera, Find,
         Erase, EraseAdded, Erases, Calls, Found
  <2>2. QED
    BY <1>1, <2>1, OperatorTypes
<1>5. ASSUME NEW s \in Sessions, NEW now \in {"stopped", "running"}, NEW cameras, NEW outside,
             \/ SessionsBecome(Set(s, now), cameras, outside)
             \/ SessionsBecome(session, cameras, outside)
      PROVE  /\ session' \in [Sessions -> {"none", "stopped", "running", "ended"}]
             /\ scheduled' \subseteq Sessions /\ late' \subseteq Sessions
  <2>1. CASE SessionsBecome(Set(s, now), cameras, outside)
    <3>1. Set(s, now) \in [Sessions -> {"none", "stopped", "running", "ended"}]
      BY <1>1, SetKeepsType
    <3>2. QED
      BY <2>1, <3>1, BecomingKeepsTypes
  <2>2. CASE SessionsBecome(session, cameras, outside)
    BY <1>1, <2>2, BecomingKeepsTypes DEF ObjectsOK
  <2>3. QED
    BY <1>5, <2>1, <2>2
<1>6. ASSUME Mine(o) \in Sessions, OperatorStarts(o) \/ OperatorStops(o)
      PROVE  ObjectsOK'
  <2>1. registered' \subseteq Sessions /\ excused' \subseteq Sessions
    BY <1>1, <1>6 DEF OperatorStarts, OperatorStops, Excuse, Around, OnService, ObjectsOK
  <2>2. QED
    BY <1>5, <1>6, <2>1 DEF OperatorStarts, OperatorStops, ObjectsOK
<1>7. ASSUME AddStart(o) \/ AddFails(o) \/ Restart(o) \/ StopCamera(o) \/ StopErased(o)
      PROVE  ObjectsOK'
  <2>1. Mine(o) \in Sessions
    BY <1>7 DEF AddStart, AddFails, Restart, StopCamera, StopErased, At, Mine, OperatorInv, Free
  <2>2. QED
    BY <1>6, <1>7, <2>1 DEF AddStart, AddFails, Restart, StopCamera, StopErased
<1>8. ASSUME AddSchedule(o) \/ AddEmplace(o) \/ Unschedule(o)
      PROVE  ObjectsOK'
  <2>1. Mine(o) \in Sessions
    BY <1>8 DEF AddSchedule, AddEmplace, Unschedule, At, Mine, OperatorInv, Free
  <2>2. registered' \subseteq Sessions /\ excused' \subseteq Sessions
    BY <1>1, <1>8, <2>1 DEF AddSchedule, AddEmplace, Unschedule, Register, ObjectsOK
  <2>3. \E cameras, outside : SessionsBecome(session, cameras, outside)
    BY <1>8 DEF AddSchedule, AddEmplace, Unschedule, Settle
  <2>4. QED
    BY <1>5, <2>1, <2>2, <2>3 DEF ObjectsOK
<1>9. ASSUME AddIsRunning(o) \/ AddFind(o) \/ EraseNone(o) \/ (\E s \in Sessions : Find(o, s))
      PROVE  ObjectsOK'
  BY <1>1, <1>9 DEF AddIsRunning, AddFind, EraseNone, Find, Excuse, Found, ObjectsOK, objects
<1>10. ASSUME NEW s \in Sessions, AddCamera(o, s) \/ Erases(o, s) PROVE ObjectsOK'
  <2>1. registered' \subseteq Sessions /\ excused' \subseteq Sessions
    BY <1>1, <1>10 DEF AddCamera, Erases, ObjectsOK
  <2>2. QED
    BY <1>5, <1>10, <2>1 DEF AddCamera, Erases, Settle, ObjectsOK
<1>11. ObjectsOK'
  BY <1>7, <1>8, <1>9, <1>10 DEF OperatorStep, Erase, EraseAdded
<1>12. QED
  BY <1>2, <1>3, <1>4, <1>11

(* Capture threads, the inference worker and the delivery thread.          *)
ThreadStep == \/ \E s \in Sessions : SessionEnds(s) \/ InferenceTakes(s)
              \/ InferenceHandsOver \/ DeliveryTakes \/ Delivered

(* The threads change the objects and the pipes only, and keep their       *)
(* types.                                                                  *)
LEMMA ThreadTypes ==
  ASSUME EdgeTypeOK, ThreadStep
  PROVE  /\ UNCHANGED <<clients, registered, excused, sink, router, inference>>
         /\ ObjectsOK' /\ packets' \in Seq(Sessions) /\ delivering' \in Some
         /\ inferring' \in Some
<1> USE DEF EdgeTypeOK
<1>1. ObjectsOK /\ packets \in Seq(Sessions) /\ delivering \in Some /\ inferring \in Some
  BY DEF PipesOK
<1>2. UNCHANGED <<clients, registered, excused, sink, router, inference>>
  BY DEF ThreadStep, SessionEnds, InferenceTakes, InferenceHandsOver, DeliveryTakes, Delivered,
         threads
<1>3. ObjectsOK'
  <2>1. \E after \in [Sessions -> {"none", "stopped", "running", "ended"}] :
          \E cameras, outside : SessionsBecome(after, cameras, outside)
    <3>1. ASSUME NEW s \in Sessions
          PROVE  Set(s, "ended") \in [Sessions -> {"none", "stopped", "running", "ended"}]
      BY <1>1, SetKeepsType
    <3>2. session \in [Sessions -> {"none", "stopped", "running", "ended"}]
      BY <1>1 DEF ObjectsOK
    <3>3. QED
      BY <3>1, <3>2 DEF ThreadStep, SessionEnds, InferenceTakes, InferenceHandsOver,
                        DeliveryTakes, Delivered, Settle
  <2>2. QED
    BY <1>1, <1>2, <2>1, BecomingKeepsTypes DEF ObjectsOK
<1>4. ASSUME packets # <<>>
      PROVE  Tail(packets) \in Seq(Sessions) /\ Head(packets) \in Sessions
  BY <1>1, <1>4, HeadTailProperties
<1>5. packets' \in Seq(Sessions)
  <2>1. CASE InferenceHandsOver
    <3>1. inferring \in Sessions
      BY <1>1, <2>1 DEF InferenceHandsOver, Some
    <3> DEFINE room == IF Len(packets) = ResultCapacity THEN Tail(packets) ELSE packets
    <3>2. room \in Seq(Sessions)
      <4>1. Len(packets) = ResultCapacity => packets # <<>>
        <5>1. Len(<<>>) = 0 /\ ResultCapacity # 0
          BY EdgeAssumption
        <5>2. QED
          BY <5>1
      <4>2. QED
        BY <1>1, <1>4, <4>1
    <3> HIDE DEF room
    <3>3. Append(room, inferring) \in Seq(Sessions)
      BY <3>1, <3>2, AppendProperties
    <3>4. packets' = packets \/ packets' = Append(room, inferring)
      BY <2>1 DEF InferenceHandsOver, room
    <3>5. QED
      BY <1>1, <3>3, <3>4
  <2>2. CASE DeliveryTakes
    BY <1>4, <2>2 DEF DeliveryTakes
  <2>3. QED
    BY <1>1, <2>1, <2>2 DEF ThreadStep, SessionEnds, InferenceTakes, Delivered
<1>6. delivering' \in Some /\ inferring' \in Some
  BY <1>1, <1>4 DEF ThreadStep, SessionEnds, InferenceTakes, InferenceHandsOver, DeliveryTakes,
                    Delivered, Some
<1>7. QED
  BY <1>2, <1>3, <1>5, <1>6

(* The pipes under the main thread's steps, and its other variables.       *)
LEMMA MainPipeTypes ==
  ASSUME EdgeTypeOK, MainInv, MainStep \/ (\E k \in Sinks : AddSink(k))
  PROVE  /\ PipesOK' /\ running' \in BOOLEAN /\ starts' \in Nat
         /\ UNCHANGED <<failFast, operator, calls, inferring, delivering>>
<1> USE DEF EdgeTypeOK, PipesOK, pipes, OnPipes, Moves, otherClients
<1>1. starts \in Nat /\ running \in BOOLEAN /\ PipesOK
  BY DEF ClientsOK
<1>2. CASE StartSink
  <2>1. PICK k \in main.todo : sink' = [sink EXCEPT ![k] = "started"] /\ MainAt("sinks")
    BY <1>2 DEF StartSink
  <2>2. k \in Sinks
    BY <2>1 DEF MainInv, MainAt
  <2>3. QED
    BY <1>1, <1>2, <2>1, <2>2 DEF StartSink
<1>3. CASE \/ StartSinkFails \/ StartInference \/ StopInference \/ JoinInference
           \/ CloseRouter
  BY <1>1, <1>3 DEF StartSinkFails, StartInference, StopInference, JoinInference, CloseRouter,
                    StopSinks
<1>4. CASE JoinRouter
  BY <1>1, <1>4 DEF JoinRouter, RouterStops, StopSinks
<1>5. CASE StartDelivery
  <2>1. <<>> \in Seq(Sessions)
    OBVIOUS
  <2>2. packets' = <<>> /\ router' \in {"stopped", "running"}
    BY <1>5 DEF StartDelivery
  <2>3. sink' \in [Sinks -> {"absent", "stopped", "started"}]
    BY <1>1, <1>5 DEF StartDelivery, StopSinks
  <2>4. QED
    BY <1>1, <1>5, <2>1, <2>2, <2>3 DEF StartDelivery
<1>6. CASE Start
  <2>1. starts' = starts + 1 /\ UNCHANGED <<running, failFast, operator, calls, pipes>>
    BY <1>6 DEF Start
  <2>2. QED
    BY <1>1, <2>1
<1>7. CASE Stop
  BY <1>1, <1>7 DEF Stop
<1>8. CASE Up
  BY <1>1, <1>8 DEF Up
<1>9. CASE \/ ConfigureEnds \/ StartAll \/ CamerasStarted \/ Connected \/ NotConnected
           \/ AllConnected \/ StopAll \/ CamerasStopped \/ ConfigureAdd \/ ConfigureFails
  BY <1>1, <1>9 DEF ConfigureEnds, StartAll, CamerasStarted, Connected, NotConnected,
                    AllConnected, StopAll, CamerasStopped, ConfigureAdd, ConfigureFails
<1>10. CASE StartCamera \/ StartCameraFails \/ StopOne
  BY <1>1, <1>10 DEF StartCamera, StartCameraFails, StopOne, Sessionwise
<1>11. CASE \E k \in Sinks : AddSink(k)
  BY <1>1, <1>11 DEF AddSink
<1>12. QED
  BY <1>2, <1>3, <1>4, <1>5, <1>6, <1>7, <1>8, <1>9, <1>10, <1>11 DEF MainStep

(* The three kinds of steps.                                               *)
MainSteps == MainStep \/ \E k \in Sinks : AddSink(k)

(* Every step is one of the main thread, an operator, a thread or a        *)
(* stutter.                                                                *)
LEMMA KindsOfSteps ==
  ASSUME [Next]_vars
  PROVE  MainSteps \/ (\E o \in Operators : OperatorStep(o)) \/ ThreadStep \/ UNCHANGED vars
BY DEF Next, MainSteps, ThreadStep

(* Every step keeps the types.                                             *)
LEMMA TypeStep == ASSUME EdgeTypeOK, MainInv, OperatorInv, [Next]_vars PROVE EdgeTypeOK'
<1>1. CASE MainSteps
  <2>1. MainStep \/ \E k \in Sinks : AddSink(k)
    BY <1>1 DEF MainSteps
  <2>2. ObjectsOK'
    BY <2>1, MainObjectTypes
  <2>3. main' \in [at : Points, todo : SUBSET (Sessions \cup Sinks), held : SUBSET Sessions,
                   any : BOOLEAN]
    BY <2>1, MainTypes
  <2>4. /\ PipesOK' /\ running' \in BOOLEAN /\ starts' \in Nat
        /\ UNCHANGED <<failFast, operator, calls>>
    BY <2>1, MainPipeTypes
  <2>5. QED
    BY <2>2, <2>3, <2>4 DEF EdgeTypeOK, ClientsOK
<1>2. ASSUME NEW o \in Operators, OperatorStep(o) PROVE EdgeTypeOK'
  BY <1>2, OperatorStepTypes DEF EdgeTypeOK, ClientsOK, PipesOK, pipes
<1>3. CASE ThreadStep
  BY <1>3, ThreadTypes DEF EdgeTypeOK, ClientsOK, PipesOK, clients
<1>4. CASE UNCHANGED vars
  BY <1>4 DEF EdgeTypeOK, ObjectsOK, PipesOK, ClientsOK, vars, objects, pipes, clients
<1>5. QED
  BY <1>1, <1>2, <1>3, <1>4, KindsOfSteps
-----------------------------------------------------------------------------
(* What operators and threads leave alone.                                 *)
LEMMA OperatorsLeave ==
  ASSUME EdgeTypeOK, OperatorInv, NEW o \in Operators, OperatorStep(o)
  PROVE  UNCHANGED <<failFast, running, main, starts, sink, router, packets, delivering,
                     inference, inferring>>
BY OperatorStepTypes DEF pipes

(* What the threads leave alone.                                           *)
LEMMA ThreadsLeave ==
  ASSUME EdgeTypeOK, ThreadStep
  PROVE  UNCHANGED <<failFast, running, main, operator, starts, calls, registered, excused,
                     sink, router, inference>>
BY ThreadTypes DEF clients

(* Where the main thread is, what is left to do and what it holds.         *)
LEMMA MainStepInv == ASSUME EdgeTypeOK, MainInv, OperatorInv, [Next]_vars PROVE MainInv'
<1> USE DEF MainInv
<1>0. /\ main \in [at : Points, todo : SUBSET (Sessions \cup Sinks), held : SUBSET Sessions,
                   any : BOOLEAN]
      /\ running \in BOOLEAN
  BY DEF EdgeTypeOK, ClientsOK
<1>1. CASE MainSteps
  <2> USE DEF MainAt, Goto, Done, Returns, Idle
  <2>1. CASE ConfigureAdd \/ ConfigureFails \/ ConfigureEnds
    <3>1. CASE ConfigureAdd
      <4>1. PICK s \in main.todo : main.at = "configure" /\ main' = [main EXCEPT !.todo = @ \ {s}]
        BY <3>1 DEF ConfigureAdd
      <4>2. running' = running
        BY <3>1 DEF ConfigureAdd
      <4>3. QED
        BY <1>0, <4>1, <4>2
    <3>2. CASE ConfigureFails
      BY <1>0, <3>2 DEF ConfigureFails
    <3>3. CASE ConfigureEnds
      BY <1>0, <3>3 DEF ConfigureEnds, Moves
    <3>4. QED
      BY <2>1, <3>1, <3>2, <3>3
  <2>2. CASE Start
    BY <1>0, <2>2 DEF Start
  <2>3. CASE StartSink \/ StartSinkFails \/ StartDelivery \/ StartInference
    BY <1>0, <2>3 DEF StartSink, StartSinkFails, StartDelivery, StartInference, OnPipes
  <2>4. CASE StartAll
    BY <1>0, <2>4 DEF StartAll, Moves
  <2>5. CASE StartCamera \/ StartCameraFails \/ StopOne
    <3>1. running' = running
      BY <2>5 DEF StartCamera, StartCameraFails, StopOne, Sessionwise
    <3>2. CASE StartCamera
      BY <1>0, <3>1, <3>2 DEF StartCamera
    <3>3. CASE StartCameraFails
      BY <1>0, <3>1, <3>3 DEF StartCameraFails
    <3>4. CASE StopOne
      BY <1>0, <3>1, <3>4 DEF StopOne
    <3>5. QED
      BY <2>5, <3>2, <3>3, <3>4
  <2>6. CASE CamerasStarted \/ AllConnected
    <3>1. running' = running
      BY <2>6 DEF CamerasStarted, AllConnected, Moves
    <3>2. CASE CamerasStarted
      <4>1. \/ main'.at \in {"stopInference", "up"} /\ main'.held = {}
            \/ main'.at = "wait" /\ main'.todo = main'.held
        BY <1>0, <3>2 DEF CamerasStarted
      <4>2. main.at = "startCameras"
        BY <3>2 DEF CamerasStarted
      <4>3. QED
        BY <1>0, <3>1, <4>1, <4>2
    <3>3. CASE AllConnected
      BY <1>0, <3>1, <3>3 DEF AllConnected
    <3>4. QED
      BY <2>6, <3>2, <3>3
  <2>7. CASE Connected \/ NotConnected
    BY <1>0, <2>7 DEF Connected, NotConnected, Moves
  <2>8. CASE Up \/ Stop
    BY <1>0, <2>8 DEF Up, Stop
  <2>9. CASE StopAll \/ CamerasStopped
    <3>1. running' = running
      BY <2>9 DEF StopAll, CamerasStopped, Moves
    <3>2. CASE StopAll
      BY <1>0, <3>1, <3>2 DEF StopAll
    <3>3. CASE CamerasStopped
      BY <1>0, <3>1, <3>3 DEF CamerasStopped
    <3>4. QED
      BY <2>9, <3>2, <3>3
  <2>10. CASE StopInference \/ JoinInference \/ CloseRouter \/ \E k \in Sinks : AddSink(k)
    BY <1>0, <2>10 DEF StopInference, JoinInference, CloseRouter, AddSink, OnPipes
  <2>11. CASE JoinRouter
    BY <1>0, <2>11 DEF JoinRouter, RouterStops
  <2>12. QED
    BY <1>1, <2>1, <2>2, <2>3, <2>4, <2>5, <2>6, <2>7, <2>8, <2>9, <2>10, <2>11
       DEF MainSteps, MainStep
<1>2. ASSUME NEW o \in Operators, OperatorStep(o) PROVE MainInv'
  BY <1>2, OperatorsLeave
<1>3. CASE ThreadStep
  BY <1>3, ThreadsLeave
<1>4. CASE UNCHANGED vars
  BY <1>4 DEF vars, clients
<1>5. QED
  BY <1>1, <1>2, <1>3, <1>4, KindsOfSteps

(* The main thread's steps write nothing of the operators'.                *)
LEMMA MainLeaves ==
  ASSUME EdgeTypeOK, MainInv, MainSteps
  PROVE  UNCHANGED <<failFast, operator, calls, inferring, delivering>>
BY MainPipeTypes DEF MainSteps

(* Which session an operator holds, and that its id is the session's.      *)
LEMMA OperatorStepInv ==
  ASSUME EdgeTypeOK, MainInv, OperatorInv, [Next]_vars PROVE OperatorInv'
<1> USE DEF OperatorInv
<1>0. ClientsOK /\ operator \in [Operators -> [at : Calls, id : Ids, session : Some]]
  BY DEF EdgeTypeOK, ClientsOK
<1>1. CASE MainSteps
  BY <1>1, MainLeaves
<1>2. ASSUME NEW o \in Operators, OperatorStep(o) PROVE OperatorInv'
  <2>1. registered \subseteq Sessions
    BY DEF EdgeTypeOK, ObjectsOK
  <2>2. \/ CallReturns(o)
        \/ \E point \in Free : Drops(o, point)
        \/ \E point \in Free : Goes(o, point) /\ operator[o].at \in Free
        \/ \E point \in Calls \ Free : Goes(o, point) /\ operator[o].at \notin Free
        \/ \E point \in Calls \ Free, s \in Sessions : Takes(o, point, s)
    BY <1>2, <2>1
       DEF OperatorStep, AddSchedule, AddEmplace, AddIsRunning, AddFind, AddStart, AddFails,
           Restart, StopCamera, EraseNone, StopErased, Unschedule, AddCamera, Find, Erase,
           EraseAdded, Erases, Calls, Found, Free, At
  <2>3. ASSUME NEW p \in Operators
        PROVE  IF operator'[p].at \in Free THEN operator'[p].session = NoSession
               ELSE /\ operator'[p].session \in Sessions
                    /\ operator'[p].id = IdOf[operator'[p].session]
    <3>1. CASE p # o
      BY <1>0, <2>2, <3>1 DEF Goes, Drops, Takes, CallReturns
    <3>2. CASE p = o /\ CallReturns(o)
      BY <1>0, <3>2 DEF OperatorIdle, Free, CallReturns
    <3>3. ASSUME p = o, NEW point \in Free,
                 Drops(o, point) \/ (Goes(o, point) /\ operator[o].at \in Free)
          PROVE  operator'[p].at \in Free /\ operator'[p].session = NoSession
      BY <1>0, <3>3 DEF Goes, Drops, Takes, CallReturns
    <3>4. ASSUME p = o, NEW point \in Calls \ Free, Goes(o, point), operator[o].at \notin Free
          PROVE  /\ operator'[p].at \notin Free /\ operator'[p].session \in Sessions
                 /\ operator'[p].id = IdOf[operator'[p].session]
      BY <1>0, <3>4 DEF Goes, Drops, Takes, CallReturns
    <3>5. ASSUME p = o, NEW point \in Calls \ Free, NEW s \in Sessions, Takes(o, point, s)
          PROVE  /\ operator'[p].at \notin Free /\ operator'[p].session \in Sessions
                 /\ operator'[p].id = IdOf[operator'[p].session]
      BY <1>0, <3>5 DEF Goes, Drops, Takes, CallReturns
    <3>6. QED
      BY <2>2, <3>1, <3>2, <3>3, <3>4, <3>5
  <2>4. QED
    BY <2>3
<1>3. CASE ThreadStep
  BY <1>3, ThreadsLeave
<1>4. CASE UNCHANGED vars
  BY <1>4 DEF vars, clients
<1>5. QED
  BY <1>1, <1>2, <1>3, <1>4, KindsOfSteps
-----------------------------------------------------------------------------
(* Where each step of the main thread begins and ends.                     *)
LEMMA MainPoints ==
  ASSUME EdgeTypeOK, MainInv
  PROVE  /\ ConfigureAdd => main.at = "configure" /\ main'.at = "configure"
         /\ ConfigureFails => main.at = "configure" /\ main'.at = "notReady"
         /\ ConfigureEnds => main.at = "configure" /\ main'.at \in {"notReady", "idle"}
         /\ Start => main.at = "idle" /\ main'.at = "sinks"
         /\ StartSink => main.at = "sinks" /\ main'.at = "sinks"
         /\ StartSinkFails => main.at = "sinks" /\ main'.at = "idle"
         /\ StartAll => main.at = "startAll" /\ main'.at = "startCameras"
         /\ StartCamera => main.at = "startCameras" /\ main'.at = "startCameras"
         /\ StartCameraFails =>
              main.at = "startCameras" /\ main'.at \in {"startCameras", "stopAll"}
         /\ CamerasStarted =>
              main.at = "startCameras" /\ main'.at \in {"stopInference", "wait", "up"}
         /\ Connected => main.at = "wait" /\ main'.at = "wait"
         /\ NotConnected => main.at = "wait" /\ main'.at = "stopAll"
         /\ AllConnected => main.at = "wait" /\ main'.at = "up"
         /\ Up => main.at = "up" /\ main'.at = "idle"
         /\ Stop => main.at = "idle" /\ main'.at = "stopAll"
         /\ StopAll => main.at = "stopAll" /\ main'.at = "stopCameras"
         /\ StopOne => main.at = "stopCameras" /\ main'.at = "stopCameras"
         /\ CamerasStopped => main.at = "stopCameras" /\ main'.at = "stopInference"
<1> USE DEF MainAt, Goto, Done, Returns, Idle
<1>0. main \in [at : Points, todo : SUBSET (Sessions \cup Sinks), held : SUBSET Sessions,
                any : BOOLEAN]
  BY DEF EdgeTypeOK, ClientsOK
<1>1. /\ ConfigureAdd => main.at = "configure" /\ main'.at = "configure"
      /\ ConfigureFails => main.at = "configure" /\ main'.at = "notReady"
      /\ ConfigureEnds => main.at = "configure" /\ main'.at \in {"notReady", "idle"}
  <2>1. ConfigureAdd => main.at = "configure" /\ main'.at = "configure"
    <3>1. ASSUME NEW s, main' = [main EXCEPT !.todo = @ \ {s}] PROVE main'.at = main.at
      BY <1>0, <3>1
    <3>2. QED
      BY <3>1 DEF ConfigureAdd
  <2>2. ConfigureFails => main.at = "configure" /\ main'.at = "notReady"
    BY <1>0 DEF ConfigureFails
  <2>3. ConfigureEnds => main.at = "configure" /\ main'.at \in {"notReady", "idle"}
    BY <1>0 DEF ConfigureEnds
  <2>4. QED
    BY <2>1, <2>2, <2>3
<1>2. /\ Start => main.at = "idle" /\ main'.at = "sinks"
      /\ StartSink => main.at = "sinks" /\ main'.at = "sinks"
      /\ StartSinkFails => main.at = "sinks" /\ main'.at = "idle"
      /\ StartAll => main.at = "startAll" /\ main'.at = "startCameras"
  <2>1. Start => main.at = "idle" /\ main'.at = "sinks"
    BY <1>0 DEF Start
  <2>2. StartSink => main.at = "sinks" /\ main'.at = "sinks"
    <3>1. ASSUME NEW k, main' = [main EXCEPT !.todo = @ \ {k}] PROVE main'.at = main.at
      BY <1>0, <3>1
    <3>2. QED
      BY <3>1 DEF StartSink
  <2>3. StartSinkFails => main.at = "sinks" /\ main'.at = "idle"
    BY <1>0 DEF StartSinkFails
  <2>4. StartAll => main.at = "startAll" /\ main'.at = "startCameras"
    BY <1>0 DEF StartAll
  <2>5. QED
    BY <2>1, <2>2, <2>3, <2>4
<1>3. /\ StartCamera => main.at = "startCameras" /\ main'.at = "startCameras"
      /\ StartCameraFails =>
              main.at = "startCameras" /\ main'.at \in {"startCameras", "stopAll"}
  BY <1>0 DEF StartCamera, StartCameraFails
<1>4. CamerasStarted => main.at = "startCameras" /\ main'.at \in {"stopInference", "wait", "up"}
  BY <1>0 DEF CamerasStarted
<1>5. /\ Connected => main.at = "wait" /\ main'.at = "wait"
      /\ NotConnected => main.at = "wait" /\ main'.at = "stopAll"
      /\ AllConnected => main.at = "wait" /\ main'.at = "up"
  BY <1>0 DEF Connected, NotConnected, AllConnected
<1>6. /\ Up => main.at = "up" /\ main'.at = "idle"
      /\ Stop => main.at = "idle" /\ main'.at = "stopAll"
  BY <1>0 DEF Up, Stop
<1>7. /\ StopAll => main.at = "stopAll" /\ main'.at = "stopCameras"
      /\ StopOne => main.at = "stopCameras" /\ main'.at = "stopCameras"
      /\ CamerasStopped => main.at = "stopCameras" /\ main'.at = "stopInference"
  BY <1>0 DEF StopAll, StopOne, CamerasStopped
<1>8. QED
  BY <1>1, <1>2, <1>3, <1>4, <1>5, <1>6, <1>7

(* The steps that leave the pipes alone, and the flag where it is.         *)
LEMMA PipesAlone ==
  ASSUME \/ ConfigureAdd \/ ConfigureFails \/ ConfigureEnds \/ StartAll \/ StartCamera
         \/ StartCameraFails \/ CamerasStarted \/ Connected \/ NotConnected \/ AllConnected
         \/ StopAll \/ StopOne \/ CamerasStopped \/ Start \/ Stop \/ Up
  PROVE  /\ UNCHANGED <<sink, router, packets, delivering, inference, inferring>>
         /\ ~Stop /\ ~Up => running' = running
BY DEF ConfigureAdd, ConfigureFails, ConfigureEnds, StartAll, StartCamera, StartCameraFails,
       CamerasStarted, Connected, NotConnected, AllConnected, StopAll, StopOne, CamerasStopped,
       Start, Stop, Up, Moves, Sessionwise, pipes

(* When router, inference and their threads run.                           *)
LEMMA PipesStep == ASSUME EdgeTypeOK, MainInv, PipesInv, OperatorInv, [Next]_vars PROVE PipesInv'
<1> USE DEF PipesInv, Serving, MainAt
<1>0. main \in [at : Points, todo : SUBSET (Sessions \cup Sinks), held : SUBSET Sessions,
                any : BOOLEAN]
  BY DEF EdgeTypeOK, ClientsOK
<1>1. CASE MainSteps
  <2>1. CASE ConfigureAdd \/ ConfigureFails \/ ConfigureEnds \/ Start
    BY <2>1, MainPoints, PipesAlone DEF MainInv, Start
  <2>2. CASE StartAll \/ StartCamera \/ StartCameraFails \/ CamerasStarted
    BY <2>2, MainPoints, PipesAlone DEF MainInv
  <2>3. CASE Connected \/ NotConnected \/ AllConnected \/ StopAll \/ StopOne \/ CamerasStopped
    BY <2>3, MainPoints, PipesAlone DEF MainInv
  <2>4. CASE Up
    BY <2>4, MainPoints, PipesAlone DEF MainInv, Up
  <2>5. CASE Stop
    BY <2>5, MainPoints, PipesAlone DEF MainInv, Stop
  <2>6. CASE StartSink \/ StartSinkFails
    BY <2>6, MainPoints DEF MainInv, StartSink, StartSinkFails, OnPipes
  <2>7. CASE StartDelivery
    BY <1>0, <2>7 DEF MainInv, StartDelivery, OnPipes, Goto, Returns, Idle
  <2>8. CASE StartInference
    BY <1>0, <2>8 DEF MainInv, StartInference, OnPipes, Goto
  <2>9. CASE StopInference
    BY <1>0, <2>9 DEF MainInv, StopInference, OnPipes, Goto
  <2>10. CASE JoinInference
    BY <1>0, <2>10 DEF MainInv, JoinInference, OnPipes, Goto
  <2>11. CASE CloseRouter
    BY <1>0, <2>11 DEF MainInv, CloseRouter, OnPipes, Goto
  <2>12. CASE JoinRouter
    BY <1>0, <2>12 DEF MainInv, JoinRouter, RouterStops, Returns, Idle
  <2>13. CASE \E k \in Sinks : AddSink(k)
    BY <2>13 DEF AddSink, OnPipes
  <2>14. QED
    BY <1>1, <2>1, <2>2, <2>3, <2>4, <2>5, <2>6, <2>7, <2>8, <2>9, <2>10, <2>11, <2>12, <2>13
       DEF MainSteps, MainStep
<1>2. ASSUME NEW o \in Operators, OperatorStep(o) PROVE PipesInv'
  BY <1>2, OperatorsLeave
<1>3. CASE ThreadStep
  <2>1. UNCHANGED <<main, running, router, inference>>
    BY <1>3, ThreadsLeave
  <2>2. inference = "stopped" => inferring' = inferring
    BY <1>3 DEF ThreadStep, SessionEnds, InferenceTakes, InferenceHandsOver, DeliveryTakes,
                Delivered
  <2>3. router = "stopped" => packets' = packets /\ delivering' = delivering
    BY <1>3 DEF ThreadStep, SessionEnds, InferenceTakes, InferenceHandsOver, DeliveryTakes,
                Delivered
  <2>4. QED
    BY <2>1, <2>2, <2>3
<1>4. CASE UNCHANGED vars
  BY <1>4 DEF vars, clients, pipes
<1>5. QED
  BY <1>1, <1>2, <1>3, <1>4, KindsOfSteps

(* Which sinks are started.                                                *)
LEMMA SinksStep ==
  ASSUME EdgeTypeOK, MainInv, PipesInv, SinksInv, OperatorInv, [Next]_vars PROVE SinksInv'
<1> USE DEF SinksInv, MainAt
<1>0. /\ main \in [at : Points, todo : SUBSET (Sessions \cup Sinks), held : SUBSET Sessions,
                   any : BOOLEAN]
      /\ sink \in [Sinks -> {"absent", "stopped", "started"}]
  BY DEF EdgeTypeOK, ClientsOK, PipesOK
<1>1. CASE MainSteps
  <2>1. CASE ConfigureAdd \/ ConfigureFails \/ ConfigureEnds
    BY <2>1, MainPoints, PipesAlone DEF MainInv
  <2>2. CASE Start
    <3>1. main'.todo = Sinks
      BY <2>2 DEF Start, Idle
    <3>2. QED
      BY <2>2, <3>1, MainPoints, PipesAlone
  <2>3. CASE \/ StartAll \/ StartCamera \/ StartCameraFails \/ CamerasStarted
             \/ Connected \/ NotConnected \/ AllConnected \/ StopAll \/ StopOne \/ CamerasStopped
    BY <2>3, MainPoints, PipesAlone
  <2>4. CASE Up
    <3>1. running'
      BY <2>4 DEF Up
    <3>2. QED
      BY <2>4, <3>1, MainPoints, PipesAlone
  <2>5. CASE Stop
    BY <2>5, MainPoints, PipesAlone
  <2>6. CASE StartSink
    <3>1. PICK k \in main.todo : /\ main' = [main EXCEPT !.todo = @ \ {k}]
                                 /\ sink' = [sink EXCEPT ![k] = "started"]
                                 /\ router' = router /\ main.at = "sinks"
      BY <2>6 DEF StartSink, Done
    <3>2. main'.todo = main.todo \ {k} /\ main'.at = "sinks"
      BY <1>0, <3>1
    <3>3. \A j \in Sinks : sink[j] = "started" => sink'[j] = "started"
      BY <1>0, <3>1
    <3>4. k \in Sinks /\ sink'[k] = "started"
      BY <1>0, <3>1 DEF MainInv
    <3>5. QED
      BY <3>1, <3>2, <3>3, <3>4
  <2>7. CASE StartSinkFails
    <3>1. router' = "stopped"
      BY <2>7 DEF StartSinkFails, PipesInv, Serving, MainInv, MainAt
    <3>2. main'.at = "idle" /\ \A k \in Sinks : sink'[k] = "stopped"
      BY <2>7 DEF StartSinkFails, Returns, Idle, StopSinks
    <3>3. QED
      BY <3>1, <3>2
  <2>8. CASE StartDelivery
    <3>1. \A k \in Sinks : sink[k] = "started"
      BY <2>8 DEF StartDelivery
    <3>2. CASE router' = "running" /\ Goto("inference") /\ UNCHANGED sink
      <4>1. main'.at = "inference"
        BY <1>0, <3>2 DEF Goto
      <4>2. QED
        BY <3>1, <3>2, <4>1
    <3>3. CASE router' = "stopped" /\ StopSinks /\ Returns
      <4>1. main'.at = "idle" /\ \A k \in Sinks : sink'[k] = "stopped"
        BY <3>3 DEF Returns, Idle, StopSinks
      <4>2. QED
        BY <3>3, <4>1
    <3>4. QED
      BY <2>8, <3>2, <3>3 DEF StartDelivery
  <2>9. CASE StartInference \/ StopInference \/ JoinInference \/ CloseRouter
    <3>1. /\ main'.at \in {"startAll", "joinInference", "closeRouter", "joinRouter"}
          /\ main.at \in {"inference", "stopInference", "joinInference", "closeRouter"}
          /\ sink' = sink
      BY <1>0, <2>9 DEF StartInference, StopInference, JoinInference, CloseRouter, Goto
    <3>2. router # "stopped"
      BY <3>1 DEF PipesInv, Serving, MainAt, MainInv
    <3>3. QED
      BY <3>1, <3>2
  <2>10. CASE JoinRouter
    <3>1. router' = "stopped" /\ main'.at = "idle" /\ \A k \in Sinks : sink'[k] = "stopped"
      BY <2>10 DEF JoinRouter, RouterStops, Returns, Idle, StopSinks
    <3>2. QED
      BY <3>1
  <2>11. ASSUME NEW k \in Sinks, AddSink(k) PROVE SinksInv'
    <3>1. /\ sink' = [sink EXCEPT ![k] = "stopped"] /\ UNCHANGED <<main, router, running>>
          /\ main.at = "idle" /\ router = "stopped"
      BY <2>11 DEF AddSink, OnPipes
    <3>2. QED
      BY <1>0, <3>1
  <2>12. QED
    BY <1>1, <2>1, <2>2, <2>3, <2>4, <2>5, <2>6, <2>7, <2>8, <2>9, <2>10, <2>11
       DEF MainSteps, MainStep
<1>2. ASSUME NEW o \in Operators, OperatorStep(o) PROVE SinksInv'
  BY <1>2, OperatorsLeave
<1>3. CASE ThreadStep
  BY <1>3, ThreadsLeave
<1>4. CASE UNCHANGED vars
  BY <1>4 DEF vars, clients, pipes
<1>5. QED
  BY <1>1, <1>2, <1>3, <1>4, KindsOfSteps

(* Who is in the map holds its session.                                    *)
LEMMA RegisteredAreHeld == \A s \in registered' : Held(s)'
BY DEF Held

(* Before a configuration is complete nobody else calls.                   *)
LEMMA ConfigureStep ==
  ASSUME EdgeTypeOK, MainInv, ConfigureInv, OperatorInv, [Next]_vars PROVE ConfigureInv'
<1> USE DEF ConfigureInv
<1>0. registered \subseteq Sessions /\ scheduled \subseteq Sessions
  BY DEF EdgeTypeOK, ObjectsOK
<1>1. SUFFICES ASSUME main'.at \in {"configure", "notReady"}
               PROVE  (\A o \in Operators : operator'[o].at = "idle") /\ scheduled' = registered'
  OBVIOUS
<1>2. ASSUME NEW cameras, NEW after, SessionsBecome(after, cameras, late), cameras = registered'
      PROVE  scheduled' = registered'
  <2>1. registered' \subseteq Sessions
    BY TypeStep DEF EdgeTypeOK, ObjectsOK
  <2>2. QED
    BY <1>2, <2>1, EffectOfBecoming, RegisteredAreHeld DEF Effect
<1>3. CASE MainSteps
  <2>1. UNCHANGED operator
    BY <1>3, MainLeaves
  <2>2. CASE ConfigureAdd
    <3>1. PICK s \in main.todo : /\ Found(IdOf[s]) = {} /\ Register(s)
                                 /\ SessionsBecome(Set(s, "stopped"), scheduled \cup {s}, late)
      BY <2>2 DEF ConfigureAdd
    <3>2. registered' = registered \cup {s}
      BY <3>1 DEF Register
    <3>3. main.at = "configure"
      BY <2>2, MainPoints
    <3>4. QED
      BY <1>2, <2>1, <3>1, <3>2, <3>3
  <2>3. CASE ConfigureFails
    <3>1. registered' = {} /\ SessionsBecome(session, {}, late) /\ main.at = "configure"
      BY <2>3 DEF ConfigureFails, MainAt
    <3>2. QED
      BY <1>2, <2>1, <3>1
  <2>4. CASE ConfigureEnds
    <3>1. SessionsBecome(session, scheduled, late) /\ main.at = "configure"
          /\ registered' = registered
      BY <2>4 DEF ConfigureEnds, MainAt, Moves, Settle
    <3>2. QED
      BY <1>2, <2>1, <3>1
  <2>5. CASE \/ Start \/ StartSink \/ StartSinkFails \/ StartAll \/ StartCamera
             \/ StartCameraFails \/ CamerasStarted \/ Connected \/ NotConnected \/ AllConnected
             \/ Up \/ Stop \/ StopAll \/ StopOne \/ CamerasStopped
    BY <1>1, <2>5, MainPoints
  <2>6. CASE \/ StartDelivery \/ StartInference \/ StopInference \/ JoinInference
             \/ CloseRouter \/ JoinRouter \/ \E k \in Sinks : AddSink(k)
    <3>1. main \in [at : Points, todo : SUBSET (Sessions \cup Sinks), held : SUBSET Sessions,
                    any : BOOLEAN]
      BY DEF EdgeTypeOK, ClientsOK
    <3>2. main'.at \notin {"configure", "notReady"}
      BY <2>6, <3>1 DEF StartDelivery, StartInference, StopInference, JoinInference,
         CloseRouter, JoinRouter, RouterStops, AddSink, Goto, Returns, Idle, MainAt
    <3>3. QED
      BY <1>1, <3>2
  <2>7. QED
    BY <1>3, <2>2, <2>3, <2>4, <2>5, <2>6 DEF MainSteps, MainStep
<1>4. ASSUME NEW o \in Operators, OperatorStep(o) PROVE FALSE
  <2>1. main'.at = main.at /\ operator[o].at = "idle"
    BY <1>1, <1>4, OperatorsLeave
  <2>2. QED
    BY <1>1, <1>4, <2>1
       DEF OperatorStep, AddSchedule, AddEmplace, AddIsRunning, AddFind, AddStart, AddFails,
           Restart, StopCamera, EraseNone, StopErased, Unschedule, AddCamera, Find, Erase,
           EraseAdded, At, Called
<1>5. CASE ThreadStep
  <2>1. UNCHANGED <<main, operator, registered>>
    BY <1>5, ThreadsLeave
  <2>2. \E after : SessionsBecome(after, scheduled, late)
    BY <1>5 DEF ThreadStep, SessionEnds, InferenceTakes, InferenceHandsOver, DeliveryTakes,
                Delivered, Settle
  <2>3. QED
    BY <1>1, <1>2, <2>1, <2>2
<1>6. CASE UNCHANGED vars
  BY <1>1, <1>6 DEF vars, clients, objects
<1>7. QED
  BY <1>3, <1>4, <1>5, <1>6, KindsOfSteps
-----------------------------------------------------------------------------
(* Where each step of an operator begins and ends, and what it holds then. *)
Entry(point, id, s) == [at |-> point, id |-> id, session |-> s]

(* Where the steps of an operator lead.                                    *)
LEMMA OperatorPoints ==
  ASSUME EdgeTypeOK, OperatorInv, NEW o \in Operators
  PROVE  LET id == operator[o].id
             s0 == operator[o].session
         IN /\ \A s \in Sessions : AddCamera(o, s) =>
                 At(o, "idle") /\ operator'[o] = Entry("schedule", IdOf[s], s)
            /\ AddSchedule(o) =>
                 At(o, "schedule") /\ operator'[o] \in {OperatorIdle, Entry("emplace", id, s0)}
            /\ AddEmplace(o) =>
                 At(o, "emplace") /\ operator'[o] = Entry("isRunning", id, NoSession)
            /\ AddIsRunning(o) =>
                 /\ At(o, "isRunning") /\ s0 = NoSession
                 /\ operator'[o] = IF running THEN Entry("find", id, NoSession)
                                              ELSE OperatorIdle
            /\ AddFind(o) =>
                 /\ At(o, "find") /\ s0 = NoSession
                 /\ IF Found(id) = {} THEN operator'[o] = Entry("erase", id, NoSession)
                    ELSE \E s \in Found(id) : operator'[o] = Entry("start", id, s)
            /\ AddStart(o) => At(o, "start") /\ operator'[o] = OperatorIdle
            /\ AddFails(o) => At(o, "start") /\ operator'[o] = Entry("erase", id, NoSession)
            /\ Restart(o) => At(o, "restart") /\ operator'[o] = OperatorIdle
            /\ StopCamera(o) => At(o, "stop") /\ operator'[o] = OperatorIdle
            /\ EraseNone(o) =>
                 At(o, "erase") /\ s0 = NoSession /\ operator'[o] = OperatorIdle
            /\ StopErased(o) =>
                 At(o, "stopErased") /\ operator'[o] = Entry("unschedule", id, s0)
            /\ Unschedule(o) => At(o, "unschedule") /\ operator'[o] = OperatorIdle
            /\ \A s \in Sessions : Find(o, s) =>
                 /\ At(o, "idle") /\ s0 = NoSession /\ s \in registered
                 /\ \E point \in {"restart", "stop"} : operator'[o] = Entry(point, IdOf[s], s)
            /\ \A s \in Sessions : Erase(o, s) \/ EraseAdded(o, s) =>
                 /\ operator[o].at \in {"idle", "erase"} /\ s0 = NoSession /\ s \in registered
                 /\ operator'[o] = Entry("stopErased", IdOf[s], s)
            /\ OperatorStep(o) => \A p \in Operators \ {o} : operator'[p] = operator[p]
<1> DEFINE id == operator[o].id
           s0 == operator[o].session
<1> USE DEF At, Entry
<1>0. /\ operator \in [Operators -> [at : Calls, id : Ids, session : Some]]
      /\ operator[o] = [at |-> operator[o].at, id |-> id, session |-> s0]
  BY DEF EdgeTypeOK, ClientsOK
<1>1. \A point : Goes(o, point) => operator'[o] = Entry(point, id, s0)
  BY <1>0 DEF Goes
<1>2. \A point : Drops(o, point) => operator'[o] = Entry(point, id, NoSession)
  BY <1>0 DEF Drops
<1>3. \A point, s : Takes(o, point, s) => operator'[o] = Entry(point, IdOf[s], s)
  BY <1>0 DEF Takes
<1>4. CallReturns(o) => operator'[o] = OperatorIdle
  BY <1>0 DEF CallReturns
<1>5. operator[o].at \in Free => s0 = NoSession
  BY DEF OperatorInv
<1>6. \A s \in Sessions : AddCamera(o, s) =>
        At(o, "idle") /\ operator'[o] = Entry("schedule", IdOf[s], s)
  BY <1>3 DEF AddCamera, Called
<1>7. AddSchedule(o) =>
        At(o, "schedule") /\ operator'[o] \in {OperatorIdle, Entry("emplace", id, s0)}
  BY <1>1, <1>4 DEF AddSchedule
<1>8. AddEmplace(o) => At(o, "emplace") /\ operator'[o] = Entry("isRunning", id, NoSession)
  BY <1>2 DEF AddEmplace
<1>9. AddIsRunning(o) => /\ At(o, "isRunning") /\ s0 = NoSession
                         /\ operator'[o] = IF running THEN Entry("find", id, NoSession)
                                                      ELSE OperatorIdle
  BY <1>1, <1>4, <1>5 DEF AddIsRunning, Free
<1>10. AddFind(o) => /\ At(o, "find") /\ s0 = NoSession
                     /\ IF Found(id) = {} THEN operator'[o] = Entry("erase", id, NoSession)
                        ELSE \E s \in Found(id) : operator'[o] = Entry("start", id, s)
  <2>1. SUFFICES ASSUME AddFind(o)
                 PROVE  /\ At(o, "find") /\ s0 = NoSession
                        /\ IF Found(id) = {} THEN operator'[o] = Entry("erase", id, NoSession)
                           ELSE \E s \in Found(id) : operator'[o] = Entry("start", id, s)
    OBVIOUS
  <2>2. At(o, "find") /\ s0 = NoSession
    BY <1>5, <2>1 DEF AddFind, Free
  <2>3. CASE Found(id) = {}
    BY <1>1, <2>1, <2>2, <2>3 DEF AddFind
  <2>4. CASE Found(id) # {}
    <3>1. PICK s \in Found(id) : Takes(o, "start", s)
      BY <2>1, <2>4 DEF AddFind
    <3>2. IdOf[s] = id
      BY DEF Found
    <3>3. operator'[o] = Entry("start", id, s)
      BY <1>3, <3>1, <3>2
    <3>4. QED
      BY <2>2, <2>4, <3>3
  <2>5. QED
    BY <2>3, <2>4
<1>11. /\ AddStart(o) => At(o, "start") /\ operator'[o] = OperatorIdle
       /\ AddFails(o) => At(o, "start") /\ operator'[o] = Entry("erase", id, NoSession)
       /\ Restart(o) => At(o, "restart") /\ operator'[o] = OperatorIdle
       /\ StopCamera(o) => At(o, "stop") /\ operator'[o] = OperatorIdle
       /\ EraseNone(o) => At(o, "erase") /\ s0 = NoSession /\ operator'[o] = OperatorIdle
       /\ StopErased(o) => At(o, "stopErased") /\ operator'[o] = Entry("unschedule", id, s0)
       /\ Unschedule(o) => At(o, "unschedule") /\ operator'[o] = OperatorIdle
  BY <1>1, <1>2, <1>4, <1>5
     DEF AddStart, AddFails, Restart, StopCamera, EraseNone, StopErased, Unschedule, Free
<1>12. \A s \in Sessions : Find(o, s) =>
         /\ At(o, "idle") /\ s0 = NoSession /\ s \in registered
         /\ \E point \in {"restart", "stop"} : operator'[o] = Entry(point, IdOf[s], s)
  BY <1>3, <1>5 DEF Find, Called, Free
<1>13. \A s \in Sessions : Erase(o, s) \/ EraseAdded(o, s) =>
         /\ operator[o].at \in {"idle", "erase"} /\ s0 = NoSession /\ s \in registered
         /\ operator'[o] = Entry("stopErased", IdOf[s], s)
  BY <1>3, <1>5 DEF Erase, EraseAdded, Erases, Called, Free
<1>14. OperatorStep(o) => \A p \in Operators \ {o} : operator'[p] = operator[p]
  <2>1. ASSUME NEW point, NEW s,
               Goes(o, point) \/ Drops(o, point) \/ Takes(o, point, s) \/ CallReturns(o)
        PROVE  \A p \in Operators \ {o} : operator'[p] = operator[p]
    BY <1>0, <2>1 DEF Goes, Drops, Takes, CallReturns
  <2>2. OperatorStep(o) =>
          \E point, s : Goes(o, point) \/ Drops(o, point) \/ Takes(o, point, s) \/ CallReturns(o)
    BY DEF OperatorStep, AddSchedule, AddEmplace, AddIsRunning, AddFind, AddStart, AddFails,
           Restart, StopCamera, EraseNone, StopErased, Unschedule, AddCamera, Find, Erase,
           EraseAdded, Erases
  <2>3. QED
    BY <2>1, <2>2
<1>15. QED
  BY <1>6, <1>7, <1>8, <1>9, <1>10, <1>11, <1>12, <1>13, <1>14
-----------------------------------------------------------------------------
(* changes ...                                                             *)
LEMMA HoldWhileAlone ==
  ASSUME HoldInv, session' = session, \A s \in Sessions : Held(s)' <=> Held(s)
  PROVE  HoldInv'
BY DEF HoldInv

(* What setting one session makes of another.                              *)
LEMMA SetIsAlive ==
  ASSUME ObjectsOK, NEW t \in Sessions, NEW now \in {"stopped", "running", "ended"},
         NEW s \in Sessions
  PROVE  Set(t, now)[s] = IF s = t THEN now ELSE session[s]
BY DEF ObjectsOK, Set

(* The sessions the main thread holds by its copies of the map.            *)
LEMMA MainHolds ==
  ASSUME EdgeTypeOK, MainInv, MainSteps
  PROVE  /\ main'.held \subseteq main.held \cup registered
         /\ \/ StartAll \/ CamerasStarted \/ AllConnected \/ StopAll \/ CamerasStopped
            \/ main'.held = main.held
<1> USE DEF MainAt, Goto, Done, Returns, Idle
<1>0. main \in [at : Points, todo : SUBSET (Sessions \cup Sinks), held : SUBSET Sessions,
                any : BOOLEAN]
  BY DEF EdgeTypeOK, ClientsOK
<1>1. ASSUME NEW x, main' = [main EXCEPT !.todo = @ \ {x}] PROVE main'.held = main.held
  BY <1>0, <1>1
<1>2. CASE ConfigureAdd \/ StartSink \/ Connected \/ StopOne
  BY <1>1, <1>2 DEF ConfigureAdd, StartSink, Connected, StopOne
<1>3. CASE StartCamera \/ StartCameraFails
  BY <1>0, <1>3 DEF StartCamera, StartCameraFails
<1>4. ASSUME main.at \notin {"startCameras", "wait", "stopAll", "stopCameras"},
             Returns \/ \E point : Goto(point)
      PROVE  main'.held = main.held
  <2>1. main.held = {}
    BY <1>4 DEF MainInv
  <2>2. QED
    BY <1>0, <1>4, <2>1
<1>5. CASE ConfigureFails \/ ConfigureEnds \/ StartSinkFails \/ StartDelivery \/ StartInference
  <2>1. Returns \/ \E point : Goto(point)
    BY <1>5 DEF ConfigureFails, ConfigureEnds, StartSinkFails, StartDelivery, StartInference
  <2>2. main.at \in {"configure", "sinks", "inference"}
    BY <1>5 DEF ConfigureFails, ConfigureEnds, StartSinkFails, StartDelivery, StartInference
  <2>3. QED
    BY <1>4, <2>1, <2>2
<1>6. CASE \/ Start \/ Stop \/ Up \/ StopInference \/ JoinInference \/ CloseRouter \/ JoinRouter
  <2>1. CASE Start
    BY <1>0, <2>1 DEF Start, MainInv
  <2>2. CASE Stop \/ Up \/ StopInference \/ JoinInference \/ CloseRouter \/ JoinRouter
    <3>1. Returns \/ \E point : Goto(point)
      BY <2>2 DEF Stop, Up, StopInference, JoinInference, CloseRouter, JoinRouter, RouterStops
    <3>2. main.at \in {"idle", "up", "stopInference", "joinInference", "closeRouter", "joinRouter"}
      BY <2>2 DEF Stop, Up, StopInference, JoinInference, CloseRouter, JoinRouter, RouterStops
    <3>3. QED
      BY <1>4, <3>1, <3>2
  <2>3. QED
    BY <1>6, <2>1, <2>2
<1>7. CASE NotConnected \/ \E k \in Sinks : AddSink(k)
  BY <1>0, <1>7 DEF NotConnected, AddSink
<1>8. CASE StartAll \/ CamerasStarted \/ AllConnected \/ StopAll \/ CamerasStopped
  <2>1. CASE StartAll \/ StopAll \/ CamerasStopped \/ AllConnected
    <3>1. StartAll => main'.held = registered
      BY DEF StartAll
    <3>2. StopAll => main'.held = main.held \cup registered
      BY <1>0 DEF StopAll
    <3>3. CamerasStopped \/ AllConnected => main'.held = {}
      BY DEF CamerasStopped, AllConnected
    <3>4. QED
      BY <2>1, <3>1, <3>2, <3>3
  <2>2. CASE CamerasStarted
    <3>1. \/ main' = [Idle EXCEPT !.at = "stopInference"] \/ main' = [Idle EXCEPT !.at = "up"]
          \/ main' = [main EXCEPT !.at = "wait", !.todo = main.held]
      BY <2>2 DEF CamerasStarted
    <3>2. QED
      BY <1>0, <2>2, <3>1
  <2>3. QED
    BY <1>8, <2>1, <2>2
<1>9. QED
  BY <1>2, <1>3, <1>4, <1>5, <1>6, <1>7, <1>8 DEF MainSteps, MainStep

(* It registers only what it configures, and the pipes are empty already   *)
(* when start() empties them.                                              *)
LEMMA MainRegisters ==
  ASSUME EdgeTypeOK, MainInv, PipesInv, MainSteps
  PROVE  /\ packets' = packets
         /\ registered' = registered \/ ConfigureAdd \/ (ConfigureFails /\ registered' = {})
<1>1. packets' = packets
  <2>1. CASE StartDelivery
    BY <2>1 DEF StartDelivery, PipesInv, Serving, MainInv, MainAt
  <2>2. CASE \/ StartSink \/ StartSinkFails \/ StartInference \/ StopInference
             \/ JoinInference \/ CloseRouter \/ JoinRouter \/ \E k \in Sinks : AddSink(k)
    BY <2>2 DEF StartSink, StartSinkFails, StartInference, StopInference, JoinInference,
                CloseRouter, JoinRouter, RouterStops, AddSink
  <2>3. QED
    BY <2>1, <2>2, PipesAlone DEF MainSteps, MainStep
<1>2. registered' = registered \/ ConfigureAdd \/ (ConfigureFails /\ registered' = {})
  BY DEF MainSteps, MainStep, ConfigureFails, ConfigureEnds, Start, Stop, StartSink,
         StartSinkFails, StartDelivery, StartInference, StartAll, StartCamera,
         StartCameraFails, CamerasStarted, Connected, NotConnected, AllConnected, Up, StopAll,
         StopOne, CamerasStopped, StopInference, JoinInference, CloseRouter, JoinRouter,
         RouterStops, AddSink, Moves, Sessionwise, OnPipes, objects
<1>3. QED
  BY <1>1, <1>2

(* It holds nothing that nobody held, but for what it configures.          *)
LEMMA MainTakesNothingNew ==
  ASSUME EdgeTypeOK, MainInv, PipesInv, MainSteps, NEW s \in Sessions, Held(s)'
  PROVE  Held(s) \/ (ConfigureAdd /\ s \in registered')
<1>1. UNCHANGED <<operator, inferring, delivering>>
  BY MainLeaves
<1>2. main'.held \subseteq main.held \cup registered
  BY MainHolds
<1>3. packets' = packets /\ (registered' \subseteq registered \/ ConfigureAdd)
  BY MainRegisters
<1>4. QED
  BY <1>1, <1>2, <1>3 DEF Held

(* The session in an operator's hands after its step was there before, or  *)
(* is one of the map's, or the one it adds; it registers nothing else.     *)
LEMMA OperatorTakes ==
  ASSUME EdgeTypeOK, OperatorInv, NEW o \in Operators, OperatorStep(o), NEW s \in Sessions
  PROVE  /\ operator'[o].session = s =>
              s = operator[o].session \/ s \in registered \/ AddCamera(o, s)
         /\ s \in registered' => s \in registered \/ (AddEmplace(o) /\ s = operator[o].session)
<1>1. s \in registered' => s \in registered \/ (AddEmplace(o) /\ s = operator[o].session)
  BY DEF OperatorStep, AddSchedule, AddEmplace, AddIsRunning, AddFind, AddStart, AddFails,
         Restart, StopCamera, EraseNone, StopErased, Unschedule, AddCamera, Find, Erase,
         EraseAdded, Erases, OperatorStarts, OperatorStops, Register, Mine, objects
<1>2. ASSUME NEW point, NEW id, NEW t PROVE Entry(point, id, t).session = t
  BY DEF Entry
<1>3. OperatorIdle.session # s /\ NoSession # s
  BY EdgeAssumption DEF OperatorIdle
<1>4. SUFFICES ASSUME operator'[o].session = s
               PROVE  s = operator[o].session \/ s \in registered \/ AddCamera(o, s)
  BY <1>1
<1>5. CASE \E t \in Sessions : AddCamera(o, t)
  BY <1>2, <1>4, <1>5, OperatorPoints
<1>6. CASE \/ AddSchedule(o) \/ AddEmplace(o) \/ AddIsRunning(o) \/ AddStart(o) \/ AddFails(o)
           \/ Restart(o) \/ StopCamera(o) \/ EraseNone(o) \/ StopErased(o) \/ Unschedule(o)
  BY <1>2, <1>3, <1>4, <1>6, OperatorPoints
<1>7. CASE AddFind(o)
  BY <1>2, <1>3, <1>4, <1>7, OperatorPoints DEF Found
<1>8. CASE \E t \in Sessions : Find(o, t) \/ Erase(o, t) \/ EraseAdded(o, t)
  BY <1>2, <1>3, <1>4, <1>8, OperatorPoints
<1>9. QED
  BY <1>5, <1>6, <1>7, <1>8 DEF OperatorStep

(* An operator takes nothing that nobody held, but for what it adds.       *)
LEMMA OperatorTakesNothingNew ==
  ASSUME EdgeTypeOK, OperatorInv, NEW o \in Operators, OperatorStep(o),
         NEW s \in Sessions, Held(s)'
  PROVE  Held(s) \/ AddCamera(o, s)
<1>1. UNCHANGED <<main, packets, inferring, delivering>>
  BY OperatorsLeave
<1>2. \A p \in Operators \ {o} : operator'[p] = operator[p]
  BY OperatorPoints
<1>3. QED
  BY <1>1, <1>2, OperatorTakes DEF Held

(* A thread hands on what is in the pipes; the scheduler gives out only    *)
(* what has been started.                                                  *)
InPipes(s) == s \in {inferring, delivering} \/ \E i \in DOMAIN packets : packets[i] = s

(* A session in the pipes was there before, or is taken by the inference   *)
(* thread.                                                                 *)
LEMMA ThreadsHandOn ==
  ASSUME EdgeTypeOK, ThreadStep, NEW s \in Sessions, InPipes(s)'
  PROVE  InPipes(s) \/ (InferenceTakes(s) /\ inferring' = s)
<1>2. packets \in Seq(Sessions)
  BY DEF EdgeTypeOK, PipesOK
<1>3. inferring' = s => InPipes(s) \/ InferenceTakes(s)
  <2>1. ASSUME NEW t \in Sessions, InferenceTakes(t), inferring' = s PROVE InferenceTakes(s)
    BY <2>1 DEF InferenceTakes
  <2>2. inferring' = inferring \/ inferring' = NoSession \/ \E t \in Sessions : InferenceTakes(t)
    BY DEF ThreadStep, SessionEnds, InferenceHandsOver, DeliveryTakes, Delivered
  <2>3. QED
    BY <2>1, <2>2, EdgeAssumption DEF InPipes
<1>4. packets # <<>> => /\ Head(packets) = packets[1] /\ 1 \in DOMAIN packets
                        /\ \A i \in DOMAIN Tail(packets) :
                             i + 1 \in DOMAIN packets /\ Tail(packets)[i] = packets[i + 1]
  BY <1>2
<1>5. delivering' = s => InPipes(s)
  <2>1. \/ delivering' = delivering \/ delivering' = NoSession
        \/ packets # <<>> /\ delivering' = Head(packets)
    BY DEF ThreadStep, SessionEnds, InferenceTakes, InferenceHandsOver, DeliveryTakes, Delivered
  <2>2. QED
    BY <1>4, <2>1, EdgeAssumption DEF InPipes
<1>6. ASSUME NEW i \in DOMAIN packets', packets'[i] = s PROVE InPipes(s)
  <2>1. CASE packets' = packets
    BY <1>6, <2>1 DEF InPipes
  <2>2. CASE DeliveryTakes
    BY <1>4, <1>6, <2>2 DEF DeliveryTakes, InPipes
  <2>3. CASE InferenceHandsOver /\ packets' # packets
    <3> DEFINE room == IF Len(packets) = ResultCapacity THEN Tail(packets) ELSE packets
    <3>1. packets # <<>> \/ Len(packets) # ResultCapacity
      BY EdgeAssumption
    <3>2. room \in Seq(Sessions) /\ \A j \in DOMAIN room : \E k \in DOMAIN packets :
                                      room[j] = packets[k]
      BY <1>2, <1>4, <3>1
    <3>3. packets' = Append(room, inferring) /\ inferring \in Sessions
      BY <2>3 DEF InferenceHandsOver, EdgeTypeOK, PipesOK, Some
    <3> HIDE DEF room
    <3>4. packets'[i] = inferring \/ (i \in DOMAIN room /\ packets'[i] = room[i])
      BY <1>6, <3>2, <3>3
    <3>5. QED
      BY <1>6, <3>2, <3>4 DEF InPipes
  <2>4. QED
    BY <2>1, <2>2, <2>3 DEF ThreadStep, SessionEnds, InferenceTakes, Delivered
<1>7. QED
  BY <1>3, <1>5, <1>6 DEF InPipes

(* So the threads hold no session that was not held.                       *)
LEMMA ThreadsTakeNothingNew ==
  ASSUME EdgeTypeOK, HoldInv, ThreadStep, NEW s \in Sessions, Held(s)'
  PROVE  Held(s)
<1>1. UNCHANGED <<main, operator, registered>>
  BY ThreadsLeave
<1>2. InPipes(s)' => Held(s)
  BY ThreadsHandOn DEF InPipes, Held, InferenceTakes, HoldInv
<1>3. QED
  BY <1>1, <1>2 DEF Held, InPipes

(* The steps that let no object go and take none.                          *)
Plain == \/ StartSink \/ StartSinkFails \/ StartDelivery \/ StartInference \/ StopInference
         \/ JoinInference \/ CloseRouter \/ JoinRouter \/ Start \/ Stop \/ Up
         \/ \E k \in Sinks : AddSink(k)

(* Steps of the main thread that do not touch the map or the sessions.     *)
LEMMA PlainSteps ==
  ASSUME EdgeTypeOK, MainInv, PipesInv, Plain
  PROVE  /\ UNCHANGED <<registered, scheduled, session, operator>>
         /\ \A s \in Sessions : Held(s)' <=> Held(s)
         /\ excused' \in {excused, {}}
         /\ late' = late \/ Up
<1>0. MainSteps
  BY DEF Plain, MainSteps, MainStep
<1>1. UNCHANGED <<operator, inferring, delivering>>
  BY <1>0, MainLeaves
<1>2. UNCHANGED <<registered, scheduled, session>> /\ excused' \in {excused, {}}
      /\ (late' = late \/ Up)
  BY DEF Plain, StartSink, StartSinkFails, StartDelivery, StartInference, StopInference,
         JoinInference, CloseRouter, JoinRouter, RouterStops, Start, Stop, Up, AddSink,
         OnPipes, objects
<1>3. main'.held = main.held
  <2>1. ~StartAll /\ ~CamerasStarted /\ ~AllConnected /\ ~StopAll /\ ~CamerasStopped
    BY DEF Plain, StartSink, StartSinkFails, StartDelivery, StartInference, StopInference,
           JoinInference, CloseRouter, JoinRouter, Start, Stop, Up, AddSink, StartAll,
           CamerasStarted, AllConnected, StopAll, CamerasStopped, MainAt
  <2>2. QED
    BY <1>0, <2>1, MainHolds
<1>4. packets' = packets
  BY <1>0, MainRegisters
<1>5. QED
  BY <1>1, <1>2, <1>3, <1>4 DEF Held

(* The steps of the main thread that work on the objects.                  *)
LEMMA MovingSteps ==
  ASSUME \/ ConfigureEnds \/ StartAll \/ CamerasStarted \/ Connected \/ NotConnected
         \/ AllConnected \/ StopAll \/ CamerasStopped
  PROVE  /\ UNCHANGED <<registered, excused>>
         /\ Effect(session, scheduled, late)
         /\ SessionsBecome(session, scheduled, late)
<1>1. Moves
  BY DEF ConfigureEnds, StartAll, CamerasStarted, Connected, NotConnected, AllConnected,
         StopAll, CamerasStopped
<1>2. QED
  BY <1>1, EffectOfBecoming DEF Moves, Settle

(* The operators' calls that only look.                                    *)
Looks(o) == \/ AddIsRunning(o) \/ AddFind(o) \/ EraseNone(o) \/ \E s \in Sessions : Find(o, s)

(* Steps of an operator that only look.                                    *)
LEMMA LookingSteps ==
  ASSUME EdgeTypeOK, OperatorInv, NEW o \in Operators, Looks(o)
  PROVE  /\ UNCHANGED <<registered, scheduled, session, late>>
         /\ \A s \in Sessions : Held(s)' <=> Held(s)
         /\ AddIsRunning(o) \/ excused' = excused
<1>0. OperatorStep(o)
  BY DEF Looks, OperatorStep
<1>1. UNCHANGED <<main, packets, inferring, delivering>>
  BY <1>0, OperatorsLeave
<1>2. UNCHANGED <<registered, scheduled, session, late>> /\ (AddIsRunning(o) \/ excused' = excused)
  BY DEF Looks, AddIsRunning, AddFind, EraseNone, Find, objects
<1>3. \A p \in Operators \ {o} : operator'[p] = operator[p]
  BY <1>0, OperatorPoints
<1>4. operator[o].session = NoSession
  BY OperatorPoints DEF Looks
<1>5. operator'[o].session \in registered \cup {NoSession}
  <2>1. ASSUME NEW point, NEW id, NEW t PROVE Entry(point, id, t).session = t
    BY DEF Entry
  <2>2. OperatorIdle.session = NoSession
    BY DEF OperatorIdle
  <2>3. QED
    BY <2>1, <2>2, OperatorPoints DEF Looks, Found
<1>6. NoSession \notin Sessions
  BY EdgeAssumption
<1>7. QED
  BY <1>1, <1>2, <1>3, <1>4, <1>5, <1>6 DEF Held

(* What the operators' other calls do to the objects.                      *)
Works(o) == \/ AddStart(o) \/ AddFails(o) \/ Restart(o) \/ StopCamera(o) \/ StopErased(o)
Started(o) == /\ excused' = excused \ {Mine(o)}
              /\ Effect(Set(Mine(o), "running"), scheduled,
                        IF running THEN {} ELSE late \cup {Mine(o)})
Stopped(o) == /\ Excuse({Mine(o)})
              /\ Effect(Set(Mine(o), "stopped"), scheduled, late)

(* What each of an operator's steps does to the map and the sessions.      *)
LEMMA OperatorEffects ==
  ASSUME NEW o \in Operators
  PROVE  /\ \A s \in Sessions : AddCamera(o, s) =>
              /\ registered' = registered /\ session[s] = "none" /\ Found(IdOf[s]) = {}
              /\ excused' = excused \ {s} /\ main.at \notin {"configure", "notReady"}
              /\ Effect(Set(s, "stopped"), scheduled, late)
         /\ AddSchedule(o) =>
              /\ registered' = registered /\ excused' = excused
              /\ IF \E t \in scheduled : IdOf[t] = operator[o].id
                 THEN CallReturns(o) /\ Effect(session, scheduled, late)
                 ELSE Goes(o, "emplace") /\ Effect(session, scheduled \cup {Mine(o)}, late)
         /\ AddEmplace(o) =>
              /\ Register(Mine(o)) /\ excused' = excused
              /\ Effect(session, scheduled, late)
         /\ Works(o) => registered' = registered /\ (Started(o) \/ Stopped(o))
         /\ Unschedule(o) =>
              /\ registered' = registered /\ excused' = excused
              /\ Effect(session, {s \in scheduled : IdOf[s] # operator[o].id}, late)
         /\ \A s \in Sessions : Erase(o, s) \/ EraseAdded(o, s) =>
              /\ registered' = registered \ {s} /\ excused' = excused
              /\ Effect(session, scheduled, late)
<1> USE EffectOfBecoming
<1>1. \A s \in Sessions : AddCamera(o, s) =>
        /\ registered' = registered /\ session[s] = "none" /\ Found(IdOf[s]) = {}
        /\ excused' = excused \ {s} /\ main.at \notin {"configure", "notReady"}
        /\ Effect(Set(s, "stopped"), scheduled, late)
  BY DEF AddCamera, Called
<1>2. AddSchedule(o) =>
        /\ registered' = registered /\ excused' = excused
        /\ IF \E t \in scheduled : IdOf[t] = operator[o].id
           THEN CallReturns(o) /\ Effect(session, scheduled, late)
           ELSE Goes(o, "emplace") /\ Effect(session, scheduled \cup {Mine(o)}, late)
  <2>1. CASE \E t \in scheduled : IdOf[t] = operator[o].id
    BY <2>1 DEF AddSchedule
  <2>2. CASE ~\E t \in scheduled : IdOf[t] = operator[o].id
    BY <2>2 DEF AddSchedule
  <2>3. QED
    BY <2>1, <2>2
<1>3. /\ AddEmplace(o) => /\ Register(Mine(o)) /\ excused' = excused
                          /\ Effect(session, scheduled, late)
      /\ Unschedule(o) => /\ registered' = registered /\ excused' = excused
                          /\ Effect(session, {s \in scheduled : IdOf[s] # operator[o].id}, late)
      /\ \A s \in Sessions : Erase(o, s) \/ EraseAdded(o, s) =>
           /\ registered' = registered \ {s} /\ excused' = excused
           /\ Effect(session, scheduled, late)
  BY DEF AddEmplace, Unschedule, Erase, EraseAdded, Erases, Settle
<1>4. Works(o) => registered' = registered /\ (Started(o) \/ Stopped(o))
  BY DEF Works, AddStart, AddFails, Restart, StopCamera, StopErased, OperatorStarts,
         OperatorStops, Started, Stopped
<1>5. QED
  BY <1>1, <1>2, <1>3, <1>4

(* What a start or stop of one session of the copy does.                   *)
LEMMA SessionwiseEffect ==
  ASSUME NEW s, NEW now, NEW excuses, NEW outside, Sessionwise(s, now, excuses, outside)
  PROVE  /\ registered' = registered /\ excused' = excuses
         /\ Effect(Set(s, now), scheduled, outside)
BY EffectOfBecoming DEF Sessionwise

(* ... or a session changes its state.                                     *)
LEMMA HoldWhileEffect ==
  ASSUME HoldInv, NEW after, NEW cameras, NEW outside, Effect(after, cameras, outside),
         \A s \in Sessions : Held(s)' => after[s] # "none"
  PROVE  HoldInv'
BY DEF Effect, HoldInv

(* Every step keeps the objects that are held, and no others.              *)
LEMMA HoldStep ==
  ASSUME EdgeTypeOK, MainInv, OperatorInv, PipesInv, HoldInv, [Next]_vars PROVE HoldInv'
<1>0. ObjectsOK
  BY DEF EdgeTypeOK
<1>1. \A s \in Sessions : Held(s) => session[s] # "none"
  BY DEF HoldInv
<1>2. ASSUME NEW t \in Sessions, NEW now \in {"stopped", "running", "ended"}, NEW cameras,
             NEW outside, Effect(Set(t, now), cameras, outside),
             \A s \in Sessions : Held(s)' => Held(s) \/ s = t
      PROVE  HoldInv'
  <2>1. \A s \in Sessions : Held(s)' => Set(t, now)[s] # "none"
    BY <1>0, <1>1, <1>2, SetIsAlive
  <2>2. QED
    BY <1>2, <2>1, HoldWhileEffect
<1>3. ASSUME NEW cameras, NEW outside, Effect(session, cameras, outside),
             \A s \in Sessions : Held(s)' => Held(s)
      PROVE  HoldInv'
  BY <1>1, <1>3, HoldWhileEffect
<1>4. CASE MainSteps
  <2>1. \A s \in Sessions : Held(s)' => Held(s) \/ (ConfigureAdd /\ s \in registered')
    BY <1>4, MainTakesNothingNew
  <2>2. CASE Plain
    BY <2>2, PlainSteps, HoldWhileAlone
  <2>3. CASE \/ ConfigureEnds \/ StartAll \/ CamerasStarted \/ Connected \/ NotConnected
             \/ AllConnected \/ StopAll \/ CamerasStopped
    <3>1. ~ConfigureAdd
      BY <2>3 DEF ConfigureEnds, StartAll, CamerasStarted, Connected, NotConnected,
                  AllConnected, StopAll, CamerasStopped, ConfigureAdd, MainAt
    <3>2. QED
      BY <1>3, <2>1, <2>3, <3>1, MovingSteps
  <2>4. CASE StartCamera \/ StartCameraFails \/ StopOne
    <3>1. PICK s \in main.todo, now \in {"stopped", "running"} :
                 \E excuses, outside : Sessionwise(s, now, excuses, outside)
      BY <2>4 DEF StartCamera, StartCameraFails, StopOne
    <3>2. s \in Sessions
      <4>1. main.held \subseteq Sessions
        BY DEF EdgeTypeOK, ClientsOK
      <4>2. QED
        BY <2>4, <4>1 DEF MainInv, MainAt, StartCamera, StartCameraFails, StopOne
    <3>3. ~ConfigureAdd
      BY <2>4 DEF ConfigureAdd, MainAt, StartCamera, StartCameraFails, StopOne
    <3>4. QED
      BY <1>2, <2>1, <3>1, <3>2, <3>3, SessionwiseEffect
  <2>5. CASE ConfigureAdd
    <3>1. PICK t \in main.todo : /\ Found(IdOf[t]) = {} /\ Register(t)
                                 /\ SessionsBecome(Set(t, "stopped"), scheduled \cup {t}, late)
      BY <2>5 DEF ConfigureAdd
    <3>2. t \in Sessions
      BY <2>5 DEF MainInv, MainAt, ConfigureAdd
    <3>3. \A s \in registered' : Held(s) \/ s = t
      BY <3>1 DEF Register, Held
    <3>4. QED
      BY <1>2, <2>1, <3>1, <3>2, <3>3, EffectOfBecoming
  <2>6. CASE ConfigureFails
    <3>1. SessionsBecome(session, {}, late) /\ ~ConfigureAdd
      BY <2>6 DEF ConfigureFails, ConfigureAdd, Found, Register, Done, Goto
    <3>2. QED
      BY <1>3, <2>1, <3>1, EffectOfBecoming
  <2>7. QED
    BY <1>4, <2>2, <2>3, <2>4, <2>5, <2>6 DEF MainSteps, MainStep, Plain
<1>5. ASSUME NEW o \in Operators, OperatorStep(o) PROVE HoldInv'
  <2>1. \A s \in Sessions : Held(s)' => Held(s) \/ AddCamera(o, s)
    BY <1>5, OperatorTakesNothingNew
  <2>2. CASE Looks(o)
    BY <2>2, LookingSteps, HoldWhileAlone
  <2>3. CASE \E t \in Sessions : AddCamera(o, t)
    <3>1. PICK t \in Sessions : AddCamera(o, t)
      BY <2>3
    <3>2. ASSUME NEW s \in Sessions, AddCamera(o, s) PROVE s = t
      <4>1. /\ operator'[o] = Entry("schedule", IdOf[s], s)
            /\ operator'[o] = Entry("schedule", IdOf[t], t)
        BY <3>1, <3>2, OperatorPoints
      <4>2. QED
        BY <4>1 DEF Entry
    <3>3. QED
      BY <1>2, <2>1, <3>1, <3>2, OperatorEffects
  <2>4. CASE Works(o)
    <3>1. Mine(o) \in Sessions /\ operator[o].at # "idle"
      BY <2>4 DEF Works, AddStart, AddFails, Restart, StopCamera, StopErased, At, Mine,
                  OperatorInv, Free
    <3>2. \A s \in Sessions : ~AddCamera(o, s)
      BY <3>1 DEF AddCamera, Called, At
    <3>3. QED
      BY <1>2, <2>1, <2>4, <3>1, <3>2, OperatorEffects DEF Started, Stopped
  <2>5. CASE \/ AddSchedule(o) \/ AddEmplace(o) \/ Unschedule(o)
             \/ \E s \in Sessions : Erase(o, s) \/ EraseAdded(o, s)
    <3>1. \A s \in Sessions : Held(s)' => Held(s)
      <4>1. ASSUME NEW s \in Sessions, AddCamera(o, s) PROVE FALSE
        <5>1. /\ operator[o].at = "idle" /\ operator'[o] = Entry("schedule", IdOf[s], s)
          BY <4>1, OperatorPoints DEF At
        <5>2. \E t \in Sessions : operator'[o] = Entry("stopErased", IdOf[t], t)
          BY <2>5, <5>1, OperatorPoints DEF At
        <5>3. QED
          BY <5>1, <5>2 DEF Entry
      <4>2. QED
        BY <2>1, <4>1
    <3>2. QED
      BY <1>3, <2>5, <3>1, OperatorEffects
  <2>6. QED
    BY <1>5, <2>2, <2>3, <2>4, <2>5 DEF OperatorStep, Works, Looks
<1>6. CASE ThreadStep
  <2>1. \A s \in Sessions : Held(s)' => Held(s)
    BY <1>6, ThreadsTakeNothingNew
  <2>2. CASE \E s \in Sessions : SessionEnds(s)
    BY <1>2, <2>1, <2>2, EffectOfBecoming DEF SessionEnds
  <2>3. CASE \/ \E s \in Sessions : InferenceTakes(s)
             \/ InferenceHandsOver \/ DeliveryTakes \/ Delivered
    <3>1. SessionsBecome(session, scheduled, late)
      BY <2>3 DEF InferenceTakes, InferenceHandsOver, DeliveryTakes, Delivered, Settle
    <3>2. QED
      BY <1>3, <2>1, <3>1, EffectOfBecoming
  <2>4. QED
    BY <1>6, <2>2, <2>3 DEF ThreadStep
<1>7. CASE UNCHANGED vars
  BY <1>7 DEF vars, clients, objects, pipes, HoldInv, Held
<1>8. QED
  BY <1>4, <1>5, <1>6, <1>7, KindsOfSteps
-----------------------------------------------------------------------------
(* What a step may do to a session that stays an object.                   *)
LEMMA MainSessions ==
  ASSUME EdgeTypeOK, MainInv, PipesInv, MainSteps, NEW s \in Sessions, Held(s)'
  PROVE  \/ session'[s] = session[s] \/ ConfigureAdd
         \/ /\ s \in main.todo
            /\ \/ StartCamera /\ session'[s] = "running"
               \/ (StartCameraFails \/ StopOne) /\ session'[s] = "stopped"
<1>0. ObjectsOK
  BY DEF EdgeTypeOK
<1>1. CASE Plain
  BY <1>1, PlainSteps
<1>2. CASE \/ ConfigureEnds \/ StartAll \/ CamerasStarted \/ Connected \/ NotConnected
           \/ AllConnected \/ StopAll \/ CamerasStopped
  BY <1>2, MovingSteps DEF Effect
<1>3. CASE ConfigureFails
  BY <1>3, EffectOfBecoming DEF ConfigureFails, Effect
<1>4. ASSUME NEW t \in main.todo, MainAt("startCameras") \/ MainAt("stopCameras"),
             NEW now \in {"running", "stopped"}, NEW outside, NEW excuses,
             Sessionwise(t, now, excuses, outside)
      PROVE  session'[s] = session[s] \/ (s = t /\ session'[s] = now)
  <2>1. t \in Sessions
    <3>1. main.held \subseteq Sessions
      BY DEF EdgeTypeOK, ClientsOK
    <3>2. QED
      BY <1>4, <3>1 DEF MainInv, MainAt
  <2>2. Set(t, now)[s] = IF s = t THEN now ELSE session[s]
    BY <1>0, <2>1, SetIsAlive
  <2>3. QED
    BY <1>4, <2>2, SessionwiseEffect DEF Effect
<1>5. CASE StartCamera
  BY <1>4, <1>5 DEF StartCamera
<1>6. CASE StartCameraFails \/ StopOne
  BY <1>4, <1>6 DEF StartCameraFails, StopOne
<1>7. QED
  BY <1>1, <1>2, <1>3, <1>5, <1>6 DEF MainSteps, MainStep, Plain

(* What an operator makes of the state of a session.                       *)
LEMMA OperatorSessions ==
  ASSUME EdgeTypeOK, OperatorInv, NEW o \in Operators, OperatorStep(o), NEW s \in Sessions,
         Held(s)'
  PROVE  \/ session'[s] = session[s]
         \/ AddCamera(o, s) /\ session'[s] = "stopped"
         \/ Works(o) /\ s = Mine(o) /\ session'[s] \in {"running", "stopped"}
<1>0. ObjectsOK
  BY DEF EdgeTypeOK
<1>1. ASSUME NEW t \in Sessions, NEW now \in {"running", "stopped"}, NEW outside,
             Effect(Set(t, now), scheduled, outside)
      PROVE  session'[s] = session[s] \/ (s = t /\ session'[s] = now)
  <2>1. Set(t, now)[s] = IF s = t THEN now ELSE session[s]
    BY <1>0, SetIsAlive
  <2>2. QED
    BY <1>1, <2>1 DEF Effect
<1>2. CASE Looks(o)
  BY <1>2, LookingSteps
<1>3. CASE \E t \in Sessions : AddCamera(o, t)
  BY <1>1, <1>3, OperatorEffects
<1>4. CASE Works(o)
  <2>1. Mine(o) \in Sessions
    BY <1>4 DEF Works, AddStart, AddFails, Restart, StopCamera, StopErased, At, Mine,
                OperatorInv, Free
  <2>2. QED
    BY <1>1, <1>4, <2>1, OperatorEffects DEF Started, Stopped
<1>5. CASE \/ AddSchedule(o) \/ AddEmplace(o) \/ Unschedule(o)
           \/ \E t \in Sessions : Erase(o, t) \/ EraseAdded(o, t)
  BY <1>5, OperatorEffects DEF Effect
<1>6. QED
  BY <1>2, <1>3, <1>4, <1>5 DEF OperatorStep, Works, Looks

(* What the threads make of it: a session may end.                         *)
LEMMA ThreadSessions ==
  ASSUME EdgeTypeOK, ThreadStep, NEW s \in Sessions, Held(s)'
  PROVE  session'[s] = session[s] \/ (session[s] = "running" /\ session'[s] = "ended")
<1>1. CASE \E t \in Sessions : SessionEnds(t)
  <2>1. PICK t \in Sessions : session[t] = "running"
                              /\ SessionsBecome(Set(t, "ended"), scheduled, late)
    BY <1>1 DEF SessionEnds
  <2>2. Set(t, "ended")[s] = IF s = t THEN "ended" ELSE session[s]
    BY SetIsAlive DEF EdgeTypeOK
  <2>3. QED
    BY <2>1, <2>2, EffectOfBecoming DEF Effect
<1>2. CASE \/ \E t \in Sessions : InferenceTakes(t)
           \/ InferenceHandsOver \/ DeliveryTakes \/ Delivered
  <2>1. SessionsBecome(session, scheduled, late)
    BY <1>2 DEF InferenceTakes, InferenceHandsOver, DeliveryTakes, Delivered, Settle
  <2>2. QED
    BY <2>1, EffectOfBecoming DEF Effect
<1>3. QED
  BY <1>1, <1>2 DEF ThreadStep

(* A session an operator is adding stays its alone.                        *)
Alone(o) == /\ session[Mine(o)] = "stopped"
            /\ Mine(o) \notin registered \cup main.held /\ ~InPipes(Mine(o))
            /\ \A p \in Operators \ {o} : Mine(p) # Mine(o)

(* AddedInv, operator by operator.                                         *)
LEMMA AddedIsAlone == AddedInv <=> \A o \in Operators : operator[o].at \in Adding => Alone(o)
BY DEF AddedInv, Alone, Adding, At, InPipes

(* A session on its way into the map is held by its operator alone.        *)
LEMMA AddedStep ==
  ASSUME EdgeTypeOK, MainInv, ConfigureInv, OperatorInv, PipesInv, HoldInv, AddedInv, [Next]_vars
  PROVE  AddedInv'
<1>0. /\ \A o \in Operators : operator[o].at \in Adding => Alone(o)
      /\ OperatorInv' /\ registered \subseteq Sessions
  BY AddedIsAlone, OperatorStepInv DEF EdgeTypeOK, ObjectsOK
<1>1. SUFFICES ASSUME NEW o \in Operators, operator'[o].at \in Adding,
                      NEW s \in Sessions, s = operator'[o].session
               PROVE  Alone(o)'
  <2>1. AddedInv' <=> \A o \in Operators : operator'[o].at \in Adding => Alone(o)'
    BY DEF AddedInv, Alone, Adding, At, InPipes
  <2>2. \A o \in Operators : operator'[o].at \in Adding => operator'[o].session \in Sessions
    BY <1>0 DEF OperatorInv, Adding, Free
  <2>3. QED
    BY <1>1, <2>1, <2>2
<1>2. Held(s)'
  BY <1>1 DEF Held
<1>4. CASE MainSteps
  <2>1. UNCHANGED <<operator, inferring, delivering>>
    BY <1>4, MainLeaves
  <2>2. Alone(o) /\ s = Mine(o) /\ operator[o].at # "idle"
    BY <1>0, <1>1, <2>1 DEF Adding, Mine
  <2>3. ~ConfigureAdd
    BY <2>2 DEF ConfigureInv, ConfigureAdd, MainAt
  <2>4. s \notin main.held
    BY <2>2 DEF Alone
  <2>5. s \notin main.todo \/ ~(StartCamera \/ StartCameraFails \/ StopOne)
    BY <2>4 DEF MainInv, MainAt, StartCamera, StartCameraFails, StopOne
  <2>6. session'[s] = "stopped"
    BY <1>2, <1>4, <2>2, <2>3, <2>5, MainSessions DEF Alone
  <2>7. s \notin registered' \cup main'.held
    BY <1>4, <2>2, <2>3, MainRegisters, MainHolds DEF Alone
  <2>8. packets' = packets
    BY <1>4, MainRegisters
  <2>9. QED
    BY <1>1, <2>1, <2>2, <2>6, <2>7, <2>8 DEF Alone, Mine, InPipes
<1>5. ASSUME NEW p \in Operators, p # o, OperatorStep(p) PROVE Alone(o)'
  <2>1. UNCHANGED <<main, packets, inferring, delivering>>
    BY <1>5, OperatorsLeave
  <2>2. \A q \in Operators \ {p} : operator'[q] = operator[q]
    BY <1>5, OperatorPoints
  <2>3. Alone(o) /\ s = Mine(o)
    BY <1>0, <1>1, <1>5, <2>2 DEF Mine
  <2>4. s # Mine(p) /\ s \notin registered /\ session[s] = "stopped"
    BY <1>5, <2>3 DEF Alone
  <2>5. ~AddCamera(p, s)
    BY <2>4 DEF AddCamera
  <2>6. operator'[p].session # s /\ s \notin registered'
    BY <1>2, <1>5, <2>4, <2>5, OperatorTakes DEF Mine
  <2>7. session'[s] = "stopped"
    BY <1>2, <1>5, <2>4, <2>5, OperatorSessions
  <2>8. \A q \in Operators \ {o} : operator'[q].session # s
    BY <2>2, <2>3, <2>6 DEF Alone, Mine
  <2>9. QED
    BY <1>1, <2>1, <2>3, <2>6, <2>7, <2>8 DEF Alone, Mine, InPipes
<1>6. CASE OperatorStep(o)
  <2>1. UNCHANGED <<main, packets, inferring, delivering>>
    BY <1>6, OperatorsLeave
  <2>2. \A q \in Operators \ {o} : operator'[q] = operator[q]
    BY <1>6, OperatorPoints
  <2>3. (\E t \in Sessions : AddCamera(o, t)) \/ AddSchedule(o)
    <3>1. /\ \A point, id, t : Entry(point, id, t).at = point
          /\ OperatorIdle.at = "idle"
      BY DEF Entry, OperatorIdle
    <3>2. ~AddFind(o)
      BY <1>1, <3>1, OperatorPoints DEF Adding
    <3>3. ~AddEmplace(o) /\ ~AddIsRunning(o) /\ ~AddStart(o) /\ ~AddFails(o) /\ ~Restart(o)
          /\ ~StopCamera(o) /\ ~EraseNone(o) /\ ~StopErased(o) /\ ~Unschedule(o)
      BY <1>1, <3>1, OperatorPoints DEF Adding
    <3>4. \A t \in Sessions : ~Find(o, t) /\ ~Erase(o, t) /\ ~EraseAdded(o, t)
      BY <1>1, <3>1, OperatorPoints DEF Adding
    <3>5. QED
      BY <1>6, <3>2, <3>3, <3>4 DEF OperatorStep
  <2>4. CASE \E t \in Sessions : AddCamera(o, t)
    <3>1. PICK t \in Sessions : AddCamera(o, t)
      BY <2>4
    <3>2. t = s
      <4>1. operator'[o] = Entry("schedule", IdOf[t], t)
        BY <3>1, OperatorPoints
      <4>2. QED
        BY <1>1, <4>1 DEF Entry
    <3>3. ~Held(s) /\ registered' = registered
      BY <1>2, <3>1, <3>2, OperatorEffects DEF HoldInv
    <3>4. session'[s] = "stopped"
      <4>1. Effect(Set(s, "stopped"), scheduled, late)
        BY <3>1, <3>2, OperatorEffects
      <4>2. Set(s, "stopped")[s] = "stopped"
        BY <1>2, SetIsAlive DEF EdgeTypeOK
      <4>3. QED
        BY <1>2, <4>1, <4>2 DEF Effect
    <3>5. QED
      BY <1>1, <2>1, <2>2, <3>3, <3>4 DEF Alone, Mine, InPipes, Held
  <2>5. CASE AddSchedule(o)
    <3>1. operator[o].at = "schedule" /\ registered' = registered
      BY <2>5, OperatorPoints, OperatorEffects DEF At
    <3>2. s = operator[o].session
      <4>1. operator'[o] \in {OperatorIdle, Entry("emplace", operator[o].id, operator[o].session)}
        BY <2>5, OperatorPoints
      <4>2. QED
        BY <1>1, <4>1 DEF OperatorIdle, Entry, Adding
    <3>3. Alone(o)
      BY <1>0, <3>1 DEF Adding
    <3>4. session'[s] = session[s]
      BY <1>2, <2>5, OperatorEffects DEF Effect
    <3>5. QED
      BY <1>1, <2>1, <2>2, <3>1, <3>2, <3>3, <3>4 DEF Alone, Mine, InPipes
  <2>6. QED
    BY <2>3, <2>4, <2>5
<1>7. CASE ThreadStep
  <2>1. UNCHANGED <<main, operator, registered>>
    BY <1>7, ThreadsLeave
  <2>2. Alone(o) /\ s = Mine(o)
    BY <1>0, <1>1, <2>1 DEF Mine
  <2>3. session'[s] = "stopped"
    BY <1>2, <1>7, <2>2, ThreadSessions DEF Alone
  <2>4. ~InPipes(s)'
    BY <1>2, <1>7, <2>2, ThreadsHandOn DEF Alone, InferenceTakes
  <2>5. QED
    BY <1>1, <2>1, <2>2, <2>3, <2>4 DEF Alone, Mine
<1>8. CASE UNCHANGED vars
  BY <1>0, <1>1, <1>8 DEF vars, clients, objects, pipes, Alone, Mine, InPipes
<1>9. QED
  BY <1>4, <1>5, <1>6, <1>7, <1>8, KindsOfSteps

(* How an operator's call comes to where its session must be scheduled.    *)
LEMMA OperatorArrives ==
  ASSUME EdgeTypeOK, OperatorInv, NEW o \in Operators, OperatorStep(o),
         operator'[o].at \in Removing \cup {"emplace"}
  PROVE  \/ /\ AddSchedule(o) /\ operator'[o].at = "emplace"
            /\ operator'[o].session = operator[o].session
         \/ /\ StopErased(o) /\ operator'[o].at = "unschedule" /\ operator[o].at = "stopErased"
            /\ operator'[o].session = operator[o].session
         \/ \E s \in registered : /\ Erase(o, s) \/ EraseAdded(o, s)
                                  /\ operator'[o].at = "stopErased" /\ operator'[o].session = s
<1>1. /\ \A point, id, t : Entry(point, id, t).at = point /\ Entry(point, id, t).session = t
      /\ OperatorIdle.at = "idle"
  BY DEF Entry, OperatorIdle
<1>2. ~AddFind(o)
  BY <1>1, OperatorPoints DEF Removing
<1>3. ~AddEmplace(o) /\ ~AddIsRunning(o) /\ ~AddStart(o) /\ ~AddFails(o) /\ ~Restart(o)
      /\ ~StopCamera(o) /\ ~EraseNone(o) /\ ~Unschedule(o)
  BY <1>1, OperatorPoints DEF Removing
<1>4. \A t \in Sessions : ~Find(o, t) /\ ~AddCamera(o, t)
  BY <1>1, OperatorPoints DEF Removing
<1>5. CASE AddSchedule(o)
  BY <1>1, <1>5, OperatorPoints DEF Removing
<1>6. CASE StopErased(o)
  BY <1>1, <1>6, OperatorPoints DEF Removing, At
<1>7. CASE \E t \in Sessions : Erase(o, t) \/ EraseAdded(o, t)
  BY <1>1, <1>7, OperatorPoints
<1>8. QED
  BY <1>2, <1>3, <1>4, <1>5, <1>6, <1>7 DEF OperatorStep

(* A session on its way out of the map has no second owner.                *)
LEMMA RemovedStep ==
  ASSUME EdgeTypeOK, MainInv, ConfigureInv, OperatorInv, PipesInv, AddedInv, RemovedInv,
         [Next]_vars
  PROVE  RemovedInv'
<1> USE DEF RemovedInv, Mine
<1>1. CASE MainSteps
  <2>1. UNCHANGED operator
    BY <1>1, MainLeaves
  <2>2. registered' \subseteq registered \/ ConfigureAdd
    BY <1>1, MainRegisters
  <2>3. CASE ConfigureAdd
    <3>1. \A o \in Operators : operator[o].at = "idle"
      BY <2>3 DEF ConfigureInv, ConfigureAdd, MainAt
    <3>2. QED
      BY <2>1, <3>1 DEF Removing
  <2>4. QED
    BY <2>1, <2>2, <2>3
<1>2. ASSUME NEW p \in Operators, OperatorStep(p) PROVE RemovedInv'
  <2>0. registered \subseteq Sessions /\ OperatorInv'
    BY OperatorStepInv DEF EdgeTypeOK, ObjectsOK
  <2>1. \A q \in Operators \ {p} : operator'[q] = operator[q]
    BY <1>2, OperatorPoints
  <2>2. ASSUME NEW o \in Operators \ {p}, operator'[o].at \in Removing
        PROVE  operator'[o].session \notin registered'
    <3>1. operator[o].at \in Removing /\ operator'[o].session = operator[o].session
      BY <2>1, <2>2
    <3>2. operator[o].session \notin registered /\ operator[o].session \in Sessions
      BY <3>1 DEF OperatorInv, Removing, Free
    <3>3. AddEmplace(p) => operator[p].session # operator[o].session
      BY <2>2 DEF AddedInv, AddEmplace, At
    <3>4. QED
      BY <1>2, <3>1, <3>2, <3>3, OperatorTakes
  <2>3. ASSUME operator'[p].at \in Removing
        PROVE  /\ operator'[p].session \notin registered'
               /\ \A o \in Operators \ {p} :
                    operator[o].at \in Removing => operator'[p].session # operator[o].session
    <3>1. CASE StopErased(p) /\ operator[p].at = "stopErased"
                             /\ operator'[p].session = operator[p].session
      <4>1. registered' = registered
        BY <3>1, OperatorEffects DEF Works
      <4>2. QED
        BY <3>1, <4>1 DEF Removing
    <3>2. CASE \E s \in registered : /\ Erase(p, s) \/ EraseAdded(p, s)
                                     /\ operator'[p].session = s
      <4>1. PICK s \in registered : /\ Erase(p, s) \/ EraseAdded(p, s)
                                    /\ operator'[p].session = s
        BY <3>2
      <4>2. registered' = registered \ {s}
        BY <2>0, <4>1, OperatorEffects
      <4>3. QED
        BY <4>1, <4>2
    <3>3. QED
      BY <1>2, <2>3, <3>1, <3>2, OperatorArrives DEF Removing
  <2>4. QED
    BY <2>1, <2>2, <2>3
<1>3. CASE ThreadStep
  BY <1>3, ThreadsLeave
<1>4. CASE UNCHANGED vars
  BY <1>4 DEF vars, clients, objects
<1>5. QED
  BY <1>1, <1>2, <1>3, <1>4, KindsOfSteps

(* What the scheduler knows after a step.                                  *)
Scheduled(cameras) == /\ scheduled' \subseteq cameras
                      /\ \A s \in cameras : Held(s)' => s \in scheduled'

(* What an effect leaves in the scheduler.                                 *)
LEMMA EffectOnSchedule ==
  ASSUME NEW after, NEW cameras \in SUBSET Sessions, NEW outside,
         Effect(after, cameras, outside)
  PROVE  Scheduled(cameras)
BY DEF Effect, Scheduled

(* Map and scheduler agree but for the calls on their way.                 *)
LEMMA ScheduledStep ==
  ASSUME EdgeTypeOK, MainInv, ConfigureInv, OperatorInv, PipesInv, AddedInv, RemovedInv,
         ScheduledInv, [Next]_vars
  PROVE  ScheduledInv'
<1> USE DEF Mine
<1>0. /\ registered \subseteq Sessions /\ scheduled \subseteq Sessions
      /\ registered' \subseteq Sessions /\ scheduled' \subseteq Sessions
      /\ OperatorInv'
  BY TypeStep, OperatorStepInv DEF EdgeTypeOK, ObjectsOK
<1> DEFINE Bound == Removing \cup {"emplace"}
<1>1. /\ registered \subseteq scheduled
      /\ \A o \in Operators : operator[o].at \in Bound => operator[o].session \in scheduled
      /\ \A s, t \in scheduled : IdOf[s] = IdOf[t] => s = t
  BY DEF ScheduledInv
<1>2. ASSUME NEW cameras \in SUBSET Sessions, Scheduled(cameras), registered' \subseteq cameras,
             \A o \in Operators : operator'[o].at \in Bound => operator'[o].session \in cameras,
             \A s, t \in cameras : IdOf[s] = IdOf[t] => s = t
      PROVE  ScheduledInv'
  <2>1. registered' \subseteq scheduled'
    BY <1>2, RegisteredAreHeld DEF Scheduled
  <2>2. \A o \in Operators : operator'[o].at \in Bound => operator'[o].session \in scheduled'
    <3>1. \A o \in Operators, s \in Sessions : operator'[o].session = s => Held(s)'
      BY DEF Held
    <3>2. QED
      BY <1>0, <1>2, <3>1 DEF Scheduled
  <2>3. \A s, t \in scheduled' : IdOf[s] = IdOf[t] => s = t
    BY <1>2 DEF Scheduled
  <2>4. QED
    BY <2>1, <2>2, <2>3 DEF ScheduledInv
<1>3. CASE MainSteps
  <2>1. UNCHANGED operator
    BY <1>3, MainLeaves
  <2>2. CASE Plain
    BY <2>1, <2>2, PlainSteps DEF ScheduledInv
  <2>3. CASE ConfigureAdd
    <3>1. PICK t \in main.todo : /\ Found(IdOf[t]) = {} /\ Register(t)
                                 /\ SessionsBecome(Set(t, "stopped"), scheduled \cup {t}, late)
      BY <2>3 DEF ConfigureAdd
    <3>2. t \in Sessions /\ scheduled = registered /\ \A o \in Operators : operator[o].at = "idle"
      BY <2>3 DEF MainInv, ConfigureInv, MainAt, ConfigureAdd
    <3>3. registered' \subseteq scheduled \cup {t}
      BY <3>1, <3>2 DEF Register
    <3>4. \A s \in scheduled : IdOf[s] # IdOf[t]
      BY <3>1, <3>2 DEF Found
    <3>5. Scheduled(scheduled \cup {t})
      BY <1>0, <3>1, <3>2, EffectOfBecoming, EffectOnSchedule
    <3>6. \A s, u \in scheduled \cup {t} : IdOf[s] = IdOf[u] => s = u
      BY <1>1, <3>4
    <3>7. \A o \in Operators : operator'[o].at \notin Bound
      BY <2>1, <3>2 DEF Removing
    <3>8. scheduled \cup {t} \in SUBSET Sessions
      BY <1>0, <3>2
    <3> HIDE DEF Bound
    <3>9. QED
      BY <1>2, <3>3, <3>5, <3>6, <3>7, <3>8
  <2>4. CASE ConfigureFails
    <3>1. /\ registered' = {} /\ \A o \in Operators : operator[o].at = "idle"
          /\ SessionsBecome(session, {}, late)
      BY <2>4 DEF ConfigureInv, ConfigureFails, MainAt
    <3>2. Scheduled({})
      BY <3>1, EffectOfBecoming, EffectOnSchedule
    <3>3. QED
      BY <1>2, <2>1, <3>1, <3>2 DEF Removing
  <2>5. ASSUME NEW after, NEW outside, Effect(after, scheduled, outside), registered' = registered
        PROVE  ScheduledInv'
    <3>1. Scheduled(scheduled)
      BY <1>0, <2>5, EffectOnSchedule
    <3>2. QED
      BY <1>0, <1>1, <1>2, <2>1, <2>5, <3>1
  <2>6. CASE \/ ConfigureEnds \/ StartAll \/ CamerasStarted \/ Connected \/ NotConnected
             \/ AllConnected \/ StopAll \/ CamerasStopped
    BY <2>5, <2>6, MovingSteps
  <2>7. CASE StartCamera \/ StartCameraFails \/ StopOne
    <3>1. \E s, now, excuses, outside : Sessionwise(s, now, excuses, outside)
      BY <2>7 DEF StartCamera, StartCameraFails, StopOne
    <3>2. QED
      BY <2>5, <3>1, SessionwiseEffect
  <2>8. QED
    BY <1>3, <2>2, <2>3, <2>4, <2>6, <2>7 DEF MainSteps, MainStep, Plain
<1>4. ASSUME NEW o \in Operators, OperatorStep(o) PROVE ScheduledInv'
  <2>1. \A p \in Operators \ {o} : operator'[p] = operator[p]
    BY <1>4, OperatorPoints
  <2>2. registered' \subseteq scheduled
    <3>1. AddEmplace(o) => operator[o].session \in scheduled
      BY <1>1 DEF AddEmplace, At
    <3>2. QED
      BY <1>0, <1>1, <1>4, <3>1, OperatorTakes
  <2>3. ASSUME NEW p \in Operators, operator'[p].at \in Bound
        PROVE  \/ operator'[p].session \in scheduled
               \/ p = o /\ AddSchedule(o) /\ operator'[o].at = "emplace"
                        /\ operator'[o].session = operator[o].session
    <3>1. CASE p # o
      BY <1>1, <2>1, <2>3, <3>1
    <3>2. CASE p = o
      BY <1>1, <1>4, <2>3, <3>2, OperatorArrives DEF Removing
    <3>3. QED
      BY <3>1, <3>2
  <2>4. ASSUME ~AddSchedule(o), Scheduled(scheduled) PROVE ScheduledInv'
    BY <1>0, <1>1, <1>2, <2>2, <2>3, <2>4
  <2>5. CASE Looks(o)
    <3>1. Scheduled(scheduled)
      BY <2>5, LookingSteps DEF Scheduled
    <3>2. ~AddSchedule(o)
      BY <2>5 DEF Looks, AddIsRunning, AddFind, EraseNone, Find, Called, At, AddSchedule
    <3>3. QED
      BY <2>4, <3>1, <3>2
  <2>6. CASE AddSchedule(o)
    <3>1. CASE \E t \in scheduled : IdOf[t] = operator[o].id
      <4>1. Effect(session, scheduled, late) /\ CallReturns(o)
        BY <2>6, <3>1, OperatorEffects
      <4>2. operator'[o].at = "idle"
        BY <4>1 DEF CallReturns, OperatorIdle, EdgeTypeOK, ClientsOK
      <4>3. QED
        BY <1>0, <1>1, <1>2, <2>2, <2>3, <4>1, <4>2, EffectOnSchedule DEF Removing
    <3>2. CASE ~\E t \in scheduled : IdOf[t] = operator[o].id
      <4>1. Effect(session, scheduled \cup {operator[o].session}, late)
        BY <2>6, <3>2, OperatorEffects
      <4>2. /\ operator[o].session \in Sessions
            /\ operator[o].id = IdOf[operator[o].session]
        BY <2>6 DEF AddSchedule, At, OperatorInv, Free
      <4> DEFINE cameras == scheduled \cup {operator[o].session}
      <4>3. \A s, u \in cameras : IdOf[s] = IdOf[u] => s = u
        BY <1>1, <3>2, <4>2
      <4>4. cameras \in SUBSET Sessions /\ Scheduled(cameras)
        BY <1>0, <4>1, <4>2, EffectOnSchedule
      <4>5. registered' \subseteq cameras
        BY <2>2
      <4>6. \A p \in Operators : operator'[p].at \in Bound => operator'[p].session \in cameras
        BY <2>3
      <4> HIDE DEF cameras, Bound
      <4>7. QED
        BY <1>2, <4>3, <4>4, <4>5, <4>6
    <3>3. QED
      BY <3>1, <3>2
  <2>7. CASE Unschedule(o)
    <3>1. /\ Effect(session, {s \in scheduled : IdOf[s] # operator[o].id}, late)
          /\ operator[o].at = "unschedule" /\ registered' = registered
          /\ operator'[o] = OperatorIdle
      BY <2>7, OperatorEffects, OperatorPoints DEF At
    <3>2. operator[o].session \in scheduled /\ operator[o].id = IdOf[operator[o].session]
      BY <1>1, <3>1 DEF Removing, OperatorInv, Free
    <3>3. {s \in scheduled : IdOf[s] # operator[o].id} = scheduled \ {operator[o].session}
      BY <1>1, <3>2
    <3> DEFINE cameras == scheduled \ {operator[o].session}
    <3>4. cameras \in SUBSET Sessions /\ Scheduled(cameras)
      BY <1>0, <3>1, <3>3, EffectOnSchedule
    <3>5. registered' \subseteq cameras
      BY <1>1, <3>1 DEF RemovedInv, Removing
    <3>6. ASSUME NEW p \in Operators, operator'[p].at \in Bound
          PROVE  operator'[p].session \in cameras
      <4>1. p # o
        BY <3>1, <3>6 DEF OperatorIdle, Removing
      <4>2. operator'[p] = operator[p] /\ operator[p].session \in scheduled
        BY <1>1, <2>1, <3>6, <4>1
      <4>3. operator[p].session # operator[o].session
        BY <3>1, <3>6, <4>1, <4>2 DEF RemovedInv, AddedInv, At, Removing
      <4>4. QED
        BY <4>2, <4>3
    <3>7. \A s, u \in cameras : IdOf[s] = IdOf[u] => s = u
      BY <1>1
    <3> HIDE DEF cameras, Bound
    <3>8. QED
      BY <1>2, <3>4, <3>5, <3>6, <3>7
  <2>8. CASE \/ Works(o) \/ AddEmplace(o)
             \/ \E t \in Sessions : AddCamera(o, t) \/ Erase(o, t) \/ EraseAdded(o, t)
    <3>1. \E after, outside : Effect(after, scheduled, outside)
      BY <2>8, OperatorEffects DEF Started, Stopped
    <3>2. Scheduled(scheduled)
      BY <1>0, <3>1, EffectOnSchedule
    <3>3. ~AddSchedule(o)
      BY <2>8 DEF Works, AddStart, AddFails, Restart, StopCamera, StopErased, AddEmplace,
                  AddCamera, Erase, EraseAdded, Called, At, AddSchedule
    <3>4. QED
      BY <2>4, <3>2, <3>3
  <2>9. QED
    BY <1>4, <2>5, <2>6, <2>7, <2>8 DEF OperatorStep, Looks, Works
<1>5. CASE ThreadStep
  <2>1. UNCHANGED <<operator, registered>>
    BY <1>5, ThreadsLeave
  <2>2. \E after : SessionsBecome(after, scheduled, late)
    BY <1>5 DEF ThreadStep, SessionEnds, InferenceTakes, InferenceHandsOver, DeliveryTakes,
                Delivered, Settle
  <2>3. Scheduled(scheduled)
    BY <1>0, <2>2, EffectOfBecoming, EffectOnSchedule
  <2>4. QED
    BY <1>0, <1>1, <1>2, <2>1, <2>3
<1>6. CASE UNCHANGED vars
  BY <1>6 DEF vars, clients, objects, ScheduledInv
<1>7. QED
  BY <1>3, <1>4, <1>5, <1>6, KindsOfSteps
-----------------------------------------------------------------------------
(* A session counted as started in spite of all stays so while it runs.    *)
LEMMA EffectOnLate ==
  ASSUME NEW after, NEW cameras, NEW outside, Effect(after, cameras, outside),
         NEW s \in outside, s \in Sessions, Held(s)', session'[s] = "running"
  PROVE  s \in late'
BY DEF Effect

(* The main thread's steps to where the cameras are quiet.                 *)
LEMMA PlainPoints ==
  ASSUME EdgeTypeOK, MainInv, Plain
  PROVE  /\ main.at \notin {"startCameras", "wait", "stopCameras"}
         /\ main'.at \notin {"startCameras", "wait", "stopCameras"}
         /\ main.at # "stopAll" /\ (main'.at = "stopAll" => Stop)
         /\ (main.at = "up" => Up) /\ main'.at # "up"
         /\ (running' = running \/ Stop \/ Up) /\ (Up => running') /\ (Stop => main'.at = "stopAll")
         /\ (main'.at = "idle" /\ ~Up /\ running' => \E k \in Sinks : AddSink(k))
<1> USE DEF MainAt, Goto, Done, Returns, Idle
<1>0. main \in [at : Points, todo : SUBSET (Sessions \cup Sinks), held : SUBSET Sessions,
                any : BOOLEAN]
  BY DEF EdgeTypeOK, ClientsOK
<1> DEFINE R == running' = running
<1>1. Start => main.at = "idle" /\ main'.at = "sinks" /\ R
  BY DEF Start
<1>2. StartSink => main.at = "sinks" /\ main'.at = "sinks" /\ R
  BY MainPoints DEF StartSink, OnPipes
<1>3. StartSinkFails => main.at = "sinks" /\ main'.at = "idle" /\ R
  BY MainPoints DEF StartSinkFails, OnPipes
<1>4. StartDelivery => main.at = "sinks" /\ main'.at \in {"inference", "idle"} /\ R
  BY <1>0 DEF StartDelivery, OnPipes
<1>5. StartInference => main.at = "inference" /\ main'.at \in {"startAll", "closeRouter"} /\ R
  BY <1>0 DEF StartInference, OnPipes
<1>6. StopInference => main.at = "stopInference" /\ main'.at = "joinInference" /\ R
  BY <1>0 DEF StopInference, OnPipes
<1>7. JoinInference => main.at = "joinInference" /\ main'.at = "closeRouter" /\ R
  BY <1>0 DEF JoinInference, OnPipes
<1>8. CloseRouter => main.at = "closeRouter" /\ main'.at = "joinRouter" /\ R
  BY <1>0 DEF CloseRouter, OnPipes
<1>9. JoinRouter => main.at = "joinRouter" /\ main'.at = "idle" /\ R
  BY <1>0 DEF JoinRouter, RouterStops
<1>10. Stop => main.at = "idle" /\ main'.at = "stopAll"
  BY MainPoints
<1>11. Up => main.at = "up" /\ main'.at = "idle" /\ running'
  BY MainPoints DEF Up
<1>12. (\E k \in Sinks : AddSink(k)) => main.at = "idle" /\ main'.at = "idle" /\ R
  BY DEF AddSink, OnPipes
<1>13. running => main.at = "idle"
  BY DEF MainInv
<1>14. CASE \/ Start \/ StartSink \/ StartSinkFails \/ StartDelivery \/ StartInference
            \/ StopInference
  BY <1>1, <1>2, <1>3, <1>4, <1>5, <1>6, <1>10, <1>11, <1>13, <1>14
<1>15. CASE \/ JoinInference \/ CloseRouter \/ JoinRouter \/ Stop \/ Up
            \/ \E k \in Sinks : AddSink(k)
  BY <1>7, <1>8, <1>9, <1>10, <1>11, <1>12, <1>13, <1>15
<1>16. QED
  BY <1>14, <1>15 DEF Plain

(* Where an operator's step leaves a running session it had in its hands.  *)
LEMMA RunningIsKept ==
  ASSUME EdgeTypeOK, OperatorInv, AddedInv, NEW o \in Operators, OperatorStep(o),
         NEW s \in Sessions, s = operator[o].session, Held(s)', session'[s] = "running",
         session[s] = "running", ~running
  PROVE  operator'[o].session = s \/ s \in late' \/ Unschedule(o)
<1>1. ~Looks(o)
  BY OperatorPoints, EdgeAssumption DEF Looks
<1>2. \A t \in Sessions : ~AddCamera(o, t) /\ ~Erase(o, t) /\ ~EraseAdded(o, t)
  <2>1. operator[o].at \notin {"idle", "erase"}
    BY EdgeAssumption DEF OperatorInv, Free
  <2>2. QED
    BY <2>1, OperatorPoints DEF At
<1>3. ~AddSchedule(o) /\ ~AddEmplace(o)
  BY DEF AddSchedule, AddEmplace, AddedInv, Mine
<1>4. CASE Works(o)
  <2>1. CASE Started(o)
    BY <2>1, EffectOnLate DEF Started, Mine
  <2>2. CASE Stopped(o)
    <3>1. Set(s, "stopped")[s] = "stopped"
      BY SetIsAlive DEF EdgeTypeOK
    <3>2. session'[s] = Set(s, "stopped")[s]
      BY <2>2 DEF Stopped, Effect, Mine
    <3>3. QED
      BY <3>1, <3>2
  <2>3. QED
    BY <1>4, <2>1, <2>2, OperatorEffects
<1>5. QED
  BY <1>1, <1>2, <1>3, <1>4 DEF OperatorStep, Looks, Works

(* What an operator's step leaves of the sessions started in spite of all. *)
LEMMA OperatorsKeepLate ==
  ASSUME EdgeTypeOK, OperatorInv, NEW o \in Operators, OperatorStep(o), ~running,
         NEW s \in Sessions, Held(s)', session'[s] = "running", s \in late
  PROVE  s \in late'
<1>1. CASE Looks(o)
  BY <1>1, LookingSteps
<1>2. CASE ~Looks(o)
  <2>1. \E after, cameras, outside : s \in outside /\ Effect(after, cameras, outside)
    <3>1. CASE Works(o)
      BY <3>1, OperatorEffects DEF Started, Stopped
    <3>2. CASE ~Works(o)
      BY <1>2, <3>2, OperatorEffects DEF OperatorStep, Looks, Works
    <3>3. QED
      BY <3>1, <3>2
  <2>2. QED
    BY <2>1, EffectOnLate
<1>3. QED
  BY <1>1, <1>2

(* The threads forget no session that was started late.                    *)
LEMMA ThreadsKeepLate ==
  ASSUME EdgeTypeOK, ThreadStep, NEW s \in Sessions, Held(s)', session'[s] = "running",
         s \in late
  PROVE  s \in late'
<1>1. \E after : SessionsBecome(after, scheduled, late)
  BY DEF ThreadStep, SessionEnds, InferenceTakes, InferenceHandsOver, DeliveryTakes, Delivered,
         Settle
<1>2. QED
  BY <1>1, EffectOfBecoming, EffectOnLate

(* While the cameras are quiet, who runs among them is accounted for.      *)
LEMMA LeftStep ==
  ASSUME EdgeTypeOK, MainInv, OperatorInv, PipesInv, HoldInv, AddedInv, RemovedInv, LeftInv,
         UnscheduledInv, [Next]_vars
  PROVE  LeftInv'
<1> USE DEF Mine
<1>0. /\ main \in [at : Points, todo : SUBSET (Sessions \cup Sinks), held : SUBSET Sessions,
                   any : BOOLEAN]
      /\ registered \subseteq Sessions /\ registered' \subseteq Sessions
      /\ main'.held \subseteq Sessions /\ OperatorInv'
  BY TypeStep, OperatorStepInv DEF EdgeTypeOK, ObjectsOK, ClientsOK
<1>1. SUFFICES ASSUME Quiet', NEW s \in Sessions, s \in registered' \cup Copied',
                      session'[s] = "running"
               PROVE  s \in late' \cup Theirs' \cup ToStop'
  <2>1. Copied' \subseteq Sessions
    BY <1>0 DEF Copied
  <2>2. QED
    BY <1>0, <1>1, <2>1 DEF LeftInv
<1>2. Held(s)' /\ ~running'
  BY <1>1 DEF Held, Copied, Quiet
<1>3. ASSUME Quiet, s \in registered \cup Copied, session[s] = "running"
      PROVE  s \in late \cup Theirs \cup ToStop
  BY <1>3 DEF LeftInv
<1>4. CASE MainSteps
  <2>1. Theirs' = Theirs
    BY <1>4, MainLeaves DEF Theirs
  <2>2. (~running /\ main.at # "up") \/ Stop \/ Up
    BY <1>0, <1>2, <1>4, MainPoints, PlainPoints DEF MainInv, MainSteps, MainStep, Plain
  <2>3. CASE Plain
    <3>1. ~Stop /\ ~Up
      BY <1>1, <2>3, PlainPoints DEF Quiet, MainAt
    <3>2. late' = late /\ session' = session /\ registered' = registered
      BY <2>3, <3>1, PlainSteps
    <3>3. Quiet /\ Copied = {} /\ Copied' = {} /\ ToStop = {}
      BY <1>2, <2>3, <3>1, PlainPoints DEF Quiet, MainAt, Copied, ToStop
    <3>4. QED
      BY <1>1, <1>3, <2>1, <3>2, <3>3
  <2>4. CASE ConfigureAdd
    <3>1. PICK t \in main.todo : /\ Register(t)
                                 /\ SessionsBecome(Set(t, "stopped"), scheduled \cup {t}, late)
      BY <2>4 DEF ConfigureAdd
    <3>2. main.at = "configure" /\ main'.at = "configure" /\ ~running
      BY <2>2, <2>4, MainPoints DEF MainInv
    <3>3. t \in Sessions
      BY <3>2 DEF MainInv
    <3>4. Effect(Set(t, "stopped"), scheduled \cup {t}, late)
      BY <3>1, EffectOfBecoming
    <3>5. session'[s] = IF s = t THEN "stopped" ELSE session[s]
      BY <1>2, <3>3, <3>4, SetIsAlive DEF Effect, EdgeTypeOK
    <3>6. s \in registered /\ session[s] = "running"
      BY <1>1, <3>1, <3>2, <3>5 DEF Register, Copied, MainAt
    <3>7. Quiet /\ ToStop = {}
      BY <3>2 DEF Quiet, MainAt, ToStop
    <3>8. QED
      BY <1>1, <1>2, <1>3, <2>1, <3>4, <3>6, <3>7, EffectOnLate
  <2>5. CASE ConfigureFails
    BY <1>1, <2>5, MainPoints DEF ConfigureFails, Copied, MainAt
  <2>6. CASE CamerasStarted \/ Connected \/ NotConnected \/ AllConnected \/ StartCamera
    <3>1. CASE CamerasStarted
      <4>1. main.at = "startCameras" /\ main'.at = "stopInference" /\ ~running /\ ~main.any
        <5>1. main.at = "startCameras" /\ main'.at \in {"stopInference", "wait", "up"}
          BY <3>1, MainPoints
        <5>2. main'.at \notin {"wait", "up"}
          BY <1>1 DEF Quiet
        <5>3. ~running
          BY <5>1 DEF MainInv
        <5>4. main.any => main'.at \in {"wait", "up"}
          BY <1>0, <3>1 DEF CamerasStarted, Idle
        <5>5. QED
          BY <1>0, <5>1, <5>2, <5>3, <5>4
      <4>2. registered' = registered /\ Effect(session, scheduled, late)
        BY <3>1, MovingSteps
      <4>3. Quiet /\ ToStop = {} /\ Copied' = {}
        BY <4>1 DEF Quiet, MainAt, ToStop, Copied
      <4>4. session[s] = "running"
        BY <1>1, <1>2, <4>2 DEF Effect
      <4>5. QED
        BY <1>1, <1>2, <1>3, <2>1, <4>2, <4>3, <4>4, EffectOnLate
    <3>2. CASE Connected \/ NotConnected \/ AllConnected
      BY <1>1, <3>2, MainPoints DEF Quiet
    <3>3. CASE StartCamera
      <4>1. main'.any /\ main'.at = "startCameras"
        BY <1>0, <3>3, MainPoints DEF StartCamera
      <4>2. QED
        BY <1>1, <4>1 DEF Quiet, MainAt
    <3>4. QED
      BY <2>6, <3>1, <3>2, <3>3
  <2>7. CASE ConfigureEnds \/ StartAll \/ StopAll \/ CamerasStopped
    <3>1. /\ UNCHANGED registered
          /\ Effect(session, scheduled, late)
      BY <2>7, MovingSteps
    <3>2. session[s] = "running"
      BY <1>1, <1>2, <3>1 DEF Effect
    <3>3. /\ main.at \notin {"idle", "up", "wait", "startCameras"}
          /\ ~running
      BY <2>7, MainPoints DEF MainInv
    <3>4. CASE StopAll
      <4>1. ToStop' = registered /\ Copied' = {}
        <5>1. main'.at = "stopCameras" /\ main'.todo = registered
          BY <1>0, <3>4, MainPoints DEF StopAll
        <5>2. QED
          BY <5>1 DEF ToStop, Copied, MainAt
      <4>2. QED
        BY <1>1, <3>1, <4>1
    <3>5. CASE ConfigureEnds \/ StartAll \/ CamerasStopped
      <4>1. Copied' \subseteq registered
        <5>1. CASE StartAll
          BY <5>1 DEF StartAll, Copied
        <5>2. CASE ConfigureEnds \/ CamerasStopped
          BY <5>2, MainPoints DEF Copied, MainAt
        <5>3. QED
          BY <3>5, <5>1, <5>2
      <4>2. ToStop = {}
        BY <3>5, MainPoints DEF ToStop, CamerasStopped, MainAt
      <4>3. Quiet
        BY <3>3, <3>5, MainPoints DEF Quiet, MainAt
      <4>4. QED
        BY <1>1, <1>2, <1>3, <2>1, <3>1, <3>2, <4>1, <4>2, <4>3, EffectOnLate
    <3>6. QED
      BY <2>7, <3>4, <3>5
  <2>8. CASE StartCameraFails \/ StopOne
    <3>1. PICK t \in main.todo :
                 /\ \E excuses : Sessionwise(t, "stopped", excuses, late)
                 /\ StopOne => main' = [main EXCEPT !.todo = @ \ {t}]
      BY <2>8 DEF StartCameraFails, StopOne, Done
    <3>2. t \in Sessions
      BY <1>0, <2>8 DEF MainInv, MainAt, StartCameraFails, StopOne
    <3>3. registered' = registered /\ Effect(Set(t, "stopped"), scheduled, late)
      BY <3>1, SessionwiseEffect
    <3>4. session'[s] = IF s = t THEN "stopped" ELSE session[s]
      BY <1>2, <3>2, <3>3, SetIsAlive DEF Effect, EdgeTypeOK
    <3>5. s # t /\ session[s] = "running"
      BY <1>1, <3>4
    <3>6. CASE StopOne
      <4>1. main.at = "stopCameras" /\ main'.at = "stopCameras" /\ ~running
        BY <3>6, MainPoints DEF MainInv
      <4>2. main'.todo = main.todo \ {t}
        BY <1>0, <3>1, <3>6
      <4>3. Quiet /\ Copied' = {} /\ (s \in ToStop => s \in ToStop')
        BY <3>5, <4>1, <4>2 DEF Quiet, MainAt, Copied, ToStop
      <4>4. QED
        BY <1>1, <1>2, <1>3, <2>1, <3>3, <3>5, <4>3, EffectOnLate
    <3>7. CASE StartCameraFails
      <4>1. main.at = "startCameras" /\ main'.at = "startCameras" /\ ~running
        BY <1>1, <3>7, MainPoints DEF MainInv, Quiet
      <4>2. main'.any = main.any /\ main'.held = main.held
        BY <1>0, <3>7 DEF StartCameraFails, Goto, Done
      <4>3. Quiet /\ Copied' = Copied /\ ToStop = {}
        BY <1>1, <4>1, <4>2 DEF Quiet, MainAt, Copied, ToStop
      <4>4. QED
        BY <1>1, <1>2, <1>3, <2>1, <3>3, <3>5, <4>3, EffectOnLate
    <3>8. QED
      BY <2>8, <3>6, <3>7
  <2>9. QED
    BY <1>4, <2>3, <2>4, <2>5, <2>6, <2>7, <2>8 DEF MainSteps, MainStep, Plain
<1>5. ASSUME NEW o \in Operators, OperatorStep(o) PROVE s \in late' \cup Theirs' \cup ToStop'
  <2>1. UNCHANGED <<main, running>>
    BY <1>5, OperatorsLeave
  <2>2. Quiet /\ Copied' = Copied /\ ToStop' = ToStop /\ ~running
    BY <1>1, <1>2, <2>1 DEF Quiet, Copied, ToStop, MainAt
  <2>3. \A p \in Operators \ {o} : operator'[p] = operator[p]
    BY <1>5, OperatorPoints
  <2>4. CASE session'[s] # session[s]
    <3>1. Works(o) /\ s = Mine(o)
      BY <1>1, <1>2, <1>5, <2>4, OperatorSessions
    <3>2. CASE Started(o)
      BY <1>1, <1>2, <2>2, <3>1, <3>2, EffectOnLate DEF Started
    <3>3. CASE Stopped(o)
      <4>1. Set(s, "stopped")[s] = "stopped"
        BY SetIsAlive DEF EdgeTypeOK
      <4>2. QED
        BY <1>1, <1>2, <3>1, <3>3, <4>1 DEF Stopped, Effect
    <3>4. QED
      BY <3>1, <3>2, <3>3, OperatorEffects
  <2>5. CASE session'[s] = session[s]
    <3>1. s \in registered \cup Copied
      <4>1. AddEmplace(o) => operator[o].session # s
        BY <1>1, <2>5 DEF AddedInv, AddEmplace
      <4>2. QED
        BY <1>1, <1>5, <2>2, <4>1, OperatorTakes
    <3>2. s \in late \cup Theirs \cup ToStop
      BY <1>1, <1>3, <2>2, <2>5, <3>1
    <3>3. CASE s \in late
      BY <1>1, <1>2, <1>5, <2>2, <3>3, OperatorsKeepLate
    <3>4. CASE s \in Theirs
      <4>1. PICK p \in Operators : operator[p].session = s
        BY <3>4 DEF Theirs
      <4>2. CASE p # o
        BY <2>3, <4>1, <4>2 DEF Theirs
      <4>3. CASE p = o
        <5>1. operator'[o].session = s \/ s \in late' \/ Unschedule(o)
          BY <1>1, <1>2, <1>5, <2>2, <2>5, <4>1, <4>3, RunningIsKept
        <5>2. CASE Unschedule(o)
          <6>1. At(o, "unschedule") /\ s \notin registered
            BY <4>1, <4>3, <5>2 DEF Unschedule, RemovedInv, Removing, At
          <6>2. s \in late
            BY <1>1, <2>2, <2>5, <3>1, <4>1, <4>3, <6>1 DEF UnscheduledInv
          <6>3. QED
            BY <1>1, <1>2, <1>5, <2>2, <6>2, OperatorsKeepLate
        <5>3. QED
          BY <5>1, <5>2 DEF Theirs
      <4>4. QED
        BY <4>2, <4>3
    <3>5. QED
      BY <2>2, <3>2, <3>3, <3>4
  <2>6. QED
    BY <2>4, <2>5
<1>6. CASE ThreadStep
  <2>1. UNCHANGED <<main, operator, running, registered>>
    BY <1>6, ThreadsLeave
  <2>2. session[s] = "running"
    BY <1>1, <1>2, <1>6, ThreadSessions
  <2>3. s \in late \cup Theirs \cup ToStop
    BY <1>1, <1>3, <2>1, <2>2 DEF Quiet, Copied, MainAt
  <2>4. QED
    BY <1>1, <1>2, <1>6, <2>1, <2>3, ThreadsKeepLate DEF Theirs, ToStop, MainAt
<1>7. CASE UNCHANGED vars
  BY <1>1, <1>3, <1>7 DEF vars, clients, objects, Quiet, Copied, ToStop, Theirs, MainAt
<1>8. QED
  BY <1>4, <1>5, <1>6, <1>7, KindsOfSteps

(* A session being unscheduled was running only if it was started late.    *)
LEMMA UnscheduledStep ==
  ASSUME EdgeTypeOK, MainInv, OperatorInv, PipesInv, RemovedInv, UnscheduledInv, [Next]_vars
  PROVE  UnscheduledInv'
<1> USE DEF Mine
<1>0. /\ main \in [at : Points, todo : SUBSET (Sessions \cup Sinks), held : SUBSET Sessions,
                   any : BOOLEAN]
      /\ main'.held \subseteq Sessions
  BY TypeStep DEF EdgeTypeOK, ClientsOK
<1>1. SUFFICES ASSUME NEW o \in Operators, Quiet', operator'[o].at = "unschedule",
                      NEW s \in main'.held, s = operator'[o].session,
                      main'.at = "startCameras", session'[s] = "running"
               PROVE  s \in late'
  BY DEF UnscheduledInv, Copied, MainAt, At
<1>2. s \in Sessions /\ Held(s)' /\ ~running' /\ ~main'.any
  BY <1>0, <1>1 DEF Held, Quiet, MainAt
<1>3. ASSUME Quiet, operator[o].at = "unschedule", s = operator[o].session, s \in Copied,
             session[s] = "running"
      PROVE  s \in late
  BY <1>3 DEF UnscheduledInv, At
<1>4. CASE MainSteps
  <2>1. UNCHANGED operator
    BY <1>4, MainLeaves
  <2>2. StartAll \/ StartCameraFails \/ StartCamera
    BY <1>1, <1>4, MainPoints, PlainPoints DEF MainSteps, MainStep, Plain
  <2>3. CASE StartAll
    <3>1. s \in registered
      BY <1>1, <2>3 DEF StartAll
    <3>2. QED
      BY <1>1, <2>1, <3>1 DEF RemovedInv, Removing
  <2>4. CASE StartCamera
    BY <1>0, <1>2, <2>4 DEF StartCamera
  <2>5. CASE StartCameraFails
    <3>1. PICK t \in main.todo : \E excuses : Sessionwise(t, "stopped", excuses, late)
      BY <2>5 DEF StartCameraFails
    <3>2. main.at = "startCameras" /\ ~running
      BY <2>5, MainPoints DEF MainInv
    <3>3. main'.any = main.any /\ main'.held = main.held
      BY <1>0, <2>5 DEF StartCameraFails, Goto, Done
    <3>4. t \in Sessions
      BY <1>0, <3>2 DEF MainInv
    <3>5. Effect(Set(t, "stopped"), scheduled, late)
      BY <3>1, SessionwiseEffect
    <3>6. session'[s] = IF s = t THEN "stopped" ELSE session[s]
      BY <1>2, <3>4, <3>5, SetIsAlive DEF Effect, EdgeTypeOK
    <3>7. Quiet /\ s \in Copied /\ session[s] = "running"
      BY <1>1, <1>2, <3>2, <3>3, <3>6 DEF Quiet, Copied, MainAt
    <3>8. QED
      BY <1>1, <1>2, <1>3, <2>1, <3>5, <3>7, EffectOnLate
  <2>6. QED
    BY <2>2, <2>3, <2>4, <2>5
<1>5. ASSUME NEW p \in Operators, OperatorStep(p) PROVE s \in late'
  <2>1. UNCHANGED <<main, running>>
    BY <1>5, OperatorsLeave
  <2>2. Quiet /\ s \in Copied /\ ~running
    BY <1>1, <1>2, <2>1 DEF Quiet, Copied, MainAt
  <2>3. ASSUME session'[s] = session[s], operator'[o] = operator[o] PROVE s \in late'
    BY <1>1, <1>2, <1>3, <1>5, <2>2, <2>3, OperatorsKeepLate
  <2>4. ASSUME session'[s] # session[s], ~StopErased(p) PROVE s \in late'
    <3>1. Works(p) /\ s = Mine(p)
      BY <1>1, <1>2, <1>5, <2>4, OperatorSessions
    <3>2. CASE Started(p)
      BY <1>1, <1>2, <2>2, <3>1, <3>2, EffectOnLate DEF Started
    <3>3. CASE Stopped(p)
      <4>1. Set(s, "stopped")[s] = "stopped"
        BY <1>2, SetIsAlive DEF EdgeTypeOK
      <4>2. QED
        BY <1>1, <1>2, <3>1, <3>3, <4>1 DEF Stopped, Effect
    <3>4. QED
      BY <3>1, <3>2, <3>3, OperatorEffects
  <2>5. ASSUME StopErased(p), s = operator[p].session PROVE FALSE
    <3>1. SessionsBecome(Set(s, "stopped"), scheduled, late)
      BY <2>5 DEF StopErased, OperatorStops
    <3>2. session'[s] = "stopped"
      BY <1>2, <3>1, EffectOfBecoming, SetIsAlive DEF Effect, EdgeTypeOK
    <3>3. QED
      BY <1>1, <3>2
  <2>6. CASE p # o
    <3>1. operator'[o] = operator[o]
      BY <1>5, <2>6, OperatorPoints
    <3>2. session'[s] = session[s] \/ (Works(p) /\ s = Mine(p))
      BY <1>1, <1>2, <1>5, OperatorSessions
    <3>3. QED
      BY <2>3, <2>4, <2>5, <3>1, <3>2
  <2>7. CASE p = o
    <3>1. StopErased(o) /\ s = operator[o].session
      BY <1>1, <1>5, <2>7, OperatorArrives DEF Removing
    <3>2. QED
      BY <2>5, <2>7, <3>1
  <2>8. QED
    BY <2>6, <2>7
<1>6. CASE ThreadStep
  <2>1. UNCHANGED <<main, operator, running, registered>>
    BY <1>6, ThreadsLeave
  <2>2. session[s] = "running"
    BY <1>1, <1>2, <1>6, ThreadSessions
  <2>3. s \in late
    BY <1>1, <1>3, <2>1, <2>2 DEF Quiet, Copied, MainAt
  <2>4. QED
    BY <1>1, <1>2, <1>6, <2>3, ThreadsKeepLate
<1>7. CASE UNCHANGED vars
  BY <1>1, <1>3, <1>7 DEF vars, clients, objects, Quiet, Copied, MainAt
<1>8. QED
  BY <1>4, <1>5, <1>6, <1>7, KindsOfSteps

(* What an operator's step leaves of the excuses of a stopped session.     *)
LEMMA OperatorsExcuse ==
  ASSUME EdgeTypeOK, MainInv, OperatorInv, HoldInv, NEW o \in Operators, OperatorStep(o), ComingUp,
         NEW s \in registered, session'[s] = "stopped"
  PROVE  /\ s \in excused => s \in excused'
         /\ Works(o) /\ s = Mine(o) => s \in excused'
         /\ AddIsRunning(o) /\ ~running /\ operator[o].id = IdOf[s] => s \in excused'
<1>0. s \in Sessions /\ session[s] # "none"
  BY DEF EdgeTypeOK, ObjectsOK, HoldInv, Held
<1>1. ~(MainAt("idle") /\ ~running)
  BY DEF ComingUp, MainAt, MainInv
<1>2. \A them : Excuse(them) => excused' = excused \cup them
  BY <1>1 DEF Excuse
<1>3. CASE Works(o)
  <2>1. CASE Started(o)
    <3>1. s # Mine(o)
      <4>1. ASSUME s = Mine(o) PROVE FALSE
        <5>1. Set(s, "running")[s] = "running"
          BY <1>0, SetIsAlive DEF EdgeTypeOK
        <5>2. session'[s] \in {Set(s, "running")[s], "none"}
          BY <1>0, <2>1, <4>1 DEF Started, Effect
        <5>3. QED
          BY <5>1, <5>2
      <4>2. QED
        BY <4>1
    <3>2. ~AddIsRunning(o)
      BY <1>3 DEF Works, AddStart, AddFails, Restart, StopCamera, StopErased, AddIsRunning, At
    <3>3. QED
      BY <2>1, <3>1, <3>2 DEF Started
  <2>2. CASE Stopped(o)
    <3>1. excused' = excused \cup {Mine(o)}
      BY <1>2, <2>2 DEF Stopped
    <3>2. ~AddIsRunning(o)
      BY <1>3 DEF Works, AddStart, AddFails, Restart, StopCamera, StopErased, AddIsRunning, At
    <3>3. QED
      BY <3>1, <3>2
  <2>3. QED
    BY <1>3, <2>1, <2>2, OperatorEffects
<1>4. CASE AddIsRunning(o)
  <2>1. ~Works(o)
    BY <1>4 DEF Works, AddStart, AddFails, Restart, StopCamera, StopErased, AddIsRunning, At
  <2>2. excused' = excused \/ (~running /\ excused' = excused \cup Found(operator[o].id))
    BY <1>2, <1>4 DEF AddIsRunning
  <2>3. ~running => excused' = excused \cup Found(operator[o].id)
    BY <1>2, <1>4 DEF AddIsRunning
  <2>4. QED
    BY <2>1, <2>2, <2>3 DEF Found
<1>5. ASSUME NEW t \in Sessions, AddCamera(o, t) PROVE s \in excused => s \in excused'
  BY <1>0, <1>5, OperatorEffects
<1>6. CASE ~Works(o) /\ ~AddIsRunning(o)
  <2>1. excused' = excused \/ \E t \in Sessions : AddCamera(o, t)
    BY <1>6, LookingSteps, OperatorEffects DEF OperatorStep, Looks, Works
  <2>2. QED
    BY <1>5, <1>6, <2>1
<1>7. QED
  BY <1>3, <1>4, <1>6

(* A registered camera that is stopped when it should run is accounted for.*)
LEMMA StartedStep ==
  ASSUME EdgeTypeOK, MainInv, OperatorInv, PipesInv, HoldInv, AddedInv, ScheduledInv, StartedInv,
         [Next]_vars
  PROVE  StartedInv'
<1> USE DEF Mine
<1>0. /\ main \in [at : Points, todo : SUBSET (Sessions \cup Sinks), held : SUBSET Sessions,
                   any : BOOLEAN]
      /\ registered \subseteq Sessions /\ registered' \subseteq Sessions
  BY TypeStep DEF EdgeTypeOK, ObjectsOK, ClientsOK
<1> DEFINE Awaits(o, s) == \/ operator[o].at \in {"isRunning", "find"} /\ operator[o].id = IdOf[s]
                           \/ operator[o].at = "start" /\ operator[o].session = s
           Awaits2(o, s) ==
             \/ operator'[o].at \in {"isRunning", "find"} /\ operator'[o].id = IdOf[s]
             \/ operator'[o].at = "start" /\ operator'[o].session = s
           Excused2(s) == \/ s \in excused'
                          \/ main'.at = "startCameras" /\ s \in main'.todo
                          \/ \E o \in Operators : Awaits2(o, s)
<1>1. SUFFICES ASSUME ComingUp', NEW s \in registered', session'[s] = "stopped"
               PROVE  Excused2(s)
  BY DEF StartedInv, MainAt, At
<1>2. s \in Sessions /\ Held(s)'
  BY <1>0 DEF Held
<1>3. ASSUME ComingUp, s \in registered, session[s] = "stopped"
      PROVE  \/ s \in excused
             \/ main.at = "startCameras" /\ s \in main.todo
             \/ \E o \in Operators : Awaits(o, s)
  BY <1>3 DEF StartedInv, MainAt, At
<1>4. CASE MainSteps
  <2>1. UNCHANGED operator
    BY <1>4, MainLeaves
  <2>2. ASSUME ComingUp, s \in registered, session[s] = "stopped", excused \subseteq excused',
               main.at = "startCameras" /\ s \in main.todo =>
                 main'.at = "startCameras" /\ s \in main'.todo
        PROVE  Excused2(s)
    BY <1>3, <2>1, <2>2
  <2>3. CASE Plain
    <3>1. Up \/ \E k \in Sinks : AddSink(k)
      BY <1>1, <2>3, PlainPoints DEF ComingUp, MainAt, MainInv
    <3>2. UNCHANGED <<registered, session, excused>>
      BY <3>1 DEF Up, AddSink, OnPipes, objects
    <3>3. CASE Up
      <4>1. main.at = "up"
        BY <3>3, MainPoints
      <4>2. QED
        BY <1>1, <2>2, <3>2, <4>1 DEF ComingUp, MainAt
    <3>4. CASE \E k \in Sinks : AddSink(k)
      BY <1>1, <2>2, <3>2, <3>4 DEF AddSink, OnPipes, ComingUp, MainAt
    <3>5. QED
      BY <3>1, <3>3, <3>4
  <2>4. CASE \/ ConfigureAdd \/ ConfigureFails \/ ConfigureEnds \/ StopAll \/ StopOne
             \/ CamerasStopped \/ NotConnected
    <3>1. /\ main'.at \in {"configure", "notReady", "idle", "stopCameras", "stopInference",
                           "stopAll"}
          /\ main.at # "idle"
      BY <2>4, MainPoints
    <3>2. ~Stop /\ ~Up
      BY <2>4, <3>1 DEF Stop, Up, ConfigureAdd, ConfigureFails, ConfigureEnds, StopAll, StopOne,
                       CamerasStopped, NotConnected, MainAt
    <3>3. ~running' /\ main'.at \notin {"startCameras", "wait", "up"}
      BY <2>4, <3>1, <3>2, PipesAlone DEF MainInv
    <3>4. QED
      BY <1>1, <3>3 DEF ComingUp, MainAt
  <2>5. CASE StartAll
    BY <1>1, <2>5 DEF StartAll, Moves
  <2>6. CASE StartCamera
    <3>1. PICK t \in main.todo :
                 /\ main' = [main EXCEPT !.todo = @ \ {t}, !.any = TRUE]
                 /\ Sessionwise(t, "running", excused \ {t}, late \ {t})
      BY <2>6 DEF StartCamera
    <3>2. main.at = "startCameras" /\ main'.at = "startCameras"
      BY <2>6, MainPoints
    <3>3. t \in Sessions /\ main'.todo = main.todo \ {t}
      BY <1>0, <3>1, <3>2 DEF MainInv
    <3>4. /\ registered' = registered /\ excused' = excused \ {t}
          /\ Effect(Set(t, "running"), scheduled, late \ {t})
      BY <3>1, SessionwiseEffect
    <3>5. session'[s] = IF s = t THEN "running" ELSE session[s]
      BY <1>2, <3>3, <3>4, SetIsAlive DEF Effect, EdgeTypeOK
    <3>6. s # t /\ session[s] = "stopped" /\ s \in registered /\ ComingUp
      BY <1>1, <3>2, <3>4, <3>5 DEF ComingUp, MainAt
    <3>7. QED
      BY <1>3, <2>1, <3>2, <3>3, <3>4, <3>6
  <2>7. CASE StartCameraFails
    <3>1. PICK t \in main.todo : /\ IF failFast THEN Goto("stopAll") ELSE Done(t)
                                 /\ Sessionwise(t, "stopped", excused \cup {t}, late)
      BY <2>7 DEF StartCameraFails
    <3>2. main.at = "startCameras" /\ ~running /\ running' = running
      BY <2>7, MainPoints, PipesAlone DEF MainInv, StartCameraFails, Stop, Up, MainAt
    <3>3. main'.at = "startCameras" /\ main'.todo = main.todo \ {t}
      BY <1>0, <1>1, <3>1, <3>2 DEF ComingUp, MainAt, Goto, Done
    <3>4. t \in Sessions
      BY <1>0, <3>2 DEF MainInv
    <3>5. /\ registered' = registered /\ excused' = excused \cup {t}
          /\ Effect(Set(t, "stopped"), scheduled, late)
      BY <3>1, SessionwiseEffect
    <3>6. session'[s] = IF s = t THEN "stopped" ELSE session[s]
      BY <1>2, <3>4, <3>5, SetIsAlive DEF Effect, EdgeTypeOK
    <3>7. s = t \/ (session[s] = "stopped" /\ s \in registered /\ ComingUp)
      BY <1>1, <3>2, <3>5, <3>6 DEF ComingUp, MainAt
    <3>8. QED
      BY <1>3, <2>1, <3>2, <3>3, <3>5, <3>7
  <2>8. CASE CamerasStarted \/ Connected \/ AllConnected
    <3>1. registered' = registered /\ excused' = excused /\ Effect(session, scheduled, late)
      BY <2>8, MovingSteps
    <3>2. session[s] = "stopped"
      BY <1>1, <1>2, <3>1 DEF Effect
    <3>3. main.at = "wait" \/ (main.at = "startCameras" /\ main.todo = {})
      BY <2>8 DEF CamerasStarted, Connected, AllConnected, MainAt
    <3>4. ComingUp
      BY <3>3 DEF ComingUp, MainAt
    <3>5. QED
      BY <2>2, <3>1, <3>2, <3>3, <3>4
  <2>9. QED
    BY <1>4, <2>3, <2>4, <2>5, <2>6, <2>7, <2>8 DEF MainSteps, MainStep, Plain
<1>5. ASSUME NEW o \in Operators, OperatorStep(o) PROVE Excused2(s)
  <2>1. UNCHANGED <<main, running>>
    BY <1>5, OperatorsLeave
  <2>2. ComingUp
    BY <1>1, <2>1 DEF ComingUp, MainAt
  <2>3. \A p \in Operators \ {o} : operator'[p] = operator[p]
    BY <1>5, OperatorPoints
  <2>4. CASE s \notin registered
    <3>1. AddEmplace(o) /\ s = operator[o].session
      BY <1>2, <1>5, <2>4, OperatorTakes
    <3>2. operator[o].id = IdOf[s]
      BY <3>1 DEF AddEmplace, At, OperatorInv, Free
    <3>3. operator'[o] = Entry("isRunning", operator[o].id, NoSession)
      BY <3>1, OperatorPoints
    <3>4. QED
      BY <3>2, <3>3 DEF Entry
  <2>5. CASE s \in registered
    <3>1. /\ s \in excused => s \in excused'
          /\ Works(o) /\ s = Mine(o) => s \in excused'
          /\ AddIsRunning(o) /\ ~running /\ operator[o].id = IdOf[s] => s \in excused'
      BY <1>1, <1>5, <2>2, <2>5, OperatorsExcuse
    <3>2. ~AddCamera(o, s)
      <4>1. session[s] # "none"
        BY <1>2, <2>5 DEF HoldInv, Held
      <4>2. QED
        BY <4>1 DEF AddCamera
    <3>3. CASE session'[s] # session[s]
      BY <1>2, <1>5, <3>1, <3>2, <3>3, OperatorSessions
    <3>4. CASE session'[s] = session[s]
      <4>1. \/ s \in excused
            \/ main.at = "startCameras" /\ s \in main.todo
            \/ \E p \in Operators : Awaits(p, s)
        BY <1>1, <1>3, <2>2, <2>5, <3>4
      <4>2. ASSUME Awaits(o, s) PROVE Excused2(s)
        <5>1. CASE operator[o].at = "isRunning" /\ operator[o].id = IdOf[s]
          <6>1. AddIsRunning(o)
            BY <1>5, <5>1 DEF OperatorStep, AddSchedule, AddEmplace, AddFind, AddStart, AddFails,
               Restart, StopCamera, EraseNone, StopErased, Unschedule, AddCamera, Find, Erase,
               EraseAdded, Called, At
          <6>2. CASE running
            <7>1. operator'[o] = Entry("find", operator[o].id, NoSession)
              BY <6>1, <6>2, OperatorPoints
            <7>2. QED
              BY <5>1, <7>1 DEF Entry
          <6>3. CASE ~running
            BY <3>1, <5>1, <6>1, <6>3
          <6>4. QED
            BY <6>2, <6>3
        <5>2. CASE operator[o].at = "find" /\ operator[o].id = IdOf[s]
          <6>1. AddFind(o)
            BY <1>5, <5>2 DEF OperatorStep, AddSchedule, AddEmplace, AddIsRunning, AddStart,
               AddFails, Restart, StopCamera, EraseNone, StopErased, Unschedule, AddCamera, Find,
               Erase, EraseAdded, Called, At
          <6>2. Found(operator[o].id) = {s}
            BY <2>5, <5>2 DEF Found, ScheduledInv
          <6>3. operator'[o] = Entry("start", operator[o].id, s)
            BY <6>1, <6>2, OperatorPoints
          <6>4. QED
            BY <6>3 DEF Entry
        <5>3. CASE operator[o].at = "start" /\ operator[o].session = s
          <6>1. AddStart(o) \/ AddFails(o)
            BY <1>5, <5>3 DEF OperatorStep, AddSchedule, AddEmplace, AddIsRunning, AddFind,
               Restart, StopCamera, EraseNone, StopErased, Unschedule, AddCamera, Find, Erase,
               EraseAdded, Called, At
          <6>2. QED
            BY <3>1, <5>3, <6>1 DEF Works
        <5>4. QED
          BY <4>2, <5>1, <5>2, <5>3
      <4>3. ASSUME NEW p \in Operators, p # o, Awaits(p, s) PROVE Excused2(s)
        BY <2>3, <4>3
      <4>4. QED
        BY <2>1, <3>1, <4>1, <4>2, <4>3
    <3>5. QED
      BY <3>3, <3>4
  <2>6. QED
    BY <2>4, <2>5
<1>6. CASE ThreadStep
  <2>1. UNCHANGED <<main, operator, running, registered, excused>>
    BY <1>6, ThreadsLeave
  <2>2. session[s] = "stopped"
    BY <1>1, <1>2, <1>6, ThreadSessions
  <2>3. ComingUp
    BY <1>1, <2>1 DEF ComingUp, MainAt
  <2>4. QED
    BY <1>3, <2>1, <2>2, <2>3
<1>7. CASE UNCHANGED vars
  BY <1>1, <1>3, <1>7 DEF vars, clients, objects, ComingUp, MainAt
<1>8. QED
  BY <1>4, <1>5, <1>6, <1>7, KindsOfSteps
-----------------------------------------------------------------------------
(* The invariant holds before the constructor has added a camera.          *)
LEMMA EdgeInit == Init => EdgeInv
<1> SUFFICES ASSUME Init PROVE EdgeInv
  OBVIOUS
<1>1. PICK enabled \in SUBSET Configured :
             main = [Idle EXCEPT !.at = "configure", !.todo = enabled]
  BY DEF Init
<1>2. main = [at |-> "configure", todo |-> enabled, held |-> {}, any |-> FALSE]
  BY <1>1 DEF Idle
<1>3. enabled \subseteq Sessions
  BY EdgeAssumption
<1>4. \A o \in Operators : operator[o] = OperatorIdle
  BY DEF Init
<1>5. EdgeTypeOK
  <2>1. ObjectsOK
    BY DEF Init, ObjectsOK
  <2>2. PipesOK
    BY DEF Init, PipesOK, Some
  <2>3. main \in [at : Points, todo : SUBSET (Sessions \cup Sinks), held : SUBSET Sessions,
                  any : BOOLEAN]
    BY <1>2, <1>3 DEF Points
  <2>4. OperatorIdle \in [at : Calls, id : Ids, session : Some]
    BY DEF OperatorIdle, Calls, Ids, Some
  <2>5. ClientsOK
    BY <2>3, <2>4 DEF Init, ClientsOK
  <2>6. QED
    BY <2>1, <2>2, <2>5 DEF EdgeTypeOK
<1>6. MainInv /\ ConfigureInv /\ OperatorInv
  <2>1. MainInv
    BY <1>2, <1>3 DEF Init, MainInv
  <2>2. ConfigureInv /\ OperatorInv
    BY <1>4 DEF Init, ConfigureInv, OperatorInv, OperatorIdle, Free
  <2>3. QED
    BY <2>1, <2>2
<1>7. PipesInv /\ SinksInv
  BY <1>2 DEF Init, PipesInv, SinksInv, Serving, MainAt
<1>8. HoldInv
  <2>1. /\ registered = {} /\ main.held = {} /\ inferring = NoSession /\ delivering = NoSession
        /\ packets = <<>> /\ \A o \in Operators : operator[o].session = NoSession
    BY <1>2, <1>4 DEF Init, OperatorIdle
  <2>2. NoSession \notin Sessions /\ DOMAIN packets = {}
    BY <2>1, EdgeAssumption
  <2>3. \A s \in Sessions : ~Held(s)
    BY <2>1, <2>2 DEF Held
  <2>4. QED
    BY <2>3 DEF Init, HoldInv
<1>9. AddedInv /\ RemovedInv /\ ScheduledInv /\ UnscheduledInv
  BY <1>4 DEF Init, AddedInv, RemovedInv, ScheduledInv, UnscheduledInv, OperatorIdle, At, Removing
<1>10. LeftInv /\ StartedInv
  BY <1>2 DEF Init, LeftInv, StartedInv, Copied, ComingUp, MainAt
<1>11. QED
  BY <1>5, <1>6, <1>7, <1>8, <1>9, <1>10 DEF EdgeInv

(* The parts of the invariant hold together along every behaviour of the   *)
(* service: any cameras, operators, sinks and bounds.                      *)
THEOREM EdgeInvariant == Spec => []EdgeInv
<1>1. EdgeInv /\ [Next]_vars => EdgeInv'
  <2> SUFFICES ASSUME EdgeInv, [Next]_vars PROVE EdgeInv'
    OBVIOUS
  <2>0. /\ EdgeTypeOK /\ MainInv /\ ConfigureInv /\ OperatorInv /\ PipesInv /\ SinksInv /\ HoldInv
        /\ AddedInv /\ RemovedInv /\ ScheduledInv /\ LeftInv /\ UnscheduledInv /\ StartedInv
    BY DEF EdgeInv
  <2>1. EdgeTypeOK' /\ MainInv' /\ OperatorInv'
    BY <2>0, TypeStep, MainStepInv, OperatorStepInv
  <2>2. ConfigureInv' /\ PipesInv' /\ SinksInv' /\ HoldInv'
    BY <2>0, ConfigureStep, PipesStep, SinksStep, HoldStep
  <2>3. AddedInv' /\ RemovedInv' /\ ScheduledInv'
    BY <2>0, AddedStep, RemovedStep, ScheduledStep
  <2>4. LeftInv' /\ UnscheduledInv' /\ StartedInv'
    BY <2>0, LeftStep, UnscheduledStep, StartedStep
  <2>5. QED
    BY <2>1, <2>2, <2>3, <2>4 DEF EdgeInv
<1>2. QED
  BY <1>1, EdgeInit, PTL DEF Spec

(* Every variable keeps its type: the main thread is always at one of its  *)
(* points, an operator at one of its calls with a session of its own.      *)
THEOREM TypeCorrect == Spec => []EdgeTypeOK
<1>1. EdgeInv => EdgeTypeOK
  BY DEF EdgeInv
<1>2. QED
  BY <1>1, EdgeInvariant, PTL

(* A service that is stopped has given back all it started, whatever       *)
(* failed on the way up or came in between (stop(), the rollback of        *)
(* start(), the destructors of sessions).                                  *)
THEOREM StoppedServiceIsQuiet == Spec => []NothingLeftRunning
<1>1. EdgeInv => NothingLeftRunning
  <2> SUFFICES ASSUME EdgeInv, main.at = "idle", ~running
               PROVE  /\ inference = "stopped" /\ router = "stopped"
                      /\ \A k \in Sinks : sink[k] # "started"
                      /\ {s \in Sessions : session[s] = "running"} \subseteq late \cup Theirs
    BY DEF NothingLeftRunning, MainAt, Theirs
  <2>1. inference = "stopped" /\ router = "stopped" /\ inferring = NoSession
        /\ packets = <<>> /\ delivering = NoSession
    BY DEF EdgeInv, PipesInv, Serving, MainAt
  <2>2. \A k \in Sinks : sink[k] # "started"
    BY DEF EdgeInv, SinksInv
  <2>3. ASSUME NEW s \in Sessions, session[s] = "running" PROVE s \in late \cup Theirs
    <3>1. Held(s) /\ main.held = {}
      BY <2>3 DEF EdgeInv, HoldInv, MainInv
    <3>2. s \in registered \cup Theirs
      BY <2>1, <3>1, EdgeAssumption DEF Held, Theirs
    <3>3. Quiet /\ ToStop = {}
      BY DEF Quiet, ToStop, MainAt
    <3>4. QED
      BY <2>3, <3>2, <3>3 DEF EdgeInv, LeftInv
  <2>4. QED
    BY <2>1, <2>2, <2>3
<1>2. QED
  BY <1>1, EdgeInvariant, PTL

(* A result is given to sinks that are started only, and the inference     *)
(* thread runs only while the router takes its results.                    *)
THEOREM SinksAreReady == Spec => []SinksReady
<1>1. EdgeInv => SinksReady
  BY DEF EdgeInv, SinksReady, SinksInv, PipesInv, Serving, MainAt
<1>2. QED
  BY <1>1, EdgeInvariant, PTL

(* Between calls a service that is up has started every camera of its map, *)
(* but for those with an excuse.                                           *)
THEOREM CamerasAreStarted == Spec => []EveryCameraStarted
<1>1. EdgeInv => EveryCameraStarted
  <2> SUFFICES ASSUME EdgeInv, AtRest, running, NEW s \in registered \ excused
               PROVE  session[s] \in {"running", "ended"}
    BY DEF EveryCameraStarted
  <2>1. main.at = "idle" /\ \A o \in Operators : operator[o].at = "idle"
    BY DEF AtRest, MainAt, At
  <2>2. session[s] # "stopped"
    BY <2>1 DEF EdgeInv, StartedInv, ComingUp, MainAt, At
  <2>3. s \in Sessions /\ session[s] \in {"none", "stopped", "running", "ended"}
    BY DEF EdgeInv, EdgeTypeOK, ObjectsOK
  <2>4. session[s] # "none"
    BY <2>3 DEF EdgeInv, HoldInv, Held
  <2>5. QED
    BY <2>2, <2>3, <2>4
<1>2. QED
  BY <1>1, EdgeInvariant, PTL

(* Between calls the scheduler knows every registered camera, has one      *)
(* camera of an id, and a running session is held by the map or by a       *)
(* thread that will let it go.                                             *)
THEOREM ManagerStaysConsistent == Spec => []ManagerConsistent
<1>1. EdgeInv => ManagerConsistent
  <2> SUFFICES ASSUME EdgeInv, AtRest
               PROVE  /\ scheduled \cap registered = registered
                      /\ \A s, t \in scheduled : IdOf[s] = IdOf[t] => s = t
                      /\ \A s \in Sessions \ registered : session[s] = "running" => InPipes(s)
    BY DEF ManagerConsistent, InPipes
  <2>1. main.at = "idle" /\ \A o \in Operators : operator[o].at = "idle"
    BY DEF AtRest, MainAt, At
  <2>2. main.held = {} /\ \A o \in Operators : operator[o].session = NoSession
    BY <2>1 DEF EdgeInv, MainInv, OperatorInv, Free
  <2>3. \A s \in Sessions : session[s] = "running" => Held(s)
    BY DEF EdgeInv, HoldInv
  <2>4. \A s \in Sessions \ registered : session[s] = "running" => InPipes(s)
    BY <2>2, <2>3, EdgeAssumption DEF Held, InPipes
  <2>5. QED
    BY <2>4 DEF EdgeInv, ScheduledInv
<1>2. QED
  BY <1>1, EdgeInvariant, PTL

(* What a step does to a session and to the worker that may hold a frame   *)
(* of it.                                                                  *)
LEMMA SessionMoves ==
  ASSUME EdgeInv, [Next]_vars, NEW s \in Sessions
  PROVE  \/ /\ inferring' = inferring
            /\ \/ session'[s] \in {session[s], "none", "stopped", "running"}
               \/ session[s] = "running" /\ session'[s] = "ended"
         \/ /\ InferenceHandsOver \/ \E t \in Sessions : InferenceTakes(t)
            /\ session'[s] = IF Held(s)' THEN session[s] ELSE "none"
<1>1. /\ EdgeTypeOK /\ MainInv /\ OperatorInv /\ PipesInv /\ HoldInv /\ ObjectsOK /\ HoldInv'
  BY HoldStep DEF EdgeInv, EdgeTypeOK
<1>2. CASE InferenceHandsOver \/ \E t \in Sessions : InferenceTakes(t)
  <2>1. SessionsBecome(session, scheduled, late)
    BY <1>2 DEF InferenceTakes, InferenceHandsOver, Settle
  <2>2. QED
    BY <1>2, <2>1, EffectOfBecoming DEF Effect
<1>3. ASSUME ~(InferenceHandsOver \/ \E t \in Sessions : InferenceTakes(t))
      PROVE  inferring' = inferring
  <2>1. CASE ThreadStep
    BY <1>3, <2>1 DEF ThreadStep, SessionEnds, DeliveryTakes, Delivered
  <2>2. CASE UNCHANGED vars
    BY <2>2 DEF vars, pipes
  <2>3. QED
    BY <1>1, <2>1, <2>2, KindsOfSteps, MainLeaves, OperatorsLeave
<1>4. CASE ~Held(s)'
  BY <1>1, <1>2, <1>3, <1>4 DEF HoldInv
<1>5. ASSUME Held(s)', ConfigureAdd
      PROVE  session'[s] \in {session[s], "stopped"}
  <2>1. PICK t \in main.todo : /\ MainAt("configure")
                               /\ SessionsBecome(Set(t, "stopped"), scheduled \cup {t}, late)
    BY <1>5 DEF ConfigureAdd
  <2>2. t \in Sessions
    BY <1>1, <2>1 DEF MainInv, MainAt
  <2>3. Set(t, "stopped")[s] = IF s = t THEN "stopped" ELSE session[s]
    BY <1>1, <2>2, SetIsAlive
  <2>4. QED
    BY <1>5, <2>1, <2>3, EffectOfBecoming DEF Effect
<1>6. CASE Held(s)' /\ MainSteps
  BY <1>1, <1>2, <1>3, <1>5, <1>6, MainSessions
<1>7. ASSUME Held(s)', NEW o \in Operators, OperatorStep(o)
      PROVE  session'[s] \in {session[s], "stopped", "running"}
  BY <1>1, <1>7, OperatorSessions
<1>8. CASE Held(s)' /\ ThreadStep
  BY <1>1, <1>2, <1>3, <1>8, ThreadSessions
<1>9. CASE UNCHANGED vars
  BY <1>9 DEF vars, objects, pipes
<1>10. QED
  BY <1>2, <1>3, <1>4, <1>6, <1>7, <1>8, <1>9, KindsOfSteps

(* The service uses each session as SessionLife says one can be used: it   *)
(* is set to nothing a session does not do by itself or by start(), stop() *)
(* and its destructor, and no frame is taken from one that is stopped      *)
(* (EdgeMonitoringService.cpp, CameraManager.cpp, InferenceScheduler.cpp). *)
THEOREM ServiceFollowsSessionLife ==
  ASSUME NEW s \in Sessions
  PROVE  Spec => FollowsSessionLife(s)
<1>1. Init => Life(s)!Init
  BY EdgeAssumption DEF Init, Life!Init, StatusOf
<1>2. EdgeInv /\ [Next]_vars => [Life(s)!Next]_(Life(s)!life)
  <2> SUFFICES ASSUME EdgeInv, [Next]_vars
               PROVE  Life(s)!Next \/ UNCHANGED <<StatusOf(s), inferring = s>>
    BY DEF Life!life
  <2> USE DEF Life!Next, Life!Starts, Life!Ends, Life!Stops, StatusOf
  <2>1. session[s] \in {"none", "stopped", "running", "ended"}
    BY DEF EdgeInv, EdgeTypeOK, ObjectsOK
  <2>2. CASE inferring' = inferring /\ session'[s] \in {session[s], "none", "stopped", "running"}
    BY <2>2
  <2>3. CASE inferring' = inferring /\ session[s] = "running" /\ session'[s] = "ended"
    BY <2>3
  <2>4. ASSUME session'[s] = IF Held(s)' THEN session[s] ELSE "none"
        PROVE  /\ StatusOf(s)' \in {StatusOf(s), "stopped"}
               /\ inferring' = s => StatusOf(s)' = StatusOf(s)
    BY <2>4 DEF Held
  <2>5. CASE InferenceHandsOver /\ session'[s] = IF Held(s)' THEN session[s] ELSE "none"
    <3>1. inferring' = NoSession /\ NoSession # s
      BY <2>5, EdgeAssumption DEF InferenceHandsOver
    <3>2. CASE inferring = s
      BY <2>4, <2>5, <3>1, <3>2 DEF Life!HandsOver
    <3>3. CASE inferring # s
      BY <2>4, <2>5, <3>1, <3>3
    <3>4. QED
      BY <3>2, <3>3
  <2>6. ASSUME NEW t \in Sessions, InferenceTakes(t),
               session'[s] = IF Held(s)' THEN session[s] ELSE "none"
        PROVE  Life(s)!Next \/ UNCHANGED <<StatusOf(s), inferring = s>>
    <3>1. inferring = NoSession /\ inferring # s /\ inferring' = t /\ session[t] # "none"
          /\ session[t] # "stopped"
      BY <2>6, EdgeAssumption DEF InferenceTakes
    <3>2. CASE t = s
      BY <2>4, <2>6, <3>1, <3>2 DEF Life!Takes
    <3>3. CASE t # s
      BY <2>4, <2>6, <3>1, <3>3
    <3>4. QED
      BY <3>2, <3>3
  <2>7. QED
    BY <2>2, <2>3, <2>5, <2>6, SessionMoves
<1>3. QED
  BY <1>1, <1>2, EdgeInvariant, PTL DEF Spec, FollowsSessionLife, Life!Spec
-----------------------------------------------------------------------------
(* The configuration the program is started with (ConfigReaders).  For any *)
(* file whose lines have something on them: what the file says is kept in  *)
(* FileInv, what the two readers have made of it in FlatInv and MultiInv.  *)

(* The sections of a camera's settings, and the settings that are lists.   *)
Sections  == {<<>>, <<"source">>, <<"tracking">>, <<"monitoring">>, <<"control">>,
              <<"control", "auto_ptz">>}
ListPaths == {<<"monitoring", "target_classes">>, <<"monitoring", "target_class_ids">>,
              <<"control", "auto_ptz", "priority_classes">>}
ListNames == {"target_classes", "target_class_ids", "priority_classes", "classes", "class_names",
              "class_whitelist", "class_blacklist", "output_names"}
Words == STRING \cup ListNames \cup {"1", "cameras", "-", "id", "none", "source", "tracking",
                                     "monitoring", "control", "auto_ptz", "model", "inference",
                                     "application", "pipeline", "output", "logging"}

(* The end of a longer sequence.                                           *)
LEMMA AppendEnd ==
  ASSUME NEW S, NEW q \in Seq(S), NEW x
  PROVE  /\ Len(Append(q, x)) = Len(q) + 1 /\ Append(q, x)[Len(q) + 1] = x
         /\ Append(q, x)[Len(Append(q, x))] = x
         /\ \A i \in 1..Len(q) : Append(q, x)[i] = q[i]
         /\ SubSeq(Append(q, x), 1, Len(q)) = q
<1> DEFINE T == S \cup {x}
<1>1. q \in Seq(T) /\ x \in T
  OBVIOUS
<1>2. QED
  BY <1>1, AppendProperties

(* Two sequences are the same when their beginnings and ends are.          *)
LEMMA AppendOnce ==
  ASSUME NEW S, NEW q \in Seq(S), NEW r \in Seq(S), NEW x, NEW y
  PROVE  Append(q, x) = Append(r, y) => q = r /\ x = y
<1>1. Len(q) \in Nat /\ Len(r) \in Nat
  OBVIOUS
<1>2. QED
  BY <1>1, AppendEnd

(* A sequence of two or of three elements.                                 *)
LEMMA Pairs == ASSUME NEW S, NEW s \in Seq(S), Len(s) = 2 PROVE s = <<s[1], s[2]>>
OBVIOUS

(* A sequence of three.                                                    *)
LEMMA Triples == ASSUME NEW S, NEW s \in Seq(S), Len(s) = 3 PROVE s = <<s[1], s[2], s[3]>>
OBVIOUS

(* What a key makes of a path of one or of two names.                      *)
LEMMA AppendToOne ==
  ASSUME NEW S, NEW q \in Seq(S), NEW k \in S
  PROVE  Len(q) = 1 => Append(q, k) = <<q[1], k>>
<1> DEFINE s == Append(q, k)
           n == Len(q)
<1>1. s \in Seq(S) /\ Len(s) = n + 1 /\ s[n + 1] = k /\ (\A i \in 1..n : s[i] = q[i])
  BY AppendEnd
<1> HIDE DEF s, n
<1>2. ASSUME n = 1
      PROVE  s = <<q[1], k>>
  <2>1. Len(s) = 2 /\ s[2] = k /\ s[1] = q[1]
    BY <1>1, <1>2
  <2>2. QED
    BY <1>1, <2>1, Pairs
<1>3. QED
  BY <1>2 DEF s, n

(* The same of a path of two.                                              *)
LEMMA AppendToTwo ==
  ASSUME NEW S, NEW q \in Seq(S), NEW k \in S
  PROVE  Len(q) = 2 => Append(q, k) = <<q[1], q[2], k>>
<1> DEFINE s == Append(q, k)
           n == Len(q)
<1>1. s \in Seq(S) /\ Len(s) = n + 1 /\ s[n + 1] = k /\ (\A i \in 1..n : s[i] = q[i])
  BY AppendEnd
<1> HIDE DEF s, n
<1>2. ASSUME n = 2
      PROVE  s = <<q[1], q[2], k>>
  <2>1. Len(s) = 3 /\ s[3] = k /\ s[1] = q[1] /\ s[2] = q[2]
    BY <1>1, <1>2
  <2>2. QED
    BY <1>1, <2>1, Triples
<1>3. QED
  BY <1>2 DEF s, n

(* The paths a key below at most two headers may have.                     *)
LEMMA AppendTuples ==
  ASSUME NEW a, NEW b, NEW k
  PROVE  /\ Append(<<>>, k) = <<k>> /\ Append(<<a>>, k) = <<a, k>>
         /\ Append(<<a, b>>, k) = <<a, b, k>>
<1> DEFINE S == {a, b, k}
<1>1. /\ <<a>> \in Seq(S) /\ Len(<<a>>) = 1 /\ <<a>>[1] = a
      /\ <<a, b>> \in Seq(S) /\ Len(<<a, b>>) = 2 /\ <<a, b>>[1] = a /\ <<a, b>>[2] = b
      /\ k \in S
  OBVIOUS
<1> HIDE DEF S
<1>2. Append(<<>>, k) = <<k>>
  OBVIOUS
<1>3. Append(<<a>>, k) = <<a, k>>
  BY <1>1, AppendToOne
<1>4. Append(<<a, b>>, k) = <<a, b, k>>
  BY <1>1, AppendToTwo
<1>5. QED
  BY <1>2, <1>3, <1>4

(* The headers of a camera's sections are words.                           *)
LEMMA SectionsAreWords == \A s \in Sections : s \in Seq(Words)
<1>1. /\ <<>> \in Seq(Words) /\ <<"source">> \in Seq(Words) /\ <<"tracking">> \in Seq(Words)
      /\ <<"monitoring">> \in Seq(Words) /\ <<"control">> \in Seq(Words)
      /\ <<"control", "auto_ptz">> \in Seq(Words)
  BY DEF Words
<1>2. QED
  BY <1>1 DEF Sections

(* What is looked up in a table stands in one of its rows.                 *)
LEMMA LookupFacts ==
  ASSUME NEW table
  PROVE  /\ DOMAIN Lookup(table) = {row[1] : row \in table}
         /\ \A p \in DOMAIN Lookup(table) :
              \E row \in table : row[1] = p /\ row[2] = Lookup(table)[p]
<1>1. SUFFICES ASSUME NEW p \in {row[1] : row \in table}
               PROVE  \E row \in table : row[1] = p /\ row[2] = Lookup(table)[p]
  BY DEF Lookup
<1>2. Lookup(table)[p] = (CHOOSE row \in table : row[1] = p)[2]
  BY DEF Lookup
<1>3. QED
  BY <1>2

(* A path that has a row is known.                                         *)
LEMMA RowKnown ==
  ASSUME NEW table, NEW row \in table
  PROVE  row[1] \in DOMAIN Lookup(table)
BY DEF Lookup

(* What a row of the camera's table looks like.                            *)
InSection(row) == /\ \E s \in Sections : \E k : row[1] = Append(s, k)
                  /\ row[1][Len(row[1])] \in ListNames => row[1] \in ListPaths
                  /\ IsList(row[2]) <=> row[1] \in ListPaths

(* Rows that are no lists name settings of a section.                      *)
LEMMA RowFacts ==
  ASSUME NEW s \in Sections, NEW K, K \cap ListNames = {}, NEW e, ~IsList(e)
  PROVE  \A row \in Rows(s, K, e) : InSection(row)
<1>1. SUFFICES ASSUME NEW k \in K PROVE InSection(<<Append(s, k), e>>)
  BY DEF Rows
<1>2. s \in Seq(Words)
  BY SectionsAreWords
<1>3. Append(s, k)[Len(Append(s, k))] = k
  BY <1>2, AppendEnd
<1>4. \A p \in ListPaths : p[Len(p)] \in ListNames
  BY DEF ListPaths, ListNames
<1>5. Append(s, k) \notin ListPaths
  BY <1>3, <1>4
<1>6. QED
  BY <1>2, <1>3, <1>5 DEF InSection

(* A row that is a list is one of the three lists of a camera.             *)
LEMMA ListRowFacts ==
  ASSUME NEW s \in Sections, NEW k, Append(s, k) \in ListPaths, NEW e, IsList(e)
  PROVE  \A row \in Rows(s, {k}, e) : InSection(row)
<1>1. SUFFICES InSection(<<Append(s, k), e>>)
  BY DEF Rows
<1>2. QED
  BY DEF InSection

(* The three paths of lists.                                               *)
LEMMA ListPathsAppended ==
  /\ Append(<<"monitoring">>, "target_classes") = <<"monitoring", "target_classes">>
  /\ Append(<<"monitoring">>, "target_class_ids") = <<"monitoring", "target_class_ids">>
  /\ Append(<<"control", "auto_ptz">>, "priority_classes")
       = <<"control", "auto_ptz", "priority_classes">>
<1>1. /\ <<"monitoring">> \in Seq(Words) /\ <<"control", "auto_ptz">> \in Seq(Words)
      /\ "target_classes" \in Words /\ "target_class_ids" \in Words /\ "priority_classes" \in Words
  BY DEF Words, ListNames
<1>2. QED
  BY AppendTuples

(* Each row of the camera's table is of a section.                         *)
LEMMA CameraRows == \A row \in CameraTable : InSection(row)
<1>1. \A row \in Rows(<<"monitoring">>, {"target_classes"}, "names") : InSection(row)
  BY ListRowFacts, ListPathsAppended DEF Sections, ListPaths, IsList
<1>2. \A row \in Rows(<<"monitoring">>, {"target_class_ids"}, "numbers") : InSection(row)
  BY ListRowFacts, ListPathsAppended DEF Sections, ListPaths, IsList
<1>3. \A row \in Rows(<<"control", "auto_ptz">>, {"priority_classes"}, "numbers") : InSection(row)
  BY ListRowFacts, ListPathsAppended DEF Sections, ListPaths, IsList
<1>4. QED
  BY <1>1, <1>2, <1>3, RowFacts DEF CameraTable, Sections, ListNames, IsList

(* What is known of a camera's settings: each is in one of its sections,   *)
(* and a list is where the name of one is.                                 *)
LEMMA CameraPaths ==
  ASSUME NEW p \in DOMAIN CameraKeys
  PROVE  /\ \E s \in Sections : \E k : p = Append(s, k)
         /\ p[Len(p)] \in ListNames => p \in ListPaths
         /\ IsList(CameraKeys[p]) <=> p \in ListPaths
<1>1. PICK row \in CameraTable : row[1] = p /\ row[2] = CameraKeys[p]
  BY LookupFacts DEF CameraKeys
<1>2. QED
  BY <1>1, CameraRows DEF InSection

(* Whatever a table says of the setting p is e.                            *)
Only(table, p, e) == \A row \in table : row[1] = p => row[2] = e

(* Rows of a section agree on the setting where they mention it ...        *)
LEMMA OnlyAt ==
  ASSUME NEW s \in Seq(Words), NEW t \in Seq(Words), NEW K, NEW m, NEW e, NEW f,
         s = t /\ m \in K => e = f
  PROVE  Only(Rows(s, K, e), Append(t, m), f)
<1>1. SUFFICES ASSUME NEW k \in K, Append(s, k) = Append(t, m)
               PROVE  e = f
  BY DEF Only, Rows
<1>2. QED
  BY <1>1, AppendOnce

(* ... and rows that do not mention it cannot disagree.                    *)
LEMMA OnlyElsewhere ==
  ASSUME NEW s \in Seq(Words), NEW t \in Seq(Words), NEW K, NEW m, NEW e, NEW f,
         s # t \/ m \notin K
  PROVE  Only(Rows(s, K, e), Append(t, m), f)
BY OnlyAt

(* A setting whose rows agree is what they say.                            *)
LEMMA OnlyLookup ==
  ASSUME NEW table, NEW p, NEW e, Only(table, p, e), p \in DOMAIN Lookup(table)
  PROVE  Lookup(table)[p] = e
BY LookupFacts DEF Only

(* The id of a camera is a setting, kept as it is written.                 *)
LEMMA IdIsText == <<"id">> \in DOMAIN CameraKeys /\ CameraKeys[<<"id">>] = "text"
<1>1. Append(<<>>, "id") = <<"id">>
  BY AppendTuples
<1>2. Only(CameraTable, Append(<<>>, "id"), "text")
  BY OnlyAt, SectionsAreWords DEF CameraTable, Only, Sections
<1>3. <<"id">> \in DOMAIN CameraKeys
  <2>1. <<Append(<<>>, "id"), "text">> \in Rows(<<>>, {"id"}, "text")
    BY DEF Rows
  <2>2. Rows(<<>>, {"id"}, "text") \subseteq CameraTable
    BY DEF CameraTable
  <2>3. <<Append(<<>>, "id"), "text">> \in CameraTable
    BY <2>1, <2>2
  <2> DEFINE row == <<Append(<<>>, "id"), "text">>
  <2>4. row \in CameraTable /\ row[1] = <<"id">>
    BY <1>1, <2>3
  <2> HIDE DEF row
  <2>5. QED
    BY <2>4, RowKnown DEF CameraKeys
<1>4. CameraKeys[<<"id">>] = "text"
  BY <1>1, <1>2, <1>3, OnlyLookup DEF CameraKeys
<1>5. QED
  BY <1>3, <1>4

(* Every list of the camera and of the file has one of the names.          *)
ListNamed(row) == IsList(row[2]) => row[1][Len(row[1])] \in ListNames

(* Rows that are lists have the name of a list.                            *)
LEMMA NamedAt ==
  ASSUME NEW s \in Seq(Words), NEW K, NEW e, IsList(e) => K \subseteq ListNames
  PROVE  \A row \in Rows(s, K, e) : ListNamed(row)
<1>1. SUFFICES ASSUME NEW k \in K, IsList(e)
               PROVE  Append(s, k)[Len(Append(s, k))] \in ListNames
  BY DEF Rows, ListNamed
<1>2. QED
  BY <1>1, AppendEnd

FileSections == {<<"model">>, <<"inference">>, <<"application">>, <<"source">>, <<"pipeline">>,
                 <<"tracking">>, <<"monitoring">>, <<"output">>, <<"logging">>}

(* The headers of the file's sections are words.                           *)
LEMMA FileSectionsAreWords == \A s \in FileSections : s \in Seq(Words)
<1>1. /\ <<"model">> \in Seq(Words) /\ <<"inference">> \in Seq(Words)
      /\ <<"application">> \in Seq(Words) /\ <<"source">> \in Seq(Words)
      /\ <<"pipeline">> \in Seq(Words) /\ <<"tracking">> \in Seq(Words)
      /\ <<"monitoring">> \in Seq(Words) /\ <<"output">> \in Seq(Words)
      /\ <<"logging">> \in Seq(Words)
  BY DEF Words
<1>2. QED
  BY <1>1 DEF FileSections

(* Each list of the file's table has the name of a list.                   *)
LEMMA FileRows == \A row \in FileTable : ListNamed(row)
BY FileSectionsAreWords, NamedAt DEF FileTable, FileSections, ListNames, IsList

(* The headers below which items may stand are the names of lists.         *)
LEMMA ListKeysNamed == ListKeys \subseteq ListNames
<1>1. ASSUME NEW p \in DOMAIN CameraKeys, IsList(CameraKeys[p])
      PROVE  p[Len(p)] \in ListNames
  <2>1. \A q \in ListPaths : q[Len(q)] \in ListNames
    BY DEF ListPaths, ListNames
  <2>2. QED
    BY <1>1, <2>1, CameraPaths
<1>2. ASSUME NEW p \in DOMAIN FileKeys, IsList(FileKeys[p])
      PROVE  p[Len(p)] \in ListNames
  BY <1>2, FileRows, LookupFacts DEF ListNamed, FileKeys
<1>3. QED
  BY <1>1, <1>2 DEF ListKeys

(* The ranges and kinds of the settings other modules count on.            *)
LEMMA RangesInForce ==
  /\ <<"priority">> \in DOMAIN CameraRange /\ CameraRange[<<"priority">>] = Weights
  /\ <<"source", "queue_size">> \in DOMAIN CameraRange
  /\ CameraRange[<<"source", "queue_size">>] = Frames
  /\ <<"control", "queue_size">> \in DOMAIN CameraRange
  /\ CameraRange[<<"control", "queue_size">>] = Commands
  /\ <<"monitoring", "lost_frames">> \in DOMAIN CameraRange
  /\ CameraRange[<<"monitoring", "lost_frames">>] = Positive
<1>0. /\ <<>> \in Seq(Words) /\ <<"source">> \in Seq(Words) /\ <<"tracking">> \in Seq(Words)
      /\ <<"monitoring">> \in Seq(Words) /\ <<"control">> \in Seq(Words)
      /\ <<"control", "auto_ptz">> \in Seq(Words)
  BY SectionsAreWords DEF Sections
<1>1. ASSUME NEW s \in Sections, NEW k, NEW K, NEW e, k \in K, Rows(s, K, e) \subseteq CameraRanges,
             Only(CameraRanges, Append(s, k), e)
      PROVE  Append(s, k) \in DOMAIN CameraRange /\ CameraRange[Append(s, k)] = e
  <2> DEFINE row == <<Append(s, k), e>>
  <2>1. row \in CameraRanges /\ row[1] = Append(s, k)
    BY <1>1 DEF Rows
  <2> HIDE DEF row
  <2>2. Append(s, k) \in DOMAIN CameraRange
    BY <2>1, RowKnown DEF CameraRange
  <2>3. QED
    BY <1>1, <2>2, OnlyLookup DEF CameraRange
<1>2. Only(CameraRanges, Append(<<>>, "priority"), Weights)
  BY <1>0, OnlyAt, OnlyElsewhere DEF CameraRanges, Only
<1>3. Only(CameraRanges, Append(<<"source">>, "queue_size"), Frames)
  BY <1>0, OnlyAt, OnlyElsewhere DEF CameraRanges, Only
<1>4. Only(CameraRanges, Append(<<"control">>, "queue_size"), Commands)
  BY <1>0, OnlyAt, OnlyElsewhere DEF CameraRanges, Only
<1>5. Only(CameraRanges, Append(<<"monitoring">>, "lost_frames"), Positive)
  BY <1>0, OnlyAt, OnlyElsewhere DEF CameraRanges, Only
<1>6. /\ Rows(<<>>, {"priority"}, Weights) \subseteq CameraRanges
      /\ Rows(<<"source">>, {"queue_size"}, Frames) \subseteq CameraRanges
      /\ Rows(<<"control">>, {"queue_size"}, Commands) \subseteq CameraRanges
      /\ Rows(<<"monitoring">>, {"confirmation_frames", "lost_frames"}, Positive)
           \subseteq CameraRanges
  BY DEF CameraRanges
<1>7. /\ Append(<<>>, "priority") = <<"priority">>
      /\ Append(<<"source">>, "queue_size") = <<"source", "queue_size">>
      /\ Append(<<"control">>, "queue_size") = <<"control", "queue_size">>
      /\ Append(<<"monitoring">>, "lost_frames") = <<"monitoring", "lost_frames">>
  BY AppendTuples
<1>8. /\ <<>> \in Sections /\ <<"source">> \in Sections /\ <<"control">> \in Sections
      /\ <<"monitoring">> \in Sections
  BY DEF Sections
<1>9. /\ <<"priority">> \in DOMAIN CameraRange
      /\ CameraRange[<<"priority">>] = Weights
  <2> DEFINE p == Append(<<>>, "priority")
             row == <<p, Weights>>
  <2>1. row \in CameraRanges /\ row[1] = p
    BY <1>6 DEF Rows
  <2>2. p = <<"priority">> /\ Only(CameraRanges, p, Weights)
    BY <1>2, <1>7
  <2> HIDE DEF p, row
  <2>3. p \in DOMAIN CameraRange
    BY <2>1, RowKnown DEF CameraRange
  <2>4. QED
    BY <2>2, <2>3, OnlyLookup DEF CameraRange
<1>10. /\ Append(<<"source">>, "queue_size") \in DOMAIN CameraRange
       /\ CameraRange[Append(<<"source">>, "queue_size")] = Frames
  BY <1>1, <1>3, <1>6, <1>8
<1>11. /\ Append(<<"control">>, "queue_size") \in DOMAIN CameraRange
       /\ CameraRange[Append(<<"control">>, "queue_size")] = Commands
  BY <1>1, <1>4, <1>6, <1>8
<1>12. /\ Append(<<"monitoring">>, "lost_frames") \in DOMAIN CameraRange
       /\ CameraRange[Append(<<"monitoring">>, "lost_frames")] = Positive
  BY <1>1, <1>5, <1>6, <1>8
<1>13. QED
  BY <1>7, <1>9, <1>10, <1>11, <1>12

(* The number of detections is a count (ConfigManager.cpp:208).            *)
LEMMA DetectionsAreCounted ==
  /\ <<"model", "max_detections">> \in DOMAIN FileKeys
  /\ FileKeys[<<"model", "max_detections">>] = "count"
<1> DEFINE p == Append(<<"model">>, "max_detections")
           row == <<p, "count">>
<1>1. p = <<"model", "max_detections">>
  BY AppendTuples
<1>2. Only(FileTable, p, "count")
  BY OnlyAt, FileSectionsAreWords DEF FileTable, Only, FileSections
<1>3. Rows(<<"model">>, {"max_detections"}, "count") \subseteq FileTable
  BY DEF FileTable
<1>4. row \in FileTable /\ row[1] = p
  BY <1>3 DEF Rows
<1> HIDE DEF p, row
<1>5. p \in DOMAIN FileKeys
  BY <1>4, RowKnown DEF FileKeys
<1>6. QED
  BY <1>1, <1>2, <1>5, OnlyLookup DEF FileKeys

EndOf(q) == q[Len(q)]
InCameras == open # <<>> /\ open[1] = "cameras"

(* A line with something on it, and its part in a step.                    *)
Line(l) == l \in [depth : Nat, dash : BOOLEAN, key : STRING, value : STRING] /\ ~Blank(l)
ReadLine(l) == /\ Line(l) /\ l.depth <= Len(open) /\ Write(l)
               /\ flat' = FlatLine(flat, l) /\ multi' = MultiLine(multi, l)

(* What the file says so far.                                              *)
WrittenOK == \A x \in DOMAIN written : /\ x \in (0..count) \X Seq(Words)
                                         /\ written[x] \in Seq(Words)
FileInv ==
  /\ open \in Seq(Words) /\ count \in Nat /\ WrittenOK
  /\ InCameras /\ Len(open) >= 2 => count >= 1

(* The headers above a line, as flattenYaml keeps them.                    *)
Chain(q) == [i \in 1..Len(q) |-> [depth |-> i - 1, key |-> q[i]]]

(* What flattenYaml has kept is what is written outside of the cameras.    *)
Kept(w, scalars, lists) ==
  /\ \A p : <<0, p>> \in DOMAIN w /\ p # <<"cameras">> =>
       \/ p \in DOMAIN scalars /\ w[<<0, p>>] = <<scalars[p]>>
       \/ p \in DOMAIN lists /\ w[<<0, p>>] = lists[p]
  /\ \A p \in DOMAIN scalars \cup DOMAIN lists : <<0, p>> \in DOMAIN w
  /\ \A p \in DOMAIN lists : EndOf(p) \in ListKeys

FlatInv ==
  /\ flat = [parents |-> flat.parents, list |-> flat.list, skip |-> InCameras,
             scalars |-> flat.scalars, lists |-> flat.lists, error |-> FALSE]
  /\ flat.parents \in Seq([depth : Nat, key : Words])
  /\ ~InCameras => flat.parents = Chain(open)
  /\ ~InCameras /\ open # <<>> /\ EndOf(open) \in ListKeys =>
       /\ flat.list = open
       /\ <<0, open>> \in DOMAIN written =>
            open \in DOMAIN flat.lists /\ written[<<0, open>>] = flat.lists[open]
  /\ Kept(written, flat.scalars, flat.lists)

(* PathsOf is what is written of a camera.                                 *)
LEMMA PathsFacts ==
  ASSUME FileInv
  PROVE  \A n, p : p \in PathsOf(n) <=> <<n, p>> \in DOMAIN written
<1>1. ASSUME NEW n, NEW p, p \in PathsOf(n)
      PROVE  <<n, p>> \in DOMAIN written
  <2>1. PICK x \in DOMAIN written : x[1] = n /\ x[2] = p
    BY <1>1 DEF PathsOf
  <2>2. x = <<x[1], x[2]>>
    BY DEF FileInv, WrittenOK
  <2>3. QED
    BY <2>1, <2>2
<1>2. ASSUME NEW n, NEW p, <<n, p>> \in DOMAIN written
      PROVE  p \in PathsOf(n)
  <2> DEFINE x == <<n, p>>
  <2>1. x \in DOMAIN written /\ x[1] = n /\ x[2] = p
    BY <1>2
  <2> HIDE DEF x
  <2>2. QED
    BY <2>1 DEF PathsOf
<1>3. QED
  BY <1>1, <1>2

(* The fields of a line.                                                   *)
LEMMA LineFacts ==
  ASSUME NEW l, Line(l)
  PROVE  l.depth \in Nat /\ l.dash \in BOOLEAN /\ l.key \in Words /\ l.value \in Words
BY DEF Line, Words

(* Each line begins a camera, is an item of a list or says something.      *)
LEMMA LineShape ==
  ASSUME NEW l, Line(l), Write(l)
  PROVE  \/ Begins(l) /\ ~Item(l) /\ ~Pair(l)
         \/ Item(l) /\ ~Begins(l) /\ ~Pair(l)
         \/ Pair(l) /\ ~Begins(l) /\ ~Item(l)
BY DEF Line, Blank, Begins, Item, Pair, Write

(* The headers above a line are those it is indented below.                *)
LEMMA AboveFacts ==
  ASSUME FileInv, NEW l, Line(l), l.depth <= Len(open)
  PROVE  /\ Above(l) \in Seq(Words) /\ Len(Above(l)) = l.depth
         /\ \A i \in 1..l.depth : Above(l)[i] = open[i]
         /\ Above(l) = SubSeq(open, 1, l.depth)
<1>1. l.depth \in Nat
  BY LineFacts
<1>2. SubSeq(open, 1, l.depth) \in Seq(Words) /\ Len(SubSeq(open, 1, l.depth)) = l.depth
  BY <1>1 DEF FileInv
<1>3. \A i \in 1..l.depth : SubSeq(open, 1, l.depth)[i] = open[i]
  BY <1>1 DEF FileInv
<1>4. l.depth = 0 => SubSeq(open, 1, l.depth) = <<>>
  BY <1>1, <1>2
<1>5. QED
  BY <1>2, <1>3, <1>4 DEF Above

(* flattenYaml comes to the same headers.                                  *)
LEMMA ParentsAreAbove ==
  ASSUME FileInv, FlatInv, NEW l, Line(l), l.depth <= Len(open), l.depth = 0 \/ ~InCameras,
         NEW r, r.parents = flat.parents
  PROVE  ParentsOf(r, l) = Chain(Above(l))
<1> DEFINE ps == flat.parents
           d == l.depth
           Left(n) == /\ \A i \in n + 1 .. Len(ps) : ps[i].depth >= d
                      /\ n > 0 => ps[n].depth < d
<1>1. d \in Nat
  BY LineFacts
<1>2. ps \in Seq([depth : Nat, key : Words])
  BY DEF FlatInv
<1>3. CASE d = 0
  <2>1. Left(0) /\ \A n \in 0..Len(ps) : Left(n) => n = 0
    <3>1. \A i \in 1..Len(ps) : ps[i].depth \in Nat
      <4>1. ASSUME NEW i \in 1..Len(ps)
            PROVE  ps[i] \in [depth : Nat, key : Words]
        BY <1>2, ElementOfSeq
      <4>2. QED
        BY <4>1
    <3>2. Len(ps) \in Nat
      BY <1>2
    <3>3. QED
      BY <1>3, <3>1, <3>2
  <2>2. (CHOOSE n \in 0..Len(ps) : Left(n)) = 0
    BY <1>2, <2>1
  <2>3. ParentsOf(r, l) = SubSeq(ps, 1, 0)
    BY <2>2 DEF ParentsOf
  <2>4. Chain(Above(l)) = <<>>
    BY <1>3, AboveFacts DEF Chain
  <2>5. QED
    BY <1>2, <2>3, <2>4
<1>4. CASE d > 0
  <2>1. ps = Chain(open) /\ Len(open) \in Nat
    BY <1>1, <1>4 DEF FlatInv, FileInv
  <2>2. /\ Len(ps) = Len(open)
        /\ \A i \in 1..Len(open) : /\ ps[i].depth = i - 1
                                    /\ ps[i] = [depth |-> i - 1, key |-> open[i]]
    BY <2>1 DEF Chain
  <2>3. Left(d) /\ \A n \in 0..Len(ps) : Left(n) => n = d
    <3>1. \A i \in 1..Len(open) : ps[i].depth = i - 1
      BY <2>2
    <3>2. d \in 1..Len(open)
      BY <1>1, <1>4, <2>1
    <3>3. Left(d)
      BY <1>1, <2>1, <2>2, <3>1, <3>2
    <3>4. ASSUME NEW n \in 0..Len(ps), Left(n)
          PROVE  n = d
      <4>1. n < d => ps[d].depth >= d
        BY <1>1, <2>1, <2>2, <3>2, <3>4
      <4>2. n > d => ps[n].depth < d
        BY <1>1, <3>4
      <4>3. QED
        BY <1>1, <2>1, <2>2, <3>1, <3>2, <4>1, <4>2
    <3>5. QED
      BY <3>3, <3>4
  <2>4. (CHOOSE n \in 0..Len(ps) : Left(n)) = d
    BY <1>1, <2>1, <2>2, <2>3
  <2>5. ParentsOf(r, l) = SubSeq(ps, 1, d)
    BY <2>4 DEF ParentsOf
  <2>6. SubSeq(ps, 1, d) = [i \in 1..d |-> ps[i]]
    BY <1>1, <1>2, <2>1, <2>2
  <2>7. [i \in 1..d |-> ps[i]] = Chain(Above(l))
    BY <1>1, <2>2, AboveFacts DEF Chain
  <2>8. QED
    BY <2>5, <2>6, <2>7
<1>5. QED
  BY <1>1, <1>3, <1>4

(* The path flattenYaml puts together is the headers' with the key.        *)
LEMMA FlatPath ==
  ASSUME NEW q \in Seq(Words), NEW k
  PROVE  Append([i \in DOMAIN Chain(q) |-> Chain(q)[i].key], k) = Append(q, k)
<1>1. [i \in 1..Len(q) |-> q[i]] = q
  OBVIOUS
<1>2. [i \in DOMAIN Chain(q) |-> Chain(q)[i].key] = [i \in 1..Len(q) |-> q[i]]
  BY DEF Chain
<1>3. QED
  BY <1>1, <1>2

(* The stack of parents for some open headers ...                          *)
LEMMA ChainType == ASSUME NEW q \in Seq(Words) PROVE Chain(q) \in Seq([depth : Nat, key : Words])
BY DEF Chain

(* ... and with one more of them.                                          *)
LEMMA ChainAppend ==
  ASSUME NEW q \in Seq(Words), NEW k \in Words
  PROVE  Append(Chain(q), [depth |-> Len(q), key |-> k]) = Chain(Append(q, k))
<1> DEFINE row == [depth |-> Len(q), key |-> k]
           n == Len(q)
<1>1. Chain(q) \in Seq([depth : Nat, key : Words]) /\ Len(Chain(q)) = n /\ n \in Nat
  BY ChainType DEF Chain
<1>2. /\ Append(q, k) \in Seq(Words) /\ Len(Append(q, k)) = n + 1
      /\ Append(q, k)[n + 1] = k /\ \A i \in 1..n : Append(q, k)[i] = q[i]
  BY AppendEnd
<1>3. row \in [depth : Nat, key : Words]
  BY <1>1
<1>4. /\ Append(Chain(q), row) \in Seq([depth : Nat, key : Words])
      /\ Len(Append(Chain(q), row)) = n + 1 /\ Append(Chain(q), row)[n + 1] = row
      /\ \A i \in 1..n : Append(Chain(q), row)[i] = Chain(q)[i]
  BY <1>1, <1>3, AppendEnd
<1>5. /\ Chain(Append(q, k)) \in Seq([depth : Nat, key : Words])
      /\ Len(Chain(Append(q, k))) = n + 1
  BY <1>1, <1>2, ChainType DEF Chain
<1>6. ASSUME NEW i \in 1..n+1
      PROVE  Append(Chain(q), row)[i] = Chain(Append(q, k))[i]
  <2>1. Chain(Append(q, k))[i] = [depth |-> i - 1, key |-> Append(q, k)[i]]
    BY <1>2 DEF Chain
  <2>2. CASE i = n + 1
    BY <1>1, <1>2, <1>4, <2>1, <2>2
  <2>3. CASE i \in 1..n
    <3>1. Chain(q)[i] = [depth |-> i - 1, key |-> q[i]]
      BY <2>3 DEF Chain
    <3>2. QED
      BY <1>2, <1>4, <2>1, <2>3, <3>1
  <2>4. QED
    BY <1>1, <2>2, <2>3
<1>7. QED
  BY <1>1, <1>4, <1>5, <1>6, SeqEqual

(* Where the line of a setting or of a header is.                          *)
LEMMA WhereFacts ==
  ASSUME FileInv, NEW l, Line(l), l.depth <= Len(open)
  PROVE  LET path == Append(Above(l), l.key)
         IN /\ path \in Seq(Words) /\ Len(path) = l.depth + 1 /\ EndOf(path) = l.key
            /\ InBlock(l) <=> InCameras /\ l.depth > 0
            /\ ~InBlock(l) => Where(l) = <<0, path>>
            /\ InBlock(l) => Where(l) = <<count, SubSeq(path, 3, l.depth + 1)>>
            /\ path[1] = IF l.depth = 0 THEN l.key ELSE open[1]
<1> DEFINE path == Append(Above(l), l.key)
<1>1. l.depth \in Nat /\ l.key \in Words
  BY LineFacts
<1>2. /\ Above(l) \in Seq(Words) /\ Len(Above(l)) = l.depth
      /\ \A i \in 1..l.depth : Above(l)[i] = open[i]
  BY AboveFacts
<1>3. path \in Seq(Words) /\ Len(path) = l.depth + 1 /\ EndOf(path) = l.key
  BY <1>1, <1>2, AppendEnd DEF EndOf
<1>4. InBlock(l) <=> InCameras /\ l.depth > 0
  BY <1>1 DEF InBlock, InCameras, FileInv
<1>5. path[1] = IF l.depth = 0 THEN l.key ELSE open[1]
  BY <1>1, <1>2, AppendEnd
<1>6. QED
  BY <1>3, <1>4, <1>5 DEF Where

(* An item is below the header of a list.                                  *)
LEMMA ItemFacts ==
  ASSUME FileInv, NEW l, Line(l), Item(l)
  PROVE  /\ open # <<>> /\ l.depth = Len(open) /\ EndOf(open) \in ListKeys
         /\ InCameras => Len(open) >= 2 /\ count >= 1
         /\ Listed = IF InCameras THEN <<count, SubSeq(open, 3, Len(open))>> ELSE <<0, open>>
<1>1. open # <<>> /\ l.depth = Len(open) /\ EndOf(open) \in ListKeys
  BY DEF Item, EndOf
<1>2. Listed = IF InCameras THEN <<count, SubSeq(open, 3, Len(open))>> ELSE <<0, open>>
  BY <1>1 DEF Listed, InCameras
<1>3. "cameras" \notin ListKeys
  BY ListKeysNamed DEF ListNames
<1>4. InCameras => Len(open) >= 2
  BY <1>1, <1>3 DEF InCameras, EndOf, FileInv
<1>5. QED
  BY <1>1, <1>2, <1>4 DEF FileInv

(* A camera begins in the block, one level down.                           *)
LEMMA BeginsFacts ==
  ASSUME FileInv, NEW l, Line(l), l.depth <= Len(open), Begins(l)
  PROVE  InCameras /\ l.depth = 1 /\ InBlock(l) /\ l.dash /\ l.key = "id"
BY DEF Begins, InBlock, InCameras, FileInv

(* What a line with a key keeps to in a file that is well formed.          *)
LEMMA PairFacts ==
  ASSUME NEW l, Pair(l)
  PROVE  /\ InBlock(l) => l.depth > 1
         /\ l.depth > 0 => open[l.depth] \notin ListKeys
         /\ Where(l) \notin DOMAIN written /\ ~l.dash
         /\ l.value = "[1]" => l.key \in ListKeys
         /\ IsHeader(l) => (l.key \in ListKeys <=> Where(l)[2] \in DOMAIN Keys(l))
BY DEF Pair

(* A camera and a path.                                                    *)
LEMMA Place == ASSUME NEW S, NEW T, NEW a \in S, NEW b \in T PROVE <<a, b>> \in S \X T
OBVIOUS

(* The part of a path below its camera.                                    *)
LEMMA BelowCamera ==
  ASSUME NEW S, NEW q \in Seq(S), NEW n \in Nat, n <= Len(q)
  PROVE  /\ SubSeq(q, 3, n) \in Seq(S)
         /\ Len(SubSeq(q, 3, n)) = IF n >= 3 THEN n - 2 ELSE 0
         /\ \A i \in 1..n - 2 : SubSeq(q, 3, n)[i] = q[i + 2]
<1>1. \A i \in 3..n : q[i] \in S
  OBVIOUS
<1>2. QED
  BY <1>1, SubSeqProperties

(* What is written stays well typed.                                       *)
LEMMA WrittenStep ==
  ASSUME FileInv, NEW y \in (0..count') \X Seq(Words), NEW ws \in Seq(Words),
         count' \in Nat, count' >= count, written' = Put(written, y, ws)
  PROVE  WrittenOK'
<1>1. /\ DOMAIN written' = DOMAIN written \cup {y} /\ written'[y] = ws
      /\ \A x \in DOMAIN written \ {y} : written'[x] = written[x]
  BY DEF Put
<1>2. (0..count) \X Seq(Words) \subseteq (0..count') \X Seq(Words)
  BY DEF FileInv
<1>3. \A x \in DOMAIN written : x \in (0..count) \X Seq(Words) /\ written[x] \in Seq(Words)
  BY DEF FileInv, WrittenOK
<1>4. QED
  BY <1>1, <1>2, <1>3 DEF WrittenOK

(* What the file says stays what FileInv allows, after any line.           *)
LEMMA FileStep ==
  ASSUME FileInv, NEW l, Line(l), l.depth <= Len(open), Write(l)
  PROVE  FileInv'
<1>1. l.depth \in Nat /\ l.key \in Words /\ l.value \in Words
  BY LineFacts
<1>2. "id" \in Words /\ "1" \in Words /\ "cameras" \in Words /\ "-" \in Words
  BY DEF Words
<1>3. CASE Begins(l)
  <2>1. /\ count' = count + 1 /\ open' = <<"cameras", "-">>
        /\ written' = Put(written, <<count + 1, <<"id">>>>, <<l.value>>)
    BY <1>3, LineShape DEF Write, Line
  <2>2. <<"id">> \in Seq(Words) /\ <<l.value>> \in Seq(Words) /\ open' \in Seq(Words)
    BY <1>1, <1>2, <2>1
  <2>3. count' \in Nat /\ count' >= count /\ count' >= 1
    BY <2>1 DEF FileInv
  <2>4. <<count + 1, <<"id">>>> \in (0..count') \X Seq(Words)
    <3>1. count + 1 \in 0..count'
      BY <2>1, <2>3
    <3>2. QED
      BY <2>2, <3>1, Place
  <2>5. WrittenOK'
    BY <2>1, <2>2, <2>3, <2>4, WrittenStep
  <2>6. QED
    BY <2>2, <2>3, <2>5 DEF FileInv
<1>4. CASE Item(l)
  <2>1. written' = Extend(written, Listed, l.value) /\ UNCHANGED <<open, count>>
    BY <1>4, LineShape DEF Write, Line
  <2> DEFINE ws == Append(IF Listed \in DOMAIN written THEN written[Listed] ELSE <<>>, l.value)
  <2>2. ws \in Seq(Words)
    BY <1>1 DEF FileInv, WrittenOK
  <2>3. SubSeq(open, 3, Len(open)) \in Seq(Words)
    BY DEF FileInv
  <2>4. Listed \in (0..count) \X Seq(Words)
    <3>1. 0 \in 0..count /\ count \in 0..count /\ open \in Seq(Words)
      BY DEF FileInv
    <3>2. Listed = IF InCameras THEN <<count, SubSeq(open, 3, Len(open))>> ELSE <<0, open>>
      BY <1>4, ItemFacts
    <3>3. <<count, SubSeq(open, 3, Len(open))>> \in (0..count) \X Seq(Words)
      BY <2>3, <3>1, Place
    <3>4. <<0, open>> \in (0..count) \X Seq(Words)
      BY <3>1, Place
    <3>5. QED
      BY <3>2, <3>3, <3>4
  <2>5. written' = Put(written, Listed, ws)
    BY <2>1 DEF Extend
  <2> HIDE DEF ws
  <2>6. QED
    BY <2>1, <2>2, <2>4, <2>5, WrittenStep DEF FileInv, InCameras
<1>5. CASE Pair(l)
  <2> DEFINE path == Append(Above(l), l.key)
             ws == <<IF l.value = "[1]" THEN "1" ELSE l.value>>
  <2>1. /\ count' = count /\ open' = IF IsHeader(l) THEN path ELSE Above(l)
        /\ \/ written' = written
           \/ written' = Put(written, Where(l), ws)
    BY <1>5, LineShape DEF Write, Line
  <2>2. ws \in Seq(Words)
    BY <1>1, <1>2
  <2>3. /\ path \in Seq(Words) /\ Len(path) = l.depth + 1
        /\ Above(l) \in Seq(Words) /\ Len(Above(l)) = l.depth
    BY WhereFacts, AboveFacts
  <2>4. SubSeq(path, 3, l.depth + 1) \in Seq(Words)
    BY <1>1, <2>3, BelowCamera
  <2>5. Where(l) \in (0..count) \X Seq(Words)
    <3>1. 0 \in 0..count /\ count \in 0..count
      BY DEF FileInv
    <3>2. Where(l) = IF InBlock(l) THEN <<count, SubSeq(path, 3, l.depth + 1)>> ELSE <<0, path>>
      BY WhereFacts
    <3>3. <<count, SubSeq(path, 3, l.depth + 1)>> \in (0..count) \X Seq(Words)
      BY <2>4, <3>1, Place
    <3>4. <<0, path>> \in (0..count) \X Seq(Words)
      BY <2>3, <3>1, Place
    <3>5. QED
      BY <3>2, <3>3, <3>4
  <2>6. open' \in Seq(Words)
    BY <2>1, <2>3
  <2>7. ASSUME InCameras', Len(open') >= 2
        PROVE  count' >= 1
    <3>1. l.depth > 0
      BY <1>1, <2>1, <2>3, <2>7
    <3>2. open'[1] = open[1]
      BY <1>1, <2>1, <2>3, <3>1, AboveFacts, WhereFacts
    <3>3. InBlock(l)
      BY <2>7, <3>1, <3>2 DEF InBlock, InCameras
    <3>4. InCameras /\ Len(open) >= 2
      BY <1>1, <1>5, <3>3, WhereFacts, PairFacts DEF FileInv
    <3>5. QED
      BY <2>1, <3>4 DEF FileInv
  <2> HIDE DEF ws, path
  <2>8. QED
    BY <2>1, <2>2, <2>5, <2>6, <2>7, WrittenStep DEF FileInv, WrittenOK
<1>6. QED
  BY <1>3, <1>4, <1>5, LineShape

(* The line that opens the cameras block.                                  *)
OpensBlock(l) == l.depth = 0 /\ l.key = "cameras" /\ l.value = ""

(* flattenYaml with the skipping set, field by field.                      *)
LEMMA FlatRecord ==
  ASSUME FlatInv, NEW up
  PROVE  [flat EXCEPT !.skip = up] = [parents |-> flat.parents, list |-> flat.list, skip |-> up,
                                      scalars |-> flat.scalars, lists |-> flat.lists,
                                      error |-> FALSE]
<1>1. PICK a, b, c, d, e : flat = [parents |-> a, list |-> b, skip |-> c,
                                   scalars |-> d, lists |-> e, error |-> FALSE]
  BY DEF FlatInv
<1>2. PICK f : f = FALSE
  OBVIOUS
<1>3. flat = [parents |-> a, list |-> b, skip |-> c, scalars |-> d, lists |-> e, error |-> f]
  BY <1>1, <1>2
<1>4. [flat EXCEPT !.skip = up]
        = [parents |-> a, list |-> b, skip |-> up, scalars |-> d, lists |-> e, error |-> f]
  BY ONLY <1>3
<1>5. a = flat.parents /\ b = flat.list /\ d = flat.scalars /\ e = flat.lists
  BY <1>1
<1>6. QED
  BY <1>2, <1>4, <1>5

(* flattenYaml passes over the cameras block.                              *)
LEMMA FlatInside ==
  ASSUME FlatInv, NEW l, Line(l), InCameras, l.depth > 0
  PROVE  FlatLine(flat, l) = flat
<1>1. flat.skip = TRUE
  BY DEF FlatInv
<1>2. QED
  <2>1. ~(l.key = "" /\ ~l.dash) /\ l.depth # 0
    <3>1. l.depth # 0
      BY LineFacts
    <3>2. ~(l.key = "" /\ ~l.dash)
      BY DEF Line, Blank
    <3>3. QED
      BY <3>1, <3>2
  <2>2. QED
    BY <1>1, <2>1 DEF FlatLine

(* The header of the block makes it skip.                                  *)
LEMMA FlatOpens ==
  ASSUME FlatInv, NEW l, Line(l), OpensBlock(l)
  PROVE  FlatLine(flat, l) = [parents |-> flat.parents, list |-> flat.list, skip |-> TRUE,
                              scalars |-> flat.scalars, lists |-> flat.lists, error |-> FALSE]
<1>1. FlatLine(flat, l) = [flat EXCEPT !.skip = TRUE]
  BY DEF FlatLine, Line, Blank, OpensBlock
<1>2. QED
  BY <1>1, FlatRecord

(* What is outside of the block goes to FlatItem or FlatPair.              *)
LEMMA FlatOutside ==
  ASSUME FlatInv, NEW l, Line(l), l.depth = 0 \/ ~InCameras, ~OpensBlock(l)
  PROVE  LET s == [parents |-> flat.parents, list |-> flat.list, skip |-> FALSE,
                   scalars |-> flat.scalars, lists |-> flat.lists, error |-> FALSE]
         IN FlatLine(flat, l) = IF l.dash THEN FlatItem(s, l) ELSE FlatPair(s, l)
<1>1. ~(flat.skip /\ l.depth > 0)
  BY LineFacts DEF FlatInv
<1>2. FlatLine(flat, l) = IF l.dash THEN FlatItem([flat EXCEPT !.skip = FALSE], l)
                          ELSE FlatPair([flat EXCEPT !.skip = FALSE], l)
  BY <1>1 DEF FlatLine, Line, Blank, OpensBlock
<1>3. [flat EXCEPT !.skip = FALSE]
        = [parents |-> flat.parents, list |-> flat.list, skip |-> FALSE,
           scalars |-> flat.scalars, lists |-> flat.lists, error |-> FALSE]
  BY FlatRecord
<1>4. QED
  BY <1>2, <1>3

(* flattenYaml on an item outside the block.                               *)
LEMMA FlatItemFacts ==
  ASSUME FlatInv, NEW l, Line(l), ~InCameras, l.dash, ~OpensBlock(l), flat.list # <<>>
  PROVE  FlatLine(flat, l) = [parents |-> flat.parents, list |-> flat.list, skip |-> FALSE,
                              scalars |-> flat.scalars,
                              lists |-> Extend(flat.lists, flat.list, l.value), error |-> FALSE]
<1> DEFINE s == [parents |-> flat.parents, list |-> flat.list, skip |-> FALSE,
                 scalars |-> flat.scalars, lists |-> flat.lists, error |-> FALSE]
<1>1. FlatLine(flat, l) = FlatItem(s, l)
  BY FlatOutside
<1>2. FlatItem(s, l) = [s EXCEPT !.lists = Extend(s.lists, s.list, l.value)]
  BY DEF FlatItem
<1>3. QED
  BY <1>1, <1>2

(* flattenYaml on a line with a key outside the block.                     *)
LEMMA FlatPairFacts ==
  ASSUME FileInv, FlatInv, NEW l, Line(l), l.depth <= Len(open), l.depth = 0 \/ ~InCameras,
         ~l.dash, ~OpensBlock(l)
  PROVE  LET path == Append(Above(l), l.key)
         IN /\ l.value = "" =>
                 FlatLine(flat, l) = [parents |-> Chain(path), list |-> path, skip |-> FALSE,
                                      scalars |-> flat.scalars, lists |-> flat.lists,
                                      error |-> FALSE]
            /\ l.value = "[1]" =>
                 FlatLine(flat, l) = [parents |-> Chain(Above(l)), list |-> <<>>, skip |-> FALSE,
                                      scalars |-> flat.scalars,
                                      lists |-> Put(flat.lists, path, <<"1">>), error |-> FALSE]
            /\ l.value \notin {"", "[1]"} =>
                 FlatLine(flat, l) = [parents |-> Chain(Above(l)), list |-> <<>>, skip |-> FALSE,
                                      scalars |-> Put(flat.scalars, path, l.value),
                                      lists |-> flat.lists, error |-> FALSE]
<1> DEFINE s == [parents |-> flat.parents, list |-> flat.list, skip |-> FALSE,
                 scalars |-> flat.scalars, lists |-> flat.lists, error |-> FALSE]
           path == Append(Above(l), l.key)
           parents == ParentsOf(s, l)
<1>1. FlatLine(flat, l) = FlatPair(s, l)
  BY FlatOutside
<1>2. parents = Chain(Above(l))
  BY ParentsAreAbove
<1>3. Above(l) \in Seq(Words) /\ Len(Above(l)) = l.depth /\ l.key \in Words
  BY AboveFacts, LineFacts
<1>4. Append([i \in DOMAIN parents |-> parents[i].key], l.key) = path
  BY <1>2, <1>3, FlatPath
<1>5. Append(parents, [depth |-> l.depth, key |-> l.key]) = Chain(path)
  BY <1>2, <1>3, ChainAppend
<1> HIDE DEF path, parents
<1>6. /\ l.value = "" => FlatPair(s, l) = [s EXCEPT !.parents = Chain(path), !.list = path]
      /\ l.value = "[1]" => FlatPair(s, l) = [s EXCEPT !.parents = parents, !.list = <<>>,
                                                       !.lists = Put(s.lists, path, <<"1">>)]
      /\ l.value \notin {"", "[1]"} =>
           FlatPair(s, l) = [s EXCEPT !.parents = parents, !.list = <<>>,
                                      !.scalars = Put(s.scalars, path, l.value)]
  BY <1>4, <1>5 DEF FlatPair, parents
<1>7. /\ l.value = "" =>
           FlatLine(flat, l) = [parents |-> Chain(path), list |-> path, skip |-> FALSE,
                                scalars |-> flat.scalars, lists |-> flat.lists, error |-> FALSE]
      /\ l.value = "[1]" =>
           FlatLine(flat, l) = [parents |-> parents, list |-> <<>>, skip |-> FALSE,
                                scalars |-> flat.scalars,
                                lists |-> Put(flat.lists, path, <<"1">>), error |-> FALSE]
      /\ l.value \notin {"", "[1]"} =>
           FlatLine(flat, l) = [parents |-> parents, list |-> <<>>, skip |-> FALSE,
                                scalars |-> Put(flat.scalars, path, l.value),
                                lists |-> flat.lists, error |-> FALSE]
  BY <1>1, <1>6
<1>8. QED
  BY <1>2, <1>7 DEF path

(* What one line adds to what is written.                                  *)
LEMMA WriteFacts ==
  ASSUME NEW l, Line(l), Write(l)
  PROVE  /\ Begins(l) => /\ count' = count + 1 /\ open' = <<"cameras", "-">>
                         /\ written' = Put(written, <<count + 1, <<"id">>>>, <<l.value>>)
         /\ Item(l) => /\ open' = open /\ count' = count
                       /\ written' = Extend(written, Listed, l.value)
         /\ Pair(l) => /\ count' = count
                       /\ open' = IF IsHeader(l) THEN Append(Above(l), l.key) ELSE Above(l)
                       /\ IsHeader(l) /\ ~OpensBlock(l) => written' = written
                       /\ ~IsHeader(l) \/ OpensBlock(l) =>
                            written' = Put(written, Where(l),
                                           <<IF l.value = "[1]" THEN "1" ELSE l.value>>)
<1>1. IsHeader(l) => (OpensBlock(l) <=> l.depth = 0 /\ l.key = "cameras")
  BY DEF IsHeader, OpensBlock
<1>2. CASE Begins(l)
  BY <1>2, LineShape DEF Write, Line
<1>3. CASE Item(l)
  BY <1>3, LineShape DEF Write, Line
<1>4. CASE Pair(l)
  BY <1>1, <1>4, LineShape DEF Write, Line
<1>5. QED
  BY <1>2, <1>3, <1>4

(* What is written of a camera is nothing to flattenYaml ...               *)
LEMMA KeptElsewhere ==
  ASSUME NEW w, NEW s, NEW ls, Kept(w, s, ls), NEW n, n # 0, NEW q, NEW v
  PROVE  Kept(Put(w, <<n, q>>, v), s, ls)
BY DEF Kept, Put

(* ... the header of the block neither; it keeps a new setting ...         *)
LEMMA KeptCameras ==
  ASSUME NEW w, NEW s, NEW ls, Kept(w, s, ls), NEW v
  PROVE  Kept(Put(w, <<0, <<"cameras">>>>, v), s, ls)
BY DEF Kept, Put

(* ... as a scalar where it has one word ...                               *)
LEMMA KeptScalar ==
  ASSUME NEW w, NEW s, NEW ls, Kept(w, s, ls), NEW q, NEW v, <<0, q>> \notin DOMAIN w
  PROVE  Kept(Put(w, <<0, q>>, <<v>>), Put(s, q, v), ls)
BY DEF Kept, Put

(* ... and as a list where it stands below the name of one.                *)
LEMMA KeptList ==
  ASSUME NEW w, NEW s, NEW ls, Kept(w, s, ls), NEW q, NEW v, EndOf(q) \in ListKeys
  PROVE  Kept(Put(w, <<0, q>>, v), s, Put(ls, q, v))
BY DEF Kept, Put

(* flattenYaml keeps what is outside the block, after any line.            *)
LEMMA FlatStep ==
  ASSUME FileInv, FlatInv, FileInv', NEW l, ReadLine(l)
  PROVE  FlatInv'
<1> DEFINE path == Append(Above(l), l.key)
<1>1. /\ Line(l) /\ l.depth <= Len(open) /\ Write(l) /\ flat' = FlatLine(flat, l)
      /\ l.depth \in Nat /\ l.dash \in BOOLEAN /\ l.key \in Words
  BY LineFacts DEF ReadLine
<1>2. Kept(written, flat.scalars, flat.lists) /\ flat.skip = InCameras
  BY DEF FlatInv
<1>3. /\ path \in Seq(Words) /\ Len(path) = l.depth + 1 /\ EndOf(path) = l.key
      /\ path[1] = IF l.depth = 0 THEN l.key ELSE open[1]
      /\ InBlock(l) <=> InCameras /\ l.depth > 0
      /\ ~InBlock(l) => Where(l) = <<0, path>>
      /\ InBlock(l) => Where(l) = <<count, SubSeq(path, 3, l.depth + 1)>>
  BY <1>1, WhereFacts
<1>4. /\ Above(l) \in Seq(Words) /\ Len(Above(l)) = l.depth
      /\ \A i \in 1..l.depth : Above(l)[i] = open[i]
  BY <1>1, AboveFacts
<1>5. CASE InCameras /\ l.depth > 0
  <2>1. flat' = flat
    BY <1>1, <1>5, FlatInside
  <2>2. InCameras' /\ Kept(written', flat.scalars, flat.lists)
    <3>1. CASE Begins(l)
      <4>1. /\ open' = <<"cameras", "-">>
            /\ written' = Put(written, <<count + 1, <<"id">>>>, <<l.value>>)
        BY <1>1, <3>1, WriteFacts
      <4>2. count + 1 # 0
        BY DEF FileInv
      <4>3. InCameras'
        BY <4>1 DEF InCameras
      <4>4. QED
        BY <1>2, <4>1, <4>2, <4>3, KeptElsewhere
    <3>2. CASE Item(l)
      <4>1. open' = open /\ written' = Extend(written, Listed, l.value)
        BY <1>1, <3>2, WriteFacts
      <4>2. Listed = <<count, SubSeq(open, 3, Len(open))>> /\ count # 0
        BY <1>1, <1>5, <3>2, ItemFacts DEF FileInv
      <4>3. Kept(written', flat.scalars, flat.lists)
        BY <1>2, <4>1, <4>2, KeptElsewhere DEF Extend
      <4>4. QED
        BY <1>5, <4>1, <4>3 DEF InCameras
    <3>3. CASE Pair(l)
      <4>1. ~OpensBlock(l) /\ InBlock(l) /\ l.depth > 1
        <5>1. InBlock(l)
          BY <1>3, <1>5
        <5>2. l.depth > 1
          BY <3>3, <5>1, PairFacts
        <5>3. QED
          <6>1. l.depth # 0
            BY <1>1, <5>2
          <6>2. QED
            BY <5>1, <5>2, <6>1 DEF OpensBlock
      <4>2. Where(l) = <<count, SubSeq(path, 3, l.depth + 1)>> /\ count # 0
        <5>1. Len(open) >= 2
          BY <1>1, <4>1 DEF FileInv
        <5>2. QED
          BY <1>3, <1>5, <4>1, <5>1 DEF FileInv
      <4>3. Kept(written', flat.scalars, flat.lists)
        BY <1>1, <1>2, <3>3, <4>1, <4>2, KeptElsewhere, WriteFacts
      <4>4. open'[1] = open[1] /\ Len(open') > 0
        <5>1. open' = path \/ open' = Above(l)
          BY <1>1, <3>3, WriteFacts
        <5>2. l.depth # 0 /\ 1 \in 1..l.depth
          BY <1>1, <4>1
        <5> HIDE DEF path
        <5>3. QED
          BY <1>1, <1>3, <1>4, <5>1, <5>2
      <4>5. QED
        BY <1>5, <4>3, <4>4 DEF InCameras, FileInv
    <3>4. QED
      BY <1>1, <3>1, <3>2, <3>3, LineShape
  <2>3. QED
    BY <1>5, <2>1, <2>2 DEF FlatInv
<1>6. CASE OpensBlock(l)
  <2>1. flat' = [parents |-> flat.parents, list |-> flat.list, skip |-> TRUE,
                 scalars |-> flat.scalars, lists |-> flat.lists, error |-> FALSE]
    BY <1>1, <1>6, FlatOpens
  <2>2. Pair(l) /\ l.depth = 0 /\ l.key = "cameras" /\ IsHeader(l)
    BY <1>1, <1>6, LineShape DEF OpensBlock, Begins, Item, IsHeader, Pair
  <2>3. Above(l) = <<>>
    BY <1>4, <2>2
  <2>4. path = <<"cameras">>
    BY <2>2, <2>3, AppendTuples
  <2>5. open' = path
    BY <1>1, <2>2, WriteFacts
  <2>6. InCameras'
    BY <2>4, <2>5 DEF InCameras
  <2>7. Where(l) = <<0, <<"cameras">>>>
    <3>1. ~InBlock(l)
      BY <1>3, <2>2
    <3>2. QED
      BY <1>3, <2>4, <3>1
  <2>8. Kept(written', flat.scalars, flat.lists)
    BY <1>1, <1>2, <1>6, <2>2, <2>7, KeptCameras, WriteFacts
  <2>9. QED
    BY <2>1, <2>6, <2>8 DEF FlatInv
<1>7. CASE ~(InCameras /\ l.depth > 0) /\ ~OpensBlock(l) /\ Item(l)
  <2>1. /\ open # <<>> /\ l.depth = Len(open) /\ EndOf(open) \in ListKeys
        /\ Listed = IF InCameras THEN <<count, SubSeq(open, 3, Len(open))>> ELSE <<0, open>>
    BY <1>1, <1>7, ItemFacts
  <2>2. ~InCameras /\ Listed = <<0, open>>
    <3>1. l.depth > 0
      BY <2>1 DEF FileInv
    <3>2. QED
      BY <1>7, <2>1, <3>1
  <2>3. open' = open /\ written' = Extend(written, <<0, open>>, l.value) /\ l.dash
    BY <1>1, <1>7, <2>2, WriteFacts DEF Item
  <2>4. /\ flat.list = open /\ flat.parents = Chain(open)
        /\ flat.parents \in Seq([depth : Nat, key : Words])
    BY <2>1, <2>2 DEF FlatInv
  <2>5. flat' = [parents |-> flat.parents, list |-> flat.list, skip |-> FALSE,
                 scalars |-> flat.scalars,
                 lists |-> Extend(flat.lists, open, l.value), error |-> FALSE]
    BY <1>1, <1>7, <2>1, <2>2, <2>3, <2>4, FlatItemFacts
  <2> DEFINE ws == Append(IF open \in DOMAIN flat.lists THEN flat.lists[open] ELSE <<>>, l.value)
  <2>6. /\ Extend(flat.lists, open, l.value) = Put(flat.lists, open, ws)
        /\ Extend(written, <<0, open>>, l.value) = Put(written, <<0, open>>, ws)
    <3>1. <<0, open>> \in DOMAIN written <=> open \in DOMAIN flat.lists
      BY <1>2, <2>1, <2>2 DEF FlatInv, Kept
    <3>2. <<0, open>> \in DOMAIN written => written[<<0, open>>] = flat.lists[open]
      BY <2>1, <2>2 DEF FlatInv
    <3>3. QED
      BY <3>1, <3>2 DEF Extend
  <2> HIDE DEF ws
  <2>7. Kept(written', flat'.scalars, flat'.lists)
    BY <1>2, <2>1, <2>3, <2>5, <2>6, KeptList
  <2>8. written'[<<0, open>>] = flat'.lists[open] /\ open \in DOMAIN flat'.lists
    BY <2>3, <2>5, <2>6 DEF Put
  <2>9. InCameras' = FALSE
    BY <2>2, <2>3 DEF InCameras
  <2>10. flat'.parents = Chain(open)' /\ flat'.list = open'
    BY <2>3, <2>4, <2>5 DEF Chain
  <2>11. QED
    BY <2>3, <2>4, <2>5, <2>7, <2>8, <2>9, <2>10 DEF FlatInv
<1>8. CASE ~(InCameras /\ l.depth > 0) /\ ~OpensBlock(l) /\ Pair(l)
  <2>1. l.depth = 0 \/ ~InCameras
    BY <1>1, <1>8
  <2>2. ~InBlock(l) /\ Where(l) = <<0, path>>
    BY <1>3, <1>8
  <2>3. <<0, path>> \notin DOMAIN written /\ ~l.dash
    BY <1>8, <2>2, PairFacts
  <2>4. l.depth > 0 => open[1] # "cameras" /\ open[l.depth] \notin ListKeys
    <3>1. l.depth > 0 => open # <<>>
      BY <1>1 DEF FileInv
    <3>2. QED
      BY <1>8, <2>1, <3>1, PairFacts DEF InCameras
  <2>5. CASE l.value = ""
    <3>1. flat' = [parents |-> Chain(path), list |-> path, skip |-> FALSE,
                   scalars |-> flat.scalars, lists |-> flat.lists, error |-> FALSE]
      BY <1>1, <1>8, <2>1, <2>3, <2>5, FlatPairFacts
    <3>2. open' = path /\ written' = written
      BY <1>1, <1>8, <2>3, <2>5, WriteFacts DEF IsHeader
    <3>3. l.depth = 0 => l.key # "cameras"
      BY <1>8, <2>5 DEF OpensBlock
    <3> HIDE DEF path
    <3>4. InCameras' = FALSE
      BY <1>1, <1>3, <2>4, <3>2, <3>3 DEF InCameras
    <3>5. flat'.parents = Chain(open)' /\ Chain(path) \in Seq([depth : Nat, key : Words])
      BY <1>3, <3>1, <3>2, ChainType DEF Chain
    <3>6. QED
      BY <1>2, <2>3, <3>1, <3>2, <3>4, <3>5 DEF FlatInv
  <2>6. CASE l.value # ""
    <3>1. open' = Above(l)
      BY <1>1, <1>8, <2>6, WriteFacts DEF IsHeader
    <3>2. written' = Put(written, <<0, path>>, <<IF l.value = "[1]" THEN "1" ELSE l.value>>)
      BY <1>1, <1>8, <2>2, <2>6, WriteFacts DEF IsHeader
    <3>3. InCameras' = FALSE
      <4>1. l.depth = 0 => Above(l) = <<>>
        BY <1>4
      <4>2. l.depth > 0 => Above(l)[1] = open[1]
        BY <1>1, <1>4
      <4>3. QED
        BY <1>1, <2>4, <3>1, <4>1, <4>2 DEF InCameras
    <3>4. open' # <<>> => EndOf(open') \notin ListKeys
      <4>1. Above(l) # <<>> => l.depth > 0
        BY <1>1, <1>4
      <4>2. l.depth > 0 => EndOf(Above(l)) = open[l.depth]
        BY <1>1, <1>4 DEF EndOf
      <4>3. QED
        BY <2>4, <3>1, <4>1, <4>2
    <3>5. Chain(Above(l)) = Chain(open)' /\ Chain(Above(l)) \in Seq([depth : Nat, key : Words])
      BY <1>4, <3>1, ChainType DEF Chain
    <3>6. CASE l.value = "[1]"
      <4>1. flat' = [parents |-> Chain(Above(l)), list |-> <<>>, skip |-> FALSE,
                     scalars |-> flat.scalars, lists |-> Put(flat.lists, path, <<"1">>),
                     error |-> FALSE]
        BY <1>1, <1>8, <2>1, <2>3, <3>6, FlatPairFacts
      <4>2. EndOf(path) \in ListKeys
        BY <1>3, <1>8, <3>6, PairFacts
      <4>3. written' = Put(written, <<0, path>>, <<"1">>)
        BY <3>2, <3>6
      <4> HIDE DEF path
      <4>4. Kept(written', flat'.scalars, flat'.lists)
        BY <1>2, <4>1, <4>2, <4>3, KeptList
      <4>5. QED
        BY <3>1, <3>3, <3>4, <3>5, <4>1, <4>4 DEF FlatInv
    <3>7. CASE l.value # "[1]"
      <4>1. flat' = [parents |-> Chain(Above(l)), list |-> <<>>, skip |-> FALSE,
                     scalars |-> Put(flat.scalars, path, l.value), lists |-> flat.lists,
                     error |-> FALSE]
        BY <1>1, <1>8, <2>1, <2>3, <2>6, <3>7, FlatPairFacts
      <4>2. written' = Put(written, <<0, path>>, <<l.value>>)
        BY <3>2, <3>7
      <4> HIDE DEF path
      <4>3. Kept(written', flat'.scalars, flat'.lists)
        BY <1>2, <2>3, <4>1, <4>2, KeptScalar
      <4>4. QED
        BY <3>1, <3>3, <3>4, <3>5, <4>1, <4>3 DEF FlatInv
    <3>8. QED
      BY <3>6, <3>7
  <2>7. QED
    BY <2>5, <2>6
<1>9. ~(InCameras /\ l.depth > 0) => ~Begins(l)
  BY <1>1, BeginsFacts
<1>10. QED
  BY <1>1, <1>5, <1>6, <1>7, <1>8, <1>9, LineShape

(* A line is in the block until one that is not indented.                  *)
LEMMA BlockStep ==
  ASSUME FlatInv, FlatInv', NEW l, ReadLine(l)
  PROVE  InCameras' <=> OpensBlock(l) \/ (InCameras /\ l.depth > 0)
<1>1. /\ Line(l) /\ l.depth <= Len(open) /\ Write(l) /\ flat' = FlatLine(flat, l)
      /\ l.depth \in Nat
  BY LineFacts DEF ReadLine
<1>2. InCameras = flat.skip /\ InCameras' = flat'.skip
  BY DEF FlatInv
<1>3. CASE InCameras /\ l.depth > 0
  BY <1>1, <1>2, <1>3, FlatInside
<1>4. CASE OpensBlock(l)
  BY <1>1, <1>2, <1>4, FlatOpens
<1>5. CASE ~(InCameras /\ l.depth > 0) /\ ~OpensBlock(l)
  <2> DEFINE s == [parents |-> flat.parents, list |-> flat.list, skip |-> FALSE,
                   scalars |-> flat.scalars, lists |-> flat.lists, error |-> FALSE]
  <2>1. flat' = IF l.dash THEN FlatItem(s, l) ELSE FlatPair(s, l)
    <3>1. l.depth = 0 \/ ~InCameras
      BY <1>1, <1>5
    <3>2. QED
      BY <1>1, <1>5, <3>1, FlatOutside
  <2>2. FlatItem(s, l).skip = FALSE
    BY DEF FlatItem
  <2>3. FlatPair(s, l).skip = FALSE
    BY DEF FlatPair
  <2>4. QED
    BY <1>2, <1>5, <2>1, <2>2, <2>3
<1>6. QED
  BY <1>3, <1>4, <1>5

(* Where a setting of a camera is: below its section.                      *)
LEMMA InsidePath ==
  ASSUME FileInv, NEW l, Line(l), l.depth <= Len(open), InBlock(l), l.depth > 1
  PROVE  LET above == SubSeq(open, 3, l.depth)
         IN /\ Where(l) = <<count, Append(above, l.key)>> /\ above \in Seq(Words)
            /\ Len(above) = l.depth - 2 /\ \A i \in 1..l.depth - 2 : above[i] = open[i + 2]
            /\ l.depth = 2 => above = <<>>
            /\ l.depth = 3 => above = <<open[3]>>
            /\ l.depth = 4 => above = <<open[3], open[4]>>
            /\ Append(above, l.key) \in DOMAIN CameraKeys => above \in Sections
<1> DEFINE above == SubSeq(open, 3, l.depth)
           path == Append(Above(l), l.key)
           d == l.depth
<1>1. d \in Nat /\ d > 1 /\ l.key \in Words /\ open \in Seq(Words)
  BY LineFacts DEF FileInv
<1>2. above \in Seq(Words) /\ Len(above) = d - 2 /\ \A i \in 1..d - 2 : above[i] = open[i + 2]
  BY <1>1, BelowCamera
<1>3. /\ path \in Seq(Words) /\ Len(path) = d + 1 /\ path[d + 1] = l.key
      /\ \A i \in 1..d : path[i] = open[i]
  BY <1>1, AboveFacts, AppendEnd
<1>4. /\ SubSeq(path, 3, d + 1) \in Seq(Words) /\ Len(SubSeq(path, 3, d + 1)) = d - 1
      /\ \A i \in 1..d - 1 : SubSeq(path, 3, d + 1)[i] = path[i + 2]
  BY <1>1, <1>3, BelowCamera
<1>5. /\ Append(above, l.key) \in Seq(Words) /\ Len(Append(above, l.key)) = d - 1
      /\ Append(above, l.key)[d - 1] = l.key
      /\ \A i \in 1..d - 2 : Append(above, l.key)[i] = above[i]
  BY <1>1, <1>2, AppendEnd
<1>6. Where(l) = <<count, SubSeq(path, 3, d + 1)>>
  BY WhereFacts
<1> HIDE DEF above, path, d
<1>7. SubSeq(path, 3, d + 1) = Append(above, l.key)
  <2>1. \A i \in 1..d - 1 : SubSeq(path, 3, d + 1)[i] = Append(above, l.key)[i]
    <3>1. ASSUME NEW i \in 1..d - 2
          PROVE  SubSeq(path, 3, d + 1)[i] = Append(above, l.key)[i]
      BY <1>1, <1>2, <1>3, <1>4, <1>5
    <3>2. SubSeq(path, 3, d + 1)[d - 1] = Append(above, l.key)[d - 1]
      BY <1>1, <1>3, <1>4, <1>5
    <3>3. QED
      <4>1. \A i \in 1..d - 1 : i \in 1..d - 2 \/ i = d - 1
        BY <1>1
      <4>2. QED
        BY <3>1, <3>2, <4>1
  <2>2. QED
    BY <1>4, <1>5, <2>1, SeqEqual
<1>8. /\ d = 2 => above = <<>>
      /\ d = 3 => above = <<open[3]>>
      /\ d = 4 => above = <<open[3], open[4]>>
  <2>1. d = 2 => above = <<>>
    BY <1>1, <1>2
  <2>2. d = 3 => above = <<open[3]>>
    BY <1>2
  <2>3. d = 4 => above = <<open[3], open[4]>>
    <3>1. SUFFICES ASSUME d = 4 PROVE above = <<open[3], open[4]>>
      OBVIOUS
    <3>2. above \in Seq(Words) /\ Len(above) = 2 /\ above[1] = open[3] /\ above[2] = open[4]
      BY <1>2, <3>1
    <3>3. QED
      BY <3>2, Pairs
  <2>4. QED
    BY <2>1, <2>2, <2>3
<1>9. ASSUME Append(above, l.key) \in DOMAIN CameraKeys
      PROVE  above \in Sections
  <2>1. PICK s \in Sections : \E k : Append(above, l.key) = Append(s, k)
    BY <1>9, CameraPaths
  <2>2. QED
    BY <1>2, <2>1, AppendOnce, SectionsAreWords
<1>10. QED
  BY <1>2, <1>6, <1>7, <1>8, <1>9 DEF above, d

Fields == {"inside", "ended", "cameras", "section", "pending", "error"}

(* What a setting written as the words ws says when its value is v.        *)
Understood(p, ws, v) ==
  /\ IF IsList(CameraKeys[p]) THEN ItemsConvert(p, ws) ELSE Converts(CameraKeys[p], ws[1], FALSE)
  /\ v = Means(CameraKeys[p], ws)
  /\ ws[1] = "unset" => ~Expands(SubSeq(p, 1, Len(p) - 1))

(* A camera has the settings written below it that are known.              *)
CameraOf(n, w, c) ==
  /\ \A p : p \in DOMAIN c <=> <<n, p>> \in DOMAIN w /\ p \in DOMAIN CameraKeys
  /\ \A p \in DOMAIN c : Understood(p, w[<<n, p>>], c[p])

CamerasOf(cs, w, k) == /\ \E S : cs \in Seq(S)
                       /\ Len(cs) = k /\ \A n \in 1..k : CameraOf(n, w, cs[n])

(* A camera stays what is written when another one gets a setting ...      *)
LEMMA CameraElsewhere ==
  ASSUME NEW n, NEW w, NEW c, CameraOf(n, w, c), NEW m, m # n, NEW q, NEW ws
  PROVE  CameraOf(n, Put(w, <<m, q>>, ws), c)
BY DEF CameraOf, Put

(* ... or it gets one nobody knows ...                                     *)
LEMMA CameraUnknown ==
  ASSUME NEW n, NEW w, NEW c, CameraOf(n, w, c), NEW q, q \notin DOMAIN CameraKeys, NEW ws
  PROVE  CameraOf(n, Put(w, <<n, q>>, ws), c)
BY DEF CameraOf, Put

(* ... or it gets one the reader has understood.                           *)
LEMMA CameraKnown ==
  ASSUME NEW n, NEW w, NEW c, CameraOf(n, w, c), NEW q \in DOMAIN CameraKeys, NEW ws, NEW v,
         Understood(q, ws, v)
  PROVE  CameraOf(n, Put(w, <<n, q>>, ws), Put(c, q, v))
BY DEF CameraOf, Put

(* The same for all cameras: a setting outside the block ...               *)
LEMMA CamerasElsewhere ==
  ASSUME NEW cs, NEW w, NEW k \in Nat, CamerasOf(cs, w, k), NEW q, NEW ws
  PROVE  CamerasOf(cs, Put(w, <<0, q>>, ws), k)
<1>1. \A n \in 1..k : n # 0 /\ CameraOf(n, w, cs[n])
  BY DEF CamerasOf
<1>2. \A n \in 1..k : CameraOf(n, Put(w, <<0, q>>, ws), cs[n])
  BY <1>1, CameraElsewhere
<1>3. QED
  BY <1>2 DEF CamerasOf

(* ... an unknown one of the last camera ...                               *)
LEMMA CamerasUnknown ==
  ASSUME NEW cs, NEW w, NEW k \in Nat, CamerasOf(cs, w, k), NEW q, q \notin DOMAIN CameraKeys,
         NEW ws
  PROVE  CamerasOf(cs, Put(w, <<k, q>>, ws), k)
<1>1. ASSUME NEW n \in 1..k
      PROVE  CameraOf(n, Put(w, <<k, q>>, ws), cs[n])
  <2>1. CASE n = k
    BY <2>1, CameraUnknown DEF CamerasOf
  <2>2. CASE n # k
    BY <2>2, CameraElsewhere DEF CamerasOf
  <2>3. QED
    BY <2>1, <2>2
<1>2. QED
  BY <1>1 DEF CamerasOf

(* ... a known one of the last camera ...                                  *)
LEMMA CamerasKnown ==
  ASSUME NEW cs, NEW w, NEW k \in Nat \ {0}, CamerasOf(cs, w, k), NEW q \in DOMAIN CameraKeys,
         NEW ws, NEW v, Understood(q, ws, v)
  PROVE  CamerasOf([cs EXCEPT ![k] = Put(@, q, v)], Put(w, <<k, q>>, ws), k)
<1> DEFINE c == Put(cs[k], q, v)
           ds == [cs EXCEPT ![k] = c]
<1>1. PICK S : cs \in Seq(S)
  BY DEF CamerasOf
<1>2. ds \in Seq(S \cup {c}) /\ Len(ds) = k /\ ds[k] = c /\ \A n \in 1..k \ {k} : ds[n] = cs[n]
  <2>1. cs \in Seq(S \cup {c}) /\ Len(cs) = k
    BY <1>1 DEF CamerasOf
  <2> HIDE DEF c
  <2>2. QED
    BY <2>1
<1>3. CameraOf(k, Put(w, <<k, q>>, ws), c)
  BY CameraKnown DEF CamerasOf
<1> HIDE DEF c
<1>4. ASSUME NEW n \in 1..k
      PROVE  CameraOf(n, Put(w, <<k, q>>, ws), ds[n])
  <2>1. CASE n = k
    BY <1>2, <1>3, <2>1
  <2>2. CASE n # k
    BY <1>2, <2>2, CameraElsewhere DEF CamerasOf
  <2>3. QED
    BY <2>1, <2>2
<1> HIDE DEF ds
<1>5. CamerasOf(ds, Put(w, <<k, q>>, ws), k)
  BY <1>2, <1>4 DEF CamerasOf
<1>6. QED
  BY <1>5 DEF ds, c

(* ... and a camera that begins.                                           *)
LEMMA CamerasBegin ==
  ASSUME NEW cs, NEW w, NEW k \in Nat, CamerasOf(cs, w, k), NEW v,
         \A p : <<k + 1, p>> \notin DOMAIN w
  PROVE  CamerasOf(Append(cs, Put(Empty, <<"id">>, v)), Put(w, <<k + 1, <<"id">>>>, <<v>>), k + 1)
<1> DEFINE c == Put(Empty, <<"id">>, v)
           w2 == Put(w, <<k + 1, <<"id">>>>, <<v>>)
           ds == Append(cs, c)
<1>1. PICK S : cs \in Seq(S)
  BY DEF CamerasOf
<1>2. Understood(<<"id">>, <<v>>, v)
  <2>1. CameraKeys[<<"id">>] = "text" /\ ~IsList("text")
    BY IdIsText DEF IsList
  <2>2. Converts("text", v, FALSE) /\ v = Means("text", <<v>>)
    BY DEF Converts, Means, Converted, IsList
  <2>3. SubSeq(<<"id">>, 1, Len(<<"id">>) - 1) = <<>>
    OBVIOUS
  <2>4. ~Expands(<<>>)
    BY DEF Expands
  <2>5. QED
    BY <2>1, <2>2, <2>3, <2>4 DEF Understood
<1>3. CameraOf(k + 1, w, Empty)
  BY DEF CameraOf, Empty
<1>4. CameraOf(k + 1, w2, c)
  BY <1>2, <1>3, CameraKnown, IdIsText
<1>5. \A n \in 1..k : CameraOf(n, w2, cs[n])
  BY CameraElsewhere DEF CamerasOf
<1> HIDE DEF c, w2
<1>6. ds \in Seq(S \cup {c}) /\ Len(ds) = k + 1 /\ ds[k + 1] = c /\ \A n \in 1..k : ds[n] = cs[n]
  <2>1. cs \in Seq(S \cup {c}) /\ c \in S \cup {c} /\ Len(cs) = k
    BY <1>1 DEF CamerasOf
  <2>2. QED
    BY <2>1, AppendEnd
<1> HIDE DEF ds
<1>7. CamerasOf(ds, w2, k + 1)
  BY <1>4, <1>5, <1>6 DEF CamerasOf
<1>8. QED
  BY <1>7 DEF ds, w2, c

(* Nothing but what is kept of the cameras is another.                     *)
SameBut(s, r) == /\ DOMAIN s = Fields /\ s.inside = r.inside /\ s.ended = r.ended
                 /\ s.section = r.section /\ s.pending = r.pending

(* The cameras with another last one.                                      *)
Ending(cs, c) == [cs EXCEPT ![Len(cs)] = c]

(* What InCamera, Error and AddItems do, field by field.                   *)
LEMMA InCameraFacts ==
  ASSUME NEW r, DOMAIN r = Fields, NEW p, NEW v
  PROVE  LET s == InCamera(r, p, v)
         IN /\ SameBut(s, r) /\ s.error = r.error
            /\ s.cameras = Ending(r.cameras, Put(r.cameras[Len(r.cameras)], p, v))
BY DEF InCamera, SameBut, Fields, Ending

(* An error stays one.                                                     *)
LEMMA ErrorFacts ==
  ASSUME NEW r, DOMAIN r = Fields
  PROVE  Error(r).error = TRUE
BY DEF Error, Fields

(* A camera with the items ws added to its list p.                         *)
Added(c, p, ws) == Put(c, p, (IF p \in DOMAIN c THEN c[p] ELSE <<>>) \o ws)

(* Items are added to the list of the last camera.                         *)
LEMMA AddItemsFacts ==
  ASSUME NEW r, DOMAIN r = Fields, NEW p, NEW ws, ~r.error, ~AddItems(r, p, ws).error
  PROVE  LET s == AddItems(r, p, ws)
         IN /\ SameBut(s, r) /\ s.error = FALSE /\ ItemsConvert(p, ws)
            /\ s.cameras = Ending(r.cameras, Added(r.cameras[Len(r.cameras)], p, ws))
<1>1. ItemsConvert(p, ws)
  BY ErrorFacts DEF AddItems
<1>2. AddItems(r, p, ws)
        = InCamera(r, p, (IF p \in DOMAIN r.cameras[Len(r.cameras)]
                          THEN r.cameras[Len(r.cameras)][p] ELSE <<>>) \o ws)
  BY <1>1 DEF AddItems
<1>3. QED
  BY <1>1, <1>2, InCameraFacts DEF Added

(* A setting without value or with one that is not known is passed over.   *)
LEMMA AssignedUnknown ==
  ASSUME NEW r, DOMAIN r = Fields, NEW l, Append(r.section, l.key) \notin DOMAIN CameraKeys,
         ~Assigned(r, l).error
  PROVE  Assigned(r, l) = r
BY ErrorFacts DEF Assigned

Value(l) == <<IF l.value = "[1]" THEN "1" ELSE l.value>>

(* A known setting is assigned as its words mean, or refused.              *)
Settles(s, r, l, p, camera) ==
  /\ SameBut(s, r) /\ ~s.error
  /\ \E v : /\ Understood(p, Value(l), v)
            /\ s.cameras = Ending(r.cameras, Put(camera, p, v))

(* ... by the step of the reader.                                          *)
LEMMA AssignedKnown ==
  ASSUME NEW r, DOMAIN r = Fields, ~r.error, NEW l, NEW n, n = Len(r.cameras),
         NEW p, p = Append(r.section, l.key), p \in DOMAIN CameraKeys,
         p \notin DOMAIN r.cameras[n], r.section \in Seq(Words),
         l.value = "[1]" => l.key \in ListKeys, ~Assigned(r, l).error
  PROVE  Settles(Assigned(r, l), r, l, p, r.cameras[n])
<1> USE DEF Settles
<1> DEFINE s == Assigned(r, l)
           w == IF l.value = "[1]" THEN "1" ELSE l.value
<1>0. Value(l) = <<w>>
  BY DEF Value
<1>1. ~(Expands(r.section) /\ l.value = "unset")
  BY ErrorFacts DEF Assigned
<1>2. w = "unset" => ~Expands(SubSeq(p, 1, Len(p) - 1))
  <2>1. Len(p) - 1 = Len(r.section) /\ SubSeq(p, 1, Len(r.section)) = r.section
    BY AppendEnd
  <2>2. SubSeq(p, 1, Len(p) - 1) = r.section
    BY <2>1
  <2>3. QED
    BY <1>1, <2>2
<1>3. CASE IsList(CameraKeys[p])
  <2>1. s = AddItems(r, p, <<w>>)
    BY <1>1, <1>3 DEF Assigned
  <2>2. /\ SameBut(s, r) /\ s.error = FALSE /\ ItemsConvert(p, <<w>>)
        /\ s.cameras = Ending(r.cameras, Put(r.cameras[n], p, <<>> \o <<w>>))
    <3>1. ~AddItems(r, p, <<w>>).error
      BY <2>1
    <3> HIDE DEF s, w
    <3>2. /\ SameBut(s, r) /\ s.error = FALSE /\ ItemsConvert(p, <<w>>)
          /\ s.cameras = Ending(r.cameras, Added(r.cameras[n], p, <<w>>))
      BY <2>1, <3>1, AddItemsFacts
    <3>3. Added(r.cameras[n], p, <<w>>) = Put(r.cameras[n], p, <<>> \o <<w>>)
      BY DEF Added
    <3>4. QED
      BY <3>2, <3>3 DEF s, w
  <2>3. <<>> \o <<w>> = <<w>>
    OBVIOUS
  <2>4. Understood(p, <<w>>, <<w>>)
    BY <1>2, <1>3, <2>2 DEF Understood, Means
  <2>5. QED
    BY <1>0, <2>2, <2>3, <2>4
<1>4. CASE ~IsList(CameraKeys[p])
  <2>1. Converts(CameraKeys[p], l.value, FALSE)
    BY <1>1, <1>4, ErrorFacts DEF Assigned
  <2>2. s = InCamera(r, p, Converted(CameraKeys[p], l.value))
    BY <1>1, <1>4, <2>1 DEF Assigned
  <2>3. w = l.value
    <3>1. p[Len(p)] = l.key
      BY AppendEnd
    <3>2. l.key \notin ListKeys
      BY <1>4, <3>1, CameraPaths, ListKeysNamed
    <3>3. QED
      BY <3>2
  <2>4. Understood(p, <<w>>, Converted(CameraKeys[p], w))
    BY <1>2, <1>4, <2>1, <2>3 DEF Understood, Means
  <2>5. QED
    <3> DEFINE v == Converted(CameraKeys[p], w)
    <3>1. s = InCamera(r, p, v)
      BY <2>2, <2>3
    <3> HIDE DEF v, w, s
    <3>2. /\ SameBut(s, r) /\ s.error = r.error
          /\ s.cameras = Ending(r.cameras, Put(r.cameras[n], p, v))
      BY <3>1, InCameraFacts
    <3>3. Understood(p, <<w>>, v)
      BY <2>4 DEF v
    <3>4. SameBut(s, r) /\ ~s.error /\ s.cameras = Ending(r.cameras, Put(r.cameras[n], p, v))
      BY <3>2
    <3>5. QED
      BY <1>0, <3>3, <3>4 DEF s
<1>5. QED
  BY <1>3, <1>4

SectionNames == {"source", "tracking", "monitoring", "control"}

(* The section the headers of a camera are in, as the reader names it.     *)
Base(k) == IF k \in SectionNames THEN <<k>> ELSE <<"none">>
SectionOf(q) == IF Len(q) >= 4 /\ q[3] = "control" /\ q[4] = "auto_ptz"
                THEN <<"control", "auto_ptz">> ELSE Base(q[3])

(* Where the reader is, as far as it keeps track of that.                  *)
Following(r, q) ==
  /\ Len(q) >= 3 => r.section = SectionOf(q)
  /\ EndOf(q) \in ListKeys => /\ r.pending = SubSeq(q, 3, Len(q))
                              /\ SubSeq(q, 3, Len(q)) \in ListPaths \cap DOMAIN CameraKeys

MultiInv ==
  /\ DOMAIN multi = Fields /\ ~multi.error
  /\ multi.ended => multi.inside
  /\ InCameras <=> multi.inside /\ ~multi.ended
  /\ multi.inside => <<0, <<"cameras">>>> \in DOMAIN written
  /\ CamerasOf(multi.cameras, written, count)
  /\ InCameras => Following(multi, open)

(* The line that opens the block is written there.                         *)
LEMMA OpensFacts ==
  ASSUME FileInv, NEW l, ReadLine(l), OpensBlock(l)
  PROVE  /\ <<0, <<"cameras">>>> \notin DOMAIN written
         /\ <<0, <<"cameras">>>> \in DOMAIN written' /\ open' = <<"cameras">>
<1>1. Line(l) /\ l.depth <= Len(open) /\ Write(l)
  BY DEF ReadLine
<1>2. Pair(l) /\ l.depth = 0 /\ l.key = "cameras" /\ IsHeader(l)
  BY <1>1, LineShape DEF OpensBlock, Begins, Item, IsHeader, Pair
<1>3. Above(l) = <<>>
  BY <1>2 DEF Above
<1>4. Append(Above(l), l.key) = <<"cameras">>
  BY <1>2, <1>3, AppendTuples
<1>5. ~InBlock(l)
  BY <1>2 DEF InBlock
<1>6. Where(l) = <<0, <<"cameras">>>>
  BY <1>1, <1>4, <1>5, WhereFacts
<1>7. open' = <<"cameras">>
  BY <1>1, <1>2, <1>4, WriteFacts
<1>8. Where(l) \notin DOMAIN written
  BY <1>2, PairFacts
<1>9. Where(l) \in DOMAIN written'
  BY <1>1, <1>2, WriteFacts DEF Put
<1>10. QED
  BY <1>6, <1>7, <1>8, <1>9

(* Nothing that was written goes away.                                     *)
LEMMA WrittenGrows ==
  ASSUME NEW l, ReadLine(l)
  PROVE  DOMAIN written \subseteq DOMAIN written'
<1>1. Line(l) /\ Write(l)
  BY DEF ReadLine
<1>2. \A x, v : DOMAIN written \subseteq DOMAIN Put(written, x, v)
  BY DEF Put
<1>3. \A x, v : DOMAIN written \subseteq DOMAIN Extend(written, x, v)
  BY <1>2 DEF Extend
<1>4. CASE Begins(l)
  BY <1>1, <1>2, <1>4, WriteFacts
<1>5. CASE Item(l)
  BY <1>1, <1>3, <1>5, WriteFacts
<1>6. CASE Pair(l)
  BY <1>1, <1>2, <1>6, WriteFacts
<1>7. QED
  BY <1>1, <1>4, <1>5, <1>6, LineShape

(* Outside of the cameras only settings of the file are written.           *)
LEMMA OutsideWrites ==
  ASSUME FileInv, NEW l, ReadLine(l), ~(InCameras /\ l.depth > 0)
  PROVE  /\ count' = count
         /\ written' = written \/ \E q, ws : written' = Put(written, <<0, q>>, ws)
<1>1. Line(l) /\ l.depth <= Len(open) /\ Write(l)
  BY DEF ReadLine
<1>2. ~Begins(l)
  BY <1>1, BeginsFacts, LineFacts
<1>3. CASE Item(l)
  <2>1. l.depth > 0
    BY <1>1, <1>3, ItemFacts, LineFacts DEF FileInv
  <2>2. Listed = <<0, open>>
    BY <1>1, <1>3, <2>1, ItemFacts
  <2>3. QED
    BY <1>1, <1>3, <2>2, WriteFacts DEF Extend
<1>4. CASE Pair(l)
  <2>1. Where(l) = <<0, Append(Above(l), l.key)>>
    BY <1>1, WhereFacts
  <2>2. QED
    BY <1>1, <1>4, <2>1, WriteFacts
<1>5. QED
  BY <1>1, <1>2, <1>3, <1>4, LineShape

(* The cameras' reader keeps its invariant outside the block, ...          *)
LEMMA OutsideStep ==
  ASSUME FileInv, FlatInv, FlatInv', MultiInv, NEW l, ReadLine(l), ~(InCameras /\ l.depth > 0)
  PROVE  MultiInv'
<1>1. /\ multi' = MultiLine(multi, l) /\ l.depth \in Nat
      /\ DOMAIN written \subseteq DOMAIN written'
  BY LineFacts, WrittenGrows DEF ReadLine
<1>2. InCameras' <=> OpensBlock(l)
  BY BlockStep
<1>3. CamerasOf(multi.cameras, written', count')
  BY OutsideWrites, CamerasElsewhere DEF MultiInv, FileInv
<1>4. OpensBlock(l) => Following(multi, open')
  <2>1. SUFFICES ASSUME OpensBlock(l) PROVE Following(multi, open')
    OBVIOUS
  <2>2. open' = <<"cameras">>
    BY <2>1, OpensFacts
  <2>3. Len(open') = 1 /\ EndOf(open') = "cameras"
    BY <2>2 DEF EndOf
  <2>4. "cameras" \notin ListKeys
    BY ListKeysNamed DEF ListNames
  <2>5. QED
    BY <2>3, <2>4 DEF Following
<1>5. multi.inside => ~OpensBlock(l)
  BY OpensFacts DEF MultiInv
<1>6. CASE multi.ended
  <2>1. multi' = multi
    BY <1>1, <1>6 DEF MultiLine
  <2>2. QED
    BY <1>1, <1>2, <1>3, <1>5, <1>6, <2>1 DEF MultiInv
<1>7. CASE ~multi.inside
  <2>1. multi' = [multi EXCEPT !.inside = OpensBlock(l)]
    BY <1>1, <1>7 DEF MultiLine, OpensBlock, MultiInv
  <2> DEFINE o == OpensBlock(l)
  <2>2. o \in BOOLEAN /\ (o <=> OpensBlock(l))
    BY DEF OpensBlock
  <2> HIDE DEF o
  <2>3. multi' = [multi EXCEPT !.inside = o]
    BY <2>1 DEF o
  <2>4. /\ DOMAIN multi' = Fields /\ multi'.error = multi.error /\ multi'.inside = o
        /\ multi'.ended = multi.ended /\ multi'.cameras = multi.cameras
        /\ multi'.section = multi.section /\ multi'.pending = multi.pending
    BY <2>3 DEF MultiInv, Fields
  <2>5. OpensBlock(l) => Following(multi', open')
    BY <1>4, <2>4 DEF Following
  <2>6. OpensBlock(l) => <<0, <<"cameras">>>> \in DOMAIN written'
    BY OpensFacts
  <2>7. ~multi.ended
    BY <1>7 DEF MultiInv
  <2>8. QED
    BY <1>1, <1>2, <1>3, <2>2, <2>4, <2>5, <2>6, <2>7 DEF MultiInv
<1>8. CASE multi.inside /\ ~multi.ended
  <2>1. l.depth = 0
    BY <1>1, <1>8 DEF MultiInv
  <2>2. multi' = [multi EXCEPT !.ended = TRUE]
    BY <1>1, <1>8, <2>1 DEF MultiLine
  <2>3. /\ DOMAIN multi' = Fields /\ multi'.error = multi.error /\ multi'.inside = multi.inside
        /\ multi'.ended = TRUE /\ multi'.cameras = multi.cameras
    BY <2>2 DEF MultiInv, Fields
  <2>4. QED
    BY <1>1, <1>2, <1>3, <1>5, <1>8, <2>3 DEF MultiInv
<1>9. QED
  BY <1>6, <1>7, <1>8

(* A setting of the last camera, with the cameras as InCamera leaves them. *)
LEMMA CamerasEnding ==
  ASSUME NEW cs, NEW w, NEW k \in Nat \ {0}, CamerasOf(cs, w, k), NEW q \in DOMAIN CameraKeys,
         NEW ws, NEW v, Understood(q, ws, v)
  PROVE  CamerasOf(Ending(cs, Put(cs[k], q, v)), Put(w, <<k, q>>, ws), k)
<1>1. Len(cs) = k
  BY DEF CamerasOf
<1>2. Ending(cs, Put(cs[k], q, v)) = [cs EXCEPT ![k] = Put(@, q, v)]
  BY <1>1 DEF Ending
<1>3. CamerasOf([cs EXCEPT ![k] = Put(@, q, v)], Put(w, <<k, q>>, ws), k)
  BY CamerasKnown
<1>4. QED
  BY <1>2, <1>3

(* ... where a camera begins, ...                                          *)
LEMMA BeginsStep ==
  ASSUME FileInv, FlatInv, FlatInv', MultiInv, NEW l, ReadLine(l), Begins(l)
  PROVE  MultiInv'
<1>1. /\ Line(l) /\ l.depth <= Len(open) /\ Write(l) /\ multi' = MultiLine(multi, l)
  BY DEF ReadLine
<1>2. InCameras /\ l.depth = 1 /\ l.dash /\ l.key = "id"
  BY <1>1, BeginsFacts
<1>3. multi.inside /\ ~multi.ended
  BY <1>2 DEF MultiInv
<1>4. multi' = NewCamera(multi, l)
  BY <1>1, <1>2, <1>3 DEF MultiLine, CameraBlockLine
<1> DEFINE cs == Append(multi.cameras, Put(Empty, <<"id">>, l.value))
<1>5. multi' = [multi EXCEPT !.cameras = cs, !.section = <<"none">>, !.pending = <<>>]
  BY <1>2, <1>4 DEF NewCamera
<1>6. /\ count' = count + 1 /\ open' = <<"cameras", "-">>
      /\ written' = Put(written, <<count + 1, <<"id">>>>, <<l.value>>)
  BY <1>1, WriteFacts
<1>7. \A p : <<count + 1, p>> \notin DOMAIN written
  <2>1. SUFFICES ASSUME NEW p, <<count + 1, p>> \in DOMAIN written PROVE FALSE
    OBVIOUS
  <2>2. count + 1 \in 0..count
    BY <2>1 DEF FileInv, WrittenOK
  <2>3. QED
    BY <2>2 DEF FileInv
<1>8. CamerasOf(cs, written', count')
  BY <1>6, <1>7, CamerasBegin DEF MultiInv, FileInv
<1> HIDE DEF cs
<1>9. Following(multi', open')
  <2>1. Len(open') = 2 /\ EndOf(open') = "-"
    BY <1>6 DEF EndOf
  <2>2. "-" \notin ListKeys
    BY ListKeysNamed DEF ListNames
  <2>3. QED
    BY <2>1, <2>2 DEF Following
<1>10. /\ DOMAIN multi' = Fields /\ multi'.error = multi.error /\ multi'.inside = multi.inside
       /\ multi'.ended = multi.ended /\ multi'.cameras = cs
  BY <1>5 DEF MultiInv, Fields
<1>11. InCameras' /\ DOMAIN written \subseteq DOMAIN written'
  BY <1>2, BlockStep, WrittenGrows
<1>12. QED
  BY <1>3, <1>8, <1>9, <1>10, <1>11 DEF MultiInv

(* The items of a list, with one more.                                     *)
LEMMA ListPathFacts ==
  ASSUME NEW p \in ListPaths
  PROVE  p \in Seq(Words) /\ Len(p) >= 2 /\ ~Expands(SubSeq(p, 1, Len(p) - 1))
<1>1. \E s \in {<<"monitoring">>, <<"control", "auto_ptz">>} : \E k \in Words : p = Append(s, k)
  BY ListPathsAppended DEF ListPaths, Words, ListNames
<1>2. PICK s \in {<<"monitoring">>, <<"control", "auto_ptz">>}, k \in Words : p = Append(s, k)
  BY <1>1
<1>3. s \in Seq(Words) /\ Len(s) >= 1 /\ ~Expands(s)
  <2>1. s \in Seq(Words) /\ Len(s) >= 1
    <3>1. <<"monitoring">> \in Seq(Words) /\ <<"control", "auto_ptz">> \in Seq(Words)
      BY SectionsAreWords DEF Sections
    <3>2. Len(<<"monitoring">>) = 1 /\ Len(<<"control", "auto_ptz">>) = 2
      OBVIOUS
    <3>3. CASE s = <<"monitoring">>
      BY <3>1, <3>2, <3>3
    <3>4. CASE s = <<"control", "auto_ptz">>
      BY <3>1, <3>2, <3>4
    <3>5. QED
      BY <3>3, <3>4
  <2>2. s # <<"source">> /\ s # <<"control">>
    <3>1. /\ <<"monitoring">>[1] = "monitoring" /\ <<"source">>[1] = "source"
          /\ <<"control">>[1] = "control"
      OBVIOUS
    <3>2. Len(<<"control", "auto_ptz">>) = 2 /\ Len(<<"source">>) = 1 /\ Len(<<"control">>) = 1
      OBVIOUS
    <3>3. QED
      BY <3>1, <3>2
  <2>3. QED
    BY <2>1, <2>2 DEF Expands
<1>4. p \in Seq(Words) /\ Len(p) = Len(s) + 1 /\ SubSeq(p, 1, Len(s)) = s
  BY <1>2, <1>3, AppendEnd
<1> DEFINE n == Len(s)
<1>5. n \in Nat /\ n >= 1 /\ Len(p) = n + 1 /\ SubSeq(p, 1, n) = s
  BY <1>3, <1>4
<1> HIDE DEF n
<1>6. Len(p) - 1 = n
  BY <1>5
<1>7. ~Expands(SubSeq(p, 1, Len(p) - 1))
  BY <1>3, <1>5, <1>6
<1>8. QED
  BY <1>4, <1>5, <1>7

(* One more item of a list is understood as the whole list is.             *)
LEMMA ItemsAdded ==
  ASSUME NEW n, NEW w, NEW c, CameraOf(n, w, c), NEW p \in ListPaths \cap DOMAIN CameraKeys, NEW v,
         \A x \in DOMAIN w : w[x] \in Seq(Words), v \in Words, ItemsConvert(p, <<v>>)
  PROVE  LET before == IF <<n, p>> \in DOMAIN w THEN w[<<n, p>>] ELSE <<>>
             ws == Append(before, v)
         IN Understood(p, ws, ws) /\ Added(c, p, <<v>>) = Put(c, p, ws)
<1> DEFINE before == IF <<n, p>> \in DOMAIN w THEN w[<<n, p>>] ELSE <<>>
           ws == Append(before, v)
           kind == CameraKeys[p]
<1>1. IsList(kind)
  BY CameraPaths
<1>2. p \in DOMAIN c <=> <<n, p>> \in DOMAIN w
  BY DEF CameraOf
<1>3. p \in DOMAIN c => c[p] = w[<<n, p>>] /\ ItemsConvert(p, w[<<n, p>>])
  BY <1>1, <1>2 DEF CameraOf, Understood, Means
<1>4. before \in Seq(Words) /\ ItemsConvert(p, before)
  <2>1. ItemsConvert(p, <<>>)
    BY DEF ItemsConvert, ListConverts
  <2>2. QED
    BY <1>2, <1>3, <2>1
<1>5. before \o <<v>> = ws
  BY <1>4
<1>6. Added(c, p, <<v>>) = Put(c, p, ws)
  <2>1. (IF p \in DOMAIN c THEN c[p] ELSE <<>>) = before
    BY <1>2, <1>3
  <2> HIDE DEF before
  <2>2. QED
    BY <1>5, <2>1 DEF Added
<1> HIDE DEF before
<1>7. ItemsConvert(p, ws)
  <2>1. kind = "names" \/ v \in DOMAIN Number
    BY DEF ItemsConvert, ListConverts
  <2>2. kind = "names" \/ \A i \in 1..Len(before) : before[i] \in DOMAIN Number
    BY <1>4 DEF ItemsConvert, ListConverts
  <2>3. /\ DOMAIN ws = 1..Len(before) + 1 /\ ws[Len(before) + 1] = v
        /\ \A i \in 1..Len(before) : ws[i] = before[i]
    BY <1>4, AppendEnd
  <2>4. Len(before) \in Nat
    BY <1>4
  <2> HIDE DEF ws
  <2>5. kind = "names" \/ \A i \in DOMAIN ws : ws[i] \in DOMAIN Number
    BY <2>1, <2>2, <2>3, <2>4
  <2>6. QED
    BY <2>5 DEF ItemsConvert, ListConverts
<1>8. Understood(p, ws, ws)
  BY <1>1, <1>7, ListPathFacts DEF Understood, Means
<1>9. QED
  BY <1>6, <1>8 DEF before

(* ... and at an item, which goes to the list it is indented below.        *)
LEMMA ItemStep ==
  ASSUME FileInv, FlatInv, FlatInv', MultiInv, NEW l, ReadLine(l), InCameras, Item(l), ~multi'.error
  PROVE  MultiInv'
<1> DEFINE p == SubSeq(open, 3, Len(open))
<1>1. /\ Line(l) /\ Write(l) /\ multi' = MultiLine(multi, l) /\ l.value \in Words
      /\ DOMAIN multi = Fields /\ ~multi.error
  BY LineFacts DEF ReadLine, MultiInv
<1>2. /\ l.depth = Len(open) /\ EndOf(open) \in ListKeys /\ Len(open) >= 2 /\ count >= 1
      /\ Listed = <<count, p>> /\ l.dash
  BY <1>1, ItemFacts DEF Item
<1>3. /\ multi.pending = p /\ p \in ListPaths /\ p \in DOMAIN CameraKeys
      /\ multi.inside /\ ~multi.ended
  BY <1>2 DEF MultiInv, Following
<1>4. count \in Nat \ {0} /\ CamerasOf(multi.cameras, written, count)
  BY <1>2 DEF FileInv, MultiInv
<1>5. Len(multi.cameras) = count /\ multi.cameras # <<>>
  BY <1>4 DEF CamerasOf
<1> HIDE DEF p
<1>6. p # <<>>
  BY <1>3, ListPathFacts
<1>7. p \in DOMAIN CameraKeys
  BY <1>3
<1>8. l.depth \in Nat /\ l.depth >= 2
  BY <1>1, <1>2, LineFacts
<1>9. multi' = AddItems(multi, p, <<l.value>>)
  <2>1. l.depth # 0 /\ l.depth # 1
    BY <1>8
  <2>2. multi' = CameraBlockLine(multi, l)
    BY <1>1, <1>3, <2>1 DEF MultiLine
  <2>3. QED
    BY <1>2, <1>3, <1>5, <1>6, <2>1, <2>2 DEF CameraBlockLine
<1>10. /\ SameBut(multi', multi) /\ ~multi'.error /\ ItemsConvert(p, <<l.value>>)
       /\ multi'.cameras = Ending(multi.cameras, Added(multi.cameras[count], p, <<l.value>>))
  BY <1>1, <1>5, <1>9, AddItemsFacts
<1> DEFINE ws == Append(IF <<count, p>> \in DOMAIN written THEN written[<<count, p>>] ELSE <<>>,
                        l.value)
<1>11. written' = Put(written, <<count, p>>, ws) /\ open' = open /\ count' = count
  BY <1>1, <1>2, WriteFacts DEF Extend
<1>12. /\ Understood(p, ws, ws)
       /\ Added(multi.cameras[count], p, <<l.value>>) = Put(multi.cameras[count], p, ws)
  BY <1>1, <1>3, <1>4, <1>7, <1>10, ItemsAdded DEF CamerasOf, FileInv, WrittenOK
<1> HIDE DEF ws
<1>13. CamerasOf(multi'.cameras, written', count')
  BY <1>4, <1>7, <1>10, <1>11, <1>12, CamerasEnding
<1>14. Following(multi', open')
  BY <1>10, <1>11 DEF MultiInv, Following, SameBut
<1>15. InCameras' /\ DOMAIN written \subseteq DOMAIN written'
  BY <1>8, BlockStep, WrittenGrows
<1>16. QED
  BY <1>10, <1>13, <1>14, <1>15 DEF MultiInv, SameBut

(* Below a header that is no section nothing is known.                     *)
LEMMA Unsectioned ==
  ASSUME NEW s \in Seq(Words), NEW k, Append(s, k) \in DOMAIN CameraKeys
  PROVE  s \in Sections
<1>1. PICK t \in Sections : \E m : Append(s, k) = Append(t, m)
  BY CameraPaths
<1>2. QED
  BY <1>1, AppendOnce, SectionsAreWords

(* The path of a place.                                                    *)
LEMMA Second == ASSUME NEW x, NEW a, NEW b, x = <<a, b>> PROVE x[2] = b
OBVIOUS

(* A setting of the last camera, given in the section above.               *)
LEMMA AssignedStep ==
  ASSUME NEW r, DOMAIN r = Fields, ~r.error, NEW w, NEW k \in Nat \ {0}, CamerasOf(r.cameras, w, k),
         NEW above \in Seq(Words), r.section \in Seq(Words),
         r.section = above \/ (r.section \notin Sections /\ above \notin Sections),
         NEW l, <<k, Append(above, l.key)>> \notin DOMAIN w, l.value = "[1]" => l.key \in ListKeys,
         ~Assigned(r, l).error
  PROVE  LET s == Assigned(r, l)
         IN /\ SameBut(s, r) /\ ~s.error
            /\ CamerasOf(s.cameras, Put(w, <<k, Append(above, l.key)>>, Value(l)), k)
<1> DEFINE p == Append(above, l.key)
           s == Assigned(r, l)
<1>1. Len(r.cameras) = k /\ CameraOf(k, w, r.cameras[k])
  BY DEF CamerasOf
<1>2. CASE p \in DOMAIN CameraKeys
  <2>1. r.section = above
    BY <1>2, Unsectioned
  <2>2. p \notin DOMAIN r.cameras[k]
    BY <1>1 DEF CameraOf
  <2>3. Settles(Assigned(r, l), r, l, p, r.cameras[k])
    <3>1. k = Len(r.cameras) /\ p = Append(r.section, l.key)
      BY <1>1, <2>1
    <3> HIDE DEF p, s
    <3>2. QED
      BY <1>2, <2>2, <3>1, AssignedKnown
  <2> HIDE DEF p, s
  <2>4. PICK v : /\ Understood(p, Value(l), v)
                 /\ s.cameras = Ending(r.cameras, Put(r.cameras[k], p, v))
    BY <2>3 DEF Settles, s
  <2>5. CamerasOf(s.cameras, Put(w, <<k, p>>, Value(l)), k)
    BY <1>2, <2>4, CamerasEnding
  <2>6. QED
    BY <2>3, <2>5 DEF Settles, p, s
<1>3. CASE p \notin DOMAIN CameraKeys
  <2>1. Append(r.section, l.key) \notin DOMAIN CameraKeys
    BY <1>3, Unsectioned
  <2>2. s = r
    BY <2>1, AssignedUnknown
  <2>3. CamerasOf(r.cameras, Put(w, <<k, p>>, Value(l)), k)
    BY <1>3, CamerasUnknown
  <2>4. QED
    BY <2>2, <2>3 DEF SameBut
<1>4. QED
  BY <1>2, <1>3

(* A setting or a header inside of a camera.                               *)
LEMMA InsidePair ==
  ASSUME FileInv, FlatInv, MultiInv, NEW l, ReadLine(l), InCameras, l.depth > 0, Pair(l)
  PROVE  /\ l.depth \in Nat /\ l.depth >= 2 /\ count \in Nat \ {0} /\ ~l.dash
         /\ Where(l) = <<count, Append(SubSeq(open, 3, l.depth), l.key)>>
         /\ <<count, Append(SubSeq(open, 3, l.depth), l.key)>> \notin DOMAIN written
         /\ count' = count
         /\ IsHeader(l) => written' = written /\ open' = Append(Above(l), l.key)
         /\ ~IsHeader(l) => written' = Put(written, Where(l), Value(l)) /\ open' = Above(l)
         /\ open[l.depth] \notin ListKeys
         /\ l.value = "[1]" => l.key \in ListKeys
         /\ IsHeader(l) => (l.key \in ListKeys <=>
              Append(SubSeq(open, 3, l.depth), l.key) \in DOMAIN CameraKeys)
<1>1. Line(l) /\ l.depth <= Len(open) /\ Write(l) /\ l.depth \in Nat
  BY LineFacts DEF ReadLine
<1>2. InBlock(l)
  BY <1>1, WhereFacts
<1>3. l.depth >= 2
  BY <1>1, <1>2, PairFacts
<1>4. Where(l) = <<count, Append(SubSeq(open, 3, l.depth), l.key)>>
  BY <1>1, <1>2, <1>3, InsidePath
<1>5. ~OpensBlock(l)
  <2>1. l.depth # 0
    BY <1>3
  <2>2. QED
    BY <2>1 DEF OpensBlock
<1>6. count \in Nat \ {0}
  BY <1>1, <1>3 DEF FileInv
<1>7. /\ count' = count
      /\ IsHeader(l) => written' = written /\ open' = Append(Above(l), l.key)
      /\ ~IsHeader(l) => written' = Put(written, Where(l), Value(l)) /\ open' = Above(l)
  BY <1>1, <1>5, WriteFacts DEF Value
<1>8. Keys(l) = CameraKeys
  BY <1>2 DEF Keys
<1>9. /\ Where(l) \notin DOMAIN written /\ ~l.dash /\ open[l.depth] \notin ListKeys
      /\ l.value = "[1]" => l.key \in ListKeys
      /\ IsHeader(l) => (l.key \in ListKeys <=> Where(l)[2] \in DOMAIN CameraKeys)
  BY <1>3, <1>8, PairFacts
<1>10. Where(l)[2] = Append(SubSeq(open, 3, l.depth), l.key)
  BY <1>4, Second
<1>11. QED
  BY <1>1, <1>3, <1>4, <1>6, <1>7, <1>9, <1>10

(* What such a line has to do.                                             *)
LEMMA PairFrame ==
  ASSUME FileInv, FlatInv, FlatInv', MultiInv, NEW l, ReadLine(l), InCameras, l.depth > 0, Pair(l),
         DOMAIN multi' = Fields, ~multi'.error, multi'.inside = multi.inside,
         multi'.ended = multi.ended,
         IsHeader(l) => multi'.cameras = multi.cameras,
         ~IsHeader(l) => CamerasOf(multi'.cameras, Put(written, Where(l), Value(l)), count),
         Len(open') >= 3 => multi'.section = SectionOf(open'),
         IsHeader(l) /\ l.key \in ListKeys =>
           multi'.pending = Append(SubSeq(open, 3, l.depth), l.key)
  PROVE  MultiInv'
<1> DEFINE above == SubSeq(open, 3, l.depth)
<1>1. /\ l.depth \in Nat /\ l.depth >= 2 /\ count' = count
      /\ IsHeader(l) => written' = written /\ open' = Append(Above(l), l.key)
      /\ ~IsHeader(l) => written' = Put(written, Where(l), Value(l)) /\ open' = Above(l)
      /\ open[l.depth] \notin ListKeys
      /\ IsHeader(l) => (l.key \in ListKeys <=> Append(above, l.key) \in DOMAIN CameraKeys)
  BY InsidePair
<1>2. CamerasOf(multi'.cameras, written', count')
  BY <1>1 DEF MultiInv
<1>3. InCameras' /\ DOMAIN written \subseteq DOMAIN written'
  BY BlockStep, WrittenGrows
<1>4. /\ Above(l) \in Seq(Words) /\ Len(Above(l)) = l.depth
      /\ \A i \in 1..l.depth : Above(l)[i] = open[i]
      /\ Append(Above(l), l.key) \in Seq(Words) /\ Len(Append(Above(l), l.key)) = l.depth + 1
      /\ EndOf(Append(Above(l), l.key)) = l.key
      /\ Where(l) = <<count, SubSeq(Append(Above(l), l.key), 3, l.depth + 1)>>
      /\ Where(l) = <<count, Append(above, l.key)>>
  <2>1. Line(l) /\ l.depth <= Len(open) /\ InBlock(l)
    BY WhereFacts DEF ReadLine
  <2>2. QED
    BY <2>1, AboveFacts, WhereFacts, InsidePair
<1> HIDE DEF above
<1>5. ASSUME EndOf(open') \in ListKeys
      PROVE  /\ multi'.pending = SubSeq(open', 3, Len(open'))
             /\ SubSeq(open', 3, Len(open')) \in ListPaths \cap DOMAIN CameraKeys
  <2>1. IsHeader(l)
    <3>1. EndOf(Above(l)) = open[l.depth]
      BY <1>1, <1>4 DEF EndOf
    <3>2. QED
      BY <1>1, <1>5, <3>1
  <2>2. l.key \in ListKeys
    BY <1>1, <1>4, <1>5, <2>1
  <2>3. SubSeq(open', 3, Len(open')) = Append(above, l.key)
    <3>1. open' = Append(Above(l), l.key) /\ Len(open') = l.depth + 1
      BY <1>1, <1>4, <2>1
    <3>2. Where(l)[2] = SubSeq(Append(Above(l), l.key), 3, l.depth + 1)
      BY <1>4, Second
    <3>3. Where(l)[2] = Append(above, l.key)
      <4>1. Where(l) = <<count, Append(above, l.key)>>
        BY <1>4
      <4>2. QED
        BY ONLY <4>1, Second
    <3>4. QED
      BY <3>1, <3>2, <3>3
  <2>4. Append(above, l.key) \in DOMAIN CameraKeys
    BY <1>1, <2>1, <2>2
  <2>5. EndOf(Append(above, l.key)) = l.key
    <3>1. above \in Seq(Words)
      BY <1>1, BelowCamera DEF above, FileInv, ReadLine
    <3>2. QED
      BY <3>1, AppendEnd DEF EndOf
  <2>6. Append(above, l.key) \in ListPaths
    BY <2>2, <2>4, <2>5, CameraPaths, ListKeysNamed DEF EndOf
  <2>7. multi'.pending = Append(above, l.key)
    BY <2>1, <2>2 DEF above
  <2>8. QED
    BY <2>3, <2>4, <2>6, <2>7
<1>6. Following(multi', open')
  BY <1>5 DEF Following
<1>7. QED
  BY <1>2, <1>3, <1>6 DEF MultiInv

AutoPtz == <<"control", "auto_ptz">>

(* Which part of the reader a line of a camera comes to.                   *)
LEMMA PairLines ==
  ASSUME FileInv, FlatInv, MultiInv, NEW l, ReadLine(l), InCameras, l.depth > 0, Pair(l)
  PROVE  /\ l.depth = 2 => multi' = CameraLine(multi, l)
         /\ l.depth = 3 => multi' = SectionLine(multi, l)
         /\ l.depth = 4 /\ multi.section = AutoPtz => multi' = AutoPtzLine(multi, l)
         /\ l.depth > 4 \/ (l.depth = 4 /\ multi.section # AutoPtz) => multi' = multi
<1>1. l.depth \in Nat /\ l.depth >= 2 /\ count \in Nat \ {0} /\ ~l.dash
  BY InsidePair
<1>2. multi.cameras # <<>>
  BY <1>1 DEF MultiInv, CamerasOf
<1>3. multi' = CameraBlockLine(multi, l)
  <2>1. multi.inside /\ ~multi.ended /\ l.depth # 0
    BY <1>1 DEF MultiInv
  <2>2. QED
    BY <2>1 DEF ReadLine, MultiLine
<1>4. /\ l.depth = 2 => ~(l.depth = 3) /\ ~(l.depth = 4)
      /\ l.depth = 3 => ~(l.depth = 2) /\ ~(l.depth = 4)
      /\ l.depth >= 4 => ~(l.depth = 2) /\ ~(l.depth = 3)
      /\ l.depth > 4 => ~(l.depth = 4) /\ l.depth >= 4
  BY <1>1
<1>5. QED
  BY <1>1, <1>2, <1>3, <1>4 DEF CameraBlockLine, AutoPtz

(* Assigning leaves the reader's state a record of the same fields.        *)
LEMMA AssignedDomain ==
  ASSUME NEW r, DOMAIN r = Fields, NEW l
  PROVE  DOMAIN Assigned(r, l) = Fields
<1>1. DOMAIN Error(r) = Fields
  BY DEF Error
<1>2. \A p, v : DOMAIN InCamera(r, p, v) = Fields
  BY DEF InCamera
<1>3. \A p, ws : DOMAIN AddItems(r, p, ws) = Fields
  BY <1>1, <1>2 DEF AddItems
<1>4. QED
  BY <1>1, <1>2, <1>3 DEF Assigned

(* A line with a key is a header when it has no value.                     *)
LEMMA HeaderIs == ASSUME NEW l, ~l.dash PROVE IsHeader(l) <=> l.value = ""
BY DEF IsHeader

(* The headers after a line.                                               *)
LEMMA HeadersAfter ==
  ASSUME FileInv, FlatInv, MultiInv, NEW l, ReadLine(l), InCameras, l.depth > 0, Pair(l)
  PROVE  /\ \A i \in 1..l.depth : open'[i] = open[i]
         /\ IsHeader(l) => Len(open') = l.depth + 1 /\ open'[l.depth + 1] = l.key
         /\ ~IsHeader(l) => Len(open') = l.depth
<1>1. /\ Above(l) \in Seq(Words) /\ Len(Above(l)) = l.depth
      /\ \A i \in 1..l.depth : Above(l)[i] = open[i]
  BY AboveFacts DEF ReadLine
<1>2. /\ IsHeader(l) => open' = Append(Above(l), l.key)
      /\ ~IsHeader(l) => open' = Above(l)
  BY InsidePair
<1>3. /\ Len(Append(Above(l), l.key)) = l.depth + 1
      /\ Append(Above(l), l.key)[l.depth + 1] = l.key
      /\ \A i \in 1..l.depth : Append(Above(l), l.key)[i] = Above(l)[i]
  BY <1>1, AppendEnd
<1>4. QED
  BY <1>1, <1>2, <1>3

(* A header that is no list is not known to assign.                        *)
LEMMA HeaderUnknown ==
  ASSUME FileInv, FlatInv, MultiInv, NEW l, ReadLine(l), InCameras, l.depth > 0, Pair(l),
         IsHeader(l)
  PROVE  LET p == Append(SubSeq(open, 3, l.depth), l.key)
         IN /\ l.key \in ListKeys => p \in ListPaths
            /\ l.key \notin ListKeys => p \notin DOMAIN CameraKeys
<1> DEFINE above == SubSeq(open, 3, l.depth)
           p == Append(above, l.key)
<1>1. l.key \in ListKeys <=> p \in DOMAIN CameraKeys
  BY InsidePair
<1>2. above \in Seq(Words)
  BY InsidePair, BelowCamera DEF FileInv, ReadLine
<1>3. p[Len(p)] = l.key
  BY <1>2, AppendEnd
<1> HIDE DEF p
<1>4. ASSUME l.key \in ListKeys
      PROVE  p \in ListPaths
  <2>1. p \in DOMAIN CameraKeys /\ p[Len(p)] \in ListNames
    BY <1>1, <1>3, <1>4, ListKeysNamed
  <2>2. QED
    BY <2>1, CameraPaths
<1>5. QED
  BY <1>1, <1>4 DEF p

(* A setting of the camera itself, or the header of a section.             *)
LEMMA CameraLineStep ==
  ASSUME FileInv, FlatInv, FlatInv', MultiInv, NEW l, ReadLine(l), InCameras, Pair(l),
         l.depth = 2, ~multi'.error
  PROVE  MultiInv'
<1> DEFINE above == SubSeq(open, 3, l.depth)
           s == [multi EXCEPT !.pending = <<>>, !.section = <<>>]
<1>0. l.depth > 0
  OBVIOUS
<1>1. /\ l.depth > 0 /\ ~l.dash /\ count \in Nat \ {0}
      /\ Where(l) = <<count, Append(above, l.key)>> /\ Where(l) \notin DOMAIN written
      /\ l.value = "[1]" => l.key \in ListKeys
  BY <1>0, InsidePair
<1>2. above = <<>> /\ l.key \in Words
  BY <1>1, BelowCamera, LineFacts DEF FileInv, ReadLine
<1>3. multi' = CameraLine(multi, l)
  BY <1>1, PairLines
<1>4. /\ DOMAIN multi = Fields /\ ~multi.error /\ DOMAIN s = Fields /\ s.error = multi.error
      /\ s.inside = multi.inside /\ s.ended = multi.ended /\ s.cameras = multi.cameras
      /\ s.section = <<>> /\ s.pending = <<>>
  BY DEF MultiInv, Fields
<1>5. CASE IsHeader(l)
  <2>1. l.value = ""
    BY <1>1, <1>5, HeaderIs
  <2>2. multi' = [s EXCEPT !.section = Base(l.key)]
    BY <1>3, <2>1 DEF CameraLine, Base, SectionNames
  <2> HIDE DEF s
  <2>3. /\ DOMAIN multi' = Fields /\ multi'.inside = multi.inside /\ multi'.ended = multi.ended
        /\ multi'.cameras = multi.cameras /\ multi'.section = Base(l.key)
    BY <1>4, <2>2 DEF Fields
  <2>4. SectionOf(open') = Base(l.key)
    BY <1>1, <1>5, HeadersAfter DEF SectionOf
  <2>5. l.key \notin ListKeys
    <3>1. Append(<<>>, l.key) \notin ListPaths
      <4>1. Len(Append(<<>>, l.key)) = 1
        BY <1>2
      <4>2. \A p \in ListPaths : Len(p) # 1
        <5>1. SUFFICES ASSUME NEW p \in ListPaths PROVE Len(p) # 1
          OBVIOUS
        <5> DEFINE n == Len(p)
        <5>2. n >= 2 /\ n \in Nat
          BY ListPathFacts
        <5> HIDE DEF n
        <5>3. n # 1
          BY <5>2
        <5>4. QED
          BY <5>3 DEF n
      <4>3. QED
        BY <4>1, <4>2
    <3>2. QED
      BY <1>1, <1>2, <1>5, <3>1, HeaderUnknown
  <2>6. QED
    BY <1>1, <1>5, <2>3, <2>4, <2>5, PairFrame
<1>6. CASE ~IsHeader(l)
  <2>1. l.value # ""
    BY <1>1, <1>6, HeaderIs
  <2>2. multi' = [Assigned(s, l) EXCEPT !.section = multi.section]
    BY <1>3, <2>1 DEF CameraLine
  <2> DEFINE a == Assigned(s, l)
  <2>3. DOMAIN a = Fields
    BY <1>4, AssignedDomain
  <2> HIDE DEF a, s
  <2>4. /\ DOMAIN multi' = Fields /\ multi'.error = a.error /\ multi'.inside = a.inside
        /\ multi'.ended = a.ended /\ multi'.cameras = a.cameras
    BY <2>2, <2>3 DEF Fields, a
  <2>5. /\ SameBut(a, s)
        /\ CamerasOf(a.cameras, Put(written, <<count, Append(above, l.key)>>, Value(l)), count)
    <3>1. CamerasOf(s.cameras, written, count)
      BY <1>4 DEF MultiInv
    <3>2. above \in Seq(Words) /\ s.section = above
      BY <1>2, <1>4
    <3>3. ~a.error
      BY <2>4
    <3> HIDE DEF above
    <3>4. QED
      BY <1>1, <1>4, <3>1, <3>2, <3>3, AssignedStep DEF a
  <2>6. Len(open') = 2
    BY <1>1, <1>6, HeadersAfter
  <2> HIDE DEF above
  <2>7. multi'.inside = multi.inside /\ multi'.ended = multi.ended
    BY <1>4, <2>4, <2>5 DEF SameBut
  <2>8. CamerasOf(multi'.cameras, Put(written, Where(l), Value(l)), count)
    BY <1>1, <2>4, <2>5
  <2>9. ~(Len(open') >= 3)
    BY <2>6
  <2>10. QED
    BY <1>0, <1>6, <2>4, <2>7, <2>8, <2>9, PairFrame
<1>7. QED
  BY <1>5, <1>6

(* The sections of one header are the four CameraLine knows.               *)
LEMMA OneWord ==
  ASSUME NEW k, <<k>> \in Sections
  PROVE  k \in SectionNames
<1>1. Len(<<k>>) = 1 /\ Len(<<"control", "auto_ptz">>) = 2 /\ Len(<<>>) = 0
  OBVIOUS
<1>2. /\ <<k>>[1] = k /\ <<"source">>[1] = "source" /\ <<"tracking">>[1] = "tracking"
      /\ <<"monitoring">>[1] = "monitoring" /\ <<"control">>[1] = "control"
  OBVIOUS
<1> DEFINE s == <<k>>
<1>3. s \in Sections /\ Len(s) = 1 /\ s[1] = k
  BY <1>1, <1>2
<1> HIDE DEF s
<1>4. s # <<>> /\ s # <<"control", "auto_ptz">>
  BY <1>1, <1>3
<1>5. QED
  BY <1>2, <1>3, <1>4 DEF Sections, SectionNames

(* What CameraLine makes of a header: a section it knows, or none.         *)
LEMMA BaseFacts ==
  ASSUME NEW k \in Words
  PROVE  /\ Base(k) # AutoPtz /\ Base(k) \in Seq(Words)
         /\ Base(k) = <<"control">> => k = "control"
         /\ Base(k) = <<k>> \/ (Base(k) \notin Sections /\ <<k>> \notin Sections)
<1>1. \E w \in Words : Base(k) = <<w>> /\ (w = k \/ (w = "none" /\ k \notin SectionNames))
  BY DEF Base, Words
<1>2. PICK w \in Words : Base(k) = <<w>> /\ (w = k \/ (w = "none" /\ k \notin SectionNames))
  BY <1>1
<1>3. <<w>> # AutoPtz
  <2>1. Len(<<w>>) = 1 /\ Len(AutoPtz) = 2
    BY DEF AutoPtz
  <2>2. QED
    BY <2>1
<1>4. <<w>> = <<"control">> => w = "control"
  OBVIOUS
<1>5. "none" \notin SectionNames /\ "none" # "control"
  BY DEF SectionNames
<1>6. QED
  BY <1>2, <1>3, <1>4, <1>5, OneWord

(* A setting in a section, or a header there.                              *)
LEMMA SectionLineStep ==
  ASSUME FileInv, FlatInv, FlatInv', MultiInv, NEW l, ReadLine(l), InCameras, Pair(l),
         l.depth = 3, ~multi'.error
  PROVE  MultiInv'
<1> DEFINE above == SubSeq(open, 3, l.depth)
           s == [multi EXCEPT !.section = IF multi.section = AutoPtz THEN <<"control">>
                                          ELSE multi.section]
           listed == l.key \in {"target_classes", "target_class_ids"}
<1>0. l.depth > 0
  OBVIOUS
<1>1. /\ ~l.dash /\ count \in Nat \ {0}
      /\ Where(l) = <<count, Append(above, l.key)>> /\ Where(l) \notin DOMAIN written
      /\ l.value = "[1]" => l.key \in ListKeys
  BY <1>0, InsidePair
<1>2. /\ above = <<open[3]>> /\ above \in Seq(Words) /\ l.key \in Words /\ open[3] \in Words
      /\ Len(open) >= 3
  <2>1. Line(l) /\ l.depth <= Len(open) /\ InBlock(l)
    BY <1>0, WhereFacts DEF ReadLine
  <2>2. QED
    BY <2>1, InsidePath, LineFacts DEF FileInv
<1>3. /\ Base(open[3]) # AutoPtz /\ Base(open[3]) \in Seq(Words)
      /\ Base(open[3]) = <<"control">> => open[3] = "control"
      /\ Base(open[3]) = above \/ (Base(open[3]) \notin Sections /\ above \notin Sections)
  BY <1>2, BaseFacts
<1>4. multi' = SectionLine(multi, l)
  BY <1>0, PairLines
<1>5. s.section = Base(open[3])
  <2>1. multi.section = SectionOf(open)
    BY <1>2 DEF MultiInv, Following
  <2>2. SectionOf(open) = AutoPtz => open[3] = "control"
    BY <1>3 DEF SectionOf
  <2>3. SectionOf(open) # AutoPtz => SectionOf(open) = Base(open[3])
    BY DEF SectionOf, AutoPtz
  <2>4. Base("control") = <<"control">>
    BY DEF Base, SectionNames
  <2>5. s.section = IF multi.section = AutoPtz THEN <<"control">> ELSE multi.section
    BY DEF MultiInv, Fields
  <2>6. QED
    BY <2>1, <2>2, <2>3, <2>4, <2>5
<1>6. /\ DOMAIN s = Fields /\ s.error = multi.error /\ ~s.error
      /\ s.inside = multi.inside /\ s.ended = multi.ended /\ s.cameras = multi.cameras
      /\ s.pending = multi.pending
  BY DEF MultiInv, Fields
<1>7. multi' = IF s.section = <<"control">> /\ l.key = "auto_ptz" /\ l.value = ""
               THEN [s EXCEPT !.section = AutoPtz, !.pending = <<>>]
               ELSE IF l.value = "" /\ listed
               THEN [s EXCEPT !.pending = <<"monitoring", l.key>>]
               ELSE Assigned(s, l)
  BY <1>4 DEF SectionLine, AutoPtz
<1> HIDE DEF s
<1>8. CASE ~IsHeader(l)
  <2>1. multi' = Assigned(s, l)
    BY <1>1, <1>7, <1>8, HeaderIs
  <2>2. /\ SameBut(multi', s)
        /\ CamerasOf(multi'.cameras, Put(written, <<count, Append(above, l.key)>>, Value(l)), count)
    <3>1. CamerasOf(s.cameras, written, count)
      BY <1>6 DEF MultiInv
    <3>2. s.section = above \/ (s.section \notin Sections /\ above \notin Sections)
      BY <1>3, <1>5
    <3>3. ~Assigned(s, l).error /\ s.section \in Seq(Words) /\ above \in Seq(Words)
      BY <1>2, <1>3, <1>5, <2>1
    <3> HIDE DEF above
    <3>4. QED
      BY <1>1, <1>6, <2>1, <3>1, <3>2, <3>3, AssignedStep
  <2>3. SectionOf(open') = Base(open[3])
    BY <1>0, <1>8, HeadersAfter DEF SectionOf
  <2> HIDE DEF above
  <2>4. /\ DOMAIN multi' = Fields /\ multi'.inside = multi.inside /\ multi'.ended = multi.ended
        /\ multi'.section = SectionOf(open')
    BY <1>5, <1>6, <2>2, <2>3 DEF SameBut
  <2>5. CamerasOf(multi'.cameras, Put(written, Where(l), Value(l)), count)
    BY <1>1, <2>2
  <2>6. QED
    BY <1>0, <1>8, <2>4, <2>5, PairFrame
<1>9. CASE IsHeader(l)
  <2>1. l.value = ""
    BY <1>1, <1>9, HeaderIs
  <2>2. Len(open') = 4 /\ open'[3] = open[3] /\ open'[4] = l.key
    <3>1. l.depth + 1 = 4 /\ 3 \in 1..l.depth
      OBVIOUS
    <3>2. Len(open') = l.depth + 1 /\ open'[l.depth + 1] = l.key /\ open'[3] = open[3]
      BY <1>0, <1>9, <3>1, HeadersAfter
    <3>3. QED
      BY <3>1, <3>2
  <2>3. /\ l.key \in ListKeys => <<open[3], l.key>> \in ListPaths
        /\ l.key \notin ListKeys => Append(above, l.key) \notin DOMAIN CameraKeys
    BY <1>0, <1>2, <1>9, HeaderUnknown, AppendTuples
  <2>4. l.key \in ListKeys => listed /\ <<open[3], l.key>> = <<"monitoring", l.key>>
    <3>1. Len(<<open[3], l.key>>) = 2 /\ Len(<<"control", "auto_ptz", "priority_classes">>) = 3
      OBVIOUS
    <3>2. <<open[3], l.key>> # <<"control", "auto_ptz", "priority_classes">>
      BY <3>1
    <3>3. l.key \in ListKeys => \/ <<open[3], l.key>> = <<"monitoring", "target_classes">>
                                \/ <<open[3], l.key>> = <<"monitoring", "target_class_ids">>
      BY <2>3, <3>2 DEF ListPaths
    <3>4. QED
      BY <3>3
  <2>5. CASE s.section = <<"control">> /\ l.key = "auto_ptz"
    <3>1. multi' = [s EXCEPT !.section = AutoPtz, !.pending = <<>>]
      BY <1>7, <2>1, <2>5
    <3>2. /\ DOMAIN multi' = Fields /\ multi'.inside = multi.inside /\ multi'.ended = multi.ended
          /\ multi'.cameras = multi.cameras /\ multi'.section = AutoPtz
      BY <1>6, <3>1 DEF Fields
    <3>3. SectionOf(open') = AutoPtz
      BY <1>3, <1>5, <2>2, <2>5 DEF SectionOf, AutoPtz
    <3>4. l.key \notin ListKeys
      BY <2>5, ListKeysNamed DEF ListNames
    <3>5. QED
      BY <1>0, <1>9, <3>2, <3>3, <3>4, PairFrame
  <2>6. ~(s.section = <<"control">> /\ l.key = "auto_ptz") => SectionOf(open') = Base(open[3])
    <3>1. open[3] = "control" => Base(open[3]) = <<"control">>
      BY DEF Base, SectionNames
    <3>2. QED
      BY <1>5, <2>2, <3>1 DEF SectionOf
  <2>7. CASE ~(s.section = <<"control">> /\ l.key = "auto_ptz") /\ listed
    <3>1. multi' = [s EXCEPT !.pending = <<"monitoring", l.key>>]
      BY <1>7, <2>1, <2>7
    <3>2. /\ DOMAIN multi' = Fields /\ multi'.inside = multi.inside /\ multi'.ended = multi.ended
          /\ multi'.cameras = multi.cameras /\ multi'.section = Base(open[3])
          /\ multi'.pending = <<"monitoring", l.key>>
      BY <1>5, <1>6, <3>1 DEF Fields
    <3>3. l.key \in ListKeys => multi'.pending = Append(above, l.key)
      BY <1>2, <2>4, <3>2, AppendTuples
    <3>4. QED
      BY <1>0, <1>9, <2>6, <2>7, <3>2, <3>3, PairFrame
  <2>8. CASE ~(s.section = <<"control">> /\ l.key = "auto_ptz") /\ ~listed
    <3>1. l.key \notin ListKeys /\ Append(above, l.key) \notin DOMAIN CameraKeys
      BY <2>3, <2>4, <2>8
    <3>2. Append(s.section, l.key) \notin DOMAIN CameraKeys
      BY <1>3, <1>5, <3>1, Unsectioned
    <3>3. multi' = Assigned(s, l)
      BY <1>7, <2>8
    <3>4. multi' = s
      BY <1>6, <3>2, <3>3, AssignedUnknown
    <3>5. QED
      BY <1>0, <1>5, <1>6, <1>9, <2>6, <2>8, <3>1, <3>4, PairFrame
  <2>9. QED
    BY <2>5, <2>7, <2>8
<1>10. QED
  BY <1>8, <1>9

(* Four headers down the section stays what it is.                         *)
LEMMA SectionStays ==
  ASSUME FileInv, FlatInv, MultiInv, NEW l, ReadLine(l), InCameras, Pair(l), l.depth >= 4
  PROVE  /\ SectionOf(open') = SectionOf(open) /\ multi.section = SectionOf(open)
         /\ Len(open) >= 4 /\ open[3] \in Words /\ open[4] \in Words
<1>1. l.depth \in Nat /\ l.depth <= Len(open) /\ l.depth > 0 /\ l.depth + 1 >= 4
  BY LineFacts DEF ReadLine
<1>2. /\ \A i \in 1..l.depth : open'[i] = open[i]
      /\ Len(open') = l.depth + 1 \/ Len(open') = l.depth
  BY <1>1, HeadersAfter
<1>3. Len(open') >= 4 /\ open'[3] = open[3] /\ open'[4] = open[4]
  BY <1>1, <1>2
<1>4. Len(open) >= 4 /\ open[3] \in Words /\ open[4] \in Words
  BY <1>1 DEF FileInv
<1>5. SectionOf(open') = SectionOf(open)
  BY <1>3, <1>4 DEF SectionOf
<1>6. multi.section = SectionOf(open)
  BY <1>4 DEF MultiInv, Following, FileInv
<1>7. QED
  BY <1>4, <1>5, <1>6

(* A setting in control.auto_ptz, or a header there.                       *)
LEMMA AutoPtzLineStep ==
  ASSUME FileInv, FlatInv, FlatInv', MultiInv, NEW l, ReadLine(l), InCameras, Pair(l),
         l.depth = 4, multi.section = AutoPtz, ~multi'.error
  PROVE  MultiInv'
<1> DEFINE above == SubSeq(open, 3, l.depth)
<1>0. l.depth > 0 /\ l.depth >= 4
  OBVIOUS
<1>1. /\ ~l.dash /\ count \in Nat \ {0}
      /\ Where(l) = <<count, Append(above, l.key)>> /\ Where(l) \notin DOMAIN written
      /\ l.value = "[1]" => l.key \in ListKeys
  BY <1>0, InsidePair
<1>2. above = <<open[3], open[4]>> /\ l.key \in Words
  <2>1. Line(l) /\ l.depth <= Len(open) /\ InBlock(l)
    BY <1>0, WhereFacts DEF ReadLine
  <2>2. QED
    BY <2>1, InsidePath, LineFacts DEF FileInv
<1>3. SectionOf(open') = AutoPtz /\ SectionOf(open) = AutoPtz /\ open[3] \in Words
  BY <1>0, SectionStays
<1>4. above = AutoPtz
  <2>1. open[3] = "control" /\ open[4] = "auto_ptz"
    BY <1>3, BaseFacts DEF SectionOf
  <2>2. QED
    BY <1>2, <2>1 DEF AutoPtz
<1>5. AutoPtz \in Seq(Words)
  BY SectionsAreWords DEF AutoPtz, Sections
<1>6. multi' = AutoPtzLine(multi, l)
  BY <1>0, PairLines
<1>7. DOMAIN multi = Fields /\ ~multi.error /\ CamerasOf(multi.cameras, written, count)
  BY DEF MultiInv
<1> HIDE DEF above
<1>8. CASE ~IsHeader(l)
  <2>1. multi' = Assigned(multi, l)
    BY <1>1, <1>6, <1>8, HeaderIs DEF AutoPtzLine
  <2>2. /\ SameBut(multi', multi)
        /\ CamerasOf(multi'.cameras, Put(written, <<count, Append(above, l.key)>>, Value(l)), count)
    <3>1. multi.section = above /\ multi.section \in Seq(Words) /\ above \in Seq(Words)
      BY <1>4, <1>5
    <3>2. QED
      BY <1>1, <1>7, <2>1, <3>1, AssignedStep
  <2>3. /\ DOMAIN multi' = Fields /\ multi'.inside = multi.inside /\ multi'.ended = multi.ended
        /\ multi'.section = SectionOf(open')
    BY <1>3, <2>2 DEF SameBut
  <2>4. CamerasOf(multi'.cameras, Put(written, Where(l), Value(l)), count)
    BY <1>1, <2>2
  <2>5. QED
    BY <1>0, <1>8, <2>3, <2>4, PairFrame
<1>9. CASE IsHeader(l) /\ l.key = "priority_classes"
  <2>1. multi' = [multi EXCEPT !.pending = Append(multi.section, l.key)]
    BY <1>1, <1>6, <1>9, HeaderIs DEF AutoPtzLine
  <2>2. /\ DOMAIN multi' = Fields /\ multi'.inside = multi.inside /\ multi'.ended = multi.ended
        /\ multi'.cameras = multi.cameras /\ multi'.section = SectionOf(open')
        /\ multi'.pending = Append(above, l.key)
    BY <1>3, <1>4, <1>7, <2>1 DEF Fields
  <2>3. QED
    BY <1>0, <1>9, <2>2, PairFrame DEF above
<1>10. CASE IsHeader(l) /\ l.key # "priority_classes"
  <2>1. multi' = Assigned(multi, l)
    BY <1>6, <1>10 DEF AutoPtzLine
  <2>2. /\ l.key \in ListKeys => Append(above, l.key) \in ListPaths
        /\ l.key \notin ListKeys => Append(above, l.key) \notin DOMAIN CameraKeys
    BY <1>0, <1>10, HeaderUnknown DEF above
  <2>3. l.key \notin ListKeys
    <3>1. Append(above, l.key) = <<"control", "auto_ptz", l.key>>
      BY <1>4, AppendTuples DEF AutoPtz
    <3>2. /\ Len(<<"control", "auto_ptz", l.key>>) = 3
          /\ Len(<<"monitoring", "target_classes">>) = 2
          /\ Len(<<"monitoring", "target_class_ids">>) = 2
      OBVIOUS
    <3>3. /\ <<"control", "auto_ptz", l.key>> # <<"monitoring", "target_classes">>
          /\ <<"control", "auto_ptz", l.key>> # <<"monitoring", "target_class_ids">>
      BY <3>2
    <3>4. <<"control", "auto_ptz", l.key>> \in ListPaths => l.key = "priority_classes"
      BY <3>3 DEF ListPaths
    <3>5. QED
      BY <1>10, <2>2, <3>1, <3>4
  <2>4. multi' = multi
    BY <1>4, <1>7, <2>1, <2>2, <2>3, AssignedUnknown
  <2>5. QED
    BY <1>0, <1>3, <1>7, <1>10, <2>3, <2>4, PairFrame
<1>11. QED
  BY <1>8, <1>9, <1>10

(* What is deeper, or is no section, is passed over.                       *)
LEMMA PassedOverStep ==
  ASSUME FileInv, FlatInv, FlatInv', MultiInv, NEW l, ReadLine(l), InCameras, Pair(l),
         l.depth >= 4, l.depth > 4 \/ multi.section # AutoPtz
  PROVE  MultiInv'
<1> DEFINE above == SubSeq(open, 3, l.depth)
<1>0. l.depth > 0 /\ l.depth \in Nat
  BY LineFacts DEF ReadLine
<1>1. count \in Nat \ {0} /\ Where(l) = <<count, Append(above, l.key)>>
  BY <1>0, InsidePair
<1>2. /\ SectionOf(open') = SectionOf(open) /\ multi.section = SectionOf(open)
      /\ Len(open) >= 4
  BY SectionStays
<1>3. /\ above \in Seq(Words) /\ Len(above) = l.depth - 2
      /\ l.depth = 4 => above = <<open[3], open[4]>>
  <2>1. Line(l) /\ l.depth <= Len(open) /\ InBlock(l) /\ l.depth > 1
    BY <1>0, WhereFacts DEF ReadLine
  <2>2. QED
    BY <2>1, InsidePath
<1> HIDE DEF above
<1>4. above \notin Sections
  <2>1. above \in Sections => above = AutoPtz
    <3>1. Len(above) >= 2
      BY <1>0, <1>3
    <3>2. /\ Len(<<>>) = 0 /\ Len(<<"source">>) = 1 /\ Len(<<"tracking">>) = 1
          /\ Len(<<"monitoring">>) = 1 /\ Len(<<"control">>) = 1
      OBVIOUS
    <3>3. QED
      BY <3>1, <3>2 DEF Sections, AutoPtz
  <2>2. above = AutoPtz => l.depth = 4
    <3>1. Len(AutoPtz) = 2
      BY DEF AutoPtz
    <3>2. QED
      BY <1>0, <1>3, <3>1
  <2>3. above = AutoPtz /\ l.depth = 4 => multi.section = AutoPtz
    <3>1. <<open[3], open[4]>> = <<"control", "auto_ptz">> =>
            open[3] = "control" /\ open[4] = "auto_ptz"
      OBVIOUS
    <3>2. QED
      BY <1>2, <1>3, <3>1 DEF SectionOf, AutoPtz
  <2>4. QED
    BY <1>0, <2>1, <2>2, <2>3
<1>5. Append(above, l.key) \notin DOMAIN CameraKeys
  BY <1>3, <1>4, Unsectioned
<1>6. multi' = multi
  BY <1>0, PairLines
<1>7. CamerasOf(multi'.cameras, Put(written, Where(l), Value(l)), count)
  BY <1>1, <1>5, <1>6, CamerasUnknown DEF MultiInv
<1>8. IsHeader(l) => l.key \notin ListKeys
  BY <1>0, <1>5, InsidePair DEF above
<1>9. DOMAIN multi' = Fields /\ ~multi'.error /\ multi'.section = SectionOf(open')
  BY <1>2, <1>6 DEF MultiInv
<1>10. QED
  BY <1>0, <1>6, <1>7, <1>8, <1>9, PairFrame

(* The reader of the cameras follows the file.                             *)
LEMMA MultiStep ==
  ASSUME FileInv, FlatInv, FlatInv', MultiInv, NEW l, ReadLine(l), ~multi'.error
  PROVE  MultiInv'
<1>1. Line(l) /\ l.depth <= Len(open) /\ Write(l) /\ l.depth \in Nat
  BY LineFacts DEF ReadLine
<1>2. CASE ~(InCameras /\ l.depth > 0)
  BY <1>2, OutsideStep
<1>3. CASE InCameras /\ l.depth > 0 /\ Begins(l)
  BY <1>3, BeginsStep
<1>4. CASE InCameras /\ l.depth > 0 /\ Item(l)
  BY <1>4, ItemStep
<1>5. CASE InCameras /\ l.depth > 0 /\ Pair(l)
  <2>1. l.depth >= 2
    BY <1>5, InsidePair
  <2>2. l.depth = 2 \/ l.depth = 3 \/ l.depth = 4 \/ l.depth > 4
    BY <1>1, <2>1
  <2>3. CASE l.depth = 2
    BY <1>5, <2>3, CameraLineStep
  <2>4. CASE l.depth = 3
    BY <1>5, <2>4, SectionLineStep
  <2>5. CASE l.depth = 4 /\ multi.section = AutoPtz
    BY <1>5, <2>5, AutoPtzLineStep
  <2>6. CASE l.depth > 4 \/ (l.depth = 4 /\ multi.section # AutoPtz)
    BY <1>1, <1>5, <2>6, PassedOverStep
  <2>7. QED
    BY <2>2, <2>3, <2>4, <2>5, <2>6
<1>6. QED
  BY <1>1, <1>2, <1>3, <1>4, <1>5, LineShape

ReadersInv == FileInv /\ FlatInv /\ (~multi.error => MultiInv)

WellFormed == /\ Lines \subseteq [depth : Nat, dash : BOOLEAN, key : STRING, value : STRING]
              /\ \A l \in Lines : ~Blank(l)

(* Before the first line.                                                  *)
LEMMA ReadersInit == Unread => ReadersInv
<1>1. SUFFICES ASSUME Unread PROVE ReadersInv
  OBVIOUS
<1>2. open = <<>> /\ written = Empty /\ count = 0 /\ DOMAIN Empty = {}
  BY <1>1 DEF Unread, Empty
<1>3. ~InCameras
  BY <1>2 DEF InCameras
<1>4. FileInv
  BY <1>2, <1>3 DEF FileInv, WrittenOK
<1>5. FlatInv
  <2>1. flat = [parents |-> <<>>, list |-> <<>>, skip |-> FALSE,
                scalars |-> Empty, lists |-> Empty, error |-> FALSE]
    BY <1>1 DEF Unread
  <2>2. InCameras = FALSE
    BY <1>3 DEF InCameras
  <2>3. Kept(written, flat.scalars, flat.lists)
    <3>1. flat.scalars = Empty /\ flat.lists = Empty
      BY <2>1
    <3>2. QED
      BY <1>2, <3>1 DEF Kept
  <2>4. flat.parents \in Seq([depth : Nat, key : Words]) /\ flat.parents = Chain(open)
    BY <1>2, <2>1 DEF Chain
  <2>5. QED
    BY <1>2, <2>1, <2>2, <2>3, <2>4 DEF FlatInv
<1>6. MultiInv
  <2>1. /\ DOMAIN multi = Fields /\ ~multi.error
        /\ ~multi.inside /\ ~multi.ended /\ multi.cameras = <<>>
    BY <1>1 DEF Unread, Fields
  <2>2. CamerasOf(<<>>, written, 0)
    BY DEF CamerasOf
  <2>3. QED
    BY <1>2, <1>3, <2>1, <2>2 DEF MultiInv
<1>7. QED
  BY <1>4, <1>5, <1>6 DEF ReadersInv

(* After any line: the invariant of the two readers is inductive.          *)
LEMMA ReadersStep ==
  ASSUME WellFormed
  PROVE  ReadersInv /\ [Read]_readers => ReadersInv'
<1>1. SUFFICES ASSUME ReadersInv, [Read]_readers PROVE ReadersInv'
  OBVIOUS
<1>2. CASE UNCHANGED readers
  BY <1>1, <1>2 DEF ReadersInv, FileInv, WrittenOK, InCameras, FlatInv, MultiInv, readers
<1>3. CASE Read
  <2>1. PICK l \in Lines : ReadLine(l)
    BY <1>3 DEF Read, ReadLine, Line, WellFormed
  <2>2. FileInv /\ FlatInv /\ MultiInv
    BY <1>1, <1>3 DEF ReadersInv, Read
  <2>3. FileInv'
    BY <2>1, <2>2, FileStep DEF ReadLine
  <2>4. FlatInv'
    BY <2>1, <2>2, <2>3, FlatStep
  <2>5. QED
    BY <2>1, <2>2, <2>3, <2>4, MultiStep DEF ReadersInv
<1>4. QED
  BY <1>1, <1>2, <1>3

(* The invariant says where each setting is once both are through.         *)
LEMMA SettingsFollow == ReadersInv => SettingsWhereWritten
<1>1. SUFFICES ASSUME ReadersInv, ~flat.error, ~multi.error PROVE SettingsWhereWritten
  BY DEF SettingsWhereWritten
<1>2. FileInv /\ FlatInv /\ MultiInv
  BY <1>1 DEF ReadersInv
<1>3. \A n, p : p \in PathsOf(n) <=> <<n, p>> \in DOMAIN written
  BY <1>2, PathsFacts
<1>4. Kept(written, flat.scalars, flat.lists)
  BY <1>2 DEF FlatInv
<1>5. \A p \in PathsOf(0) \ {<<"cameras">>} :
         \/ p \in DOMAIN flat.scalars /\ written[<<0, p>>] = <<flat.scalars[p]>>
         \/ p \in DOMAIN flat.lists /\ written[<<0, p>>] = flat.lists[p]
  BY <1>3, <1>4 DEF Kept
<1>6. DOMAIN flat.scalars \cup DOMAIN flat.lists \subseteq PathsOf(0)
  BY <1>3, <1>4 DEF Kept
<1>7. Len(multi.cameras) = count /\ \A n \in 1..count : CameraOf(n, written, multi.cameras[n])
  BY <1>2 DEF MultiInv, CamerasOf
<1>8. ASSUME NEW n \in 1..count
      PROVE  /\ DOMAIN multi.cameras[n] = PathsOf(n) \cap DOMAIN CameraKeys
             /\ \A p \in DOMAIN multi.cameras[n] :
                  Understood(p, written[<<n, p>>], multi.cameras[n][p])
  BY <1>3, <1>7 DEF CameraOf
<1>9. QED
  BY <1>5, <1>6, <1>7, <1>8 DEF SettingsWhereWritten, Understood

(* Of any well formed file the two readers take every setting of every     *)
(* camera, and every other one, where the file has it and as the file      *)
(* means it (ConfigManager.cpp:74, MultiCameraConfigParser.cpp:312).       *)
THEOREM SettingsAreWhereWritten ==
  ASSUME WellFormed
  PROVE  Reading => []SettingsWhereWritten
<1>1. Reading => []ReadersInv
  BY ReadersInit, ReadersStep, PTL DEF Reading
<1>2. QED
  BY <1>1, SettingsFollow, PTL

(* A setting with a row in the camera's table is known.                    *)
LEMMA KnownPath ==
  ASSUME NEW s, NEW K, NEW e, Rows(s, K, e) \subseteq CameraTable, NEW k \in K
  PROVE  Append(s, k) \in DOMAIN CameraKeys
<1> DEFINE row == <<Append(s, k), e>>
<1>1. row \in CameraTable /\ row[1] = Append(s, k)
  BY DEF Rows
<1> HIDE DEF row
<1>2. QED
  BY <1>1, RowKnown DEF CameraKeys

(* The settings AcceptedIsUsable speaks of are known.                      *)
LEMMA PathsKnown ==
  /\ <<"priority">> \in DOMAIN CameraKeys /\ <<"source", "queue_size">> \in DOMAIN CameraKeys
  /\ <<"control", "queue_size">> \in DOMAIN CameraKeys
  /\ <<"control", "type">> \in DOMAIN CameraKeys
  /\ <<"source", "reconnect_initial_ms">> \in DOMAIN CameraKeys
  /\ <<"source", "reconnect_max_ms">> \in DOMAIN CameraKeys
  /\ <<"monitoring", "lost_frames">> \in DOMAIN CameraKeys
  /\ <<"control", "auto_ptz", "enabled">> \in DOMAIN CameraKeys
<1> DEFINE delays == {"width", "height", "startup_timeout_ms", "reconnect_initial_ms",
                      "reconnect_max_ms"}
<1>1. /\ Rows(<<>>, {"priority"}, "int") \subseteq CameraTable
      /\ Rows(<<"source">>, {"queue_size"}, "count") \subseteq CameraTable
      /\ Rows(<<"source">>, delays, "int") \subseteq CameraTable
      /\ Rows(<<"monitoring">>, {"confirmation_frames", "lost_frames"}, "count")
           \subseteq CameraTable
      /\ Rows(<<"control">>, {"queue_size"}, "count") \subseteq CameraTable
      /\ Rows(<<"control">>, {"type"}, "control") \subseteq CameraTable
      /\ Rows(<<"control", "auto_ptz">>, {"enabled"}, "flag") \subseteq CameraTable
  BY DEF CameraTable
<1>2. Append(<<>>, "priority") \in DOMAIN CameraKeys
  BY <1>1, KnownPath
<1>3. Append(<<"source">>, "queue_size") \in DOMAIN CameraKeys
  BY <1>1, KnownPath
<1>4. "reconnect_initial_ms" \in delays /\ "reconnect_max_ms" \in delays
  OBVIOUS
<1> HIDE DEF delays
<1>5. /\ Append(<<"source">>, "reconnect_initial_ms") \in DOMAIN CameraKeys
      /\ Append(<<"source">>, "reconnect_max_ms") \in DOMAIN CameraKeys
  BY <1>1, <1>4, KnownPath
<1>6. Append(<<"monitoring">>, "lost_frames") \in DOMAIN CameraKeys
  BY <1>1, KnownPath
<1>7. /\ Append(<<"control">>, "queue_size") \in DOMAIN CameraKeys
      /\ Append(<<"control">>, "type") \in DOMAIN CameraKeys
  BY <1>1, KnownPath
<1>8. Append(<<"control", "auto_ptz">>, "enabled") \in DOMAIN CameraKeys
  BY <1>1, KnownPath
<1>9. QED
  BY <1>2, <1>3, <1>5, <1>6, <1>7, <1>8, AppendTuples

(* What the file means of a camera is what the reader has of it.           *)
LEMMA SettingIs ==
  ASSUME NEW n, NEW c, CameraOf(n, written, c), NEW p \in DOMAIN CameraKeys, NEW default
  PROVE  Setting(n, p, default) = Get(c, p, default)
BY DEF CameraOf, Understood, Setting, Get

(* What the ranges say of a camera.                                        *)
LEMMA CameraInRange ==
  ASSUME NEW c, CameraValid(c), NEW p \in DOMAIN CameraRange,
         NEW default, default \in CameraRange[p]
  PROVE  Get(c, p, default) \in CameraRange[p]
BY DEF CameraValid, InRange, Get

(* A camera validate() accepts can be run.                                 *)
LEMMA CameraUsable ==
  ASSUME NEW n, NEW c, CameraOf(n, written, c), CameraValid(c)
  PROVE  /\ Setting(n, <<"priority">>, 1) \in 1..16
         /\ Setting(n, <<"source", "queue_size">>, 1) \in 1..8
         /\ Setting(n, <<"control", "queue_size">>, 4) \in 1..32
         /\ Setting(n, <<"source", "reconnect_initial_ms">>, 250)
              <= Setting(n, <<"source", "reconnect_max_ms">>, 10000)
         /\ Setting(n, <<"monitoring", "lost_frames">>, 10) > 0
         /\ Setting(n, <<"control", "auto_ptz", "enabled">>, "0") = "1" =>
              Setting(n, <<"control", "type">>, "none") # "none"
<1>1. Setting(n, <<"priority">>, 1) \in 1..16
  <2>1. Setting(n, <<"priority">>, 1) \in Weights
    <3>1. 1 \in Weights
      BY DEF Weights
    <3>2. QED
      BY <3>1, PathsKnown, SettingIs, CameraInRange, RangesInForce
  <2>2. QED
    BY <2>1 DEF Weights
<1>2. Setting(n, <<"source", "queue_size">>, 1) \in 1..8
  <2>1. 1 \in Frames
    BY DEF Frames
  <2>2. Setting(n, <<"source", "queue_size">>, 1) \in Frames
    BY <2>1, PathsKnown, SettingIs, CameraInRange, RangesInForce
  <2>3. QED
    BY <2>2 DEF Frames
<1>3. Setting(n, <<"control", "queue_size">>, 4) \in 1..32
  <2>1. 4 \in Commands
    BY DEF Commands
  <2>2. Setting(n, <<"control", "queue_size">>, 4) \in Commands
    BY <2>1, PathsKnown, SettingIs, CameraInRange, RangesInForce
  <2>3. QED
    BY <2>2 DEF Commands
<1>4. Setting(n, <<"source", "reconnect_initial_ms">>, 250)
        <= Setting(n, <<"source", "reconnect_max_ms">>, 10000)
  <2>1. Defaults.reconnect_initial_ms = 250 /\ Defaults.reconnect_max_ms = 10000
    BY DEF Defaults
  <2>2. Get(c, <<"source", "reconnect_initial_ms">>, 250)
          <= Get(c, <<"source", "reconnect_max_ms">>, 10000)
    <3>1. ReconnectValid(c)
      BY DEF CameraValid
    <3>2. QED
      BY <2>1, <3>1 DEF ReconnectValid
  <2>3. QED
    BY <2>2, PathsKnown, SettingIs
<1>5. Setting(n, <<"monitoring", "lost_frames">>, 10) > 0
  <2>1. 10 \in Positive
    BY SchemaAssumption DEF Positive
  <2>2. Setting(n, <<"monitoring", "lost_frames">>, 10) \in Positive
    BY <2>1, PathsKnown, SettingIs, CameraInRange, RangesInForce
  <2>3. QED
    BY <2>2 DEF Positive
<1>6. Setting(n, <<"control", "auto_ptz", "enabled">>, "0") = "1" =>
        Setting(n, <<"control", "type">>, "none") # "none"
  <2>1. Defaults.enabled = "0" /\ Defaults.control = "none"
    BY DEF Defaults
  <2>2. Get(c, <<"control", "auto_ptz", "enabled">>, "0") = "1" =>
          Get(c, <<"control", "type">>, "none") # "none"
    BY <2>1 DEF CameraValid, ControlValid
  <2>3. QED
    BY <2>2, PathsKnown, SettingIs
<1>7. QED
  BY <1>1, <1>2, <1>3, <1>4, <1>5, <1>6

(* As many ids as cameras, when no two are the same.                       *)
LEMMA DistinctCount ==
  ASSUME NEW k \in Nat, NEW f, \A n, m \in 1..k : f[n] = f[m] => n = m
  PROVE  Cardinality({f[n] : n \in 1..k}) = k
<1> DEFINE T == {f[n] : n \in 1..k}
           g == [n \in 1..k |-> f[n]]
<1>1. g \in Bijection(1..k, T)
  BY DEF Bijection, Injection, Surjection, IsInjective
<1>2. ExistsBijection(1..k, T)
  BY <1>1 DEF ExistsBijection
<1>3. IsFiniteSet(1..k) /\ Cardinality(1..k) = k
  BY FS_Interval
<1>4. QED
  BY <1>2, <1>3, FS_Bijection

(* Cameras with ids that differ have as many ids.                          *)
LEMMA IdsDiffer ==
  ASSUME NEW cs, NEW k \in Nat, CamerasOf(cs, written, k), CamerasValid(cs)
  PROVE  Cardinality({written[<<n, <<"id">>>>] : n \in 1..k}) = k
<1> DEFINE f == [n \in 1..k |-> written[<<n, <<"id">>>>]]
<1>1. DOMAIN cs = 1..k
  BY DEF CamerasOf
<1>2. ASSUME NEW n \in 1..k
      PROVE  cs[n][<<"id">>] = Means("text", f[n])
  <2>1. CameraOf(n, written, cs[n]) /\ CameraValid(cs[n])
    BY <1>1 DEF CamerasOf, CamerasValid
  <2>2. <<"id">> \in DOMAIN cs[n]
    BY <2>1 DEF CameraValid, Get
  <2>3. QED
    BY <2>1, <2>2, IdIsText DEF CameraOf, Understood
<1>3. \A n, m \in 1..k : n # m => cs[n][<<"id">>] # cs[m][<<"id">>]
  BY <1>1 DEF CamerasValid
<1>4. \A n, m \in 1..k : f[n] = f[m] => n = m
  <2> HIDE DEF f
  <2>1. QED
    BY <1>2, <1>3
<1>5. {f[n] : n \in 1..k} = {written[<<n, <<"id">>>>] : n \in 1..k}
  OBVIOUS
<1> HIDE DEF f
<1>6. Cardinality({f[n] : n \in 1..k}) = k
  BY <1>4, DistinctCount
<1>7. QED
  BY <1>5, <1>6

(* A detector that may report nothing is refused.                          *)
LEMMA DetectionsPositive ==
  ASSUME Kept(written, flat.scalars, flat.lists), DetectorValid(FileSettings),
         <<0, <<"model", "max_detections">>>> \in DOMAIN written
  PROVE  written[<<0, <<"model", "max_detections">>>>] # <<"0">>
<1> DEFINE p == <<"model", "max_detections">>
<1>1. SUFFICES ASSUME written[<<0, p>>] = <<"0">> PROVE FALSE
  OBVIOUS
<1>2. p # <<"cameras">> /\ EndOf(p) = "max_detections"
  <2>1. Len(p) = 2 /\ Len(<<"cameras">>) = 1
    OBVIOUS
  <2>2. QED
    BY <2>1 DEF EndOf
<1>3. p \in DOMAIN FileKeys /\ FileKeys[p] = "count"
  BY DetectionsAreCounted
<1> HIDE DEF p
<1>4. EndOf(p) \notin ListKeys
  BY <1>2, ListKeysNamed DEF ListNames
<1>5. p \in DOMAIN flat.scalars /\ written[<<0, p>>] = <<flat.scalars[p]>>
  BY <1>2, <1>4 DEF Kept, p
<1>6. flat.scalars[p] = "0"
  BY <1>1, <1>5
<1>7. ~IsList("count") /\ Converted("count", "0") = 0
  BY DEF IsList, Converted, Number
<1>8. p \in DOMAIN FileSettings /\ FileSettings[p] = 0
  BY <1>3, <1>5, <1>6, <1>7 DEF KnownScalars, FileSettings
<1>9. Get(FileSettings, p, 100) > 0
  BY DEF DetectorValid, p
<1>10. QED
  BY <1>8, <1>9 DEF Get

(* What is accepted in a state of the readers can be used.                 *)
LEMMA UsableFollows == ReadersInv => AcceptedIsUsable
<1>1. SUFFICES ASSUME ReadersInv, Starts PROVE Usable
  BY DEF AcceptedIsUsable
<1>2. FileInv /\ FlatInv /\ MultiInv
  BY <1>1 DEF ReadersInv, Starts, Accepted
<1>3. /\ Kept(written, flat.scalars, flat.lists) /\ CamerasOf(multi.cameras, written, count)
      /\ count \in Nat
  BY <1>2 DEF FlatInv, MultiInv, FileInv
<1>4. CamerasValid(multi.cameras) /\ DetectorValid(FileSettings)
  BY <1>1 DEF Starts, Accepted, Valid
<1>5. <<0, <<"model", "max_detections">>>> \in DOMAIN written =>
        written[<<0, <<"model", "max_detections">>>>] # <<"0">>
  BY <1>3, <1>4, DetectionsPositive
<1>6. Cardinality({written[<<n, <<"id">>>>] : n \in 1..count}) = count
  BY <1>3, <1>4, IdsDiffer
<1>7. ASSUME NEW n \in 1..count
      PROVE  /\ Setting(n, <<"priority">>, 1) \in 1..16
             /\ Setting(n, <<"source", "queue_size">>, 1) \in 1..8
             /\ Setting(n, <<"control", "queue_size">>, 4) \in 1..32
             /\ Setting(n, <<"source", "reconnect_initial_ms">>, 250)
                  <= Setting(n, <<"source", "reconnect_max_ms">>, 10000)
             /\ Setting(n, <<"monitoring", "lost_frames">>, 10) > 0
             /\ Setting(n, <<"control", "auto_ptz", "enabled">>, "0") = "1" =>
                  Setting(n, <<"control", "type">>, "none") # "none"
  <2>1. CameraOf(n, written, multi.cameras[n]) /\ CameraValid(multi.cameras[n])
    BY <1>3, <1>4 DEF CamerasOf, CamerasValid
  <2>2. QED
    BY <2>1, CameraUsable
<1>8. QED
  BY <1>5, <1>6, <1>7 DEF Usable

(* Of any well formed file that load() and the detector accept, the cameras*)
(* have ids that differ and the settings the other modules assume          *)
(* (MultiCameraConfigParser.cpp:339, ConfigManager.cpp:268).               *)
THEOREM AcceptedSettingsAreUsable ==
  ASSUME WellFormed
  PROVE  Reading => []AcceptedIsUsable
<1>1. Reading => []ReadersInv
  BY ReadersInit, ReadersStep, PTL DEF Reading
<1>2. QED
  BY <1>1, UsableFollows, PTL
=============================================================================
