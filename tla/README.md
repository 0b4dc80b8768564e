# OmniDetectCore in TLA+

Models of OmniDetectCore, from the queues between its threads to the service and
the window around them, the configurations that check them with TLC, and theorems
about them checked by TLAPS.  Paths are relative to
the repository.

## The system

An edge program reads several cameras, runs one detector over their frames,
tracks the detected objects per camera, reports events, and may steer PTZ
cameras.  Frames and results flow like this:

    source -> CameraSession (capture thread) -> frame queue -> InferenceService
           (one worker, drawing through the InferenceScheduler) -> ResultRouter's
           queue -> delivery thread -> CameraSession::processResult (tracker,
           monitor, Auto-PTZ) -> sinks and events
                                        Auto-PTZ -> CameraControlWorker -> camera

### Inventory

| Part | State it keeps | Operations | What makes it correct |
|---|---|---|---|
| Bounded queue `application/LatestValueQueue.h` | deque, closed flag, two wait sets | push, pop, tryPopLatest, clear, close, reset | capacity; order; no thread left asleep; close lets everybody go |
| Camera session `application/CameraSession.cpp` | running, state, generation (atomics), frame queue, tracker and monitor, counters, first-connection outcome | start, stop, restart, waitForInitialConnection, takeForInference, recordInferenceCompleted, processResult; capture loop with reconnects | results stay in their connection; a stopped session is quiet; state and counters tell the truth; calls return |
| Inference scheduler `application/InferenceScheduler.cpp` | cameras, cursor, version, running | addCamera, removeCamera, start, stop, notifyFrameAvailable, next | no frame stranded; bounded bypass by weight; stop wakes the worker |
| Inference service `application/InferenceService.cpp` | running, worker thread, counters | start, stop, worker loop | start and stop return; every result goes to its own session |
| Result router `application/ResultRouter.cpp` | queue, sinks, running, counters | addSink, start, stop, enqueue, delivery loop | sinks are consumed from only between their start and stop; counts add up |
| Camera manager `application/CameraManager.cpp` | session map | configure, addCamera, removeCamera, startAll, stopAll, restartCamera, sendManualControl | manager, scheduler and running threads agree on the cameras |
| Edge service `application/EdgeMonitoringService.cpp` | running, all of the above | start, stop, addCamera, removeCamera | failed start leaves nothing running; stop order camera, inference, router |
| Control worker `control/CameraControlWorker.cpp` | running, command queue, override time, counters | start, stop, enqueueAutomatic, enqueueManual, worker loop | camera is left stopped; manual goes before automatic; Stop before moves; newest command wins; rate |
| Auto-PTZ `control/AutoPtzController.cpp` | target, lock time, moving | update, reset | a camera set moving is told to stop |
| Monitors `core/monitoring/*Monitor.cpp` | object states | update, reset | detected, confirmed, lost in this order |
| Event engine `core/monitoring/EventEngine.cpp` | subscribers | subscribe, unsubscribe, publish | every subscriber of the snapshot is called |
| IoU tracker `core/tracking/ObjectTracker.cpp` | tracks, next id | update, reset | one detection per track; ids unique between resets |
| Detection pipeline `application/DetectionPipeline.cpp` | two queues, three threads, running, counters | addSink, start, stop, restart | drains at end of stream; stop returns |
| App controller `application/AppController.cpp` | one pipeline | setPipeline, start, stop, refresh | one pipeline runs |
| Configuration `config/*.cpp` | the lines read so far, two readers | load: flattenYaml, parseMultiCameraConfig, validate | each setting goes where it is written; what is accepted can be run |
| Frame sources `input/*.cpp` | open or not, failures in a row, position | open, read, close | one that gives nothing any more is given up |
| Desktop window `apps/desktop/MainWindow.cpp` | buttons, last source, message shown | the handlers of the buttons, the timer | the buttons agree with the pipeline |
| Edge program `apps/edge/main.cpp` | | its loop around the service | starts and stops from one thread |
| Detector, preprocessing, backends, control adapters, sinks, single-object monitor, tools | | | pixels, third-party libraries, devices: see "Not modelled" |

`PROJECT.json` lists each part with its status, and under `hazards` what is
hard to test in this code, at its line, with the property that covers it or the
reason why none does yet.

## Modules

| Module | What it is |
|---|---|
| `LossyChannel` | abstract: a channel that loses items but never invents, repeats or reorders them |
| `LatestValueQueueOps` | what `push` does to the deque and what erasing elements leaves (`Kept`), shared by the modules that own a queue or a list |
| `LatestValueQueue` | the queue with its mutex and two condition variables, any number of threads; implements `LossyChannel` |
| `LatestValueQueueOps_proofs`, `LatestValueQueue_proofs` | its theorems |
| `SessionLife` | abstract: what others rely on of a session, running from a start to its end or a stop, its frames taken only in between |
| `ControlLife` | abstract: what a session relies on of the worker of its camera's control, on from a start until a stop has joined its thread |
| `CameraSession` | one session with client, capture, inference and delivery threads; implements `SessionLife`, follows `ControlLife` |
| `CameraSession_proofs` | its theorems |
| `CameraControlWorker` | the PTZ worker with its client and callers; implements `ControlLife` |
| `CameraControlWorker_proofs` | its theorems |
| `InferenceScheduler` | the scheduler, the life cycle and loop of the inference service, and the capture threads' notifications |
| `InferenceScheduler_proofs` | its theorems |
| `PipelineLife` | abstract: what others rely on of a pipeline, running, draining and ended, or stopped |
| `DetectionPipeline` | the single-camera pipeline of the programs: three threads, two queues, start, stop and the end of the stream; implements `LossyChannel` from the source to the sinks, and `PipelineLife` |
| `DetectionPipeline_proofs` | its theorems, and those of the window in front of it (`Desktop`) |
| `ObjectLife` | abstract: what a subscriber may hear of one object, detected, confirmed, lost |
| `MultiObjectMonitor` | the monitor of one camera and its events; implements `ObjectLife` for every object |
| `ObjectTracking` | the IoU tracker: ageing, greedy matching, birth, labels, death |
| `AutoPtz` | the controller that turns the camera after a target |
| `CameraAnalysis` | `processResult` and `resetPerConnectionState`: tracker, monitor and Auto-PTZ composed |
| `CameraAnalysis_proofs` | theorems of the monitor alone, and of tracker and monitor together |
| `EdgeService` | the edge service with its camera manager, the life cycles of router, sinks, inference and sessions, and operators who change cameras meanwhile |
| `EdgeService_proofs` | its theorems, and those of the configuration it is started with (`ConfigReaders`) |
| `ConfigSchema` | the keys of a configuration, how values convert, the ranges accepted |
| `ConfigReaders` | the two readers of a file, line by line, against what the file says |
| `FrameSources` | open, read and close of every kind of source |
| `Desktop` | the window, the application controller and the pipeline as the window sees it |
| `MC*` | instances for TLC: model values, symmetry, the scenes and lines to choose from |

What composes what: `CameraSession` shows which results reach the tracker and
when it is reset, `CameraAnalysis` what they do there, `CameraControlWorker` what
becomes of the commands.

Three components see another one as a few states, and for each pair an abstract
module says what is promised between them.  `EdgeService` sees a session as
stopped, running or ended: `SessionLife`, which `CameraSession` implements (of
its threads, `SessionStatus` tells which of the three it is) and which
`EdgeService` keeps to for every one of its sessions (`FollowsSessionLife`).
`Desktop` sees a pipeline as idle, running, ending or ended: `PipelineLife`, which
`DetectionPipeline` implements (`PipelineStatus`) and `Desktop` keeps to
(`FollowsPipelineLife`).  `CameraSession` sees its control worker as off, on, or
lost when a stop waits for a thread that did not hear of it: `ControlLife`, which
`CameraControlWorker` implements (`ControlStatus`) and `CameraSession` keeps to
(`FollowsControlLife`).  All six are theorems.  They concern the states only; what
a component promises in a state are its own properties.

`ConfigSchema` gives the ranges other
modules assume of their constants.

### How code became actions

* **Code under a mutex** that does not wait is one action.  A wait on a condition
  variable is the action that goes to sleep and, after a notification or a
  spurious wake-up, the action that evaluates the predicate again.  Where the
  predicate reads an atomic that others change without the mutex
  (`CameraControlWorker.cpp:117`), looking and falling asleep are two steps
  (`WorkerFindsNothing`, `WorkerSleeps`).
* **Atomics** read or written outside a lock are steps of their own.  A function
  is then a row of actions ordered by a program point: `api` for the client's call
  (`StartNewGeneration`, `StartAnnounce`, `StartRun`, `StartControl`, `StartSpawn`
  are the lines 99, 100, 101, 102 and 110 of `CameraSession.cpp`, `StartSpawnFails`,
  `StopControl`, `StartFault` the way back of lines 111 to 116; `StopState`,
  `StopRetire`, `StopCloseQueue`, `StopControl`, `StopJoin` the lines 126, 127, 128,
  132, 133), `capture.at` for `captureLoop`,
  `worker.at` and `delivery.at` for the threads that call into the session.
  Definitions keep the names of the source where there is one.
* **Time** is abstracted to what guards test: a timed wait may end at any moment,
  an override is over or not, the next command is allowed or not, a camera is
  throttled or not.
* **Data** is abstracted to what the properties distinguish: a queued value is
  its rank; a frame its id, its stamped generation and the connection it was read
  from; the tracker and monitor the set of frames whose results they hold; a
  command its type, origin and rank.
* **The edge service**: each access to the session map (under its mutex) and to
  `running_` is a step, and so is each call into a session, the scheduler, a sink
  or a thread, so that two operators and the main thread interleave between any
  two of them.  A session lives while somebody holds it (`Held`); its destructor
  stops it, in the step that drops the last reference.
* **Analysis**: `processResult` runs under one mutex and is one step.  Boxes are
  squares with integer corners, so overlaps are exact fractions; scores are
  tenths.  `told` is what a subscriber makes of the events.
* **Configuration**: one step reads one line with both readers.  A line is its
  depth, dash, key and value.  `written` is what the file means, by indentation
  alone; the readers are compared with it.  Only well-formed files are read: no line is
  deeper than the headers above it, items stand one level below the header of a list
  and nothing else does, a header has the name of a list where, and only where, the
  place it stands has that list, `[1]` is given to lists only, and no setting twice.
  Lines with a `#`, a dash alone and lists at their header's own indentation are not
  among them ("Not modelled").
* **The window**: a handler runs to its end on the GUI thread, but an error message
  runs the event loop, so showing it and what follows its closing are two steps.
* **Failure** is a choice: opening the source or the adapter, creating a thread,
  executing a command and running the detector may fail; a read may be ready, a
  temporary error, the end of the stream or fatal.
* **Clients**: `start`, `stop` and `restart` of one object are called by one
  client at a time, which is how the programs under `apps/` call them.  In
  `EdgeService` operators call the other methods of the service at any time.
* **History variables** (`opens`, `advanced`, `retired`, `newest`, `attempted`,
  `passed`, `told`, `late`, `excused`, `written`) record the past for the
  properties and guard nothing but the bounds; `written` also keeps a file from
  giving one setting twice.

Definitions commented "Plausible bug" are no part of the models: each is a
mutant of a definition, named in `PROJECT.json`, that shows that a property can
fail.

`CameraSession` composes the frame queue and the router's queue as they are seen
from outside (one atomic operation per call, from `LatestValueQueueOps`): both
drop old values, so their producers never wait, and nobody pops the frame queue
with the waiting `pop`.  The router's queue belongs to all cameras, so
`OtherCameraEvicts` may drop a result at any time, and `Enqueue` may be refused.

## Runs

Every configuration names its bounds.  Times are those of two workers.

| Run | Question | Bounds | States, time |
|---|---|---|---|
| `MCLatestValueQueue` | nobody stranded, close, order; implements `LossyChannel` | either policy, 2 producers, 3 consumers, capacity 2, 5 values | 7k, seconds |
| `MCCameraSession_results` | isolation, order and counters of results | 2 starts, 3 connections, 2 frames, queues of 2 and 1, no control worker | 10.6M, 120 s |
| `MCCameraSession_calls` | stop and failed start, state and running; calls return, session ends Stopped | with and without a control worker, 2 starts, 2 connections, 1 frame, queues of 1 | 1.1M, 150 s |
| `MCCameraControlWorker` | order, override, final Stop, a paced worker finds a command; the newest command is sent | 2 callers, queue of 2, 3 commands, 2 starts | 1.3M, 110 s |
| `MCCameraControlWorker_lostwakeup` | finding 1 (a violation) | 1 command, 1 start | 1 s |
| `MCInferenceScheduler` | no frame stranded, bounded bypass, every frame is taken, calls return | 2 cameras of weight 2 and 1, 3 changes of the set, 2 starts | 671k, 110 s |
| `MCDetectionPipeline` | drains, bracketed resources, implements `LossyChannel`; calls return, the end of the stream is seen | either policy, queues of 2 and 1, 2 starts, 3 frames each, 2 sinks | 851k, 90 s |
| `MCCameraAnalysis` | events agree with the monitor, the monitor with the tracker, one detection of an object per result; implements `ObjectLife`; losses reported, turning released | 9 scenes, 2 object ids, limits of 1 and 2 | 16k, 36 s |
| `MCEdgeService` | everything given back, sinks ready, cameras started, map and scheduler agree | 2 cameras and a second object of the same id, 2 sinks, 2 operators, 2 calls, 2 starts | 3.1M, 180 s |
| `MCConfigReaders` | settings go where they are written, what is accepted can be run | 9 lines of 30 | 5.5M, 75 s |
| `MCConfigReaders_blankline` | finding 2 (a violation) | the same and a blank line | seconds |
| `MCDesktop` | buttons agree with the pipeline, a dead source is given up | 6 clicks, 3 kinds of source, 4 frame numbers | 1k, 1 s |

Why the bounds are enough:

* *Queue*: a notification has to be able to reach the wrong one of two sleepers,
  and a third thread to overtake the woken one; five values fill a queue of two,
  shed, and fill it again.
* *Session*: a stray result needs a frame under way in each of the worker's hand,
  the router's queue and the delivery thread while a connection, a stop or a start
  goes by; two starts and three connections give a reconnect on either side of a
  restart.  Two frames let one wait while another is in flight, and a frame queue of
  two skips one; that a full queue sheds is left to `MCLatestValueQueue` and the
  theorems, which hold for every size.  The calls go through every failure with one
  frame, which can be in any thread's hand when they do.
* *Control worker*: two callers race on the clock and the queue; three commands fill
  a queue of two and supersede or shed.
* *Scheduler*: weights 2 and 1 make slots differ from cameras; three changes add
  both cameras and remove one during a scan.
* *Pipeline*: three frames fill and overflow a queue of two while one more frame is
  in each thread's hand; two starts put a stop, a restart or a finished stream
  between two runs of the threads.
* *Analysis*: the scenes have no object, one in the middle, off it and far out, one
  that overlaps two places, two of a class in either order, one of too little
  confidence, one too near, one of the class with priority.  Limits of one and two
  are the smallest at which a counter is below, at and past its limit.
  Ids are those of two objects; a reset gives them out again.
* *Edge service*: two calls meet each other and each step of the main thread; a
  camera removed and added again is two objects with one id; a second start meets
  what the first left.
* *Configuration*: nine lines are two cameras with a nested section, a list and
  a setting of the file around them; `enabled` occurs in five places, `queue_size`
  and `lost_frames` in two.  Each check `Usable` speaks of has a line that
  fails it.
* *Desktop*: six clicks choose, start, stop, refresh and start another source.

The temporary-failure limit (5 in `CameraSession.cpp:370`) is a constant and set
to 2; a webcam's 30 failed reads are 3.

### Fairness

Weak fairness for each thread in what it is obliged to do: the threads are
scheduled by the operating system, a call of the source, the adapter or the
detector returns, a timed wait ends.  There is none for calls a client may or may
not make, for spurious wake-ups, or for frames to arrive.  Nothing needs strong
fairness: a thread that waits for `processingMutex_` cannot be passed for ever
(while the capture thread or the client waits there, no frame is read and the
delivery thread runs out of results), and the models where a lock is held across
steps check exactly this.  Nothing wakes a control worker that did not hear of its
stop (`ControlWakes` is not fair).  A driver whose `read` never returns
(`docs/architecture.md:28`) is outside this assumption.

In `CameraAnalysis` results keep coming and time passes, since both losses and
lost targets are counted by results: a camera that sends nothing any more is
reconnected, and the reset forgets its objects.  In `Desktop` the capture thread
runs, queues drain, the timer ticks and a message is closed some day; nobody has to
click and no device has to break.  A broken device is one whose reads give no
frame; one whose library throws at every read is temporary for ever, and
`FrameSources` says so.

### What the runs show

* The queue strands nobody although it wakes one waiter per value or place.
* The generation, checked a second time under the mutex, keeps results of an old
  connection out of the tracker across every reconnect, and stop keeps the session
  quiet.  A restart it does not protect altogether: `stop()` advances the
  generation (127) before it closes the queue (128), so a frame may be stamped in
  between with a generation that stays current.  It may enter the tracker after the
  reset of line 139, and, since `start()` resets the tracker (73) before it advances
  the generation again (99), also after that.  `TrackerIsolation` says what remains
  true: such a result is from that very stop, and gone before a second connection.
* `state()` and `running()` are truthful at every step of `start`, `stop` and the
  capture loop, with one window: from line 101 of `start()` until the capture thread
  is created (110) or its creation fails (112), while the adapter of the control is
  opened, `running()` is true and no thread exists.  A start that fails gives the
  control back.
* `start`, `stop` and `restart` return, and a session told to end says Stopped,
  unless the stop of the control worker (132) waits for a thread that did not hear of
  it (finding 1); nothing else can keep them.
* The counters are truthful but for what the inference worker holds when a restart
  zeroes them, which is counted in the new start (at most one frame as inferred, one
  queue as skipped and scheduled).
* A camera under control is told to stop last, and no automatic command waits
  during an override although the clock is read before the lock.
* The scheduler's version counter catches each frame that arrives during a scan;
  weighted round robin bounds how often a camera is passed over between two changes
  of the set of cameras; across changes no frame waits for ever.
* A pipeline whose stream ends delivers or counts every frame before `isRunning()`
  turns false, with either queue policy; `stop()` gets its three threads back
  however they wait for each other.
* Events agree with what the monitor holds, a confirmed object that leaves is
  reported lost, and no new track is taken for an old object, since tracker and
  monitor are reset together.  A reset tells subscribers nothing: the objects it
  forgets are not reported lost.
* Auto-PTZ stops a camera whose target has left.  A camera that is turning when its
  connection is reset is forgotten (`camera = "abandoned"`): `reset()` sends no Stop.
* However a start of the edge service fails, and whatever operators do meanwhile,
  what was started is given back, and the map, the scheduler and the running
  sessions agree once calls have returned.  Two exceptions are the code's: a camera
  added while `start()` is on its way may remain unstarted (`excused`), and one added
  or restarted beside `stop()` may remain running (`late`), as `isRunning()` is read
  once (`EdgeMonitoringService.cpp:83`) or not at all.  The router may also be given
  a frame of a session that has been stopped by then, one stamped while `stop()` ran
  or recorded before it.
* The two readers of a configuration together take every well-formed file as it is
  meant, and what they and the detector accept satisfies the assumptions of the
  other modules.  A count of -1 wraps to a large number and is accepted.
* The window's buttons agree with its pipeline although messages run the event loop.

### Findings

1. `CameraControlWorker::stop` changes `running_` and notifies without the mutex
   (lines 46 and 48).  If both fall between the worker's look at its predicate and
   its sleep, the notification is lost and the join never returns (run
   `MCCameraControlWorker_lostwakeup`); `docs/performance.md:37` requires shutdown
   without deadlock.
2. A line of white space that begins with a tab, or is the rest of an empty line
   with a CRLF end, ends the cameras block (`MultiCameraConfigParser.cpp:324`): the
   cameras after it are dropped and the configuration is accepted (run
   `MCConfigReaders_blankline`).  The other reader ignores such a line
   (`ConfigManager.cpp:84`).  `docs/configuration.md:3` says the parser supports
   what the sample file needs, and the sample has an empty line between its cameras.

Two more disagreements are stated by what the passing runs check rather than by a
counterexample of their own:

* `CameraSession::start` resets the tracker and the monitor (73-78) before it
  advances the generation (99).  The steps: a client stops the session; after line 127
  the capture thread stamps a frame (341) and pushes it before the queue is closed
  (128); the inference worker takes it; `stop()` ends and the next `start()` passes
  line 78; the result passes both checks of `processResult` (216, 219), since the
  generation has not changed; and it enters the tracker of the new session, which
  keeps it until the next reset.  `docs/architecture.md:15` says that a result cannot
  go over to a new camera session.  `TrackerIsolation` admits this result and no other.
* `monitoring.lost_frames: -1` is read into an unsigned number, wraps and passes the
  check for zero (`MultiCameraConfigParser.cpp:202`, `ConfigManager.cpp:363`), so the
  camera's objects are never reported lost, although the message of
  `ConfigManager.cpp:326` says that thresholds must be greater than zero.  `Usable`
  asks that the threshold is not zero, and no more.

## Proofs

`tlapm` checks every theorem for all values of the constants, under the named
assumptions of the modules (positive capacities, finite disjoint sets of threads,
natural bounds).

**Queue** (`LatestValueQueue_proofs`).  `NoValueStranded` and `NoSpaceStranded`
are not inductive: a woken thread may find its predicate false again only if the
values shrank meanwhile, which needs the order and bound of the queue, and a
producer must not be counted as a consumer.  The invariant is
`QueueInv == DataInv /\ WakeInv`, capacity and order of the data, and the three
statements on sleepers.  Lemmas on `Shed` and `PushLatest` are in
`LatestValueQueueOps_proofs` and serve the session as well.  `ImplementsChannel` follows step by step from the invariant: each action is a
`Send`, `Receive` or `Lose` of the channel, or a stutter, with the queue's
elements as what is pending.

**Session** (`CameraSession_proofs`).  `TrackerIsolation` speaks of the tracker,
but what breaks it may be anywhere on the way of a frame, so
`SessionInv` follows every frame: no stamp is newer than the generation
(`PastInv`); a frame about to be stamped was read from the present connection
(`StampInv`); a frame that would pass the check is of the present connection, there
is none between two connections or while a session is being launched, and from line
127 of a stop to the next start its stamp is from that stop (`CurrentInv`); what is past the
check is of the present connection, or from the last stop and one connection old
(`SettledInv`); what may be left when no capture thread exists (`QuietInv`); where the
client, the capture thread and the control worker can be at once, and what `state` and
`running` are there (`ControlInv`); who holds the mutex (`LockInv`).  Its proof has a
lemma per conjunct and per thread; footprint lemmas say what each action leaves alone.
`ResultsInOrder` needs `OrderInv`: the queues rise, and every stage, from the tracker
back to the source, holds later frames than the one before it.
`CountersConsistent` needs `CountInv`: a frame is counted while it is in somebody's
hand, so the sums hold with what the capture thread and the worker hold counted in
(`TallyInv`); a restart zeroes the counters while one `takeForInference` may be under
way, and may count what it took before (`HandInv`); and before the first start the
worker has nothing (`FreshInv`).

**Control worker** (`CameraControlWorker_proofs`).  Four safety properties and
that nothing waits in front of a Stop (`StopsComeFirst`, proved only) follow from one
invariant, `WorkerInv`.  Each of them is about the queue or the
adapter but depends on what somebody holds outside the mutex.
`PlacesInv` says where client and thread can be at once; `AdapterInv` when the
adapter is open, and that without a thread it was last told to stop; `LastAskedInv`
that the last command accepted is the last one waiting, in the worker's hand or
executed; `OverrideInv` that no caller that will be let in read the clock before the
override began.  What a push makes of the queue (erasing, putting a stop alone in
it, dropping the oldest) is one lemma, `Inserted`, from `KeptFacts` and `PushFacts`.

**Scheduler** (`InferenceScheduler_proofs`).  `NoFrameStranded` holds because of the
version: the invariant `SleepInv` says that while the version has not moved since
the scan began, a waiting frame is about to be notified of, has been seen, or lies in
a slot the scan has not looked at (`Unlooked`); a scan visits every slot wherever it
starts (`RoundIsComplete`).  `BoundedBypass` needs the distance to a camera's next
slot: its slots stand in one block (`SlotsFacts`, by induction over the list), `Gap`
counts the slots from the cursor to that block, and `TurnInv` says that a camera
passed over is still ready and that its count and its gap together stay below the
slots of the others.  `GapShrinks` is the step of one slot, `GapAfterAnother` the
return to the longest gap.

**Edge service** (`EdgeService_proofs`).  `start` undoes from any point what it did,
while operators add, stop and remove cameras between two of its steps.  So `EdgeInv`
says by the main thread's point which parts are up and that the pipes are empty when
they are not (`PipesInv`, `SinksInv`); what an operator holds and that a session lives
exactly as long (`HoldInv`, `AddedInv`, `RemovedInv`, `ScheduledInv`); and who answers
for a session that runs outside of `start` and `stop` (`LeftInv`, `UnscheduledInv`) or is
stopped in a service that is up (`StartedInv`): the operator that holds or started it,
or the main thread, which has still to stop or start it.

**Configuration** (`EdgeService_proofs`, last section, since it is what that service
is started with).  For files of any length over any set of lines that are records
and not blank (`WellFormed`; a blank line is finding 2).  `ReadersInv` has three parts.
`FileInv` is about what is written so far.  `FlatInv` says that `flattenYaml` keeps
outside of the cameras block exactly what is written there, that its stack of parents
is the headers the last line is below (`Chain`), and that a list it is adding to is the
one that stands open.  `MultiInv` says, while the other reader has refused nothing,
that it is inside the block when the file is, that each camera it has holds what is
written of it, and that its section and pending list are those of the headers above
(`Following`).  Each line is taken through all three (`FileStep`, `FlatStep`,
`MultiStep`, with a lemma for each kind of line and place).  The facts about the
tables of keys, such as that a list is never a section, are checked key by key
(`CameraRows`, `FileRows`).  `AcceptedIsUsable` then follows from the ranges of
`validate()` and of the detector, read from where the settings were put.

**Pipeline** (`DetectionPipeline_proofs`).  `PipelineInv` relates the client's program
point to the threads that exist (`JoinedInv`) and to what is open (`UseInv`); until
`stop` interrupts the run, what a stage counted has been counted by the next,
dropped, or is on its way between them (`CountInv`), and a closed queue means that
the thread before it has ended (`EndInv`).  `DrainsAtEnd` is those sums when queues
and hands are empty.  `OrderInv`, the order of the frames from the sinks back to the
first queue, gives the refinement of the channel.

**Window** (`DetectionPipeline_proofs`, last section).  `ButtonsTellPipeline` needs
that no message is shown while the pipeline runs (`WindowInv`): a message follows a
start that failed or was refused, neither of which leaves the pipeline running, and no
click gets through until it is closed.  Start and stop are never offered together, so
start is not offered over a pipeline that runs.

**Composition.**  `SessionImplementsLife` needs of `SessionInv` that no frame waits when
`stop()` has returned (`QuietInv`) and that a thread is joined only after its end
(`ControlInv`).  `ServiceFollowsSessionLife` reads off each step of the service what it
does to one session (`SessionMoves`): the worker takes frames of scheduled sessions
that are not stopped, and a session whose last holder lets it go is stopped by its
destructor.  `PipelineImplementsLife` needs `EndInv`: when the delivery thread clears
`running_` without a `stop`, inference and capture have ended, so nothing that runs
is reported as over.  `WindowFollowsPipeline` needs `WindowInv`.
`WorkerImplementsLife` needs to know when a thread exists (`PlacesInv`): the worker is
lost from the moment its thread goes to sleep after the notification of its stop
until something else wakes it.
`SessionFollowsControl` needs that a start finds the worker off (`ControlInv`), which
holds as a failed start stops it.

**Analysis** (`CameraAnalysis_proofs`).  The monitor alone: `EventsTellPresence` needs
that of a candidate the last word was that it was detected (`CandidatesTold`), and
with it each update is a step of `ObjectLife` for every object.  With the tracker:
the choice of the best overlap exists, because overlaps compared as fractions are an
order (`OverlapsAreOrdered`, `BestIsCandidate`); by induction over the detections of a
result the old tracks keep place and id and age by one at most, and a label belongs
to a track just seen (`Updated`), which no other detection has taken (`Unique`);
erasing keeps the young ones (`KeptHas`) and the ids apart (`KeptOnce`).  So what the
tracker shows the monitor are objects with a fresh track, each shown once, and
`AnalysisInv` is kept.  `LabelsAreUnique` is also why the monitor may be modelled
with a set of ids: the code counts detections.  The steps of the composition are
steps of the monitor, and the theorems about it alone hold in the session.

Induction: the library's theorem takes a formula as a parameter, which the installed
provers cannot instantiate, so `LatestValueQueueOps_proofs` proves the same for a set
of numbers (`LeastNumber`, from the well-foundedness of finite sets; `InductionOnSet`).
With it facts about functions defined by recursion are proved for sequences of any
length: first that the function exists (`PartExists`, `FlattenedExists`), then what it
gives (`KeptFacts`, `KeptOnce`, `KeptHas`, by `InductionOnKept`; `SlotsFacts`;
`TrackerFacts`).

Proved: the type invariants of the queue, session, control worker, scheduler, edge
service and pipeline; every safety invariant and every property of steps that a run
checks; the refinements of `LossyChannel`, `ObjectLife`, `SessionLife`, `PipelineLife`
and `ControlLife` (see `theorems` in `PROJECT.json`).  The three lives, the
order of stops and the step from analysis to monitor are proved only; for the others
a run shows the property on an instance.

Only model-checked: liveness, which is out of the prover's reach (calls return,
streams end, every frame is taken, the newest value and command arrive, losses are
reported, turning is released, a dead source is given up); and the two findings,
which are counterexamples.

## Not modelled, and why

* *Arithmetic on pixels and tensors*: preprocessing, the detector's decoding and the
  suppression of overlapping boxes, floating point throughout.  Of the detector
  `ConfigSchema` has its validation.
* *Third-party libraries and devices*: inference backends, ONVIF and V4L2 adapters,
  MQTT, recording, drawing.  The models see the outcomes they can have.
* *Single-object and kite monitors*: sequential counters of the single-camera
  pipeline.  *Event engine*: the programs subscribe before the threads start.
* *Rates and back-off lengths, latency statistics, event texts, logging*: no property
  is about them.
* *Several clients calling start and stop of one object at once*: the programs do
  not.  In `EdgeService` two calls of one session follow one another.
* *What stop of a session waits for, in `EdgeService`*: there it returns, so that a
  control worker that keeps it (finding 1) keeps the service as well is said by
  `ControlLife` and not modelled again.
* *Comments and malformed configurations*: `flattenYaml` cuts a line at any `#`, also
  at one in quotes (`ConfigManager.cpp:82`), the other reader only at one that begins a
  comment (`MultiCameraConfigParser.cpp:32`); a dash alone begins a camera for that
  reader (331), whose keys may follow; both take a list at its header's own indentation.
  None of these lines is among those read.  Odd indentation and lines without a colon are
  refused by both readers; list headers below sections that do not have them, other
  headers with the name of a list, and a setting given twice have no stated meaning.
* *Command line, signals, metrics printed, tools and deployment files.*

Known and outside the models: `CameraSession::stop` notifies the back-off wait
without its mutex (line 129), so it may sleep out one reconnect delay, and a
camera command accepted while the worker stops may be sent after a restart
(`CameraControlWorker.cpp:68`); the models contain both, as a timed wait that ends
at any moment and as a late command, and nothing in the repository forbids either.
The window shows results that were queued before a stop (`MainWindow.cpp:226`), and
its queue of results has no bound (`QtWindowSink.cpp:6`).

## Plan

1. `ObjectMonitor`, as `ObjectLife` of a single object, in the pipeline's delivery
   thread; `EventEngine` with subscriptions that change.
2. Suppression of overlapping boxes over an abstract overlap relation.
3. The ONVIF and V4L2 adapters' open, execute and close as a refinement of what the
   control worker assumes.
