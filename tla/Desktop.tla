------------------------------- MODULE Desktop --------------------------------
(***************************************************************************)
(* apps/desktop/MainWindow.cpp and application/AppController.cpp: the      *)
(* buttons, the timer and the one pipeline behind them.  A handler of the  *)
(* window runs to its end on the GUI thread, but an error message runs the *)
(* event loop: the timer ticks on while it is shown.  Of the pipeline it   *)
(* keeps the capture thread's reads and the end of a run; DetectionPipeline*)
(* has the rest.  Between runs the source stays open until stop().         *)
(***************************************************************************)
EXTENDS FrameSources

CONSTANTS SourceKinds,      \* the kinds the buttons can choose
          MaxClicks

ASSUME DesktopAssumption == SourceKinds \subseteq Kinds /\ MaxClicks \in Nat

VARIABLES pipeline,   \* controller_'s: "none", "idle", "running", "ending", "ended"
          source,     \* the pipeline's source_
          broken,     \* the device gives nothing any more
          window,     \* modelPath_, hasSource_ and what the buttons allow
          dialog,     \* "none", or what happens when the message is closed
          clicks

desktop == <<pipeline, source, broken, window, dialog, clicks>>

SetRunningUi(w, running) == [w EXCEPT !.stop = running, !.open = ~running,
                                     !.refresh = w.hasSource /\ ~running]

DesktopInit ==
  /\ pipeline = "none" /\ source = NewSource("image") /\ broken = FALSE
  /\ window = [model |-> FALSE, hasSource |-> FALSE, stop |-> FALSE, open |-> TRUE,
               refresh |-> FALSE]
  /\ dialog = "none" /\ clicks = 0

IsRunning == pipeline \in {"running", "ending"}
Stopped(p) == IF p = "none" THEN p ELSE "idle"

Click == dialog = "none" /\ clicks < MaxClicks /\ clicks' = clicks + 1

ChooseModel == /\ Click /\ window.open
               /\ window' = [window EXCEPT !.model = TRUE]
               /\ UNCHANGED <<pipeline, source, broken, dialog>>

(* startSource gives up before it has a new pipeline; the old one stays.   *)
SourceRefused ==
  /\ Click /\ window.open
  /\ dialog' = "refused"
  /\ IF window.model THEN pipeline' = Stopped(pipeline) /\ source' = Closed(source)
     ELSE UNCHANGED <<pipeline, source>>
  /\ UNCHANGED <<window, broken>>

(* setPipeline and start(): the device is opened by the new source.        *)
StartFails(kind) ==
  /\ Click /\ window.open /\ window.model
  /\ pipeline' = "idle" /\ source' = Closed(NewSource(kind))
  /\ dialog' = "failed" /\ UNCHANGED <<window, broken>>
StartSource(kind) ==
  /\ Click /\ window.open /\ window.model
  /\ ~broken /\ source' = Opened(NewSource(kind), TRUE) /\ source'.opened
  /\ pipeline' = "running"
  /\ window' = SetRunningUi([window EXCEPT !.hasSource = TRUE], TRUE)
  /\ UNCHANGED <<broken, dialog>>

StopPipeline ==
  /\ Click /\ window.stop
  /\ pipeline' = Stopped(pipeline) /\ source' = Closed(source)
  /\ window' = SetRunningUi(window, FALSE)
  /\ UNCHANGED <<broken, dialog>>

(* Plausible bug: the window is left as it was.                            *)
RefreshQuietly ==
  /\ Click /\ window.refresh
  /\ \E there \in {~broken, FALSE} :
       LET s == Opened(Closed(source), there)
       IN /\ source' = s
          /\ pipeline' = IF s.opened THEN "running" ELSE "idle"
          /\ dialog' = IF s.opened THEN "none" ELSE "failed"
  /\ UNCHANGED <<window, broken>>
RefreshPipeline ==
  /\ Click /\ window.refresh
  /\ \E there \in {~broken, FALSE} :
       LET s == Opened(Closed(source), there)
       IN /\ source' = s
          /\ pipeline' = IF s.opened THEN "running" ELSE "idle"
          /\ dialog' = IF s.opened THEN "none" ELSE "failed"
          /\ window' = IF s.opened THEN SetRunningUi(window, TRUE) ELSE window
  /\ UNCHANGED broken

CloseDialog ==
  /\ dialog # "none" /\ dialog' = "none"
  /\ window' = IF dialog = "failed" THEN SetRunningUi(window, FALSE) ELSE window
  /\ UNCHANGED <<pipeline, source, broken, clicks>>

UpdateMetrics ==
  /\ ~IsRunning /\ window.stop
  /\ window' = SetRunningUi(window, FALSE)
  /\ UNCHANGED <<pipeline, source, broken, dialog, clicks>>

-----------------------------------------------------------------------------
(* The capture thread: a temporary error is tried again, the end of the    *)
(* stream and a fatal error end the run once the queues have drained.      *)
Capture ==
  /\ pipeline = "running"
  /\ \E r \in Reads(source, broken) :
       /\ source' = r.source
       /\ pipeline' = IF r.status \in {"end", "fatal"} THEN "ending" ELSE pipeline
  /\ UNCHANGED <<broken, window, dialog, clicks>>
Drained == /\ pipeline = "ending" /\ pipeline' = "ended"
           /\ UNCHANGED <<source, broken, window, dialog, clicks>>

Breaks == ~broken /\ broken' = TRUE /\ UNCHANGED <<pipeline, source, window, dialog, clicks>>

DesktopNext == \/ ChooseModel \/ SourceRefused \/ StopPipeline \/ RefreshPipeline
               \/ \E kind \in SourceKinds : StartFails(kind) \/ StartSource(kind)
               \/ CloseDialog \/ UpdateMetrics \/ Capture \/ Drained \/ Breaks

(* The threads are scheduled, the timer ticks and a message is closed some *)
(* day; nobody has to click and no device has to break.                    *)
DesktopSpec == /\ DesktopInit /\ [][DesktopNext]_desktop
               /\ WF_desktop(Capture) /\ WF_desktop(Drained)
               /\ WF_desktop(UpdateMetrics) /\ WF_desktop(CloseDialog)

-----------------------------------------------------------------------------
(* A pipeline that runs can be stopped, and no second one can be started   *)
(* over it: the buttons agree with the pipeline while the user may click.  *)
ButtonsTellPipeline ==
  dialog = "none" /\ IsRunning => window.stop /\ ~window.open /\ ~window.refresh

(* The window follows the life of its pipeline: it starts none over one    *)
(* that runs.                                                              *)
Follows == INSTANCE PipelineLife
          WITH status <- IF pipeline = "none" THEN "idle" ELSE pipeline
FollowsPipelineLife == Follows!Spec

(* A device that gives nothing any more does not keep its pipeline         *)
(* running: the row of failures becomes fatal.                             *)
DeadSourceIsGivenUp == <>[]broken => <>[]~IsRunning
=============================================================================
