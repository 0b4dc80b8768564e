----------------------------- MODULE FrameSources -----------------------------
(***************************************************************************)
(* input/: the frame sources behind IFrameSource, one object of the kind   *)
(* createFrameSource gave it.  What the device or the library answers is   *)
(* free: it may be absent, fail now and again, or fail for ever (broken).  *)
(***************************************************************************)
EXTENDS Integers

CONSTANTS FailureLimit,     \* [Counting -> Nat]: failed reads in a row that are fatal
          MaxNumber         \* bound on the frame numbers

Counting == {"webcam", "rtsp"}
Kinds == Counting \cup {"video", "loop", "libcamera", "image", "camera_id"}

ASSUME SourcesAssumption == FailureLimit \in [Counting -> Nat \ {0}] /\ MaxNumber \in Nat \ {0}

(* createFrameSource and the constructors: a video with loop is a kind of  *)
(* its own, a camera id gets no adapter.                                   *)
NewSource(kind) == [kind |-> kind, opened |-> FALSE, failures |-> 0, delivered |-> FALSE, sent |-> 0]

Closed(s) == IF s.kind = "camera_id" THEN s
             ELSE [s EXCEPT !.opened = FALSE, !.failures = 0, !.delivered = FALSE]

(* open(): what it may leave, by whether the device or file is there.      *)
Opened(s, there) ==
  IF s.kind = "camera_id" \/ ~there THEN Closed(s)
  ELSE [Closed(s) EXCEPT !.opened = TRUE, !.sent = 0]

Returns(status, s) == [status |-> status, source |-> s]
Frame(s) == Returns("ready", [s EXCEPT !.failures = 0, !.sent = IF @ < MaxNumber THEN @ + 1 ELSE @])

(* Plausible bug: only the frame that stops counting is told from success. *)
MissForgets(s) ==
  CASE s.kind \in Counting   -> Returns(IF s.failures + 1 >= FailureLimit[s.kind] THEN "fatal" ELSE "temporary", s)
    [] s.kind = "libcamera"  -> Returns("temporary", s)
    [] s.kind = "video"      -> Returns("end", s)
    [] OTHER                 -> Returns("fatal", s)

(* A read that gives no image.  A video at its end begins again only with  *)
(* loop, and the second read of a loop may fail as well.                   *)
Miss(s) ==
  CASE s.kind \in Counting   ->
         LET n == s.failures + 1
         IN Returns(IF n >= FailureLimit[s.kind] THEN "fatal" ELSE "temporary",
                    [s EXCEPT !.failures = IF n > FailureLimit[s.kind] THEN @ ELSE n])
    [] s.kind = "libcamera"  -> Returns("temporary", s)
    [] s.kind = "video"      -> Returns("end", s)
    [] OTHER                 -> Returns("fatal", s)

(* read(): also an unsupported pixel format, which ends a row of failures, *)
(* and an exception of the library, which does not.                        *)
ReadImage(s) == IF s.delivered THEN Returns("end", s)
                ELSE Returns("ready", [s EXCEPT !.delivered = TRUE, !.sent = 1])
Reads(s, broken) ==
  IF ~s.opened THEN {Returns("fatal", s)}
  ELSE IF s.kind = "image" THEN {ReadImage(s)}
  ELSE {Miss(s)} \cup IF broken THEN {}
                      ELSE {Frame(s), Returns("temporary", [s EXCEPT !.failures = 0]), Returns("temporary", s)}
=============================================================================
