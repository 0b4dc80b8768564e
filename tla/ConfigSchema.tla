----------------------------- MODULE ConfigSchema -----------------------------
(***************************************************************************)
(* What a configuration may say: the keys ConfigManager::load and the      *)
(* assign... functions of MultiCameraConfigParser.cpp know, how each value *)
(* is converted, and the ranges ConfigManager::validate accepts.  A value  *)
(* is the word written in the file; fractions count in hundredths.         *)
(***************************************************************************)
EXTENDS Integers, Sequences, FiniteSets

CONSTANTS Wrapped,    \* what a negative number becomes in an unsigned field
          Files       \* the paths that exist

ASSUME SchemaAssumption == Wrapped \in Nat /\ Wrapped > 10000

(* A section is the path of its header below the file or below the camera. *)
(* A table is the set of rows <<path, what it says of the setting there>>. *)
Rows(section, keys, entry) == {<<Append(section, k), entry>> : k \in keys}
Lookup(table) == [p \in {row[1] : row \in table} |-> (CHOOSE row \in table : row[1] = p)[2]]

CameraTable ==
     Rows(<<>>, {"id"}, "text") \cup Rows(<<>>, {"enabled"}, "flag")
  \cup Rows(<<>>, {"priority"}, "int") \cup Rows(<<"source">>, {"type"}, "source")
  \cup Rows(<<"source">>, {"uri", "path", "device"}, "text")
  \cup Rows(<<"source">>, {"width", "height", "startup_timeout_ms", "reconnect_initial_ms",
                           "reconnect_max_ms"}, "int")
  \cup Rows(<<"source">>, {"capture_fps", "inference_fps"}, "real")
  \cup Rows(<<"source">>, {"loop"}, "flag") \cup Rows(<<"source">>, {"queue_size"}, "count")
  \cup Rows(<<"tracking">>, {"enabled"}, "flag") \cup Rows(<<"tracking">>, {"minimum_iou"}, "real")
  \cup Rows(<<"tracking">>, {"max_lost_frames", "minimum_hits"}, "count")
  \cup Rows(<<"monitoring">>, {"enabled"}, "flag")
  \cup Rows(<<"monitoring">>, {"minimum_confidence"}, "real")
  \cup Rows(<<"monitoring">>, {"confirmation_frames", "lost_frames"}, "count")
  \cup Rows(<<"monitoring">>, {"target_classes"}, "names")
  \cup Rows(<<"monitoring">>, {"target_class_ids"}, "numbers")
  \cup Rows(<<"control">>, {"enabled"}, "flag") \cup Rows(<<"control">>, {"type"}, "control")
  \cup Rows(<<"control">>, {"endpoint", "profile_token", "username", "password"}, "text")
  \cup Rows(<<"control">>, {"timeout_ms", "manual_override_ms"}, "int")
  \cup Rows(<<"control">>, {"queue_size"}, "count")
  \cup Rows(<<"control">>, {"max_commands_per_second"}, "real")
  \cup Rows(<<"control", "auto_ptz">>, {"enabled"}, "flag")
  \cup Rows(<<"control", "auto_ptz">>, {"dead_zone", "hysteresis", "gain", "max_speed",
                                        "target_box_ratio", "zoom_dead_band", "switch_margin"},
                                        "real")
  \cup Rows(<<"control", "auto_ptz">>, {"command_interval_ms", "target_hold_ms",
                                        "lost_timeout_ms"}, "int")
  \cup Rows(<<"control", "auto_ptz">>, {"priority_classes"}, "numbers")

FileTable ==
     Rows(<<"model">>, {"path", "weights_path"}, "text") \cup Rows(<<"model">>, {"type"}, "model")
  \cup Rows(<<"model">>, {"input_size", "input_width", "input_height"}, "int")
  \cup Rows(<<"model">>, {"confidence", "iou"}, "real")
  \cup Rows(<<"model">>, {"max_detections"}, "count")
  \cup Rows(<<"model">>, {"output_layout"}, "layout")
  \cup Rows(<<"model">>, {"classes", "class_names"}, "names")
  \cup Rows(<<"model">>, {"class_whitelist", "class_blacklist"}, "numbers")
  \cup Rows(<<"inference">>, {"backend", "input_name", "weights_path", "scheduler"}, "text")
  \cup Rows(<<"inference">>, {"threads", "max_frame_age_ms"}, "int")
  \cup Rows(<<"inference">>, {"worker_count"}, "count")
  \cup Rows(<<"inference">>, {"max_total_fps"}, "real")
  \cup Rows(<<"inference">>, {"vulkan"}, "flag")
  \cup Rows(<<"inference">>, {"output_names"}, "names")
  \cup Rows(<<"application">>, {"fail_fast"}, "flag") \cup Rows(<<"source">>, {"type"}, "source")
  \cup Rows(<<"source">>, {"path", "uri", "id", "device"}, "text")
  \cup Rows(<<"source">>, {"width", "height"}, "int") \cup Rows(<<"source">>, {"fps"}, "real")
  \cup Rows(<<"source">>, {"loop"}, "flag")
  \cup Rows(<<"pipeline">>, {"frame_queue_size", "result_queue_size"}, "count")
  \cup Rows(<<"pipeline">>, {"drop_old_frames"}, "flag")
  \cup Rows(<<"tracking">>, {"enabled"}, "flag") \cup Rows(<<"tracking">>, {"minimum_iou"}, "real")
  \cup Rows(<<"tracking">>, {"max_lost_frames"}, "count")
  \cup Rows(<<"monitoring">>, {"enabled"}, "flag")
  \cup Rows(<<"monitoring">>, {"minimum_confidence"}, "real")
  \cup Rows(<<"monitoring">>, {"confirmation_frames", "lost_frames"}, "count")
  \cup Rows(<<"monitoring">>, {"target_classes"}, "names")
  \cup Rows(<<"output">>, {"window", "recorder", "mqtt"}, "flag")
  \cup Rows(<<"output">>, {"image_path", "recording_path"}, "text")
  \cup Rows(<<"logging">>, {"level"}, "text")

CameraKeys == Lookup(CameraTable)
FileKeys   == Lookup(FileTable)

IsList(kind) == kind \in {"names", "numbers"}

SourceTypes == {"image", "webcam", "v4l2", "video", "camera_id", "rtsp", "libcamera", "csi"}

(* parseNumber: an unsigned field takes a minus sign and wraps.            *)
Number == [w \in {"-1", "0", "1", "65"} |->
             CASE w = "-1" -> -1 [] w = "0" -> 0 [] w = "1" -> 1 [] w = "65" -> 65]

(* The conversion of one value; legacy is whether load or a camera's       *)
(* assign... function does it.                                             *)
Converts(kind, w, legacy) ==
  CASE kind \in {"int", "count", "real"} -> w \in DOMAIN Number
    [] kind = "flag"    -> w \in {"0", "1"}
    [] kind = "source"  -> w \in SourceTypes \ (IF legacy THEN {"v4l2", "csi"} ELSE {})
    [] kind = "control" -> w \in {"none", "onvif", "v4l2"}
    [] kind = "model"   -> w \in {"yolo26", "yolo26n"}
    [] kind = "layout"  -> w \in {"auto", "xyxy_score_class", "center_xywh_class_scores"}
    [] OTHER            -> TRUE
Converted(kind, w) ==
  CASE kind = "count" -> IF w = "-1" THEN Wrapped ELSE Number[w]
    [] kind = "int"   -> Number[w]
    [] kind = "real"  -> 100 * Number[w]
    [] OTHER          -> w
ListConverts(kind, ws) == kind = "names" \/ \A i \in DOMAIN ws : ws[i] \in DOMAIN Number

Unsigned == 0 .. Wrapped
Positive == 1 .. Wrapped
Weights  == 1 .. 16
Frames   == 1 .. 8       \* in a camera's queue
Buffered == 1 .. 64      \* in a queue of the pipeline
Commands == 1 .. 32      \* in the queue of a camera control
Rate     == 1 .. 10000
OptionalRate == 0 .. 10000
Fraction == 0 .. 100
PositiveFraction == 1 .. 100
DeadZone == 0 .. 99

(* The ranges of validate, where one field stands alone.                   *)
CameraRanges ==
     Rows(<<>>, {"priority"}, Weights) \cup Rows(<<"source">>, {"queue_size"}, Frames)
  \cup Rows(<<"source">>, {"capture_fps"}, OptionalRate)
  \cup Rows(<<"source">>, {"inference_fps"}, Rate)
  \cup Rows(<<"source">>, {"width", "height", "startup_timeout_ms", "reconnect_initial_ms"},
                           Positive)
  \cup Rows(<<"tracking">>, {"minimum_iou"}, Fraction)
  \cup Rows(<<"tracking">>, {"minimum_hits"}, Positive)
  \cup Rows(<<"monitoring">>, {"confirmation_frames", "lost_frames"}, Positive)
  \cup Rows(<<"monitoring">>, {"minimum_confidence"}, Fraction)
  \cup Rows(<<"control">>, {"queue_size"}, Commands)
  \cup Rows(<<"control">>, {"timeout_ms", "max_commands_per_second"}, Positive)
  \cup Rows(<<"control", "auto_ptz">>, {"dead_zone", "zoom_dead_band"}, DeadZone)
  \cup Rows(<<"control", "auto_ptz">>, {"max_speed", "target_box_ratio"}, PositiveFraction)
  \cup Rows(<<"control", "auto_ptz">>, {"gain", "command_interval_ms", "lost_timeout_ms"}, Positive)
  \cup Rows(<<"control", "auto_ptz">>, {"hysteresis", "target_hold_ms", "switch_margin"}, Unsigned)

FileRanges ==
     Rows(<<"model">>, {"input_width", "input_height"}, Positive)
  \cup Rows(<<"model">>, {"confidence", "iou"}, Fraction)
  \cup Rows(<<"inference">>, {"threads", "max_frame_age_ms"}, Positive)
  \cup Rows(<<"inference">>, {"worker_count"}, {1})
  \cup Rows(<<"inference">>, {"max_total_fps"}, Unsigned)
  \cup Rows(<<"inference">>, {"scheduler"}, {"round_robin"})
  \cup Rows(<<"pipeline">>, {"frame_queue_size", "result_queue_size"}, Buffered)
  \cup Rows(<<"monitoring">>, {"confirmation_frames", "lost_frames"}, Positive)
  \cup Rows(<<"logging">>, {"level"}, {"trace", "debug", "info", "warning", "error", "critical"})

CameraRange == Lookup(CameraRanges)
FileRange   == Lookup(FileRanges)

(* A setting that is not in the file keeps its default; of the defaults    *)
(* only those another field is compared with matter.                       *)
Defaults == [enabled |-> "0", type |-> "webcam", control |-> "none",
             hysteresis |-> 2, dead_zone |-> 10,
             reconnect_initial_ms |-> 250, reconnect_max_ms |-> 10000, manual_override_ms |-> 3000]
Get(c, p, default) == IF p \in DOMAIN c THEN c[p] ELSE default

InRange(c, range) == \A p \in DOMAIN c \cap DOMAIN range : c[p] \in range[p]

SourceValid(c) ==
  LET type == Get(c, <<"source", "type">>, Defaults.type)
  IN /\ type \in {"image", "video"} => Get(c, <<"source", "path">>, "") \in Files
     /\ type = "rtsp" => Get(c, <<"source", "uri">>, "") = "rtsp://"

ControlValid(c) ==
  LET on(p)    == Get(c, p, Defaults.enabled) = "1"
      type     == Get(c, <<"control", "type">>, Defaults.control)
      endpoint == Get(c, <<"control", "endpoint">>, "")
  IN /\ on(<<"control", "enabled">>) =>
          /\ type # "none"
          /\ type = "onvif" => endpoint # ""
          /\ type = "v4l2" => \/ endpoint # ""
                              \/ Get(c, <<"source", "device">>, "0") \notin DOMAIN Number
          /\ Get(c, <<"control", "manual_override_ms">>, Defaults.manual_override_ms) >= 0
          /\ Get(c, <<"control", "profile_token">>, "Profile_1") # ""
     /\ on(<<"control", "auto_ptz", "enabled">>) => on(<<"control", "enabled">>)
     /\ Get(c, <<"control", "auto_ptz", "hysteresis">>, Defaults.hysteresis)
          <= Get(c, <<"control", "auto_ptz", "dead_zone">>, Defaults.dead_zone)

ReconnectValid(c) == Get(c, <<"source", "reconnect_initial_ms">>, Defaults.reconnect_initial_ms)
                       <= Get(c, <<"source", "reconnect_max_ms">>, Defaults.reconnect_max_ms)

CameraValid(c) == /\ Get(c, <<"id">>, "") # ""
                  /\ InRange(c, CameraRange) /\ ReconnectValid(c)
                  /\ SourceValid(c) /\ ControlValid(c)

(* Plausible bug: each camera is looked at for itself.                     *)
CamerasValidApart(cameras) == \A i \in DOMAIN cameras : CameraValid(cameras[i])
CamerasValid(cameras) ==
  /\ \A i \in DOMAIN cameras : CameraValid(cameras[i])
  /\ \A i, j \in DOMAIN cameras : i # j => cameras[i][<<"id">>] # cameras[j][<<"id">>]

(* validate(): the single source counts only in a file without cameras.    *)
Valid(file, cameras) ==
  LET device == Get(file, <<"source", "device">>, "0")
  IN /\ InRange(file, FileRange)
     /\ \/ Get(file, <<"model", "input_size">>, 416) > 0
        \/ {<<"model", "input_width">>, <<"model", "input_height">>} \subseteq DOMAIN file
     /\ Get(file, <<"model", "path">>, "") \in Files
     /\ cameras = <<>> =>
          /\ \A k \in {"width", "height"} : Get(file, <<"source", k>>, 1) > 0
          /\ Get(file, <<"source", "type">>, Defaults.type) = "webcam" => device # "-1"
          /\ SourceValid(file)
     /\ CamerasValid(cameras)

(* Yolo26Detector::validateConfig, which asks for more than validate().    *)
DetectorValid(file) == /\ InRange(file, FileRange)
                       /\ Get(file, <<"model", "max_detections">>, 100) > 0
=============================================================================
