--------------------------- MODULE MCConfigReaders ----------------------------
(* Lines of two cameras and of the file's own settings.  The key enabled   *)
(* is known to the camera and to four of its sections, queue_size to two,  *)
(* source and monitoring are sections of the file as well.                 *)
EXTENDS ConfigReaders

CONSTANT WithBlanks       \* lines of white space that do not begin with a space only

L(depth, key, value) == [depth |-> depth, dash |-> FALSE, key |-> key, value |-> value]
Dash(depth, key, value) == [depth |-> depth, dash |-> TRUE, key |-> key, value |-> value]

MCLines ==
  { L(0, "model", ""), L(1, "path", "m"), L(1, "max_detections", "0"),
    L(0, "monitoring", ""), L(1, "lost_frames", "0"), L(1, "target_classes", ""),
    L(0, "cameras", ""), Dash(1, "id", "a"), Dash(1, "id", "b"),
    L(2, "priority", "1"), L(2, "priority", "65"),
    L(2, "source", ""), L(2, "monitoring", ""), L(2, "control", ""),
    L(3, "enabled", "1"), L(3, "queue_size", "1"), L(3, "queue_size", "65"),
    L(3, "queue_size", "unset"), L(3, "lost_frames", "0"), L(3, "lost_frames", "-1"),
    L(3, "type", "onvif"), L(3, "endpoint", "e"), L(3, "reconnect_max_ms", "65"),
    L(3, "target_classes", ""), L(3, "auto_ptz", ""),
    L(4, "enabled", "1"), L(4, "priority_classes", "")}
  \cup {Dash(d, "", "1") : d \in {2, 4, 5}}
  \cup (IF WithBlanks THEN {L(0, "", "")} ELSE {})
=============================================================================
