------------------------- MODULE MCDetectionPipeline -------------------------
(* Instances of DetectionPipeline for TLC; the bounds are in the .cfg      *)
(* files.                                                                  *)
EXTENDS DetectionPipeline, TLC

CONSTANTS s1, s2

MCSinks == {s1, s2}
=============================================================================
