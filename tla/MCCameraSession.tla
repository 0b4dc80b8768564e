--------------------------- MODULE MCCameraSession ---------------------------
(* Instances of CameraSession for TLC; the bounds are in the .cfg files.   *)
EXTENDS CameraSession
=============================================================================
