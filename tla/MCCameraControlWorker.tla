------------------------ MODULE MCCameraControlWorker ------------------------
(* Instances of CameraControlWorker for TLC; the bounds are in the .cfg    *)
(* files.                                                                  *)
EXTENDS CameraControlWorker

CONSTANTS c1, c2

MCCallers == {c1, c2}
=============================================================================
