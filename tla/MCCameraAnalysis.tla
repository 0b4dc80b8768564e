--------------------------- MODULE MCCameraAnalysis ---------------------------
(* A frame of 8 by 8; class 1 is looked for, class 2 has priority for the  *)
(* camera control.  The scenes: nothing, one object in the middle, near    *)
(* the edge of the dead zone and far out, one that overlaps two places,    *)
(* two of a class in either order, one with too little confidence, one of  *)
(* the other class, one too near.                                                  *)
EXTENDS CameraAnalysis

Object(class, x, size, confidence) ==
  [class |-> class, confidence |-> confidence, box |-> [x |-> x, y |-> 3, size |-> size]]
D(class, x, confidence) == Object(class, x, 2, confidence)

MCScenes == { <<>>,
              <<D(1, 3, 8)>>, <<D(1, 4, 8)>>, <<D(1, 6, 8)>>,
              <<D(1, 3, 8), D(1, 4, 8)>>, <<D(1, 6, 8), D(1, 3, 8)>>,
              <<D(1, 3, 2)>>, <<Object(1, 2, 4, 8)>>,
              <<D(1, 3, 8), D(2, 6, 8)>> }
MCPriorityClasses == <<2>>
=============================================================================
