------------------------------ MODULE MCDesktop -------------------------------
(* The sources of the three buttons; three failed reads in a row are fatal *)
(* (30 for a webcam).                                                      *)
EXTENDS Desktop
MCFailureLimit == [k \in Counting |-> IF k = "webcam" THEN 3 ELSE 2]
=============================================================================
