---------------------------- MODULE MCGateDefaults ----------------------------
(* The gate with the thresholds of config.h, on pictures of 100 pixels of   *)
(* which none, 2, 5 or 20 are bright.  Five are the 0.0558 of the log line  *)
(* "FrameDiff pass frame=140 changed=2800 ratio=0.0558" of README.md:188,   *)
(* rounded.                                                                 *)
EXTENDS InferPath

MCPixels   == 1 .. 100
MCPictures == {[p \in MCPixels |-> IF p <= n THEN 200 ELSE 0] : n \in {0, 2, 5, 20}}

=============================================================================
