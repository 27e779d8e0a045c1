------------------------------- MODULE MCWire -------------------------------
(* With four messages and three breaks, one connection can carry a message  *)
(* that is acknowledged, one that is received without its acknowledgement   *)
(* coming back, and one that is cut off, all to be sorted out by the next   *)
(* one, which may break in the middle of that.                              *)
EXTENDS Wire
=============================================================================
