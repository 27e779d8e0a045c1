---------------------------- MODULE MCRdReactive ----------------------------
(* One property and one map.  Three changes of the property let the ends    *)
(* cross twice; four changes of a key let the master change it again while  *)
(* the slave's answer and a change of the slave are both under way.         *)
EXTENDS RdReactive
=============================================================================
