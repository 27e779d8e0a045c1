----------------------------- MODULE RdReactive -----------------------------
(***************************************************************************)
(* A property and a map side by side, so that one run checks both.         *)
(* Neither looks at the other, and each has its own queues: what is under  *)
(* way to one may be handled before or after what is under way to the      *)
(* other, which includes every order in which one wire delivers the two.   *)
(* The composition itself says nothing about the wire that they share.     *)
(***************************************************************************)
EXTENDS RdProperty, RdMap

ReactiveTypeOK == PropTypeOK /\ MapTypeOK

ReactiveInit == PropInit /\ MapInit

ReactiveNext == \/ PropNext /\ UNCHANGED mapVars
                \/ MapNext /\ UNCHANGED propVars

ReactiveSpec == ReactiveInit /\ [][ReactiveNext]_<<propVars, mapVars>>
=============================================================================
