------------------------ MODULE MCCombatReplication ------------------------
(* A player and an AI shoot three arrows at each other while one client     *)
(* watches; the client's player may be the one who is shot.  Three arrows   *)
(* kill one of them and hit the corpse.                                     *)
EXTENDS CombatReplication, TLC

CONSTANTS user, enemy, a1, a2, a3

MCCharacters == {user, enemy}
MCUsers == {user}
MCArrows == {a1, a2, a3}
MCMeshBlocks == {enemy}
=============================================================================
