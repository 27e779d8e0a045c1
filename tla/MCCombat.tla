------------------------------ MODULE MCCombat ------------------------------
(* A player and an AI shoot four arrows at each other: enough to kill one    *)
(* and hit the corpse, or to kill both.  The AI's mesh stops arrows, the     *)
(* player's does not.                                                        *)
EXTENDS Combat

CONSTANTS user, enemy, a1, a2, a3, a4

MCCharacters == {user, enemy}
MCUsers == {user}
MCArrows == {a1, a2, a3, a4}
MCMeshBlocks == {enemy}
=============================================================================
