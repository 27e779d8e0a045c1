------------------------------- MODULE MCBow -------------------------------
(* Bow.tla on two bows, two arrows and two characters, one of whom        *)
(* cannot sight: every interleaving of calls and frames on both bows.       *)
EXTENDS Bow, TLC

CONSTANTS b1, b2, a1, a2, c1, c2

MCBows == {b1, b2}
MCArrows == {a1, a2}
MCCharacters == {c1, c2}
MCCanSight == {c1}
MCFrameTimes == {1, 2}

Symm == Permutations(MCBows) \cup Permutations(MCArrows)
=============================================================================
