-------------------------- MODULE MCBowReplication --------------------------
(* A host and a guest, two arrows; a draw has full power after one frame and *)
(* lets go after two.                                                        *)
EXTENDS BowReplication

CONSTANTS b1, b2, b3, a1, a2, c1, c2

MCBows == {b1, b2, b3}
MCArrows == {a1, a2}
MCCharacters == {c1, c2}
MCFrameTimes == {1}
=============================================================================
