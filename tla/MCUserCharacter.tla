-------------------------- MODULE MCUserCharacter --------------------------
(* One player with one bow and two arrows: every order of key presses,      *)
(* rolls, frames and death.                                                 *)
EXTENDS UserCharacter

CONSTANTS b1, a1, a2, c1

MCBows == {b1}
MCArrows == {a1, a2}
MCCharacters == {c1}
MCFrameTimes == {1, 2}
=============================================================================
