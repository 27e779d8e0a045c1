--------------------------- MODULE MCAICharacter ---------------------------
(* One AI with one bow and two arrows.  The unit of time is half a second:  *)
(* every delay has the value the code gives it, and a frame takes half a    *)
(* second or, in a hitch, a whole one.                                      *)
EXTENDS AICharacter

CONSTANTS b1, a1, a2, c1

MCBows == {b1}
MCArrows == {a1, a2}
MCCharacters == {c1}
MCFrameTimes == {1, 2}
=============================================================================
