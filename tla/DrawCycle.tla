------------------------------ MODULE DrawCycle ------------------------------
(***************************************************************************)
(* What a bow promises the rest of the game, without aiming, time, speed   *)
(* or owners: draws begin and end, a draw may put a new arrow on the bow,  *)
(* and only the end of a draw sends the arrow on the bow away.             *)
(***************************************************************************)
CONSTANTS Bow, Arrow, NoArrow

VARIABLES
    drawing,  \* the bows being drawn
    held,     \* Bow -> the arrow on it, or NoArrow
    away      \* the arrows that have been loosed and still exist

vars == <<drawing, held, away>>

Init == /\ drawing = {}
        /\ held = [b \in Bow |-> NoArrow]
        /\ away = {}

OnABow == {held[b] : b \in Bow} \ {NoArrow}

\* A new arrow comes from nowhere: it is on no bow and not away.
Draw(b, a) == /\ a \notin OnABow \cup away
              /\ drawing' = drawing \cup {b}
              /\ held' = [held EXCEPT ![b] = a]
              /\ UNCHANGED away

DrawEmpty(b) == /\ drawing' = drawing \cup {b}
                /\ held' = [held EXCEPT ![b] = NoArrow]
                /\ UNCHANGED away

Loose(b) == /\ b \in drawing
            /\ held[b] # NoArrow
            /\ drawing' = drawing \ {b}
            /\ held' = [held EXCEPT ![b] = NoArrow]
            /\ away' = away \cup {held[b]}

\* The draw ends and nothing leaves.
Slacken(b) == /\ b \in drawing
              /\ drawing' = drawing \ {b}
              /\ UNCHANGED <<held, away>>

Gone(a) == /\ a \in away
           /\ away' = away \ {a}
           /\ UNCHANGED <<drawing, held>>

Next == \/ \E b \in Bow : \/ \E a \in Arrow : Draw(b, a)
                          \/ DrawEmpty(b)
                          \/ Loose(b)
                          \/ Slacken(b)
        \/ \E a \in Arrow : Gone(a)

Spec == Init /\ [][Next]_vars
=============================================================================
