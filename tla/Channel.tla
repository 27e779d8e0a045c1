------------------------------ MODULE Channel ------------------------------
(***************************************************************************)
(* What one direction of the RD wire promises those who use it, without    *)
(* threads, connections, sequence numbers or acknowledgements: messages    *)
(* are handed in, come out in the order they were handed in, and are       *)
(* forgotten only once they have come out.                                 *)
(*                                                                         *)
(* Two things it does not promise: while the first message is not          *)
(* forgotten, the stream may start over from it; and while there is        *)
(* something to repeat, the stream may be spoiled for good.                *)
(*                                                                         *)
(* And once two writers have raced, messages may be left out, and          *)
(* forgotten before they have come out.  What comes out is still in order. *)
(***************************************************************************)
EXTENDS Integers, Sequences

VARIABLES
    handed,     \* messages handed in: they are numbered 1 .. handed
    forgotten,  \* the sender does not keep the messages 1 .. forgotten any more
    stream,     \* what came out
    spoiled,    \* whether what comes out is of no use any more
    raced       \* whether a message was written before those that had to come first

vars == <<handed, forgotten, stream, spoiled, raced>>

Init == /\ handed = 0
        /\ forgotten = 0
        /\ stream = <<>>
        /\ spoiled = FALSE
        /\ raced = FALSE

\* The message that came out last.
Latest == IF stream = <<>> THEN 0 ELSE stream[Len(stream)]

HandIn == /\ handed' = handed + 1
          /\ UNCHANGED <<forgotten, stream, spoiled, raced>>

ComesOut(m) == /\ ~spoiled
               /\ m <= handed
               /\ stream' = Append(stream, m)
               /\ UNCHANGED <<handed, forgotten, spoiled, raced>>

ComesNext == ComesOut(Latest + 1)

LeavesOut(m) == /\ raced
                /\ m > Latest + 1
                /\ ComesOut(m)

StartsOver == /\ forgotten = 0
              /\ ComesOut(1)

Spoils == /\ forgotten < Latest
          /\ spoiled' = TRUE
          /\ UNCHANGED <<handed, forgotten, stream, raced>>

Forget(n) == /\ n > forgotten
             /\ spoiled \/ raced \/ n <= Latest
             /\ forgotten' = n
             /\ UNCHANGED <<handed, stream, spoiled, raced>>

Races == /\ raced' = TRUE
         /\ UNCHANGED <<handed, forgotten, stream, spoiled>>

Next == \/ HandIn
        \/ ComesNext
        \/ \E m \in 1 .. handed : LeavesOut(m)
        \/ StartsOver
        \/ Spoils
        \/ \E n \in 1 .. handed : Forget(n)
        \/ Races

Spec == Init /\ [][Next]_vars
=============================================================================
