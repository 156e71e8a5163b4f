---------------------------- MODULE TokenCursor -----------------------------
(* What the parser takes the tokenizer for: a sequence of tokens that ends   *)
(* in the end of input, and a place in it.                                   *)
EXTENDS Integers, Sequences

CONSTANTS
    NoToken,    \* the answer NULL
    Types,      \* what is asked for
    Distance    \* how far a caller looks and goes at a time

VARIABLES
    stream,   \* the tokens of the source
    cursor,   \* how many were asked for: the last of them is the current one
    answer    \* what the last call answered

\* The end of input is answered as often as it is asked for, and nothing is
\* between one end and the next.
TokenAt(i) ==
    IF i <= Len(stream) THEN stream[i] ELSE [stream[Len(stream)] EXCEPT !.separated = FALSE]

Init == cursor = 1 /\ answer = TokenAt(1)

Move(i) == cursor' = i /\ answer' = TokenAt(i) /\ UNCHANGED stream
Look(i) == answer' = TokenAt(i) /\ UNCHANGED <<stream, cursor>>

\* A token that is not of the wanted type is left for later.
PeekFor(type) ==
    IF TokenAt(cursor + 1).type = type THEN Move(cursor + 1)
    ELSE answer' = NoToken /\ UNCHANGED <<stream, cursor>>

\* Steps back may be too many, and are then refused.
Skip(steps) ==
    \/ Move(cursor + steps)
    \/ steps < 0 /\ answer' = NoToken /\ UNCHANGED <<stream, cursor>>

Next ==
    \/ cursor > 1 /\ Look(cursor - 1)
    \/ \E type \in Types : PeekFor(type)
    \/ \E steps \in 1 .. Distance : Look(cursor + steps)
    \/ \E steps \in -Distance .. Distance : cursor + steps >= 1 /\ Skip(steps)

Spec == Init /\ [][Next]_<<stream, cursor, answer>>
=============================================================================
