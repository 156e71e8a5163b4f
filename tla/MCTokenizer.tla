---------------------------- MODULE MCTokenizer -----------------------------
(* All texts of a few characters, of every kind of character, and longer     *)
(* texts of tokens that all differ, which go around the ring.                *)
EXTENDS Tokenizer

Mixed   == {"a", "1", " ", "'", "\"", ":", "=", "-", "|", "<", "#", "(", "$", "+", "."}
Quotes  == {"a", " ", "'", "\""}
Numbers == {"1", "2", "r", "-", "A"}
Short == UNION {[1 .. n -> Mixed] : n \in 0 .. 2} \cup [1 .. 3 -> Mixed \ {".", "+", "<"}]
            \cup [1 .. 5 -> Quotes] \cup [1 .. 5 -> Numbers]
Long == {<<"1", "a", "(", ")", "[", "]", ".", ";", "^", "b">>,
         <<"a", " ", "b", ":", "c", ":", "\"", "'", "\"", "'", "'", "'", "'", " ", ":", "=", "d", ":", "=">>}
MCTexts == {t \in Short \cup Long : Read(t, 1).token.type # "ENDLESS"}
=============================================================================
