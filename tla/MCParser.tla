------------------------------ MODULE MCParser ------------------------------
(* All short sequences of tokens of some alphabets inside of a method, and   *)
(* longer texts with every one of their tokens left out or replaced.         *)
EXTENDS Parser

\* Tokens by their text.  One written with ~ follows its neighbour at once.
Tokens ==
    [a |-> "IDENTIFIER", m |-> "IDENTIFIER", A |-> "IDENTIFIER", nil |-> "IDENTIFIER"]
    @@ ("b:" :> "KEYWORD") @@ ("~b:" :> "KEYWORD") @@ ("p:" :> "KEYWORD")
    @@ ("1" :> "DIGIT") @@ ("~1" :> "DIGIT") @@ ("2r" :> "DIGIT")
    @@ ("+" :> "SPECIAL_CHARS") @@ ("-" :> "MINUS") @@ ("|" :> "BAR")
    @@ ("<" :> "LESS") @@ (">" :> "GREATER") @@ ("~>" :> "GREATER")
    @@ ("(" :> "OPEN") @@ (")" :> "CLOSE") @@ ("#(" :> "ARRAY_OPEN")
    @@ ("[" :> "SQUARE_OPEN") @@ ("]" :> "SQUARE_CLOSE")
    @@ ("." :> "DOT") @@ (";" :> "SEMICOLON") @@ (":" :> "COLON") @@ (":=" :> "ASSIGN")
    @@ ("^" :> "RETURN") @@ ("#" :> "SYMBOL_START") @@ ("'s'" :> "STRING")
    @@ ("$c" :> "CHAR") @@ ("$<" :> "CHAR")
TextOf == ("~b:" :> "b:") @@ ("~1" :> "1") @@ ("~>" :> ">")
ValueOf == ("1" :> 1) @@ ("~1" :> 1) @@ ("2r" :> NoDigits)
Apart == DOMAIN Tokens \ {"~b:", "~1", "~>"}
Lexed(texts) ==
    [i \in DOMAIN texts |->
        [type |-> Tokens[texts[i]], separated |-> texts[i] \in Apart,
         value |-> IF texts[i] \in DOMAIN ValueOf THEN ValueOf[texts[i]] ELSE 0,
         text |-> IF texts[i] \in DOMAIN TextOf THEN TextOf[texts[i]] ELSE texts[i]]]

UpTo(alphabet, n) == UNION {[1 .. k -> alphabet] : k \in 0 .. n}
InMethod(bodies) == {<<"m", "[">> \o body \o <<"]">> : body \in bodies}
Edits(text, alphabet) ==
    {text} \cup {RemoveAt(text, i) : i \in DOMAIN text}
           \cup {ReplaceAt(text, i, t) : i \in DOMAIN text, t \in alphabet}

Messages == {"a", "b:", "+", "-", "1", "(", ")", ";"}
Blocks   == {"a", "|", ":", "[", "]", "^", "."}
Values   == {"a", "(", ")", ":=", "^", ".", ";"}
Literals == {"#", "#(", "(", ")", "1", "-", "+", "b:", "~b:", "nil"}
Chars    == {"$<", "1", "~1", ">", "~>", "#(", ")"}
PragmaTexts == {"<", ">", "p:", "1", "#", "a"}
BodyTexts ==
    UpTo(Messages, 4) \cup UpTo(Values, 4) \cup UpTo(Blocks, 4) \cup UpTo(Literals, 4) \cup UpTo(Literals \cup {"'s'", "2r", "$c"}, 3)
        \cup UpTo(Chars, 4) \cup UpTo(PragmaTexts, 4)
Headers == {h \o <<"[", "a", "]">> : h \in UpTo({"a", "+", "b:", "|", "-"}, 4)}

Sentence == <<"m", "[", "|", "a", "|", "a", ":=", "a", "b:", "1", "+", "a", "a", "b:", "#", "b:", "~b:",
              ";", "+", "(", "a", "-", "-", "1", ")", ".", "^", "[", ":", "a", "|", "a", "]", "]">>
ClassText == <<"A", ":=", "A", "[", "<", "p:", "1", ">", "|", "a", "|", "m", "[", "a", "]",
               "A", "+", "a", "[", "]", "]", "[", "a", "]", "A", ":=", "A", "[", "]">>
AllTexts == DOMAIN Tokens

MCMethods == {Lexed(t) : t \in InMethod(BodyTexts) \cup Headers \cup Edits(Sentence, AllTexts)}
MCEvals   == {Lexed(t) : t \in UpTo({"a", "^", ".", "]", "[", "|"}, 4)}
MCFiles   == {Lexed(t) : t \in Edits(ClassText, AllTexts) \cup UpTo({"[", "a", "]", ":="}, 4)}
=============================================================================
