----------------------------- MODULE Tokenizer ------------------------------
(* The tokenizer (Tokenizer.c): readToken, and the ring of the last tokens   *)
(* it read, from which the parser takes the current, the next and earlier    *)
(* ones.  A text is a sequence of characters; a token is [type, content,     *)
(* separated].  Positions, lines and columns are left out, and so are bytes  *)
(* above 127, which index the tables of characters with negative numbers.    *)
EXTENDS Integers, Sequences, SequencesExt, FiniteSets, TLC

CONSTANTS
    Texts,       \* the texts to read
    Types,       \* the types peekForToken is asked for
    MAX_TOKENS,  \* the size of the ring: 6
    NoToken      \* NULL

EOI == "end"
\* A text has no NUL in it; the parser looks one token ahead.
ASSUME TokenizerAssumption ==
    /\ MAX_TOKENS \in Nat \ {0, 1}
    /\ \A t \in Texts : t \in Seq(ToSet(t)) /\ EOI \notin ToSet(t)

VARIABLES
    text,
    at,          \* the place of the next character
    tokens,      \* the ring
    tokenIndex,  \* how many tokens were asked for
    tokenized,   \* how many were read
    answer,      \* what the last call answered
    stream       \* what the text spells; no step depends on it

vars == <<text, at, tokens, tokenIndex, tokenized, answer, stream>>

-----------------------------------------------------------------------------
(* Characters.                                                               *)

Separators == {" ", "\t", "\n", "\r"}
Special == {"!", "%", "&", "*", "+", ",", "-", "/", "<", "=", ">", "?", "@", "\\", "|", "~"}
DigitChars ==
    <<"0", "1", "2", "3", "4", "5", "6", "7", "8", "9", "A", "B", "C", "D", "E", "F", "G", "H", "I",
      "J", "K", "L", "M", "N", "O", "P", "Q", "R", "S", "T", "U", "V", "W", "X", "Y", "Z">>
LowerCase == {"a", "b", "c", "d", "e", "f", "g", "h", "i", "j", "k", "l", "m", "n", "o", "p", "q",
              "r", "s", "t", "u", "v", "w", "x", "y", "z", "_"}

DigitsBelow(base) == {DigitChars[i] : i \in 1 .. base}
Numeric == DigitsBelow(10)
IdentifierBegining == LowerCase \cup (DigitsBelow(36) \ Numeric)
Identifier == IdentifierBegining \cup Numeric

DigitValue(ch) == (CHOOSE i \in DOMAIN DigitChars : DigitChars[i] = ch) - 1

\* atoi, kept in a byte.
Base(digits) ==
    LET value[n \in 0 .. Len(digits)] ==
            IF n = 0 THEN 0 ELSE (10 * value[n - 1] + DigitValue(digits[n])) % 256
    IN  value[Len(digits)]

Ch(source, i) == IF i \in DOMAIN source THEN source[i] ELSE EOI

Between(source, i, end) == [k \in 1 .. end - i |-> Ch(source, i + k - 1)]

\* The first place from i on where no character of S is.
EndOf(source, i, S) ==
    CHOOSE j \in i .. Len(source) + 1 :
        Ch(source, j) \notin S /\ \A k \in i .. j - 1 : Ch(source, k) \in S

\* Between quotes: a quote inside is doubled.
\* Mutant: both are kept.
QuotedTwice(source, i) ==
    LET n == Len(source)
        inside[j \in i + 1 .. n + 2] ==
            CASE j > n -> [content |-> <<>>, end |-> n + 1]
              [] j <= n /\ source[j] = source[i] /\ Ch(source, j + 1) # source[i] ->
                   [content |-> <<>>, end |-> j + 1]
              [] j <= n /\ source[j] = source[i] /\ Ch(source, j + 1) = source[i] ->
                   [inside[j + 2] EXCEPT !.content = <<source[i], source[i]>> \o @]
              [] OTHER -> [inside[j + 1] EXCEPT !.content = <<source[j]>> \o @]
    IN  inside[i + 1]
Quoted(source, i) ==
    LET n == Len(source)
        inside[j \in i + 1 .. n + 2] ==
            CASE j > n -> [content |-> <<>>, end |-> n + 1]
              [] j <= n /\ source[j] = source[i] /\ Ch(source, j + 1) # source[i] ->
                   [content |-> <<>>, end |-> j + 1]
              [] j <= n /\ source[j] = source[i] /\ Ch(source, j + 1) = source[i] ->
                   [inside[j + 2] EXCEPT !.content = <<source[i]>> \o @]
              [] OTHER -> [inside[j + 1] EXCEPT !.content = <<source[j]>> \o @]
    IN  inside[i + 1]

\* The place after a comment or a string; 0 if it does not close.  A closing
\* quote is seen to close by the character after it.
IfClosed(source, end) == IF Ch(source, end) = EOI THEN 0 ELSE end
Closes(source, i) == IfClosed(source, Quoted(source, i).end)

\* The place after separators and comments.
SkipFrom(closes, skip, j) == IF closes > 0 THEN skip[closes] ELSE j
AfterSeparators(source, i) ==
    LET after[j \in i .. Len(source) + 2] ==
            CASE Ch(source, j) \in Separators -> after[j + 1]
              [] Ch(source, j) = "\"" -> SkipFrom(Closes(source, j), after, j)
              [] OTHER -> j
    IN  after[i]

-----------------------------------------------------------------------------
(* Tokens.                                                                   *)

Single == [ch \in {"[", "]", "(", ")", ".", ";", "^"} |->
              CASE ch = "[" -> "SQUARE_OPEN" [] ch = "]" -> "SQUARE_CLOSE"
                [] ch = "(" -> "OPEN" [] ch = ")" -> "CLOSE"
                [] ch = "." -> "DOT" [] ch = ";" -> "SEMICOLON" [] ch = "^" -> "RETURN"]
Lonely == [ch \in {"-", "<", ">"} |->
              CASE ch = "-" -> "MINUS" [] ch = "<" -> "LESS" [] ch = ">" -> "GREATER"]

\* A number with a radix goes on as long as its digits are below the radix.
\* Above 36 everything is, the end of input too: the token never ends.
EndOfRadix(source, i, base) ==
    IF base > 36 THEN 0
    ELSE EndOf(source, IF Ch(source, i) = "-" THEN i + 1 ELSE i, DigitsBelow(base))
EndOfNumber(source, i, r) ==
    IF Ch(source, r) # "r" THEN r
    ELSE EndOfRadix(source, r + 1, Base(SubSeq(source, i, r - 1)))
Digits(source, end) ==
    IF end = 0 THEN <<"ENDLESS", Len(source) + 1>> ELSE <<"DIGIT", end>>

\* A keyword, unless the colon is that of an assignment.
Word(source, end) ==
    IF Ch(source, end) = ":" /\ Ch(source, end + 1) # "="
    THEN <<"KEYWORD", end + 1>> ELSE <<"IDENTIFIER", end>>

\* The type of the token that begins at i, and the place after it.  A $ takes
\* the next character, or the end of a file (in memory, what is behind it).
Scan(source, i) ==
    LET ch   == Ch(source, i)
        next == Ch(source, i + 1)
    IN  CASE ch \in DOMAIN Single -> <<Single[ch], i + 1>>
          [] ch \in DOMAIN Lonely /\ next \notin Special -> <<Lonely[ch], i + 1>>
          [] ch = ":" /\ next = "=" -> <<"ASSIGN", i + 2>>
          [] ch = ":" /\ next # "=" -> <<"COLON", i + 1>>
          [] ch = "|" /\ next # "|" -> <<"BAR", i + 1>>
          [] ch = "$" -> <<"CHAR", i + 2>>
          [] ch = "#" /\ next = "(" -> <<"ARRAY_OPEN", i + 2>>
          [] ch = "#" /\ next # "(" -> <<"SYMBOL_START", i + 1>>
          [] ch = "'" -> <<IF Closes(source, i) > 0 THEN "STRING" ELSE "UNCLOSED_STRING",
                           Quoted(source, i).end>>
          [] ch = "\"" -> <<"UNCLOSED_COMMENT", Quoted(source, i).end>>
          [] ch = EOI -> <<"END", i>>
          [] ch \in Numeric -> Digits(source, EndOfNumber(source, i, EndOf(source, i, Numeric)))
          [] ch \in IdentifierBegining -> Word(source, EndOf(source, i, Identifier))
          [] ch \in Special /\ ~(ch \in DOMAIN Lonely /\ next \notin Special)
                            /\ ~(ch = "|" /\ next # "|") ->
               <<"SPECIAL_CHARS", EndOf(source, i, Special)>>
          [] OTHER -> <<"UNKNOWN", i + 1>>

\* [token, end]: the token that begins at i, after what separates it, and the
\* place after it.
TokenFrom(source, start, separated, scan) ==
    [token |-> [type |-> scan[1],
                content |-> IF Ch(source, start) \in {"'", "\""} THEN Quoted(source, start).content
                            ELSE Between(source, start, scan[2]),
                separated |-> separated],
     end |-> scan[2]]
ReadFrom(source, i, start) == TokenFrom(source, start, start > i, Scan(source, start))
Read(source, i) == ReadFrom(source, i, AfterSeparators(source, i))

Closing == {"END", "ENDLESS"}

\* All tokens of a text, up to the first with which it ends.
TokensOf(source) ==
    LET followed(r, rest) ==
            <<r.token>> \o (IF r.token.type \in Closing THEN <<>> ELSE rest[r.end])
        from[i \in 1 .. Len(source) + 2] == followed(Read(source, i), from)
    IN  from[1]

-----------------------------------------------------------------------------
(* The ring.                                                                 *)

Slot(i) == (i - 1) % MAX_TOKENS

\* initTokenizer reads the first token (and does not return from an endless
\* one).
Init ==
    /\ text \in Texts
    /\ \E r \in {Read(text, 1)} :
         /\ r.token.type # "ENDLESS"
         /\ tokens = [s \in 0 .. MAX_TOKENS - 1 |-> IF s = 0 THEN r.token ELSE NoToken]
         /\ at = r.end
         /\ answer = r.token
    /\ tokenIndex = 1
    /\ tokenized = 1
    /\ stream = TokensOf(text)

\* What reading a number of tokens more makes of the ring.
Reading(count) ==
    LET store(ring, k, r) == [tokens |-> [ring EXCEPT ![Slot(k)] = r.token], at |-> r.end]
        after[k \in 0 .. count] ==
            IF k = 0 THEN [tokens |-> tokens, at |-> at]
            ELSE store(after[k - 1].tokens, tokenized + k, Read(text, after[k - 1].at))
    IN  after[count]

\* Bound: the end of input is read twice at most.  An endless token is not
\* returned from.
Readable(i) ==
    /\ i <= Len(stream) + 1
    /\ \A k \in DOMAIN stream : k <= i => stream[k].type # "ENDLESS"

Fill(i, count) ==
    /\ Readable(i)
    /\ \E ring \in {Reading(count)} : tokens' = ring.tokens /\ at' = ring.at
    /\ tokenized' = tokenized + count

\* The token of an index is read unless it was.
Filled(i) == Fill(i, IF i > tokenized THEN i - tokenized ELSE 0)

PeekToken ==
    /\ Filled(tokenIndex + 1)
    /\ answer' = tokens'[Slot(tokenIndex + 1)]
    /\ UNCHANGED <<text, tokenIndex, stream>>

\* Mutant: the token is taken before its type is looked at.
PeekForTokenTaken(type) ==
    /\ Filled(tokenIndex + 1)
    /\ tokenIndex' = tokenIndex + 1
    /\ LET token == tokens'[Slot(tokenIndex + 1)]
       IN  answer' = IF token.type = type THEN token ELSE NoToken
    /\ UNCHANGED <<text, stream>>
PeekForToken(type) ==
    /\ Filled(tokenIndex + 1)
    /\ LET token == tokens'[Slot(tokenIndex + 1)]
       IN  IF token.type = type
           THEN tokenIndex' = tokenIndex + 1 /\ answer' = token
           ELSE answer' = NoToken /\ UNCHANGED tokenIndex
    /\ UNCHANGED <<text, stream>>

\* The token before the current one, if the ring still has it (no caller
\* looks back after a step back).
PrevToken ==
    /\ tokenIndex > 1
    /\ tokenIndex - 1 > tokenized - MAX_TOKENS
    /\ answer' = tokens[Slot(tokenIndex - 1)]
    /\ UNCHANGED <<text, at, tokens, tokenIndex, tokenized, stream>>

\* nextToken is a step of one.
SkipForward(steps) ==
    /\ Filled(tokenIndex + steps)
    /\ tokenIndex' = tokenIndex + steps
    /\ answer' = tokens'[Slot(tokenIndex + steps)]
    /\ UNCHANGED <<text, stream>>

\* The code lets a step back reach a token that was overwritten, and go back
\* before the first one (README, section 4).
StepsTooFar(steps) ==
    \/ tokenIndex - steps = tokenized - MAX_TOKENS
    \/ tokenIndex - steps < 1
SkipBack(steps) ==
    /\ ~StepsTooFar(steps)
    /\ IF tokenIndex - steps >= tokenized - MAX_TOKENS
       THEN tokenIndex' = tokenIndex - steps /\ answer' = tokens[Slot(tokenIndex - steps)]
       ELSE answer' = NoToken /\ UNCHANGED tokenIndex
    /\ UNCHANGED <<text, at, tokens, tokenized, stream>>

\* A step ahead and as many back.
PeekNthToken(steps) ==
    /\ Filled(tokenIndex + steps)
    /\ answer' = tokens'[Slot(tokenIndex + steps)]
    /\ UNCHANGED <<text, tokenIndex, stream>>

Next ==
    \/ PeekToken
    \/ PrevToken
    \/ \E type \in Types : PeekForToken(type)
    \/ \E steps \in 0 .. MAX_TOKENS - 1 :
          \/ SkipForward(steps) /\ steps > 0
          \/ SkipBack(steps)
          \/ PeekNthToken(steps) /\ steps > 0

Spec == Init /\ [][Next]_vars

-----------------------------------------------------------------------------
(* Properties.                                                               *)

C == INSTANCE TokenCursor WITH cursor <- tokenIndex, Distance <- MAX_TOKENS - 1

\* A token as it is written, and a text with one space wherever the tokens
\* were apart.
Spelled(token) ==
    CASE token.type = "STRING" ->
           <<"'">> \o FlattenSeq([i \in DOMAIN token.content |->
                         IF token.content[i] = "'" THEN <<"'", "'">> ELSE <<token.content[i]>>])
             \o <<"'">>
      [] OTHER -> token.content
Respaced(list) ==
    FlattenSeq([i \in DOMAIN list |->
                  (IF list[i].separated THEN <<" ">> ELSE <<>>) \o Spelled(list[i])])

\* The ring answers what a cursor over the tokens of the text answers, however
\* far the calls look ahead, step back and forth, and wrap around.
ImplementsCursor == C!Spec

\* Comments and any space between tokens are worth one space, and quotes are
\* doubled the same way in as out: a text written anew from its tokens is read
\* as the same tokens.
ReadsBack ==
    (\A k \in DOMAIN stream : stream[k].type \notin {"UNCLOSED_STRING", "UNCLOSED_COMMENT", "ENDLESS"})
        => TokensOf(Respaced(stream)) = stream
=============================================================================
