--------------------------- MODULE TokenizerProofs ---------------------------
(***************************************************************************)
(* Theorems about Tokenizer for every text and every size of the ring.     *)
(***************************************************************************)
EXTENDS Tokenizer, SequenceTheorems, Foundations

-----------------------------------------------------------------------------
(* Characters.                                                             *)

(* Any sequence of characters.  The end of input may be among them: a $ at *)
(* the end of a text takes it, and a text written anew has it then.        *)
IsText(s) == s \in Seq(ToSet(s))

(* Behind the last character there is the end of input.                    *)
LEMMA Characters ==
  ASSUME NEW s, IsText(s)
  PROVE  /\ Len(s) \in Nat /\ DOMAIN s = 1..Len(s)
         /\ \A i \in 1..Len(s) : Ch(s, i) = s[i] /\ Ch(s, i) \in ToSet(s)
         /\ \A i : i \notin 1..Len(s) => Ch(s, i) = EOI
<1>1. Len(s) \in Nat /\ DOMAIN s = 1..Len(s)
  BY DEF IsText
<1>2. \A i \in 1..Len(s) : s[i] \in ToSet(s)
  BY <1>1 DEF ToSet
<1> QED
  BY <1>1, <1>2 DEF Ch, IsText

(* A character other than the end of input is in the text.                 *)
LEMMA InText ==
  ASSUME NEW s, IsText(s), NEW j, Ch(s, j) # EOI
  PROVE  j \in 1..Len(s) /\ Len(s) \in Nat
BY Characters

(* No class of characters has the end of input in it: first the digits.    *)
LEMMA DigitsAre ==
  \A i \in 1..36 : DigitChars[i] # EOI
BY DEF DigitChars, EOI

(* No class of characters that is read to its end has the end of input.    *)
LEMMA NoClassEnds ==
  /\ EOI \notin Separators /\ EOI \notin Special /\ EOI \notin LowerCase
  /\ EOI \notin DOMAIN Single /\ EOI \notin DOMAIN Lonely
  /\ \A base \in 0..36 : EOI \notin DigitsBelow(base)
  /\ EOI \notin Numeric /\ EOI \notin IdentifierBegining /\ EOI \notin Identifier
  /\ "\"" \notin Separators /\ EOI # "\""
<1>0. "\"" \notin Separators /\ EOI # "\""
  BY DEF EOI, Separators
<1>1. EOI \notin Separators /\ EOI \notin Special /\ EOI \notin LowerCase
      /\ EOI \notin DOMAIN Single /\ EOI \notin DOMAIN Lonely
  BY DEF EOI, Separators, Special, LowerCase, Single, Lonely
<1>2. \A base \in 0..36 : EOI \notin DigitsBelow(base)
  BY DigitsAre DEF DigitsBelow
<1>3. EOI \notin DigitsBelow(10) /\ EOI \notin DigitsBelow(36)
  BY <1>2
<1> QED
  BY <1>0, <1>1, <1>2, <1>3 DEF Numeric, IdentifierBegining, Identifier

(* EndOf is the first place where the characters of S end.                 *)
LEMMA EndOfFacts ==
  ASSUME NEW s, IsText(s), NEW i \in 1..(Len(s) + 1), NEW S, EOI \notin S
  PROVE  /\ EndOf(s, i, S) \in i..(Len(s) + 1)
         /\ Ch(s, EndOf(s, i, S)) \notin S
         /\ \A k \in i..(EndOf(s, i, S) - 1) : Ch(s, k) \in S
         /\ Ch(s, i) \in S => EndOf(s, i, S) > i
<1>1. Len(s) \in Nat /\ Ch(s, Len(s) + 1) = EOI
  BY Characters
<1> DEFINE Outside == { j \in i..(Len(s) + 1) : Ch(s, j) \notin S }
<1>2. Outside \in SUBSET Nat /\ Outside # {}
  BY <1>1
<1>3. PICK e \in Outside : \A j \in Outside : e <= j
  <2> HIDE DEF Outside
  <2> QED
    BY <1>2, LeastNatural
<1>4. \A k \in i..(e - 1) : Ch(s, k) \in S
  BY <1>1, <1>3
<1>5. \E j \in i..(Len(s) + 1) : Ch(s, j) \notin S /\ \A k \in i..(j - 1) : Ch(s, k) \in S
  BY <1>3, <1>4
<1>6. /\ EndOf(s, i, S) \in i..(Len(s) + 1)
      /\ Ch(s, EndOf(s, i, S)) \notin S
      /\ \A k \in i..(EndOf(s, i, S) - 1) : Ch(s, k) \in S
  BY <1>5 DEF EndOf
<1>7. Ch(s, i) \in S => EndOf(s, i, S) # i
  BY <1>6
<1> QED
  BY <1>1, <1>6, <1>7

-----------------------------------------------------------------------------
(* Quotes.                                                                 *)

(* The content and the place after it of what is quoted from i on, when it *)
(* has been read to j.                                                     *)
QuotedFrom(s, i, f, j) ==
  LET n == Len(s) IN
  CASE j > n -> [content |-> <<>>, end |-> n + 1]
    [] j <= n /\ s[j] = s[i] /\ Ch(s, j + 1) # s[i] -> [content |-> <<>>, end |-> j + 1]
    [] j <= n /\ s[j] = s[i] /\ Ch(s, j + 1) = s[i] ->
         [f[j + 2] EXCEPT !.content = <<s[i]>> \o @]
    [] OTHER -> [f[j + 1] EXCEPT !.content = <<s[j]>> \o @]

(* The definition of what is between quotes has a solution.                *)
LEMMA QuotedFacts ==
  ASSUME NEW s, IsText(s), NEW i \in 1..Len(s)
  PROVE  \E f : /\ f \in [(i + 1)..(Len(s) + 2) ->
                            [content : Seq(ToSet(s)), end : (i + 1)..(Len(s) + 1)]]
                /\ \A j \in (i + 1)..(Len(s) + 2) : f[j] = QuotedFrom(s, i, f, j)
                /\ Quoted(s, i) = f[i + 1]
<1> DEFINE n == Len(s)
           X == [content : Seq(ToSet(s)), end : (i + 1)..(n + 1)]
           step == [j \in (i + 1)..(n + 2) |-> [g \in [(j + 1)..(n + 2) -> X] |->
                      QuotedFrom(s, i, g, j)]]
<1>1. /\ n \in Nat /\ DOMAIN s = 1..n /\ Ch(s, n + 1) = EOI
      /\ \A j \in 1..n : s[j] \in ToSet(s)
  BY Characters
<1>2. \A x \in X, c \in ToSet(s) : [x EXCEPT !.content = <<c>> \o @] \in X
  <2> SUFFICES ASSUME NEW x \in X, NEW c \in ToSet(s)
               PROVE  [x EXCEPT !.content = <<c>> \o @] \in X
    OBVIOUS
  <2>1. <<c>> \o x.content \in Seq(ToSet(s))
    OBVIOUS
  <2> QED
    BY <2>1
<1>3. <<>> \in Seq(ToSet(s))
  OBVIOUS
<1>4. ASSUME NEW j \in (i + 1)..(n + 2), NEW g, 
             \A k \in (j + 1)..(n + 2) : g[k] \in X
      PROVE  QuotedFrom(s, i, g, j) \in X
  <2>1. CASE j > n
    <3>1. [content |-> <<>>, end |-> n + 1] \in X
      BY <1>1, <1>3
    <3> QED
      BY <2>1, <3>1 DEF QuotedFrom
  <2>2. CASE j <= n
    <3>1. j \in 1..n /\ j + 1 \in (j + 1)..(n + 2) /\ j + 2 \in (j + 1)..(n + 2)
      BY <1>1, <2>2
    <3>2. [content |-> <<>>, end |-> j + 1] \in X
      BY <1>1, <1>3, <2>2
    <3>3. [g[j + 2] EXCEPT !.content = <<s[i]>> \o @] \in X
      BY <1>1, <1>2, <1>4, <3>1
    <3>4. [g[j + 1] EXCEPT !.content = <<s[j]>> \o @] \in X
      BY <1>1, <1>2, <1>4, <3>1
    <3> HIDE DEF X
    <3> QED
      BY <1>1, <2>2, <3>2, <3>3, <3>4 DEF QuotedFrom
  <2> QED
    BY <1>1, <2>1, <2>2
<1>5. \A j \in (i + 1)..(n + 2) : step[j] \in [[(j + 1)..(n + 2) -> X] -> X]
  <2> HIDE DEF X
  <2> QED
    BY <1>4
<1> HIDE DEF X
<1>6. PICK f \in [(i + 1)..(n + 2) -> X] :
        \A j \in (i + 1)..(n + 2) : f[j] = step[j][[k \in (j + 1)..(n + 2) |-> f[k]]]
  <2>1. i + 1 \in Nat /\ n + 2 \in Nat /\ i + 1 <= n + 2
    BY <1>1
  <2> HIDE DEF X, step, n
  <2>2. DeterminedDown(i + 1, n + 2, X, step)
    BY <1>5, <2>1, RecursionDown
  <2> QED
    BY <2>2 DEF DeterminedDown
<1>7. ASSUME NEW j \in (i + 1)..(n + 2) PROVE f[j] = QuotedFrom(s, i, f, j)
  <2> DEFINE g == [k \in (j + 1)..(n + 2) |-> f[k]]
  <2>1. g \in [(j + 1)..(n + 2) -> X]
    <3> HIDE DEF X
    <3> QED
      BY <1>1
  <2>2. f[j] = QuotedFrom(s, i, g, j)
    <3>1. f[j] = step[j][g]
      BY <1>6
    <3> HIDE DEF g
    <3> QED
      BY <2>1, <3>1
  <2>3. QuotedFrom(s, i, g, j) = QuotedFrom(s, i, f, j)
    <3>1. CASE j > n
      BY <3>1 DEF QuotedFrom
    <3>2. CASE j <= n
      <4>1. j + 1 \in (j + 1)..(n + 2) /\ j + 2 \in (j + 1)..(n + 2)
        BY <1>1, <3>2
      <4>2. g[j + 1] = f[j + 1] /\ g[j + 2] = f[j + 2]
        BY <4>1
      <4> HIDE DEF g
      <4> QED
        BY <4>2 DEF QuotedFrom
    <3> QED
      BY <1>1, <3>1, <3>2
  <2> QED
    BY <2>2, <2>3
<1> DEFINE inside == CHOOSE h : h = [j \in (i + 1)..(n + 2) |->
                       CASE j > n -> [content |-> <<>>, end |-> n + 1]
                         [] j <= n /\ s[j] = s[i] /\ Ch(s, j + 1) # s[i] ->
                              [content |-> <<>>, end |-> j + 1]
                         [] j <= n /\ s[j] = s[i] /\ Ch(s, j + 1) = s[i] ->
                              [h[j + 2] EXCEPT !.content = <<s[i]>> \o @]
                         [] OTHER -> [h[j + 1] EXCEPT !.content = <<s[j]>> \o @]]
<1>8. f = [j \in (i + 1)..(n + 2) |-> QuotedFrom(s, i, f, j)]
  BY <1>7
<1>9. inside = [j \in (i + 1)..(n + 2) |-> QuotedFrom(s, i, inside, j)]
  BY <1>8 DEF QuotedFrom
<1>10. Quoted(s, i) = inside[i + 1]
  BY DEF Quoted
<1> HIDE DEF inside
<1> DEFINE S == { j \in (i + 1)..(n + 2) : inside[j] \in X }
<1>11. (i + 1)..(n + 2) \subseteq S
  <2>1. ASSUME NEW j \in (i + 1)..(n + 2), \A k \in (j + 1)..(n + 2) : k \in S
        PROVE  j \in S
    <3>1. QuotedFrom(s, i, inside, j) \in X
      BY <1>4, <2>1
    <3> QED
      BY <1>9, <3>1
  <2>2. i + 1 \in Nat /\ n + 2 \in Nat
    BY <1>1
  <2> HIDE DEF S
  <2>3. \A j \in (i + 1)..(n + 2) : (\A k \in (j + 1)..(n + 2) : k \in S) => j \in S
    BY <2>1
  <2>4. PICK lo \in Nat, hi \in Nat : lo = i + 1 /\ hi = n + 2
    BY <2>2
  <2>5. \A j \in lo..hi : (\A k \in (j + 1)..hi : k \in S) => j \in S
    BY <2>3, <2>4
  <2>6. lo..hi \subseteq S
    BY <2>5, DownFrom
  <2> QED
    BY <2>4, <2>6
<1>12. inside \in [(i + 1)..(n + 2) -> X]
  BY <1>9, <1>11
<1>13. \A j \in (i + 1)..(n + 2) : inside[j] = QuotedFrom(s, i, inside, j)
  BY <1>9
<1> QED
  BY <1>10, <1>12, <1>13 DEF X

(* Where what is quoted ends, and whether it closes.                       *)
LEMMA ClosesFacts ==
  ASSUME NEW s, IsText(s), NEW i \in 1..Len(s)
  PROVE  /\ Quoted(s, i) = [content |-> Quoted(s, i).content, end |-> Quoted(s, i).end]
         /\ Quoted(s, i).content \in Seq(ToSet(s))
         /\ Quoted(s, i).end \in (i + 1)..(Len(s) + 1)
         /\ Closes(s, i) = 0 \/ (Closes(s, i) = Quoted(s, i).end /\ Closes(s, i) \in (i + 1)..Len(s))
<1>1. /\ Quoted(s, i) \in [content : Seq(ToSet(s)), end : (i + 1)..(Len(s) + 1)]
  <2>1. i + 1 \in (i + 1)..(Len(s) + 2)
    BY Characters
  <2>2. PICK f \in [(i + 1)..(Len(s) + 2) ->
                       [content : Seq(ToSet(s)), end : (i + 1)..(Len(s) + 1)]] :
          Quoted(s, i) = f[i + 1]
    BY QuotedFacts
  <2> QED
    BY <2>1, <2>2
<1>2. Quoted(s, i).end \in (i + 1)..(Len(s) + 1)
  BY <1>1
<1>3. Ch(s, Quoted(s, i).end) # EOI => Quoted(s, i).end \in (i + 1)..Len(s)
  BY <1>2, Characters
<1> QED
  BY <1>1, <1>2, <1>3 DEF Closes, IfClosed

-----------------------------------------------------------------------------
(* Separators and comments.                                                *)

SkippedFrom(s, f, j) ==
  CASE Ch(s, j) \in Separators -> f[j + 1]
    [] Ch(s, j) = "\"" -> SkipFrom(Closes(s, j), f, j)
    [] OTHER -> j

(* A token begins here.                                                    *)
Begins(s, j) == Ch(s, j) \notin Separators /\ (Ch(s, j) = "\"" => Closes(s, j) = 0)

(* What a character that separates or begins a comment leads to.           *)
LEMMA SkippedFacts ==
  ASSUME NEW s, IsText(s), NEW j \in Nat
  PROVE  \/ Begins(s, j) /\ \A f : SkippedFrom(s, f, j) = j
         \/ \E k \in (j + 1)..(Len(s) + 2) : \A f : SkippedFrom(s, f, j) = f[k]
<1>1. CASE Ch(s, j) \in Separators
  <2>1. j \in 1..Len(s) /\ Len(s) \in Nat
    BY <1>1, InText, NoClassEnds
  <2>2. j + 1 \in (j + 1)..(Len(s) + 2)
    BY <2>1
  <2>3. \A f : SkippedFrom(s, f, j) = f[j + 1]
    BY <1>1, NoClassEnds DEF SkippedFrom
  <2> QED
    BY <2>2, <2>3
<1>2. CASE Ch(s, j) = "\""
  <2>1. j \in 1..Len(s) /\ Len(s) \in Nat
    BY <1>2, InText, NoClassEnds
  <2>2. Closes(s, j) = 0 \/ Closes(s, j) \in (j + 1)..Len(s)
    BY <2>1, ClosesFacts
  <2>3. \A f : SkippedFrom(s, f, j) = SkipFrom(Closes(s, j), f, j)
    BY <1>2, NoClassEnds DEF SkippedFrom
  <2>4. CASE Closes(s, j) = 0
    <3>1. \A f : SkipFrom(Closes(s, j), f, j) = j
      BY <2>4 DEF SkipFrom
    <3>2. Begins(s, j)
      BY <1>2, <2>4, NoClassEnds DEF Begins
    <3> QED
      BY <2>3, <3>1, <3>2
  <2>5. CASE Closes(s, j) \in (j + 1)..Len(s)
    <3>1. Closes(s, j) > 0 /\ Closes(s, j) \in (j + 1)..(Len(s) + 2)
      BY <2>1, <2>5
    <3>2. \A f : SkipFrom(Closes(s, j), f, j) = f[Closes(s, j)]
      BY <3>1 DEF SkipFrom
    <3> QED
      BY <2>3, <3>1, <3>2
  <2> QED
    BY <2>2, <2>4, <2>5
<1>3. CASE Ch(s, j) \notin Separators /\ Ch(s, j) # "\""
  <2>1. \A f : SkippedFrom(s, f, j) = j
    BY <1>3 DEF SkippedFrom
  <2> QED
    BY <1>3, <2>1 DEF Begins
<1> QED
  BY <1>1, <1>2, <1>3

(* AfterSeparators is defined, goes forward, and ends where a token begins *)
(* or a comment that does not close.                                       *)
LEMMA SeparatorsFacts ==
  ASSUME NEW s, IsText(s), NEW i \in 1..(Len(s) + 2)
  PROVE  \E f : /\ \A j \in i..(Len(s) + 2) : /\ f[j] \in j..(Len(s) + 2)
                                              /\ f[j] = SkippedFrom(s, f, j)
                                              /\ Begins(s, f[j])
                /\ AfterSeparators(s, i) = f[i]
<1> DEFINE n == Len(s)
           X == i..(n + 2)
           step == [j \in i..(n + 2) |-> [g \in [(j + 1)..(n + 2) -> X] |-> SkippedFrom(s, g, j)]]
<1>1. n \in Nat /\ n + 2 \in Nat /\ i \in Nat /\ i <= n + 2
  BY Characters
<1>2. ASSUME NEW j \in i..(n + 2), NEW g, \A k \in (j + 1)..(n + 2) : g[k] \in X
      PROVE  SkippedFrom(s, g, j) \in X
  <2>1. j \in Nat /\ j \in X
    BY <1>1
  <2> HIDE DEF X
  <2> QED
    BY <1>2, <2>1, SkippedFacts
<1>3. \A j \in i..(n + 2) : step[j] \in [[(j + 1)..(n + 2) -> X] -> X]
  <2> HIDE DEF X
  <2> QED
    BY <1>2
<1> HIDE DEF X
<1>4. PICK f \in [i..(n + 2) -> X] :
        \A j \in i..(n + 2) : f[j] = step[j][[k \in (j + 1)..(n + 2) |-> f[k]]]
  <2> HIDE DEF step, n
  <2>1. DeterminedDown(i, n + 2, X, step)
    BY <1>1, <1>3, RecursionDown
  <2> QED
    BY <2>1 DEF DeterminedDown
<1>5. ASSUME NEW j \in i..(n + 2) PROVE f[j] = SkippedFrom(s, f, j)
  <2> DEFINE g == [k \in (j + 1)..(n + 2) |-> f[k]]
  <2>1. g \in [(j + 1)..(n + 2) -> X]
    BY <1>1
  <2>2. f[j] = SkippedFrom(s, g, j)
    <3>1. f[j] = step[j][g]
      BY <1>4
    <3> HIDE DEF g
    <3> QED
      BY <2>1, <3>1
  <2>3. SkippedFrom(s, g, j) = SkippedFrom(s, f, j)
    <3>1. \A k \in (j + 1)..(n + 2) : g[k] = f[k]
      OBVIOUS
    <3> HIDE DEF g
    <3>2. j \in Nat
      BY <1>1
    <3> QED
      BY <3>1, <3>2, SkippedFacts
  <2> QED
    BY <2>2, <2>3
<1> DEFINE after == CHOOSE h : h = [j \in i..(n + 2) |->
                       CASE Ch(s, j) \in Separators -> h[j + 1]
                         [] Ch(s, j) = "\"" -> SkipFrom(Closes(s, j), h, j)
                         [] OTHER -> j]
<1>6. f = [j \in i..(n + 2) |-> SkippedFrom(s, f, j)]
  BY <1>5
<1>7. after = [j \in i..(n + 2) |-> SkippedFrom(s, after, j)]
  BY <1>6 DEF SkippedFrom
<1>8. AfterSeparators(s, i) = after[i]
  BY DEF AfterSeparators
<1> HIDE DEF after
<1> DEFINE Good(j) == after[j] \in j..(n + 2) /\ Begins(s, after[j])
           S == { j \in i..(n + 2) : Good(j) }
<1>9. i..(n + 2) \subseteq S
  <2>1. ASSUME NEW j \in i..(n + 2), \A k \in (j + 1)..(n + 2) : k \in S
        PROVE  j \in S
    <3>1. after[j] = SkippedFrom(s, after, j)
      BY <1>7
    <3>2. CASE after[j] = j /\ Begins(s, j)
      BY <1>1, <3>2
    <3>3. ASSUME NEW k \in (j + 1)..(n + 2), after[j] = after[k]
          PROVE  j \in S
      <4>1. Good(k) /\ j \in i..(n + 2)
        BY <2>1
      <4>2. after[k] \in j..(n + 2)
        BY <1>1, <4>1
      <4> QED
        BY <3>3, <4>1, <4>2
    <3> HIDE DEF S
    <3>4. j \in Nat
      BY <1>1, <2>1
    <3> QED
      BY <3>1, <3>2, <3>3, <3>4, SkippedFacts
  <2> HIDE DEF S
  <2>2. \A j \in i..(n + 2) : (\A k \in (j + 1)..(n + 2) : k \in S) => j \in S
    BY <2>1
  <2>3. PICK lo \in Nat, hi \in Nat : lo = i /\ hi = n + 2
    BY <1>1
  <2>4. \A j \in lo..hi : (\A k \in (j + 1)..hi : k \in S) => j \in S
    BY <2>2, <2>3
  <2>5. lo..hi \subseteq S
    BY <2>4, DownFrom
  <2> QED
    BY <2>3, <2>5
<1>10. \A j \in i..(n + 2) : Good(j) /\ after[j] = SkippedFrom(s, after, j)
  BY <1>7, <1>9
<1> QED
  BY <1>8, <1>10

-----------------------------------------------------------------------------
(* Tokens.                                                                 *)

(* The radix is kept in a byte.                                            *)
WithDigit(x, d) == (10 * x + d) % 256

(* The digits of a radix, any number of them, leave a byte.                *)
LEMMA BaseFacts ==
  ASSUME NEW digits, digits \in Seq(Numeric)
  PROVE  Base(digits) \in 0..255
<1> DEFINE n == Len(digits)
           X == 0..255
           step == [k \in 1..n |-> [x \in X |-> WithDigit(x, DigitValue(digits[k]))]]
<1>1. n \in Nat /\ \A k \in 1..n : digits[k] \in Numeric
  OBVIOUS
<1>2. \A ch \in Numeric : DigitValue(ch) \in 0..35
  <2> SUFFICES ASSUME NEW ch \in Numeric PROVE DigitValue(ch) \in 0..35
    OBVIOUS
  <2>1. DOMAIN DigitChars = 1..36
    BY DEF DigitChars
  <2>2. \E j \in DOMAIN DigitChars : DigitChars[j] = ch
    BY <2>1 DEF Numeric, DigitsBelow
  <2>3. (CHOOSE j \in DOMAIN DigitChars : DigitChars[j] = ch) \in 1..36
    BY <2>1, <2>2
  <2> QED
    BY <2>3 DEF DigitValue
<1>3. \A x \in X, d \in 0..35 : WithDigit(x, d) \in X
  BY DEF WithDigit
<1>4. step \in [1..n -> [X -> X]] /\ 0 \in X
  <2>1. 0 \in X
    OBVIOUS
  <2>2. \A k \in 1..n : DigitValue(digits[k]) \in 0..35
    BY <1>1, <1>2
  <2> HIDE DEF X, n
  <2> QED
    BY <1>3, <2>1, <2>2
<1> HIDE DEF X
<1>5. PICK f \in [0..n -> X] : f[0] = 0 /\ \A k \in 1..n : f[k] = step[k][f[k - 1]]
  <2> HIDE DEF X, step, n
  <2>1. Determined(n, X, 0, step)
    BY <1>1, <1>4, Recursion
  <2> QED
    BY <2>1 DEF Determined
<1>6. f = [k \in 0..n |-> IF k = 0 THEN 0 ELSE WithDigit(f[k - 1], DigitValue(digits[k]))]
  <2> SUFFICES ASSUME NEW k \in 0..n, k # 0
               PROVE  f[k] = WithDigit(f[k - 1], DigitValue(digits[k]))
    <3> HIDE DEF step
    <3> QED
      BY <1>5
  <2>1. k \in 1..n /\ f[k - 1] \in X
    BY <1>1
  <2>2. f[k] = step[k][f[k - 1]]
    BY <1>5, <2>1
  <2> QED
    BY <2>1, <2>2
<1> DEFINE value == CHOOSE h : h = [k \in 0..n |->
                      IF k = 0 THEN 0 ELSE (10 * h[k - 1] + DigitValue(digits[k])) % 256]
<1>7. value = [k \in 0..n |->
                 IF k = 0 THEN 0 ELSE WithDigit(value[k - 1], DigitValue(digits[k]))]
  BY <1>6 DEF WithDigit
<1>8. Base(digits) = value[n]
  BY DEF Base
<1> HIDE DEF value
<1> DEFINE S == { k \in 0..n : value[k] \in X }
<1>9. 0..n \subseteq S
  <2>1. 0 \in S
    BY <1>1, <1>4, <1>7
  <2>2. ASSUME NEW k \in 1..n, k - 1 \in S PROVE k \in S
    <3>1. value[k] = WithDigit(value[k - 1], DigitValue(digits[k]))
      BY <1>1, <1>7
    <3>2. DigitValue(digits[k]) \in 0..35 /\ value[k - 1] \in X
      BY <1>1, <1>2, <2>2
    <3>3. value[k] \in X
      BY <1>3, <3>1, <3>2
    <3> QED
      BY <1>1, <3>3
  <2> HIDE DEF S
  <2> QED
    BY <1>1, <2>1, <2>2, UpTo
<1>10. n \in S
  <2> HIDE DEF S
  <2> QED
    BY <1>1, <1>9
<1> QED
  BY <1>8, <1>10 DEF X

(* A number ends behind its digits, or never.                              *)
LEMMA NumberFacts ==
  ASSUME NEW s, IsText(s), NEW i \in 1..Len(s), Ch(s, i) \in Numeric
  PROVE  LET e == EndOfNumber(s, i, EndOf(s, i, Numeric)) IN
         e = 0 \/ e \in (i + 1)..(Len(s) + 1)
<1> DEFINE n == Len(s)
           r == EndOf(s, i, Numeric)
<1>1. n \in Nat /\ i \in 1..(n + 1)
  BY Characters
<1>2. r \in (i + 1)..(n + 1) /\ \A k \in i..(r - 1) : Ch(s, k) \in Numeric
  <2>1. r \in i..(n + 1) /\ r > i /\ \A k \in i..(r - 1) : Ch(s, k) \in Numeric
    <3> HIDE DEF r
    <3> QED
      BY <1>1, EndOfFacts, NoClassEnds DEF r
  <2> HIDE DEF r
  <2> QED
    BY <1>1, <2>1
<1> HIDE DEF r
<1>3. SubSeq(s, i, r - 1) \in Seq(Numeric)
  <2>1. s \in Seq(ToSet(s)) /\ \A k \in i..(r - 1) : k \in 1..n /\ s[k] \in Numeric
    BY <1>1, <1>2, Characters DEF IsText
  <2>2. SubSeq(s, i, r - 1) = [k \in 1..(r - i) |-> s[i + k - 1]]
    BY <1>1, <1>2, <2>1
  <2>3. \A k \in 1..(r - i) : s[i + k - 1] \in Numeric
    BY <1>1, <1>2, <2>1
  <2>4. r - i \in Nat
    BY <1>1, <1>2
  <2>5. PICK m \in Nat : m = r - i
    BY <2>4
  <2>6. [k \in 1..m |-> s[i + k - 1]] \in [1..m -> Numeric]
    BY <2>3, <2>5
  <2>7. [1..m -> Numeric] \subseteq Seq(Numeric)
    OBVIOUS
  <2> QED
    BY <2>2, <2>5, <2>6, <2>7
<1> DEFINE base == Base(SubSeq(s, i, r - 1))
<1>4. base \in 0..255
  BY <1>3, BaseFacts
<1> HIDE DEF base
<1>5. CASE Ch(s, r) # "r"
  BY <1>1, <1>2, <1>5 DEF EndOfNumber, r
<1>6. CASE Ch(s, r) = "r"
  <2>1. r \in 1..n
    <3>1. "r" # EOI
      BY DEF EOI
    <3> QED
      BY <1>6, <3>1, InText
  <2>2. EndOfNumber(s, i, r) = EndOfRadix(s, r + 1, base)
    BY <1>6 DEF EndOfNumber, base
  <2>3. CASE base > 36
    BY <2>2, <2>3 DEF EndOfRadix, r
  <2>4. CASE ~(base > 36)
    <3> DEFINE first == IF Ch(s, r + 1) = "-" THEN r + 2 ELSE r + 1
    <3>1. first \in (r + 1)..(n + 1)
      <4>1. CASE Ch(s, r + 1) = "-"
        <5>1. "-" # EOI
          BY DEF EOI
        <5>2. r + 1 \in 1..n
          BY <4>1, <5>1, InText
        <5> QED
          BY <1>1, <2>1, <4>1, <5>2
      <4> QED
        BY <1>1, <2>1, <4>1
    <3>2. EndOfRadix(s, r + 1, base) = EndOf(s, first, DigitsBelow(base))
      <4>1. (r + 1) + 1 = r + 2
        BY <1>1, <1>2
      <4> QED
        BY <2>4, <4>1 DEF EndOfRadix
    <3> HIDE DEF first
    <3>3. base \in 0..36
      BY <1>4, <2>4
    <3>4. first \in 1..(n + 1)
      BY <1>1, <2>1, <3>1
    <3>5. EndOf(s, first, DigitsBelow(base)) \in first..(n + 1)
      BY <3>3, <3>4, EndOfFacts, NoClassEnds
    <3>6. EndOfNumber(s, i, r) \in (i + 1)..(n + 1)
      BY <1>1, <1>2, <2>1, <2>2, <3>1, <3>2, <3>5
    <3> QED
      BY <3>6 DEF r
  <2> QED
    BY <2>3, <2>4
<1> QED
  BY <1>5, <1>6

(* A token goes forward, unless it is the last: at the end of input, or    *)
(* one that never ends.                                                    *)
Forward(s, i, t) ==
  /\ t = <<t[1], t[2]>>
  /\ t[2] \in i..(Len(s) + 2)
  /\ t[1] \notin Closing => t[2] > i
  /\ t[1] = "END" => Ch(s, i) = EOI
  /\ Ch(s, i) = EOI => t = <<"END", i>>

(* That the place after a token lies ahead is all there is to show.        *)
LEMMA ForwardTo ==
  ASSUME NEW s, IsText(s), NEW i \in 1..(Len(s) + 2), NEW type, type \notin Closing, NEW e,
         Ch(s, i) # EOI, e \in (i + 1)..(Len(s) + 2)
  PROVE  Forward(s, i, <<type, e>>)
<1>1. Len(s) \in Nat
  BY Characters
<1>2. type # "END"
  BY DEF Closing
<1>3. e \in i..(Len(s) + 2) /\ e > i
  BY <1>1
<1> QED
  BY <1>2, <1>3 DEF Forward

(* What readToken reads at any character is such a token.                  *)
LEMMA ScanFacts ==
  ASSUME NEW s, IsText(s), NEW i \in 1..(Len(s) + 2)
  PROVE  Forward(s, i, Scan(s, i))
<1> DEFINE n == Len(s)
           ch == Ch(s, i)
           next == Ch(s, i + 1)
<1>1. n \in Nat
  BY Characters
<1>2. ch # EOI => i \in 1..n
  BY InText
<1>3. next # EOI => i + 1 \in 1..n
  BY InText
<1> HIDE DEF ch, next
<1>4. ASSUME NEW type, type \notin Closing, i \in 1..n, ch # EOI
      PROVE  Forward(s, i, <<type, i + 1>>) /\ Forward(s, i, <<type, i + 2>>)
  <2>1. i + 1 \in (i + 1)..(n + 2) /\ i + 2 \in (i + 1)..(n + 2)
    BY <1>1, <1>4
  <2> QED
    BY <1>4, <2>1, ForwardTo DEF ch
<1>5. ASSUME NEW c, c # EOI, ch = c PROVE i \in 1..n /\ ch # EOI
  BY <1>2, <1>5
<1>6. ch \in DOMAIN Single => Forward(s, i, <<Single[ch], i + 1>>)
  <2> SUFFICES ASSUME ch \in DOMAIN Single PROVE Forward(s, i, <<Single[ch], i + 1>>)
    OBVIOUS
  <2>1. Single[ch] \notin Closing
    BY DEF Single, Closing
  <2>2. ch # EOI
    BY NoClassEnds
  <2>3. i \in 1..n
    BY <1>2, <2>2
  <2> QED
    BY <1>4, <2>1, <2>2, <2>3
<1>7. ch \in DOMAIN Lonely => Forward(s, i, <<Lonely[ch], i + 1>>)
  <2> SUFFICES ASSUME ch \in DOMAIN Lonely PROVE Forward(s, i, <<Lonely[ch], i + 1>>)
    OBVIOUS
  <2>1. Lonely[ch] \notin Closing
    BY DEF Lonely, Closing
  <2>2. ch # EOI
    BY NoClassEnds
  <2>3. i \in 1..n
    BY <1>2, <2>2
  <2> QED
    BY <1>4, <2>1, <2>2, <2>3
<1>8. /\ {":", "|", "$", "#", "'", "\""} \cap {EOI} = {}
      /\ {"ASSIGN", "COLON", "BAR", "CHAR", "ARRAY_OPEN", "SYMBOL_START", "STRING", "UNCLOSED_STRING",
          "UNCLOSED_COMMENT", "DIGIT", "KEYWORD", "IDENTIFIER", "SPECIAL_CHARS", "UNKNOWN"}
           \cap Closing = {}
  BY DEF EOI, Closing
<1>9. ch = ":" => Forward(s, i, <<"ASSIGN", i + 2>>) /\ Forward(s, i, <<"COLON", i + 1>>)
  BY <1>4, <1>5, <1>8
<1>10. ch = "|" => Forward(s, i, <<"BAR", i + 1>>)
  BY <1>4, <1>5, <1>8
<1>11. ch = "$" => Forward(s, i, <<"CHAR", i + 2>>)
  BY <1>4, <1>5, <1>8
<1>12. ch = "#" => Forward(s, i, <<"ARRAY_OPEN", i + 2>>) /\ Forward(s, i, <<"SYMBOL_START", i + 1>>)
  BY <1>4, <1>5, <1>8
<1>13. ASSUME ch \in {"'", "\""}, NEW type, type \notin Closing
       PROVE  Forward(s, i, <<type, Quoted(s, i).end>>)
  <2>1. i \in 1..n /\ ch # EOI
    BY <1>5, <1>8, <1>13
  <2>2. Quoted(s, i).end \in (i + 1)..(n + 2)
    BY <1>1, <2>1, ClosesFacts
  <2> QED
    BY <1>13, <2>1, <2>2, ForwardTo DEF ch
<1>14. ch = "'" => Forward(s, i, <<IF Closes(s, i) > 0 THEN "STRING" ELSE "UNCLOSED_STRING",
                                   Quoted(s, i).end>>)
  BY <1>8, <1>13
<1>15. ch = "\"" => Forward(s, i, <<"UNCLOSED_COMMENT", Quoted(s, i).end>>)
  BY <1>8, <1>13
<1>16. ch = EOI => Forward(s, i, <<"END", i>>)
  <2>1. i \in i..(n + 2)
    BY <1>1
  <2> QED
    BY <2>1 DEF Forward, Closing, ch
<1>17. ch \in Numeric =>
         Forward(s, i, Digits(s, EndOfNumber(s, i, EndOf(s, i, Numeric))))
  <2> SUFFICES ASSUME ch \in Numeric
               PROVE  Forward(s, i, Digits(s, EndOfNumber(s, i, EndOf(s, i, Numeric))))
    OBVIOUS
  <2> DEFINE e == EndOfNumber(s, i, EndOf(s, i, Numeric))
  <2>1. i \in 1..n /\ ch # EOI
    BY <1>5, NoClassEnds
  <2>2. e = 0 \/ e \in (i + 1)..(n + 1)
    BY <2>1, NumberFacts DEF ch
  <2> HIDE DEF e
  <2>3. CASE e = 0
    <3>1. Digits(s, e) = <<"ENDLESS", n + 1>>
      BY <2>3 DEF Digits
    <3>2. n + 1 \in i..(n + 2)
      BY <1>1, <2>1
    <3> QED
      BY <2>1, <3>1, <3>2 DEF Forward, Closing, ch, e
  <2>4. CASE e \in (i + 1)..(n + 1)
    <3>1. Digits(s, e) = <<"DIGIT", e>>
      BY <1>1, <2>1, <2>4 DEF Digits
    <3>2. e \in (i + 1)..(n + 2)
      BY <1>1, <2>4
    <3>3. Forward(s, i, <<"DIGIT", e>>)
      BY <1>8, <2>1, <3>2, ForwardTo DEF ch
    <3> QED
      BY <3>1, <3>3 DEF e
  <2> QED
    BY <2>2, <2>3, <2>4
<1>18. ch \in IdentifierBegining => Forward(s, i, Word(s, EndOf(s, i, Identifier)))
  <2> SUFFICES ASSUME ch \in IdentifierBegining
               PROVE  Forward(s, i, Word(s, EndOf(s, i, Identifier)))
    OBVIOUS
  <2> DEFINE e == EndOf(s, i, Identifier)
  <2>1. i \in 1..n /\ ch # EOI /\ ch \in Identifier
    BY <1>5, NoClassEnds DEF Identifier
  <2>2. i \in 1..(n + 1)
    BY <1>1, <2>1
  <2>3. e \in i..(n + 1) /\ e > i
    BY <2>1, <2>2, EndOfFacts, NoClassEnds DEF ch
  <2> HIDE DEF e
  <2>4. e \in (i + 1)..(n + 2)
    BY <1>1, <2>1, <2>3
  <2>5. Ch(s, e) = ":" => e + 1 \in (i + 1)..(n + 2)
    <3> SUFFICES ASSUME Ch(s, e) = ":" PROVE e + 1 \in (i + 1)..(n + 2)
      OBVIOUS
    <3>1. Ch(s, e) # EOI
      BY <1>8
    <3>2. e \in 1..n
      BY <3>1, InText
    <3> QED
      BY <1>1, <2>1, <2>4, <3>2
  <2>6. Forward(s, i, <<"IDENTIFIER", e>>)
    BY <1>8, <2>1, <2>4, ForwardTo DEF ch
  <2>7. Ch(s, e) = ":" => Forward(s, i, <<"KEYWORD", e + 1>>)
    BY <1>8, <2>1, <2>5, ForwardTo DEF ch
  <2>8. Forward(s, i, Word(s, e))
    BY <2>6, <2>7 DEF Word
  <2> QED
    BY <2>8 DEF e
<1>19. ch \in Special => Forward(s, i, <<"SPECIAL_CHARS", EndOf(s, i, Special)>>)
  <2> SUFFICES ASSUME ch \in Special
               PROVE  Forward(s, i, <<"SPECIAL_CHARS", EndOf(s, i, Special)>>)
    OBVIOUS
  <2>1. i \in 1..n /\ ch # EOI
    BY <1>5, NoClassEnds
  <2>2. i \in 1..(n + 1)
    BY <1>1, <2>1
  <2>3. EndOf(s, i, Special) \in i..(n + 1) /\ EndOf(s, i, Special) > i
    BY <2>2, EndOfFacts, NoClassEnds DEF ch
  <2>4. EndOf(s, i, Special) \in (i + 1)..(n + 2)
    BY <1>1, <2>1, <2>3
  <2> QED
    BY <1>8, <2>1, <2>4, ForwardTo DEF ch
<1>20. ch # EOI => Forward(s, i, <<"UNKNOWN", i + 1>>)
  BY <1>2, <1>4, <1>8
<1> DEFINE single == <<Single[ch], i + 1>>
           lonely == <<Lonely[ch], i + 1>>
           assign == <<"ASSIGN", i + 2>>
           colon == <<"COLON", i + 1>>
           bar == <<"BAR", i + 1>>
           char == <<"CHAR", i + 2>>
           array == <<"ARRAY_OPEN", i + 2>>
           symbol == <<"SYMBOL_START", i + 1>>
           quoted == <<IF Closes(s, i) > 0 THEN "STRING" ELSE "UNCLOSED_STRING", Quoted(s, i).end>>
           comment == <<"UNCLOSED_COMMENT", Quoted(s, i).end>>
           closing == <<"END", i>>
           number == Digits(s, EndOfNumber(s, i, EndOf(s, i, Numeric)))
           word == Word(s, EndOf(s, i, Identifier))
           special == <<"SPECIAL_CHARS", EndOf(s, i, Special)>>
           unknown == <<"UNKNOWN", i + 1>>
<1> DEFINE singleAt == ch \in DOMAIN Single
           lonelyAt == ch \in DOMAIN Lonely /\ next \notin Special
           assignAt == ch = ":" /\ next = "="
           colonAt == ch = ":" /\ next # "="
           barAt == ch = "|" /\ next # "|"
           charAt == ch = "$"
           arrayAt == ch = "#" /\ next = "("
           symbolAt == ch = "#" /\ next # "("
           quotedAt == ch = "'"
           commentAt == ch = "\""
           closingAt == ch = EOI
           numberAt == ch \in Numeric
           wordAt == ch \in IdentifierBegining
           specialAt == /\ ch \in Special /\ ~(ch \in DOMAIN Lonely /\ next \notin Special)
                        /\ ~(ch = "|" /\ next # "|")
<1>21. Scan(s, i) = CASE singleAt -> single
          [] lonelyAt -> lonely
          [] assignAt -> assign
          [] colonAt -> colon
          [] barAt -> bar
          [] charAt -> char
          [] arrayAt -> array
          [] symbolAt -> symbol
          [] quotedAt -> quoted
          [] commentAt -> comment
          [] closingAt -> closing
          [] numberAt -> number
          [] wordAt -> word
          [] specialAt -> special
          [] OTHER -> unknown
  BY DEF Scan, ch, next
<1>22. /\ singleAt => Forward(s, i, single)
       /\ lonelyAt => Forward(s, i, lonely)
       /\ assignAt => Forward(s, i, assign)
       /\ colonAt => Forward(s, i, colon)
       /\ barAt => Forward(s, i, bar)
       /\ charAt => Forward(s, i, char)
       /\ arrayAt => Forward(s, i, array)
       /\ symbolAt => Forward(s, i, symbol)
       /\ quotedAt => Forward(s, i, quoted)
       /\ commentAt => Forward(s, i, comment)
       /\ closingAt => Forward(s, i, closing)
       /\ numberAt => Forward(s, i, number)
       /\ wordAt => Forward(s, i, word)
       /\ specialAt => Forward(s, i, special)
       /\ ~closingAt => Forward(s, i, unknown)
  BY <1>6, <1>7, <1>9, <1>10, <1>11, <1>12, <1>14, <1>15, <1>16, <1>17, <1>18, <1>19, <1>20
<1> HIDE DEF singleAt, lonelyAt, assignAt, colonAt, barAt, charAt, arrayAt, symbolAt, quotedAt, commentAt,
             closingAt, numberAt, wordAt, specialAt, single, lonely, assign, colon, bar, char, array, symbol,
             quoted, comment, closing, number, word, special, unknown
<1> QED
  BY <1>21, <1>22

(* The token of the end of input.                                          *)
Final(separated) == [type |-> "END", content |-> <<>>, separated |-> separated]

(* Reading goes forward, unless it reads the last token, and goes on       *)
(* reading the end of input from there.                                    *)
LEMMA ReadFacts ==
  ASSUME NEW s, IsText(s), NEW i \in 1..(Len(s) + 2)
  PROVE  LET r == Read(s, i) IN
         /\ r.end \in i..(Len(s) + 2)
         /\ r.token.type \notin Closing => r.end > i
         /\ r.token.type = "END" => /\ Ch(s, r.end) = EOI
                                    /\ \E separated \in BOOLEAN : r.token = Final(separated)
         /\ Ch(s, i) = EOI => r.token = Final(FALSE) /\ r.end = i
<1> DEFINE n == Len(s)
           start == AfterSeparators(s, i)
           t == Scan(s, start)
           r == Read(s, i)
<1>1. n \in Nat
  BY Characters
<1>2. start \in i..(n + 2) /\ (Ch(s, i) = EOI => start = i)
  <2>1. PICK f : /\ \A j \in i..(n + 2) : f[j] \in j..(n + 2) /\ f[j] = SkippedFrom(s, f, j)
                 /\ start = f[i]
    BY SeparatorsFacts
  <2>2. i \in i..(n + 2)
    BY <1>1
  <2>3. Ch(s, i) = EOI => SkippedFrom(s, f, i) = i
    BY NoClassEnds DEF SkippedFrom
  <2> QED
    BY <2>1, <2>2, <2>3
<1> HIDE DEF start
<1>3. start \in 1..(n + 2) /\ Forward(s, start, t)
  <2>1. start \in 1..(n + 2)
    BY <1>1, <1>2
  <2> QED
    BY <2>1, ScanFacts
<1> DEFINE apart == start > i
<1>4. /\ r.token.type = t[1] /\ r.end = t[2]
      /\ r.token = [type |-> t[1],
                    content |-> IF Ch(s, start) \in {"'", "\""} THEN Quoted(s, start).content
                                ELSE Between(s, start, t[2]),
                    separated |-> apart]
  BY DEF Read, ReadFrom, TokenFrom, start
<1>5. apart \in BOOLEAN /\ (start = i => apart = FALSE)
  <2>1. ~(i > i)
    BY <1>1
  <2> QED
    BY <2>1
<1> HIDE DEF t, r, apart
<1>6. t[2] \in start..(n + 2) /\ (t[1] \notin Closing => t[2] > start)
  BY <1>3 DEF Forward
<1>7. ASSUME t[1] = "END"
      PROVE  Ch(s, start) = EOI /\ t[2] = start /\ r.token = Final(apart)
  <2>1. Ch(s, start) = EOI /\ t = <<"END", start>>
    BY <1>3, <1>7 DEF Forward
  <2>2. Ch(s, start) \notin {"'", "\""}
    BY <2>1 DEF EOI
  <2>3. Between(s, start, start) = <<>>
    <3>1. 1 .. start - start = {}
      BY <1>3
    <3> QED
      BY <3>1 DEF Between
  <2> QED
    BY <1>4, <2>1, <2>2, <2>3 DEF Final
<1>8. ASSUME Ch(s, i) = EOI
      PROVE  r.token = Final(FALSE) /\ r.end = i
  <2>1. start = i /\ t[1] = "END"
    <3>1. start = i
      BY <1>2, <1>8
    <3> QED
      BY <1>3, <1>8, <3>1 DEF Forward
  <2>2. apart = FALSE
    BY <1>5, <2>1
  <2>3. r.token = Final(apart) /\ t[2] = start
    BY <1>7, <2>1
  <2> QED
    BY <1>4, <2>1, <2>2, <2>3
<1>9. t[2] \in i..(n + 2) /\ (t[1] \notin Closing => t[2] > i)
  BY <1>1, <1>2, <1>3, <1>6
<1>10. r.token.type = "END" => /\ Ch(s, r.end) = EOI
                               /\ \E separated \in BOOLEAN : r.token = Final(separated)
  BY <1>4, <1>5, <1>7
<1> QED
  BY <1>4, <1>8, <1>9, <1>10 DEF r

-----------------------------------------------------------------------------
(* All tokens.                                                             *)

Followed(r, rest) ==
  <<r.token>> \o (IF r.token.type \in Closing THEN <<>> ELSE rest[r.end])

(* The tokens from each place of a text on.                                *)
TokensFrom(s) == CHOOSE from : from = [i \in 1 .. Len(s) + 2 |-> Followed(Read(s, i), from)]

TokensIn(s) == { Read(s, i).token : i \in 1..(Len(s) + 2) }

(* The last token ends the text, and no other does.                        *)
Ended(list) ==
  /\ Len(list) \in Nat \ {0}
  /\ \A k \in 1..Len(list) : list[k].type \in Closing <=> k = Len(list)
  /\ list[Len(list)].type = "END" => \E separated \in BOOLEAN : list[Len(list)] = Final(separated)

(* A token before tokens that end the text, or the last one alone.         *)
LEMMA FollowedFacts ==
  ASSUME NEW s, IsText(s), NEW i \in 1..(Len(s) + 2), NEW rest, NEW r, r = Read(s, i),
         r.token.type \notin Closing =>
            rest[r.end] \in Seq(TokensIn(s)) /\ Ended(rest[r.end])
  PROVE  /\ Followed(r, rest) \in Seq(TokensIn(s)) /\ Ended(Followed(r, rest))
         /\ Followed(r, rest)[1] = r.token
         /\ r.token.type \in Closing <=> Len(Followed(r, rest)) = 1
         /\ r.token.type \notin Closing => Tail(Followed(r, rest)) = rest[r.end]
<1>1. r.token \in TokensIn(s)
  BY DEF TokensIn
<1>2. r.token.type = "END" => \E separated \in BOOLEAN : r.token = Final(separated)
  BY ReadFacts
<1> DEFINE whole == Followed(r, rest)
<1>3. CASE r.token.type \in Closing
  <2>1. whole = <<r.token>>
    BY <1>3 DEF Followed
  <2> QED
    BY <1>1, <1>2, <1>3, <2>1 DEF Ended
<1>4. CASE r.token.type \notin Closing
  <2> DEFINE list == rest[r.end]
             T == TokensIn(s)
  <2>1. whole = <<r.token>> \o list /\ list \in Seq(T) /\ Ended(list)
    BY <1>4 DEF Followed
  <2> HIDE DEF whole, list, T
  <2>2. /\ whole \in Seq(T) /\ Len(whole) = Len(list) + 1 /\ whole[1] = r.token
        /\ \A k \in 2..(Len(list) + 1) : whole[k] = list[k - 1]
    BY <1>1, <2>1 DEF T
  <2>3. Tail(whole) = list
    BY <1>1, <2>1 DEF T
  <2>4. Len(list) \in Nat \ {0}
    BY <2>1 DEF Ended
  <2>5. \A k \in 1..Len(whole) : whole[k].type \in Closing <=> k = Len(whole)
    <3> SUFFICES ASSUME NEW k \in 1..Len(whole) PROVE whole[k].type \in Closing <=> k = Len(whole)
      OBVIOUS
    <3>1. CASE k = 1
      BY <1>4, <2>2, <2>4, <3>1
    <3>2. CASE k # 1
      <4>1. k - 1 \in 1..Len(list) /\ k \in 2..(Len(list) + 1)
        BY <2>2, <2>4, <3>2
      <4>2. list[k - 1].type \in Closing <=> k - 1 = Len(list)
        BY <2>1, <4>1 DEF Ended
      <4> QED
        BY <2>2, <2>4, <4>1, <4>2
    <3> QED
      BY <3>1, <3>2
  <2>6. whole[Len(whole)] = list[Len(list)]
    BY <2>2, <2>4
  <2>7. Ended(whole)
    BY <2>1, <2>2, <2>4, <2>5, <2>6 DEF Ended
  <2> QED
    BY <1>4, <2>2, <2>3, <2>4, <2>7 DEF whole, list, T
<1> QED
  BY <1>3, <1>4

(* The definition of the tokens of a text has a solution: every token is   *)
(* followed by those behind it.                                            *)
LEMMA TokensFacts ==
  ASSUME NEW s, IsText(s)
  PROVE  /\ \A i \in 1..(Len(s) + 2) : /\ TokensFrom(s)[i] \in Seq(TokensIn(s))
                                       /\ Ended(TokensFrom(s)[i])
                                       /\ TokensFrom(s)[i] = Followed(Read(s, i), TokensFrom(s))
         /\ TokensOf(s) = TokensFrom(s)[1]
<1> DEFINE n == Len(s)
           X == Seq(TokensIn(s))
           step == [i \in 1..(n + 2) |-> [g \in [(i + 1)..(n + 2) -> X] |-> Followed(Read(s, i), g)]]
<1>1. n \in Nat /\ 1 \in Nat /\ n + 2 \in Nat /\ 1 <= n + 2
  BY Characters
<1>2. ASSUME NEW i \in 1..(n + 2)
      PROVE  /\ Read(s, i).token \in TokensIn(s)
             /\ Read(s, i).token.type \notin Closing => Read(s, i).end \in (i + 1)..(n + 2)
  <2>1. Read(s, i).end \in i..(n + 2) /\ (Read(s, i).token.type \notin Closing => Read(s, i).end > i)
    BY ReadFacts
  <2> QED
    BY <1>1, <2>1 DEF TokensIn
<1>3. ASSUME NEW i \in 1..(n + 2), NEW g, \A k \in (i + 1)..(n + 2) : g[k] \in X
      PROVE  Followed(Read(s, i), g) \in X
  <2>1. <<Read(s, i).token>> \in X /\ <<>> \in X
    BY <1>2
  <2>2. (IF Read(s, i).token.type \in Closing THEN <<>> ELSE g[Read(s, i).end]) \in X
    <3> HIDE DEF X
    <3> QED
      BY <1>2, <1>3, <2>1
  <2>3. \A x, y \in X : x \o y \in X
    OBVIOUS
  <2> HIDE DEF X
  <2> QED
    BY <2>1, <2>2, <2>3 DEF Followed
<1>4. \A i \in 1..(n + 2) : step[i] \in [[(i + 1)..(n + 2) -> X] -> X]
  <2> HIDE DEF X
  <2> QED
    BY <1>3
<1> HIDE DEF X
<1>5. PICK f \in [1..(n + 2) -> X] :
        \A i \in 1..(n + 2) : f[i] = step[i][[k \in (i + 1)..(n + 2) |-> f[k]]]
  <2> HIDE DEF step, n
  <2>1. DeterminedDown(1, n + 2, X, step)
    BY <1>1, <1>4, RecursionDown
  <2> QED
    BY <2>1 DEF DeterminedDown
<1>6. ASSUME NEW i \in 1..(n + 2) PROVE f[i] = Followed(Read(s, i), f)
  <2> DEFINE g == [k \in (i + 1)..(n + 2) |-> f[k]]
  <2>1. g \in [(i + 1)..(n + 2) -> X]
    BY <1>1
  <2>2. f[i] = Followed(Read(s, i), g)
    <3>1. f[i] = step[i][g]
      BY <1>5
    <3> HIDE DEF g
    <3> QED
      BY <2>1, <3>1
  <2>3. Read(s, i).token.type \notin Closing => g[Read(s, i).end] = f[Read(s, i).end]
    BY <1>2
  <2> HIDE DEF g
  <2>4. Followed(Read(s, i), g) = Followed(Read(s, i), f)
    BY <2>3 DEF Followed
  <2> QED
    BY <2>2, <2>4
<1>7. f = [i \in 1 .. n + 2 |-> Followed(Read(s, i), f)]
  BY <1>6
<1> DEFINE from == TokensFrom(s)
<1>8. from = [i \in 1 .. n + 2 |-> Followed(Read(s, i), from)]
  BY <1>7 DEF TokensFrom
<1>9. TokensOf(s) = from[1]
  BY DEF TokensOf, TokensFrom, Followed
<1> HIDE DEF from
<1> DEFINE S == { i \in 1..(n + 2) : from[i] \in X /\ Ended(from[i]) }
<1>10. 1..(n + 2) \subseteq S
  <2>1. ASSUME NEW i \in 1..(n + 2), \A k \in (i + 1)..(n + 2) : k \in S
        PROVE  i \in S
    <3>1. Read(s, i).token.type \notin Closing =>
            from[Read(s, i).end] \in X /\ Ended(from[Read(s, i).end])
      BY <1>2, <2>1
    <3>2. Followed(Read(s, i), from) \in X /\ Ended(Followed(Read(s, i), from))
      BY <3>1, FollowedFacts DEF X
    <3> QED
      BY <1>8, <3>2
  <2> HIDE DEF S
  <2>2. \A i \in 1..(n + 2) : (\A k \in (i + 1)..(n + 2) : k \in S) => i \in S
    BY <2>1
  <2> QED
    BY <1>1, <2>2, DownFrom
<1>11. \A i \in 1..(n + 2) : /\ from[i] \in X /\ Ended(from[i])
                            /\ from[i] = Followed(Read(s, i), from)
  BY <1>8, <1>10
<1> QED
  BY <1>9, <1>11 DEF X, from

-----------------------------------------------------------------------------
(* The ring.                                                               *)

(* TokenCursor's answer, of a list of tokens.                              *)
TokenOf(list, i) ==
  IF i <= Len(list) THEN list[i] ELSE [list[Len(list)] EXCEPT !.separated = FALSE]

(* Two indexes less than the size of the ring apart have slots of their    *)
(* own.                                                                    *)
LEMMA SlotsDiffer ==
  ASSUME NEW a \in Nat \ {0}, NEW b \in Nat, a < b, b - a < MAX_TOKENS, TokenizerAssumption
  PROVE  Slot(a) # Slot(b) /\ Slot(b) \in 0..(MAX_TOKENS - 1)
<1>1. MAX_TOKENS \in Nat \ {0}
  BY DEF TokenizerAssumption
<1> DEFINE m == MAX_TOKENS
           q == (a - 1) \div m
           r == (a - 1) % m
           p == (b - 1) \div m
<1>2. /\ a - 1 = m * q + r /\ q \in Nat /\ r \in 0..(m - 1)
  BY <1>1
<1>3. b - 1 = m * p + ((b - 1) % m) /\ p \in Nat /\ (b - 1) % m \in 0..(m - 1)
  <2>1. PICK h \in Nat : h = b - 1
    OBVIOUS
  <2>2. h = m * (h \div m) + (h % m) /\ h \div m \in Nat /\ h % m \in 0..(m - 1)
    BY <1>1
  <2> QED
    BY <2>1, <2>2
<1> HIDE DEF q, p, r
<1>4. ASSUME (b - 1) % m = r PROVE FALSE
  <2>1. b - a = m * p - m * q
    BY <1>1, <1>2, <1>3, <1>4
  <2>2. m * p - m * q = m * (p - q)
    BY <1>1, <1>2, <1>3
  <2>3. CASE p <= q
    <3>1. PICK d \in Nat : d = q - p
      BY <1>2, <1>3, <2>3
    <3>2. m * q = m * (p + d) /\ m * (p + d) = m * p + m * d
      BY <1>1, <1>2, <1>3, <3>1
    <3>3. m * d \in Nat /\ m * p \in Nat
      BY <1>1, <1>3
    <3> QED
      BY <1>1, <2>1, <3>2, <3>3
  <2>4. CASE p > q
    <3>1. PICK d \in Nat : d = p - q - 1
      BY <1>2, <1>3, <2>4
    <3>2. m * (p - q) = m * d + m
      BY <1>1, <1>2, <1>3, <3>1
    <3>3. m * d >= 0
      BY <1>1
    <3> QED
      BY <1>1, <2>1, <2>2, <3>2, <3>3
  <2> QED
    BY <1>2, <1>3, <2>3, <2>4
<1> QED
  BY <1>3, <1>4 DEF Slot, r

Held(s) == TokensIn(s) \cup {NoToken}

(* The ring holds the last of the first count tokens of a text, and the    *)
(* next is read from this place.                                           *)
RingHolds(s, list, ring, place, count) ==
  /\ ring \in [0..(MAX_TOKENS - 1) -> Held(s)]
  /\ place \in 1..(Len(s) + 2)
  /\ count \in Nat \ {0}
  /\ \A k \in 1..count : k > count - MAX_TOKENS => ring[Slot(k)] = TokenOf(list, k)
  /\ count < Len(list) => TokensFrom(s)[place] = SubSeq(list, count + 1, Len(list))
  /\ count >= Len(list) => Ch(s, place) = EOI

(* No token up to an index is endless.                                     *)
ReadableIn(list, i) == \A k \in 1..Len(list) : k <= i => list[k].type # "ENDLESS"

(* Reading one token more keeps that.                                      *)
LEMMA ReadStep ==
  ASSUME TokenizerAssumption, NEW s, IsText(s), NEW list, list = TokensOf(s), NEW ring, NEW place,
         NEW count, RingHolds(s, list, ring, place, count), ReadableIn(list, count + 1),
         NEW r, r = Read(s, place)
  PROVE  RingHolds(s, list, [ring EXCEPT ![Slot(count + 1)] = r.token], r.end, count + 1)
<1> DEFINE n == Len(s)
           last == Len(list)
           new == [ring EXCEPT ![Slot(count + 1)] = r.token]
           from == TokensFrom(s)
<1>1. /\ n \in Nat /\ count \in Nat \ {0} /\ place \in 1..(n + 2)
      /\ ring \in [0..(MAX_TOKENS - 1) -> Held(s)]
      /\ MAX_TOKENS \in Nat \ {0, 1}
  BY Characters DEF RingHolds, TokenizerAssumption
<1>2. Slot(count + 1) \in 0..(MAX_TOKENS - 1)
  BY <1>1, SlotsDiffer
<1>3. r.token \in Held(s) /\ r.end \in 1..(n + 2)
  <2>1. r.end \in place..(n + 2)
    BY <1>1, ReadFacts
  <2> QED
    BY <1>1, <2>1 DEF Held, TokensIn
<1>4. list \in Seq(TokensIn(s)) /\ Ended(list)
  <2>1. 1 \in 1..(n + 2)
    BY <1>1
  <2> QED
    BY <2>1, TokensFacts
<1>5. last \in Nat \ {0}
  BY <1>4 DEF Ended
<1>6. /\ r.token = TokenOf(list, count + 1)
      /\ count + 1 < last => from[r.end] = SubSeq(list, count + 2, last)
      /\ count + 1 >= last => Ch(s, r.end) = EOI
  <2>1. CASE count < last
    <3>1. from[place] = SubSeq(list, count + 1, last)
      BY <2>1 DEF RingHolds
    <3>2. /\ from[place] = Followed(r, from)
          /\ r.token.type \notin Closing => from[r.end] \in Seq(TokensIn(s)) /\ Ended(from[r.end])
      BY <1>1, <1>3, TokensFacts
    <3>3. /\ from[place][1] = r.token
          /\ r.token.type \in Closing <=> Len(from[place]) = 1
          /\ r.token.type \notin Closing => Tail(from[place]) = from[r.end]
      <4> HIDE DEF from
      <4> QED
        BY <1>1, <3>2, FollowedFacts
    <3>4. /\ Len(from[place]) = last - count
          /\ from[place][1] = list[count + 1]
          /\ count + 1 < last => Tail(from[place]) = SubSeq(list, count + 2, last)
      <4>1. SubSeq(list, count + 1, last) = [k \in 1..(last - count) |-> list[count + k]]
        BY <1>1, <1>4, <1>5, <2>1
      <4>2. count + 1 < last =>
              Tail(SubSeq(list, count + 1, last)) = SubSeq(list, count + 2, last)
        BY <1>1, <1>4, <1>5, <2>1
      <4>3. PICK d \in Nat \ {0} : d = last - count
        BY <1>1, <1>5, <2>1
      <4>4. from[place] = [k \in 1..d |-> list[count + k]]
        BY <3>1, <4>1, <4>3
      <4>5. /\ Len([k \in 1..d |-> list[count + k]]) = d
            /\ [k \in 1..d |-> list[count + k]][1] = list[count + 1]
        OBVIOUS
      <4>6. Len(from[place]) = d /\ from[place][1] = list[count + 1]
        BY <4>4, <4>5
      <4>7. count + 1 < last => Tail(from[place]) = SubSeq(list, count + 2, last)
        BY <3>1, <4>2
      <4> QED
        BY <4>3, <4>6, <4>7
    <3> HIDE DEF from
    <3>5. r.token = list[count + 1] /\ TokenOf(list, count + 1) = list[count + 1]
      BY <1>1, <1>5, <2>1, <3>3, <3>4 DEF TokenOf
    <3>6. r.token.type \in Closing <=> count + 1 = last
      BY <1>1, <1>5, <2>1, <3>3, <3>4
    <3>7. ASSUME count + 1 >= last PROVE Ch(s, r.end) = EOI
      <4>1. count + 1 = last
        BY <1>1, <1>5, <2>1, <3>7
      <4>2. r.token.type # "ENDLESS"
        BY <1>1, <1>5, <3>5, <4>1 DEF ReadableIn
      <4>3. r.token.type = "END"
        BY <3>6, <4>1, <4>2 DEF Closing
      <4> QED
        BY <1>1, <4>3, ReadFacts
    <3>8. count + 1 < last => from[r.end] = SubSeq(list, count + 2, last)
      <4>1. count + 1 < last => ~(count + 1 = last)
        BY <1>1, <1>5
      <4> QED
        BY <3>3, <3>4, <3>6, <4>1
    <3> QED
      BY <3>5, <3>7, <3>8
  <2>2. CASE count >= last
    <3>1. Ch(s, place) = EOI
      BY <2>2 DEF RingHolds
    <3>2. r.token = Final(FALSE) /\ r.end = place
      BY <1>1, <3>1, ReadFacts
    <3>3. list[last].type = "END"
      <4>1. list[last].type \in Closing
        BY <1>4, <1>5 DEF Ended
      <4>2. list[last].type # "ENDLESS"
        BY <1>1, <1>5, <2>2 DEF ReadableIn
      <4> QED
        BY <4>1, <4>2 DEF Closing
    <3>4. PICK separated \in BOOLEAN : list[last] = Final(separated)
      <4>1. list[last].type = "END" => \E separated \in BOOLEAN : list[last] = Final(separated)
        BY <1>4, Zenon DEF Ended
      <4> QED
        BY <3>3, <4>1
    <3>5. [Final(separated) EXCEPT !.separated = FALSE] = Final(FALSE)
      <4> DEFINE final == Final(separated)
      <4>1. /\ DOMAIN final = {"type", "content", "separated"}
            /\ final.type = "END" /\ final.content = <<>>
        BY DEF Final
      <4> HIDE DEF final
      <4>2. ASSUME NEW x PROVE [final EXCEPT !.separated = x] = Final(x)
        BY <4>1 DEF Final
      <4> QED
        BY <4>2 DEF final
    <3>6. TokenOf(list, count + 1) = Final(FALSE)
      <4>1. ~(count + 1 <= last)
        BY <1>1, <1>5, <2>2
      <4> QED
        BY <3>4, <3>5, <4>1 DEF TokenOf
    <3>7. ~(count + 1 < last)
      BY <1>1, <1>5, <2>2
    <3> QED
      BY <3>1, <3>2, <3>6, <3>7
  <2> QED
    BY <1>1, <1>5, <2>1, <2>2
<1>7. ASSUME NEW k \in 1..(count + 1), k > count + 1 - MAX_TOKENS
      PROVE  new[Slot(k)] = TokenOf(list, k)
  <2>1. CASE k = count + 1
    BY <1>1, <1>2, <1>6, <2>1
  <2>2. CASE k # count + 1
    <3>1. k \in 1..count /\ k > count - MAX_TOKENS
      BY <1>1, <1>7, <2>2
    <3>2. Slot(k) # Slot(count + 1)
      BY <1>1, <1>7, <2>2, SlotsDiffer
    <3>3. ring[Slot(k)] = TokenOf(list, k)
      BY <3>1 DEF RingHolds
    <3>4. new[Slot(k)] = ring[Slot(k)]
      <4>1. Slot(k) \in 0..(MAX_TOKENS - 1)
        BY <1>1 DEF Slot
      <4> QED
        BY <1>1, <3>2, <4>1
    <3> QED
      BY <3>3, <3>4
  <2> QED
    BY <2>1, <2>2
<1>8. new \in [0..(MAX_TOKENS - 1) -> Held(s)]
  BY <1>1, <1>3
<1> HIDE DEF new, from
<1>9. count + 1 \in Nat \ {0} /\ (count + 1) + 1 = count + 2
  BY <1>1
<1>10. RingHolds(s, list, new, r.end, count + 1)
  BY <1>3, <1>6, <1>7, <1>8, <1>9 DEF RingHolds, from
<1> QED
  BY <1>10 DEF new

(* The ring and the place after one token more.                            *)
Stored(s, x, k) ==
  [tokens |-> [x.tokens EXCEPT ![Slot(k)] = Read(s, x.at).token], at |-> Read(s, x.at).end]

(* Reading any number of tokens keeps that the ring holds the last ones.   *)
LEMMA ReadingFacts ==
  ASSUME TokenizerAssumption, IsText(text), stream = TokensOf(text),
         RingHolds(text, stream, tokens, at, tokenized), NEW count \in Nat,
         ReadableIn(stream, tokenized + count)
  PROVE  RingHolds(text, stream, Reading(count).tokens, Reading(count).at, tokenized + count)
<1> DEFINE n == Len(text)
           X == [tokens : [0..(MAX_TOKENS - 1) -> Held(text)], at : 1..(n + 2)]
           b == [tokens |-> tokens, at |-> at]
           step == [k \in 1..count |-> [x \in X |-> Stored(text, x, tokenized + k)]]
<1>1. /\ n \in Nat /\ tokenized \in Nat \ {0} /\ at \in 1..(n + 2)
      /\ tokens \in [0..(MAX_TOKENS - 1) -> Held(text)]
      /\ MAX_TOKENS \in Nat \ {0, 1}
  BY Characters DEF RingHolds, TokenizerAssumption
<1>2. b \in X
  BY <1>1
<1>3. ASSUME NEW x \in X, NEW k PROVE Stored(text, x, k) \in X
  <2>1. x.at \in 1..(n + 2) /\ x.tokens \in [0..(MAX_TOKENS - 1) -> Held(text)]
    OBVIOUS
  <2>2. Read(text, x.at).end \in 1..(n + 2) /\ Read(text, x.at).token \in Held(text)
    <3>1. Read(text, x.at).end \in (x.at)..(n + 2)
      BY <2>1, ReadFacts
    <3> QED
      BY <1>1, <2>1, <3>1 DEF Held, TokensIn
  <2>3. [x.tokens EXCEPT ![Slot(k)] = Read(text, x.at).token] \in [0..(MAX_TOKENS - 1) -> Held(text)]
    BY <2>1, <2>2
  <2> QED
    BY <2>2, <2>3 DEF Stored
<1>4. step \in [1..count -> [X -> X]]
  <2> HIDE DEF X
  <2> QED
    BY <1>3
<1> HIDE DEF X, b
<1>5. PICK f \in [0..count -> X] : f[0] = b /\ \A k \in 1..count : f[k] = step[k][f[k - 1]]
  <2> HIDE DEF step
  <2>1. Determined(count, X, b, step)
    BY <1>2, <1>4, Recursion
  <2> QED
    BY <2>1 DEF Determined
<1>6. f = [k \in 0..count |-> IF k = 0 THEN b ELSE Stored(text, f[k - 1], tokenized + k)]
  <2> SUFFICES ASSUME NEW k \in 0..count, k # 0
               PROVE  f[k] = Stored(text, f[k - 1], tokenized + k)
    <3> HIDE DEF step
    <3> QED
      BY <1>5
  <2>1. k \in 1..count /\ f[k - 1] \in X
    OBVIOUS
  <2>2. f[k] = step[k][f[k - 1]]
    BY <1>5, <2>1
  <2> QED
    BY <2>1, <2>2
<1> DEFINE after == CHOOSE h : h = [k \in 0..count |->
                      IF k = 0 THEN [tokens |-> tokens, at |-> at]
                      ELSE [tokens |-> [h[k - 1].tokens EXCEPT
                                          ![Slot(tokenized + k)] = Read(text, h[k - 1].at).token],
                            at |-> Read(text, h[k - 1].at).end]]
<1>7. after = [k \in 0..count |->
                 IF k = 0 THEN b ELSE Stored(text, after[k - 1], tokenized + k)]
  BY <1>6 DEF Stored, b
<1>8. Reading(count) = after[count]
  BY DEF Reading
<1> HIDE DEF after
<1> DEFINE Good(k) == RingHolds(text, stream, after[k].tokens, after[k].at, tokenized + k)
           S == { k \in 0..count : Good(k) }
<1>9. 0..count \subseteq S
  <2>1. 0 \in S
    <3>1. after[0] = b /\ tokenized + 0 = tokenized
      BY <1>1, <1>7
    <3>2. Good(0)
      BY <3>1 DEF b
    <3> QED
      BY <3>2
  <2>2. ASSUME NEW k \in 1..count, k - 1 \in S PROVE k \in S
    <3> DEFINE x == after[k - 1]
               m == tokenized + (k - 1)
    <3>1. RingHolds(text, stream, x.tokens, x.at, m)
      BY <2>2
    <3>2. m + 1 = tokenized + k
      BY <1>1
    <3>3. ReadableIn(stream, m + 1)
      <4>1. m + 1 <= tokenized + count
        BY <1>1
      <4>2. Len(stream) \in Nat
        <5>1. 1 \in 1..(n + 2)
          BY <1>1
        <5> QED
          BY <5>1, TokensFacts DEF Ended
      <4> HIDE DEF m
      <4>3. m \in Nat
        BY <1>1 DEF m
      <4> QED
        BY <1>1, <4>1, <4>2, <4>3 DEF ReadableIn
    <3> HIDE DEF x, m
    <3>4. RingHolds(text, stream, [x.tokens EXCEPT ![Slot(m + 1)] = Read(text, x.at).token],
                    Read(text, x.at).end, m + 1)
      BY <3>1, <3>3, ReadStep
    <3>5. after[k] = Stored(text, x, m + 1)
      BY <1>7, <3>2 DEF x
    <3>6. /\ after[k].tokens = [x.tokens EXCEPT ![Slot(m + 1)] = Read(text, x.at).token]
          /\ after[k].at = Read(text, x.at).end
      BY <3>5 DEF Stored
    <3>7. Good(k)
      BY <3>2, <3>4, <3>6
    <3> QED
      BY <3>7
  <2> HIDE DEF S
  <2> QED
    BY <2>1, <2>2, UpTo
<1>10. count \in S
  <2> HIDE DEF S
  <2> QED
    BY <1>9
<1> QED
  BY <1>8, <1>10

-----------------------------------------------------------------------------
(* The invariant.                                                          *)

(* The ring holds the last tokens that were read, none of them endless,    *)
(* and the current one is among them.                                      *)
RingInv ==
  /\ IsText(text)
  /\ stream = TokensOf(text)
  /\ RingHolds(text, stream, tokens, at, tokenized)
  /\ ReadableIn(stream, tokenized)
  /\ tokenIndex \in 1..tokenized
  /\ tokenIndex > tokenized - MAX_TOKENS

(* initTokenizer makes a ring with one token.                              *)
LEMMA RingInit ==
  ASSUME TokenizerAssumption, Init
  PROVE  RingInv /\ C!Init
<1>1. IsText(text)
  BY DEF Init, TokenizerAssumption, IsText
<1> DEFINE r == Read(text, 1)
           n == Len(text)
<1>2. /\ r.token.type # "ENDLESS" /\ at = r.end /\ answer = r.token
      /\ tokens = [s \in 0 .. MAX_TOKENS - 1 |-> IF s = 0 THEN r.token ELSE NoToken]
      /\ tokenIndex = 1 /\ tokenized = 1 /\ stream = TokensOf(text)
  BY DEF Init
<1>3. n \in Nat /\ 1 \in 1..(n + 2)
  BY <1>1, Characters
<1>4. /\ r.end \in 1..(n + 2) /\ r.token \in TokensIn(text)
      /\ r.token.type = "END" => Ch(text, r.end) = EOI
  BY <1>1, <1>3, ReadFacts DEF TokensIn
<1>5. stream = Followed(r, TokensFrom(text)) /\ Ended(stream)
  BY <1>1, <1>2, <1>3, TokensFacts
<1>6. /\ stream[1] = r.token
      /\ r.token.type \in Closing <=> Len(stream) = 1
      /\ r.token.type \notin Closing => Tail(stream) = TokensFrom(text)[r.end]
  <2>1. /\ TokensFrom(text)[r.end] \in Seq(TokensIn(text))
        /\ Ended(TokensFrom(text)[r.end])
    BY <1>1, <1>4, TokensFacts
  <2> HIDE DEF r
  <2> QED
    BY <1>1, <1>3, <1>5, <2>1, FollowedFacts DEF r
<1>7. Len(stream) \in Nat \ {0}
  BY <1>5 DEF Ended
<1>8. stream \in Seq(TokensIn(text))
  BY <1>1, <1>2, <1>3, TokensFacts
<1>9. (1 < Len(stream) => Len(stream) # 1) /\ (1 >= Len(stream) => Len(stream) = 1)
  <2>1. PICK last \in Nat \ {0} : last = Len(stream)
    BY <1>7
  <2>2. (1 < last => last # 1) /\ (1 >= last => last = 1)
    OBVIOUS
  <2> QED
    BY <2>1, <2>2
<1> HIDE DEF r
<1>10. MAX_TOKENS \in Nat \ {0, 1}
  BY DEF TokenizerAssumption
<1>11. RingHolds(text, stream, tokens, at, 1)
  <2>1. tokens \in [0..(MAX_TOKENS - 1) -> Held(text)]
    BY <1>2, <1>4 DEF Held
  <2>2. \A k \in 1..1 : tokens[Slot(k)] = TokenOf(stream, k)
    <3>1. Slot(1) = 0 /\ 0 \in 0 .. MAX_TOKENS - 1
      BY <1>10 DEF Slot
    <3>2. tokens[Slot(1)] = r.token
      BY <1>2, <3>1
    <3> QED
      BY <1>6, <1>7, <3>2 DEF TokenOf
  <2>3. ASSUME 1 < Len(stream) PROVE TokensFrom(text)[at] = SubSeq(stream, 1 + 1, Len(stream))
    <3>1. TokensFrom(text)[at] = Tail(stream)
      <4>1. Len(stream) # 1
        BY <1>9, <2>3
      <4>2. r.token.type \notin Closing
        BY <1>6, <4>1
      <4> QED
        BY <1>2, <1>6, <4>2
    <3>2. Tail(stream) = SubSeq(stream, 2, Len(stream))
      BY <1>7, <1>8, <2>3
    <3> QED
      BY <3>1, <3>2
  <2>4. ASSUME 1 >= Len(stream) PROVE Ch(text, at) = EOI
    <3>1. r.token.type \in Closing
      <4>1. Len(stream) = 1
        BY <1>9, <2>4
      <4> QED
        BY <1>6, <4>1
    <3> QED
      BY <1>2, <1>4, <3>1 DEF Closing
  <2> QED
    <3>1. at \in 1..(Len(text) + 2) /\ 1 \in Nat \ {0}
      BY <1>2, <1>4
    <3>2. \A k \in 1..1 : k > 1 - MAX_TOKENS => tokens[Slot(k)] = TokenOf(stream, k)
      BY <2>2
    <3> QED
      BY <2>1, <2>3, <2>4, <3>1, <3>2 DEF RingHolds
<1>12. ReadableIn(stream, 1)
  BY <1>2, <1>6, <1>7 DEF ReadableIn
<1>13. C!Init
  BY <1>2, <1>6, <1>7 DEF C!Init, C!TokenAt
<1>14. 1 > 1 - MAX_TOKENS
  BY <1>10
<1> QED
  BY <1>1, <1>2, <1>11, <1>12, <1>13, <1>14 DEF RingInv

(* Once a token that is not too far ahead is filled, the ring has it, and  *)
(* the current one still.                                                  *)
LEMMA FilledFacts ==
  ASSUME TokenizerAssumption, RingInv, NEW i \in Nat, i >= tokenIndex,
         i <= tokenIndex + (MAX_TOKENS - 1), Filled(i), UNCHANGED <<text, stream>>
  PROVE  /\ IsText(text)' /\ stream' = TokensOf(text')
         /\ RingHolds(text, stream, tokens, at, tokenized)'
         /\ ReadableIn(stream, tokenized)'
         /\ tokenIndex \in 1..tokenized' /\ i \in 1..tokenized'
         /\ tokenIndex > tokenized' - MAX_TOKENS
         /\ tokens'[Slot(i)] = C!TokenAt(i)
<1> DEFINE count == IF i > tokenized THEN i - tokenized ELSE 0
<1>1. /\ MAX_TOKENS \in Nat \ {0, 1} /\ tokenized \in Nat \ {0} /\ tokenIndex \in 1..tokenized
      /\ tokenIndex > tokenized - MAX_TOKENS
      /\ Len(stream) \in Nat
  <2>1. 1 \in 1..(Len(text) + 2)
    BY Characters DEF RingInv
  <2>2. Len(stream) \in Nat
    BY <2>1, TokensFacts DEF RingInv, Ended
  <2> QED
    BY <2>2 DEF RingInv, RingHolds, TokenizerAssumption
<1>2. /\ Readable(i) /\ tokens' = Reading(count).tokens /\ at' = Reading(count).at
      /\ tokenized' = tokenized + count
  BY DEF Filled, Fill
<1>3. count \in Nat /\ (count = 0 \/ tokenized + count = i) /\ i <= tokenized + count
  BY <1>1
<1> HIDE DEF count
<1>4. ReadableIn(stream, tokenized + count)
  <2>1. CASE count = 0
    BY <1>1, <2>1 DEF RingInv
  <2>2. CASE tokenized + count = i
    <3>1. DOMAIN stream = 1..Len(stream)
      <4>1. 1 \in 1..(Len(text) + 2)
        BY Characters DEF RingInv
      <4>2. stream \in Seq(TokensIn(text))
        BY <4>1, TokensFacts DEF RingInv
      <4> QED
        BY <4>2
    <3> QED
      BY <1>2, <2>2, <3>1 DEF Readable, ReadableIn
  <2> QED
    BY <1>3, <2>1, <2>2
<1>5. RingHolds(text, stream, tokens', at', tokenized')
  <2>1. RingHolds(text, stream, Reading(count).tokens, Reading(count).at, tokenized + count)
    BY <1>3, <1>4, ReadingFacts DEF RingInv
  <2> QED
    BY <1>2, <2>1
<1>6. /\ tokenized' \in Nat /\ tokenIndex \in 1..tokenized' /\ i \in 1..tokenized'
      /\ tokenIndex > tokenized' - MAX_TOKENS /\ i > tokenized' - MAX_TOKENS
  BY <1>1, <1>2, <1>3
<1>7. tokens'[Slot(i)] = TokenOf(stream, i)
  BY <1>5, <1>6 DEF RingHolds
<1>8. TokenOf(stream, i) = C!TokenAt(i)
  BY DEF TokenOf, C!TokenAt
<1>9. RingHolds(text, stream, tokens, at, tokenized)' /\ ReadableIn(stream, tokenized)'
  <2>1. text' = text /\ stream' = stream
    OBVIOUS
  <2> QED
    BY <1>2, <1>4, <1>5, <2>1 DEF RingHolds, ReadableIn
<1>10. IsText(text)' /\ stream' = TokensOf(text')
  BY DEF RingInv, IsText
<1> QED
  BY <1>6, <1>7, <1>8, <1>9, <1>10

(* An action that fills no slot.                                           *)
LEMMA KeptFacts ==
  ASSUME RingInv, UNCHANGED <<text, at, tokens, tokenized, stream>>,
         tokenIndex' \in 1..tokenized, tokenIndex' > tokenized - MAX_TOKENS
  PROVE  RingInv'
BY DEF RingInv, IsText, RingHolds, ReadableIn

(* Each step is a step of the cursor, and keeps the invariant.             *)
LEMMA RingStep ==
  ASSUME TokenizerAssumption, RingInv, [Next]_vars
  PROVE  RingInv' /\ [C!Next]_<<stream, tokenIndex, answer>>
<1>1. /\ MAX_TOKENS \in Nat \ {0, 1} /\ tokenized \in Nat \ {0} /\ tokenIndex \in 1..tokenized
      /\ tokenIndex > tokenized - MAX_TOKENS
      /\ \A k \in 1..tokenized : k > tokenized - MAX_TOKENS => tokens[Slot(k)] = C!TokenAt(k)
  BY DEF RingInv, RingHolds, TokenizerAssumption, TokenOf, C!TokenAt
<1> DEFINE Distance == MAX_TOKENS - 1
<1>2. Distance \in Nat \ {0}
  BY <1>1
<1> HIDE DEF Distance
<1>3. ASSUME NEW steps \in 1..Distance, Filled(tokenIndex + steps), UNCHANGED <<text, stream>>
      PROVE  /\ tokens'[Slot(tokenIndex + steps)] = C!TokenAt(tokenIndex + steps)
             /\ tokenIndex' \in {tokenIndex, tokenIndex + steps} => RingInv'
  <2>1. /\ tokenIndex + steps \in Nat /\ tokenIndex + steps >= tokenIndex
        /\ tokenIndex + steps <= tokenIndex + (MAX_TOKENS - 1)
    BY <1>1, <1>2, <1>3 DEF Distance
  <2>2. /\ IsText(text)' /\ stream' = TokensOf(text')
        /\ RingHolds(text, stream, tokens, at, tokenized)'
        /\ ReadableIn(stream, tokenized)'
        /\ tokenIndex \in 1..tokenized' /\ tokenIndex + steps \in 1..tokenized'
        /\ tokenIndex > tokenized' - MAX_TOKENS
        /\ tokens'[Slot(tokenIndex + steps)] = C!TokenAt(tokenIndex + steps)
    BY <1>3, <2>1, FilledFacts
  <2>3. tokenIndex + steps > tokenized' - MAX_TOKENS
    <3>1. tokenized' \in Nat
      BY <2>2 DEF RingHolds
    <3> QED
      BY <1>1, <1>2, <2>2, <3>1
  <2> QED
    BY <2>2, <2>3 DEF RingInv
<1>4. CASE PeekToken
  <2>1. 1 \in 1..Distance
    BY <1>2
  <2>2. /\ Filled(tokenIndex + 1) /\ UNCHANGED <<text, stream, tokenIndex>>
        /\ answer' = tokens'[Slot(tokenIndex + 1)]
    BY <1>4 DEF PeekToken
  <2>3. C!Look(tokenIndex + 1) /\ RingInv'
    BY <1>3, <2>1, <2>2 DEF C!Look
  <2> QED
    BY <2>1, <2>3 DEF C!Next, Distance
<1>5. CASE PrevToken
  <2>1. tokenIndex - 1 \in 1..tokenized /\ tokenIndex - 1 > tokenized - MAX_TOKENS /\ tokenIndex > 1
    BY <1>1, <1>5 DEF PrevToken
  <2>2. C!Look(tokenIndex - 1)
    BY <1>1, <1>5, <2>1 DEF PrevToken, C!Look
  <2>3. RingInv'
    BY <1>1, <1>5, KeptFacts DEF PrevToken
  <2> QED
    BY <2>1, <2>2, <2>3 DEF C!Next
<1>6. ASSUME NEW type \in Types, PeekForToken(type)
      PROVE  RingInv' /\ [C!Next]_<<stream, tokenIndex, answer>>
  <2>1. 1 \in 1..Distance
    BY <1>2
  <2>2. /\ Filled(tokenIndex + 1) /\ UNCHANGED <<text, stream>>
        /\ LET token == tokens'[Slot(tokenIndex + 1)]
           IN  IF token.type = type
               THEN tokenIndex' = tokenIndex + 1 /\ answer' = token
               ELSE answer' = NoToken /\ UNCHANGED tokenIndex
    BY <1>6 DEF PeekForToken
  <2>3. tokens'[Slot(tokenIndex + 1)] = C!TokenAt(tokenIndex + 1)
    BY <1>3, <2>1, <2>2
  <2>4. tokenIndex' \in {tokenIndex, tokenIndex + 1}
    BY <2>2
  <2>5. RingInv'
    BY <1>3, <2>1, <2>2, <2>4
  <2>6. C!PeekFor(type)
    BY <2>2, <2>3 DEF C!PeekFor, C!Move
  <2> QED
    BY <2>5, <2>6 DEF C!Next
<1>7. ASSUME NEW steps \in 0 .. MAX_TOKENS - 1, SkipForward(steps), steps > 0
      PROVE  RingInv' /\ [C!Next]_<<stream, tokenIndex, answer>>
  <2>1. steps \in 1..Distance /\ steps \in -Distance .. Distance /\ tokenIndex + steps >= 1
    BY <1>1, <1>2, <1>7 DEF Distance
  <2>2. /\ Filled(tokenIndex + steps) /\ UNCHANGED <<text, stream>>
        /\ tokenIndex' = tokenIndex + steps /\ answer' = tokens'[Slot(tokenIndex + steps)]
    BY <1>7 DEF SkipForward
  <2>3. C!Move(tokenIndex + steps) /\ RingInv'
    BY <1>3, <2>1, <2>2 DEF C!Move
  <2> QED
    BY <2>1, <2>3 DEF C!Next, C!Skip, Distance
<1>8. ASSUME NEW steps \in 0 .. MAX_TOKENS - 1, PeekNthToken(steps), steps > 0
      PROVE  RingInv' /\ [C!Next]_<<stream, tokenIndex, answer>>
  <2>1. steps \in 1..Distance
    BY <1>1, <1>8 DEF Distance
  <2>2. /\ Filled(tokenIndex + steps) /\ UNCHANGED <<text, stream, tokenIndex>>
        /\ answer' = tokens'[Slot(tokenIndex + steps)]
    BY <1>8 DEF PeekNthToken
  <2>3. C!Look(tokenIndex + steps) /\ RingInv'
    BY <1>3, <2>1, <2>2 DEF C!Look
  <2> QED
    BY <2>1, <2>3 DEF C!Next, Distance
<1>9. ASSUME NEW steps \in 0 .. MAX_TOKENS - 1, SkipBack(steps)
      PROVE  RingInv' /\ [C!Next]_<<stream, tokenIndex, answer>>
  <2>1. PICK back \in -Distance .. Distance : back = -steps
    BY <1>1, <1>9 DEF Distance
  <2>2. /\ ~(tokenIndex - steps = tokenized - MAX_TOKENS) /\ ~(tokenIndex - steps < 1)
        /\ tokenIndex + back = tokenIndex - steps /\ tokenIndex + back >= 1
    BY <1>1, <1>9, <2>1 DEF SkipBack, StepsTooFar
  <2>3. CASE tokenIndex - steps >= tokenized - MAX_TOKENS
    <3>1. tokenIndex' = tokenIndex - steps /\ answer' = tokens[Slot(tokenIndex - steps)]
      BY <1>9, <2>3 DEF SkipBack
    <3>2. tokenIndex - steps \in 1..tokenized /\ tokenIndex - steps > tokenized - MAX_TOKENS
      BY <1>1, <2>2, <2>3
    <3>3. RingInv'
      BY <1>9, <3>1, <3>2, KeptFacts DEF SkipBack
    <3>4. C!Move(tokenIndex + back)
      BY <1>1, <1>9, <2>2, <3>1, <3>2 DEF SkipBack, C!Move
    <3> QED
      BY <2>2, <3>3, <3>4 DEF C!Next, C!Skip, Distance
  <2>4. CASE ~(tokenIndex - steps >= tokenized - MAX_TOKENS)
    <3>1. answer' = NoToken /\ UNCHANGED <<tokenIndex, stream>>
      BY <1>9, <2>4 DEF SkipBack
    <3>2. back < 0
      BY <1>1, <2>1, <2>4
    <3>3. RingInv'
      BY <1>1, <1>9, <3>1, KeptFacts DEF SkipBack
    <3> QED
      BY <2>2, <3>1, <3>2, <3>3 DEF C!Next, C!Skip, Distance
  <2> QED
    BY <2>3, <2>4
<1>10. CASE UNCHANGED vars
  <2>1. UNCHANGED <<stream, tokenIndex, answer>>
    BY <1>10 DEF vars
  <2>2. RingInv'
    BY <1>1, <1>10, KeptFacts DEF vars
  <2> QED
    BY <2>1, <2>2
<1> QED
  BY <1>4, <1>5, <1>6, <1>7, <1>8, <1>9, <1>10 DEF Next

(* The ring holds the last tokens that were read, whatever the text.       *)
THEOREM RingHoldsAlways == Spec => []RingInv
<1>1. Init => RingInv
  BY RingInit, TokenizerAssumption
<1>2. RingInv /\ [Next]_vars => RingInv'
  BY RingStep, TokenizerAssumption
<1> QED
  BY <1>1, <1>2, PTL DEF Spec

(* The ring answers what a cursor over the tokens of the text answers: the *)
(* calls implement TokenCursor, for every text and every size of the ring  *)
(* (peekToken and the others of Tokenizer.c).                              *)
THEOREM ImplementsCursorHolds == Spec => ImplementsCursor
<1>1. Init => C!Init
  BY RingInit, TokenizerAssumption
<1>2. RingInv /\ [Next]_vars => [C!Next]_<<stream, tokenIndex, answer>>
  BY RingStep, TokenizerAssumption
<1> QED
  BY <1>1, <1>2, RingHoldsAlways, PTL DEF Spec, ImplementsCursor, C!Spec

-----------------------------------------------------------------------------
(* A text written anew.  First how pieces are joined.                      *)

(* What one piece before others makes.                                     *)
LEMMA Prepended ==
  ASSUME NEW B, NEW t \in B, NEW ss \in Seq(B)
  PROVE  /\ <<t>> \o ss \in Seq(B) /\ Len(<<t>> \o ss) = Len(ss) + 1 /\ (<<t>> \o ss)[1] = t
         /\ \A k \in 2..(Len(ss) + 1) : (<<t>> \o ss)[k] = ss[k - 1]
OBVIOUS

(* What FlattenSeq joins, piece by piece.                                  *)
LEMMA FlattenFacts ==
  ASSUME NEW A, NEW ss \in Seq(Seq(A)), Len(ss) # 0
  PROVE  \E f : /\ f \in [1..Len(ss) -> Seq(A)]
                /\ f[1] = ss[1]
                /\ \A i \in 2..Len(ss) : f[i] = f[i - 1] \o ss[i]
                /\ FlattenSeq(ss) = f[Len(ss)]
<1> DEFINE n == Len(ss)
           X == Seq(A)
           step == [i \in 1..n |-> [x \in X |-> x \o ss[i]]]
<1>1. n \in Nat \ {0} /\ \A i \in 1..n : ss[i] \in X
  OBVIOUS
<1>2. step \in [1..n -> [X -> X]] /\ <<>> \in X
  <2>1. \A x, y \in X : x \o y \in X
    OBVIOUS
  <2>2. <<>> \in X
    OBVIOUS
  <2> HIDE DEF X, n
  <2> QED
    BY <1>1, <2>1, <2>2
<1>3. PICK g \in [0..n -> X] : g[0] = <<>> /\ \A i \in 1..n : g[i] = step[i][g[i - 1]]
  <2> HIDE DEF X, step, n
  <2>1. Determined(n, X, <<>>, step)
    BY <1>1, <1>2, Recursion
  <2> QED
    BY <2>1 DEF Determined
<1> DEFINE f == [i \in 1..n |-> g[i]]
<1>4. \A i \in 1..n : g[i] = g[i - 1] \o ss[i] /\ g[i - 1] \in X /\ g[i] \in X
  <2> SUFFICES ASSUME NEW i \in 1..n
               PROVE  g[i] = g[i - 1] \o ss[i] /\ g[i - 1] \in X /\ g[i] \in X
    OBVIOUS
  <2>1. i - 1 \in 0..n /\ i \in 0..n
    BY <1>1
  <2>2. g[i - 1] \in X /\ g[i] \in X
    <3> HIDE DEF X
    <3> QED
      BY <1>3, <2>1
  <2>3. step[i] = [x \in X |-> x \o ss[i]]
    OBVIOUS
  <2> HIDE DEF X, step
  <2> QED
    BY <1>3, <2>2, <2>3
<1>5. g[1] = ss[1]
  <2>1. 1 \in 1..n /\ 1 - 1 = 0
    BY <1>1
  <2>2. ss[1] \in Seq(A) /\ <<>> \o ss[1] = ss[1]
    BY <1>1, <2>1
  <2>3. g[1] = g[1 - 1] \o ss[1]
    BY <1>4, <2>1
  <2> QED
    BY <1>3, <2>1, <2>2, <2>3
<1>6. f = [i \in 1..n |-> IF i = 1 THEN ss[i] ELSE f[i - 1] \o ss[i]]
  <2> SUFFICES ASSUME NEW i \in 1..n
               PROVE  f[i] = IF i = 1 THEN ss[i] ELSE f[i - 1] \o ss[i]
    OBVIOUS
  <2>1. CASE i = 1
    BY <1>1, <1>5, <2>1
  <2>2. CASE i # 1
    <3>1. i - 1 \in 1..n
      BY <1>1, <2>2
    <3>2. f[i] = g[i] /\ f[i - 1] = g[i - 1]
      BY <3>1
    <3> HIDE DEF f
    <3> QED
      BY <1>4, <2>2, <3>2
  <2> QED
    BY <2>1, <2>2
<1> DEFINE flat == CHOOSE h : h = [i \in 1..n |-> IF i = 1 THEN ss[i] ELSE h[i - 1] \o ss[i]]
<1>7. flat = [i \in 1..n |-> IF i = 1 THEN ss[i] ELSE flat[i - 1] \o ss[i]]
  <2> HIDE DEF f
  <2> QED
    BY <1>6
<1>8. FlattenSeq(ss) = flat[n]
  BY DEF FlattenSeq
<1> HIDE DEF flat, f
<1>9. flat[1] = ss[1] /\ \A i \in 2..n : flat[i] = flat[i - 1] \o ss[i]
  <2>1. 1 \in 1..n /\ \A i \in 2..n : i \in 1..n /\ i # 1
    BY <1>1
  <2>2. \A i \in 1..n : flat[i] = IF i = 1 THEN ss[i] ELSE flat[i - 1] \o ss[i]
    BY <1>7
  <2> QED
    BY <2>1, <2>2
<1> DEFINE S == { i \in 0..n : i > 0 => flat[i] \in X }
<1>10. 0..n \subseteq S
  <2>1. 0 \in S
    BY <1>1
  <2>2. ASSUME NEW i \in 1..n, i - 1 \in S PROVE i \in S
    <3>1. CASE i = 1
      BY <1>1, <1>9, <3>1
    <3>2. CASE i # 1
      <4>1. i \in 2..n /\ i - 1 > 0
        BY <1>1, <3>2
      <4>2. flat[i] = flat[i - 1] \o ss[i] /\ flat[i - 1] \in X /\ ss[i] \in X
        <5> HIDE DEF X
        <5> QED
          BY <1>1, <1>9, <2>2, <4>1
      <4>3. flat[i] \in X
        BY <4>2
      <4> HIDE DEF X
      <4> QED
        BY <1>1, <4>3
    <3> QED
      BY <3>1, <3>2
  <2> HIDE DEF S
  <2> QED
    BY <1>1, <2>1, <2>2, UpTo
<1>11. \A i \in 1..n : flat[i] \in X
  BY <1>1, <1>10
<1>12. flat \in [1..n -> X]
  BY <1>7, <1>11
<1> QED
  BY <1>8, <1>9, <1>12

(* Joined pieces are made of the same characters.                          *)
LEMMA FlattenType ==
  ASSUME NEW A, NEW ss \in Seq(Seq(A))
  PROVE  FlattenSeq(ss) \in Seq(A)
<1>1. CASE Len(ss) = 0
  <2>1. FlattenSeq(ss) = ss /\ ss = <<>>
    BY <1>1 DEF FlattenSeq
  <2> QED
    BY <2>1
<1>2. CASE Len(ss) # 0
  <2>1. PICK f \in [1..Len(ss) -> Seq(A)] : FlattenSeq(ss) = f[Len(ss)]
    BY <1>2, FlattenFacts
  <2>2. Len(ss) \in 1..Len(ss)
    BY <1>2
  <2> QED
    BY <2>1, <2>2
<1> QED
  BY <1>1, <1>2

(* The first piece stands before the others, joined.                       *)
LEMMA FlattenCons ==
  ASSUME NEW A, NEW ss \in Seq(Seq(A)), NEW x \in Seq(A)
  PROVE  /\ FlattenSeq(<<x>> \o ss) = x \o FlattenSeq(ss)
         /\ FlattenSeq(ss) \in Seq(A)
<1> DEFINE n == Len(ss)
           tt == <<x>> \o ss
<1>1. /\ n \in Nat /\ tt \in Seq(Seq(A)) /\ Len(tt) = n + 1 /\ tt[1] = x
      /\ \A i \in 1..n : tt[i + 1] = ss[i] /\ ss[i] \in Seq(A)
  OBVIOUS
<1> HIDE DEF tt
<1>2. PICK g : /\ g \in [1..(n + 1) -> Seq(A)] /\ g[1] = x
               /\ \A i \in 2..(n + 1) : g[i] = g[i - 1] \o tt[i]
               /\ FlattenSeq(tt) = g[n + 1]
  <2>1. Len(tt) # 0
    BY <1>1
  <2>2. \E g : /\ g \in [1..Len(tt) -> Seq(A)] /\ g[1] = tt[1]
               /\ \A i \in 2..Len(tt) : g[i] = g[i - 1] \o tt[i]
               /\ FlattenSeq(tt) = g[Len(tt)]
    BY <1>1, <2>1, FlattenFacts
  <2> HIDE DEF n
  <2> QED
    BY <1>1, <2>2
<1>3. CASE n = 0
  <2>1. FlattenSeq(ss) = <<>>
    BY <1>3 DEF FlattenSeq
  <2>2. FlattenSeq(tt) = x
    BY <1>2, <1>3
  <2> QED
    BY <2>1, <2>2, FlattenType DEF tt
<1>4. CASE n # 0
  <2>1. PICK f : /\ f \in [1..n -> Seq(A)] /\ f[1] = ss[1]
                 /\ \A i \in 2..n : f[i] = f[i - 1] \o ss[i]
                 /\ FlattenSeq(ss) = f[n]
    BY <1>4, FlattenFacts
  <2> DEFINE S == { i \in 0..n : i > 0 => g[i + 1] = x \o f[i] }
  <2>2. 0..n \subseteq S
    <3>1. 0 \in S
      BY <1>1
    <3>2. ASSUME NEW i \in 1..n, i - 1 \in S PROVE i \in S
      <4>1. i + 1 \in 2..(n + 1) /\ (i + 1) - 1 = i
        BY <1>1
      <4>2. g[i + 1] = g[i] \o ss[i]
        <5>1. g[i + 1] = g[(i + 1) - 1] \o tt[i + 1]
          BY <1>2, <4>1
        <5> QED
          BY <1>1, <4>1, <5>1
      <4>3. CASE i = 1
        <5>1. g[i + 1] = x \o f[i]
          BY <1>2, <2>1, <4>2, <4>3
        <5> QED
          BY <1>1, <5>1
      <4>4. CASE i # 1
        <5>1. i \in 2..n /\ i - 1 > 0 /\ (i - 1) + 1 = i /\ i - 1 \in 1..n
          BY <1>1, <4>4
        <5>2. g[i] = x \o f[i - 1] /\ f[i] = f[i - 1] \o ss[i]
          BY <2>1, <3>2, <5>1
        <5>3. f[i - 1] \in Seq(A) /\ ss[i] \in Seq(A)
          <6> HIDE DEF n
          <6> QED
            BY <1>1, <2>1, <5>1
        <5>4. (x \o f[i - 1]) \o ss[i] = x \o (f[i - 1] \o ss[i])
          <6>1. \A y, z \in Seq(A) : (x \o y) \o z = x \o (y \o z)
            OBVIOUS
          <6> QED
            BY <5>3, <6>1
        <5>5. g[i + 1] = x \o f[i]
          BY <4>2, <5>2, <5>4
        <5> QED
          BY <1>1, <5>5
      <4> QED
        BY <4>3, <4>4
    <3> HIDE DEF S
    <3> QED
      BY <1>1, <3>1, <3>2, UpTo
  <2>3. g[n + 1] = x \o f[n]
    <3>1. n \in 0..n /\ n > 0
      BY <1>1, <1>4
    <3>2. n \in S
      <4> HIDE DEF S
      <4> QED
        BY <2>2, <3>1
    <3> QED
      BY <3>1, <3>2
  <2> QED
    BY <1>2, <2>1, <2>3, FlattenType DEF tt
<1> QED
  BY <1>3, <1>4

-----------------------------------------------------------------------------
(* A token copied.  The characters from i to e of s stand in u, d places   *)
(* further on.  What follows them in s follows in u too, or a space where  *)
(* s has something that separates.                                         *)

Gaps == Separators \cup {"\""}

Same(a, b) == a = b \/ (b = " " /\ a \in Gaps)

Follows(s, e, u, d) ==
  /\ Same(Ch(s, e), Ch(u, e + d))
  /\ Ch(s, e) = ":" /\ Ch(s, e + 1) = "=" => Ch(u, e + 1 + d) = "="

Copied(s, i, e, u, d) ==
  /\ d \in Int /\ i + d \in Nat \ {0} /\ e + d <= Len(u) + 1
  /\ \A j \in i..(e - 1) : Ch(u, j + d) = Ch(s, j)
  /\ Follows(s, e, u, d)

(* Whatever is asked of a character does not tell the two apart.           *)
LEMMA SameClass ==
  ASSUME NEW a, NEW b, Same(a, b), NEW S, S \cap Gaps = {}
  PROVE  a \in S <=> b \in S
<1>1. " " \in Gaps
  BY DEF Gaps, Separators
<1> QED
  BY <1>1 DEF Same

AnyDigit == {"0", "1", "2", "3", "4", "5", "6", "7", "8", "9", "A", "B", "C", "D", "E", "F", "G", "H", "I",
             "J", "K", "L", "M", "N", "O", "P", "Q", "R", "S", "T", "U", "V", "W", "X", "Y", "Z"}

(* The digits of any base are among these.                                 *)
LEMMA DigitsAreAny ==
  \A base \in 0..36 : DigitsBelow(base) \subseteq AnyDigit
<1>1. \A i \in 1..36 : DigitChars[i] \in AnyDigit
  BY DEF DigitChars, AnyDigit
<1>2. \A base \in 0..36 : 1..base \subseteq 1..36
  OBVIOUS
<1> QED
  BY <1>1, <1>2 DEF DigitsBelow

(* Nothing a token is made of separates.                                   *)
LEMMA NoClassSeparates ==
  /\ Special \cap Gaps = {} /\ Numeric \cap Gaps = {} /\ Identifier \cap Gaps = {}
  /\ IdentifierBegining \cap Gaps = {}
  /\ \A base \in 0..36 : DigitsBelow(base) \cap Gaps = {}
  /\ \A c \in {"=", "|", "(", ":", "r", "-", "'", EOI} : {c} \cap Gaps = {}
<1>1. \A base \in 0..36 : DigitsBelow(base) \cap Gaps = {}
  <2>1. AnyDigit \cap Gaps = {}
    BY DEF AnyDigit, Gaps, Separators
  <2> QED
    BY <2>1, DigitsAreAny
<1>2. DigitsBelow(10) \cap Gaps = {} /\ DigitsBelow(36) \cap Gaps = {}
  BY <1>1
<1>3. Special \cap Gaps = {} /\ LowerCase \cap Gaps = {}
  BY DEF Special, LowerCase, Gaps, Separators
<1>4. \A c \in {"=", "|", "(", ":", "r", "-", "'", EOI} : {c} \cap Gaps = {}
  BY DEF Gaps, Separators, EOI
<1> QED
  BY <1>1, <1>2, <1>3, <1>4 DEF Numeric, IdentifierBegining, Identifier

(* That holds up to the character after the token.                         *)
LEMMA CopiedSame ==
  ASSUME NEW s, NEW u, NEW d, NEW i \in Nat, NEW e \in Nat, Copied(s, i, e, u, d), NEW j \in i..e
  PROVE  Same(Ch(s, j), Ch(u, j + d))
<1>1. CASE j = e
  BY <1>1 DEF Copied, Follows
<1>2. CASE j # e
  <2>1. j \in i..(e - 1)
    BY <1>2
  <2> QED
    BY <2>1 DEF Copied, Same
<1> QED
  BY <1>1, <1>2

(* There is one first place where the characters of S end.                 *)
LEMMA EndOfIs ==
  ASSUME NEW s, IsText(s), NEW i \in 1..(Len(s) + 1), NEW S, EOI \notin S,
         NEW j \in i..(Len(s) + 1), Ch(s, j) \notin S, \A k \in i..(j - 1) : Ch(s, k) \in S
  PROVE  EndOf(s, i, S) = j
<1> DEFINE e == EndOf(s, i, S)
<1>1. Len(s) \in Nat
  BY Characters
<1>2. e \in i..(Len(s) + 1) /\ Ch(s, e) \notin S /\ \A k \in i..(e - 1) : Ch(s, k) \in S
  BY EndOfFacts
<1> HIDE DEF e
<1>3. ~(e < j) /\ ~(j < e)
  <2>1. e < j => e \in i..(j - 1)
    BY <1>1, <1>2
  <2>2. j < e => j \in i..(e - 1)
    BY <1>1, <1>2
  <2> QED
    BY <1>2, <2>1, <2>2
<1>4. e = j
  BY <1>1, <1>2, <1>3
<1> QED
  BY <1>4 DEF e

(* A class of characters ends at the same place of a copied token.         *)
LEMMA EndOfCopied ==
  ASSUME NEW s, IsText(s), NEW u, IsText(u), NEW d, NEW i \in Nat \ {0}, NEW e \in Nat,
         Copied(s, i, e, u, d), NEW S, EOI \notin S, S \cap Gaps = {},
         NEW a \in i..e, a <= Len(s) + 1, EndOf(s, a, S) <= e
  PROVE  EndOf(u, a + d, S) = EndOf(s, a, S) + d
<1> DEFINE b == EndOf(s, a, S)
<1>1. Len(s) \in Nat /\ Len(u) \in Nat
  BY Characters
<1>2. d \in Int /\ i + d \in Nat \ {0} /\ e + d <= Len(u) + 1
  BY DEF Copied
<1>3. a \in 1..(Len(s) + 1)
  BY <1>1
<1>4. b \in a..(Len(s) + 1) /\ Ch(s, b) \notin S /\ \A k \in a..(b - 1) : Ch(s, k) \in S
  BY <1>3, EndOfFacts
<1>5. b <= e
  OBVIOUS
<1> HIDE DEF b
<1>6. \A j \in a..b : Ch(s, j) \in S <=> Ch(u, j + d) \in S
  <2> SUFFICES ASSUME NEW j \in a..b PROVE Ch(s, j) \in S <=> Ch(u, j + d) \in S
    OBVIOUS
  <2>1. j \in i..e
    BY <1>1, <1>4, <1>5
  <2>2. Same(Ch(s, j), Ch(u, j + d))
    BY <2>1, CopiedSame
  <2> QED
    BY <2>2, SameClass
<1>7. a + d \in 1..(Len(u) + 1) /\ b + d \in (a + d)..(Len(u) + 1)
  BY <1>1, <1>2, <1>4, <1>5
<1>8. Ch(u, b + d) \notin S
  BY <1>4, <1>6
<1>9. ASSUME NEW k \in (a + d)..((b + d) - 1) PROVE Ch(u, k) \in S
  <2>1. k - d \in a..(b - 1) /\ k - d \in a..b /\ (k - d) + d = k
    BY <1>1, <1>2, <1>4
  <2>2. Ch(s, k - d) \in S /\ (Ch(s, k - d) \in S <=> Ch(u, (k - d) + d) \in S)
    BY <1>4, <1>6, <2>1
  <2> QED
    BY <2>1, <2>2
<1>10. EndOf(u, a + d, S) = b + d
  BY <1>7, <1>8, <1>9, EndOfIs
<1> QED
  BY <1>10 DEF b

-----------------------------------------------------------------------------
(* What is between quotes, copied and spelled.                             *)

(* The characters a text can be written anew with.                         *)
Chars(s) == ToSet(s) \cup {EOI, "'", " "}

(* A piece of a text, which may reach beyond its end.                      *)
LEMMA BetweenIs ==
  ASSUME NEW s, IsText(s), NEW i \in Nat, NEW e \in Nat, i <= e
  PROVE  /\ Between(s, i, e) \in Seq(Chars(s))
         /\ Len(Between(s, i, e)) = e - i
         /\ \A k \in 1..(e - i) : Between(s, i, e)[k] = Ch(s, i + k - 1)
         /\ i < e => Between(s, i, e) = <<Ch(s, i)>> \o Between(s, i + 1, e)
         /\ Between(s, e, e) = <<>>
<1>1. \A j : Ch(s, j) \in Chars(s)
  BY Characters DEF Chars
<1>2. ASSUME NEW a \in Nat, a <= e
      PROVE  /\ Between(s, a, e) \in Seq(Chars(s))
             /\ Len(Between(s, a, e)) = e - a
             /\ \A k \in 1..(e - a) : Between(s, a, e)[k] = Ch(s, a + k - 1)
  <2>1. PICK m \in Nat : m = e - a
    BY <1>2
  <2>2. [k \in 1..m |-> Ch(s, a + k - 1)] \in [1..m -> Chars(s)]
    BY <1>1
  <2>3. [1..m -> Chars(s)] \subseteq Seq(Chars(s))
    OBVIOUS
  <2>4. Between(s, a, e) = [k \in 1..m |-> Ch(s, a + k - 1)]
    BY <2>1 DEF Between
  <2>5. \A q \in [1..m -> Chars(s)] : Len(q) = m
    OBVIOUS
  <2> QED
    BY <2>1, <2>2, <2>3, <2>4, <2>5
<1>3. ASSUME i < e PROVE Between(s, i, e) = <<Ch(s, i)>> \o Between(s, i + 1, e)
  <2> DEFINE p == Between(s, i, e)
             q == Between(s, i + 1, e)
             c == Ch(s, i)
  <2>1. i + 1 \in Nat /\ i + 1 <= e
    BY <1>3
  <2>2. /\ p \in Seq(Chars(s)) /\ q \in Seq(Chars(s)) /\ c \in Chars(s)
        /\ Len(p) = e - i /\ Len(q) = e - (i + 1)
        /\ \A k \in 1..(e - i) : p[k] = Ch(s, i + k - 1)
        /\ \A k \in 1..(e - (i + 1)) : q[k] = Ch(s, (i + 1) + k - 1)
    BY <1>1, <1>2, <2>1
  <2>3. p[1] = c
    <3>1. 1 \in 1..(e - i) /\ i + 1 - 1 = i
      BY <1>3
    <3> HIDE DEF p
    <3> QED
      BY <2>2, <3>1
  <2>4. ASSUME NEW k \in 2..(e - i) PROVE p[k] = q[k - 1]
    <3>1. k \in 1..(e - i) /\ k - 1 \in 1..(e - (i + 1)) /\ i + k - 1 = (i + 1) + (k - 1) - 1
      BY <1>3
    <3> HIDE DEF p, q
    <3> QED
      BY <2>2, <3>1
  <2> HIDE DEF p, q, c
  <2>5. Len(<<c>> \o q) = e - i /\ <<c>> \o q \in Seq(Chars(s))
    BY <2>1, <2>2
  <2>6. ASSUME NEW k \in 1..(e - i) PROVE p[k] = (<<c>> \o q)[k]
    <3>1. CASE k = 1
      BY <2>2, <2>3, <3>1
    <3>2. CASE k # 1
      <4>1. k \in 2..(e - i) /\ k - 1 \in 1..(e - (i + 1))
        BY <1>3, <3>2
      <4>2. (<<c>> \o q)[k] = q[k - 1]
        BY <2>2, <4>1
      <4> QED
        BY <2>4, <4>1, <4>2
    <3> QED
      BY <3>1, <3>2
  <2>7. p = <<c>> \o q
    BY <2>2, <2>5, <2>6
  <2> QED
    BY <2>7 DEF p, q, c
<1>4. Between(s, e, e) = <<>>
  <2>1. 1 .. e - e = {}
    OBVIOUS
  <2> QED
    BY <2>1 DEF Between
<1> QED
  BY <1>2, <1>3, <1>4

(* Quotes are doubled.                                                     *)
Twice(c) == IF c = "'" THEN <<"'", "'">> ELSE <<c>>

Doubled(content) == FlattenSeq([k \in DOMAIN content |-> Twice(content[k])])

(* Character by character.                                                 *)
LEMMA DoubledFacts ==
  ASSUME NEW A, "'" \in A, NEW content \in Seq(A), NEW c \in A
  PROVE  /\ Doubled(<<c>> \o content) = Twice(c) \o Doubled(content)
         /\ Doubled(content) \in Seq(A)
         /\ Doubled(<<>>) = <<>>
<1>1. \A x \in A : Twice(x) \in Seq(A)
  BY DEF Twice
<1>2. ASSUME NEW p \in Seq(A)
      PROVE  /\ [k \in DOMAIN p |-> Twice(p[k])] \in Seq(Seq(A))
             /\ Len([k \in DOMAIN p |-> Twice(p[k])]) = Len(p)
  <2>1. PICK m \in Nat : m = Len(p) /\ DOMAIN p = 1..m
    OBVIOUS
  <2>2. \A k \in 1..m : p[k] \in A
    BY <2>1
  <2>3. [k \in 1..m |-> Twice(p[k])] \in [1..m -> Seq(A)]
    BY <1>1, <2>2
  <2>4. \A B : [1..m -> B] \subseteq Seq(B) /\ \A q \in [1..m -> B] : Len(q) = m
    OBVIOUS
  <2> QED
    BY <2>1, <2>3, <2>4
<1> DEFINE ss == [k \in DOMAIN content |-> Twice(content[k])]
           whole == <<c>> \o content
           tt == [k \in DOMAIN whole |-> Twice(whole[k])]
<1>3. whole \in Seq(A) /\ Len(whole) = Len(content) + 1 /\ whole[1] = c
      /\ \A k \in 2..Len(whole) : whole[k] = content[k - 1]
  OBVIOUS
<1> HIDE DEF whole
<1>4. /\ ss \in Seq(Seq(A)) /\ Len(ss) = Len(content)
      /\ tt \in Seq(Seq(A)) /\ Len(tt) = Len(content) + 1
  BY <1>2, <1>3
<1>5. tt[1] = Twice(c) /\ \A k \in 2..Len(tt) : tt[k] = ss[k - 1]
  <2>1. DOMAIN whole = 1..(Len(content) + 1) /\ DOMAIN content = 1..Len(content)
    BY <1>3
  <2>2. 1 \in DOMAIN whole /\ \A k \in 2..Len(tt) : k \in DOMAIN whole /\ k - 1 \in DOMAIN content
    BY <1>4, <2>1
  <2>3. \A k \in DOMAIN whole : tt[k] = Twice(whole[k])
    OBVIOUS
  <2>4. \A k \in DOMAIN content : ss[k] = Twice(content[k])
    OBVIOUS
  <2> HIDE DEF tt, ss
  <2>5. \A k \in 2..Len(tt) : whole[k] = content[k - 1]
    BY <1>3, <1>4
  <2> QED
    BY <1>3, <2>2, <2>3, <2>4, <2>5
<1> HIDE DEF tt, ss
<1>6. tt = <<Twice(c)>> \o ss
  <2>1. PICK t : t = Twice(c) /\ t \in Seq(A)
    BY <1>1
  <2>2. <<t>> \o ss \in Seq(Seq(A)) /\ Len(<<t>> \o ss) = Len(ss) + 1 /\ (<<t>> \o ss)[1] = t
        /\ \A k \in 2..(Len(ss) + 1) : (<<t>> \o ss)[k] = ss[k - 1]
    <3>1. ss \in Seq(Seq(A)) /\ t \in Seq(A)
      BY <1>4, <2>1
    <3> QED
      BY <3>1, Prepended
  <2>3. \A k \in 1..Len(tt) : tt[k] = (<<t>> \o ss)[k]
    <3> SUFFICES ASSUME NEW k \in 1..Len(tt) PROVE tt[k] = (<<t>> \o ss)[k]
      OBVIOUS
    <3>1. Len(ss) \in Nat
      BY <1>4
    <3>2. CASE k = 1
      BY <1>5, <2>1, <2>2, <3>2
    <3>3. CASE k # 1
      <4>1. k \in 2..Len(tt) /\ k \in 2..(Len(ss) + 1)
        BY <1>4, <3>1, <3>3
      <4> QED
        BY <1>5, <2>2, <4>1
    <3> QED
      BY <3>2, <3>3
  <2>4. tt = <<t>> \o ss
    <3> DEFINE rr == <<t>> \o ss
    <3>1. rr \in Seq(Seq(A)) /\ Len(rr) = Len(tt) /\ \A k \in 1..Len(tt) : tt[k] = rr[k]
      BY <1>4, <2>2, <2>3
    <3> HIDE DEF rr
    <3>2. tt = rr
      BY <1>4, <3>1
    <3> QED
      BY <3>2 DEF rr
  <2> QED
    BY <2>1, <2>4
<1>7. FlattenSeq(tt) = Twice(c) \o FlattenSeq(ss) /\ FlattenSeq(ss) \in Seq(A)
  <2>1. PICK t : t = Twice(c) /\ t \in Seq(A)
    BY <1>1
  <2>2. FlattenSeq(<<t>> \o ss) = t \o FlattenSeq(ss) /\ FlattenSeq(ss) \in Seq(A)
    BY <1>4, <2>1, FlattenCons
  <2> QED
    BY <1>6, <2>1, <2>2
<1>8. Doubled(<<>>) = <<>>
  <2>1. [k \in DOMAIN <<>> |-> Twice(<<>>[k])] = <<>>
    OBVIOUS
  <2>2. FlattenSeq(<<>>) = <<>>
    BY DEF FlattenSeq
  <2> QED
    BY <2>1, <2>2 DEF Doubled
<1> QED
  BY <1>7, <1>8 DEF Doubled, ss, tt, whole

(* What was between quotes, in the text: every quote in it twice, and one  *)
(* at the end.                                                             *)
LEMMA QuotedSpelled ==
  ASSUME NEW s, IsText(s), NEW i \in 1..Len(s), s[i] = "'", Quoted(s, i).end <= Len(s)
  PROVE  Between(s, i, Quoted(s, i).end) = <<"'">> \o Doubled(Quoted(s, i).content) \o <<"'">>
<1> DEFINE n == Len(s)
           A == Chars(s)
           e == Quoted(s, i).end
           X == [content : Seq(ToSet(s)), end : (i + 1)..(n + 1)]
<1>1. /\ n \in Nat /\ "'" \in A /\ ToSet(s) \subseteq A
      /\ \A j \in 1..n : Ch(s, j) = s[j] /\ s[j] \in A
  BY Characters DEF Chars
<1>2. PICK f : /\ f \in [(i + 1)..(n + 2) -> X]
               /\ \A j \in (i + 1)..(n + 2) : f[j] = QuotedFrom(s, i, f, j)
               /\ Quoted(s, i) = f[i + 1]
  BY QuotedFacts
<1>3. e \in (i + 1)..n
  BY <1>1, ClosesFacts
<1> HIDE DEF e
<1>4. \A j \in (i + 1)..(n + 2) : f[j].content \in Seq(A)
  <2>1. \A j \in (i + 1)..(n + 2) : f[j].content \in Seq(ToSet(s))
    BY <1>2
  <2>2. Seq(ToSet(s)) \subseteq Seq(A)
    <3>1. \A q \in Seq(ToSet(s)) : q \in Seq(A)
      <4> SUFFICES ASSUME NEW q \in Seq(ToSet(s)) PROVE q \in Seq(A)
        OBVIOUS
      <4>1. \A k \in 1..Len(q) : q[k] \in A
        BY <1>1
      <4> HIDE DEF A
      <4> QED
        BY <4>1
    <3> QED
      BY <3>1
  <2> QED
    BY <2>1, <2>2
<1> DEFINE Good(j) == /\ j < e
                      /\ Between(s, j, e) = Doubled(f[j].content) \o <<"'">>
           S == { j \in (i + 1)..(n + 2) : f[j].end = e => Good(j) }
<1>5. ASSUME NEW j \in (i + 1)..(n + 2), \A k \in (j + 1)..(n + 2) : k \in S, f[j].end = e
      PROVE  Good(j)
  <2>1. j \in 1..n
    <3>1. j > n => f[j] = [content |-> <<>>, end |-> n + 1]
      <4> SUFFICES ASSUME j > n PROVE f[j] = [content |-> <<>>, end |-> n + 1]
        OBVIOUS
      <4>1. f[j] = QuotedFrom(s, i, f, j) /\ ~(j <= n)
        BY <1>1, <1>2
      <4> QED
        BY <4>1 DEF QuotedFrom
    <3>2. j > n => f[j].end = n + 1
      BY <3>1
    <3> QED
      BY <1>1, <1>3, <1>5, <3>2
  <2>2. f[j] = QuotedFrom(s, i, f, j) /\ j <= n /\ j \in Nat
    BY <1>1, <1>2, <2>1
  <2>3. j + 1 \in (j + 1)..(n + 2) /\ j + 2 \in (j + 1)..(n + 2)
        /\ j + 1 \in (i + 1)..(n + 2) /\ j + 2 \in (i + 1)..(n + 2)
    BY <1>1, <2>1
  <2>4. CASE s[j] = "'" /\ Ch(s, j + 1) # "'"
    <3>1. f[j] = [content |-> <<>>, end |-> j + 1]
      BY <2>2, <2>4 DEF QuotedFrom
    <3>2. e = j + 1 /\ f[j].content = <<>>
      BY <1>5, <3>1
    <3>3. Between(s, j, j + 1) = <<Ch(s, j)>> \o Between(s, j + 1, j + 1)
          /\ Between(s, j + 1, j + 1) = <<>>
      <4>1. PICK k \in Nat : k = j + 1
        BY <2>2
      <4>2. j < k /\ j <= k
        BY <2>2, <4>1
      <4>3. Between(s, j, k) = <<Ch(s, j)>> \o Between(s, j + 1, k) /\ Between(s, k, k) = <<>>
        BY <2>2, <4>2, BetweenIs
      <4> QED
        BY <4>1, <4>3
    <3>4. Doubled(<<>>) = <<>>
      <4>1. <<>> \in Seq(A)
        OBVIOUS
      <4> HIDE DEF A
      <4> QED
        BY <1>1, <4>1, DoubledFacts
    <3>5. Ch(s, j) = "'"
      BY <1>1, <2>1, <2>4
    <3> QED
      BY <2>2, <3>2, <3>3, <3>4, <3>5
  <2>5. CASE s[j] = "'" /\ Ch(s, j + 1) = "'"
    <3>1. f[j] = [f[j + 2] EXCEPT !.content = <<"'">> \o @]
      BY <2>2, <2>5 DEF QuotedFrom
    <3>2. f[j + 2] \in X
      BY <1>2, <2>3
    <3>3. f[j].end = f[j + 2].end /\ f[j].content = <<"'">> \o f[j + 2].content
      BY <3>1, <3>2
    <3>4. j + 2 < e /\ Between(s, j + 2, e) = Doubled(f[j + 2].content) \o <<"'">>
      BY <1>5, <2>3, <3>3
    <3>5. /\ Between(s, j, e) = <<"'">> \o Between(s, j + 1, e)
          /\ Between(s, j + 1, e) = <<"'">> \o Between(s, j + 2, e)
      <4>1. j \in Nat /\ j + 1 \in Nat /\ e \in Nat /\ j < e /\ j + 1 < e /\ (j + 1) + 1 = j + 2
            /\ j <= e /\ j + 1 <= e
        BY <1>1, <1>3, <2>2, <3>4
      <4>2. Ch(s, j) = "'" /\ Ch(s, j + 1) = "'"
        BY <1>1, <2>1, <2>5
      <4>3. Between(s, j, e) = <<Ch(s, j)>> \o Between(s, j + 1, e)
        BY <4>1, BetweenIs
      <4>4. Between(s, j + 1, e) = <<Ch(s, j + 1)>> \o Between(s, (j + 1) + 1, e)
        BY <4>1, BetweenIs
      <4> QED
        BY <4>1, <4>2, <4>3, <4>4
    <3>6. /\ Doubled(f[j].content) = <<"'", "'">> \o Doubled(f[j + 2].content)
          /\ Doubled(f[j + 2].content) \in Seq(A)
      <4>1. f[j + 2].content \in Seq(A)
        BY <1>4, <2>3
      <4>2. Twice("'") = <<"'", "'">>
        BY DEF Twice
      <4> HIDE DEF A
      <4>3. PICK p \in Seq(A) : p = f[j + 2].content
        BY <4>1
      <4>4. Doubled(<<"'">> \o p) = Twice("'") \o Doubled(p) /\ Doubled(p) \in Seq(A)
        BY <1>1, DoubledFacts
      <4> QED
        BY <3>3, <4>2, <4>3, <4>4
    <3>7. PICK w : w = Doubled(f[j + 2].content) /\ w \in Seq(A)
      BY <3>6
    <3>8. <<"'">> \o (<<"'">> \o (w \o <<"'">>)) = (<<"'", "'">> \o w) \o <<"'">>
      BY <1>1, <3>7
    <3>9. Between(s, j, e) = Doubled(f[j].content) \o <<"'">>
      BY <3>4, <3>5, <3>6, <3>7, <3>8
    <3> QED
      BY <1>3, <2>2, <3>4, <3>9
  <2>6. CASE s[j] # "'"
    <3>1. f[j] = [f[j + 1] EXCEPT !.content = <<s[j]>> \o @]
      BY <2>2, <2>6 DEF QuotedFrom
    <3>2. f[j + 1] \in X
      BY <1>2, <2>3
    <3>3. f[j].end = f[j + 1].end /\ f[j].content = <<s[j]>> \o f[j + 1].content
      BY <3>1, <3>2
    <3>4. j + 1 < e /\ Between(s, j + 1, e) = Doubled(f[j + 1].content) \o <<"'">>
      BY <1>5, <2>3, <3>3
    <3>5. Between(s, j, e) = <<s[j]>> \o Between(s, j + 1, e)
      <4>1. j \in Nat /\ e \in Nat /\ j < e /\ j <= e
        BY <1>1, <1>3, <2>2, <3>4
      <4>2. Ch(s, j) = s[j]
        BY <1>1, <2>1
      <4> QED
        BY <4>1, <4>2, BetweenIs
    <3>6. /\ Doubled(f[j].content) = <<s[j]>> \o Doubled(f[j + 1].content)
          /\ Doubled(f[j + 1].content) \in Seq(A) /\ s[j] \in A
      <4>1. f[j + 1].content \in Seq(A) /\ s[j] \in A
        BY <1>1, <1>4, <2>1, <2>3
      <4>2. Twice(s[j]) = <<s[j]>>
        BY <2>6 DEF Twice
      <4> HIDE DEF A
      <4>3. PICK p \in Seq(A), c \in A : p = f[j + 1].content /\ c = s[j]
        BY <4>1
      <4>4. Doubled(<<c>> \o p) = Twice(c) \o Doubled(p) /\ Doubled(p) \in Seq(A)
        BY <1>1, DoubledFacts
      <4> QED
        BY <3>3, <4>1, <4>2, <4>3, <4>4
    <3>7. PICK w, c : w = Doubled(f[j + 1].content) /\ w \in Seq(A) /\ c = s[j] /\ c \in A
      BY <3>6
    <3>8. <<c>> \o (w \o <<"'">>) = (<<c>> \o w) \o <<"'">>
      BY <1>1, <3>7
    <3>9. Between(s, j, e) = Doubled(f[j].content) \o <<"'">>
      BY <3>4, <3>5, <3>6, <3>7, <3>8
    <3> QED
      BY <1>3, <2>2, <3>4, <3>9
  <2> QED
    BY <2>4, <2>5, <2>6
<1>6. (i + 1)..(n + 2) \subseteq S
  <2>1. \A j \in (i + 1)..(n + 2) : (\A k \in (j + 1)..(n + 2) : k \in S) => j \in S
    <3> SUFFICES ASSUME NEW j \in (i + 1)..(n + 2), \A k \in (j + 1)..(n + 2) : k \in S
                 PROVE  j \in S
      OBVIOUS
    <3>1. f[j].end = e => Good(j)
      BY <1>5
    <3> HIDE DEF Good
    <3> QED
      BY <3>1
  <2> HIDE DEF S
  <2>2. PICK lo \in Nat, hi \in Nat : lo = i + 1 /\ hi = n + 2
    BY <1>1
  <2>3. \A j \in lo..hi : (\A k \in (j + 1)..hi : k \in S) => j \in S
    BY <2>1, <2>2
  <2>4. lo..hi \subseteq S
    BY <2>3, DownFrom
  <2> QED
    BY <2>2, <2>4
<1>7. Good(i + 1)
  <2>1. i + 1 \in (i + 1)..(n + 2) /\ f[i + 1].end = e
    BY <1>1, <1>2 DEF e
  <2> QED
    BY <1>6, <2>1
<1>8. Between(s, i, e) = <<"'">> \o Between(s, i + 1, e)
  <2>1. i \in Nat /\ e \in Nat /\ i < e /\ i <= e /\ Ch(s, i) = "'"
    BY <1>1, <1>3
  <2> QED
    BY <2>1, BetweenIs
<1>9. Doubled(f[i + 1].content) \in Seq(A)
  <2>1. f[i + 1].content \in Seq(A)
    BY <1>1, <1>4
  <2> HIDE DEF A
  <2> QED
    BY <1>1, <2>1, DoubledFacts
<1>10. PICK w : w = Doubled(f[i + 1].content) /\ w \in Seq(A)
  BY <1>9
<1>11. <<"'">> \o (w \o <<"'">>) = <<"'">> \o w \o <<"'">>
  BY <1>1, <1>10
<1>12. Between(s, i, e) = <<"'">> \o Doubled(Quoted(s, i).content) \o <<"'">>
  BY <1>2, <1>7, <1>8, <1>10, <1>11
<1> QED
  BY <1>12 DEF e

(* One character more at the beginning of what is between quotes.          *)
Longer(r, a) == [r EXCEPT !.content = <<a>> \o @]

(* Only the content is longer.                                             *)
LEMMA LongerIs ==
  ASSUME NEW c, NEW x, NEW a
  PROVE  Longer([content |-> c, end |-> x], a) = [content |-> <<a>> \o c, end |-> x]
<1> DEFINE r == [content |-> c, end |-> x]
<1>1. DOMAIN r = {"content", "end"} /\ r = [l \in {"content", "end"} |-> r[l]]
      /\ r.content = c /\ r.end = x
  OBVIOUS
<1> HIDE DEF r
<1>2. ASSUME NEW y PROVE [r EXCEPT !.content = y] = [content |-> y, end |-> x]
  BY <1>1
<1>3. Longer(r, a) = [content |-> <<a>> \o c, end |-> x]
  BY <1>1, <1>2 DEF Longer
<1> QED
  BY <1>3 DEF r

(* What is between quotes is read from a copy as it was from the text.     *)
LEMMA QuotedCopied ==
  ASSUME NEW s, IsText(s), NEW u, IsText(u), NEW d, NEW i \in 1..Len(s), s[i] = "'",
         Quoted(s, i).end <= Len(s), Copied(s, i, Quoted(s, i).end, u, d)
  PROVE  Quoted(u, i + d) = [content |-> Quoted(s, i).content, end |-> Quoted(s, i).end + d]
<1> DEFINE n == Len(s)
           m == Len(u)
           q == i + d
           e == Quoted(s, i).end
           X == [content : Seq(ToSet(s)), end : (i + 1)..(n + 1)]
<1>1. /\ n \in Nat /\ m \in Nat
      /\ \A j \in 1..n : Ch(s, j) = s[j]
      /\ \A j \in 1..m : Ch(u, j) = u[j]
  BY Characters
<1>2. PICK f : /\ f \in [(i + 1)..(n + 2) -> X]
               /\ \A j \in (i + 1)..(n + 2) : f[j] = QuotedFrom(s, i, f, j)
               /\ Quoted(s, i) = f[i + 1]
  BY QuotedFacts
<1>3. e \in (i + 1)..n
  BY <1>1, ClosesFacts
<1>4. d \in Int /\ q \in Nat \ {0} /\ e + d <= m + 1
  BY DEF Copied
<1>5. /\ \A j \in i..(e - 1) : Ch(u, j + d) = Ch(s, j)
      /\ Ch(s, e) # "'" <=> Ch(u, e + d) # "'"
  <2>1. \A j \in i..(e - 1) : Ch(u, j + d) = Ch(s, j)
    BY DEF Copied
  <2>2. i \in Nat /\ e \in Nat /\ e \in i..e
    BY <1>1, <1>3
  <2>3. Same(Ch(s, e), Ch(u, e + d))
    BY <2>2, CopiedSame
  <2>4. Ch(s, e) \in {"'"} <=> Ch(u, e + d) \in {"'"}
    <3>1. {"'"} \cap Gaps = {}
      BY NoClassSeparates
    <3> QED
      BY <2>3, <3>1, SameClass
  <2> QED
    BY <2>1, <2>4
<1> HIDE DEF e
<1>6. q \in 1..m
  BY <1>1, <1>3, <1>4
<1>7. PICK g : /\ \A k \in (q + 1)..(m + 2) : g[k] = QuotedFrom(u, q, g, k)
               /\ Quoted(u, q) = g[q + 1]
  <2> HIDE DEF q
  <2> QED
    BY <1>6, QuotedFacts
<1>8. ASSUME NEW j \in (i + 1)..(e - 1)
      PROVE  /\ j + d \in (q + 1)..(m + 2) /\ j + d <= m
             /\ u[j + d] = s[j] /\ u[q] = "'"
             /\ g[j + d] = QuotedFrom(u, q, g, j + d)
  <2>1. j + d \in (q + 1)..(m + 2) /\ j + d \in 1..m /\ j \in i..(e - 1) /\ j \in 1..n
        /\ i \in i..(e - 1)
    BY <1>1, <1>3, <1>4
  <2>2. Ch(u, j + d) = Ch(s, j) /\ Ch(u, i + d) = Ch(s, i)
    BY <1>5, <2>1
  <2>3. u[j + d] = s[j] /\ u[q] = s[i]
    BY <1>1, <1>6, <2>1, <2>2
  <2> HIDE DEF q
  <2> QED
    BY <1>1, <1>7, <2>1, <2>3
<1> DEFINE Good(j) == /\ j < e
                      /\ g[j + d] = [content |-> f[j].content, end |-> e + d]
           S == { j \in (i + 1)..(n + 2) : f[j].end = e => Good(j) }
<1>9. ASSUME NEW j \in (i + 1)..(n + 2), \A k \in (j + 1)..(n + 2) : k \in S, f[j].end = e
       PROVE  Good(j)
  <2>1. j \in 1..n
    <3>1. j > n => f[j] = [content |-> <<>>, end |-> n + 1]
      <4> SUFFICES ASSUME j > n PROVE f[j] = [content |-> <<>>, end |-> n + 1]
        OBVIOUS
      <4>1. f[j] = QuotedFrom(s, i, f, j) /\ ~(j <= n)
        BY <1>1, <1>2
      <4> QED
        BY <4>1 DEF QuotedFrom
    <3>2. j > n => f[j].end = n + 1
      BY <3>1
    <3> QED
      BY <1>1, <1>3, <1>9, <3>2
  <2>2. f[j] = QuotedFrom(s, i, f, j) /\ j <= n /\ j \in Nat
    BY <1>1, <1>2, <2>1
  <2>3. j + 1 \in (j + 1)..(n + 2) /\ j + 2 \in (j + 1)..(n + 2)
        /\ j + 1 \in (i + 1)..(n + 2) /\ j + 2 \in (i + 1)..(n + 2)
    BY <1>1, <2>1
  <2>4. PICK k : k = j + d /\ k + 1 = (j + 1) + d /\ k + 2 = (j + 2) + d
    BY <1>4, <2>2
  <2>5. CASE s[j] = "'" /\ Ch(s, j + 1) # "'"
    <3>1. f[j] = [content |-> <<>>, end |-> j + 1]
      BY <2>2, <2>5 DEF QuotedFrom
    <3>2. e = j + 1 /\ f[j].content = <<>>
      BY <1>9, <3>1
    <3>3. j \in (i + 1)..(e - 1)
      BY <2>2, <3>2
    <3>4. k <= m /\ u[k] = "'" /\ u[q] = "'" /\ g[k] = QuotedFrom(u, q, g, k)
      <4> HIDE DEF q
      <4> QED
        BY <1>8, <2>4, <2>5, <3>3
    <3>5. Ch(u, k + 1) # "'"
      BY <1>5, <2>4, <2>5, <3>2
    <3>6. g[k] = [content |-> <<>>, end |-> k + 1]
      <4> HIDE DEF q
      <4> QED
        BY <3>4, <3>5 DEF QuotedFrom
    <3> QED
      BY <2>2, <2>4, <3>2, <3>6
  <2>6. CASE s[j] = "'" /\ Ch(s, j + 1) = "'"
    <3>1. f[j] = [f[j + 2] EXCEPT !.content = <<"'">> \o @]
      BY <2>2, <2>6 DEF QuotedFrom
    <3>2. f[j + 2] \in X
      BY <1>2, <2>3
    <3>3. f[j].end = f[j + 2].end /\ f[j].content = <<"'">> \o f[j + 2].content
      BY <3>1, <3>2
    <3>4. j + 2 < e /\ g[k + 2] = [content |-> f[j + 2].content, end |-> e + d]
      BY <1>9, <2>3, <2>4, <3>3
    <3>5. j \in (i + 1)..(e - 1) /\ j + 1 \in i..(e - 1)
      BY <1>3, <2>1, <2>2, <3>4
    <3>6. k <= m /\ u[k] = "'" /\ u[q] = "'" /\ g[k] = QuotedFrom(u, q, g, k)
      <4> HIDE DEF q
      <4> QED
        BY <1>8, <2>4, <2>6, <3>5
    <3>7. Ch(u, k + 1) = "'"
      BY <1>5, <2>4, <2>6, <3>5
    <3>8. g[k] = Longer(g[k + 2], "'")
      <4> HIDE DEF q
      <4> QED
        BY <3>6, <3>7 DEF QuotedFrom, Longer
    <3>9. g[k] = [content |-> f[j].content, end |-> e + d]
      <4>1. PICK c : c = f[j + 2].content
        OBVIOUS
      <4>2. g[k] = Longer([content |-> c, end |-> e + d], "'")
        BY <3>4, <3>8, <4>1
      <4>3. Longer([content |-> c, end |-> e + d], "'") = [content |-> <<"'">> \o c, end |-> e + d]
        BY LongerIs
      <4> QED
        BY <3>3, <4>1, <4>2, <4>3
    <3> QED
      BY <1>3, <2>2, <2>4, <3>4, <3>9
  <2>7. CASE s[j] # "'"
    <3>1. f[j] = [f[j + 1] EXCEPT !.content = <<s[j]>> \o @]
      BY <2>2, <2>7 DEF QuotedFrom
    <3>2. f[j + 1] \in X
      BY <1>2, <2>3
    <3>3. f[j].end = f[j + 1].end /\ f[j].content = <<s[j]>> \o f[j + 1].content
      BY <3>1, <3>2
    <3>4. j + 1 < e /\ g[k + 1] = [content |-> f[j + 1].content, end |-> e + d]
      BY <1>9, <2>3, <2>4, <3>3
    <3>5. j \in (i + 1)..(e - 1)
      BY <1>3, <2>1, <2>2, <3>4
    <3>6. k <= m /\ u[k] = s[j] /\ u[q] = "'" /\ g[k] = QuotedFrom(u, q, g, k)
      <4> HIDE DEF q
      <4> QED
        BY <1>8, <2>4, <3>5
    <3>7. g[k] = Longer(g[k + 1], s[j])
      <4>1. u[k] # u[q] /\ ~(k > m)
        <5>1. k \in Int
          BY <1>4, <2>2, <2>4
        <5> QED
          BY <1>1, <2>7, <3>6, <5>1
      <4> HIDE DEF q
      <4> QED
        BY <3>6, <4>1 DEF QuotedFrom, Longer
    <3>8. g[k] = [content |-> f[j].content, end |-> e + d]
      <4>1. PICK c : c = f[j + 1].content
        OBVIOUS
      <4>2. g[k] = Longer([content |-> c, end |-> e + d], s[j])
        BY <3>4, <3>7, <4>1
      <4>3. Longer([content |-> c, end |-> e + d], s[j]) = [content |-> <<s[j]>> \o c, end |-> e + d]
        BY LongerIs
      <4> QED
        BY <3>3, <4>1, <4>2, <4>3
    <3> QED
      BY <1>3, <2>2, <2>4, <3>4, <3>8
  <2> QED
    BY <2>5, <2>6, <2>7
<1>10. (i + 1)..(n + 2) \subseteq S
  <2>1. \A j \in (i + 1)..(n + 2) : (\A k \in (j + 1)..(n + 2) : k \in S) => j \in S
    <3> SUFFICES ASSUME NEW j \in (i + 1)..(n + 2), \A k \in (j + 1)..(n + 2) : k \in S
                 PROVE  j \in S
      OBVIOUS
    <3>1. f[j].end = e => Good(j)
      BY <1>9
    <3> HIDE DEF Good
    <3> QED
      BY <3>1
  <2> HIDE DEF S
  <2>2. PICK lo \in Nat, hi \in Nat : lo = i + 1 /\ hi = n + 2
    BY <1>1
  <2>3. \A j \in lo..hi : (\A k \in (j + 1)..hi : k \in S) => j \in S
    BY <2>1, <2>2
  <2>4. lo..hi \subseteq S
    BY <2>3, DownFrom
  <2> QED
    BY <2>2, <2>4
<1>11. Good(i + 1)
  <2>1. i + 1 \in (i + 1)..(n + 2) /\ f[i + 1].end = e
    BY <1>1, <1>2 DEF e
  <2> QED
    BY <1>10, <2>1
<1>12. q + 1 = (i + 1) + d
  BY <1>4
<1> QED
  BY <1>2, <1>7, <1>11, <1>12 DEF e

-----------------------------------------------------------------------------
(* Tokens, read from a copy.                                               *)

(* One character is told from others as well after what is copied.         *)
LEMMA SameCharacter ==
  ASSUME NEW a, NEW b, Same(a, b), NEW c \in {"=", "|", "(", ":", "r", "-", "'", EOI}
  PROVE  a = c <=> b = c
<1>1. {c} \cap Gaps = {}
  BY NoClassSeparates
<1>2. a \in {c} <=> b \in {c}
  BY <1>1, SameClass
<1> QED
  BY <1>2

(* An identifier or a keyword.                                             *)
LEMMA WordCopied ==
  ASSUME NEW s, IsText(s), NEW u, IsText(u), NEW d, NEW i \in 1..Len(s), Ch(s, i) \in IdentifierBegining,
         NEW e, NEW t, Word(s, EndOf(s, i, Identifier)) = <<t, e>>, Copied(s, i, e, u, d)
  PROVE  Word(u, EndOf(u, i + d, Identifier)) = <<t, e + d>>
<1> DEFINE b == EndOf(s, i, Identifier)
<1>1. Len(s) \in Nat /\ d \in Int
  BY Characters DEF Copied
<1>2. b \in i..(Len(s) + 1)
  <2>1. i \in 1..(Len(s) + 1)
    BY <1>1
  <2> QED
    BY <2>1, EndOfFacts, NoClassEnds
<1>3. Identifier \cap Gaps = {} /\ EOI \notin Identifier
  BY NoClassEnds, NoClassSeparates
<1>4. /\ Ch(s, b) = ":" /\ Ch(s, b + 1) # "=" => t = "KEYWORD" /\ e = b + 1
      /\ ~(Ch(s, b) = ":" /\ Ch(s, b + 1) # "=") => t = "IDENTIFIER" /\ e = b
  <2> HIDE DEF b
  <2>1. Word(s, b) = <<t, e>>
    BY DEF b
  <2> QED
    BY <2>1 DEF Word
<1>5. e \in Nat /\ b <= e /\ e <= b + 1
  <2> HIDE DEF b
  <2> QED
    BY <1>1, <1>2, <1>4
<1>6. EndOf(u, i + d, Identifier) = b + d
  <2>1. i \in i..e /\ i <= Len(s) + 1 /\ i \in Nat \ {0}
    BY <1>1, <1>2, <1>5
  <2> QED
    BY <1>3, <1>5, <2>1, EndOfCopied
<1> HIDE DEF b
<1>7. b \in i..e
  BY <1>1, <1>2, <1>5
<1>8. Ch(s, b) = ":" <=> Ch(u, b + d) = ":"
  <2>1. Same(Ch(s, b), Ch(u, b + d))
    BY <1>5, <1>7, CopiedSame
  <2> QED
    BY <2>1, SameCharacter
<1>9. CASE Ch(s, b) = ":" /\ Ch(s, b + 1) # "="
  <2>1. e = b + 1 /\ t = "KEYWORD" /\ e \in i..e
    BY <1>4, <1>5, <1>7, <1>9
  <2>2. Same(Ch(s, e), Ch(u, e + d))
    BY <1>5, <2>1, CopiedSame
  <2>3. Ch(s, e) # "=" /\ e + d = (b + d) + 1
    BY <1>1, <1>2, <1>9, <2>1
  <2>4. Ch(u, e + d) # "="
    BY <2>2, <2>3, SameCharacter
  <2> QED
    BY <1>6, <1>8, <1>9, <2>1, <2>3, <2>4 DEF Word
<1>10. CASE ~(Ch(s, b) = ":" /\ Ch(s, b + 1) # "=")
  <2>1. e = b /\ t = "IDENTIFIER"
    BY <1>4, <1>10
  <2>2. (b + d) + 1 = (e + 1) + d
    BY <1>1, <1>2, <2>1
  <2>3. Ch(s, b) = ":" => Ch(u, (b + d) + 1) = "="
    BY <1>10, <2>1, <2>2 DEF Copied, Follows
  <2>4. ~(Ch(u, b + d) = ":" /\ Ch(u, (b + d) + 1) # "=")
    BY <1>8, <2>3
  <2> QED
    BY <1>6, <2>1, <2>4 DEF Word
<1> QED
  BY <1>9, <1>10

(* A number, with or without a radix.                                      *)
LEMMA NumberCopied ==
  ASSUME NEW s, IsText(s), NEW u, IsText(u), NEW d, NEW i \in 1..Len(s), Ch(s, i) \in Numeric,
         NEW e, e # 0, e = EndOfNumber(s, i, EndOf(s, i, Numeric)), Copied(s, i, e, u, d)
  PROVE  EndOfNumber(u, i + d, EndOf(u, i + d, Numeric)) = e + d
<1> DEFINE n == Len(s)
           r == EndOf(s, i, Numeric)
           base == Base(SubSeq(s, i, r - 1))
           first == IF Ch(s, r + 1) = "-" THEN r + 2 ELSE r + 1
<1>1. /\ n \in Nat /\ d \in Int /\ Len(u) \in Nat /\ i + d \in Nat \ {0} /\ e + d <= Len(u) + 1
      /\ \A j \in 1..n : Ch(s, j) = s[j]
      /\ \A j \in 1..Len(u) : Ch(u, j) = u[j]
  BY Characters DEF Copied
<1>2. r \in (i + 1)..(n + 1) /\ r \in Nat /\ \A k \in i..(r - 1) : Ch(s, k) \in Numeric
  <2>1. i \in 1..(n + 1)
    BY <1>1
  <2>2. r \in i..(n + 1) /\ r > i /\ \A k \in i..(r - 1) : Ch(s, k) \in Numeric
    <3> HIDE DEF r
    <3> QED
      BY <2>1, EndOfFacts, NoClassEnds DEF r
  <2> HIDE DEF r
  <2> QED
    BY <1>1, <2>2
<1>3. e = EndOfNumber(s, i, r)
  OBVIOUS
<1> HIDE DEF r, base, first
<1>4. base \in 0..255
  <2>1. SubSeq(s, i, r - 1) \in Seq(Numeric)
    <3>1. s \in Seq(ToSet(s)) /\ \A k \in i..(r - 1) : k \in 1..n /\ s[k] \in Numeric
      BY <1>1, <1>2 DEF IsText
    <3>2. SubSeq(s, i, r - 1) = [k \in 1..(r - i) |-> s[i + k - 1]]
      BY <1>1, <1>2, <3>1
    <3>3. \A k \in 1..(r - i) : s[i + k - 1] \in Numeric
      BY <1>1, <1>2, <3>1
    <3>4. PICK m \in Nat : m = r - i
      BY <1>2
    <3>5. [k \in 1..m |-> s[i + k - 1]] \in [1..m -> Numeric]
      BY <3>3, <3>4
    <3>6. [1..m -> Numeric] \subseteq Seq(Numeric)
      OBVIOUS
    <3> QED
      BY <3>2, <3>4, <3>5, <3>6
  <2> QED
    BY <2>1, BaseFacts DEF base
<1>5. ASSUME Ch(s, r) = "r"
      PROVE  /\ base \in 0..36 /\ e = EndOf(s, first, DigitsBelow(base))
             /\ first \in (r + 1)..(n + 1) /\ first <= e /\ e \in Nat
  <2>1. r \in 1..n
    <3>1. "r" # EOI
      BY DEF EOI
    <3> QED
      BY <1>5, <3>1, InText
  <2>2. e = EndOfRadix(s, r + 1, base)
    BY <1>3, <1>5 DEF EndOfNumber, base
  <2>3. ~(base > 36)
    BY <2>2 DEF EndOfRadix
  <2>4. first \in (r + 1)..(n + 1)
    <3>1. CASE Ch(s, r + 1) = "-"
      <4>1. "-" # EOI
        BY DEF EOI
      <4>2. r + 1 \in 1..n
        BY <3>1, <4>1, InText
      <4> QED
        BY <1>1, <2>1, <3>1, <4>2 DEF first
    <3> QED
      BY <1>1, <2>1, <3>1 DEF first
  <2>5. e = EndOf(s, first, DigitsBelow(base))
    <3>1. (r + 1) + 1 = r + 2
      BY <1>1, <1>2
    <3> QED
      BY <2>2, <2>3, <3>1 DEF EndOfRadix, first
  <2>6. base \in 0..36
    BY <1>4, <2>3
  <2>7. first \in 1..(n + 1)
    BY <1>1, <2>1, <2>4
  <2>8. e \in first..(n + 1)
    BY <2>5, <2>6, <2>7, EndOfFacts, NoClassEnds
  <2> QED
    BY <1>1, <2>4, <2>5, <2>6, <2>7, <2>8
<1>6. r <= e /\ e \in Nat /\ i \in i..e /\ r \in i..e
  <2>1. Ch(s, r) # "r" => e = r
    BY <1>3 DEF EndOfNumber
  <2> QED
    BY <1>1, <1>2, <1>5, <2>1
<1>7. EndOf(u, i + d, Numeric) = r + d
  <2>1. i <= n + 1 /\ i \in Nat \ {0} /\ EndOf(s, i, Numeric) <= e
    BY <1>1, <1>6 DEF r
  <2>2. EOI \notin Numeric /\ Numeric \cap Gaps = {}
    BY NoClassEnds, NoClassSeparates
  <2>3. EndOf(u, i + d, Numeric) = EndOf(s, i, Numeric) + d
    BY <1>6, <2>1, <2>2, EndOfCopied
  <2> QED
    BY <2>3 DEF r
<1>8. Ch(s, r) = "r" <=> Ch(u, r + d) = "r"
  <2>1. i \in Nat /\ Same(Ch(s, r), Ch(u, r + d))
    BY <1>6, CopiedSame
  <2> QED
    BY <2>1, SameCharacter
<1>9. CASE Ch(s, r) # "r"
  <2>1. e = r
    BY <1>3, <1>9 DEF EndOfNumber
  <2> QED
    BY <1>7, <1>8, <1>9, <2>1 DEF EndOfNumber
<1>10. CASE Ch(s, r) = "r"
  <2>1. SubSeq(u, i + d, (r + d) - 1) = SubSeq(s, i, r - 1)
    <3>1. ASSUME NEW j \in i..(r - 1)
          PROVE  j \in 1..n /\ j + d \in 1..Len(u) /\ u[j + d] = s[j]
      <4>1. j \in 1..n /\ j + d \in 1..Len(u) /\ j \in i..(e - 1)
        BY <1>1, <1>2, <1>6
      <4>2. Ch(u, j + d) = Ch(s, j)
        BY <4>1 DEF Copied
      <4> QED
        BY <1>1, <4>1, <4>2
    <3>2. PICK m \in Nat : m = r - i
      BY <1>2
    <3>3. SubSeq(s, i, r - 1) = [k \in 1..m |-> s[i + k - 1]]
      <4>1. s \in Seq(ToSet(s)) /\ i \in 1..n /\ r - 1 \in i..n /\ (r - 1) - i + 1 = m
        BY <1>1, <1>2, <3>2 DEF IsText
      <4> QED
        BY <4>1
    <3>4. SubSeq(u, i + d, (r + d) - 1) = [k \in 1..m |-> u[(i + d) + k - 1]]
      <4>1. u \in Seq(ToSet(u)) /\ (r + d) - 1 - (i + d) + 1 = m
            /\ i + d \in 1..Len(u) /\ (r + d) - 1 \in (i + d)..Len(u)
        BY <1>1, <1>2, <1>6, <3>2 DEF IsText
      <4>2. PICK q \in 1..Len(u), p \in 1..Len(u) : q = i + d /\ p = (r + d) - 1
        BY <1>1, <4>1
      <4>3. p \in q..Len(u) /\ p - q + 1 = m
        BY <1>1, <1>2, <3>2, <4>1, <4>2
      <4>4. SubSeq(u, q, p) = [k \in 1..m |-> u[q + k - 1]]
        BY <1>1, <4>1, <4>3
      <4> QED
        BY <4>2, <4>4
    <3>5. \A k \in 1..m : u[(i + d) + k - 1] = s[i + k - 1]
      <4> SUFFICES ASSUME NEW k \in 1..m PROVE u[(i + d) + k - 1] = s[i + k - 1]
        OBVIOUS
      <4>1. i + k - 1 \in i..(r - 1) /\ (i + d) + k - 1 = (i + k - 1) + d
        BY <1>1, <1>2, <3>2
      <4>2. PICK j \in i..(r - 1) : j = i + k - 1
        BY <4>1
      <4> QED
        BY <3>1, <4>1, <4>2
    <3> QED
      BY <3>3, <3>4, <3>5
  <2>2. /\ base \in 0..36 /\ e = EndOf(s, first, DigitsBelow(base))
        /\ first \in (r + 1)..(n + 1) /\ first <= e /\ e \in Nat
    BY <1>5, <1>10
  <2>3. EndOf(u, first + d, DigitsBelow(base)) = e + d
    <3>1. first \in i..e /\ first <= n + 1 /\ i \in Nat \ {0} /\ EndOf(s, first, DigitsBelow(base)) <= e
      BY <1>1, <1>2, <2>2
    <3>2. EOI \notin DigitsBelow(base) /\ DigitsBelow(base) \cap Gaps = {}
      BY <2>2, NoClassEnds, NoClassSeparates
    <3>3. EndOf(u, first + d, DigitsBelow(base)) = EndOf(s, first, DigitsBelow(base)) + d
      BY <2>2, <3>1, <3>2, EndOfCopied
    <3> QED
      BY <2>2, <3>3
  <2>4. Ch(s, r + 1) = "-" <=> Ch(u, (r + d) + 1) = "-"
    <3>1. r + 1 \in i..e /\ (r + d) + 1 = (r + 1) + d /\ i \in Nat
      BY <1>1, <1>2, <2>2
    <3>2. Same(Ch(s, r + 1), Ch(u, (r + 1) + d))
      BY <2>2, <3>1, CopiedSame
    <3> QED
      BY <3>1, <3>2, SameCharacter
  <2>5. (IF Ch(u, (r + d) + 1) = "-" THEN ((r + d) + 1) + 1 ELSE (r + d) + 1) = first + d
    <3>1. ((r + d) + 1) + 1 = (r + 2) + d /\ (r + d) + 1 = (r + 1) + d
      BY <1>1, <1>2
    <3> QED
      BY <2>4, <3>1 DEF first
  <2>6. EndOfRadix(u, (r + d) + 1, base) = e + d
    <3>1. ~(base > 36)
      BY <2>2
    <3> QED
      BY <2>3, <2>5, <3>1 DEF EndOfRadix
  <2>7. EndOfNumber(u, i + d, r + d) = EndOfRadix(u, (r + d) + 1, base)
    <3>1. Ch(u, r + d) = "r"
      BY <1>8, <1>10
    <3> QED
      BY <2>1, <3>1 DEF EndOfNumber, base
  <2> QED
    BY <1>7, <2>6, <2>7
<1> QED
  BY <1>9, <1>10

(* The types of what has no end.                                           *)
Unread == {"UNCLOSED_STRING", "UNCLOSED_COMMENT", "ENDLESS"}

(* Neither a quote nor a colon is of a class that is read to its end.      *)
LEMMA NotOfClasses ==
  \A c \in {"'", "\"", ":"} : /\ c \notin DOMAIN Single /\ c \notin DOMAIN Lonely
                              /\ c \notin Numeric /\ c \notin IdentifierBegining /\ c \notin Special
                              /\ c # EOI
<1>1. DigitsBelow(10) \subseteq AnyDigit /\ DigitsBelow(36) \subseteq AnyDigit
  BY DigitsAreAny
<1>2. \A c \in {"'", "\"", ":"} : /\ c \notin DOMAIN Single /\ c \notin DOMAIN Lonely
                                    /\ c \notin Special /\ c \notin LowerCase /\ c # EOI
  BY DEF Single, Lonely, Special, LowerCase, EOI
<1>3. \A c \in {"'", "\"", ":"} : c \notin AnyDigit
  BY DEF AnyDigit
<1> QED
  BY <1>1, <1>2, <1>3 DEF Numeric, IdentifierBegining

(* What begins with a quote or with :=, and that only a single quote       *)
(* begins a string.                                                        *)
LEMMA ScanIs ==
  ASSUME NEW s, NEW i
  PROVE  /\ Ch(s, i) = "'" =>
              Scan(s, i) = <<IF Closes(s, i) > 0 THEN "STRING" ELSE "UNCLOSED_STRING", Quoted(s, i).end>>
         /\ Ch(s, i) = "\"" => Scan(s, i) = <<"UNCLOSED_COMMENT", Quoted(s, i).end>>
         /\ Ch(s, i) = ":" /\ Ch(s, i + 1) = "=" => Scan(s, i) = <<"ASSIGN", i + 2>>
         /\ Ch(s, i) # "'" => Scan(s, i)[1] # "STRING"
<1> DEFINE ch == Ch(s, i)
           next == Ch(s, i + 1)
           singleAt == ch \in DOMAIN Single
           lonelyAt == ch \in DOMAIN Lonely /\ next \notin Special
           assignAt == ch = ":" /\ next = "="
           colonAt == ch = ":" /\ next # "="
           barAt == ch = "|" /\ next # "|"
           charAt == ch = "$"
           arrayAt == ch = "#" /\ next = "("
           symbolAt == ch = "#" /\ next # "("
           quotedAt == ch = "'"
           commentAt == ch = "\""
           closingAt == ch = EOI
           numberAt == ch \in Numeric
           wordAt == ch \in IdentifierBegining
           specialAt == /\ ch \in Special /\ ~(ch \in DOMAIN Lonely /\ next \notin Special)
                        /\ ~(ch = "|" /\ next # "|")
           single == <<Single[ch], i + 1>>
           lonely == <<Lonely[ch], i + 1>>
           assign == <<"ASSIGN", i + 2>>
           colon == <<"COLON", i + 1>>
           bar == <<"BAR", i + 1>>
           char == <<"CHAR", i + 2>>
           array == <<"ARRAY_OPEN", i + 2>>
           symbol == <<"SYMBOL_START", i + 1>>
           quoted == <<IF Closes(s, i) > 0 THEN "STRING" ELSE "UNCLOSED_STRING", Quoted(s, i).end>>
           comment == <<"UNCLOSED_COMMENT", Quoted(s, i).end>>
           closing == <<"END", i>>
           number == Digits(s, EndOfNumber(s, i, EndOf(s, i, Numeric)))
           word == Word(s, EndOf(s, i, Identifier))
           special == <<"SPECIAL_CHARS", EndOf(s, i, Special)>>
           unknown == <<"UNKNOWN", i + 1>>
<1>1. Scan(s, i) = CASE singleAt -> single
          [] lonelyAt -> lonely
          [] assignAt -> assign
          [] colonAt -> colon
          [] barAt -> bar
          [] charAt -> char
          [] arrayAt -> array
          [] symbolAt -> symbol
          [] quotedAt -> quoted
          [] commentAt -> comment
          [] closingAt -> closing
          [] numberAt -> number
          [] wordAt -> word
          [] specialAt -> special
          [] OTHER -> unknown
  BY DEF Scan
<1>2. ASSUME ch \in {"'", "\"", ":"}
      PROVE  /\ ~singleAt /\ ~lonelyAt /\ ~barAt /\ ~charAt /\ ~arrayAt /\ ~symbolAt
             /\ ~closingAt /\ ~numberAt /\ ~wordAt /\ ~specialAt
  <2> HIDE DEF ch, next
  <2> QED
    BY <1>2, NotOfClasses
<1>3. /\ quotedAt => ~assignAt /\ ~colonAt /\ ~commentAt
      /\ commentAt => ~assignAt /\ ~colonAt /\ ~quotedAt
      /\ assignAt => ~colonAt /\ ~commentAt /\ ~quotedAt
  OBVIOUS
<1>4. quotedAt \/ commentAt \/ assignAt => ch \in {"'", "\"", ":"}
  OBVIOUS
<1>5. /\ singleAt => single[1] # "STRING"
      /\ lonelyAt => lonely[1] # "STRING"
      /\ assign[1] # "STRING" /\ colon[1] # "STRING" /\ bar[1] # "STRING" /\ char[1] # "STRING"
      /\ array[1] # "STRING" /\ symbol[1] # "STRING" /\ comment[1] # "STRING" /\ closing[1] # "STRING"
      /\ number[1] # "STRING" /\ word[1] # "STRING" /\ special[1] # "STRING" /\ unknown[1] # "STRING"
  <2>1. singleAt => single[1] # "STRING"
    BY DEF Single
  <2>2. lonelyAt => lonely[1] # "STRING"
    BY DEF Lonely
  <2>3. number[1] # "STRING" /\ word[1] # "STRING"
    BY DEF Digits, Word
  <2> QED
    BY <2>1, <2>2, <2>3
<1> HIDE DEF singleAt, lonelyAt, assignAt, colonAt, barAt, charAt, arrayAt, symbolAt, quotedAt, commentAt,
             closingAt, numberAt, wordAt, specialAt, single, lonely, assign, colon, bar, char, array, symbol,
             quoted, comment, closing, number, word, special, unknown
<1>6. /\ quotedAt => Scan(s, i) = quoted
      /\ commentAt => Scan(s, i) = comment
      /\ assignAt => Scan(s, i) = assign
  BY <1>1, <1>2, <1>3, <1>4
<1>7. ~quotedAt => Scan(s, i)[1] # "STRING"
  BY <1>1, <1>5
<1> QED
  BY <1>6, <1>7 DEF quotedAt, quoted, commentAt, comment, assignAt, assign

(* A token is read from its copy with the same type and length: each kind  *)
(* of readToken looks at what was copied and at the next character.        *)
LEMMA ScanCopied ==
  ASSUME NEW s, IsText(s), NEW u, IsText(u), NEW d, NEW i \in 1..Len(s), Ch(s, i) # EOI,
         NEW t, t \notin Unread, NEW e, Scan(s, i) = <<t, e>>, Copied(s, i, e, u, d)
  PROVE  /\ Scan(u, i + d) = <<t, e + d>>
         /\ Ch(s, i) = "'" => /\ e = Quoted(s, i).end /\ e <= Len(s)
                              /\ Quoted(u, i + d).content = Quoted(s, i).content
         /\ Ch(s, i) # "\""
<1> DEFINE n == Len(s)
           q == i + d
           ch == Ch(s, i)
           next == Ch(s, i + 1)
           other == Ch(u, q + 1)
<1>1. /\ n \in Nat /\ d \in Int /\ Len(u) \in Nat /\ q \in Nat \ {0} /\ e + d <= Len(u) + 1
      /\ \A j \in 1..n : Ch(s, j) = s[j]
  BY Characters DEF Copied
<1>2. e \in (i + 1)..(n + 2) /\ e \in Nat /\ i \in i..e /\ i + 1 \in i..e /\ i \in Nat \ {0}
  <2>1. Forward(s, i, <<t, e>>)
    <3>1. i \in 1..(n + 2)
      BY <1>1
    <3> QED
      BY <3>1, ScanFacts
  <2>2. t \notin Closing
    BY <2>1 DEF Forward, Closing, Unread
  <2>3. e \in i..(n + 2) /\ e > i
    BY <2>1, <2>2 DEF Forward
  <2> QED
    BY <1>1, <2>3
<1>3. Ch(u, q) = ch
  <2>1. i \in i..(e - 1)
    BY <1>1, <1>2
  <2> QED
    BY <2>1 DEF Copied
<1>4. Same(next, other)
  <2>1. q + 1 = (i + 1) + d
    BY <1>1
  <2>2. Same(Ch(s, i + 1), Ch(u, (i + 1) + d))
    BY <1>2, CopiedSame
  <2> QED
    BY <2>1, <2>2
<1>5. /\ next \in Special <=> other \in Special
      /\ next = "=" <=> other = "="
      /\ next = "|" <=> other = "|"
      /\ next = "(" <=> other = "("
  <2>1. next \in Special <=> other \in Special
    BY <1>4, SameClass, NoClassSeparates
  <2>2. (next = "=" <=> other = "=") /\ (next = "|" <=> other = "|") /\ (next = "(" <=> other = "(")
    <3> HIDE DEF next, other
    <3> QED
      BY <1>4, SameCharacter
  <2> QED
    BY <2>1, <2>2
<1>6. q + 1 = (i + 1) + d /\ q + 2 = (i + 2) + d
  BY <1>1
<1> DEFINE singleAt == ch \in DOMAIN Single
           lonelyAt == ch \in DOMAIN Lonely /\ next \notin Special
           assignAt == ch = ":" /\ next = "="
           colonAt == ch = ":" /\ next # "="
           barAt == ch = "|" /\ next # "|"
           charAt == ch = "$"
           arrayAt == ch = "#" /\ next = "("
           symbolAt == ch = "#" /\ next # "("
           quotedAt == ch = "'"
           commentAt == ch = "\""
           closingAt == ch = EOI
           numberAt == ch \in Numeric
           wordAt == ch \in IdentifierBegining
           specialAt == /\ ch \in Special /\ ~(ch \in DOMAIN Lonely /\ next \notin Special)
                        /\ ~(ch = "|" /\ next # "|")
           quotedIn == <<IF Closes(s, i) > 0 THEN "STRING" ELSE "UNCLOSED_STRING", Quoted(s, i).end>>
           commentIn == <<"UNCLOSED_COMMENT", Quoted(s, i).end>>
           numberIn == Digits(s, EndOfNumber(s, i, EndOf(s, i, Numeric)))
           wordIn == Word(s, EndOf(s, i, Identifier))
           specialIn == <<"SPECIAL_CHARS", EndOf(s, i, Special)>>
           quoted == <<IF Closes(u, q) > 0 THEN "STRING" ELSE "UNCLOSED_STRING", Quoted(u, q).end>>
           comment == <<"UNCLOSED_COMMENT", Quoted(u, q).end>>
           number == Digits(u, EndOfNumber(u, q, EndOf(u, q, Numeric)))
           word == Word(u, EndOf(u, q, Identifier))
           special == <<"SPECIAL_CHARS", EndOf(u, q, Special)>>
<1>7. <<t, e>> =
        CASE singleAt -> <<Single[ch], i + 1>>
          [] lonelyAt -> <<Lonely[ch], i + 1>>
          [] assignAt -> <<"ASSIGN", i + 2>>
          [] colonAt -> <<"COLON", i + 1>>
          [] barAt -> <<"BAR", i + 1>>
          [] charAt -> <<"CHAR", i + 2>>
          [] arrayAt -> <<"ARRAY_OPEN", i + 2>>
          [] symbolAt -> <<"SYMBOL_START", i + 1>>
          [] quotedAt -> quotedIn
          [] commentAt -> commentIn
          [] closingAt -> <<"END", i>>
          [] numberAt -> numberIn
          [] wordAt -> wordIn
          [] specialAt -> specialIn
          [] OTHER -> <<"UNKNOWN", i + 1>>
  BY DEF Scan
<1>8. Scan(u, q) =
        CASE singleAt -> <<Single[ch], q + 1>>
          [] lonelyAt -> <<Lonely[ch], q + 1>>
          [] assignAt -> <<"ASSIGN", q + 2>>
          [] colonAt -> <<"COLON", q + 1>>
          [] barAt -> <<"BAR", q + 1>>
          [] charAt -> <<"CHAR", q + 2>>
          [] arrayAt -> <<"ARRAY_OPEN", q + 2>>
          [] symbolAt -> <<"SYMBOL_START", q + 1>>
          [] quotedAt -> quoted
          [] commentAt -> comment
          [] closingAt -> <<"END", q>>
          [] numberAt -> number
          [] wordAt -> word
          [] specialAt -> special
          [] OTHER -> <<"UNKNOWN", q + 1>>
  <2> DEFINE lonelyAt2 == ch \in DOMAIN Lonely /\ other \notin Special
             assignAt2 == ch = ":" /\ other = "="
             colonAt2 == ch = ":" /\ other # "="
             barAt2 == ch = "|" /\ other # "|"
             arrayAt2 == ch = "#" /\ other = "("
             symbolAt2 == ch = "#" /\ other # "("
             specialAt2 == /\ ch \in Special /\ ~(ch \in DOMAIN Lonely /\ other \notin Special)
                           /\ ~(ch = "|" /\ other # "|")
  <2>1. Scan(u, q) =
        CASE singleAt -> <<Single[ch], q + 1>>
          [] lonelyAt2 -> <<Lonely[ch], q + 1>>
          [] assignAt2 -> <<"ASSIGN", q + 2>>
          [] colonAt2 -> <<"COLON", q + 1>>
          [] barAt2 -> <<"BAR", q + 1>>
          [] charAt -> <<"CHAR", q + 2>>
          [] arrayAt2 -> <<"ARRAY_OPEN", q + 2>>
          [] symbolAt2 -> <<"SYMBOL_START", q + 1>>
          [] quotedAt -> quoted
          [] commentAt -> comment
          [] closingAt -> <<"END", q>>
          [] numberAt -> number
          [] wordAt -> word
          [] specialAt2 -> special
          [] OTHER -> <<"UNKNOWN", q + 1>>
    <3> HIDE DEF q
    <3> HIDE DEF ch
    <3> QED
      BY <1>3 DEF Scan
  <2>2. /\ lonelyAt <=> lonelyAt2
        /\ assignAt <=> assignAt2
        /\ colonAt <=> colonAt2
        /\ barAt <=> barAt2
        /\ arrayAt <=> arrayAt2
        /\ symbolAt <=> symbolAt2
        /\ specialAt <=> specialAt2
    <3> HIDE DEF ch, next, other
    <3> QED
      BY <1>5
  <2> HIDE DEF singleAt, lonelyAt, assignAt, colonAt, barAt, charAt, arrayAt, symbolAt, quotedAt, commentAt,
               closingAt, numberAt, wordAt, specialAt, lonelyAt2, assignAt2, colonAt2, barAt2, arrayAt2,
               symbolAt2, specialAt2, quoted, comment, number, word, special, q, ch
  <2> QED
    BY <2>1, <2>2
<1>9. quotedAt /\ <<t, e>> = quotedIn =>
        /\ quoted = <<t, e + d>>
        /\ e = Quoted(s, i).end /\ e <= Len(s) /\ Quoted(u, q).content = Quoted(s, i).content
  <2> SUFFICES ASSUME quotedAt, <<t, e>> = quotedIn
               PROVE  /\ quoted = <<t, e + d>>
                      /\ e = Quoted(s, i).end /\ e <= Len(s)
                      /\ Quoted(u, q).content = Quoted(s, i).content
    OBVIOUS
  <2>1. e = Quoted(s, i).end /\ Closes(s, i) > 0 /\ t = "STRING"
    BY DEF Unread
  <2>2. Closes(s, i) = e /\ e <= Len(s)
    BY <1>1, <2>1, ClosesFacts
  <2>3. s[i] = "'"
    BY <1>1
  <2>4. Quoted(u, q) = [content |-> Quoted(s, i).content, end |-> e + d]
    BY <2>1, <2>2, <2>3, QuotedCopied
  <2>5. Ch(u, e + d) # EOI
    <3>1. e \in i..e /\ i \in Nat
      BY <1>2
    <3>2. Same(Ch(s, e), Ch(u, e + d))
      BY <1>2, <3>1, CopiedSame
    <3>3. Ch(s, e) # EOI
      BY <1>2, <2>1 DEF Closes, IfClosed
    <3> QED
      BY <3>2, <3>3, SameCharacter
  <2>6. Closes(u, q) = e + d /\ e + d > 0
    <3>1. e + d > 0
      BY <1>1, <1>2
    <3>2. Quoted(u, q).end = e + d
      BY <2>4
    <3> QED
      BY <2>5, <3>1, <3>2 DEF Closes, IfClosed
  <2> HIDE DEF q
  <2>7. quoted = <<"STRING", e + d>>
    BY <2>4, <2>6
  <2> QED
    BY <2>1, <2>2, <2>4, <2>7
<1>10. <<t, e>> # commentIn /\ ~closingAt
  BY DEF Unread
<1>11. numberAt /\ <<t, e>> = numberIn => number = <<t, e + d>>
  <2> SUFFICES ASSUME numberAt, <<t, e>> = numberIn PROVE number = <<t, e + d>>
    OBVIOUS
  <2> DEFINE b == EndOfNumber(s, i, EndOf(s, i, Numeric))
  <2>1. b # 0 /\ t = "DIGIT" /\ e = b
    <3> HIDE DEF b
    <3>1. <<t, e>> = Digits(s, b)
      BY DEF b
    <3> QED
      BY <3>1 DEF Digits, Unread
  <2>2. EndOfNumber(u, q, EndOf(u, q, Numeric)) = e + d
    BY <2>1, NumberCopied
  <2>3. e + d # 0
    BY <1>1, <1>2
  <2> QED
    BY <2>1, <2>2, <2>3 DEF Digits
<1>12. wordAt /\ <<t, e>> = wordIn => word = <<t, e + d>>
  BY WordCopied
<1>13. specialAt /\ <<t, e>> = specialIn => special = <<t, e + d>>
  <2> SUFFICES ASSUME specialAt, <<t, e>> = specialIn PROVE special = <<t, e + d>>
    OBVIOUS
  <2>1. t = "SPECIAL_CHARS" /\ e = EndOf(s, i, Special)
    OBVIOUS
  <2>2. i <= Len(s) + 1 /\ EndOf(s, i, Special) <= e
    BY <1>1, <1>2, <2>1
  <2>3. EOI \notin Special /\ Special \cap Gaps = {}
    BY NoClassEnds, NoClassSeparates
  <2>4. EndOf(u, i + d, Special) = EndOf(s, i, Special) + d
    BY <1>2, <2>2, <2>3, EndOfCopied
  <2> QED
    BY <2>1, <2>4
<1> HIDE DEF singleAt, lonelyAt, assignAt, colonAt, barAt, charAt, arrayAt, symbolAt, quotedAt, commentAt,
             closingAt, numberAt, wordAt, specialAt, quoted, comment, number, word, special,
             quotedIn, commentIn, numberIn, wordIn, specialIn, q, next, other
<1>14. ~commentAt
  BY <1>10, ScanIs DEF commentAt, commentIn
<1>15. quotedAt => <<t, e>> = quotedIn
  BY ScanIs DEF quotedAt, quotedIn
<1>16. Scan(u, q) = <<t, e + d>>
  <2> DEFINE single == Single[ch]
             lonely == Lonely[ch]
  <2>1. \A x, j : <<t, e>> = <<x, j>> => <<x, j + d>> = <<t, e + d>>
    OBVIOUS
  <2> HIDE DEF ch
  <2> QED
    BY <1>6, <1>7, <1>8, <1>9, <1>10, <1>11, <1>12, <1>13, <2>1
<1> QED
  BY <1>9, <1>14, <1>15, <1>16 DEF quotedAt, commentAt, q

-----------------------------------------------------------------------------
(* What a text looks like when it is written anew.                         *)

(* A token, after a space if it stood apart.                               *)
Lead(token) == (IF token.separated THEN <<" ">> ELSE <<>>) \o Spelled(token)

(* No token is one without an end.                                         *)
Plain(list) == \A k \in 1..Len(list) : list[k].type \notin Unread

(* The first token is written before the rest.                             *)
LEMMA RespacedCons ==
  ASSUME NEW A, NEW T, NEW rest \in Seq(T), NEW token, Lead(token) \in Seq(A),
         \A k \in 1..Len(rest) : Lead(rest[k]) \in Seq(A)
  PROVE  /\ Respaced(<<token>> \o rest) = Lead(token) \o Respaced(rest)
         /\ Respaced(rest) \in Seq(A)
         /\ Respaced(<<>>) = <<>>
<1> DEFINE list == <<token>> \o rest
           ss == [k \in DOMAIN rest |-> Lead(rest[k])]
           tt == [k \in DOMAIN list |-> Lead(list[k])]
<1>1. PICK m \in Nat : m = Len(rest) /\ DOMAIN rest = 1..m
  OBVIOUS
<1>2. DOMAIN list = 1..(m + 1) /\ list[1] = token /\ \A k \in 2..(m + 1) : list[k] = rest[k - 1]
  <2>1. rest \in Seq(T \cup {token}) /\ token \in T \cup {token}
    <3>1. \A k \in 1..m : rest[k] \in T \cup {token}
      BY <1>1
    <3> QED
      BY <1>1, <3>1
  <2> QED
    BY <1>1, <2>1
<1> HIDE DEF list
<1>3. ss \in Seq(Seq(A)) /\ Len(ss) = m
  <2>1. [k \in 1..m |-> Lead(rest[k])] \in [1..m -> Seq(A)]
    BY <1>1
  <2>2. \A B : [1..m -> B] \subseteq Seq(B) /\ \A q \in [1..m -> B] : Len(q) = m
    OBVIOUS
  <2> QED
    BY <1>1, <2>1, <2>2
<1>4. tt \in Seq(Seq(A)) /\ Len(tt) = m + 1
  <2>1. PICK h \in Nat : h = m + 1
    BY <1>1
  <2>2. \A k \in 1..h : Lead(list[k]) \in Seq(A)
    <3> SUFFICES ASSUME NEW k \in 1..h PROVE Lead(list[k]) \in Seq(A)
      OBVIOUS
    <3>1. k = 1 \/ (k \in 2..(m + 1) /\ k - 1 \in 1..m)
      BY <1>1, <2>1
    <3> QED
      BY <1>1, <1>2, <3>1
  <2>3. [k \in 1..h |-> Lead(list[k])] \in [1..h -> Seq(A)]
    BY <2>2
  <2>4. \A B : [1..h -> B] \subseteq Seq(B) /\ \A q \in [1..h -> B] : Len(q) = h
    OBVIOUS
  <2> QED
    BY <1>2, <2>1, <2>3, <2>4
<1>5. tt[1] = Lead(token) /\ \A k \in 2..(m + 1) : tt[k] = ss[k - 1]
  <2>1. 1 \in DOMAIN list /\ \A k \in 2..(m + 1) : k \in DOMAIN list /\ k - 1 \in DOMAIN rest
    BY <1>1, <1>2
  <2>2. \A k \in DOMAIN list : tt[k] = Lead(list[k])
    OBVIOUS
  <2>3. \A k \in DOMAIN rest : ss[k] = Lead(rest[k])
    OBVIOUS
  <2> HIDE DEF tt, ss
  <2> QED
    BY <1>2, <2>1, <2>2, <2>3
<1> HIDE DEF tt, ss
<1>6. PICK x \in Seq(A) : x = Lead(token)
  OBVIOUS
<1>7. tt = <<x>> \o ss
  <2> DEFINE rr == <<x>> \o ss
  <2>1. rr \in Seq(Seq(A)) /\ Len(rr) = m + 1 /\ rr[1] = x /\ \A k \in 2..(m + 1) : rr[k] = ss[k - 1]
    BY <1>3
  <2> HIDE DEF rr
  <2>2. \A k \in 1..(m + 1) : k = 1 \/ k \in 2..(m + 1)
    BY <1>1
  <2>3. \A k \in 1..(m + 1) : tt[k] = rr[k]
    BY <1>5, <1>6, <2>1, <2>2
  <2>4. tt = rr
    BY <1>4, <2>1, <2>3
  <2> QED
    BY <2>4 DEF rr
<1>8. FlattenSeq(<<x>> \o ss) = x \o FlattenSeq(ss) /\ FlattenSeq(ss) \in Seq(A)
  BY <1>3, FlattenCons
<1>9. Respaced(list) = FlattenSeq(tt) /\ Respaced(rest) = FlattenSeq(ss)
  BY DEF Respaced, Lead, tt, ss
<1>10. Respaced(<<>>) = <<>>
  <2>1. Respaced(<<>>) = FlattenSeq([k \in DOMAIN <<>> |-> Lead(<<>>[k])])
    BY DEF Respaced, Lead
  <2>2. [k \in DOMAIN <<>> |-> Lead(<<>>[k])] = <<>>
    OBVIOUS
  <2>3. FlattenSeq(<<>>) = <<>>
    BY DEF FlattenSeq
  <2> QED
    BY <2>1, <2>2, <2>3
<1> QED
  BY <1>6, <1>7, <1>8, <1>9, <1>10 DEF list

(* From p on, u reads w.                                                   *)
Suffix(u, p, w) ==
  /\ p \in Nat \ {0}
  /\ Len(u) = (p - 1) + Len(w)
  /\ \A k \in 1..Len(w) : Ch(u, p + k - 1) = w[k]

(* Behind its first piece it reads the rest.                               *)
LEMMA SuffixCut ==
  ASSUME NEW u, IsText(u), NEW p, NEW A, NEW x \in Seq(A), NEW w \in Seq(A), Suffix(u, p, x \o w)
  PROVE  /\ \A k \in 1..Len(x) : Ch(u, p + k - 1) = x[k]
         /\ Suffix(u, p + Len(x), w)
         /\ Len(w) = 0 => Ch(u, p + Len(x)) = EOI
<1>1. PICK a \in Nat, b \in Nat : a = Len(x) /\ b = Len(w) /\ Len(x \o w) = a + b
  OBVIOUS
<1>2. /\ \A k \in 1..a : (x \o w)[k] = x[k]
      /\ \A k \in 1..b : (x \o w)[a + k] = w[k]
  BY <1>1
<1> DEFINE y == x \o w
<1> HIDE DEF y
<1>3. p \in Nat \ {0} /\ Len(u) = (p - 1) + (a + b) /\ \A k \in 1..(a + b) : Ch(u, p + k - 1) = y[k]
  BY <1>1 DEF Suffix, y
<1>4. \A k \in 1..a : Ch(u, p + k - 1) = x[k]
  <2>1. \A k \in 1..a : k \in 1..(a + b)
    OBVIOUS
  <2> QED
    BY <1>2, <1>3, <2>1 DEF y
<1>5. ASSUME NEW k \in 1..b PROVE Ch(u, (p + a) + k - 1) = w[k]
  <2>1. a + k \in 1..(a + b) /\ (p + a) + k - 1 = p + (a + k) - 1
    BY <1>3
  <2>2. Ch(u, p + (a + k) - 1) = y[a + k]
    BY <1>3, <2>1
  <2> QED
    BY <1>2, <2>1, <2>2 DEF y
<1>6. p + a \in Nat \ {0} /\ Len(u) = ((p + a) - 1) + b
  BY <1>3
<1>7. ASSUME b = 0 PROVE Ch(u, p + a) = EOI
  <2>1. p + a \notin 1..Len(u)
    BY <1>3, <1>6, <1>7
  <2> QED
    BY <2>1, Characters
<1> QED
  BY <1>1, <1>4, <1>5, <1>6, <1>7 DEF Suffix

(* Where a token begins nothing is skipped; one space is.                  *)
LEMMA AfterIs ==
  ASSUME NEW s, IsText(s), NEW i \in 1..(Len(s) + 2)
  PROVE  /\ AfterSeparators(s, i) \in i..(Len(s) + 2)
         /\ Begins(s, AfterSeparators(s, i))
         /\ Begins(s, i) => AfterSeparators(s, i) = i
         /\ Ch(s, i) = " " /\ Begins(s, i + 1) => AfterSeparators(s, i) = i + 1
<1> DEFINE n == Len(s)
<1>1. n \in Nat
  BY Characters
<1>2. PICK f : /\ \A j \in i..(n + 2) : /\ f[j] \in j..(n + 2)
                                        /\ f[j] = SkippedFrom(s, f, j)
                                        /\ Begins(s, f[j])
               /\ AfterSeparators(s, i) = f[i]
  BY SeparatorsFacts
<1>3. i \in i..(n + 2)
  BY <1>1
<1>4. ASSUME NEW j, Begins(s, j) PROVE SkippedFrom(s, f, j) = j
  <2>1. Ch(s, j) \notin Separators /\ (Ch(s, j) = "\"" => Closes(s, j) = 0)
    BY <1>4 DEF Begins
  <2>2. CASE Ch(s, j) = "\""
    <3>1. SkipFrom(Closes(s, j), f, j) = j
      <4>1. Closes(s, j) = 0
        BY <2>1, <2>2
      <4>2. SkipFrom(0, f, j) = j
        BY DEF SkipFrom
      <4> QED
        BY <4>1, <4>2
    <3> QED
      BY <2>1, <2>2, <3>1 DEF SkippedFrom
  <2>3. CASE Ch(s, j) # "\""
    BY <2>1, <2>3 DEF SkippedFrom
  <2> QED
    BY <2>2, <2>3
<1>5. ASSUME Ch(s, i) = " ", Begins(s, i + 1) PROVE f[i] = i + 1
  <2>1. Ch(s, i) \in Separators /\ Ch(s, i) # "\"" /\ Ch(s, i) # EOI
    BY <1>5 DEF Separators, EOI
  <2>2. SkippedFrom(s, f, i) = f[i + 1]
    BY <2>1 DEF SkippedFrom
  <2>3. i + 1 \in i..(n + 2)
    <3>1. i \in 1..n
      BY <2>1, InText
    <3> QED
      BY <1>1, <3>1
  <2>4. f[i + 1] = i + 1
    BY <1>2, <1>4, <1>5, <2>3
  <2> QED
    BY <1>2, <1>3, <2>2, <2>4
<1> QED
  BY <1>2, <1>3, <1>4, <1>5

(* The parts of a token, whatever tells that it stood apart.               *)
LEMMA TokenIs ==
  ASSUME NEW s, NEW start, NEW apart, NEW scan
  PROVE  /\ TokenFrom(s, start, apart, scan).token.type = scan[1]
         /\ TokenFrom(s, start, apart, scan).token.separated = apart
         /\ TokenFrom(s, start, apart, scan).token.content
              = IF Ch(s, start) \in {"'", "\""} THEN Quoted(s, start).content
                ELSE Between(s, start, scan[2])
         /\ TokenFrom(s, start, apart, scan).end = scan[2]
  BY DEF TokenFrom

(* A token is led by a space if separators came before it.                 *)
LEMMA LeadIs ==
  ASSUME NEW s, NEW start, NEW i, NEW scan
  PROVE  Lead(TokenFrom(s, start, start > i, scan).token)
           = (IF start > i THEN <<" ">> ELSE <<>>) \o Spelled(TokenFrom(s, start, start > i, scan).token)
<1> DEFINE token == TokenFrom(s, start, start > i, scan).token
<1>1. token.separated = (start > i)
  BY DEF TokenFrom
<1>2. Lead(token) = (IF token.separated THEN <<" ">> ELSE <<>>) \o Spelled(token)
  BY DEF Lead
<1> HIDE DEF token
<1>3. start > i => Lead(token) = <<" ">> \o Spelled(token)
  BY <1>1, <1>2
<1>4. ~(start > i) => Lead(token) = <<>> \o Spelled(token)
  BY <1>1, <1>2
<1>5. Lead(token) = (IF start > i THEN <<" ">> ELSE <<>>) \o Spelled(token)
  <2> DEFINE lead == Lead(token)
             spelled == Spelled(token)
  <2> HIDE DEF lead, spelled
  <2>1. start > i => lead = <<" ">> \o spelled
    BY <1>3 DEF lead, spelled
  <2>2. ~(start > i) => lead = <<>> \o spelled
    BY <1>4 DEF lead, spelled
  <2>3. lead = (IF start > i THEN <<" ">> ELSE <<>>) \o spelled
    BY <2>1, <2>2
  <2> QED
    BY <2>3 DEF lead, spelled
<1> QED
  BY <1>5 DEF token

(* What is written before the token that is read from i.                   *)
Space(s, i) == IF AfterSeparators(s, i) > i THEN <<" ">> ELSE <<>>

(* The parts of what Read reads.                                           *)
LEMMA ReadIs ==
  ASSUME NEW s, NEW i
  PROVE  /\ Read(s, i).token.type = Scan(s, AfterSeparators(s, i))[1]
         /\ Read(s, i).end = Scan(s, AfterSeparators(s, i))[2]
         /\ Read(s, i).token.content
              = IF Ch(s, AfterSeparators(s, i)) \in {"'", "\""}
                THEN Quoted(s, AfterSeparators(s, i)).content
                ELSE Between(s, AfterSeparators(s, i), Read(s, i).end)
         /\ Lead(Read(s, i).token) = Space(s, i) \o Spelled(Read(s, i).token)
<1> DEFINE start == AfterSeparators(s, i)
           scan == Scan(s, start)
           token == TokenFrom(s, start, start > i, scan)
<1>1. Read(s, i) = token
  BY DEF Read, ReadFrom
<1>2. /\ token.token.type = scan[1] /\ token.end = scan[2]
      /\ token.token.content = IF Ch(s, start) \in {"'", "\""} THEN Quoted(s, start).content
                               ELSE Between(s, start, scan[2])
  <2> HIDE DEF start, scan
  <2>1. token.token.type = scan[1] /\ token.end = scan[2]
    BY DEF TokenFrom
  <2>2. token.token.content = IF Ch(s, start) \in {"'", "\""} THEN Quoted(s, start).content
                              ELSE Between(s, start, scan[2])
    BY DEF TokenFrom
  <2> QED
    BY <2>1, <2>2
<1>3. Lead(token.token) = (IF start > i THEN <<" ">> ELSE <<>>) \o Spelled(token.token)
  <2> HIDE DEF start, scan
  <2> QED
    BY LeadIs
<1> HIDE DEF token, scan
<1> QED
  BY <1>1, <1>2, <1>3 DEF Space, scan

(* Where what Read reads stands, and how it ends.                          *)
LEMMA ReadPlaces ==
  ASSUME NEW s, IsText(s), NEW i \in 1..(Len(s) + 2)
  PROVE  /\ AfterSeparators(s, i) \in i..(Len(s) + 2) /\ AfterSeparators(s, i) \in 1..(Len(s) + 2)
         /\ Begins(s, AfterSeparators(s, i))
         /\ Read(s, i).end \in AfterSeparators(s, i)..(Len(s) + 2) /\ Read(s, i).end \in 1..(Len(s) + 2)
         /\ Scan(s, AfterSeparators(s, i)) = <<Read(s, i).token.type, Read(s, i).end>>
         /\ Ch(s, AfterSeparators(s, i)) = EOI =>
              Read(s, i).token.type = "END" /\ Read(s, i).end = AfterSeparators(s, i)
         /\ Ch(s, AfterSeparators(s, i)) # EOI /\ Read(s, i).token.type \notin Unread =>
              Read(s, i).token.type \notin Closing /\ Read(s, i).end > AfterSeparators(s, i)
<1> DEFINE n == Len(s)
           start == AfterSeparators(s, i)
           scan == Scan(s, start)
           type == Read(s, i).token.type
           end == Read(s, i).end
<1>1. n \in Nat
  BY Characters
<1>2. start \in i..(n + 2) /\ Begins(s, start)
  BY AfterIs
<1>3. type = scan[1] /\ end = scan[2]
  BY ReadIs
<1> HIDE DEF start, type, end
<1>4. start \in 1..(n + 2)
  BY <1>1, <1>2
<1>5. Forward(s, start, scan)
  BY <1>2, <1>4, ScanFacts
<1> HIDE DEF scan
<1>6. scan = <<type, end>> /\ end \in start..(n + 2) /\ end \in 1..(n + 2)
  BY <1>1, <1>3, <1>4, <1>5 DEF Forward
<1>7. Ch(s, start) = EOI => type = "END" /\ end = start
  BY <1>3, <1>5 DEF Forward
<1>8. Ch(s, start) # EOI /\ type \notin Unread => type \notin Closing /\ end > start
  BY <1>3, <1>5 DEF Forward, Closing, Unread
<1> QED
  BY <1>2, <1>4, <1>6, <1>7, <1>8 DEF start, scan, type, end

(* A token is spelled as it stands in the text.                            *)
LEMMA SpelledIs ==
  ASSUME NEW s, IsText(s), NEW i \in 1..(Len(s) + 2), Read(s, i).token.type \notin Unread
  PROVE  Spelled(Read(s, i).token) = Between(s, AfterSeparators(s, i), Read(s, i).end)
<1> DEFINE start == AfterSeparators(s, i)
           token == Read(s, i).token
           type == token.type
           e == Read(s, i).end
<1>1. Scan(s, start) = <<type, e>>
  BY ReadPlaces
<1>2. token.content = IF Ch(s, start) \in {"'", "\""} THEN Quoted(s, start).content
                      ELSE Between(s, start, e)
  BY ReadIs
<1>3. type \notin Unread
  OBVIOUS
<1> HIDE DEF token, e, start
<1>4. ASSUME Ch(s, start) = "'" PROVE Spelled(token) = Between(s, start, e)
  <2>1. Scan(s, start)
          = <<IF Closes(s, start) > 0 THEN "STRING" ELSE "UNCLOSED_STRING", Quoted(s, start).end>>
    BY <1>4, ScanIs
  <2>2. Closes(s, start) > 0 /\ e = Quoted(s, start).end /\ type = "STRING"
    <3> DEFINE closes == Closes(s, start) > 0
    <3> HIDE DEF closes
    <3>1. <<type, e>> = <<IF closes THEN "STRING" ELSE "UNCLOSED_STRING", Quoted(s, start).end>>
      BY <1>1, <2>1 DEF closes
    <3>2. closes /\ e = Quoted(s, start).end /\ type = "STRING"
      BY <1>3, <3>1 DEF Unread
    <3> QED
      BY <3>2 DEF closes
  <2>3. start \in 1..Len(s) /\ s[start] = "'"
    <3>1. start \in 1..Len(s)
      BY <1>4, InText, NotOfClasses
    <3> QED
      BY <1>4, <3>1, Characters
  <2>4. e <= Len(s)
    <3>1. Closes(s, start) \in (start + 1)..Len(s) /\ Closes(s, start) = e
      BY <2>2, <2>3, ClosesFacts
    <3>2. Len(s) \in Nat
      BY Characters
    <3> QED
      BY <3>1, <3>2
  <2>5. Between(s, start, e) = <<"'">> \o Doubled(Quoted(s, start).content) \o <<"'">>
    BY <2>2, <2>3, <2>4, QuotedSpelled
  <2>6. token.content = Quoted(s, start).content
    BY <1>2, <1>4
  <2>7. Spelled(token) = <<"'">> \o Doubled(token.content) \o <<"'">>
    BY <2>2 DEF Spelled, Doubled, Twice
  <2> QED
    BY <2>5, <2>6, <2>7
<1>5. ASSUME Ch(s, start) # "'" PROVE Spelled(token) = Between(s, start, e)
  <2>1. type # "STRING"
    <3>1. Scan(s, start)[1] # "STRING"
      BY <1>5, ScanIs
    <3> QED
      BY <1>1, <3>1
  <2>2. Ch(s, start) # "\""
    <3>1. Ch(s, start) = "\"" => Scan(s, start) = <<"UNCLOSED_COMMENT", Quoted(s, start).end>>
      BY ScanIs
    <3>2. ASSUME <<type, e>> = <<"UNCLOSED_COMMENT", Quoted(s, start).end>> PROVE FALSE
      <4>1. type = "UNCLOSED_COMMENT"
        BY <3>2
      <4> QED
        BY <1>3, <4>1 DEF Unread
    <3> QED
      BY <1>1, <3>1, <3>2
  <2>3. token.content = Between(s, start, e)
    BY <1>2, <1>5, <2>2
  <2> QED
    BY <2>1, <2>3 DEF Spelled
<1> QED
  BY <1>4, <1>5 DEF token, e, start

(* The tokens behind the one that is read from i.                          *)
Behind(s, i) == IF Read(s, i).token.type \in Closing THEN <<>> ELSE TokensFrom(s)[Read(s, i).end]

(* A piece of a text that begins and ends in it is of its characters.      *)
LEMMA LeadOf ==
  ASSUME NEW s, IsText(s), NEW i \in 1..(Len(s) + 2), Read(s, i).token.type \notin Unread
  PROVE  /\ Lead(Read(s, i).token) = Space(s, i) \o Between(s, AfterSeparators(s, i), Read(s, i).end)
         /\ Lead(Read(s, i).token) \in Seq(Chars(s))
         /\ Space(s, i) \in Seq(Chars(s))
         /\ Between(s, AfterSeparators(s, i), Read(s, i).end) \in Seq(Chars(s))
<1> DEFINE n == Len(s)
           start == AfterSeparators(s, i)
           e == Read(s, i).end
           lead == Lead(Read(s, i).token)
           body == Between(s, start, e)
           space == Space(s, i)
<1>1. n \in Nat
  BY Characters
<1>2. start \in 1..(n + 2) /\ e \in start..(n + 2)
  BY ReadPlaces
<1>3. body \in Seq(Chars(s))
  <2> HIDE DEF start, e
  <2>1. start \in Nat /\ e \in Nat /\ start <= e
    BY <1>1, <1>2
  <2> QED
    BY <2>1, BetweenIs
<1>4. lead = space \o body
  BY ReadIs, SpelledIs
<1>5. space \in Seq(Chars(s))
  <2>1. " " \in Chars(s)
    BY DEF Chars
  <2>2. \A A : \A x \in A : <<x>> \in Seq(A)
    OBVIOUS
  <2>3. \A A : <<>> \in Seq(A)
    OBVIOUS
  <2>4. <<" ">> \in Seq(Chars(s)) /\ <<>> \in Seq(Chars(s))
    BY <2>1, <2>2, <2>3
  <2>5. space = <<" ">> \/ space = <<>>
    BY DEF Space
  <2> QED
    BY <2>4, <2>5
<1> HIDE DEF lead, body, space
<1>6. lead \in Seq(Chars(s))
  <2>1. \A A : \A x, y \in Seq(A) : x \o y \in Seq(A)
    OBVIOUS
  <2> QED
    BY <1>3, <1>4, <1>5, <2>1
<1> QED
  BY <1>3, <1>4, <1>5, <1>6 DEF lead, body, space

(* All there is to say of a text that is written anew from a place on.     *)
LEMMA RespacedIs ==
  ASSUME NEW s, IsText(s), NEW i \in 1..(Len(s) + 2), Plain(TokensFrom(s)[i])
  PROVE  /\ TokensFrom(s)[i] = <<Read(s, i).token>> \o Behind(s, i)
         /\ Respaced(TokensFrom(s)[i]) = Lead(Read(s, i).token) \o Respaced(Behind(s, i))
         /\ Respaced(TokensFrom(s)[i]) \in Seq(Chars(s))
         /\ Respaced(Behind(s, i)) \in Seq(Chars(s))
         /\ Read(s, i).token.type \notin Unread
         /\ Plain(Behind(s, i))
         /\ Respaced(<<>>) = <<>>
<1> DEFINE n == Len(s)
           T == TokensIn(s)
           token == Read(s, i).token
           from == TokensFrom(s)
           rest == Behind(s, i)
<1>1. n \in Nat
  BY Characters
<1>2. Read(s, i).end \in 1..(n + 2)
  BY ReadPlaces
<1>3. from[i] \in Seq(T) /\ from[i] = <<token>> \o rest
  BY TokensFacts DEF Followed, Behind
<1>4. rest \in Seq(T) /\ token \in T
  <2>1. from[Read(s, i).end] \in Seq(T)
    BY <1>2, TokensFacts
  <2>2. token \in T
    BY DEF TokensIn
  <2>3. rest = <<>> \/ rest = from[Read(s, i).end]
    BY DEF Behind
  <2>4. \A A : <<>> \in Seq(A)
    OBVIOUS
  <2> HIDE DEF rest, from, T, token
  <2> QED
    BY <2>1, <2>2, <2>3, <2>4
<1> HIDE DEF rest
<1>5. PICK m \in Nat : m = Len(rest)
  BY <1>4
<1>6. /\ Len(from[i]) = m + 1 /\ from[i][1] = token
      /\ \A k \in 1..m : from[i][k + 1] = rest[k] /\ rest[k] \in T
  <2> DEFINE list == <<token>> \o rest
  <2>1. /\ Len(list) = m + 1 /\ list[1] = token
        /\ \A k \in 1..m : list[k + 1] = rest[k] /\ rest[k] \in T
    <3> HIDE DEF T, token
    <3> QED
      BY <1>4, <1>5
  <2> HIDE DEF list, from
  <2> QED
    BY <1>3, <2>1 DEF list
<1>7. token.type \notin Unread /\ \A k \in 1..m : rest[k].type \notin Unread
  <2>1. \A k \in 1..(m + 1) : from[i][k].type \notin Unread
    BY <1>6 DEF Plain
  <2>2. 1 \in 1..(m + 1) /\ \A k \in 1..m : k + 1 \in 1..(m + 1)
    OBVIOUS
  <2> HIDE DEF from, token
  <2> QED
    BY <1>6, <2>1, <2>2
<1> HIDE DEF from
<1>8. ASSUME NEW x \in T, x.type \notin Unread PROVE Lead(x) \in Seq(Chars(s))
  <2>1. PICK j \in 1..(n + 2) : x = Read(s, j).token
    BY DEF TokensIn
  <2>2. Read(s, j).token.type \notin Unread
    BY <1>8, <2>1
  <2>3. Lead(Read(s, j).token) \in Seq(Chars(s))
    BY <2>2, LeadOf
  <2> QED
    BY <2>1, <2>3
<1> HIDE DEF T, token
<1>9. Lead(token) \in Seq(Chars(s)) /\ \A k \in 1..Len(rest) : Lead(rest[k]) \in Seq(Chars(s))
  BY <1>4, <1>5, <1>6, <1>7, <1>8
<1>10. /\ Respaced(<<token>> \o rest) = Lead(token) \o Respaced(rest)
       /\ Respaced(rest) \in Seq(Chars(s))
       /\ Respaced(<<>>) = <<>>
  BY <1>4, <1>9, RespacedCons
<1>11. Respaced(from[i]) = Lead(token) \o Respaced(rest)
  BY <1>3, <1>10
<1>12. Respaced(from[i]) \in Seq(Chars(s))
  <2>1. \A A : \A x, y \in Seq(A) : x \o y \in Seq(A)
    OBVIOUS
  <2> QED
    BY <1>9, <1>10, <1>11, <2>1
<1>13. Plain(rest)
  BY <1>5, <1>7 DEF Plain
<1> QED
  BY <1>3, <1>7, <1>10, <1>11, <1>12, <1>13 DEF from, token, rest

(* What joining two sequences makes.                                       *)
LEMMA Joined ==
  ASSUME NEW A, NEW x \in Seq(A), NEW y \in Seq(A)
  PROVE  /\ Len(x \o y) = Len(x) + Len(y)
         /\ \A k \in 1..Len(x) : (x \o y)[k] = x[k]
         /\ \A k \in 1..Len(y) : (x \o y)[Len(x) + k] = y[k]
<1>1. PICK a \in Nat, b \in Nat : a = Len(x) /\ b = Len(y) /\ Len(x \o y) = a + b
  OBVIOUS
<1>2. /\ \A k \in 1..a : (x \o y)[k] = x[k]
      /\ \A k \in 1..b : (x \o y)[a + k] = y[k]
  BY <1>1
<1> QED
  BY <1>1, <1>2

(* What stands at p of u where the tokens of s from i on are written anew: *)
(* z spaces, the m characters of the token, then the rest.                 *)
WrittenAt(s, i, u, p, z, m) ==
  /\ m = Read(s, i).end - AfterSeparators(s, i)
  /\ z = 1 <=> AfterSeparators(s, i) > i
  /\ z = 1 => Ch(u, p) = " "
  /\ \A k \in 1..m : Ch(u, (p + z) + k - 1) = Ch(s, AfterSeparators(s, i) + k - 1)
  /\ Suffix(u, (p + z) + m, Respaced(Behind(s, i)))
  /\ Respaced(Behind(s, i)) = <<>> => Ch(u, (p + z) + m) = EOI

(* A text written anew is a space if the token stood apart, the token, and *)
(* the rest.                                                               *)
LEMMA Written ==
  ASSUME NEW s, IsText(s), NEW u, IsText(u), NEW i \in 1..(Len(s) + 2), Plain(TokensFrom(s)[i]),
         NEW p, Suffix(u, p, Respaced(TokensFrom(s)[i]))
  PROVE  \E z \in {0, 1}, m \in Nat : WrittenAt(s, i, u, p, z, m)
<1> DEFINE n == Len(s)
           start == AfterSeparators(s, i)
           e == Read(s, i).end
           lead == Lead(Read(s, i).token)
           rest == Respaced(Behind(s, i))
           A == Chars(s)
           body == Between(s, start, e)
           space == Space(s, i)
<1>1. n \in Nat
  BY Characters
<1>2. start \in 1..(n + 2) /\ e \in start..(n + 2)
  BY ReadPlaces
<1>3. Respaced(TokensFrom(s)[i]) = lead \o rest /\ rest \in Seq(A) /\ Read(s, i).token.type \notin Unread
  BY RespacedIs
<1>4. lead = space \o body /\ lead \in Seq(A) /\ space \in Seq(A) /\ body \in Seq(A)
  BY <1>3, LeadOf
<1>5. PICK z \in {0, 1} : /\ z = 1 <=> start > i
                          /\ Len(space) = z
                          /\ z = 1 => space[1] = " "
  <2>1. CASE start > i
    <3>1. space = <<" ">>
      BY <2>1 DEF Space
    <3>2. Len(<<" ">>) = 1 /\ <<" ">>[1] = " "
      OBVIOUS
    <3>3. Len(space) = 1 /\ space[1] = " "
      BY <3>1, <3>2
    <3> HIDE DEF space
    <3> QED
      BY <2>1, <3>3
  <2>2. CASE ~(start > i)
    <3>1. space = <<>>
      BY <2>2 DEF Space
    <3>2. Len(space) = 0
      BY <3>1
    <3> HIDE DEF space
    <3> QED
      BY <2>2, <3>2
  <2> QED
    BY <2>1, <2>2
<1> HIDE DEF space, lead, rest, A
<1>6. PICK m \in Nat : m = e - start
  BY <1>1, <1>2
<1>7. Len(body) = m /\ \A k \in 1..m : body[k] = Ch(s, start + k - 1)
  <2> HIDE DEF start, e
  <2>1. start \in Nat /\ e \in Nat /\ start <= e
    BY <1>1, <1>2
  <2>2. Len(body) = e - start /\ \A k \in 1..(e - start) : body[k] = Ch(s, start + k - 1)
    BY <2>1, BetweenIs
  <2> HIDE DEF body
  <2> QED
    BY <1>6, <2>2
<1> HIDE DEF start, e, body
<1>8. /\ Len(lead) = z + m
      /\ \A k \in 1..z : lead[k] = space[k]
      /\ \A k \in 1..m : lead[z + k] = body[k]
  <2>1. PICK a \in Nat : a = z /\ a = Len(space)
    BY <1>5
  <2>2. /\ Len(space \o body) = a + m
        /\ \A k \in 1..a : (space \o body)[k] = space[k]
        /\ \A k \in 1..m : (space \o body)[a + k] = body[k]
    <3>1. /\ Len(space \o body) = Len(space) + Len(body)
          /\ \A k \in 1..Len(space) : (space \o body)[k] = space[k]
          /\ \A k \in 1..Len(body) : (space \o body)[Len(space) + k] = body[k]
      BY <1>4, Joined
    <3>2. Len(space) = a /\ Len(body) = m
      BY <1>7, <2>1
    <3> DEFINE both == space \o body
    <3> HIDE DEF both
    <3>3. /\ Len(both) = a + m
          /\ \A k \in 1..a : both[k] = space[k]
          /\ \A k \in 1..m : both[a + k] = body[k]
      BY <3>1, <3>2 DEF both
    <3> QED
      BY <3>3 DEF both
  <2> QED
    BY <1>4, <2>1, <2>2
<1>9. /\ p \in Nat \ {0}
      /\ \A k \in 1..(z + m) : Ch(u, p + k - 1) = lead[k]
      /\ Suffix(u, p + (z + m), rest)
      /\ Len(rest) = 0 => Ch(u, p + (z + m)) = EOI
  <2>1. Suffix(u, p, lead \o rest)
    BY <1>3 DEF lead, rest
  <2>2. /\ \A k \in 1..Len(lead) : Ch(u, p + k - 1) = lead[k]
        /\ Suffix(u, p + Len(lead), rest)
        /\ Len(rest) = 0 => Ch(u, p + Len(lead)) = EOI
    <3>1. lead \in Seq(A) /\ rest \in Seq(A)
      BY <1>3, <1>4
    <3> QED
      BY <2>1, <3>1, SuffixCut
  <2>3. p \in Nat \ {0}
    BY <2>1 DEF Suffix
  <2>4. Len(lead) = z + m
    BY <1>8
  <2> QED
    BY <2>2, <2>3, <2>4
<1>10. z \in Nat /\ p \in Nat
  <2>1. z \in Nat
    OBVIOUS
  <2>2. p \in Nat
    BY <1>9
  <2> QED
    BY <2>1, <2>2
<1>11. p + (z + m) = (p + z) + m
  BY <1>10
<1>12. z = 1 => Ch(u, p) = " "
  <2> SUFFICES ASSUME z = 1 PROVE Ch(u, p) = " "
    OBVIOUS
  <2>1. 1 \in 1..(z + m) /\ 1 \in 1..z /\ p + 1 - 1 = p
    BY <1>6, <1>9
  <2>2. Ch(u, p + 1 - 1) = lead[1] /\ lead[1] = space[1]
    BY <1>8, <1>9, <2>1
  <2> QED
    BY <1>5, <2>1, <2>2
<1>13. ASSUME NEW k \in 1..m PROVE Ch(u, (p + z) + k - 1) = Ch(s, start + k - 1)
  <2>1. z + k \in 1..(z + m) /\ (p + z) + k - 1 = p + (z + k) - 1
    BY <1>10
  <2>2. Ch(u, p + (z + k) - 1) = lead[z + k]
    BY <1>9, <2>1
  <2> QED
    BY <1>7, <1>8, <2>1, <2>2
<1>14. rest = <<>> => Ch(u, (p + z) + m) = EOI
  BY <1>9, <1>11
<1> QED
  BY <1>5, <1>6, <1>9, <1>11, <1>12, <1>13, <1>14 DEF start, e, rest, WrittenAt

(* Behind a token there stands what stood there, or a space.               *)
LEMMA FollowsRest ==
  ASSUME NEW s, IsText(s), NEW u, IsText(u), NEW i \in 1..(Len(s) + 2), Plain(TokensFrom(s)[i]),
         NEW d \in Int, Suffix(u, i + d, Respaced(TokensFrom(s)[i]))
  PROVE  Follows(s, i, u, d)
<1> DEFINE n == Len(s)
           start == AfterSeparators(s, i)
           e == Read(s, i).end
           p == i + d
<1>1. n \in Nat /\ p \in Nat \ {0} /\ p + 1 = i + 1 + d
  BY Characters DEF Suffix
<1>2. start \in i..(n + 2) /\ e \in start..(n + 2)
  BY ReadPlaces
<1>3. PICK z \in {0, 1}, m \in Nat :
            /\ m = e - start
            /\ z = 1 <=> start > i
            /\ z = 1 => Ch(u, p) = " "
            /\ \A k \in 1..m : Ch(u, (p + z) + k - 1) = Ch(s, start + k - 1)
            /\ Respaced(Behind(s, i)) = <<>> => Ch(u, (p + z) + m) = EOI
  <2>1. Suffix(u, p, Respaced(TokensFrom(s)[i]))
    OBVIOUS
  <2> HIDE DEF p
  <2>2. PICK z \in {0, 1}, m \in Nat : WrittenAt(s, i, u, p, z, m)
    BY <2>1, Written
  <2> WITNESS z \in {0, 1}, m \in Nat
  <2> QED
    BY <2>2 DEF WrittenAt
<1>4. ":" \notin Gaps
  BY DEF Gaps, Separators
<1>5. CASE start > i
  <2>1. Ch(u, p) = " "
    BY <1>3, <1>5
  <2>2. ~Begins(s, i)
    <3>1. Begins(s, i) => start = i
      BY AfterIs
    <3> HIDE DEF start
    <3> QED
      BY <1>1, <1>5, <3>1
  <2>3. Ch(s, i) \in Gaps
    BY <2>2 DEF Begins, Gaps
  <2> HIDE DEF p
  <2> QED
    BY <1>4, <2>1, <2>3 DEF Follows, Same, p
<1>6. CASE start = i
  <2>1. z = 0 /\ p + z = p
    <3> HIDE DEF start, p
    <3>1. ~(start > i)
      BY <1>1, <1>6
    <3>2. z = 0
      BY <1>3, <3>1
    <3> QED
      BY <1>1, <3>2
  <2>2. CASE Ch(s, i) = EOI
    <3>1. Read(s, i).token.type = "END" /\ e = start
      BY <1>6, <2>2, ReadPlaces
    <3>2. m = 0 /\ (p + z) + m = p
      BY <1>1, <1>2, <1>3, <2>1, <3>1
    <3>3. Behind(s, i) = <<>> /\ Respaced(Behind(s, i)) = <<>>
      BY <3>1, RespacedIs DEF Behind, Closing
    <3>4. Ch(u, p) = EOI
      BY <1>3, <3>2, <3>3
    <3>5. EOI # ":"
      BY DEF EOI
    <3> QED
      BY <2>2, <3>4, <3>5 DEF Follows, Same
  <2>3. CASE Ch(s, i) # EOI
    <3>1. e > start
      BY <1>6, <2>3, ReadPlaces, RespacedIs
    <3>2. 1 \in 1..m /\ (p + z) + 1 - 1 = p /\ start + 1 - 1 = i
      BY <1>1, <1>2, <1>3, <1>6, <2>1, <3>1
    <3>3. Ch(u, p) = Ch(s, i)
      BY <1>3, <3>2
    <3>4. ASSUME Ch(s, i) = ":", Ch(s, i + 1) = "=" PROVE Ch(u, i + 1 + d) = "="
      <4>1. Scan(s, i) = <<"ASSIGN", i + 2>>
        BY <3>4, ScanIs
      <4>2. e = i + 2
        BY <1>6, <4>1, ReadPlaces
      <4>3. 2 \in 1..m /\ (p + z) + 2 - 1 = i + 1 + d /\ start + 2 - 1 = i + 1
        BY <1>1, <1>2, <1>3, <1>6, <2>1, <4>2
      <4>4. Ch(u, (p + z) + 2 - 1) = Ch(s, start + 2 - 1)
        BY <1>3, <4>3
      <4> QED
        BY <3>4, <4>3, <4>4
    <3> QED
      BY <3>3, <3>4 DEF Follows, Same
  <2> QED
    BY <2>2, <2>3
<1> QED
  BY <1>1, <1>2, <1>5, <1>6

(* A token is the same with the same type and content, if it stands apart  *)
(* in both places or in neither.                                           *)
LEMMA TokenSame ==
  ASSUME NEW s, NEW u, NEW i, NEW p, NEW start, NEW q, NEW scan, NEW other, scan[1] = other[1],
         start > i <=> q > p,
         TokenFrom(s, start, start > i, scan).token.content = TokenFrom(u, q, q > p, other).token.content
  PROVE  TokenFrom(u, q, q > p, other).token = TokenFrom(s, start, start > i, scan).token
<1> DEFINE a == TokenFrom(s, start, start > i, scan).token
           b == TokenFrom(u, q, q > p, other).token
<1>1. a = [type |-> a.type, content |-> a.content, separated |-> a.separated]
  BY DEF TokenFrom
<1>2. b = [type |-> b.type, content |-> b.content, separated |-> b.separated]
  BY DEF TokenFrom
<1>3. a.type = scan[1] /\ b.type = other[1]
  BY DEF TokenFrom
<1>4. a.separated = b.separated
  <2>1. a.separated = (start > i)
    BY DEF TokenFrom
  <2>2. b.separated = (q > p)
    BY DEF TokenFrom
  <2>3. (start > i) = (q > p)
    OBVIOUS
  <2> HIDE DEF a, b
  <2> QED
    BY <2>1, <2>2, <2>3
<1>5. a.content = b.content
  OBVIOUS
<1> HIDE DEF a, b
<1>6. a = b
  BY <1>1, <1>2, <1>3, <1>4, <1>5
<1> QED
  BY <1>6 DEF a, b

(* Where the tokens of a text are written anew, the first is read again,   *)
(* and the rest is written behind it.                                      *)
LEMMA ReadCopied ==
  ASSUME NEW s, IsText(s), NEW u, IsText(u), NEW i \in 1..(Len(s) + 2), Plain(TokensFrom(s)[i]),
         NEW p, Suffix(u, p, Respaced(TokensFrom(s)[i]))
  PROVE  /\ p \in 1..(Len(u) + 2)
         /\ Read(u, p).token = Read(s, i).token
         /\ Read(s, i).token.type \notin Closing =>
              /\ Read(s, i).end \in (i + 1)..(Len(s) + 2)
              /\ Plain(TokensFrom(s)[Read(s, i).end])
              /\ Suffix(u, Read(u, p).end, Respaced(TokensFrom(s)[Read(s, i).end]))
<1> DEFINE n == Len(s)
           start == AfterSeparators(s, i)
           type == Read(s, i).token.type
           e == Read(s, i).end
           first == Ch(s, start)
<1>1. n \in Nat /\ Len(u) \in Nat
  BY Characters
<1>2. /\ start \in i..(n + 2) /\ start \in 1..(n + 2) /\ e \in start..(n + 2) /\ e \in 1..(n + 2)
      /\ Begins(s, start)
      /\ Scan(s, start) = <<type, e>>
      /\ first = EOI => type = "END" /\ e = start
      /\ first # EOI /\ type \notin Unread => type \notin Closing /\ e > start
  BY ReadPlaces
<1>3. /\ type \notin Unread /\ Plain(Behind(s, i)) /\ Respaced(<<>>) = <<>>
      /\ Respaced(TokensFrom(s)[i]) \in Seq(Chars(s))
  BY RespacedIs
<1>4. p \in Nat \ {0} /\ p \in 1..(Len(u) + 2)
  <2>1. PICK w \in Seq(Chars(s)) : w = Respaced(TokensFrom(s)[i])
    BY <1>3
  <2>2. p \in Nat \ {0} /\ Len(u) = (p - 1) + Len(w) /\ Len(w) \in Nat
    BY <2>1 DEF Suffix
  <2> QED
    BY <1>1, <2>2
<1>5. PICK z \in {0, 1}, m \in Nat : WrittenAt(s, i, u, p, z, m)
  BY Written
<1> DEFINE q == p + z
           d == q - start
           rest == Respaced(Behind(s, i))
<1>6. /\ m = e - start
      /\ z = 1 <=> start > i
      /\ z = 1 => Ch(u, p) = " "
      /\ \A k \in 1..m : Ch(u, q + k - 1) = Ch(s, start + k - 1)
      /\ Suffix(u, q + m, rest)
      /\ rest = <<>> => Ch(u, q + m) = EOI
  BY <1>5 DEF WrittenAt
<1> HIDE DEF start, type, e
<1>7. /\ z \in Nat /\ q \in Nat \ {0} /\ d \in Int /\ q = start + d /\ q + m = e + d
      /\ start \in Nat /\ e \in Nat /\ m = e - start
  <2>1. z \in Nat
    OBVIOUS
  <2>2. m = e - start
    BY <1>6
  <2>3. start \in Nat /\ e \in Nat
    BY <1>1, <1>2
  <2> QED
    BY <1>4, <2>1, <2>2, <2>3
<1> HIDE DEF q, d, rest
<1>8. ASSUME first = EOI
      PROVE  Ch(u, q) = EOI /\ type = "END" /\ e = start
  <2>1. type = "END" /\ e = start
    BY <1>2, <1>8
  <2>2. m = 0 /\ q + m = q
    <3>1. e - start = 0
      BY <1>7, <2>1
    <3> QED
      BY <1>7, <3>1
  <2>3. rest = <<>>
    BY <1>3, <2>1 DEF Behind, Closing, rest, type
  <2> QED
    BY <1>6, <2>1, <2>2, <2>3
<1>9. ASSUME first # EOI
      PROVE  /\ start \in 1..n /\ type \notin Closing /\ e \in (i + 1)..(n + 2)
             /\ Plain(TokensFrom(s)[e]) /\ Suffix(u, e + d, Respaced(TokensFrom(s)[e]))
             /\ Copied(s, start, e, u, d)
             /\ \A k \in 1..m : Ch(u, q + k - 1) = Ch(s, start + k - 1)
             /\ 1 \in 1..m
  <2>1. type \notin Closing /\ e > start
    BY <1>2, <1>3, <1>9
  <2>2. start \in 1..n
    BY <1>9, InText
  <2>3. e \in (i + 1)..(n + 2) /\ 1 \in 1..m
    <3>1. m = e - start
      BY <1>6
    <3> QED
      BY <1>1, <1>2, <2>1, <3>1
  <2>4. Behind(s, i) = TokensFrom(s)[e]
    BY <2>1 DEF Behind, type, e
  <2>5. Plain(TokensFrom(s)[e])
    BY <1>3, <2>4
  <2>6. Suffix(u, e + d, Respaced(TokensFrom(s)[e]))
    BY <1>6, <1>7, <2>4 DEF rest
  <2>7. Follows(s, e, u, d)
    BY <1>2, <1>7, <2>5, <2>6, FollowsRest
  <2>8. ASSUME NEW j \in start..(e - 1) PROVE Ch(u, j + d) = Ch(s, j)
    <3>1. PICK k \in 1..m : k = j - start + 1
      BY <1>7
    <3>2. start + k - 1 = j /\ q + k - 1 = j + d
      BY <1>1, <1>2, <1>7, <3>1
    <3>3. Ch(u, q + k - 1) = Ch(s, start + k - 1)
      BY <1>6
    <3> QED
      BY <3>2, <3>3
  <2>9. start + d \in Nat \ {0} /\ e + d <= Len(u) + 1
    <3>1. PICK w \in Seq(Chars(s)) : w = Respaced(TokensFrom(s)[e])
      BY <2>4, RespacedIs
    <3>2. e + d \in Nat /\ Len(u) = ((e + d) - 1) + Len(w) /\ Len(w) \in Nat
      BY <2>6, <3>1 DEF Suffix
    <3> QED
      BY <1>1, <1>7, <3>2
  <2>10. Copied(s, start, e, u, d)
    BY <1>7, <2>7, <2>8, <2>9 DEF Copied
  <2> QED
    BY <1>6, <2>1, <2>2, <2>3, <2>5, <2>6, <2>10
<1>10. ASSUME first # EOI
       PROVE  /\ Ch(u, q) = first
              /\ Scan(u, q) = <<type, e + d>>
              /\ first = "'" => Quoted(u, q).content = Quoted(s, start).content
              /\ first # "\""
              /\ Between(u, q, e + d) = Between(s, start, e)
  <2>1. Ch(u, q) = first
    <3>1. Ch(u, q + 1 - 1) = Ch(s, start + 1 - 1)
      BY <1>9, <1>10
    <3>2. q + 1 - 1 = q /\ start + 1 - 1 = start
      BY <1>1, <1>2, <1>7
    <3> QED
      BY <3>1, <3>2
  <2>2. /\ Scan(u, start + d) = <<type, e + d>>
        /\ first = "'" => Quoted(u, start + d).content = Quoted(s, start).content
        /\ first # "\""
    <3>1. start \in 1..Len(s) /\ Ch(s, start) # EOI /\ Scan(s, start) = <<type, e>>
      BY <1>2, <1>9, <1>10
    <3>2. Copied(s, start, e, u, d) /\ type \notin Unread
      BY <1>3, <1>9, <1>10
    <3> HIDE DEF n, first
    <3>3. /\ Scan(u, start + d) = <<type, e + d>>
          /\ Ch(s, start) = "'" => /\ e = Quoted(s, start).end /\ e <= Len(s)
                                   /\ Quoted(u, start + d).content = Quoted(s, start).content
          /\ Ch(s, start) # "\""
      BY <3>1, <3>2, ScanCopied, Zenon
    <3> QED
      BY <3>3 DEF first
  <2>3. Between(u, q, e + d) = Between(s, start, e)
    <3>1. (e + d) - q = m /\ e - start = m
      BY <1>7
    <3>2. Between(u, q, e + d) = [k \in 1..m |-> Ch(u, q + k - 1)]
      BY <3>1 DEF Between
    <3>3. Between(s, start, e) = [k \in 1..m |-> Ch(s, start + k - 1)]
      BY <3>1 DEF Between
    <3> QED
      BY <1>9, <1>10, <3>2, <3>3
  <2> QED
    BY <1>7, <2>1, <2>2, <2>3
<1>11. Begins(u, q) /\ Ch(u, q) = first /\ first # "\""
  <2>1. Ch(u, q) = first /\ first # "\""
    <3>1. EOI # "\""
      BY DEF EOI
    <3> QED
      BY <1>8, <1>10, <3>1
  <2>2. first \notin Separators
    BY <1>2 DEF Begins
  <2> QED
    BY <2>1, <2>2 DEF Begins
<1>12. AfterSeparators(u, p) = q /\ (start > i <=> q > p)
  <2>1. z = 0 \/ z = 1
    OBVIOUS
  <2>2. CASE z = 0
    <3>1. q = p /\ ~(start > i)
      BY <1>4, <1>6, <2>2 DEF q
    <3>2. AfterSeparators(u, p) = p
      BY <1>4, <1>11, <3>1, AfterIs
    <3> QED
      BY <1>4, <3>1, <3>2
  <2>3. CASE z = 1
    <3>1. q = p + 1 /\ start > i /\ Ch(u, p) = " "
      BY <1>4, <1>6, <2>3 DEF q
    <3>2. AfterSeparators(u, p) = p + 1
      BY <1>4, <1>11, <3>1, AfterIs
    <3>3. q > p
      <4>1. p \in Nat /\ q = p + 1
        BY <1>4, <3>1
      <4> QED
        BY <4>1
    <3> QED
      BY <3>1, <3>2, <3>3
  <2> QED
    BY <2>1, <2>2, <2>3
<1>13. /\ Scan(u, q)[1] = type
       /\ first = EOI => Read(u, p).end = q
       /\ first # EOI => Read(u, p).end = e + d
  <2>1. /\ Scan(u, q) = <<Read(u, p).token.type, Read(u, p).end>>
        /\ Ch(u, q) = EOI => Read(u, p).token.type = "END" /\ Read(u, p).end = q
    BY <1>4, <1>12, ReadPlaces
  <2>2. CASE first = EOI
    <3>1. Ch(u, q) = EOI /\ type = "END"
      BY <1>8, <2>2
    <3> QED
      BY <2>1, <2>2, <3>1
  <2>3. CASE first # EOI
    <3>1. Scan(u, q) = <<type, e + d>>
      BY <1>10, <2>3
    <3> QED
      BY <2>1, <2>3, <3>1
  <2> QED
    BY <2>2, <2>3
<1>14. Read(u, p).token.content = Read(s, i).token.content
  <2>1. Read(s, i).token.content = IF first \in {"'", "\""} THEN Quoted(s, start).content
                                   ELSE Between(s, start, e)
    BY ReadIs DEF start, e
  <2>2. Read(u, p).token.content = IF first \in {"'", "\""} THEN Quoted(u, q).content
                                   ELSE Between(u, q, Read(u, p).end)
    <3>1. Read(u, p).token.content = IF Ch(u, q) \in {"'", "\""} THEN Quoted(u, q).content
                                     ELSE Between(u, q, Read(u, p).end)
      BY <1>12, ReadIs
    <3> QED
      BY <1>11, <3>1
  <2>3. CASE first = EOI
    <3>1. first \notin {"'", "\""}
      BY <2>3 DEF EOI
    <3>2. Between(u, q, q) = <<>> /\ Between(s, start, start) = <<>>
      <4>1. q \in Nat /\ start \in Nat /\ q <= q /\ start <= start
        BY <1>7
      <4>2. Between(u, q, q) = <<>>
        BY <4>1, BetweenIs
      <4>3. Between(s, start, start) = <<>>
        BY <4>1, BetweenIs
      <4> QED
        BY <4>2, <4>3
    <3> QED
      BY <1>8, <1>13, <2>1, <2>2, <2>3, <3>1, <3>2
  <2>4. CASE first # EOI
    <3>1. CASE first = "'"
      BY <1>10, <2>1, <2>2, <2>4, <3>1
    <3>2. CASE first # "'"
      <4>1. first \notin {"'", "\""}
        BY <1>11, <3>2
      <4>2. Read(u, p).end = e + d
        BY <1>13, <2>4
      <4> QED
        BY <1>10, <2>1, <2>2, <2>4, <4>1, <4>2
    <3> QED
      BY <3>1, <3>2
  <2> QED
    BY <2>3, <2>4
<1>15. Read(u, p).token = Read(s, i).token
  <2>1. Read(s, i) = TokenFrom(s, start, start > i, Scan(s, start))
    BY DEF Read, ReadFrom, start
  <2>2. Read(u, p) = TokenFrom(u, q, q > p, Scan(u, q))
    <3>1. Read(u, p) = ReadFrom(u, p, q)
      BY <1>12 DEF Read
    <3> QED
      BY <3>1 DEF ReadFrom
  <2>3. Scan(s, start)[1] = Scan(u, q)[1]
    BY <1>2, <1>13
  <2> QED
    BY <1>12, <1>14, <2>1, <2>2, <2>3, TokenSame
<1>16. ASSUME type \notin Closing
       PROVE  /\ e \in (i + 1)..(n + 2) /\ Plain(TokensFrom(s)[e])
              /\ Suffix(u, Read(u, p).end, Respaced(TokensFrom(s)[e]))
  <2>1. first # EOI
    BY <1>8, <1>16 DEF Closing
  <2>2. Read(u, p).end = e + d
    BY <1>13, <2>1
  <2> QED
    BY <1>9, <2>1, <2>2
<1> QED
  BY <1>4, <1>15, <1>16 DEF type, e

(* From every place where the tokens of a text are written anew the same   *)
(* tokens are read: down from the last place.                              *)
LEMMA ReadAgain ==
  ASSUME NEW s, IsText(s), NEW u, IsText(u)
  PROVE  \A i \in 1..(Len(s) + 2) :
            Plain(TokensFrom(s)[i]) =>
               \A p : Suffix(u, p, Respaced(TokensFrom(s)[i])) => TokensFrom(u)[p] = TokensFrom(s)[i]
<1> DEFINE n == Len(s)
           Again(i) == Plain(TokensFrom(s)[i]) =>
              \A p : Suffix(u, p, Respaced(TokensFrom(s)[i])) => TokensFrom(u)[p] = TokensFrom(s)[i]
           S == { i \in 1..(n + 2) : Again(i) }
<1>1. n \in Nat /\ n + 2 \in Nat /\ 1 \in Nat
  BY Characters
<1>2. ASSUME NEW i \in 1..(n + 2), \A k \in (i + 1)..(n + 2) : k \in S PROVE i \in S
  <2> SUFFICES ASSUME Plain(TokensFrom(s)[i]), NEW p, Suffix(u, p, Respaced(TokensFrom(s)[i]))
               PROVE  TokensFrom(u)[p] = TokensFrom(s)[i]
    OBVIOUS
  <2> DEFINE e == Read(s, i).end
             f == Read(u, p).end
  <2>1. /\ p \in 1..(Len(u) + 2)
        /\ Read(u, p).token = Read(s, i).token
        /\ Read(s, i).token.type \notin Closing =>
              /\ e \in (i + 1)..(n + 2) /\ Plain(TokensFrom(s)[e])
              /\ Suffix(u, f, Respaced(TokensFrom(s)[e]))
    BY ReadCopied
  <2>2. /\ TokensFrom(s)[i] = Followed(Read(s, i), TokensFrom(s))
        /\ TokensFrom(u)[p] = Followed(Read(u, p), TokensFrom(u))
    BY <2>1, TokensFacts
  <2>3. Read(s, i).token.type \notin Closing => TokensFrom(u)[f] = TokensFrom(s)[e]
    <3> SUFFICES ASSUME Read(s, i).token.type \notin Closing PROVE TokensFrom(u)[f] = TokensFrom(s)[e]
      OBVIOUS
    <3>1. e \in S
      BY <1>2, <2>1
    <3>2. Again(e)
      BY <3>1
    <3> HIDE DEF e, f
    <3> QED
      BY <2>1, <3>2
  <2> QED
    BY <2>1, <2>2, <2>3 DEF Followed
<1>3. 1..(n + 2) \subseteq S
  <2> HIDE DEF S, n
  <2> QED
    BY <1>1, <1>2, DownFrom
<1> QED
  BY <1>3

(* A text written anew from its tokens is read as the same tokens.         *)
LEMMA SameTokens ==
  ASSUME NEW s, IsText(s), Plain(TokensOf(s))
  PROVE  TokensOf(Respaced(TokensOf(s))) = TokensOf(s)
<1> DEFINE list == TokensFrom(s)[1]
           u == Respaced(list)
<1>1. TokensOf(s) = list /\ 1 \in 1..(Len(s) + 2)
  <2>1. Len(s) \in Nat
    BY Characters
  <2> QED
    BY <2>1, TokensFacts
<1>2. Plain(list)
  BY <1>1
<1>3. u \in Seq(Chars(s))
  BY <1>1, <1>2, RespacedIs
<1> HIDE DEF list, u
<1>4. IsText(u)
  <2>1. PICK m \in Nat : m = Len(u) /\ DOMAIN u = 1..m
    BY <1>3
  <2>2. \A k \in 1..m : u[k] \in ToSet(u)
    BY <2>1 DEF ToSet
  <2>3. u = [k \in 1..m |-> u[k]]
    BY <1>3, <2>1
  <2> QED
    BY <1>3, <2>1, <2>2, <2>3 DEF IsText
<1>5. Suffix(u, 1, u)
  <2>1. Len(u) \in Nat /\ \A k \in 1..Len(u) : Ch(u, k) = u[k]
    BY <1>4, Characters
  <2>2. Len(u) = (1 - 1) + Len(u) /\ \A k \in 1..Len(u) : 1 + k - 1 = k
    BY <2>1
  <2> QED
    BY <2>1, <2>2 DEF Suffix
<1>6. TokensFrom(u)[1] = list
  <2>1. \A p : Suffix(u, p, Respaced(TokensFrom(s)[1])) => TokensFrom(u)[p] = TokensFrom(s)[1]
    BY <1>1, <1>2, <1>4, ReadAgain DEF list
  <2> QED
    BY <1>5, <2>1 DEF list, u
<1>7. TokensOf(u) = TokensFrom(u)[1]
  BY <1>4, TokensFacts
<1> QED
  BY <1>1, <1>6, <1>7 DEF u

(* Comments and any space are worth one space, and quotes are doubled the  *)
(* same way in as out: whatever the text, a text written anew from its     *)
(* tokens is read as the same tokens (readToken and what it calls in       *)
(* Tokenizer.c).                                                           *)
THEOREM ReadsBackHolds == Spec => []ReadsBack
<1>1. RingInv => ReadsBack
  <2> SUFFICES ASSUME RingInv,
                      \A k \in DOMAIN stream :
                         stream[k].type \notin {"UNCLOSED_STRING", "UNCLOSED_COMMENT", "ENDLESS"}
               PROVE  TokensOf(Respaced(stream)) = stream
    BY DEF ReadsBack
  <2>1. IsText(text) /\ stream = TokensOf(text)
    BY DEF RingInv
  <2>2. stream \in Seq(TokensIn(text))
    <3>1. Len(text) \in Nat /\ 1 \in 1..(Len(text) + 2)
      <4>1. Len(text) \in Nat
        BY <2>1, Characters
      <4> QED
        BY <4>1
    <3> QED
      BY <2>1, <3>1, TokensFacts
  <2>3. Plain(stream)
    <3>1. DOMAIN stream = 1..Len(stream)
      BY <2>2
    <3> QED
      BY <3>1 DEF Plain, Unread
  <2> QED
    BY <2>1, <2>3, SameTokens
<1> QED
  BY <1>1, RingHoldsAlways, PTL
=============================================================================
