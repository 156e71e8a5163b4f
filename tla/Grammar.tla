------------------------------ MODULE Grammar -------------------------------
(* What the parser is to read, said by precedence and not by descent: dots   *)
(* outside of brackets cut a body into statements, semicolons cut a          *)
(* statement into a cascade, keywords cut what is left into operands, binary *)
(* selectors these, and unary selectors follow an object.  Each operator     *)
(* takes a whole part of the text, as a sequence of tokens, and gives the    *)
(* set of its readings: none, or the one tree it stands for.                 *)
EXTENDS Syntax

BinarySelectors == {"SPECIAL_CHARS", "BAR", "MINUS", "LESS", "GREATER"}
Openings == {"OPEN", "ARRAY_OPEN", "SQUARE_OPEN"}
Closings == {"CLOSE", "SQUARE_CLOSE"}
NamedConstants == {"nil", "true", "false"}

From(ts, i) == SubSeq(ts, i, Len(ts))
Inside(ts) == SubSeq(ts, 2, Len(ts) - 1)
Texts(ts) == [i \in DOMAIN ts |-> ts[i].text]
Spelling(names) == FoldLeft(LAMBDA a, b : a \o b, "", names)
AllAre(ts, type) == \A i \in DOMAIN ts : ts[i].type = type
Is(ts, types) == \A i \in DOMAIN types : ts[i].type \in types[i]
Types(ts, types) == Len(ts) = Len(types) /\ Is(ts, types)

\* How many brackets are open before a token; a part that is one bracket.
Depth(ts, i) ==
    Cardinality({k \in 1 .. i - 1 : ts[k].type \in Openings})
        - Cardinality({k \in 1 .. i - 1 : ts[k].type \in Closings})
Bracket(ts, open, close) ==
    /\ Len(ts) >= 2 /\ ts[1].type = open /\ ts[Len(ts)].type = close
    /\ \A i \in 2 .. Len(ts) : Depth(ts, i) > 0

\* Tokens that are the inside of a symbol or of a character, and the others
\* of some types that are outside of brackets.
InSymbol(ts, i) ==
    \E k \in 1 .. i - 1 :
        /\ ts[k].type = "SYMBOL_START"
        /\ \/ i = k + 1
           \/ \A m \in k + 1 .. i : ts[m].type = "KEYWORD" /\ (m > k + 1 => ~ts[m].separated)
CharNumber(ts) ==
    Types(ts, <<{"CHAR"}, {"DIGIT"}, {"GREATER"}>>) /\ ts[1].text = "$<"
        /\ ~ts[2].separated /\ ~ts[3].separated
InChar(ts, i) == i > 2 /\ CharNumber(SubSeq(ts, i - 2, i))
Places(ts, types) ==
    {i \in DOMAIN ts : ts[i].type \in types /\ ~InSymbol(ts, i) /\ ~InChar(ts, i)
                           /\ Depth(ts, i) = 0}

\* A part cut at some places; the readings of all parts of a list.
CutAt(ts, places) ==
    LET cuts == <<0>> \o SetToSortSeq(places, <) \o <<Len(ts) + 1>>
    IN  [k \in 1 .. Len(cuts) - 1 |-> SubSeq(ts, cuts[k] + 1, cuts[k + 1] - 1)]
AllOf(parts, Readings(_)) ==
    FoldLeft(LAMBDA all, part : {Append(s, t) : s \in all, t \in Readings(part)}, {<<>>}, parts)

-----------------------------------------------------------------------------
(* Literals.                                                                 *)

SymbolNames(ts) ==
    IF Types(ts, <<{"IDENTIFIER", "STRING"} \cup BinarySelectors>>)
         \/ (ts # <<>> /\ AllAre(ts, "KEYWORD") /\ \A i \in 2 .. Len(ts) : ~ts[i].separated)
    THEN {Spelling(Texts(ts))} ELSE {}

\* A number may end in its radix, and then is none.
NumberOf(token) == {token.value} \ {-1}

RECURSIVE LiteralOf(_), Items(_)
Array(ts) == {Literal(<<"array", items>>) : items \in Items(Inside(ts))}
LiteralOf(ts) ==
    CASE Types(ts, <<{"DIGIT"}>>)   -> {Literal(Number(n)) : n \in NumberOf(ts[1])}
      [] Types(ts, <<{"MINUS"}, {"DIGIT"}>>) ->
           {Literal(Number(-n)) : n \in NumberOf(ts[2])}
      [] Types(ts, <<{"STRING"}>>)  -> {Literal(<<"string", ts[1].text>>)}
      [] Types(ts, <<{"CHAR"}>>)    -> {Literal(<<"char", ts[1].text>>)}
      [] Len(ts) > 1 /\ ts[1].type = "SYMBOL_START" ->
           {Literal(Symbol(name)) : name \in SymbolNames(Tail(ts))}
      [] CharNumber(ts) -> {Literal(<<"char", ToString(n)>>) : n \in NumberOf(ts[2])}
      [] Bracket(ts, "ARRAY_OPEN", "CLOSE") -> Array(ts)
      [] OTHER -> {}

NameOf(ts) ==
    IF ~Types(ts, <<{"IDENTIFIER"}>>) THEN {}
    ELSE {IF ts[1].text \in NamedConstants THEN Literal(<<ts[1].text>>) ELSE Variable(ts[1].text)}

\* An array within an array needs no number sign.
Listed(ts) == IF Bracket(ts, "OPEN", "CLOSE") THEN Array(ts) ELSE LiteralOf(ts)
Item(ts) == Listed(ts) \cup {t \in NameOf(ts) : t.node = "Literal"}
Items(ts) ==
    IF ts = <<>> THEN {<<>>}
    ELSE UNION {{<<item>> \o items : item \in Item(SubSeq(ts, 1, k)), items \in Items(From(ts, k + 1))} :
                    k \in {n \in DOMAIN ts : Item(SubSeq(ts, 1, n)) # {}}}

-----------------------------------------------------------------------------
(* Statements.                                                               *)

Send(receiver, message) == Expression(FALSE, <<>>, receiver, <<message>>)

\* A cascade is on a message.  The parser takes one on an object without.
NoMessage == Message("", <<>>)

RECURSIVE Statement(_), Statements(_)

\* Variables declared between bars, and what follows them.
Declared(ts) ==
    IF ts = <<>> \/ ts[1].type # "BAR" THEN {[names |-> <<>>, rest |-> ts]}
    ELSE {[names |-> Texts(SubSeq(ts, 2, b - 1)), rest |-> From(ts, b + 1)] :
             b \in {i \in 2 .. Len(ts) : ts[i].type = "BAR" /\ AllAre(SubSeq(ts, 2, i - 1), "IDENTIFIER")}}
Arguments(ts) ==
    IF ts = <<>> \/ ts[1].type # "COLON" THEN {[names |-> <<>>, rest |-> ts]}
    ELSE {[names |-> [k \in 1 .. (b - 1) \div 2 |-> ts[2 * k].text], rest |-> From(ts, b + 1)] :
             b \in {i \in DOMAIN ts : ts[i].type = "BAR" /\ i % 2 = 1
                        /\ \A k \in 1 .. i - 1 : ts[k].type = IF k % 2 = 1 THEN "COLON" ELSE "IDENTIFIER"}}
BlockOf(ts) ==
    {Block(ts[1].at, args.names, temps[1].names, temps[2]) :
        <<args, temps>> \in
            UNION {{a} \X UNION {{t} \X Statements(t.rest) : t \in Declared(a.rest)} :
                      a \in Arguments(Inside(ts))}}

Primary(ts) ==
    CASE Bracket(ts, "OPEN", "CLOSE") -> Statement(Inside(ts))
      [] Bracket(ts, "SQUARE_OPEN", "SQUARE_CLOSE") -> BlockOf(ts)
      [] OTHER -> NameOf(ts) \cup LiteralOf(ts)

RECURSIVE Unary(_), Binary(_)
UnarySends(ts) ==
    IF Len(ts) < 2 \/ Len(ts) \notin Places(ts, {"IDENTIFIER"}) THEN {}
    ELSE {Send(r, Message(ts[Len(ts)].text, <<>>)) : r \in Unary(Front(ts))}
Unary(ts) == Primary(ts) \cup UnarySends(ts)

\* A minus sign at the beginning and after a selector is that of a number.
Selectors(ts) ==
    {i \in Places(ts, BinarySelectors) :
        ts[i].type = "MINUS" => i > 1 /\ i - 1 \notin Places(ts, BinarySelectors)}
Greatest(S) == CHOOSE i \in S : \A j \in S : i >= j
Least(S) == CHOOSE i \in S : \A j \in S : i <= j
BinaryMessage(ts) == {Message(ts[1].text, <<arg>>) : arg \in Unary(Tail(ts))}
BinarySends(ts) ==
    UNION {{Send(r, m) : r \in Binary(SubSeq(ts, 1, i - 1)), m \in BinaryMessage(From(ts, i))} :
              i \in {s \in Selectors(ts) : s = Greatest(Selectors(ts))}}
Binary(ts) == IF Selectors(ts) = {} THEN Unary(ts) ELSE BinarySends(ts)

Keywords(ts, keywords, Argument(_)) ==
    {Message(Spelling([k \in 1 .. Cardinality(keywords) |-> ts[SetToSortSeq(keywords, <)[k]].text]), args) :
        args \in AllOf(Tail(CutAt(ts, keywords)), Argument)}
KeywordMessage(ts) == Keywords(ts, Places(ts, {"KEYWORD"}), Binary)
KeywordSends(ts) ==
    UNION {{Send(r, m) : r \in Binary(SubSeq(ts, 1, i - 1)),
                         m \in KeywordMessage(From(ts, i))} :
              i \in {s \in Places(ts, {"KEYWORD"}) : s = Least(Places(ts, {"KEYWORD"}))}}
SendsOf(ts) ==
    IF Places(ts, {"KEYWORD"}) # {} THEN KeywordSends(ts)
    ELSE IF Selectors(ts) # {} THEN BinarySends(ts)
    ELSE UnarySends(ts)

MessageOf(ts) ==
    CASE Types(ts, <<{"IDENTIFIER"}>>) -> {Message(ts[1].text, <<>>)}
      [] Len(ts) > 1 /\ ts[1].type \in BinarySelectors -> BinaryMessage(ts)
      [] Len(ts) > 1 /\ ts[1].type = "KEYWORD" -> KeywordMessage(ts)
      [] OTHER -> {}

\* What a statement is about: a message to someone, or an object.  Brackets
\* around a message that do nothing more leave the message.
Objects(ts, cascade) ==
    IF cascade # <<>> THEN {Expression(FALSE, <<>>, o, <<NoMessage>>) : o \in Primary(ts)}
    ELSE {IF o.node = "Expression" /\ o.assigments = <<>> /\ ~o.returns THEN o
          ELSE Expression(FALSE, <<>>, o, <<>>) : o \in Primary(ts)}
Cascaded(returns, assigned, parts) ==
    {Expression(returns, assigned, e.receiver, e.messages \o cascade) :
        e \in SendsOf(parts[1]) \cup Objects(parts[1], Tail(parts)), cascade \in AllOf(Tail(parts), MessageOf)}
Assigning(returns, ts, n) ==
    IF 2 * n <= Len(ts) /\ \A i \in 1 .. n : Is(SubSeq(ts, 2 * i - 1, 2 * i), <<{"IDENTIFIER"}, {"ASSIGN"}>>)
    THEN Cascaded(returns, [i \in 1 .. n |-> ts[2 * i - 1].text],
                  CutAt(From(ts, 2 * n + 1), Places(From(ts, 2 * n + 1), {"SEMICOLON"})))
    ELSE {}
Returned(returns, ts) == Assigning(returns, ts, Cardinality(Places(ts, {"ASSIGN"})))
Statement(ts) ==
    IF ts # <<>> /\ ts[1].type = "RETURN" THEN Returned(TRUE, Tail(ts)) ELSE Returned(FALSE, ts)

\* A dot may end the last statement.  Nothing follows a return.
Ended(parts) == IF Last(parts) = <<>> THEN Front(parts) ELSE parts
Statements(ts) ==
    IF ts = <<>> THEN {<<>>}
    ELSE {all \in AllOf(Ended(CutAt(ts, Places(ts, {"DOT"}))), Statement) :
             \A i \in 1 .. Len(all) - 1 : ~all[i].returns}

-----------------------------------------------------------------------------
(* Methods, classes and files.                                               *)

PragmaArgs(ts) == NameOf(ts) \cup Listed(ts)
Pragma(ts) ==
    IF ts # <<>> /\ ts[1].type = "KEYWORD" THEN Keywords(ts, Places(ts, {"KEYWORD"}), PragmaArgs) ELSE {}

RECURSIVE WithPragmas(_)
WithPragmas(ts) ==
    IF Len(ts) < 2 \/ ~Is(ts, <<{"LESS"}, {"KEYWORD"}>>) THEN {[pragmas |-> <<>>, rest |-> ts]}
    ELSE UNION {{[pragmas |-> <<pragma>> \o more.pragmas, rest |-> more.rest] :
                    pragma \in Pragma(SubSeq(ts, 2, g - 1)),
                    more \in WithPragmas(From(ts, g + 1))} :
                  g \in {i \in DOMAIN ts : ts[i].type = "GREATER"}}

\* A pattern: its selector and its arguments.
Odd(ts)  == [k \in 1 .. (Len(ts) + 1) \div 2 |-> ts[2 * k - 1]]
Even(ts) == [k \in 1 .. Len(ts) \div 2 |-> ts[2 * k]]
Pattern(ts) ==
    IF Types(ts, <<{"IDENTIFIER"}>>) \/ Types(ts, <<BinarySelectors, {"IDENTIFIER"}>>)
         \/ (ts # <<>> /\ Len(ts) % 2 = 0 /\ AllAre(Odd(ts), "KEYWORD") /\ AllAre(Even(ts), "IDENTIFIER"))
    THEN {[className |-> "", selector |-> Spelling(Texts(Odd(ts))), args |-> Texts(Even(ts))]} ELSE {}
Named(ts) ==
    IF ts = <<>> \/ ts[1].type # "IDENTIFIER" THEN {}
    ELSE {[p EXCEPT !.className = ts[1].text] : p \in Pattern(Tail(ts))}

MethodOf(ts, open) ==
    IF ~Bracket(From(ts, open), "SQUARE_OPEN", "SQUARE_CLOSE") THEN {}
    ELSE {[node |-> "Method", className |-> h.className, selector |-> h.selector, pragmas |-> b[1],
           body |-> Block(ts[open].at, h.args, b[2], b[3])] :
             h \in Pattern(SubSeq(ts, 1, open - 1)) \cup Named(SubSeq(ts, 1, open - 1)),
             b \in UNION {UNION {{<<p.pragmas, t.names, body>> : body \in Statements(t.rest)} :
                                    t \in Declared(p.rest)} :
                             p \in WithPragmas(Inside(From(ts, open)))}}
Method(ts) ==
    UNION {MethodOf(ts, i) : i \in {k \in DOMAIN ts : ts[k].type = "SQUARE_OPEN"
                                        /\ \A j \in 1 .. k - 1 : ts[j].type # "SQUARE_OPEN"}}

\* Units end at the square bracket that closes all.
UnitEnds(ts) == {i \in DOMAIN ts : ts[i].type = "SQUARE_CLOSE" /\ Depth(ts, i + 1) = 0}
Units(ts) ==
    [k \in 1 .. Cardinality(UnitEnds(ts)) |->
        LET ends == <<0>> \o SetToSortSeq(UnitEnds(ts), <) IN SubSeq(ts, ends[k] + 1, ends[k + 1])]
IsUnits(ts) == ts = <<>> \/ Len(ts) \in UnitEnds(ts)

MethodList(ts) == IF IsUnits(ts) THEN AllOf(Units(ts), Method) ELSE {}
Class(ts) ==
    IF Len(ts) < 4 \/ ~Is(ts, <<{"IDENTIFIER"}, {"ASSIGN"}, {"IDENTIFIER"}>>)
         \/ ~Bracket(From(ts, 4), "SQUARE_OPEN", "SQUARE_CLOSE")
    THEN {}
    ELSE {[node |-> "Class", name |-> ts[1].text, superName |-> ts[3].text, pragmas |-> b[1],
           vars |-> b[2], methods |-> b[3]] :
             b \in UNION {UNION {{<<p.pragmas, t.names, methods>> : methods \in MethodList(t.rest)} :
                                    t \in Declared(p.rest)} :
                             p \in WithPragmas(Inside(From(ts, 4)))}}

Unit(ts) == IF Bracket(ts, "SQUARE_OPEN", "SQUARE_CLOSE") THEN BlockOf(ts) ELSE Class(ts)
OfKind(nodes, kind) == SelectSeq(nodes, LAMBDA n : n.node = kind)
File(ts) ==
    IF ~IsUnits(ts) THEN {}
    ELSE {<<OfKind(units, "Class"), OfKind(units, "Block")>> : units \in AllOf(Units(ts), Unit)}

\* Tokens know their place, which is the identity of a block.
Numbered(ts) == [i \in DOMAIN ts |-> ts[i] @@ [at |-> i]]
=============================================================================
