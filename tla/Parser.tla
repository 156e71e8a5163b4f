------------------------------- MODULE Parser -------------------------------
(* The parser (Parser.c), and parseFile and evalCode (Entry.c), which use    *)
(* it.  A token is [type, text, value, separated]; its value is the number.  *)
(* The state of a parser is [tokens, at, error, built]: built is a stack of  *)
(* what was built and has no place in the tree yet, a list being built lies  *)
(* on it too.  After an error there is no current token, so what is left of  *)
(* the callers, which in the code return at once (CATCH), reads nothing.     *)
EXTENDS Grammar

CONSTANTS
    Methods,   \* token sequences to parse as a method
    Evals,     \* ... to evaluate (st -e)
    Files      \* ... to read as a file

VARIABLES
    source,    \* [entry, tokens]; the entry is method, eval, file or kernel
    parser,
    classes,   \* what was read from a file
    blocks,
    result     \* Reading, or what came out: [outcome, tree]

vars == <<source, parser, classes, blocks, result>>

Special == {"SPECIAL_CHARS", "BAR", "MINUS", "LESS", "GREATER"}
MethodFirst == {"IDENTIFIER", "KEYWORD"} \cup Special
ExpressionFirst ==
    {"RETURN", "DIGIT", "IDENTIFIER", "SYMBOL_START", "CHAR", "STRING", "ARRAY_OPEN", "OPEN",
     "SQUARE_OPEN", "MINUS"}
ArrayLiteralFirst == {"DIGIT", "SYMBOL_START", "STRING", "CHAR", "ARRAY_OPEN", "OPEN"}
Constants == {"nil", "true", "false"}

NoNode   == [node |-> "None"]
NoDigits == -1      \* the value of a number that ends in its radix
LessThan == "$<"

-----------------------------------------------------------------------------
(* The parser's own state.                                                   *)

InitParser(tokens) == [tokens |-> tokens, at |-> 1, error |-> "none", built |-> <<>>]

End == [type |-> "END", text |-> "", value |-> 0, separated |-> FALSE]
TokenAt(p, i) == IF i <= Len(p.tokens) THEN p.tokens[i] ELSE End
\* "noted" is an error that an array was read past.
Reads(p) == p.error \in {"none", "noted"}
CurrentToken(p) == IF Reads(p) THEN TokenAt(p, p.at) ELSE [End EXCEPT !.type = "NONE"]
PeekToken(p) == TokenAt(p, p.at + 1)
At(p, types) == CurrentToken(p).type \in types
Text(p) == CurrentToken(p).text
Value(p) == CurrentToken(p).value

NextToken(p) == IF Reads(p) THEN [p EXCEPT !.at = @ + 1] ELSE p
ErrorExpected(p) == IF Reads(p) THEN [p EXCEPT !.error = "unexpected"] ELSE p
Caught(p) == IF p.error = "noted" THEN ErrorExpected(p) ELSE p
ExpectToken(p, type) == IF At(p, {type}) THEN p ELSE ErrorExpected(p)
SkipToken(p, type) == IF At(p, {type}) THEN NextToken(p) ELSE ErrorExpected(p)

\* The stack: a node is pushed, added to the list below it, or made of others.
Push(p, node) == [p EXCEPT !.built = Append(@, node)]
Fail(p) == Push(ErrorExpected(p), NoNode)
Top(p) == p.built[Len(p.built)]
Made(p, n, Make(_)) ==
    LET rest == Len(p.built) - n
    IN  [p EXCEPT !.built = Append(SubSeq(@, 1, rest), Make(SubSeq(@, rest + 1, rest + n)))]
NewOrdColl(p) == Push(p, <<>>)
OrdCollAdd(p) == Made(p, 2, LAMBDA of : Append(of[1], of[2]))

\* A name, and a name as a node.
ParseName(p) == NextToken(Push(p, Text(p)))
ParseVariable(p) ==
    NextToken(Push(p, IF Text(p) \in Constants THEN Literal(<<Text(p)>>) ELSE Variable(Text(p))))

RECURSIVE ParseLiteral(_), ArrayItems(_), ParseBlock(_), ParseExpression(_), ParseUnaryObject(_)
RECURSIVE SymbolParts(_, _), PragmaParts(_, _), Pragmas(_), TempVarNames(_), BlockArgs(_)
RECURSIVE Assigments(_), Expressions(_), UnaryMessages(_), BinaryMessages(_), KeywordParts(_, _)
RECURSIVE Cascades(_), PatternPairs(_, _), MethodsFrom(_)

-----------------------------------------------------------------------------
(* Literals.                                                                 *)

ParseNumber(p, sign) ==
    IF Value(p) = NoDigits THEN Fail(p)
    ELSE NextToken(Push(p, Literal(Number(sign * Value(p)))))

\* Keywords are one symbol as long as nothing is between them.
\* Mutant: whatever is between them.
SymbolGoesOnAlways(p) == At(p, {"KEYWORD"})
SymbolGoesOn(p) == At(p, {"KEYWORD"}) /\ ~CurrentToken(p).separated
SymbolParts(p, name) ==
    IF SymbolGoesOn(p) THEN SymbolParts(NextToken(p), name \o Text(p))
    ELSE Push(p, Literal(Symbol(name)))
ParseSymbol(p) ==
    CASE At(p, {"KEYWORD"}) -> SymbolParts(NextToken(p), Text(p))
      [] At(p, {"IDENTIFIER", "STRING"} \cup Special) ->
           NextToken(Push(p, Literal(Symbol(Text(p)))))
      [] OTHER -> Fail(p)

ParseString(p) == NextToken(Push(p, Literal(<<"string", Text(p)>>)))

\* $<13> is a character by its number.
ParseCharNumber(p) ==
    IF Value(p) = NoDigits THEN Fail(p)
    ELSE SkipToken(NextToken(Push(p, Literal(<<"char", ToString(Value(p))>>))), "GREATER")
ParseChar(p) ==
    IF Text(p) = LessThan /\ PeekToken(p).type = "DIGIT" THEN ParseCharNumber(NextToken(p))
    ELSE NextToken(Push(p, Literal(<<"char", Text(p)>>)))

ArrayItems(p) ==
    CASE At(p, {"IDENTIFIER"}) /\ Text(p) \in Constants -> ArrayItems(OrdCollAdd(ParseVariable(p)))
      [] At(p, ArrayLiteralFirst) -> ArrayItems(OrdCollAdd(ParseLiteral(p)))
      [] OTHER -> p
\* An item without a value ends the array, which may go on to its bracket.
EndOfItems(p) ==
    IF ~Reads(p) /\ TokenAt(p, p.at).type = "CLOSE" THEN [p EXCEPT !.error = "noted"] ELSE p
ParseArray(p) ==
    Made(SkipToken(EndOfItems(ArrayItems(NewOrdColl(NextToken(p)))), "CLOSE"), 1,
         LAMBDA of : Literal(<<"array", of[1]>>))

Negative(p) == IF At(p, {"DIGIT"}) THEN ParseNumber(p, -1) ELSE Fail(p)

ParseLiteral(p) ==
    CASE At(p, {"MINUS"})              -> Negative(NextToken(p))
      [] At(p, {"DIGIT"})              -> ParseNumber(p, 1)
      [] At(p, {"SYMBOL_START"})       -> ParseSymbol(NextToken(p))
      [] At(p, {"STRING"})             -> ParseString(p)
      [] At(p, {"CHAR"})               -> ParseChar(p)
      [] At(p, {"ARRAY_OPEN", "OPEN"}) -> ParseArray(p)
      [] OTHER -> Fail(p)

-----------------------------------------------------------------------------
(* Pragmas and variables.                                                    *)

\* A message of the list on the stack.
MadeMessage(p, selector) == Made(p, 1, LAMBDA of : Message(selector, of[1]))

\* The argument of a pragma is added to its list, NULL too.
Unchecked(p) == IF p.error = "unexpected" THEN [p EXCEPT !.error = "crash"] ELSE p
PragmaArg(p) == IF At(p, {"IDENTIFIER"}) THEN ParseVariable(p) ELSE Unchecked(ParseLiteral(p))
PragmaParts(p, selector) ==
    IF At(p, {"KEYWORD"}) THEN PragmaParts(OrdCollAdd(PragmaArg(NextToken(p))), selector \o Text(p))
    ELSE MadeMessage(p, selector)
ParsePragma(p) == Caught(PragmaParts(NewOrdColl(p), ""))
Pragmas(p) ==
    IF At(p, {"LESS"}) /\ PeekToken(p).type = "KEYWORD"
    THEN Pragmas(OrdCollAdd(SkipToken(ParsePragma(NextToken(p)), "GREATER")))
    ELSE p
ParsePragmas(p) == Pragmas(NewOrdColl(p))

TempVarNames(p) == IF At(p, {"IDENTIFIER"}) THEN TempVarNames(OrdCollAdd(ParseName(p))) ELSE p
ParseTempVars(p) ==
    IF At(p, {"BAR"}) THEN SkipToken(TempVarNames(NewOrdColl(NextToken(p))), "BAR")
    ELSE NewOrdColl(p)

ExpectName(p) == ParseName(ExpectToken(p, "IDENTIFIER"))
BlockArgs(p) == IF At(p, {"COLON"}) THEN BlockArgs(OrdCollAdd(ExpectName(NextToken(p)))) ELSE p
ParseBlockArgs(p) ==
    IF At(p, {"COLON"}) THEN SkipToken(BlockArgs(NewOrdColl(p)), "BAR") ELSE NewOrdColl(p)

-----------------------------------------------------------------------------
(* Expressions.                                                              *)

\* Nothing is read after a return, but for a dot.
\* Mutant: expressions go on.
GoOn(p) == At(p, {"DOT"})
GoesOn(p) == At(p, {"DOT"}) /\ ~Top(p)[Len(Top(p))].returns
AfterExpression(p) ==
    CASE GoesOn(p) -> Expressions(NextToken(p))
      [] ~GoesOn(p) /\ At(p, {"DOT"}) -> NextToken(p)
      [] OTHER -> p
Expressions(p) ==
    IF At(p, ExpressionFirst) THEN AfterExpression(OrdCollAdd(ParseExpression(p))) ELSE p
ParseExpressions(p) == Expressions(NewOrdColl(p))

ParseBlock(p) ==
    Made(SkipToken(ParseExpressions(ParseTempVars(ParseBlockArgs(
             SkipToken(Push(p, p.at), "SQUARE_OPEN")))), "SQUARE_CLOSE"), 4,
         LAMBDA of : Block(of[1], of[2], of[3], of[4]))

ParseBracketedStatement(p) == SkipToken(ParseExpression(NextToken(p)), "CLOSE")
ParsePrimary(p) ==
    CASE At(p, {"IDENTIFIER"})  -> ParseVariable(p)
      [] At(p, {"SQUARE_OPEN"}) -> ParseBlock(p)
      [] At(p, {"OPEN"})        -> ParseBracketedStatement(p)
      [] OTHER -> Caught(ParseLiteral(p))

\* An object sent a message: the two on the stack become one.
ConvertToExpression(p) ==
    Made(p, 2, LAMBDA of : Expression(FALSE, <<>>, of[1], <<of[2]>>))

ParseUnaryExpression(p) == NextToken(Push(p, Message(Text(p), <<>>)))
UnaryMessages(p) ==
    IF At(p, {"IDENTIFIER"}) THEN UnaryMessages(ConvertToExpression(ParseUnaryExpression(p))) ELSE p
ParseUnaryObject(p) == UnaryMessages(ParsePrimary(p))

MadeBinary(p, selector) == Made(p, 1, LAMBDA of : Message(selector, of))
ParseBinaryExpression(p) == MadeBinary(ParseUnaryObject(NextToken(p)), Text(p))
BinaryMessages(p) ==
    IF At(p, Special) THEN BinaryMessages(ConvertToExpression(ParseBinaryExpression(p))) ELSE p
ParseBinaryObject(p) == BinaryMessages(ParseUnaryObject(p))

KeywordParts(p, selector) ==
    IF At(p, {"KEYWORD"})
    THEN KeywordParts(OrdCollAdd(ParseBinaryObject(NextToken(p))), selector \o Text(p))
    ELSE MadeMessage(p, selector)
ParseKeywordExpression(p) == KeywordParts(NewOrdColl(p), "")

ParseCascadeExpression(p) ==
    CASE At(p, {"IDENTIFIER"}) -> ParseUnaryExpression(p)
      [] At(p, Special)        -> ParseBinaryExpression(p)
      [] At(p, {"KEYWORD"})    -> ParseKeywordExpression(p)
      [] OTHER -> Fail(p)
Cascades(p) ==
    IF At(p, {"SEMICOLON"}) THEN Cascades(OrdCollAdd(ParseCascadeExpression(NextToken(p)))) ELSE p

Assigments(p) ==
    IF At(p, {"IDENTIFIER"}) /\ PeekToken(p).type = "ASSIGN"
    THEN Assigments(NextToken(OrdCollAdd(ParseName(p))))
    ELSE p

\* The receiver and the messages of a statement.  An expression is taken
\* apart, one in brackets too, whose assignments and return are lost.
TakenApart(p) ==
    Push(Made(p, 1, LAMBDA of : of[1].receiver), Top(p).messages)
ParseMessages(p) ==
    CASE At(p, {"KEYWORD"}) -> OrdCollAdd(ParseKeywordExpression(NewOrdColl(p)))
      [] ~At(p, {"KEYWORD"}) /\ Top(p).node = "Expression" -> TakenApart(p)
      [] OTHER -> NewOrdColl(p)

ParseReturn(p) == IF At(p, {"RETURN"}) THEN NextToken(Push(p, TRUE)) ELSE Push(p, FALSE)
ParseExpression(p) ==
    Made(Cascades(ParseMessages(ParseBinaryObject(Assigments(NewOrdColl(ParseReturn(p)))))), 4,
         LAMBDA of : Expression(of[1], of[2], of[3], of[4]))

-----------------------------------------------------------------------------
(* Methods and classes.                                                      *)

PatternPairs(p, selector) ==
    IF At(p, {"KEYWORD"})
    THEN PatternPairs(OrdCollAdd(ExpectName(NextToken(p))), selector \o Text(p))
    ELSE Push(p, selector)
ParseMessagePattern(p) ==
    CASE At(p, {"IDENTIFIER"}) -> NextToken(Push(NewOrdColl(p), Text(p)))
      [] At(p, Special)        -> Push(OrdCollAdd(ExpectName(NewOrdColl(NextToken(p)))), Text(p))
      [] At(p, {"KEYWORD"})    -> PatternPairs(NewOrdColl(p), "")
      [] OTHER -> Fail(NewOrdColl(p))

\* A name before the pattern is that of the class.
ParseClassName(p) ==
    IF At(p, {"IDENTIFIER"}) /\ PeekToken(p).type \in MethodFirst THEN ParseName(p) ELSE Push(p, "")

MethodNode(className, args, selector, pragmas, body) ==
    [node |-> "Method", className |-> className, selector |-> selector, pragmas |-> pragmas,
     body |-> [body EXCEPT !.args = args]]
MethodHeader(p) == ParseMessagePattern(ParseClassName(p))
MethodBody(p) == ParseExpressions(ParseTempVars(ParsePragmas(SkipToken(Push(p, p.at), "SQUARE_OPEN"))))
ParseMethod(p) ==
    Made(SkipToken(MethodBody(MethodHeader(p)), "SQUARE_CLOSE"), 7,
         LAMBDA of : MethodNode(of[1], of[2], of[3], of[5], Block(of[4], <<>>, of[6], of[7])))

MethodsFrom(p) == IF At(p, MethodFirst) THEN MethodsFrom(OrdCollAdd(ParseMethod(p))) ELSE p
ParseMethods(p) == MethodsFrom(NewOrdColl(p))

ClassNode(name, superName, pragmas, variables, methods) ==
    [node |-> "Class", name |-> name, superName |-> superName, pragmas |-> pragmas,
     vars |-> variables, methods |-> methods]
ClassHeader(p) == SkipToken(ExpectName(SkipToken(ExpectName(p), "ASSIGN")), "SQUARE_OPEN")
ParseClass(p) ==
    Made(SkipToken(ParseMethods(ParseTempVars(ParsePragmas(ClassHeader(p)))), "SQUARE_CLOSE"), 5,
         LAMBDA of : ClassNode(of[1], of[2], of[3], of[4], of[5]))

-----------------------------------------------------------------------------
(* evalCode and parseFile.                                                   *)

Reading == [outcome |-> "reading", tree |-> <<>>]
Refused(p) == [outcome |-> p.error, tree |-> <<>>]

Sources == [entry : {"method"}, tokens : Methods] \cup [entry : {"eval"}, tokens : Evals]
               \cup [entry : {"file", "kernel"}, tokens : Files]

Token(type, text) == [type |-> type, text |-> text, value |-> 0, separated |-> FALSE]

\* The code to evaluate is put between "eval[" and "]".
Wrapped(s) ==
    IF s.entry # "eval" THEN s.tokens
    ELSE <<Token("IDENTIFIER", "eval"), Token("SQUARE_OPEN", "[")>> \o s.tokens
           \o <<Token("SQUARE_CLOSE", "]")>>

Init ==
    /\ source \in Sources
    /\ parser = InitParser(Wrapped(source))
    /\ classes = <<>>
    /\ blocks = <<>>
    /\ result = Reading

\* The value of the last expression is the answer.
PatchMethodNode(method) ==
    LET n == Len(method.body.expressions)
    IN  IF n = 0 THEN method ELSE [method EXCEPT !.body.expressions[n].returns = TRUE]

Parsed(entry, p) ==
    IF p.error # "none" THEN Refused(p)
    ELSE [outcome |-> "done",
          tree |-> <<IF entry = "eval" THEN PatchMethodNode(Top(p)) ELSE Top(p)>>]
ReadMethod ==
    /\ source.entry \in {"method", "eval"}
    /\ result = Reading
    /\ parser' = ParseMethod(parser)
    /\ result' = Parsed(source.entry, parser')
    /\ UNCHANGED <<source, classes, blocks>>

AtEnd(p) == At(p, {"END"})
AtBlock(p) == source.entry = "file" /\ At(p, {"SQUARE_OPEN"})

\* A file is blocks and classes, one of the kernel classes only.  What was
\* read before an error is forgotten, though the classes are installed.
ReadBlock ==
    /\ source.entry \in {"file", "kernel"}
    /\ result = Reading
    /\ AtBlock(parser)
    /\ parser' = ParseBlock(parser)
    /\ IF parser'.error = "none" THEN blocks' = Append(blocks, Top(parser')) /\ UNCHANGED result
       ELSE result' = Refused(parser') /\ UNCHANGED blocks
    /\ UNCHANGED <<source, classes>>

\* Mutant: an error in a class does not end the file.
ReadClassOn ==
    /\ source.entry \in {"file", "kernel"}
    /\ result = Reading
    /\ ~AtEnd(parser) /\ ~AtBlock(parser)
    /\ parser' = ParseClass(parser)
    /\ classes' = Append(classes, Top(parser'))
    /\ UNCHANGED <<source, blocks, result>>

ReadClass ==
    /\ source.entry \in {"file", "kernel"}
    /\ result = Reading
    /\ ~AtEnd(parser) /\ ~AtBlock(parser)
    /\ parser' = ParseClass(parser)
    /\ IF parser'.error = "none" THEN classes' = Append(classes, Top(parser')) /\ UNCHANGED result
       ELSE result' = Refused(parser') /\ UNCHANGED classes
    /\ UNCHANGED <<source, blocks>>

\* A class that reads well may not compile (buildClass).
RefuseClass ==
    /\ source.entry \in {"file", "kernel"}
    /\ result = Reading
    /\ ~AtEnd(parser) /\ ~AtBlock(parser)
    /\ parser' = ParseClass(parser)
    /\ parser'.error = "none"
    /\ result' = [outcome |-> "compile error", tree |-> <<>>]
    /\ UNCHANGED <<source, classes, blocks>>

EndOfFile ==
    /\ source.entry \in {"file", "kernel"}
    /\ result = Reading
    /\ AtEnd(parser)
    /\ result' = [outcome |-> "done", tree |-> <<classes, blocks>>]
    /\ UNCHANGED <<source, parser, classes, blocks>>

Over == result # Reading /\ UNCHANGED vars

Next == ReadMethod \/ ReadBlock \/ ReadClass \/ RefuseClass \/ EndOfFile \/ Over

Spec == Init /\ [][Next]_vars

-----------------------------------------------------------------------------
(* Properties.                                                               *)

\* What a method is read from ends with its bracket; the rest is left.
UpToEnd(ts) == SubSeq(ts, 1, IF UnitEnds(ts) = {} THEN 0 ELSE Least(UnitEnds(ts)))
Readings ==
    IF source.entry \in {"file", "kernel"}
    THEN {tree \in File(Numbered(source.tokens)) : source.entry = "kernel" => tree[2] = <<>>}
    ELSE {<<IF source.entry = "eval" THEN PatchMethodNode(m) ELSE m>> :
             m \in Method(UpToEnd(Numbered(Wrapped(source))))}

\* Where the code disagrees with the grammar.  A statement that only is a
\* bracket loses what the bracket assigns or returns, and a cascade without a
\* message is read; the sign of a number is refused in an array, and $< before
\* a number always begins the number of a character.
Bodies(n) ==
    CASE n.node = "Class"  -> {m.body : m \in ToSet(n.methods)}
      [] n.node = "Method" -> {n.body}
      [] OTHER -> {n}
Nodes(tree) ==
    IF source.entry \in {"file", "kernel"} THEN ToSet(tree[1] \o tree[2]) ELSE ToSet(tree)
ReadStatements(tree) == UNION {UNION {ExpressionsIn(b) : b \in Bodies(n)} : n \in Nodes(tree)}
LosesBracket(e) == e.messages = <<>> /\ e.receiver.node = "Expression"
BareCascade(e)  == e.messages # <<>> /\ e.messages[1] = NoMessage
NegativeInArray(ts) ==
    \E i, k \in DOMAIN ts :
        i < k /\ ts[i].type = "ARRAY_OPEN" /\ ts[k].type = "MINUS"
              /\ \A j \in i .. k : ts[j].type # "CLOSE"
CharThenNumber(ts) ==
    \E i \in DOMAIN ts :
        /\ ts[i].type = "CHAR" /\ ts[i].text = LessThan
        /\ TokenAt([tokens |-> ts], i + 1).type = "DIGIT" /\ (i + 2 <= Len(ts) => ~CharNumber(SubSeq(ts, i, i + 2)))
Deviates(readings) ==
    \/ NegativeInArray(source.tokens) \/ CharThenNumber(source.tokens)
    \/ \E tree \in readings : \E e \in ReadStatements(tree) : LosesBracket(e) \/ BareCascade(e)

\* A text is accepted exactly when it has a reading, and the tree is its
\* reading: precedence, order and nesting are those of the language.
AcceptsGrammar ==
    result.outcome \notin {"reading", "compile error"} =>
        LET readings == Readings
        IN  Deviates(readings) \/ readings = IF result.outcome = "done" THEN {result.tree} ELSE {}

\* However broken a file is, every step reads on or is the last: parseFile
\* does not try the same tokens for ever.  (No state but the last is without
\* a step: deadlock is checked.)
ReadsOn == [][result' = Reading => parser'.at > parser.at]_vars
=============================================================================
