-------------------------- MODULE SourceSemantics ---------------------------
(* What a method means, told from its tree alone: names are lexical, the     *)
(* receiver and the arguments are evaluated once, from left to right, a      *)
(* block sees the variables of the activation it was made in, and ^ in a     *)
(* block returns from the method.  The only sends with a meaning of their    *)
(* own are value and value: to a block; any other answers a fresh object and *)
(* all are recorded, so that what a method does can be told by what it sends.*)
EXTENDS Syntax, TLC

\* A block value shows which block it is, not where it was made.
Observed(v) == IF v[1] = "block" THEN <<"block", v[2]>> ELSE v

\* The state both evaluators share: the instance variables, the globals, the
\* sends so far, and what happened that no program should see.
Fresh == [frames |-> <<>>, objects |-> <<>>, sends |-> <<>>, junk |-> FALSE]
Stored(s, name, v) == [s EXCEPT !.objects = (name :> v) @@ @]
Fetched(s, name) == IF name \in DOMAIN s.objects THEN s.objects[name] ELSE Nil
Sent(s, selector, operands, isSuper) ==
    [s EXCEPT !.sends = Append(@, [selector |-> selector, super |-> isSuper,
                 operands |-> [i \in DOMAIN operands |-> Observed(operands[i])]])]
Answer(s) == <<"answer", Len(s.sends)>>

\* A send that evaluates a block.
IsBlockValue(selector, operands, arity) ==
    /\ operands[1][1] = "block"
    /\ selector = (CASE arity = 0 -> "value" [] arity = 1 -> "value:" [] OTHER -> "none")

\* What a run shows: the sends, the objects' variables and the answer.
Outcome(r) == [sends |-> r.s.sends, junk |-> r.s.junk, answer |-> Observed(r.v),
               objects |-> {<<name, Observed(r.s.objects[name])>> : name \in DOMAIN r.s.objects}]

-----------------------------------------------------------------------------
(* frames holds one record of variables for each activation; home is the     *)
(* frame of the method.  The result of an evaluation is [s, v, exit], exit   *)
(* being true when a ^ is on its way out.                                    *)

RECURSIVE FrameOf(_, _, _)
FrameOf(s, f, name) ==
    CASE f = 0 -> 0
      [] f # 0 /\ name \in DOMAIN s.frames[f].vars -> f
      [] OTHER -> FrameOf(s, s.frames[f].parent, name)

Value(s, f, name) ==
    CASE name \in {"self", "super"} -> Self
      [] name = "thisContext" -> <<"context", s.frames[f].block>>
      [] OTHER -> LET g == FrameOf(s, f, name)
                  IN  IF g = 0 THEN Fetched(s, name) ELSE s.frames[g].vars[name]

Assign(s, f, name, v) ==
    LET g == FrameOf(s, f, name)
    IN  IF g = 0 THEN Stored(s, name, v) ELSE [s EXCEPT !.frames[g].vars[name] = v]

RECURSIVE Evaluate(_, _, _, _), Activate(_, _, _, _, _)

\* Nodes from left to right; an exit stops the walk.
EvaluateAll(blocks, s, f, nodes) ==
    FoldLeft(LAMBDA r, n :
               IF r.exit THEN r
               ELSE LET x == Evaluate(blocks, r.s, f, n)
                    IN  [s |-> x.s, v |-> x.v, exit |-> x.exit, all |-> Append(r.all, x.v)],
             [s |-> s, v |-> Nil, exit |-> FALSE, all |-> <<>>], nodes)

Perform(blocks, s, f, receiver, message, isSuper) ==
    LET r == EvaluateAll(blocks, s, f, message.args)
        operands == <<receiver>> \o r.all
        sent  == Sent(r.s, message.selector, operands, isSuper)
        block == CHOOSE b \in blocks : b.id = receiver[2]
    IN  CASE r.exit -> r
          [] ~r.exit /\ receiver[1] = "block" /\
                IsBlockValue(message.selector, operands, Len(block.args)) ->
               Activate(blocks, sent, block, r.all, receiver[3])
          [] OTHER -> [s |-> sent, v |-> Answer(sent), exit |-> FALSE]

Evaluate(blocks, s, f, n) ==
    CASE n.node = "Variable" -> [s |-> s, v |-> Value(s, f, n.name), exit |-> FALSE]
      [] n.node = "Literal"  -> [s |-> s, v |-> n.value, exit |-> FALSE]
      [] n.node = "Block"    -> [s |-> s, v |-> <<"block", n.id, f>>, exit |-> FALSE]
      [] n.node = "Expression" ->
           LET receiver == Evaluate(blocks, s, f, n.receiver)
               isSuper  == n.receiver = Variable("super")
               value == FoldLeft(LAMBDA r, m : IF r.exit THEN r
                                               ELSE Perform(blocks, r.s, f, receiver.v, m, isSuper),
                                 receiver, n.messages)
           IN  IF value.exit THEN value
               ELSE [s |-> FoldLeft(LAMBDA t, name : Assign(t, f, name, value.v),
                                    value.s, n.assigments),
                     v |-> value.v, exit |-> FALSE]

Statements(blocks, s, f, expressions) ==
    FoldLeft(LAMBDA r, e : IF r.exit THEN r
                           ELSE LET x == Evaluate(blocks, r.s, f, e)
                                IN  [s |-> x.s, v |-> x.v, exit |-> x.exit \/ e.returns],
             [s |-> s, v |-> Nil, exit |-> FALSE], expressions)

\* A block answers its last value unless a ^ leaves it.
Activate(blocks, s, block, args, parent) ==
    LET vars == [name \in ToSet(block.args) \cup ToSet(block.tempVars) |->
                   IF \E i \in DOMAIN block.args : block.args[i] = name
                   THEN args[CHOOSE i \in DOMAIN block.args : block.args[i] = name] ELSE Nil]
        entered == [s EXCEPT !.frames =
                      Append(@, [vars |-> vars, parent |-> parent, block |-> block.id])]
    IN  Statements(blocks, entered, Len(entered.frames), block.expressions)

\* A method answers itself when no ^ ends it.
MeaningOf(body, args) ==
    LET r == Activate(BlocksIn(body), Fresh, body, args, 0)
    IN  Outcome([s |-> r.s, v |-> IF r.exit THEN r.v ELSE Self])
=============================================================================
