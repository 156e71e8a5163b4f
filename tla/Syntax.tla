------------------------------- MODULE Syntax -------------------------------
(* The syntax tree the parser builds and the compiler walks (Ast.h).  Source *)
(* positions are left out.  A name is a string; a value, here and in the two *)
(* evaluators, is a tuple that begins with its kind.                         *)
EXTENDS Integers, Sequences, SequencesExt

\* VariableNode, and the literal nodes: integer, character, symbol, nil, true,
\* false, array.
Variable(name) == [node |-> "Variable", name |-> name]
Literal(value) == [node |-> "Literal", value |-> value]

\* MessageExpressionNode: a selector and its arguments.
Message(selector, args) == [selector |-> selector, args |-> args]

\* ExpressionNode: the variables assigned, the receiver and the messages of
\* the cascade.  It is an argument or a receiver when it stands in brackets.
Expression(returns, assigments, receiver, messages) ==
    [node |-> "Expression", returns |-> returns, assigments |-> assigments,
     receiver |-> receiver, messages |-> messages]

\* BlockNode.  The number stands for the identity of the node.
Block(id, args, tempVars, expressions) ==
    [node |-> "Block", id |-> id, args |-> args, tempVars |-> tempVars,
     expressions |-> expressions]

Nil       == <<"nil">>
Self      == <<"self">>
Number(n) == <<"int", n>>
Symbol(s) == <<"symbol", s>>

Specials == {"thisContext", "super", "self"}

-----------------------------------------------------------------------------
(* Walks over a tree, for the statements of the properties.                  *)

RECURSIVE BlocksIn(_)
SubNodes(n) ==
    CASE n.node = "Block" -> n.expressions
      [] n.node = "Expression" ->
           <<n.receiver>> \o FlattenSeq([i \in DOMAIN n.messages |-> n.messages[i].args])
      [] OTHER -> <<>>

\* Every block of a tree, itself included.
BlocksIn(n) ==
    (IF n.node = "Block" THEN {n} ELSE {})
        \cup UNION {BlocksIn(SubNodes(n)[i]) : i \in DOMAIN SubNodes(n)}

RECURSIVE ExpressionsIn(_)
ExpressionsIn(n) ==
    (IF n.node = "Expression" THEN {n} ELSE {})
        \cup UNION {ExpressionsIn(SubNodes(n)[i]) : i \in DOMAIN SubNodes(n)}

\* Names assigned somewhere in a tree.
AssignedIn(n) == UNION {ToSet(e.assigments) : e \in ExpressionsIn(n)}

\* Whether evaluating a tree that is no block sends a message.
Sends(n) == n.node = "Expression" /\
    \E e \in ExpressionsIn(n) : e.messages # <<>>
=============================================================================
