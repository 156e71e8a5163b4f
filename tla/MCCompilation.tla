--------------------------- MODULE MCCompilation ----------------------------
(* Methods small enough to be listed, of every shape the scope analysis and  *)
(* the compiler tell apart: a statement S in the method, in a block, in a    *)
(* block of a block, in a block with a variable that hides an outer one, in  *)
(* an argument and in a block that is evaluated later.                       *)
EXTENDS Compilation

V(name) == Variable(name)
Three == Literal(Number(3))
Statement(assigned, receiver, messages) == Expression(FALSE, assigned, receiver, messages)
Answering(e) == [e EXCEPT !.returns = TRUE]
Valued(b, args) ==
    Statement(<<>>, b, <<Message(IF args = <<>> THEN "value" ELSE "value:", args)>>)
Method(args, temps, statements) ==
    [body |-> Block(1, args, temps, statements),
     args |-> [i \in DOMAIN args |-> Number(10 + i)], pragmas |-> <<>>]

MessageLists ==
    {<<>>, <<Message("foo:", <<V("a")>>)>>, <<Message("foo", <<>>), Message("bar:", <<V("y")>>)>>}

\* Statements over the method's names and those of the blocks below.
Outer == {Statement(w, V(r), m) : w \in {<<>>, <<"x">>, <<"i">>, <<"G", "x">>},
                                  r \in {"x", "a", "self"}, m \in MessageLists}
Inner == {Statement(w, V(r), m) :
             w \in {<<>>, <<"x">>, <<"z">>, <<"i", "z">>, <<"x", "z">>, <<"y", "x">>},
             r \in {"x", "z", "p", "a", "i", "thisContext"}, m \in MessageLists}
WithAnswers(S) == S \cup {Answering(e) : e \in S}

Ending == Answering(Statement(<<>>, V("x"), <<Message("end:", <<V("y")>>)>>))
Start  == Statement(<<"x">>, Three, <<Message("start", <<>>)>>)
InMethod(e) == Method(<<"a">>, <<"x", "y">>, <<Start, e, Ending>>)

\* The statement in a block; in a block of a block; under a hiding variable.
InBlock(e) ==
    InMethod([Valued(Block(2, <<"p">>, <<"z">>, <<Statement(<<"z">>, V("p"), <<>>), e>>), <<V("x")>>)
                 EXCEPT !.assigments = <<"y">>])
InTwoBlocks(e) ==
    InMethod([Valued(Block(2, <<"p">>, <<"z">>,
                 <<Statement(<<"z">>, V("p"), <<Message("from:", <<V("x")>>)>>), Valued(Block(3, <<>>, <<>>, <<e>>), <<>>),
                   Statement(<<>>, V("z"), <<Message("use:", <<V("p")>>)>>)>>), <<V("a")>>)
                 EXCEPT !.assigments = <<"y">>])
Hidden(e) ==
    InMethod(Valued(Block(2, <<"p">>, <<"z">>,
                 <<Valued(Block(3, <<"a">>, <<"x">>, <<e, Statement(<<"y">>, V("x"), <<>>)>>), <<V("p")>>)>>),
                 <<Three>>))

\* The statement as an argument; in a block made before x changes.
AsArgument(e) == InMethod(Statement(<<"y">>, V("x"), <<Message("with:", <<e>>)>>))
Later(e) ==
    Method(<<"a">>, <<"x", "y">>,
           <<Start, Statement(<<"y">>, Block(2, <<>>, <<>>, <<e>>), <<>>),
             Statement(<<"x">>, Literal(Symbol("s")), <<Message("again", <<>>)>>),
             Valued(V("y"), <<>>), Ending>>)

\* Methods with something to refuse, in the method itself or in a block.
Assigned == {"x", "a", "i", "G", "u", "self", "thisContext", "true", "p"}
Refusable ==
    {Statement(<<v>>, r, <<>>) : v \in Assigned, r \in {Three, V("u"), Block(3, <<>>, <<>>, <<>>)}}
Definitions == {<<>>, <<"x">>, <<"a">>, <<"i">>, <<"self">>, <<"x", "x">>}
Refused ==
    {Method(<<"a">>, t, <<e>>) : t \in Definitions, e \in Refusable}
    \cup {Method(<<"a">>, <<"x">>, <<Valued(Block(2, <<"p">>, t, <<e>>), <<Three>>)>>) :
             t \in Definitions \cup {<<"p">>}, e \in Refusable}
    \cup {[Method(<<>>, <<>>, <<>>) EXCEPT !.pragmas = <<g>>] :
             g \in {V("StringSize"), V("unbound"), Literal(Number(7)), Literal(Number(70000)),
                    Literal(Symbol("s"))}}

MCPrograms ==
    {InMethod(e) : e \in WithAnswers(Outer)}
    \cup {InBlock(e) : e \in WithAnswers(Inner)}
    \cup {InTwoBlocks(e) : e \in WithAnswers(Inner)}
    \cup {Hidden(e) : e \in {s \in Inner : "z" \notin ToSet(s.assigments)}}
    \cup {AsArgument(e) : e \in Outer}
    \cup {Later(e) : e \in WithAnswers(Outer)}
    \cup Refused

Forward  == <<"self", "super", "thisContext", "a", "p", "x", "y", "z", "i", "G">>
MCOrders == {Forward, Reverse(Forward)}
MCPrimitives == [n \in {"StringSize"} |-> 12]
InstVarNames == <<"i">>
=============================================================================
