-------------------------- MODULE MCCodeGenerator ---------------------------
(* The code the compiler makes of the methods and blocks of MCCompilation,   *)
(* and byte code with temporaries that live side by side, generated for a    *)
(* processor with the nine registers of X64AvailableRegs and for smaller     *)
(* ones, where variables are spilled.                                        *)
EXTENDS CodeGenerator

M == INSTANCE MCCompilation WITH
        InstVars <- <<"i">>, Globals <- {}, Capitalized <- {"G"}, IndexRange <- 256,
        Programs <- {}, Orders <- {}, PrimitiveNumbers <- <<>>,
        program <- <<>>, order <- <<>>, compiled <- <<>>, outcome <- <<>>

UnitsOf(method) ==
    LET r == M!CompileMethod(method.body, M!Forward)
    IN  {[code |-> r.units[id].code, argsSize |-> r.units[id].argsSize,
          tempsSize |-> r.units[id].tempsSize, hasContext |-> r.units[id].hasContext,
          isBlock |-> id # method.body.id] : id \in DOMAIN r.units}
Compiled == UNION {UnitsOf(p) : p \in {q \in M!MCPrograms : ~M!ErrorLost(q.body)}}

\* A method with one argument (2) and three temporaries (3 .. 5).
Tv(i) == Operand("TEMP", i, 0)
Arg   == Operand("ARG", 2, 0)
Inst  == Operand("INST", 0, 0)
Value == Operand("VALUE", <<"int", 3>>, 0)
BlockOperand == Operand("BLOCK", 4, 0)
Copies == {Copy(from, to) : from \in {Arg, Value, Inst, Tv(3), Tv(4)}, to \in {Tv(3), Tv(4), Tv(5), Inst}}
Sends  == {Send(1, r, a, s) : r \in {Tv(3), Inst}, a \in {<<Tv(4)>>, <<BlockOperand, Tv(5)>>},
                              s \in {NoOperand, Tv(3), Tv(5)}}
Again  == Send(2, Tv(3), <<Tv(5)>>, Tv(4))
Ends   == {Return(Tv(4), FALSE), Return(Tv(5), TRUE)}
Written == {[code |-> <<a, b, c, Again, d>>, argsSize |-> 1, tempsSize |-> 3, hasContext |-> FALSE,
             isBlock |-> TRUE] :
               a \in {x \in Copies \cup Sends : x.op = "COPY" => x.from # x.to},
               b \in Sends, c \in {x \in Copies : x.from # x.to}, d \in Ends}

MCUnits == Compiled \cup Written
MCRegFiles == {<<"R11", "R13", "R14", "R15", "RBX", "R9", "R8", "RCX", "RDX">>,
               <<"R11", "R13", "R14">>}
Context0 == <<"CONTEXT", 0>>
=============================================================================
