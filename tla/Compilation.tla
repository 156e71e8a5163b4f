---------------------------- MODULE Compilation -----------------------------
(* compileMethod on a set of methods, and the method that comes out of it    *)
(* run once: what the tree says (SourceSemantics) against what the byte code *)
(* does (ByteCode).                                                          *)
EXTENDS Compiler, ByteCode

CONSTANTS
    Programs,          \* methods: [body, args, pragmas]
    Orders,            \* orders in which a dictionary of variables is walked
    PrimitiveNumbers   \* the integers bound in Smalltalk, by name

VARIABLES
    program,   \* the method at hand
    order,     \* the order its dictionaries are walked in
    compiled,  \* what compileMethod answered, or NotCompiled
    outcome    \* what running the method showed, or NotRun

vars == <<program, order, compiled, outcome>>

NotCompiled == [error |-> <<"none">>, literals |-> <<>>, units |-> <<>>, primitive |-> -1]
NotRun == [answer |-> <<"not run">>]
UINT16_MAX == 65535

\* primitive: takes an integer or the name of one; of several the last counts.
\* Nothing but an integer in 16 bits will do.
PrimitiveOf(arg) ==
    CASE arg.node = "Variable" /\ arg.name \in DOMAIN PrimitiveNumbers -> PrimitiveNumbers[arg.name]
      [] arg.node = "Literal" /\ arg.value[1] = "int" -> arg.value[2]
      [] OTHER -> -1
InvalidPragma(arg) == PrimitiveOf(arg) \notin 0 .. UINT16_MAX

Init ==
    /\ program \in Programs
    /\ order \in Orders
    /\ compiled = NotCompiled
    /\ outcome = NotRun

Compile ==
    /\ compiled = NotCompiled
    /\ \E result \in {CompileMethod(program.body, order)} :
       LET n == Len(program.pragmas)
           invalid == \E i \in 1 .. n : InvalidPragma(program.pragmas[i])
       IN  compiled' =
             IF result.error = NoError /\ invalid
             THEN [error |-> <<"pragma", "primitive:">>, literals |-> result.literals,
                   units |-> <<>>, primitive |-> 0]
             ELSE [error |-> result.error, literals |-> result.literals, units |-> result.units,
                   primitive |-> IF n = 0 \/ invalid THEN 0 ELSE PrimitiveOf(program.pragmas[n])]
    /\ UNCHANGED <<program, order, outcome>>

Execute ==
    /\ compiled # NotCompiled
    /\ compiled.error = NoError
    /\ outcome = NotRun
    /\ outcome' = RunMethod([units |-> compiled.units, literals |-> compiled.literals,
                             instVars |-> InstVars], program.body.id, program.args)
    /\ UNCHANGED <<program, order, compiled>>

Next == Compile \/ Execute

Spec == Init /\ [][Next]_vars

-----------------------------------------------------------------------------
(* What a method may get wrong, by the rules of lexical scope.               *)

DefinedBy(b) == ToSet(b.args) \cup ToSet(b.tempVars)

\* The definition a name refers to from a block with others around it.
Enclosing(body, b) == {c \in BlocksIn(body) : b \in BlocksIn(c)}
Definers(body, b, name) == {c \in Enclosing(body, b) : name \in DefinedBy(c)}
Innermost(S) == CHOOSE c \in S : \A d \in S : c \in BlocksIn(d)

\* The expressions of a block that are in no block within it.
RECURSIVE OwnExpressions(_)
OwnExpressions(n) ==
    (IF n.node = "Expression" THEN {n} ELSE {})
        \cup UNION {OwnExpressions(SubNodes(n)[i]) :
                       i \in {j \in DOMAIN SubNodes(n) : SubNodes(n)[j].node # "Block"}}
NamesReadBy(e) == {n.name : n \in {m \in ToSet(SubNodes(e)) : m.node = "Variable"}}

\* The names an expression of a block reads or assigns without right.
Unknown(body, b, name) ==
    /\ Definers(body, b, name) = {}
    /\ name \notin Specials \cup ToSet(InstVars) \cup Globals \cup Capitalized
Readonly(body, b, name) ==
    \/ name \in PseudoLiterals \cup Specials
    \/ /\ Definers(body, b, name) # {}
       /\ name \in ToSet(Innermost(Definers(body, b, name)).args)
Misassigned(body, b, e) ==
    {<<"readonly", v>> : v \in {w \in ToSet(e.assigments) : Readonly(body, b, w)}}
    \cup {<<"undefined", v>> : v \in {w \in ToSet(e.assigments) :
                                        ~Readonly(body, b, w) /\ Unknown(body, b, w)}}

DefinedTwice(b) ==
    LET names == b.args \o b.tempVars
    IN  {names[i] : i \in {k \in DOMAIN names :
                            names[k] \in Specials \cup {names[j] : j \in 1 .. k - 1}}}

Errors(body) ==
    UNION {{<<"redefinition", v>> : v \in DefinedTwice(b)}
           \cup UNION {Misassigned(body, b, e)
                       \cup {<<"undefined", v>> : v \in {w \in NamesReadBy(e) : Unknown(body, b, w)}}
                     : e \in OwnExpressions(b)}
         : b \in BlocksIn(body)}

-----------------------------------------------------------------------------
(* The methods known to be compiled to something else (README, section 4).   *)

\* The first node evaluated in a node.
RECURSIVE Leftmost(_)
Leftmost(n) == IF n.node = "Expression" THEN Leftmost(n.receiver) ELSE n

\* The error of an assigned name is lost when the value begins with a block,
\* and thisContext is not refused at all.
ErrorLost(body) ==
    \E b \in BlocksIn(body) : \E e \in OwnExpressions(b) :
        \/ Leftmost(e).node = "Block" /\ Misassigned(body, b, e) # {}
        \/ "thisContext" \in ToSet(e.assigments)

\* The variables an operand may be read from when its byte code runs.
RECURSIVE OperandVars(_)
OperandVars(n) ==
    CASE n.node = "Variable" -> {n.name}
      [] n.node = "Expression" ->
           ToSet(n.assigments) \cup (IF n.messages = <<>> THEN OperandVars(n.receiver) ELSE {})
      [] OTHER -> {}

\* A variable is an operand of a send, and evaluating a later operand, or an
\* earlier message of the cascade, assigns it.
OperandOverwritten(body) ==
    LET inBlocks == UNION {AssignedIn(b) : b \in BlocksIn(body) \ {body}}
        during(n) == IF n.node = "Expression"
                     THEN AssignedIn(n) \cup (IF Sends(n) THEN inBlocks ELSE {}) ELSE {}
    IN  \E e \in ExpressionsIn(body) : \E k \in DOMAIN e.messages :
          LET operands == <<e.receiver>> \o e.messages[k].args
          IN  \/ \E j \in DOMAIN operands : \E i \in 1 .. j - 1 :
                     OperandVars(operands[i]) \cap during(operands[j]) # {}
              \/ k > 1 /\ OperandVars(e.receiver) \cap
                     (inBlocks \cup UNION {AssignedIn(SubNodes(e)[i]) : i \in DOMAIN SubNodes(e)}) # {}

\* Two variables of one assignment are in contexts at different distances.
AssignsAcrossContexts(body) ==
    LET captured(name) == \E b \in BlocksIn(body) : \E c \in BlocksIn(b) \ {b} :
                             /\ name \in DefinedBy(b)
                             /\ \E e \in ExpressionsIn(c) : name \in ToSet(e.assigments) \cup NamesReadBy(e)
        definers(name) == {b \in BlocksIn(body) : name \in DefinedBy(b)}
    IN  \E e \in ExpressionsIn(body) :
            \E v, w \in {n \in OperandVars(e) : captured(n)} : definers(v) # definers(w)

-----------------------------------------------------------------------------
(* Properties.                                                               *)

Operands(bytecode) ==
    CASE bytecode.op = "COPY" -> {bytecode.from, bytecode.to}
      [] bytecode.op = "SEND" -> {bytecode.receiver, bytecode.store} \cup ToSet(bytecode.args)
      [] OTHER -> {bytecode.value}

\* The code of a unit is what the register allocator and the code generator
\* take for granted: temporaries, arguments, literals and context slots are
\* within the sizes in its header, and a block ends in a return and has been
\* given a context by every unit around it whose variables it names.  No temporary
\* is copied to itself (compareOperands), which movToVar would not survive.
CodeWellFormed ==
    (compiled.units # <<>> /\ ~ErrorLost(program.body)) =>
        \A id \in DOMAIN compiled.units :
            LET unit == compiled.units[id]
            IN  /\ id = program.body.id \/ (unit.code # <<>> /\
                      unit.code[Len(unit.code)].op \in {"RETURN", "OUTER_RETURN"})
                /\ \A i \in DOMAIN unit.code : \A o \in Operands(unit.code[i]) :
                     CASE o.type = "TEMP" ->
                            o.index \in unit.argsSize + 2 .. unit.argsSize + 1 + unit.tempsSize
                       [] o.type = "ARG" -> o.index \in 1 .. unit.argsSize + 1
                       [] o.type \in {"LITERAL", "ASSOC", "BLOCK"} ->
                            o.index < Len(compiled.literals)
                       [] o.type = "INST" -> o.index < Len(InstVars)
                       [] o.type \in {"CONTEXT", "THIS_CONTEXT"} -> unit.hasContext
                       [] OTHER -> o.type # "GARBAGE"
                /\ \A b \in ToSet(unit.code) :
                     ~(b.op = "COPY" /\ b.from.type = "TEMP" /\ b.from = b.to)

\* A method is refused exactly when a name in it is unknown, defined twice in
\* one scope or not to be assigned, or its pragma is no primitive, and for one
\* of these reasons (Scope.c, processPragmas).
ErrorsReported ==
    (compiled # NotCompiled /\ ~ErrorLost(program.body)) =>
        LET errors == Errors(program.body)
                        \cup {<<"pragma", "primitive:">> : a \in {x \in ToSet(program.pragmas) : InvalidPragma(x)}}
        IN  IF errors = {} THEN compiled.error = NoError ELSE compiled.error \in errors

\* The byte code stores into variables only (the assertion of bytecodeCopy).
DestinationsWritable ==
    \A id \in DOMAIN compiled.units :
        \A i \in DOMAIN compiled.units[id].code :
            LET b == compiled.units[id].code[i]
            IN  b.op = "COPY" => b.to.type \in {"TEMP", "CONTEXT", "INST", "ASSOC"}

\* Running the byte code makes the sends, leaves the variables and gives the
\* answer the source means: every name is the variable of the innermost scope
\* that defines it wherever that variable lives, in a register, a context at
\* any distance or the receiver, temporaries of the compiler are never in use
\* twice, and ^ in a block returns from the method.
ComputesSource ==
    (/\ outcome # NotRun
     /\ ~ErrorLost(program.body)
     /\ ~OperandOverwritten(program.body)
     /\ ~AssignsAcrossContexts(program.body)) =>
        outcome = MeaningOf(program.body, program.args)
=============================================================================
