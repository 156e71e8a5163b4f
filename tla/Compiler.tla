------------------------------ MODULE Compiler ------------------------------
(* From a method's syntax tree to byte code: the scope analysis of Scope.c   *)
(* and the compiler of Compiler.c, as operators on trees.  A compiled unit   *)
(* (the method or one of its blocks) is named by the number of its block     *)
(* node.  Source positions and the literal kinds that only differ in their   *)
(* printed form are left out.                                                *)
EXTENDS Syntax, Bytecodes, FiniteSets, TLC

CONSTANTS
    InstVars,     \* sequence of the owner class's instance variables
    Globals,      \* names bound in Smalltalk or as class variables
    Capitalized,  \* names that begin with a capital: globals at first use
    IndexRange    \* an index is a byte: 256

CONTEXT_INDEX == 0
NoError == <<"none">>
PseudoLiterals == {"nil", "true", "false"}

\* What is known of a variable.  copy is one more than the
\* slot of the context that holds a copy of the argument, or 0.
DefineVariable(type, index) ==
    [type |-> type, index |-> index % IndexRange, level |-> 0, copy |-> 0]
VarAsOperand(var) == Operand(var.type, var.index, var.level)

\* The literals are shared by the units of a method; equal ones are kept once.
AddLiteral(literals, v) ==
    IF v \in ToSet(literals) THEN literals ELSE Append(literals, v)
LiteralIndex(literals, v) ==
    ((CHOOSE i \in DOMAIN literals : literals[i] = v) - 1) % IndexRange

-----------------------------------------------------------------------------
(* Scope analysis.  The state is [scopes, literals, error]; a scope is what  *)
(* BlockScope holds.                                                         *)

CreateBlockScope(parent, vars) ==
    [parent |-> parent, vars |-> vars, argsSize |-> 0, contextSize |-> 0,
     hasContext |-> FALSE]

\* A later definition of a name replaces an earlier one, and the error left
\* is the last duplicate's: the analysis of the block stops there.
AnalyzeDefinitions(a, id, node) ==
    LET names == node.args \o node.tempVars
        n     == Len(node.args)
        duplicates == {i \in DOMAIN names :
                         names[i] \in Specials \cup {names[j] : j \in 1 .. i - 1}}
        special == [v \in Specials |->
                      CASE v = "thisContext" -> DefineVariable("THIS_CONTEXT", 0)
                        [] v = "super"       -> DefineVariable("SUPER", 1)
                        [] v = "self"        -> DefineVariable("ARG", 1)]
        own == [v \in ToSet(names) |->
                  LET i == CHOOSE i \in DOMAIN names :
                             names[i] = v /\ \A j \in DOMAIN names : names[j] = v => j <= i
                  IN  DefineVariable(IF i <= n THEN "ARG" ELSE "TEMP", i + 1)]
    IN  [a EXCEPT !.scopes[id].vars = own @@ special @@ @,
                  !.scopes[id].argsSize = n % IndexRange,
                  !.error = IF duplicates = {} THEN @
                            ELSE <<"redefinition", names[CHOOSE i \in duplicates :
                                     \A j \in duplicates : j <= i]>>]

\* The scopes from one outwards.
RECURSIVE ScopeChain(_, _)
ScopeChain(scopes, id) ==
    IF id = 0 THEN <<>> ELSE <<id>> \o ScopeChain(scopes, scopes[id].parent)

SetupAsContexts(scopes, ids) ==
    [id \in DOMAIN scopes |->
        IF id \in ids THEN [scopes[id] EXCEPT !.hasContext = TRUE] ELSE scopes[id]]

\* How a variable of an outer scope is known some levels further in.
\* Mutant: the distance at which that scope itself knows it is forgotten.
SeenFromNear(var, level) == [var EXCEPT !.level = level]
SeenFrom(var, level) == [var EXCEPT !.level = @ + level]

\* The name is a variable of an outer scope: a temporary moves into that
\* scope's context, an argument gets a copy there, and every scope up to it
\* needs a context.  Here it is then known by its distance.
AnalyzeContextVar(a, id, name) ==
    LET chain == ScopeChain(a.scopes, id)
        level == CHOOSE l \in 1 .. Len(chain) - 1 :
                    /\ name \in DOMAIN a.scopes[chain[l + 1]].vars
                    /\ \A k \in 1 .. l - 1 : name \notin DOMAIN a.scopes[chain[k + 1]].vars
        ctx   == chain[level + 1]
        var   == a.scopes[ctx].vars[name]
        slot  == IF var.type = "ARG" /\ var.copy # 0
                 THEN var.copy - 1 ELSE a.scopes[ctx].contextSize
        there == CASE var.type = "ARG"  -> [var EXCEPT !.copy = slot + 1]
                   [] var.type = "TEMP" -> [var EXCEPT !.type = "CONTEXT", !.index = slot]
                   [] OTHER -> var
        here  == IF var.type = "ARG"
                 THEN [there EXCEPT !.type = "CONTEXT", !.index = slot] ELSE there
        grows == there # var
        moved == [a EXCEPT
                    !.scopes[ctx].vars[name] = there,
                    !.scopes[ctx].contextSize = IF grows THEN (@ + 1) % IndexRange ELSE @,
                    !.scopes[id].vars = (name :> SeenFrom(here, level)) @@ @]
    IN  [moved EXCEPT !.scopes = SetupAsContexts(@, {chain[k] : k \in 1 .. level + 1})]

\* Class variables, then Smalltalk; an unknown capitalized name becomes a
\* global.
AnalyzeGlobalVar(a, id, name) ==
    IF name \in Globals \cup Capitalized
    THEN LET literals == AddLiteral(a.literals, <<"assoc", name>>)
             var == DefineVariable("ASSOC", LiteralIndex(literals, <<"assoc", name>>))
         IN  [a EXCEPT !.literals = literals, !.scopes[id].vars = (name :> var) @@ @]
    ELSE [a EXCEPT !.error = <<"undefined", name>>]

AnalyzeVar(a, id, name) ==
    LET known(s) == name \in DOMAIN a.scopes[s].vars
    IN  CASE known(id) /\ a.scopes[id].vars[name].index = CONTEXT_INDEX ->
               [a EXCEPT !.scopes[id].hasContext = TRUE]
          [] known(id) -> a
          [] ~known(id) /\ \E s \in ToSet(ScopeChain(a.scopes, id)) : known(s) ->
               AnalyzeContextVar(a, id, name)
          [] OTHER -> AnalyzeGlobalVar(a, id, name)

\* Arguments are not assigned, nor are their copies in a context.
\* Mutant: the copies are.
CopiesAssignable(vars, name) ==
    name \in DOMAIN vars /\ vars[name].type \in {"ARG", "SUPER"}
ReadOnly(vars, name) ==
    /\ name \in DOMAIN vars
    /\ vars[name].type \in {"ARG", "SUPER"} \/ vars[name].copy # 0

RefuseReadOnly(a, id, name) ==
    IF ReadOnly(a.scopes[id].vars, name) THEN [a EXCEPT !.error = <<"readonly", name>>] ELSE a

AnalyzeAssigment(a, id, name) ==
    IF name \in PseudoLiterals THEN [a EXCEPT !.error = <<"readonly", name>>]
    ELSE RefuseReadOnly(AnalyzeVar(a, id, name), id, name)

\* A loop that returns at the first error.
UntilError(Op(_, _), a, seq) ==
    FoldLeft(LAMBDA b, x : IF b.error # NoError THEN b ELSE Op(b, x), a, seq)

RECURSIVE AnalyzeBlock(_, _, _), AnalyzeExpression(_, _, _), AnalyzeLiteral(_, _, _)

AnalyzeBlock(a, id, node) ==
    UntilError(LAMBDA b, e : AnalyzeExpression(b, id, e), AnalyzeDefinitions(a, id, node),
               node.expressions)

\* An error among the assigned variables does not keep the receiver from
\* being analyzed.
AnalyzeExpression(a, id, node) ==
    LET assigned == UntilError(LAMBDA b, name : AnalyzeAssigment(b, id, name), a, node.assigments)
        args     == FlattenSeq([i \in DOMAIN node.messages |-> node.messages[i].args])
    IN  UntilError(LAMBDA b, arg : AnalyzeLiteral(b, id, arg),
                   AnalyzeLiteral(assigned, id, node.receiver), args)

\* A block's scope starts without an error, and its error, or its lack of
\* one, replaces that of the scope around it.
AnalyzeLiteral(a, id, node) ==
    CASE node.node = "Variable"   -> AnalyzeVar(a, id, node.name)
      [] node.node = "Expression" -> AnalyzeExpression(a, id, node)
      [] node.node = "Block" ->
           AnalyzeBlock([a EXCEPT !.scopes = (node.id :> CreateBlockScope(id, <<>>)) @@ @,
                                  !.error = NoError], node.id, node)
      [] OTHER -> a

AnalyzeMethod(body) ==
    LET instVars == [v \in ToSet(InstVars) |->
                       DefineVariable("INST", (CHOOSE i \in DOMAIN InstVars : InstVars[i] = v) - 1)]
    IN  AnalyzeBlock([scopes |-> body.id :> CreateBlockScope(0, instVars),
                      literals |-> <<>>, error |-> NoError], body.id, body)

-----------------------------------------------------------------------------
(* Byte code.  The state while a unit is compiled is [code, temps, literals, *)
(* units, vars, contextSize]; units holds the blocks compiled so far.        *)

Emit(c, bytecode) == [c EXCEPT !.code = Append(@, bytecode)]

\* The operand of a name the analysis left undefined is whatever the bytes of
\* the pointer to nil say.
FindVar(c, name) ==
    IF name \in DOMAIN c.vars THEN VarAsOperand(c.vars[name]) ELSE Operand("GARBAGE", 0, 0)

\* The temporaries that stayed out of the context are numbered anew, in the
\* order the dictionary is walked, and captured arguments are copied.
ProcessVariables(scope, order) ==
    LET temps  == SelectSeq(order, LAMBDA v : v \in DOMAIN scope.vars
                                              /\ scope.vars[v].type = "TEMP")
        copied == SelectSeq(order, LAMBDA v : v \in DOMAIN scope.vars
                                              /\ scope.vars[v].type = "ARG"
                                              /\ scope.vars[v].copy # 0)
    IN  [vars |-> [v \in DOMAIN scope.vars |->
                     IF v \in ToSet(temps)
                     THEN [scope.vars[v] EXCEPT !.index = (scope.argsSize + 1
                             + CHOOSE i \in DOMAIN temps : temps[i] = v) % IndexRange]
                     ELSE scope.vars[v]],
         temps |-> (scope.argsSize + 2 + Len(temps)) % IndexRange,
         code |-> [i \in DOMAIN copied |->
                     LET var == scope.vars[copied[i]]
                     IN  Copy(VarAsOperand(var), Operand("CONTEXT", var.copy - 1, 0))]]

CompareOperands(a, b) ==
    a.type \in {"TEMP", "CONTEXT"} /\ a.type = b.type /\ a.index = b.index

CompileAssigments(c, assigments, source) ==
    FoldLeft(LAMBDA d, name : IF CompareOperands(source, FindVar(d, name)) THEN d
                              ELSE Emit(d, Copy(source, FindVar(d, name))),
             c, assigments)

\* Where the result of the last message goes: the first assigned variable
\* that is a temporary or in a context, else a new temporary.
ResultOperand(c, assigments) ==
    LET fit == SelectSeq(assigments,
                         LAMBDA name : FindVar(c, name).type \in {"TEMP", "CONTEXT"})
    IN  IF fit # <<>> THEN FindVar(c, fit[1]) ELSE Operand("TEMP", c.temps, 0)

\* Mutant: the new temporary is not reserved.
KeepTemps(c, operand) == c
ReserveTemp(c, operand) ==
    IF operand.type = "TEMP" /\ operand.index = c.temps
    THEN [c EXCEPT !.temps = (@ + 1) % IndexRange] ELSE c

RECURSIVE CompileLiteral(_, _, _), CompileExpression(_, _, _, _), CompileBody(_, _, _, _, _, _)

\* The operands of a sequence of nodes, compiled one after the other.
AddOperand(operands, x) == [c |-> x.c, operands |-> Append(operands, x.operand)]
CompileAll(c, order, nodes) ==
    FoldLeft(LAMBDA r, n : AddOperand(r.operands, CompileLiteral(r.c, order, n)),
             [c |-> c, operands |-> <<>>], nodes)

EmitSend(args, receiver, selector, store) ==
    LET literals == AddLiteral(args.c.literals, Symbol(selector))
    IN  Emit([args.c EXCEPT !.literals = literals],
             Send(LiteralIndex(literals, Symbol(selector)), receiver, args.operands, store))
CompileMessage(c, order, receiver, message, store) ==
    EmitSend(CompileAll(c, order, message.args), receiver, message.selector, store)

\* The messages to a receiver, and what is done with the value of the last.
CompileMessages(start, order, node, result) ==
    LET n     == Len(node.messages)
        value == IF n > 0 THEN result ELSE start.operand
        sent  == FoldLeftDomain(
                   LAMBDA c, i : CompileMessage(c, order, start.operand, node.messages[i],
                                                IF i = n THEN result ELSE NoOperand),
                   start.c, node.messages)
    IN  [c |-> CompileAssigments(sent, node.assigments, value), operand |-> value]

\* Returns the state and the operand that holds the value (NoOperand when no
\* one asked for it).
CompileExpression(c, order, node, store) ==
    LET wanted == store \/ node.assigments # <<>>
        result == IF wanted THEN ResultOperand(c, node.assigments) ELSE NoOperand
        ready  == IF node.messages # <<>> /\ wanted THEN ReserveTemp(c, result) ELSE c
    IN  CompileMessages(CompileLiteral(ready, order, node.receiver), order, node, result)

\* An operand that names a literal, added to the literals if need be.
LiteralOperand(c, type, v) ==
    LET literals == AddLiteral(c.literals, v)
    IN  [c |-> [c EXCEPT !.literals = literals],
         operand |-> Operand(type, LiteralIndex(literals, v), 0)]

BlockOperand(c, id, body) ==
    LiteralOperand([c EXCEPT !.literals = body.literals, !.units = body.units],
                   "BLOCK", <<"block", id>>)
CompileBlock(c, order, node) ==
    BlockOperand(c, node.id, CompileBody(c.scopes, c.literals, c.units, order, node, TRUE))

\* Integers, characters, nil, true and false stand in the operand itself.
CompileLiteral(c, order, node) ==
    CASE node.node = "Variable"   -> [c |-> c, operand |-> FindVar(c, node.name)]
      [] node.node = "Expression" -> CompileExpression(c, order, node, TRUE)
      [] node.node = "Block"      -> CompileBlock(c, order, node)
      [] node.node = "Literal" /\ node.value[1] = "symbol" ->
           LiteralOperand(c, "LITERAL", node.value)
      [] OTHER -> [c |-> c, operand |-> Operand("VALUE", node.value, 0)]

\* A block returns its last value; a method answers itself when its code ends.
Returning(node, isBlock) ==
    {i \in DOMAIN node.expressions :
        node.expressions[i].returns \/ (isBlock /\ i = Len(node.expressions))}

EmitReturn(x, isOuter) == Emit(x.c, Return(x.operand, isOuter))
CompileStatement(c, order, node, isBlock, i) ==
    IF i \in Returning(node, isBlock)
    THEN EmitReturn(CompileExpression(c, order, node.expressions[i], TRUE),
                    isBlock /\ node.expressions[i].returns)
    ELSE CompileExpression(c, order, node.expressions[i], FALSE).c

EmptyReturn(c, node, isBlock) ==
    IF isBlock /\ node.expressions = <<>>
    THEN Emit(c, Return(Operand("VALUE", Nil, 0), FALSE)) ELSE c

\* Of the returns, the last one says whether the block returns from its method.
CompiledBody(c, scope, node, isBlock) ==
    LET returning == Returning(node, isBlock)
        unit == [code |-> c.code, argsSize |-> scope.argsSize,
                 tempsSize |-> c.temps - scope.argsSize - 2,
                 contextSize |-> scope.contextSize, hasContext |-> scope.hasContext,
                 outerReturns |-> \E i \in returning :
                    /\ isBlock /\ node.expressions[i].returns
                    /\ \A j \in returning : j <= i]
    IN  [literals |-> c.literals, units |-> (node.id :> unit) @@ c.units]

CompileBody(scopes, literals, units, order, node, isBlock) ==
    LET vars  == ProcessVariables(scopes[node.id], order)
        start == [code |-> vars.code, temps |-> vars.temps, literals |-> literals,
                  units |-> units, vars |-> vars.vars, scopes |-> scopes]
        body  == FoldLeftDomain(LAMBDA c, i : CompileStatement(c, order, node, isBlock, i),
                                start, node.expressions)
    IN  CompiledBody(EmptyReturn(body, node, isBlock), scopes[node.id], node, isBlock)

\* A block that returns from its method needs the method's context.
SetupMethodToBlocks(id, units) ==
    IF \E b \in DOMAIN units : units[b].outerReturns
    THEN [units EXCEPT ![id].hasContext = TRUE] ELSE units

\* What compileMethod answers: an error, or the literals and the units.
CompiledMethod(id, compiled) ==
    [error |-> NoError, literals |-> compiled.literals,
     units |-> SetupMethodToBlocks(id, compiled.units)]
CompileAnalyzed(body, order, analysis) ==
    IF analysis.error # NoError
    THEN [error |-> analysis.error, literals |-> <<>>, units |-> <<>>]
    ELSE CompiledMethod(body.id, CompileBody(analysis.scopes, analysis.literals, <<>>, order,
                                             body, FALSE))
CompileMethod(body, order) == CompileAnalyzed(body, order, AnalyzeMethod(body))
=============================================================================
