------------------------------ MODULE ByteCode ------------------------------
(* What byte code does when the code the machine generates for it runs: the  *)
(* contexts methods and blocks get, the distance at which a context variable *)
(* is found, the blocks an operand makes, and where a return goes.  A unit   *)
(* is a record the compiler made.  Operands are read when the byte code runs,*)
(* the receiver first and the arguments after it.                            *)
EXTENDS SourceSemantics

\* The result of running code is [s, v, exit]; exit is 0, or the number of the
\* context an outer return goes to.  frames holds the contexts, DUMMY standing
\* for the thread's own one.
DUMMY == -1
Junk  == <<"junk">>

\* A method's own context is made before its first byte code (when it has
\* one), a block's by the primitive that evaluates it.
AllocateContext(s, id, unit, outer, home) ==
    LET n == Len(s.frames) + 1
    IN  [s EXCEPT !.frames = Append(@, [vars |-> [i \in 0 .. unit.contextSize - 1 |-> Nil],
           outer |-> outer, home |-> IF home = 0 THEN n ELSE home, block |-> id])]

\* The context some steps out from another.
RECURSIVE OuterContext(_, _, _)
OuterContext(s, ctx, level) ==
    IF level = 0 \/ ctx = DUMMY THEN ctx ELSE OuterContext(s, s.frames[ctx].outer, level - 1)

HasSlot(s, ctx, i) == ctx # DUMMY /\ i \in DOMAIN s.frames[ctx].vars

\* The operand of an activation [temps, args, ctx].
OperandValue(p, s, act, o) ==
    CASE o.type = "VALUE" -> o.index
      [] o.type \in {"SUPER"} -> Self
      [] o.type = "ARG" -> IF o.index = 1 THEN Self ELSE act.args[o.index - 1]
      [] o.type = "TEMP" -> IF o.index \in DOMAIN act.temps THEN act.temps[o.index] ELSE Nil
      [] o.type = "INST" -> Fetched(s, p.instVars[o.index + 1])
      [] o.type = "ASSOC" -> Fetched(s, p.literals[o.index + 1][2])
      [] o.type = "LITERAL" -> p.literals[o.index + 1]
      [] o.type = "CONTEXT" ->
           LET ctx == OuterContext(s, act.ctx, o.level)
           IN  IF HasSlot(s, ctx, o.index) THEN s.frames[ctx].vars[o.index] ELSE Junk
      [] o.type = "THIS_CONTEXT" ->
           IF act.ctx = DUMMY THEN Junk ELSE <<"context", s.frames[act.ctx].block>>
      [] o.type = "BLOCK" -> <<"block", p.literals[o.index + 1][2], act.ctx>>
      [] OTHER -> Junk

StoreOperand(p, s, act, o, v) ==
    LET ctx == OuterContext(s, act.ctx, o.level)
    IN  CASE o.type = "TEMP"  -> [s |-> s, act |-> [act EXCEPT !.temps = (o.index :> v) @@ @]]
          [] o.type = "INST"  -> [s |-> Stored(s, p.instVars[o.index + 1], v), act |-> act]
          [] o.type = "ASSOC" -> [s |-> Stored(s, p.literals[o.index + 1][2], v), act |-> act]
          [] o.type = "CONTEXT" /\ HasSlot(s, ctx, o.index) ->
               [s |-> [s EXCEPT !.frames[ctx].vars[o.index] = v], act |-> act]
          [] OTHER -> [s |-> [s EXCEPT !.junk = TRUE], act |-> act]

RECURSIVE Run(_, _, _, _, _)

\* A block's context has the context it was made in around it, and the same
\* home; a method without a context has made no home for it.
EnterBlock(p, s, id, args, maker) ==
    LET home == IF maker = DUMMY THEN DUMMY ELSE s.frames[maker].home
    IN  Run(p, AllocateContext(s, id, p.units[id], maker, home),
            [temps |-> <<>>, args |-> args, ctx |-> Len(s.frames) + 1], p.units[id].code, 1)

RunSend(p, s, act, b) ==
    LET operands == <<OperandValue(p, s, act, b.receiver)>>
                      \o [i \in DOMAIN b.args |-> OperandValue(p, s, act, b.args[i])]
        selector == p.literals[b.selector + 1][2]
        sent == Sent(s, selector, operands, b.receiver.type = "SUPER")
        r    == operands[1]
    IN  IF r[1] = "block" /\ IsBlockValue(selector, operands, p.units[r[2]].argsSize)
        THEN EnterBlock(p, sent, r[2], Tail(operands), r[3])
        ELSE [s |-> sent, v |-> Answer(sent), exit |-> 0]

Resume(p, r, code, pc) == Run(p, r.s, r.act, code, pc)
StoreAnswer(p, r, act, store) ==
    IF store.type = "NONE" THEN [s |-> r.s, act |-> act] ELSE StoreOperand(p, r.s, act, store, r.v)
AfterSend(p, r, act, code, pc) ==
    IF r.exit # 0 THEN r ELSE Resume(p, StoreAnswer(p, r, act, code[pc].store), code, pc + 1)

Run(p, s, act, code, pc) ==
    IF pc > Len(code) THEN [s |-> s, v |-> Self, exit |-> 0]
    ELSE LET b == code[pc]
         IN CASE b.op = "COPY" ->
                   Resume(p, StoreOperand(p, s, act, b.to, OperandValue(p, s, act, b.from)),
                          code, pc + 1)
              [] b.op = "RETURN" -> [s |-> s, v |-> OperandValue(p, s, act, b.value), exit |-> 0]
              [] b.op = "OUTER_RETURN" ->
                   [s |-> s, v |-> OperandValue(p, s, act, b.value),
                    exit |-> IF act.ctx = DUMMY THEN DUMMY ELSE s.frames[act.ctx].home]
              [] b.op = "SEND" -> AfterSend(p, RunSend(p, s, act, b), act, code, pc)

\* An outer return ends the method when it names the method's own context.
Ended(r, ctx) ==
    Outcome([s |-> [r.s EXCEPT !.junk = @ \/ r.exit \notin {0, ctx} \/ r.exit = DUMMY],
             v |-> r.v])
RunMethod(p, id, args) ==
    LET unit  == p.units[id]
        start == IF unit.hasContext THEN AllocateContext(Fresh, id, unit, DUMMY, 0) ELSE Fresh
        ctx   == IF unit.hasContext THEN 1 ELSE DUMMY
    IN  Ended(Run(p, start, [temps |-> <<>>, args |-> args, ctx |-> ctx], unit.code, 1), ctx)
=============================================================================
