--------------------------- MODULE CodeGenerator ----------------------------
(* The machine code of a unit (CodeGeneratorX64.c) on the registers of       *)
(* LinearScan.  The generator goes through the byte code once and keeps      *)
(* flags for what each variable's register and frame slot hold when the code *)
(* it generates runs; the code has no jumps, so here each byte code is       *)
(* generated and run in one step.  A send and the allocation of a block run  *)
(* other code and may collect garbage: no register keeps its value, nor does *)
(* a frame slot the stack map leaves out.  Moves of values in RAX and TMP    *)
(* are left out.                                                             *)
EXTENDS LinearScan, Bytecodes, SequencesExt, FiniteSets, TLC

CONSTANTS Units,     \* [code, argsSize, tempsSize, hasContext, isBlock]
          RegFiles   \* sequences of available registers (X64AvailableRegs)

Nil   == <<"nil">>
Junk  == <<"junk">>
Running == <<"running">>

\* The allocator's variables.
Tmp(i)     == <<"TMP", i>>
Class(i)   == <<"CLASS", i>>
Context(l) == <<"CONTEXT", l>>
Assoc(i)   == <<"ASSOC", i>>
SelfVar    == Tmp(1)

\* Objects whose fields the code reads and writes.
ContextOut(l) == <<"context", l>>
Association(i) == <<"assoc", i>>

\* What units are made of (CodeWellFormed of Compilation): a variable is one of
\* the unit's own, self is not assigned to, no temporary is copied to itself, and
\* a unit whose code names contexts has one.  Nor is a value known when the code
\* is generated one of the model's.
IsSequence(s) == s \in Seq(ToSet(s))
HasContext(u) == u.hasContext \/ u.isBlock
SourceOf(u, o) ==
    CASE o.type = "TEMP"    -> o.index \in u.argsSize + 2 .. u.argsSize + 1 + u.tempsSize
      [] o.type = "ARG"     -> o.index \in 1 .. u.argsSize + 1
      [] o.type = "CONTEXT" -> HasContext(u) /\ o.level \in Nat
      [] o.type = "THIS_CONTEXT" -> HasContext(u)
      [] o.type = "VALUE"   -> o.index # Junk
      [] OTHER -> o.type \in {"SUPER", "INST", "ASSOC", "BLOCK", "LITERAL"}
TargetOf(u, o) == o.type \in {"TEMP", "CONTEXT", "INST", "ASSOC"} /\ SourceOf(u, o)
BytecodeOf(u, b) ==
    CASE b.op = "COPY" -> /\ SourceOf(u, b.from) /\ TargetOf(u, b.to)
                          /\ ~(b.from.type = "TEMP" /\ b.to.type = "TEMP"
                               /\ b.from.index = b.to.index)
      [] b.op = "SEND" -> /\ IsSequence(b.args)
                          /\ \A o \in ToSet(b.args) \cup {b.receiver} : SourceOf(u, o)
                          /\ b.store.type = "NONE" \/ TargetOf(u, b.store)
      [] b.op = "RETURN" -> SourceOf(u, b.value)
      [] b.op = "OUTER_RETURN" -> SourceOf(u, b.value) /\ HasContext(u)
      [] OTHER -> FALSE
ASSUME UnitsAssumption ==
    \A u \in Units :
        /\ u.argsSize \in Nat /\ u.tempsSize \in Nat
        /\ IsSequence(u.code)
        /\ \A b \in ToSet(u.code) : BytecodeOf(u, b)
ASSUME PinnedAssumption == Pinned = Context(0) /\ PinnedReg # Spilled
\* X64AvailableRegs lists each register once, and the one for the first context
\* is not among them.
ASSUME RegFilesAssumption ==
    \A f \in RegFiles :
        /\ IsSequence(f)
        /\ \A i, j \in DOMAIN f : f[i] = f[j] => i = j
        /\ {Spilled, PinnedReg} \cap ToSet(f) = {}

VARIABLES
    unit, pc,
    machine,  \* the code generator's flags and the machine, see StartMachine
    values    \* what the variables mean, see Activation; no step depends on it

vars == <<scanVars, unit, pc, machine, values>>

-----------------------------------------------------------------------------
(* scanCode: the uses of variables in the order they are met, [var, at].     *)

UsedBy(o) ==
    CASE o.type \in {"TEMP", "ARG"} -> <<Tmp(o.index)>>
      [] o.type \in {"SUPER", "INST"} -> <<SelfVar>>
      [] o.type = "CONTEXT" -> <<Context(o.level)>>
      [] o.type = "ASSOC" -> <<Assoc(o.index)>>
      [] o.type = "BLOCK" -> <<SelfVar, Context(0)>>
      [] OTHER -> <<>>
ClassUsedBy(o) == IF o.type \in {"TEMP", "ARG"} THEN <<Class(o.index)>> ELSE <<>>

Uses(b, n) ==
    LET at(used, k) == [i \in DOMAIN used |-> [var |-> used[i], at |-> k]]
        args == [i \in DOMAIN b.args |-> UsedBy(b.args[Len(b.args) + 1 - i])]
    IN  CASE b.op = "COPY" -> at(UsedBy(b.from) \o UsedBy(b.to), n)
          [] b.op = "SEND" -> at(ClassUsedBy(b.receiver) \o UsedBy(b.receiver)
                                   \o FlattenSeq(args), n) \o at(UsedBy(b.store), n + 1)
          [] OTHER -> at(UsedBy(b.value), n)

Returns(code) == \E i \in DOMAIN code : code[i].op \in {"RETURN", "OUTER_RETURN"}

\* The arguments, from the last to the receiver, and the context come first.
\* (The context's own interval tells nothing: it has a register of its own and
\* is in every stack map.)
AllUses(u) ==
    LET n == Len(u.code)
    IN  [i \in 1 .. u.argsSize + 1 |-> [var |-> Tmp(u.argsSize + 2 - i), at |-> 0]]
        \o <<[var |-> Context(0), at |-> 0]>>
        \o FlattenSeq([i \in 1 .. n |-> Uses(u.code[i], i - 1)])
        \o (IF Returns(u.code) THEN <<>>
            ELSE <<[var |-> SelfVar, at |-> IF n = 0 THEN 0 ELSE n - 1]>>)

\* The variables used, in the order of their first uses (Vars.order).
OrderOf(uses) ==
    LET defined[i \in 0 .. Len(uses)] ==
            IF i = 0 THEN <<>>
            ELSE LET before == defined[i - 1]
                 IN  IF uses[i].var \in ToSet(before) THEN before
                     ELSE Append(before, uses[i].var)
    IN  defined[Len(uses)]
Interval(uses, v) ==
    LET of == {i \in DOMAIN uses : uses[i].var = v}
    IN  [start |-> uses[CHOOSE i \in of : \A j \in of : i <= j].at,
         end   |-> uses[CHOOSE i \in of : \A j \in of : j <= i].at]

OperandsOf(b) ==
    CASE b.op = "COPY" -> <<b.from, b.to>>
      [] b.op = "SEND" -> <<b.receiver, b.store>> \o b.args
      [] OTHER -> <<b.value>>
FrameLessCode(code) ==
    \A b \in ToSet(code) :
        /\ b.op \notin {"SEND", "OUTER_RETURN"}
        /\ \A o \in ToSet(OperandsOf(b)) : o.type \notin {"CONTEXT", "BLOCK"}

Idle == [started |-> FALSE, memory |-> <<>>, sent |-> <<>>, result |-> Running]

A == INSTANCE Activation WITH
         memory <- machine.memory, sent <- machine.sent, result <- machine.result

Init ==
    /\ unit \in Units
    /\ pool \in RegFiles
    /\ \E uses \in {AllUses(unit)} :
         /\ order = OrderOf(uses)
         /\ interval = [v \in {uses[i].var : i \in DOMAIN uses} |-> Interval(uses, v)]
    /\ ScanInit
    /\ pc = 1
    /\ machine = Idle
    /\ values = A!VariablesOf(unit)

-----------------------------------------------------------------------------
(* The flags and the machine.  failed is set where an assertion fails or the *)
(* generated code is meaningless: the register of a spilled variable, or a   *)
(* frame slot of code that makes no frame, which is its caller's.            *)

FrameLess == FrameLessCode(unit.code)
Arguments == {Tmp(i) : i \in 1 .. unit.argsSize + 1}
HasSlot(v) == v \notin Arguments /\ v[1] # "ASSOC"

\* generateCode up to the body.  A method without a context keeps the thread's
\* own one in its frame, and its caller's in the register.
StartMachine ==
    LET known == unit.isBlock \/ unit.hasContext
        regs  == {reg[v] : v \in DOMAIN reg} \ {Spilled}
    IN  [started |-> TRUE,
         inReg   |-> IF FrameLess /\ ~unit.isBlock THEN {} ELSE {Context(0)},
         onStack |-> Arguments \cup (IF FrameLess THEN {} ELSE {Context(0)}),
         regs    |-> [r \in regs |-> IF r = PinnedReg /\ known THEN ContextOut(0) ELSE Junk],
         frame   |-> [v \in DOMAIN reg |-> CASE v \in Arguments -> <<"arg", v[2]>>
                                             [] v = Context(0) /\ ~FrameLess -> ContextOut(0)
                                             [] OTHER -> Junk],
         memory |-> <<>>, sent |-> <<>>, shown |-> {}, result |-> Running, failed |-> FALSE]

Check(m, condition) == IF condition THEN m ELSE [m EXCEPT !.failed = TRUE]

RegValue(m, v) == IF reg[v] = Spilled THEN Junk ELSE m.regs[reg[v]]
IntoReg(m, v, x) ==
    IF reg[v] = Spilled THEN [m EXCEPT !.failed = TRUE]
    ELSE [m EXCEPT !.regs[reg[v]] = x, !.inReg = @ \cup {v}]
IntoFrame(m, v, x) ==
    IF FrameLess THEN [m EXCEPT !.failed = TRUE]
    ELSE [m EXCEPT !.frame[v] = x, !.onStack = @ \cup {v}]

FillVar(m, v) ==
    IF v \in m.inReg THEN m ELSE IntoReg(Check(m, v \in m.onStack), v, m.frame[v])
SpillVar(m, v) == IntoFrame(m, v, RegValue(m, v))

\* A context further out is reached from the first one, and then kept.
FillContext(m, level) ==
    IF Context(level) \in m.inReg \cup m.onStack THEN FillVar(m, Context(level))
    ELSE LET from  == FillVar(m, Context(0))
             start == RegValue(from, Context(0))
             outer == IF start[1] = "context" THEN ContextOut(start[2] + level) ELSE Junk
         IN  SpillVar(IntoReg(from, Context(level), outer), Context(level))

FillAssoc(m, index) ==
    IF Assoc(index) \in m.inReg THEN m ELSE IntoReg(m, Assoc(index), Association(index))

ReadField(m, object, field) ==
    IF <<object, field>> \in DOMAIN m.memory THEN m.memory[<<object, field>>]
    ELSE <<"field", object, field, Len(m.sent)>>
WriteField(m, object, field, x) ==
    [m EXCEPT !.memory = [f \in DOMAIN @ \cup {<<object, field>>} |->
                             IF f = <<object, field>> THEN x ELSE @[f]]]

\* generateStackmap, for byte code n, and what is left after a collection.
\* Mutant: a slot is shown whether it was written or not.
InStackmapUnwritten(m, v, n) ==
    v = Context(0) \/ (HasSlot(v) /\ n \in interval[v].start .. interval[v].end)
InStackmap(m, v, n) ==
    \/ v = Context(0)
    \/ HasSlot(v) /\ v \in m.onStack /\ n \in interval[v].start .. interval[v].end

Collect(m, n) ==
    LET shown == {v \in DOMAIN reg : InStackmap(m, v, n)}
    IN  [m EXCEPT !.shown = {m.frame[v] : v \in shown}, !.inReg = {},
                  !.regs = [r \in DOMAIN m.regs |-> Junk],
                  !.frame = [v \in DOMAIN reg |->
                               IF v \in shown \cup Arguments THEN m.frame[v] ELSE Junk]]

\* [m, x]: what is left and the value, in whatever register it was wanted.
Loaded(m, x) == [m |-> m, x |-> x]

LoadBlock(m, index, n) ==
    LET c == FillVar(FillVar(Collect(m, n), Context(0)), SelfVar)
    IN  Loaded(c, <<"block", index, RegValue(c, SelfVar), RegValue(c, Context(0))>>)

LoadField(m, v, field) == Loaded(m, ReadField(m, RegValue(m, v), field))

\* Mutant: a variable no one wrote to is loaded like any other.
MovVarWritten(m, v) == LET f == FillVar(m, v) IN Loaded(f, RegValue(f, v))
\* A variable no one wrote to is nil.
MovVar(m, v) ==
    CASE reg[v] = Spilled /\ v \in m.onStack -> Loaded(m, m.frame[v])
      [] ~(reg[v] = Spilled /\ v \in m.onStack) /\ v \in m.inReg \cup m.onStack ->
           LET f == FillVar(m, v) IN Loaded(f, RegValue(f, v))
      [] OTHER -> Loaded(m, Nil)

MovOperand(m, o, n) ==
    CASE o.type = "THIS_CONTEXT" -> MovVar(m, Context(0))
      [] o.type \in {"TEMP", "ARG"} -> MovVar(m, Tmp(o.index))
      [] o.type = "SUPER"   -> MovVar(m, SelfVar)
      [] o.type = "CONTEXT" -> LoadField(FillContext(m, o.level), Context(o.level), o.index)
      [] o.type = "INST"    -> LoadField(FillVar(m, SelfVar), SelfVar, o.index)
      [] o.type = "ASSOC"   ->
           IF reg[Assoc(o.index)] = Spilled
           THEN Loaded(m, ReadField(m, Association(o.index), 0))
           ELSE LoadField(FillAssoc(m, o.index), Assoc(o.index), 0)
      [] o.type = "BLOCK"   -> LoadBlock(m, o.index, n)
      [] o.type = "LITERAL" -> Loaded(m, <<"literal", o.index>>)
      [] OTHER -> Loaded(m, o.index)

\* pushOperand differs in what it leaves in the registers.
PushVar(m, v) ==
    CASE v \in m.inReg -> Loaded(m, RegValue(m, v))
      [] v \in m.onStack \ m.inReg -> Loaded(m, m.frame[v])
      [] v \notin m.onStack \cup m.inReg ->
           Loaded(IF reg[v] = Spilled THEN m ELSE IntoReg(m, v, Nil), Nil)
Filled(m, v) == LET f == FillVar(m, v) IN Loaded(f, RegValue(f, v))

PushOperand(m, o, n) ==
    CASE o.type \in {"TEMP", "ARG"} -> PushVar(m, Tmp(o.index))
      [] o.type = "THIS_CONTEXT" -> Filled(m, Context(0))
      [] o.type = "SUPER"   -> Filled(m, SelfVar)
      [] o.type = "ASSOC"   -> Loaded(m, ReadField(m, Association(o.index), 0))
      [] OTHER -> MovOperand(m, o, n)

\* Mutant: the class that was found for the old value is kept.
KeepClass(m, i) == m
\* movToVar forgets the class that was found for the old value.
ForgetClass(m, i) ==
    [m EXCEPT !.inReg = @ \ {Class(i)}, !.onStack = @ \ {Class(i)}]

MovToVar(m, v, x) ==
    ForgetClass(IF reg[v] = Spilled THEN IntoFrame(m, v, x)
                ELSE SpillVar(IntoReg(m, v, x), v), v[2])

MovToField(m, v, field, x) == WriteField(m, RegValue(m, v), field, x)
MovToOperand(m, o, x) ==
    CASE o.type = "TEMP"    -> MovToVar(m, Tmp(o.index), x)
      [] o.type = "CONTEXT" -> MovToField(FillContext(m, o.level), Context(o.level), o.index, x)
      [] o.type = "INST"    -> MovToField(FillVar(m, SelfVar), SelfVar, o.index, x)
      [] o.type = "ASSOC"   -> MovToField(FillAssoc(m, o.index), Assoc(o.index), 0, x)
      [] o.type = "NONE"    -> m
      [] OTHER -> Check(m, FALSE)

-----------------------------------------------------------------------------
(* Byte codes.                                                               *)

\* A copy from anything but a variable goes straight to the variable's place
\* (and keeps its class: see KeepsClass).
GenerateCopy(m, from, to, n) ==
    LET var  == IF from.type \in {"TEMP", "ARG"} THEN Tmp(from.index) ELSE SelfVar
        dest == Tmp(to.index)
        r    == MovOperand(m, from, n)
        f    == IF var \in m.inReg \cup m.onStack THEN FillVar(m, var) ELSE IntoReg(m, var, Nil)
    IN  CASE from.type \in {"TEMP", "ARG"} ->
               MovToOperand(Check(f, to.type = "TEMP" => reg[dest] = Spilled \/ reg[dest] # reg[var]), to, RegValue(f, var))
          [] from.type \notin {"TEMP", "ARG"} /\ to.type = "TEMP" ->
               IF reg[dest] = Spilled THEN IntoFrame(r.m, dest, r.x)
               ELSE SpillVar(IntoReg(r.m, dest, r.x), dest)
          [] OTHER -> MovToOperand(r.m, to, r.x)

ClassOf(x) == <<"class", x>>

\* The class of a variable's value is found once and kept in a variable.
FindClass(m, o, x) ==
    LET c == Class(o.index)
    IN  CASE o.type \notin {"TEMP", "ARG"} -> Loaded(m, ClassOf(x))
          [] o.type \in {"TEMP", "ARG"} /\ reg[c] = Spilled ->
               IF c \in m.onStack THEN Loaded(m, m.frame[c])
               ELSE Loaded([m EXCEPT !.frame[c] = ClassOf(x)], ClassOf(x))
          [] o.type \in {"TEMP", "ARG"} /\ reg[c] # Spilled ->
               IF c \in m.inReg \cup m.onStack THEN Filled(m, c)
               ELSE Loaded(SpillVar(IntoReg(m, c, ClassOf(x)), c), ClassOf(x))

\* compiledCodeResolveOperandClass knows the class of any other operand.
Resolved(o) == o.type \notin {"TEMP", "ARG", "CONTEXT", "INST", "ASSOC"}

\* Arguments are pushed from the last to the first, the receiver after them.
Pushed(m, args, n) ==
    LET after[i \in 0 .. Len(args)] ==
            IF i = 0 THEN [m |-> m, xs |-> <<>>]
            ELSE LET before == after[i - 1]
                     p == PushOperand(before.m, args[Len(args) + 1 - i], n)
                 IN  [m |-> p.m, xs |-> <<p.x>> \o before.xs]
    IN  after[Len(args)]

GenerateSend(m, b, n) ==
    LET pushed == Pushed(m, b.args, n)
        r      == MovOperand(pushed.m, b.receiver, n)
        found  == IF Resolved(b.receiver) THEN Loaded(r.m, <<"known">>)
                  ELSE FindClass(r.m, b.receiver, r.x)
        called == [Collect(found.m, n) EXCEPT
                     !.memory = <<>>,
                     !.sent = Append(@, [selector |-> b.selector, receiver |-> r.x,
                                         args |-> pushed.xs, class |-> found.x])]
    IN  MovToOperand(called, b.store, <<"answer", Len(called.sent)>>)

\* The caller's context, or the home context, is found through the context.
RestoresContext == ~FrameLess /\ HasContext(unit)
AnswerWith(m, op, x) ==
    LET found == op = "OUTER_RETURN" \/ RestoresContext
        c     == IF found THEN FillVar(m, Context(0)) ELSE m
    IN  [c EXCEPT !.result = <<op, x, IF found THEN RegValue(c, Context(0)) ELSE ContextOut(0)>>]
GenerateReturn(m, b, n) == LET r == MovOperand(m, b.value, n) IN AnswerWith(r.m, b.op, r.x)

-----------------------------------------------------------------------------
(* Units whose code is known to be wrong (README, section 4).                *)

Writes(b, i) ==
    \/ b.op = "COPY" /\ b.to.type = "TEMP" /\ b.to.index = i
    \/ b.op = "SEND" /\ b.store.type = "TEMP" /\ b.store.index = i

\* A temporary is sent a message, then copied to from no variable, then sent
\* another message: the second is looked up in the class of the old value.
KeepsClass(code) ==
    \E i, j \in DOMAIN code :
        /\ i < j
        /\ code[i].op = "SEND" /\ code[j].op = "SEND"
        /\ code[i].receiver.type = "TEMP" /\ code[j].receiver.type = "TEMP"
        /\ code[i].receiver.index = code[j].receiver.index
        /\ LET writes == {k \in i .. j - 1 : Writes(code[k], code[i].receiver.index)}
           IN  /\ writes # {}
               /\ \A k \in writes : code[k].op = "COPY" /\ code[k].from.type \notin {"TEMP", "ARG"}

\* Code without a frame writes temporaries to its caller's, and thinks the
\* context of a method was never written.
WritesCallersFrame(u) ==
    /\ FrameLessCode(u.code)
    /\ \E b \in ToSet(u.code) :
          \/ b.op = "COPY" /\ b.to.type = "TEMP"
          \/ ~u.isBlock /\ \E o \in ToSet(OperandsOf(b)) : o.type = "THIS_CONTEXT"

\* A spilled variable is the source of a copy, the self, context or
\* association a field is in, or what a block captures.
UsesSpilled(code) ==
    \E b \in ToSet(code) : \E o \in ToSet(OperandsOf(b)) :
        \/ b.op = "COPY" /\ o = b.from /\ o.type \in {"TEMP", "ARG"} /\ reg[Tmp(o.index)] = Spilled
        \/ o.type \in {"INST", "BLOCK", "SUPER"} /\ reg[SelfVar] = Spilled
        \/ o.type = "CONTEXT" /\ reg[Context(o.level)] = Spilled
        \/ o.type = "ASSOC" /\ reg[Assoc(o.index)] = Spilled

-----------------------------------------------------------------------------
(* The steps.                                                                *)

Place == PlaceVariable /\ UNCHANGED <<unit, pc, machine, values>>

Begin ==
    /\ Scanned
    /\ ~machine.started
    /\ ~(KeepsClass(unit.code) \/ WritesCallersFrame(unit) \/ UsesSpilled(unit.code))
    /\ machine' = StartMachine
    /\ UNCHANGED <<scanVars, unit, pc, values>>

Bytecode == unit.code[pc]
AtBytecode(op) ==
    /\ machine.started
    /\ machine.result = Running
    /\ pc <= Len(unit.code)
    /\ unit.code[pc].op \in op
    /\ pc' = pc + 1
    /\ UNCHANGED <<scanVars, unit>>

CopyBytecode ==
    /\ AtBytecode({"COPY"})
    /\ machine' = GenerateCopy(machine, Bytecode.from, Bytecode.to, pc - 1)
    /\ values' = A!ValuesWith(Bytecode.to, A!ValueOf(Bytecode.from))

SendBytecode ==
    /\ AtBytecode({"SEND"})
    /\ machine' = GenerateSend(machine, Bytecode, pc - 1)
    /\ values' = A!ValuesWith(Bytecode.store, <<"answer", Len(machine.sent) + 1>>)

ReturnBytecode ==
    /\ AtBytecode({"RETURN", "OUTER_RETURN"})
    /\ machine' = GenerateReturn(machine, Bytecode, pc - 1)
    /\ UNCHANGED values

EndOfCode ==
    /\ machine.started
    /\ pc = Len(unit.code) + 1
    /\ machine.result = Running
    /\ LET r == MovVar(machine, SelfVar)
       IN  machine' = AnswerWith(r.m, "RETURN", r.x)
    /\ UNCHANGED <<scanVars, unit, pc, values>>

Next == Place \/ Begin \/ CopyBytecode \/ SendBytecode \/ ReturnBytecode \/ EndOfCode

Spec == Init /\ [][Next]_vars

-----------------------------------------------------------------------------
(* Properties.                                                               *)

\* No assertion fails, no register of a spilled variable is used, and no
\* frame but the unit's own is written.  (The values are Activation's.)
TypeOK ==
    /\ next \in 0 .. Len(order)
    /\ ToSet(active) \subseteq ToSet(order)
    /\ machine.started => /\ machine.inReg \cup machine.onStack \subseteq DOMAIN reg
                          /\ ~machine.failed

\* Whatever a stack map shows the collector was written, and followed, since
\* the slot was last left out of one.
StackmapsInitialized == machine.started => Junk \notin machine.shown

\* The code makes the sends, with the receivers, arguments and classes, the
\* stores and the answer the byte code means: no register or slot is reused
\* while its variable is needed, no value or class is read that a send or a
\* store made stale, and no slot a later byte code reads is left out of a
\* stack map.
ImplementsByteCode == A!Spec
=============================================================================
