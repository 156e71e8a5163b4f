----------------------------- MODULE Activation -----------------------------
(* What one activation of a unit does, by the meaning of its byte code: the  *)
(* variables it keeps, the memory it reads and writes, the sends it makes    *)
(* and how it ends.  Nothing is said of registers, frames or stack maps.     *)
(*                                                                           *)
(* Memory is known by the object a field is in: <<"arg", 1>> is the receiver *)
(* and <<"context", n>> the context n steps out.  What a field held at first,*)
(* or after a send, is a value of its own until it is stored into.           *)
EXTENDS Bytecodes, TLC

VARIABLES
    unit,     \* any [code, argsSize, tempsSize, ...]
    pc,       \* the number of the next byte code, from 1
    values,   \* of the arguments and temporaries, by index
    memory,   \* fields stored into since the last send
    sent,     \* the sends made
    result    \* how the activation ended, from which context, or Running

activationVars == <<unit, pc, values, memory, sent, result>>

Nil     == <<"nil">>
Self    == <<"arg", 1>>
Running == <<"running">>

ReadField(mem, object, field, sends) ==
    IF <<object, field>> \in DOMAIN mem THEN mem[<<object, field>>]
    ELSE <<"field", object, field, sends>>
VariablesOf(u) ==
    [i \in 1 .. u.argsSize + 1 + u.tempsSize |->
        IF i <= u.argsSize + 1 THEN <<"arg", i>> ELSE Nil]

ValueOf(o) ==
    CASE o.type \in {"TEMP", "ARG"} -> values[o.index]
      [] o.type = "SUPER"        -> Self
      [] o.type = "VALUE"        -> o.index
      [] o.type = "LITERAL"      -> <<"literal", o.index>>
      [] o.type = "THIS_CONTEXT" -> <<"context", 0>>
      [] o.type = "CONTEXT"      -> ReadField(memory, <<"context", o.level>>, o.index, Len(sent))
      [] o.type = "INST"         -> ReadField(memory, Self, o.index, Len(sent))
      [] o.type = "ASSOC"        -> ReadField(memory, <<"assoc", o.index>>, 0, Len(sent))
      [] o.type = "BLOCK"        -> <<"block", o.index, Self, <<"context", 0>>>>

\* The class of a receiver is looked up, or known when the code is generated.
Found == {"TEMP", "ARG", "CONTEXT", "INST", "ASSOC"}
ClassFor(o, v) == IF o.type \in Found THEN <<"class", v>> ELSE <<"known">>

\* Stores of v into the operand, in a memory.
ValuesWith(o, v) == IF o.type = "TEMP" THEN [values EXCEPT ![o.index] = v] ELSE values
WithField(mem, object, field, v) ==
    [f \in DOMAIN mem \cup {<<object, field>>} |-> IF f = <<object, field>> THEN v ELSE mem[f]]
MemoryWith(mem, o, v) ==
    CASE o.type = "CONTEXT" -> WithField(mem, <<"context", o.level>>, o.index, v)
      [] o.type = "INST"    -> WithField(mem, Self, o.index, v)
      [] o.type = "ASSOC"   -> WithField(mem, <<"assoc", o.index>>, 0, v)
      [] OTHER -> mem

Init ==
    /\ pc = 1
    /\ values = VariablesOf(unit)
    /\ memory = <<>>
    /\ sent = <<>>
    /\ result = Running

Bytecode == unit.code[pc]
AtReturn == Bytecode.op \in {"RETURN", "OUTER_RETURN"}

CopyStep ==
    /\ Bytecode.op = "COPY"
    /\ values' = ValuesWith(Bytecode.to, ValueOf(Bytecode.from))
    /\ memory' = MemoryWith(memory, Bytecode.to, ValueOf(Bytecode.from))
    /\ UNCHANGED <<sent, result>>

\* A send may change any memory.
SendStep ==
    /\ Bytecode.op = "SEND"
    /\ LET b == Bytecode
           answer == <<"answer", Len(sent) + 1>>
       IN  /\ sent' = Append(sent, [selector |-> b.selector, receiver |-> ValueOf(b.receiver),
                                    args |-> [i \in DOMAIN b.args |-> ValueOf(b.args[i])],
                                    class |-> ClassFor(b.receiver, ValueOf(b.receiver))])
           /\ values' = ValuesWith(b.store, answer)
           /\ memory' = MemoryWith(<<>>, b.store, answer)
    /\ UNCHANGED result

ReturnStep ==
    /\ AtReturn
    /\ result' = <<Bytecode.op, ValueOf(Bytecode.value), <<"context", 0>>>>
    /\ UNCHANGED <<values, memory, sent>>

Step ==
    /\ pc <= Len(unit.code)
    /\ result = Running
    /\ pc' = pc + 1
    /\ CopyStep \/ SendStep \/ ReturnStep
    /\ UNCHANGED unit

\* Code that ends without a return answers the receiver.
End ==
    /\ pc = Len(unit.code) + 1
    /\ result = Running
    /\ result' = <<"RETURN", Self, <<"context", 0>>>>
    /\ UNCHANGED <<unit, pc, values, memory, sent>>

Next == Step \/ End

Spec == Init /\ [][Next]_activationVars
=============================================================================
