----------------------------- MODULE Bytecodes ------------------------------
(* The byte codes a unit of code is made of (Bytecodes.h), as records: the   *)
(* bytes they are packed in are left out.  The jumps, which only the unused  *)
(* optimizer emits, are left out too.                                        *)
EXTENDS Integers, Sequences

\* index is the value itself for "VALUE"; level matters to "CONTEXT" only.
Operand(type, index, level) == [type |-> type, index |-> index, level |-> level]
NoOperand == Operand("NONE", 0, 0)

Copy(from, to) == [op |-> "COPY", from |-> from, to |-> to]
\* store is NoOperand for a send that keeps no result.
Send(selector, receiver, args, store) ==
    [op |-> "SEND", selector |-> selector, receiver |-> receiver, args |-> args,
     store |-> store]
Return(value, outer) ==
    [op |-> IF outer THEN "OUTER_RETURN" ELSE "RETURN", value |-> value]
=============================================================================
