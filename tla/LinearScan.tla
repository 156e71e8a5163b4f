----------------------------- MODULE LinearScan -----------------------------
(* The linear scan that gives registers to the variables of a unit           *)
(* (scanRegisters, RegisterAllocator.c).  A variable is live from its first  *)
(* to its last use.  The scan goes over the variables in the order of their  *)
(* first uses and keeps those that hold a register in a list, which is meant *)
(* to be sorted by their ends.  Each step places one variable.               *)
EXTENDS Integers, Sequences

CONSTANTS Spilled,   \* no register
          Pinned,    \* the variable that has a register of its own, its first context
          PinnedReg  \* and that register

VARIABLES
    order,     \* the variables, in the order of their first uses
    interval,  \* the first and the last use of each
    next,      \* how many are placed
    active,    \* sortedVars: those that hold a register of the pool
    pool,      \* regsPool: the free registers
    reg        \* the register of each, or Spilled

scanVars == <<order, interval, next, active, pool, reg>>

ScanInit ==
    /\ next = 0
    /\ active = <<>>
    /\ reg = [v \in DOMAIN interval |-> IF v = Pinned THEN PinnedReg ELSE Spilled]

\* Mutant: a variable gives its register up at its last use.
EndedOrEnding(v, at) == interval[v].end <= at
Ended(v, at) == interval[v].end < at

\* removeDeadVars removes from the list it walks: the variable after a removed
\* one is not looked at.
RemoveDead(at) ==
    LET walk[i \in 0 .. Len(active)] ==
            IF i = 0 THEN [kept |-> <<>>, free |-> pool, removed |-> FALSE]
            ELSE LET before == walk[i - 1]
                 IN  IF Ended(active[i], at) /\ ~before.removed
                     THEN [kept    |-> before.kept,
                           free    |-> <<reg[active[i]]>> \o before.free,
                           removed |-> TRUE]
                     ELSE [kept    |-> Append(before.kept, active[i]),
                           free    |-> before.free,
                           removed |-> FALSE]
    IN  walk[Len(active)]

Scanned == next = Len(order)

PlaceVariable ==
    /\ ~Scanned
    /\ next' = next + 1
    /\ UNCHANGED <<order, interval>>
    /\ LET v      == order[next + 1]
           left   == RemoveDead(interval[v].start)
           others == left.kept
           free   == left.free
           sorted == IF others = <<>> \/ interval[v].end >= interval[Head(others)].end
                     THEN <<v>> \o others ELSE Append(others, v)
       IN  \/ /\ v = Pinned
              /\ UNCHANGED <<active, pool, reg>>
           \/ /\ v # Pinned
              /\ free # <<>>
              /\ active' = sorted
              /\ pool' = Tail(free)
              /\ reg' = [reg EXCEPT ![v] = Head(free)]
           \* The first of the list goes to the stack, and may be v itself.
           \/ /\ v # Pinned
              /\ free = <<>>
              /\ active' = Tail(sorted)
              /\ pool' = free
              /\ LET spilled == Head(sorted)
                 IN  reg' = [reg EXCEPT ![v] = reg[spilled], ![spilled] = Spilled]

\* Two variables that are live at once, from the first use of each to its
\* last, are never in one register.
Overlap(v, w) ==
    /\ interval[v].start <= interval[w].end
    /\ interval[w].start <= interval[v].end
NoSharedRegister ==
    \A i, j \in 1 .. next :
        (i # j /\ Overlap(order[i], order[j]) /\ reg[order[i]] # Spilled)
            => reg[order[i]] # reg[order[j]]
=============================================================================
