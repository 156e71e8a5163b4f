------------------------- MODULE CodeGeneratorProofs -------------------------
(***************************************************************************)
(* Theorems about CodeGenerator for every unit of code and every list of   *)
(* registers: the scan gives no register twice (ScanInv), so what the      *)
(* generator's flags say a register or slot holds is there (GenInv), and   *)
(* the code does what its byte code means.                                 *)
(***************************************************************************)
EXTENDS CodeGenerator, SequenceTheorems, Foundations

-----------------------------------------------------------------------------
(* Sequences.                                                              *)

OnceEach(s) == \A i, j \in DOMAIN s : s[i] = s[j] => i = j

(* The members of a sequence.                                              *)
LEMMA Members ==
  ASSUME NEW T, NEW s \in Seq(T)
  PROVE  /\ DOMAIN s = 1..Len(s) /\ Len(s) \in Nat
         /\ ToSet(s) \subseteq T
         /\ \A x : x \in ToSet(s) <=> \E i \in 1..Len(s) : x = s[i]
<1>1. DOMAIN s = 1..Len(s) /\ Len(s) \in Nat
  BY LenProperties
<1>2. \A i \in 1..Len(s) : s[i] \in T
  BY ElementOfSeq
<1> QED
  BY <1>1, <1>2 DEF ToSet

(* At the end of a sequence.                                               *)
LEMMA AppendOnce ==
  ASSUME NEW T, NEW s \in Seq(T), NEW x \in T
  PROVE  /\ Append(s, x) \in Seq(T)
         /\ ToSet(Append(s, x)) = ToSet(s) \union {x}
         /\ (OnceEach(s) /\ x \notin ToSet(s)) => OnceEach(Append(s, x))
<1> DEFINE a == Append(s, x)
<1>1. /\ a \in Seq(T) /\ Len(a) = Len(s) + 1
      /\ \A i \in 1..Len(s) : a[i] = s[i]
      /\ a[Len(s) + 1] = x
  BY AppendProperties
<1> HIDE DEF a
<1>2. /\ DOMAIN s = 1..Len(s) /\ Len(s) \in Nat /\ DOMAIN a = 1..Len(a)
      /\ \A y : y \in ToSet(s) <=> \E i \in 1..Len(s) : y = s[i]
      /\ \A y : y \in ToSet(a) <=> \E i \in 1..Len(a) : y = a[i]
  BY <1>1, Members
<1>3. ToSet(a) = ToSet(s) \union {x}
  <2>1. \A i \in 1..Len(a) : i \in 1..Len(s) \/ i = Len(s) + 1
    BY <1>1, <1>2
  <2>2. \A i \in 1..Len(s) : i \in 1..Len(a)
    BY <1>1, <1>2
  <2>3. Len(s) + 1 \in 1..Len(a)
    BY <1>1, <1>2
  <2> QED
    BY <1>1, <1>2, <2>1, <2>2, <2>3
<1>4. ASSUME OnceEach(s), x \notin ToSet(s) PROVE OnceEach(a)
  <2> SUFFICES ASSUME NEW i \in 1..Len(a), NEW j \in 1..Len(a), a[i] = a[j] PROVE i = j
    BY <1>2 DEF OnceEach
  <2>1. /\ i \in 1..Len(s) \/ i = Len(s) + 1
        /\ j \in 1..Len(s) \/ j = Len(s) + 1
    BY <1>1, <1>2
  <2>2. \A k \in 1..Len(s) : s[k] # x
    BY <1>2, <1>4
  <2> QED
    BY <1>1, <1>2, <1>4, <2>1, <2>2 DEF OnceEach
<1> QED
  BY <1>1, <1>3, <1>4 DEF a

(* At its front.                                                           *)
LEMMA FrontOnce ==
  ASSUME NEW T, NEW s \in Seq(T), NEW x \in T
  PROVE  /\ <<x>> \o s \in Seq(T)
         /\ ToSet(<<x>> \o s) = ToSet(s) \union {x}
         /\ (OnceEach(s) /\ x \notin ToSet(s)) => OnceEach(<<x>> \o s)
<1> DEFINE a == <<x>> \o s
<1>1. /\ <<x>> \in Seq(T) /\ Len(<<x>>) = 1 /\ <<x>>[1] = x
  OBVIOUS
<1>2. /\ a \in Seq(T) /\ Len(a) = 1 + Len(s)
      /\ \A i \in 1..1 + Len(s) : a[i] = IF i <= 1 THEN <<x>>[i] ELSE s[i - 1]
  BY <1>1, ConcatProperties
<1> HIDE DEF a
<1>3. /\ DOMAIN s = 1..Len(s) /\ Len(s) \in Nat /\ DOMAIN a = 1..Len(a)
      /\ \A y : y \in ToSet(s) <=> \E i \in 1..Len(s) : y = s[i]
      /\ \A y : y \in ToSet(a) <=> \E i \in 1..Len(a) : y = a[i]
  BY <1>2, Members
<1>4. a[1] = x /\ \A i \in 2..Len(a) : i - 1 \in 1..Len(s) /\ a[i] = s[i - 1]
  BY <1>1, <1>2, <1>3
<1>5. ToSet(a) = ToSet(s) \union {x}
  <2>1. \A i \in 1..Len(a) : i = 1 \/ i \in 2..Len(a)
    BY <1>2, <1>3
  <2>2. \A i \in 1..Len(s) : i + 1 \in 2..Len(a) /\ a[i + 1] = s[i]
    BY <1>2, <1>3, <1>4
  <2>3. 1 \in 1..Len(a) /\ \A i \in 2..Len(a) : i \in 1..Len(a)
    BY <1>2, <1>3
  <2> QED
    BY <1>3, <1>4, <2>1, <2>2, <2>3
<1>6. ASSUME OnceEach(s), x \notin ToSet(s) PROVE OnceEach(a)
  <2> SUFFICES ASSUME NEW i \in 1..Len(a), NEW j \in 1..Len(a), a[i] = a[j] PROVE i = j
    BY <1>3 DEF OnceEach
  <2>1. \A k \in 1..Len(s) : s[k] # x
    BY <1>3, <1>6
  <2>2. (i = 1 \/ i \in 2..Len(a)) /\ (j = 1 \/ j \in 2..Len(a))
    BY <1>2, <1>3
  <2>3. CASE i \in 2..Len(a) /\ j \in 2..Len(a)
    BY <1>3, <1>4, <1>6, <2>3 DEF OnceEach
  <2>4. CASE ~(i \in 2..Len(a) /\ j \in 2..Len(a))
    BY <1>3, <1>4, <2>1, <2>2, <2>4
  <2> QED
    BY <2>3, <2>4
<1> QED
  BY <1>2, <1>5, <1>6 DEF a

(* What is left without the first.                                         *)
LEMMA TailOnce ==
  ASSUME NEW T, NEW s \in Seq(T), s # << >>, OnceEach(s)
  PROVE  /\ Head(s) \in ToSet(s) /\ Head(s) \in T
         /\ Tail(s) \in Seq(T) /\ OnceEach(Tail(s))
         /\ ToSet(Tail(s)) = ToSet(s) \ {Head(s)}
<1> DEFINE t == Tail(s)
<1>1. /\ Head(s) = s[1] /\ Head(s) \in T /\ t \in Seq(T)
      /\ Len(t) = Len(s) - 1 /\ \A i \in 1..Len(t) : t[i] = s[i + 1]
  BY HeadTailProperties, EmptySeq
<1> HIDE DEF t
<1>2. /\ DOMAIN s = 1..Len(s) /\ Len(s) \in Nat /\ DOMAIN t = 1..Len(t) /\ Len(t) \in Nat
      /\ \A y : y \in ToSet(s) <=> \E i \in 1..Len(s) : y = s[i]
      /\ \A y : y \in ToSet(t) <=> \E i \in 1..Len(t) : y = t[i]
  BY <1>1, Members
<1>3. 1 \in 1..Len(s) /\ \A i \in 1..Len(t) : i + 1 \in 1..Len(s) /\ i + 1 # 1
  BY <1>1, <1>2
<1>4. \A i \in 1..Len(s) : i = 1 \/ (i - 1 \in 1..Len(t) /\ t[i - 1] = s[i])
  BY <1>1, <1>2
<1>5. OnceEach(t)
  <2> SUFFICES ASSUME NEW i \in 1..Len(t), NEW j \in 1..Len(t), t[i] = t[j] PROVE i = j
    BY <1>2 DEF OnceEach
  <2>1. s[i + 1] = s[j + 1] /\ i + 1 \in DOMAIN s /\ j + 1 \in DOMAIN s
    BY <1>1, <1>2, <1>3
  <2>2. i + 1 = j + 1
    BY <2>1 DEF OnceEach
  <2> QED
    BY <2>2
<1>6. ToSet(t) = ToSet(s) \ {Head(s)}
  <2>1. \A i \in 1..Len(t) : s[i + 1] # s[1]
    BY <1>2, <1>3 DEF OnceEach
  <2> QED
    BY <1>1, <1>2, <1>3, <1>4, <2>1
<1> QED
  BY <1>1, <1>2, <1>3, <1>5, <1>6 DEF t

-----------------------------------------------------------------------------
(* The walk of removeDeadVars.                                             *)

Registers == UNION { ToSet(f) : f \in RegFiles }

(* The variables in the list and the registers in the pool.                *)
Holders ==
  /\ active \in Seq(DOMAIN interval) /\ OnceEach(active)
  /\ pool \in Seq(Registers) /\ OnceEach(pool)
  /\ \A a \in ToSet(active) : reg[a] \in Registers \ ToSet(pool)
  /\ \A a, b \in ToSet(active) : reg[a] = reg[b] => a = b

Walks == [kept : Seq(DOMAIN interval), free : Seq(Registers), removed : BOOLEAN]

(* What is left when the walk has seen these.                              *)
LeftOf(seen, at, kept, free) ==
  /\ kept \in Seq(DOMAIN interval) /\ OnceEach(kept) /\ ToSet(kept) \subseteq seen
  /\ free \in Seq(Registers) /\ OnceEach(free)
  /\ \A r \in ToSet(free) : \/ r \in ToSet(pool)
                            \/ \E a \in seen \ ToSet(kept) : reg[a] = r /\ Ended(a, at)
  /\ \A a \in seen : a \in ToSet(kept) \/ Ended(a, at)

(* What the walk of removeDeadVars keeps in the list.                      *)
LEMMA WalkKeeps ==
  ASSUME NEW at, NEW seen, NEW kept, NEW free, LeftOf(seen, at, kept, free),
         NEW a \in DOMAIN interval, a \notin seen
  PROVE  LeftOf(seen \union {a}, at, Append(kept, a), free)
<1>1. /\ Append(kept, a) \in Seq(DOMAIN interval) /\ OnceEach(Append(kept, a))
      /\ ToSet(Append(kept, a)) = ToSet(kept) \union {a}
  BY AppendOnce DEF LeftOf
<1>2. (seen \union {a}) \ ToSet(Append(kept, a)) = seen \ ToSet(kept)
  BY <1>1
<1> QED
  BY <1>1, <1>2 DEF LeftOf

(* What it gives back to the pool.                                         *)
LEMMA WalkFrees ==
  ASSUME Holders, NEW at, NEW seen, NEW kept, NEW free, LeftOf(seen, at, kept, free),
         seen \subseteq ToSet(active),
         NEW a \in ToSet(active), a \notin seen, Ended(a, at)
  PROVE  LeftOf(seen \union {a}, at, kept, <<reg[a]>> \o free)
<1>1. reg[a] \in Registers /\ reg[a] \notin ToSet(free)
  BY DEF Holders, LeftOf
<1>2. /\ <<reg[a]>> \o free \in Seq(Registers) /\ OnceEach(<<reg[a]>> \o free)
      /\ ToSet(<<reg[a]>> \o free) = ToSet(free) \union {reg[a]}
  BY <1>1, FrontOnce DEF LeftOf
<1> QED
  BY <1>2 DEF LeftOf

(* The walk is defined, and where it ends everyone has been seen.          *)
LEMMA RemoveDeadLeaves ==
  ASSUME Holders, NEW at
  PROVE  LeftOf(ToSet(active), at, RemoveDead(at).kept, RemoveDead(at).free)
<1> DEFINE n == Len(active)
           Keeps(x, i) == [kept |-> Append(x.kept, active[i]), free |-> x.free, removed |-> FALSE]
           Frees(x, i) == [kept |-> x.kept, free |-> <<reg[active[i]]>> \o x.free, removed |-> TRUE]
           After(x, i) == IF Ended(active[i], at) /\ ~x.removed THEN Frees(x, i) ELSE Keeps(x, i)
           start == [kept |-> << >>, free |-> pool, removed |-> FALSE]
           step == [i \in 1..n |-> [x \in Walks |-> After(x, i)]]
           Goes(f) == f = [i \in 0..n |-> IF i = 0 THEN start ELSE After(f[i - 1], i)]
<1>1. /\ n \in Nat /\ DOMAIN active = 1..n
      /\ \A i \in 1..n : active[i] \in DOMAIN interval /\ active[i] \in ToSet(active)
      /\ \A a \in ToSet(active) : \E i \in 1..n : a = active[i]
  BY Members DEF Holders
<1>2. \A i \in 1..n, x \in Walks : Keeps(x, i) \in Walks /\ Frees(x, i) \in Walks
  <2> SUFFICES ASSUME NEW i \in 1..n, NEW x \in Walks
               PROVE  Keeps(x, i) \in Walks /\ Frees(x, i) \in Walks
    OBVIOUS
  <2>1. x.kept \in Seq(DOMAIN interval) /\ x.free \in Seq(Registers)
    BY DEF Walks
  <2>2. Append(x.kept, active[i]) \in Seq(DOMAIN interval)
    BY <1>1, <2>1, AppendProperties
  <2>3. reg[active[i]] \in Registers
    BY <1>1 DEF Holders
  <2>4. <<reg[active[i]]>> \o x.free \in Seq(Registers)
    BY <2>1, <2>3, FrontOnce
  <2> QED
    BY <2>1, <2>2, <2>4 DEF Walks
<1>2a. \A i \in 1..n : \A x \in Walks : After(x, i) \in Walks
  BY <1>2
<1>3. step \in [1..n -> [Walks -> Walks]]
  <2> HIDE DEF After
  <2> QED
    BY <1>2a
<1>4. start \in Walks
  BY DEF Walks, Holders
<1>5. PICK f \in [0..n -> Walks] : f[0] = start /\ \A i \in 1..n : f[i] = step[i][f[i - 1]]
  <2> HIDE DEF step, start, n
  <2>1. n \in Nat
    BY <1>1
  <2>2. Determined(n, Walks, start, step)
    BY <1>3, <1>4, <2>1, Recursion
  <2> QED
    BY <2>2 DEF Determined
<1>6. \A i \in 1..n : f[i - 1] \in Walks /\ f[i] = After(f[i - 1], i)
  <2> HIDE DEF After
  <2>1. \A i \in 1..n : i - 1 \in 0..n
    BY <1>1
  <2> QED
    BY <1>5, <2>1
<1>7. Goes(f)
  <2>1. \A i \in 0..n : i = 0 \/ i \in 1..n
    BY <1>1
  <2>2. \A i \in 0..n : f[i] = IF i = 0 THEN start ELSE After(f[i - 1], i)
    <3> HIDE DEF After, start
    <3> QED
      BY <1>5, <1>6, <2>1
  <2> HIDE DEF After, start, n
  <2> QED
    BY <2>2
<1> DEFINE walk == CHOOSE g : Goes(g)
<1>8. Goes(walk)
  <2> HIDE DEF Goes
  <2> QED
    BY <1>7
<1>9. RemoveDead(at) = walk[n]
  BY DEF RemoveDead
<1>10. walk[0] = start /\ \A i \in 1..n : walk[i - 1] \in Walks => walk[i] = After(walk[i - 1], i)
  <2>1. 0 \in 0..n /\ \A i \in 1..n : i \in 0..n /\ i # 0
    BY <1>1
  <2> HIDE DEF walk, After, start, n
  <2> QED
    BY <1>8, <2>1
<1> HIDE DEF walk
<1> DEFINE Seen(i) == { active[j] : j \in 1..i }
           S == { i \in 0..n : /\ walk[i] \in Walks
                              /\ LeftOf(Seen(i), at, walk[i].kept, walk[i].free) }
<1>11. 0 \in S
  <2>1. << >> \in Seq(DOMAIN interval) /\ DOMAIN << >> = {}
    OBVIOUS
  <2>2. OnceEach(<< >>) /\ ToSet(<< >>) = {}
    BY <2>1 DEF OnceEach, ToSet
  <2>3. LeftOf({}, at, << >>, pool)
    BY <2>1, <2>2 DEF LeftOf, Holders
  <2>4. Seen(0) = {} /\ 0 \in 0..n
    BY <1>1
  <2>5. walk[0].kept = << >> /\ walk[0].free = pool
    BY <1>10
  <2> HIDE DEF Seen, start, n
  <2> QED
    BY <1>4, <1>10, <2>3, <2>4, <2>5
<1>12. ASSUME NEW i \in 1..n, i - 1 \in S PROVE i \in S
  <2> DEFINE x == walk[i - 1]
             a == active[i]
  <2>1. x \in Walks /\ LeftOf(Seen(i - 1), at, x.kept, x.free)
    BY <1>12
  <2>2. walk[i] = After(x, i) /\ walk[i] \in Walks
    <3> HIDE DEF After, start, n
    <3> QED
      BY <1>2a, <1>10, <2>1
  <2>3. Seen(i) = Seen(i - 1) \union {a}
    <3>1. \A j \in 1..i : j = i \/ j \in 1..(i - 1)
      OBVIOUS
    <3>2. i \in 1..i /\ \A j \in 1..(i - 1) : j \in 1..i
      OBVIOUS
    <3> QED
      BY <3>1, <3>2
  <2>4. a \notin Seen(i - 1) /\ Seen(i - 1) \subseteq ToSet(active)
    <3>1. \A j \in 1..(i - 1) : j # i /\ j \in 1..n
      BY <1>1
    <3>2. \A j \in 1..(i - 1) : active[j] # active[i]
      BY <1>1, <3>1 DEF Holders, OnceEach
    <3>3. \A j \in 1..(i - 1) : active[j] \in ToSet(active)
      BY <1>1, <3>1
    <3> QED
      BY <3>2, <3>3
  <2>5. a \in ToSet(active) /\ a \in DOMAIN interval
    BY <1>1
  <2> HIDE DEF Seen, x, a
  <2>6. LeftOf(Seen(i), at, walk[i].kept, walk[i].free)
    <3>1. CASE Ended(active[i], at) /\ ~x.removed
      <4>1. walk[i].kept = x.kept /\ walk[i].free = <<reg[a]>> \o x.free
        BY <2>2, <3>1 DEF a
      <4>2. Ended(a, at)
        BY <3>1 DEF a
      <4> QED
        BY <2>1, <2>3, <2>4, <2>5, <4>1, <4>2, WalkFrees
    <3>2. CASE ~(Ended(active[i], at) /\ ~x.removed)
      <4>1. walk[i].kept = Append(x.kept, a) /\ walk[i].free = x.free
        BY <2>2, <3>2 DEF a
      <4> QED
        BY <2>1, <2>3, <2>4, <2>5, <4>1, WalkKeeps
    <3> QED
      BY <3>1, <3>2
  <2>7. i \in 0..n
    BY <1>1
  <2> HIDE DEF n
  <2> QED
    BY <2>2, <2>6, <2>7
<1>13. n \in S
  <2> HIDE DEF S
  <2>1. 0..n \subseteq S
    BY <1>1, <1>11, <1>12, UpTo
  <2> QED
    BY <1>1, <2>1
<1>14. Seen(n) = ToSet(active)
  BY <1>1
<1> HIDE DEF Seen, n
<1> QED
  BY <1>9, <1>13, <1>14

-----------------------------------------------------------------------------
(* The invariant of the scan.                                              *)

(* The variables in the order of their first uses.                         *)
Ordered ==
  /\ interval \in [DOMAIN interval -> [start : Int, end : Int]]
  /\ order \in Seq(DOMAIN interval) /\ OnceEach(order)
  /\ \A i, j \in DOMAIN order : i <= j => interval[order[i]].start <= interval[order[j]].start

Placed == { order[i] : i \in 1..next }

(* A variable that has a register and is not in the list any more came to  *)
(* its end before the last one placed began.                               *)
Retired ==
  \A w \in Placed \ (ToSet(active) \union {Pinned}) :
    reg[w] # Spilled => /\ reg[w] \in Registers
                        /\ interval[w].end < interval[order[next]].start

Apart ==
  \A a, b \in Placed : (a # b /\ Overlap(a, b) /\ reg[a] # Spilled) => reg[a] # reg[b]

ScanInv ==
  /\ Ordered /\ next \in 0..Len(order)
  /\ DOMAIN reg = DOMAIN interval
  /\ Holders /\ ToSet(active) \subseteq Placed \ {Pinned}
  /\ Pinned \in DOMAIN reg => reg[Pinned] = PinnedReg
  /\ Retired
  /\ Apart

(* No register of a list is the one for the first context, or none.        *)
LEMMA RegistersOfUse ==
  Spilled \notin Registers /\ PinnedReg \notin Registers
<1>1. \A f \in RegFiles : Spilled \notin ToSet(f) /\ PinnedReg \notin ToSet(f)
  <2> SUFFICES ASSUME NEW f \in RegFiles
               PROVE  Spilled \notin ToSet(f) /\ PinnedReg \notin ToSet(f)
    OBVIOUS
  <2>1. {Spilled, PinnedReg} \cap ToSet(f) = {}
    BY RegFilesAssumption
  <2> QED
    BY <2>1
<1> QED
  BY <1>1 DEF Registers

(* The scan's own invariant says what NoSharedRegister asks.               *)
LEMMA ApartEnough ==
  ASSUME ScanInv PROVE NoSharedRegister
<1>1. /\ DOMAIN order = 1..Len(order) /\ Len(order) \in Nat
  BY Members DEF ScanInv, Ordered
<1>2. \A i \in 1..next : i \in 1..Len(order) /\ order[i] \in Placed
  BY <1>1 DEF ScanInv, Placed
<1>3. \A i, j \in 1..next : i # j => order[i] # order[j]
  BY <1>1, <1>2 DEF ScanInv, Ordered, OnceEach
<1> QED
  BY <1>2, <1>3 DEF ScanInv, Apart, NoSharedRegister

(* What is true of the next variable, and of those placed before it.       *)
LEMMA NextFacts ==
  ASSUME ScanInv, ~Scanned, next' = next + 1, order' = order,
         NEW v, v = order[next + 1]
  PROVE  /\ next' \in 0..Len(order) /\ v \in DOMAIN interval /\ v \notin Placed
         /\ Placed \subseteq DOMAIN interval
         /\ Placed' = Placed \union {v} /\ order[next'] = v
         /\ interval[v].start \in Int /\ interval[v].end \in Int
         /\ \A w \in Placed : interval[order[next]].start <= interval[v].start
         /\ \A w \in Placed : interval[w].start \in Int /\ interval[w].end \in Int
                              /\ interval[order[next]].start \in Int
<1>1. /\ DOMAIN order = 1..Len(order) /\ Len(order) \in Nat
      /\ \A i \in 1..Len(order) : order[i] \in DOMAIN interval
  BY Members, ElementOfSeq DEF ScanInv, Ordered
<1>2. next \in Nat /\ next + 1 \in 1..Len(order) /\ next' \in 0..Len(order)
  BY <1>1 DEF ScanInv, Scanned
<1>3. \A i \in 1..next : i \in 1..Len(order) /\ i # next + 1
  BY <1>1, <1>2
<1>4. v \in DOMAIN interval /\ Placed \subseteq DOMAIN interval
  BY <1>1, <1>2, <1>3 DEF Placed
<1>5. v \notin Placed
  BY <1>1, <1>2, <1>3 DEF Placed, ScanInv, Ordered, OnceEach
<1>6. Placed' = Placed \union {v}
  <2>1. \A i \in 1..(next + 1) : i = next + 1 \/ i \in 1..next
    BY <1>2
  <2>2. next + 1 \in 1..(next + 1) /\ \A i \in 1..next : i \in 1..(next + 1)
    BY <1>2
  <2> QED
    BY <2>1, <2>2 DEF Placed
<1>7. \A w \in DOMAIN interval : interval[w].start \in Int /\ interval[w].end \in Int
  BY DEF ScanInv, Ordered
<1>8. ASSUME NEW w \in Placed
      PROVE  /\ interval[order[next]].start <= interval[v].start
             /\ interval[order[next]].start \in Int
  <2>1. next \in 1..Len(order) /\ next <= next + 1
    BY <1>1, <1>2 DEF Placed
  <2> QED
    BY <1>1, <1>2, <1>7, <2>1 DEF ScanInv, Ordered
<1> QED
  BY <1>2, <1>4, <1>5, <1>6, <1>7, <1>8

(* Those that the walk leaves out have no need of a register.              *)
LEMMA RetiredNow ==
  ASSUME ScanInv, ~Scanned, next' = next + 1, order' = order,
         NEW v, v = order[next + 1], NEW kept, NEW free,
         LeftOf(ToSet(active), interval[v].start, kept, free),
         NEW w \in Placed \ (ToSet(kept) \union {Pinned}), reg[w] # Spilled
  PROVE  reg[w] \in Registers /\ interval[w].end < interval[v].start
<1>1. CASE w \in ToSet(active)
  <2>1. Ended(w, interval[v].start)
    BY <1>1 DEF LeftOf
  <2> QED
    BY <1>1, <2>1 DEF Ended, ScanInv, Holders
<1>2. CASE w \notin ToSet(active)
  <2>1. reg[w] \in Registers /\ interval[w].end < interval[order[next]].start
    BY <1>2 DEF ScanInv, Retired
  <2>2. /\ interval[v].start \in Int /\ interval[w].end \in Int
        /\ interval[order[next]].start \in Int
        /\ interval[order[next]].start <= interval[v].start
    BY NextFacts
  <2> QED
    BY <2>1, <2>2
<1> QED
  BY <1>1, <1>2

(* The next variable gets a register r that none of those that stay in the *)
(* list has; those in gone get none, and v may be one of them.             *)
Gives(v, kept, free, gone, r) ==
  /\ v # Pinned /\ LeftOf(ToSet(active), interval[v].start, kept, free)
  /\ gone \subseteq ToSet(kept) \union {v}
  /\ r \in Registers \/ v \in gone
  /\ \A a \in ToSet(kept) \ gone : reg[a] # r
  /\ active' \in Seq(DOMAIN interval) /\ OnceEach(active')
  /\ ToSet(active') = (ToSet(kept) \union {v}) \ gone
  /\ pool' \in Seq(Registers) /\ OnceEach(pool')
  /\ ToSet(pool') \subseteq ToSet(free) \ {r}
  /\ DOMAIN reg' = DOMAIN reg
  /\ \A x \in DOMAIN reg : reg'[x] = IF x \in gone THEN Spilled
                                      ELSE IF x = v THEN r ELSE reg[x]

(* A variable given a register keeps the invariant.                        *)
LEMMA GivesRegister ==
  ASSUME ScanInv, ~Scanned, next' = next + 1, order' = order, interval' = interval,
         NEW v, v = order[next + 1], NEW kept, NEW free, NEW gone, NEW r,
         Gives(v, kept, free, gone, r)
  PROVE  ScanInv'
<1> USE DEF Gives
<1>1. /\ next' \in 0..Len(order) /\ v \in DOMAIN interval /\ v \notin Placed
      /\ Placed \subseteq DOMAIN interval
      /\ Placed' = Placed \union {v} /\ order[next'] = v
      /\ interval[v].start \in Int /\ interval[v].end \in Int
      /\ \A w \in Placed : interval[w].start \in Int /\ interval[w].end \in Int
  BY NextFacts
<1>2. \A w \in Placed \ (ToSet(kept) \union {Pinned}) :
        reg[w] # Spilled => reg[w] \in Registers /\ interval[w].end < interval[v].start
  BY RetiredNow
<1>3. /\ ToSet(kept) \subseteq ToSet(active) /\ ToSet(active) \subseteq Placed \ {Pinned}
      /\ DOMAIN reg = DOMAIN interval /\ Spilled \notin Registers /\ PinnedReg \notin Registers
  BY RegistersOfUse DEF LeftOf, ScanInv
<1>4. \A a \in ToSet(kept) : reg[a] \in Registers \ ToSet(free)
  <2> SUFFICES ASSUME NEW a \in ToSet(kept), reg[a] \in ToSet(free) PROVE FALSE
    BY <1>3 DEF ScanInv, Holders
  <2>1. a \in ToSet(active) /\ reg[a] \notin ToSet(pool)
    BY <1>3 DEF ScanInv, Holders
  <2>2. PICK b \in ToSet(active) \ ToSet(kept) : reg[b] = reg[a]
    BY <2>1 DEF LeftOf
  <2> QED
    BY <2>1, <2>2 DEF ScanInv, Holders
<1>5. \A a \in ToSet(active') : a \in DOMAIN reg /\ reg'[a] = IF a = v THEN r ELSE reg[a]
  BY <1>1, <1>3
<1>6. Holders'
  <2>1. \A a \in ToSet(active') : reg'[a] \in Registers \ ToSet(pool')
    BY <1>4, <1>5
  <2>2. \A a, b \in ToSet(active') : reg'[a] = reg'[b] => a = b
    BY <1>3, <1>5 DEF ScanInv, Holders
  <2> QED
    BY <2>1, <2>2 DEF Holders
<1>7. \A w \in Placed' : w # Pinned /\ w # v /\ w \notin ToSet(active') /\ reg'[w] # Spilled
        => reg'[w] = reg[w] /\ w \in Placed \ (ToSet(kept) \union {Pinned})
  BY <1>1, <1>3
<1>8. Retired'
  <2> SUFFICES ASSUME NEW w \in Placed', w \notin ToSet(active'), w # Pinned, reg'[w] # Spilled
               PROVE  reg'[w] \in Registers /\ interval[w].end < interval[v].start
    BY <1>1 DEF Retired
  <2>1. w # v
    BY <1>1, <1>3
  <2> QED
    BY <1>2, <1>7, <2>1
<1>9. Pinned \in DOMAIN reg => reg'[Pinned] = PinnedReg
  BY <1>3 DEF ScanInv
<1>10. ASSUME NEW w \in Placed, reg'[w] = reg'[v], reg'[v] # Spilled
       PROVE  ~Overlap(v, w)
  <2>1. v \notin gone /\ reg'[v] = r /\ r \in Registers
    BY <1>1, <1>3, <1>10
  <2>2. w # v /\ w \notin gone /\ reg'[w] = reg[w] /\ reg[w] = r
    BY <1>1, <1>3, <1>10, <2>1
  <2>3. w \notin ToSet(kept) /\ w # Pinned
    BY <1>1, <1>3, <2>1, <2>2 DEF ScanInv
  <2>4. interval[w].end < interval[v].start
    BY <1>2, <1>3, <2>1, <2>2, <2>3
  <2> QED
    BY <1>1, <2>4 DEF Overlap
<1>11. Apart'
  <2> SUFFICES ASSUME NEW a \in Placed', NEW b \in Placed', a # b, Overlap(a, b),
                      reg'[a] # Spilled, reg'[a] = reg'[b]
               PROVE  FALSE
    BY DEF Apart, Overlap
  <2>1. Overlap(b, a)
    BY DEF Overlap
  <2>2. CASE a = v
    BY <1>1, <1>10, <2>2
  <2>3. CASE b = v
    BY <1>1, <1>10, <2>1, <2>3
  <2>4. CASE a # v /\ b # v
    <3>1. a \in Placed /\ b \in Placed /\ reg'[a] = reg[a] /\ reg'[b] = reg[b]
      BY <1>1, <1>3, <2>4
    <3> QED
      BY <3>1 DEF ScanInv, Apart
  <2> QED
    BY <2>2, <2>3, <2>4
<1>12. Ordered' /\ next' \in 0..Len(order') /\ DOMAIN reg' = DOMAIN interval'
  BY <1>1, <1>3 DEF ScanInv, Ordered
<1>13. ToSet(active') \subseteq Placed' \ {Pinned}
  BY <1>1, <1>3
<1>14. (Pinned \in DOMAIN reg => reg[Pinned] = PinnedReg)'
  BY <1>9
<1> QED
  BY <1>6, <1>8, <1>11, <1>12, <1>13, <1>14 DEF ScanInv

(* One more in the list, at either end.                                    *)
LEMMA SortedOnce ==
  ASSUME NEW T, NEW others \in Seq(T), OnceEach(others), NEW v \in T, v \notin ToSet(others),
         NEW sorted, sorted = <<v>> \o others \/ sorted = Append(others, v)
  PROVE  /\ sorted \in Seq(T) /\ OnceEach(sorted) /\ ToSet(sorted) = ToSet(others) \union {v}
         /\ sorted # << >>
<1>1. sorted \in Seq(T) /\ OnceEach(sorted) /\ ToSet(sorted) = ToSet(others) \union {v}
  <2>1. CASE sorted = <<v>> \o others
    BY <2>1, FrontOnce
  <2>2. CASE sorted = Append(others, v)
    BY <2>2, AppendOnce
  <2> QED
    BY <2>1, <2>2
<1>2. sorted # << >>
  <2>1. ToSet(<< >>) = {}
    BY DEF ToSet
  <2> QED
    BY <1>1, <2>1
<1> QED
  BY <1>1, <1>2

(* A variable is placed.                                                   *)
LEMMA PlaceStep ==
  ASSUME ScanInv, PlaceVariable
  PROVE  ScanInv'
<1> DEFINE v == order[next + 1]
           at == interval[v].start
           kept == RemoveDead(at).kept
           free == RemoveDead(at).free
           sorted == IF kept = << >> \/ interval[v].end >= interval[Head(kept)].end
                     THEN <<v>> \o kept ELSE Append(kept, v)
<1>1. ~Scanned /\ next' = next + 1 /\ order' = order /\ interval' = interval
  BY DEF PlaceVariable
<1>2. LeftOf(ToSet(active), at, kept, free)
  BY RemoveDeadLeaves DEF ScanInv
<1>3. \/ v = Pinned /\ active' = active /\ pool' = pool /\ reg' = reg
      \/ /\ v # Pinned /\ free # << >> /\ active' = sorted /\ pool' = Tail(free)
         /\ reg' = [reg EXCEPT ![v] = Head(free)]
      \/ /\ v # Pinned /\ free = << >> /\ active' = Tail(sorted) /\ pool' = free
         /\ reg' = [reg EXCEPT ![v] = reg[Head(sorted)], ![Head(sorted)] = Spilled]
  BY DEF PlaceVariable
<1> HIDE DEF kept, free, sorted, at
<1> SUFFICES ASSUME NEW x, x = v PROVE ScanInv'
  OBVIOUS
<1>4. /\ next' \in 0..Len(order) /\ v \in DOMAIN interval /\ v \notin Placed
      /\ Placed \subseteq DOMAIN interval
      /\ Placed' = Placed \union {v} /\ order[next'] = v
      /\ interval[v].start \in Int
      /\ \A w \in Placed : interval[order[next]].start <= interval[v].start
      /\ \A w \in Placed : interval[w].end \in Int /\ interval[order[next]].start \in Int
  BY <1>1, NextFacts
<1>5. /\ kept \in Seq(DOMAIN interval) /\ OnceEach(kept) /\ v \notin ToSet(kept)
      /\ free \in Seq(Registers) /\ OnceEach(free)
      /\ DOMAIN reg = DOMAIN interval
  BY <1>2, <1>4 DEF LeftOf, ScanInv
<1>6. /\ sorted \in Seq(DOMAIN interval) /\ OnceEach(sorted) /\ sorted # << >>
      /\ ToSet(sorted) = ToSet(kept) \union {v}
  <2>1. sorted = <<v>> \o kept \/ sorted = Append(kept, v)
    BY DEF sorted
  <2> HIDE DEF v
  <2> QED
    BY <1>4, <1>5, <2>1, SortedOnce
<1>7. CASE v = Pinned /\ active' = active /\ pool' = pool /\ reg' = reg
  <2>1. Holders' /\ Ordered' /\ next' \in 0..Len(order')
    BY <1>1, <1>4, <1>7 DEF ScanInv, Holders, Ordered
  <2>2. ToSet(active') \subseteq Placed' \ {Pinned}
    BY <1>4, <1>7 DEF ScanInv
  <2>3. Retired'
    <3> SUFFICES ASSUME NEW w \in Placed \ (ToSet(active) \union {Pinned}), reg[w] # Spilled
                 PROVE  reg[w] \in Registers /\ interval[w].end < interval[v].start
      BY <1>1, <1>4, <1>7 DEF Retired
    <3> QED
      BY <1>4 DEF ScanInv, Retired
  <2>4. reg[v] = PinnedReg
    BY <1>4, <1>5, <1>7 DEF ScanInv
  <2>5. \A w \in Placed : reg[w] = Spilled \/ reg[w] \in Registers
    <3>1. Pinned \notin Placed
      BY <1>4, <1>7
    <3> QED
      BY <3>1 DEF ScanInv, Retired, Holders
  <2>6. Apart'
    <3> SUFFICES ASSUME NEW a \in Placed', NEW b \in Placed', a # b, Overlap(a, b),
                        reg[a] # Spilled, reg[a] = reg[b]
                 PROVE  FALSE
      BY <1>1, <1>7 DEF Apart, Overlap
    <3>1. CASE a = v \/ b = v
      BY <1>4, <2>4, <2>5, <3>1, RegistersOfUse
    <3>2. CASE a # v /\ b # v
      BY <1>4, <3>2 DEF ScanInv, Apart
    <3> QED
      BY <3>1, <3>2
  <2> QED
    BY <1>1, <1>5, <1>7, <2>1, <2>2, <2>3, <2>6 DEF ScanInv
<1>8. CASE /\ v # Pinned /\ free # << >> /\ active' = sorted /\ pool' = Tail(free)
           /\ reg' = [reg EXCEPT ![v] = Head(free)]
  <2> DEFINE r == Head(free)
  <2>1. /\ r \in ToSet(free) /\ r \in Registers
        /\ Tail(free) \in Seq(Registers) /\ OnceEach(Tail(free))
        /\ ToSet(Tail(free)) = ToSet(free) \ {r}
    BY <1>5, <1>8, TailOnce
  <2>2. \A a \in ToSet(kept) \ {} : reg[a] # r
    <3> SUFFICES ASSUME NEW a \in ToSet(kept), reg[a] = r PROVE FALSE
      OBVIOUS
    <3>1. a \in ToSet(active) /\ reg[a] \notin ToSet(pool)
      BY <1>2 DEF LeftOf, ScanInv, Holders
    <3>2. PICK b \in ToSet(active) \ ToSet(kept) : reg[b] = reg[a]
      BY <1>2, <2>1, <3>1 DEF LeftOf
    <3> QED
      BY <3>1, <3>2 DEF ScanInv, Holders
  <2>3. /\ ToSet(active') = (ToSet(kept) \union {v}) \ {}
        /\ ToSet(pool') \subseteq ToSet(free) \ {r}
        /\ DOMAIN reg' = DOMAIN reg
        /\ \A y \in DOMAIN reg : reg'[y] = IF y \in {} THEN Spilled ELSE IF y = v THEN r ELSE reg[y]
    BY <1>4, <1>5, <1>6, <1>8, <2>1
  <2>4. {} \in SUBSET (ToSet(kept) \union {v}) /\ v = order[next + 1]
    OBVIOUS
  <2>5. LeftOf(ToSet(active), interval[v].start, kept, free)
    BY <1>2 DEF at
  <2> HIDE DEF r, v
  <2>6. /\ active' \in Seq(DOMAIN interval) /\ OnceEach(active')
        /\ pool' \in Seq(Registers) /\ OnceEach(pool')
    BY <1>6, <1>8, <2>1
  <2>7. Gives(v, kept, free, {}, r)
    BY <1>8, <2>1, <2>2, <2>3, <2>4, <2>5, <2>6 DEF Gives
  <2> QED
    BY <1>1, <2>4, <2>7, GivesRegister
<1>9. CASE /\ v # Pinned /\ free = << >> /\ active' = Tail(sorted) /\ pool' = free
           /\ reg' = [reg EXCEPT ![v] = reg[Head(sorted)], ![Head(sorted)] = Spilled]
  <2> DEFINE s == Head(sorted)
             r == IF s = v THEN Spilled ELSE reg[s]
             gone == {s}
  <2>1. /\ s \in ToSet(sorted) /\ Tail(sorted) \in Seq(DOMAIN interval) /\ OnceEach(Tail(sorted))
        /\ ToSet(Tail(sorted)) = ToSet(sorted) \ {s} /\ s \in DOMAIN interval
    BY <1>6, TailOnce
  <2>2. /\ ToSet(kept) \subseteq ToSet(active)
        /\ \A a \in ToSet(kept) : reg[a] \in Registers
        /\ \A a, b \in ToSet(kept) : reg[a] = reg[b] => a = b
    BY <1>2 DEF LeftOf, ScanInv, Holders
  <2>3. r \in Registers \/ v \in gone
    BY <1>6, <2>1, <2>2
  <2>4. \A a \in ToSet(kept) \ gone : reg[a] # r
    BY <1>6, <2>1, <2>2, RegistersOfUse
  <2>5. /\ ToSet(active') = (ToSet(kept) \union {v}) \ gone
        /\ DOMAIN reg' = DOMAIN reg
        /\ \A y \in DOMAIN reg : reg'[y] = IF y \in gone THEN Spilled ELSE IF y = v THEN r ELSE reg[y]
    BY <1>4, <1>5, <1>6, <1>9, <2>1
  <2>6. ToSet(pool') \subseteq ToSet(free) \ {r}
    <3>1. ToSet(<< >>) = {}
      BY DEF ToSet
    <3> QED
      BY <1>9, <3>1
  <2>7. gone \in SUBSET (ToSet(kept) \union {v}) /\ v = order[next + 1]
    BY <1>6, <2>1
  <2>8. LeftOf(ToSet(active), interval[v].start, kept, free)
    BY <1>2 DEF at
  <2> HIDE DEF gone, r, v, s
  <2>9. /\ active' \in Seq(DOMAIN interval) /\ OnceEach(active')
        /\ pool' \in Seq(Registers) /\ OnceEach(pool')
    BY <1>5, <1>9, <2>1 DEF s
  <2>10. v # Pinned
    BY <1>9
  <2>11. Gives(v, kept, free, gone, r)
    BY <2>3, <2>4, <2>5, <2>6, <2>7, <2>8, <2>9, <2>10 DEF Gives
  <2> QED
    BY <1>1, <2>7, <2>11, GivesRegister
<1> QED
  BY <1>3, <1>7, <1>8, <1>9

-----------------------------------------------------------------------------
(* The uses of variables, in the order they are met.                       *)

(* A sequence of code, uses or arguments.                                  *)
LEMMA IsSequenceFacts ==
  ASSUME NEW s, IsSequence(s)
  PROVE  s \in Seq(ToSet(s)) /\ DOMAIN s = 1..Len(s) /\ Len(s) \in Nat
<1>1. s \in Seq(ToSet(s))
  BY DEF IsSequence
<1> QED
  BY <1>1, LenProperties

(* A sequence over any set is one over its members.                        *)
LEMMA IsSequenceFrom ==
  ASSUME NEW T, NEW s \in Seq(T) PROVE IsSequence(s)
<1>1. DOMAIN s = 1..Len(s) /\ Len(s) \in Nat
  BY LenProperties
<1>2. \A i \in 1..Len(s) : s[i] \in ToSet(s)
  BY <1>1 DEF ToSet
<1>3. s = [i \in 1..Len(s) |-> s[i]]
  BY <1>1
<1> QED
  BY <1>1, <1>2, <1>3, IsASeq DEF IsSequence

(* A function on 1..n is a sequence.                                       *)
LEMMA IsSequenceMap ==
  ASSUME NEW n \in Nat, NEW s, s = [i \in 1..n |-> s[i]]
  PROVE  IsSequence(s) /\ Len(s) = n
<1>1. DOMAIN s = 1..n /\ \A i \in 1..n : s[i] \in ToSet(s)
  BY DEF ToSet
<1>2. s \in [1..n -> ToSet(s)]
  BY <1>1
<1>3. s \in Seq(ToSet(s))
  BY <1>2
<1>4. Len(s) = n
  BY <1>1, <1>3, LenProperties
<1> QED
  BY <1>3, <1>4 DEF IsSequence

(* One after the other.                                                    *)
LEMMA Joined ==
  ASSUME NEW s, NEW t, IsSequence(s), IsSequence(t)
  PROVE  /\ IsSequence(s \o t) /\ DOMAIN (s \o t) = 1..(Len(s) + Len(t))
         /\ Len(s) \in Nat /\ Len(t) \in Nat /\ DOMAIN s = 1..Len(s) /\ DOMAIN t = 1..Len(t)
         /\ Len(s \o t) = Len(s) + Len(t)
         /\ \A i \in 1..(Len(s) + Len(t)) :
              (s \o t)[i] = IF i <= Len(s) THEN s[i] ELSE t[i - Len(s)]
<1> DEFINE T == ToSet(s) \union ToSet(t)
<1>1. s \in Seq(T) /\ t \in Seq(T)
  <2>1. s \in Seq(ToSet(s)) /\ t \in Seq(ToSet(t))
    BY DEF IsSequence
  <2>2. ToSet(s) \subseteq T /\ ToSet(t) \subseteq T
    OBVIOUS
  <2> HIDE DEF T
  <2> QED
    BY <2>1, <2>2, SeqMonotonic
<1> HIDE DEF T
<1>2. /\ s \o t \in Seq(T) /\ Len(s \o t) = Len(s) + Len(t)
      /\ \A i \in 1..(Len(s) + Len(t)) :
              (s \o t)[i] = IF i <= Len(s) THEN s[i] ELSE t[i - Len(s)]
  BY <1>1, ConcatProperties
<1>3. IsSequence(s \o t) /\ DOMAIN (s \o t) = 1..Len(s \o t)
  BY <1>2, IsSequenceFrom, LenProperties
<1> QED
  BY <1>1, <1>2, <1>3, IsSequenceFacts

(* Flattening joins one after the other.                                   *)
Flattens(g, seqs, n) ==
  /\ g[0] = << >> /\ FlattenSeq(seqs) = g[n]
  /\ \A i \in 0..n : IsSequence(g[i])
  /\ \A i \in 1..n : g[i] = g[i - 1] \o seqs[i]

(* FlattenSeq joins the sequences one after the other.                     *)
LEMMA Flattened ==
  ASSUME NEW seqs, IsSequence(seqs), \A i \in DOMAIN seqs : IsSequence(seqs[i])
  PROVE  \E g : Flattens(g, seqs, Len(seqs))
<1> DEFINE n == Len(seqs)
           T == UNION { ToSet(seqs[i]) : i \in 1..n }
           X == Seq(T)
           step == [i \in 1..n |-> [x \in X |-> x \o seqs[i]]]
           Goes(h) == h = [i \in 1..n |-> IF i = 1 THEN seqs[i] ELSE h[i - 1] \o seqs[i]]
           flatten == CHOOSE h : Goes(h)
<1>1. n \in Nat /\ DOMAIN seqs = 1..n
  BY IsSequenceFacts
<1>2. \A i \in 1..n : seqs[i] \in X
  <2> SUFFICES ASSUME NEW i \in 1..n PROVE seqs[i] \in X
    OBVIOUS
  <2>1. seqs[i] \in Seq(ToSet(seqs[i])) /\ ToSet(seqs[i]) \subseteq T
    BY <1>1 DEF IsSequence
  <2> HIDE DEF T, n
  <2> QED
    BY <2>1, SeqMonotonic
<1> HIDE DEF T, n
<1>3. step \in [1..n -> [X -> X]]
  <2>1. \A i \in 1..n : \A x \in X : x \o seqs[i] \in X
    BY <1>2, ConcatProperties
  <2> QED
    BY <2>1
<1>4. PICK f \in [0..n -> X] : f[0] = << >> /\ \A i \in 1..n : f[i] = step[i][f[i - 1]]
  <2>1. << >> \in X
    OBVIOUS
  <2> HIDE DEF X, step
  <2>2. Determined(n, X, << >>, step)
    BY <1>1, <1>3, <2>1, Recursion
  <2> QED
    BY <2>2 DEF Determined
<1>5. \A i \in 1..n : f[i] = f[i - 1] \o seqs[i]
  <2>1. \A i \in 1..n : f[i - 1] \in X
    BY <1>1
  <2> HIDE DEF X
  <2> QED
    BY <1>4, <2>1
<1>6. \A i \in 0..n : IsSequence(f[i])
  BY <1>1, IsSequenceFrom
<1>7. \A i \in 1..n : f[i] = IF i = 1 THEN seqs[i] ELSE f[i - 1] \o seqs[i]
  <2>1. ASSUME NEW i \in 1..n, i = 1 PROVE f[i] = seqs[i]
    <3>1. i - 1 = 0
      BY <2>1
    <3>2. f[i] = f[0] \o seqs[i]
      BY <1>5, <3>1
    <3>3. << >> \o seqs[i] = seqs[i]
      BY <1>2, ConcatEmptySeq
    <3> QED
      BY <1>4, <3>2, <3>3
  <2> QED
    BY <1>5, <2>1
<1>8. Goes(flatten)
  <2> DEFINE h == [i \in 1..n |-> f[i]]
  <2>1. \A i \in 1..n : i # 1 => i - 1 \in 1..n
    BY <1>1
  <2>2. Goes(h)
    BY <1>7, <2>1
  <2> HIDE DEF Goes, h
  <2> QED
    BY <2>2
<1> HIDE DEF flatten
<1>9. 0..n \subseteq { i \in 0..n : i > 0 => flatten[i] = f[i] }
  <2> DEFINE S == { i \in 0..n : i > 0 => flatten[i] = f[i] }
  <2>1. 0 \in S
    BY <1>1
  <2>2. ASSUME NEW i \in 1..n, i - 1 \in S PROVE i \in S
    <3>1. flatten[i] = IF i = 1 THEN seqs[i] ELSE flatten[i - 1] \o seqs[i]
      BY <1>8
    <3>2. i # 1 => flatten[i - 1] = f[i - 1]
      BY <2>2
    <3> QED
      BY <1>1, <1>7, <3>1, <3>2
  <2> HIDE DEF S
  <2> QED
    BY <1>1, <2>1, <2>2, UpTo DEF S
<1>10. FlattenSeq(seqs) = f[n]
  <2>1. CASE n = 0
    <3>1. FlattenSeq(seqs) = seqs
      BY <2>1 DEF FlattenSeq, n
    <3>2. seqs = << >>
      BY <2>1, IsSequenceFacts, EmptySeq DEF n
    <3> QED
      BY <1>4, <2>1, <3>1, <3>2
  <2>2. CASE n # 0
    <3>1. FlattenSeq(seqs) = flatten[n]
      BY <2>2 DEF FlattenSeq, n, flatten
    <3>2. n \in 0..n /\ n > 0
      BY <1>1, <2>2
    <3> QED
      BY <1>9, <3>1, <3>2
  <2> QED
    BY <2>1, <2>2
<1> QED
  BY <1>4, <1>5, <1>6, <1>10 DEF Flattens, n

(* From lo to hi, and never back.                                          *)
Timed(s, lo, hi) ==
  /\ IsSequence(s)
  /\ \A i \in DOMAIN s : s[i].at \in lo..hi
  /\ \A i, j \in DOMAIN s : i <= j => s[i].at <= s[j].at

(* Uses met at times lo..mid, then at times mid..hi.                       *)
LEMMA JoinedTimed ==
  ASSUME NEW lo \in Nat, NEW mid \in Nat, NEW hi \in Nat, lo <= mid, mid <= hi,
         NEW s, NEW t, Timed(s, lo, mid), Timed(t, mid, hi)
  PROVE  Timed(s \o t, lo, hi)
<1>1. /\ IsSequence(s \o t) /\ DOMAIN (s \o t) = 1..(Len(s) + Len(t))
      /\ Len(s) \in Nat /\ Len(t) \in Nat /\ DOMAIN s = 1..Len(s) /\ DOMAIN t = 1..Len(t)
      /\ \A i \in 1..(Len(s) + Len(t)) :
            (s \o t)[i] = IF i <= Len(s) THEN s[i] ELSE t[i - Len(s)]
  BY Joined DEF Timed
<1> SUFFICES ASSUME NEW u, u = s \o t PROVE Timed(u, lo, hi)
  OBVIOUS
<1>2. \A i \in 1..(Len(s) + Len(t)) :
        \/ i \in DOMAIN s /\ u[i] = s[i]
        \/ i - Len(s) \in DOMAIN t /\ u[i] = t[i - Len(s)] /\ i > Len(s)
  BY <1>1
<1>3. /\ \A i \in DOMAIN s : s[i].at \in lo..mid
      /\ \A i \in DOMAIN t : t[i].at \in mid..hi
  BY DEF Timed
<1>4. \A i \in DOMAIN u : u[i].at \in lo..hi
  BY <1>1, <1>2, <1>3
<1>5. ASSUME NEW i \in DOMAIN u, NEW j \in DOMAIN u, i <= j PROVE u[i].at <= u[j].at
  <2>1. CASE i \in DOMAIN s /\ u[i] = s[i] /\ j \in DOMAIN s /\ u[j] = s[j]
    BY <1>5, <2>1 DEF Timed
  <2>2. CASE i - Len(s) \in DOMAIN t /\ u[i] = t[i - Len(s)]
              /\ j - Len(s) \in DOMAIN t /\ u[j] = t[j - Len(s)]
    <3>1. i - Len(s) <= j - Len(s)
      BY <1>1, <1>5
    <3> QED
      BY <2>2, <3>1 DEF Timed
  <2>3. CASE i \in DOMAIN s /\ u[i] = s[i] /\ j - Len(s) \in DOMAIN t /\ u[j] = t[j - Len(s)]
    BY <1>3, <2>3
  <2>4. ~(j \in DOMAIN s /\ i > Len(s))
    BY <1>1, <1>5
  <2> QED
    BY <1>1, <1>2, <2>1, <2>2, <2>3, <2>4
<1> QED
  BY <1>1, <1>4, <1>5 DEF Timed

(* A narrower span of times is within a wider one.                         *)
LEMMA TimedWithin ==
  ASSUME NEW lo \in Nat, NEW hi \in Nat, NEW a \in lo..hi, NEW b \in lo..hi,
         NEW s, Timed(s, a, b)
  PROVE  Timed(s, lo, hi)
<1>1. \A i \in DOMAIN s : s[i].at \in lo..hi
  BY DEF Timed
<1> QED
  BY <1>1 DEF Timed

(* Uses at one place in the code.                                          *)
LEMMA TimedAt ==
  ASSUME NEW used, IsSequence(used), NEW k \in Nat,
         NEW s, s = [i \in DOMAIN used |-> [var |-> used[i], at |-> k]]
  PROVE  Timed(s, k, k)
<1>1. DOMAIN used = 1..Len(used) /\ Len(used) \in Nat
  BY IsSequenceFacts
<1>2. DOMAIN s = 1..Len(used) /\ \A i \in DOMAIN s : s[i].at = k
  BY <1>1
<1>3. s = [i \in 1..Len(used) |-> s[i]]
  BY <1>1
<1>4. IsSequence(s)
  BY <1>1, <1>3, IsSequenceMap
<1> QED
  BY <1>2, <1>4 DEF Timed

(* The uses of the byte codes, one after the other.                        *)
LEMMA FlattenedTimed ==
  ASSUME NEW seqs, IsSequence(seqs),
         \A i \in DOMAIN seqs : Timed(seqs[i], i - 1, i)
  PROVE  Timed(FlattenSeq(seqs), 0, Len(seqs))
<1>1. DOMAIN seqs = 1..Len(seqs) /\ Len(seqs) \in Nat
  BY IsSequenceFacts
<1>2. PICK g : Flattens(g, seqs, Len(seqs))
  BY Flattened DEF Timed
<1> SUFFICES ASSUME NEW n \in Nat, n = Len(seqs) PROVE Timed(g[n], 0, n)
  BY <1>1, <1>2 DEF Flattens
<1> DEFINE S == { i \in 0..n : Timed(g[i], 0, i) }
<1>3. 0 \in S
  <2>1. g[0] = << >> /\ IsSequence(g[0]) /\ DOMAIN g[0] = {}
    BY <1>2 DEF Flattens
  <2>2. Timed(g[0], 0, 0)
    BY <2>1 DEF Timed
  <2> QED
    BY <2>2
<1>4. ASSUME NEW i \in 1..n, i - 1 \in S PROVE i \in S
  <2>1. Timed(g[i - 1], 0, i - 1) /\ Timed(seqs[i], i - 1, i) /\ g[i] = g[i - 1] \o seqs[i]
    BY <1>1, <1>2, <1>4 DEF Flattens
  <2>2. i - 1 \in Nat /\ i \in Nat /\ 0 <= i - 1 /\ i - 1 <= i /\ i \in 0..n /\ 0 \in Nat
    OBVIOUS
  <2>3. Timed(g[i - 1] \o seqs[i], 0, i)
    BY <2>1, <2>2, JoinedTimed
  <2> QED
    BY <2>1, <2>2, <2>3
<1>5. n \in S
  <2> HIDE DEF S
  <2>1. 0..n \subseteq S
    BY <1>3, <1>4, UpTo
  <2> QED
    BY <2>1
<1> QED
  BY <1>5

(* A sequence of one.                                                      *)
LEMMA Single ==
  ASSUME NEW x
  PROVE  IsSequence(<<x>>) /\ \A i \in DOMAIN <<x>> : <<x>>[i] = x
<1>1. <<x>> \in Seq({x}) /\ \A i \in DOMAIN <<x>> : <<x>>[i] = x
  OBVIOUS
<1> QED
  BY <1>1, IsSequenceFrom

(* The variables an operand uses are a sequence.                           *)
LEMMA UsedByIsSequence ==
  ASSUME NEW o
  PROVE  IsSequence(UsedBy(o)) /\ IsSequence(ClassUsedBy(o))
<1>1. \A x : IsSequence(<<x>>)
  BY Single
<1>2. ASSUME NEW x, NEW y PROVE IsSequence(<<x, y>>)
  <2>1. <<x, y>> \in Seq({x, y})
    OBVIOUS
  <2> QED
    BY <2>1, IsSequenceFrom
<1>3. IsSequence(<< >>)
  <2>1. << >> \in Seq({})
    OBVIOUS
  <2> QED
    BY <2>1, IsSequenceFrom
<1>4. \/ UsedBy(o) = << >> \/ UsedBy(o) = <<Tmp(o.index)>> \/ UsedBy(o) = <<SelfVar>>
      \/ UsedBy(o) = <<Context(o.level)>> \/ UsedBy(o) = <<Assoc(o.index)>>
      \/ UsedBy(o) = <<SelfVar, Context(0)>>
  BY DEF UsedBy
<1>5. IsSequence(UsedBy(o))
  BY <1>1, <1>2, <1>3, <1>4
<1>6. IsSequence(ClassUsedBy(o))
  BY <1>1, <1>3 DEF ClassUsedBy
<1> QED
  BY <1>5, <1>6

(* A byte code uses variables where it is, and stores after that.          *)
LEMMA UsesTimed ==
  ASSUME NEW b, b.op = "SEND" => IsSequence(b.args), NEW n \in Nat
  PROVE  Timed(Uses(b, n), n, n + 1)
<1> DEFINE at(used, k) == [i \in DOMAIN used |-> [var |-> used[i], at |-> k]]
           args == [i \in DOMAIN b.args |-> UsedBy(b.args[Len(b.args) + 1 - i])]
<1>1. ASSUME NEW used, IsSequence(used), NEW k \in Nat PROVE Timed(at(used, k), k, k)
  BY <1>1, TimedAt
<1> HIDE DEF at
<1>2. n \in n..(n + 1) /\ n + 1 \in n..(n + 1) /\ n + 1 \in Nat /\ n <= n + 1
  OBVIOUS
<1>3. CASE b.op = "COPY"
  <2>1. Uses(b, n) = at(UsedBy(b.from) \o UsedBy(b.to), n)
    BY <1>3 DEF Uses, at
  <2>2. IsSequence(UsedBy(b.from) \o UsedBy(b.to))
    BY UsedByIsSequence, Joined
  <2>3. Timed(Uses(b, n), n, n)
    BY <1>1, <2>1, <2>2
  <2> QED
    BY <1>2, <2>3, TimedWithin
<1>4. CASE b.op = "SEND"
  <2>1. Uses(b, n) = at(ClassUsedBy(b.receiver) \o UsedBy(b.receiver) \o FlattenSeq(args), n)
                       \o at(UsedBy(b.store), n + 1)
    BY <1>4 DEF Uses, at
  <2>2. DOMAIN b.args = 1..Len(b.args) /\ Len(b.args) \in Nat
    BY <1>4, IsSequenceFacts
  <2>3. IsSequence(args) /\ \A i \in DOMAIN args : IsSequence(args[i])
    <3>1. args = [i \in 1..Len(b.args) |-> args[i]]
      BY <2>2
    <3>2. \A i \in DOMAIN args : IsSequence(args[i])
      BY UsedByIsSequence
    <3> HIDE DEF args
    <3> QED
      BY <2>2, <3>1, <3>2, IsSequenceMap
  <2> HIDE DEF args
  <2>4. IsSequence(FlattenSeq(args))
    <3>1. PICK g : Flattens(g, args, Len(args))
      BY <2>3, Flattened
    <3>2. Len(args) \in Nat
      BY <2>3, IsSequenceFacts
    <3> QED
      BY <3>1, <3>2 DEF Flattens
  <2>5. IsSequence(ClassUsedBy(b.receiver) \o UsedBy(b.receiver) \o FlattenSeq(args))
    BY <2>4, UsedByIsSequence, Joined
  <2>6. Timed(at(ClassUsedBy(b.receiver) \o UsedBy(b.receiver) \o FlattenSeq(args), n), n, n)
    BY <1>1, <2>5
  <2>7. Timed(at(UsedBy(b.store), n + 1), n + 1, n + 1)
    BY <1>1, <1>2, UsedByIsSequence
  <2>8. Timed(at(UsedBy(b.store), n + 1), n, n + 1)
    BY <1>2, <2>7, TimedWithin
  <2> QED
    BY <1>2, <2>1, <2>6, <2>8, JoinedTimed
<1>5. CASE b.op \notin {"COPY", "SEND"}
  <2>1. Uses(b, n) = at(UsedBy(b.value), n)
    BY <1>5 DEF Uses, at
  <2>2. Timed(Uses(b, n), n, n)
    BY <1>1, <2>1, UsedByIsSequence
  <2> QED
    BY <1>2, <2>2, TimedWithin
<1> QED
  BY <1>3, <1>4, <1>5

(* What two sequences hold together.                                       *)
LEMMA JoinedSet ==
  ASSUME NEW s, NEW t, IsSequence(s), IsSequence(t)
  PROVE  ToSet(s \o t) = ToSet(s) \union ToSet(t)
<1> DEFINE u == s \o t
<1>1. /\ DOMAIN u = 1..(Len(s) + Len(t))
      /\ Len(s) \in Nat /\ Len(t) \in Nat /\ DOMAIN s = 1..Len(s) /\ DOMAIN t = 1..Len(t)
      /\ \A i \in 1..(Len(s) + Len(t)) : u[i] = IF i <= Len(s) THEN s[i] ELSE t[i - Len(s)]
  BY Joined
<1> HIDE DEF u
<1>2. \A i \in DOMAIN u : u[i] \in ToSet(s) \union ToSet(t)
  <2>1. \A i \in DOMAIN u : i \in DOMAIN s \/ (i - Len(s) \in DOMAIN t /\ ~(i <= Len(s)))
    BY <1>1
  <2>2. \A i \in DOMAIN s : i \in DOMAIN u /\ i <= Len(s)
    BY <1>1
  <2> QED
    BY <1>1, <2>1, <2>2 DEF ToSet
<1>3. \A i \in DOMAIN s : s[i] \in ToSet(u)
  <2>1. \A i \in DOMAIN s : i \in DOMAIN u /\ u[i] = s[i]
    BY <1>1
  <2> QED
    BY <2>1 DEF ToSet
<1>4. \A i \in DOMAIN t : t[i] \in ToSet(u)
  <2>1. \A i \in DOMAIN t : i + Len(s) \in DOMAIN u /\ ~(i + Len(s) <= Len(s)) /\ i + Len(s) - Len(s) = i
    BY <1>1
  <2>2. \A i \in DOMAIN t : u[i + Len(s)] = t[i]
    BY <1>1, <2>1
  <2> QED
    BY <2>1, <2>2 DEF ToSet
<1> QED
  BY <1>2, <1>3, <1>4 DEF ToSet, u

(* What FlattenSeq holds.                                                  *)
LEMMA FlattenedSet ==
  ASSUME NEW seqs, IsSequence(seqs), \A i \in DOMAIN seqs : IsSequence(seqs[i])
  PROVE  /\ IsSequence(FlattenSeq(seqs))
         /\ \A i \in DOMAIN seqs : ToSet(seqs[i]) \subseteq ToSet(FlattenSeq(seqs))
<1> DEFINE n == Len(seqs)
<1>1. n \in Nat /\ DOMAIN seqs = 1..n
  BY IsSequenceFacts
<1>2. PICK g : Flattens(g, seqs, n)
  BY Flattened
<1> HIDE DEF n
<1>3. /\ FlattenSeq(seqs) = g[n] /\ \A i \in 0..n : IsSequence(g[i])
      /\ \A i \in 1..n : g[i] = g[i - 1] \o seqs[i]
  BY <1>2 DEF Flattens
<1> DEFINE S == { k \in 0..n : \A i \in 1..k : ToSet(seqs[i]) \subseteq ToSet(g[k]) }
<1>4. 0 \in S
  BY <1>1
<1>5. ASSUME NEW k \in 1..n, k - 1 \in S PROVE k \in S
  <2>1. k - 1 \in 0..n /\ k \in 0..n /\ \A i \in 1..k : i = k \/ i \in 1..(k - 1)
    BY <1>1
  <2>2. IsSequence(g[k - 1]) /\ IsSequence(seqs[k]) /\ g[k] = g[k - 1] \o seqs[k]
    BY <1>1, <1>3, <2>1
  <2>3. ToSet(g[k]) = ToSet(g[k - 1]) \union ToSet(seqs[k])
    BY <2>2, JoinedSet
  <2>4. \A i \in 1..(k - 1) : ToSet(seqs[i]) \subseteq ToSet(g[k - 1])
    BY <1>5
  <2> QED
    BY <2>1, <2>3, <2>4
<1>6. n \in S
  <2> HIDE DEF S
  <2>1. 0..n \subseteq S
    BY <1>1, <1>4, <1>5, UpTo
  <2> QED
    BY <1>1, <2>1
<1> QED
  BY <1>1, <1>3, <1>6

UsesAt(S, k) == { [var |-> v, at |-> k] : v \in S }

(* Uses at one byte code, as a set.                                        *)
LEMMA AtSet ==
  ASSUME NEW used, NEW k, NEW s, s = [i \in DOMAIN used |-> [var |-> used[i], at |-> k]]
  PROVE  ToSet(s) = UsesAt(ToSet(used), k)
BY DEF ToSet, UsesAt

UsedSet(o) == ToSet(UsedBy(o))
(* A byte code uses its operands' variables, and a send its receiver's     *)
(* class, where it is; what it stores into just after.                     *)
Using(b) ==
  CASE b.op = "COPY" -> UsedSet(b.from) \union UsedSet(b.to)
    [] b.op = "SEND" -> ToSet(ClassUsedBy(b.receiver)) \union UsedSet(b.receiver)
                          \union UNION { UsedSet(o) : o \in ToSet(b.args) }
    [] OTHER -> UsedSet(b.value)
UsingThen(b) == IF b.op = "SEND" THEN UsedSet(b.store) ELSE {}

(* The scan meets every use of a byte code.                                *)
LEMMA UsesHave ==
  ASSUME NEW b, b.op = "SEND" => IsSequence(b.args), NEW n \in Nat
  PROVE  UsesAt(Using(b), n) \union UsesAt(UsingThen(b), n + 1) \subseteq ToSet(Uses(b, n))
<1> DEFINE at(used, k) == [i \in DOMAIN used |-> [var |-> used[i], at |-> k]]
           args == [i \in DOMAIN b.args |-> UsedBy(b.args[Len(b.args) + 1 - i])]
<1>1. \A used, k : ToSet(at(used, k)) = UsesAt(ToSet(used), k)
  BY AtSet
<1>2. ASSUME NEW used, IsSequence(used), NEW k \in Nat PROVE IsSequence(at(used, k))
  BY <1>2, TimedAt DEF Timed
<1> HIDE DEF at
<1>3. CASE b.op = "COPY"
  <2>1. Uses(b, n) = at(UsedBy(b.from) \o UsedBy(b.to), n)
    BY <1>3 DEF Uses, at
  <2>2. ToSet(UsedBy(b.from) \o UsedBy(b.to)) = UsedSet(b.from) \union UsedSet(b.to)
    BY UsedByIsSequence, JoinedSet DEF UsedSet
  <2>3. UsingThen(b) = {} /\ Using(b) = UsedSet(b.from) \union UsedSet(b.to)
    BY <1>3 DEF UsingThen, Using
  <2>4. ToSet(Uses(b, n)) = UsesAt(Using(b), n)
    BY <1>1, <2>1, <2>2, <2>3
  <2> QED
    BY <2>3, <2>4 DEF UsesAt
<1>4. CASE b.op = "SEND"
  <2> DEFINE c == ClassUsedBy(b.receiver)
             r == UsedBy(b.receiver)
             f == FlattenSeq(args)
             s == UsedBy(b.store)
             now == at((c \o r) \o f, n)
             then == at(s, n + 1)
  <2>1. Uses(b, n) = now \o then
    BY <1>4 DEF Uses, at
  <2>2. DOMAIN b.args = 1..Len(b.args) /\ Len(b.args) \in Nat
    BY <1>4, IsSequenceFacts
  <2>3. IsSequence(args) /\ \A i \in DOMAIN args : IsSequence(args[i])
    <3>1. args = [i \in 1..Len(b.args) |-> args[i]]
      BY <2>2
    <3>2. \A i \in DOMAIN args : IsSequence(args[i])
      BY UsedByIsSequence
    <3> HIDE DEF args
    <3> QED
      BY <2>2, <3>1, <3>2, IsSequenceMap
  <2>4. \A o \in ToSet(b.args) : \E i \in DOMAIN args : args[i] = UsedBy(o)
    <3> SUFFICES ASSUME NEW k \in 1..Len(b.args) PROVE \E i \in DOMAIN args : args[i] = UsedBy(b.args[k])
      BY <2>2 DEF ToSet
    <3>1. Len(b.args) + 1 - k \in 1..Len(b.args) /\ Len(b.args) + 1 - (Len(b.args) + 1 - k) = k
      BY <2>2
    <3>2. args[Len(b.args) + 1 - k] = UsedBy(b.args[k])
      BY <2>2, <3>1
    <3> QED
      BY <2>2, <3>1, <3>2
  <2> HIDE DEF args
  <2>5. IsSequence(f) /\ \A i \in DOMAIN args : ToSet(args[i]) \subseteq ToSet(f)
    BY <2>3, FlattenedSet
  <2>6. UNION { UsedSet(o) : o \in ToSet(b.args) } \subseteq ToSet(f)
    BY <2>4, <2>5 DEF UsedSet
  <2>7. IsSequence(c) /\ IsSequence(r) /\ IsSequence(s)
    BY UsedByIsSequence
  <2> HIDE DEF c, r, f, s
  <2>8. IsSequence(c \o r) /\ ToSet(c \o r) = ToSet(c) \union ToSet(r)
    BY <2>7, Joined, JoinedSet
  <2>9. /\ IsSequence((c \o r) \o f)
        /\ ToSet((c \o r) \o f) = ToSet(c) \union ToSet(r) \union ToSet(f)
    BY <2>5, <2>8, Joined, JoinedSet
  <2>10. IsSequence(now) /\ IsSequence(then)
    BY <1>2, <2>7, <2>9
  <2>11. /\ ToSet(now) = UsesAt(ToSet(c) \union ToSet(r) \union ToSet(f), n)
         /\ ToSet(then) = UsesAt(ToSet(s), n + 1)
    BY <1>1, <2>9
  <2> HIDE DEF now, then
  <2>12. ToSet(Uses(b, n)) = ToSet(now) \union ToSet(then)
    BY <2>1, <2>10, JoinedSet
  <2>13. Using(b) \subseteq ToSet(c) \union ToSet(r) \union ToSet(f) /\ UsingThen(b) = ToSet(s)
    BY <1>4, <2>6 DEF Using, UsingThen, c, r, s, UsedSet
  <2>14. UsesAt(Using(b), n) \subseteq ToSet(now) /\ UsesAt(UsingThen(b), n + 1) = ToSet(then)
    BY <2>11, <2>13 DEF UsesAt
  <2> QED
    BY <2>12, <2>14
<1>5. CASE b.op \notin {"COPY", "SEND"}
  <2>1. Uses(b, n) = at(UsedBy(b.value), n)
    BY <1>5 DEF Uses, at
  <2>3. UsingThen(b) = {} /\ Using(b) = UsedSet(b.value)
    BY <1>5 DEF UsingThen, Using
  <2>4. ToSet(Uses(b, n)) = UsesAt(Using(b), n)
    BY <1>1, <2>1, <2>3 DEF UsedSet
  <2> QED
    BY <2>3, <2>4 DEF UsesAt
<1> QED
  BY <1>3, <1>4, <1>5

(* What units are made of.                                                 *)
LEMMA UnitFacts ==
  ASSUME NEW u \in Units
  PROVE  /\ u.argsSize \in Nat /\ u.tempsSize \in Nat /\ IsSequence(u.code)
         /\ DOMAIN u.code = 1..Len(u.code) /\ Len(u.code) \in Nat
         /\ \A p \in 1..Len(u.code) : BytecodeOf(u, u.code[p])
         /\ \A p \in 1..Len(u.code) : u.code[p].op = "SEND" => IsSequence(u.code[p].args)
<1>1. /\ u.argsSize \in Nat /\ u.tempsSize \in Nat /\ IsSequence(u.code)
      /\ \A b \in ToSet(u.code) : BytecodeOf(u, b)
  BY UnitsAssumption
<1>2. DOMAIN u.code = 1..Len(u.code) /\ Len(u.code) \in Nat
  BY <1>1, IsSequenceFacts
<1>3. \A p \in 1..Len(u.code) : u.code[p] \in ToSet(u.code)
  BY <1>2 DEF ToSet
<1>4. \A b : (BytecodeOf(u, b) /\ b.op = "SEND") => IsSequence(b.args)
  BY DEF BytecodeOf
<1> QED
  BY <1>1, <1>2, <1>3, <1>4

(* The uses of a unit, met in the order of the code: but the receiver's,   *)
(* which code that ends without a return answers, comes last.              *)
LastOf(u) == [var |-> SelfVar, at |-> IF Len(u.code) = 0 THEN 0 ELSE Len(u.code) - 1]
Begins(u) == { Tmp(i) : i \in 1..(u.argsSize + 1) } \union {Context(0)}
Met(u, s, d) ==
  /\ AllUses(u) = s \o d /\ Timed(s, 0, Len(u.code)) /\ IsSequence(d)
  /\ UsesAt(Begins(u), 0) \subseteq ToSet(s)
  /\ \A p \in 1..Len(u.code) : ToSet(Uses(u.code[p], p - 1)) \subseteq ToSet(s)
  /\ ToSet(d) = IF Returns(u.code) THEN {} ELSE {LastOf(u)}

(* What the scan of a unit meets, in two parts.                            *)
LEMMA AllUsesMet ==
  ASSUME NEW u \in Units
  PROVE  \E s, d : Met(u, s, d)
<1> DEFINE n == Len(u.code)
           a == [i \in 1 .. u.argsSize + 1 |-> [var |-> Tmp(u.argsSize + 2 - i), at |-> 0]]
           b == <<[var |-> Context(0), at |-> 0]>>
           p == [i \in 1 .. n |-> Uses(u.code[i], i - 1)]
           c == FlattenSeq(p)
           last == [var |-> SelfVar, at |-> IF n = 0 THEN 0 ELSE n - 1]
           d == IF Returns(u.code) THEN << >> ELSE <<last>>
<1>1. /\ u.argsSize \in Nat /\ n \in Nat /\ DOMAIN u.code = 1..n
      /\ \A i \in 1..n : u.code[i].op = "SEND" => IsSequence(u.code[i].args)
  BY UnitFacts
<1>2. AllUses(u) = ((a \o b) \o c) \o d
  BY DEF AllUses
<1>2a. LastOf(u) = last
  BY DEF LastOf
<1> HIDE DEF n, last
<1>3. Timed(a, 0, 0) /\ UsesAt({ Tmp(i) : i \in 1..(u.argsSize + 1) }, 0) \subseteq ToSet(a)
  <2>1. u.argsSize + 1 \in Nat /\ a = [i \in 1..(u.argsSize + 1) |-> a[i]]
    BY <1>1
  <2>2. \A i \in DOMAIN a : a[i].at = 0
    OBVIOUS
  <2>3. ASSUME NEW i \in 1..(u.argsSize + 1) PROVE [var |-> Tmp(i), at |-> 0] \in ToSet(a)
    <3>1. u.argsSize + 2 - i \in DOMAIN a /\ u.argsSize + 2 - (u.argsSize + 2 - i) = i
      BY <1>1
    <3>2. a[u.argsSize + 2 - i] = [var |-> Tmp(i), at |-> 0]
      BY <3>1
    <3> HIDE DEF a
    <3> QED
      BY <3>1, <3>2 DEF ToSet
  <2> HIDE DEF a
  <2>4. IsSequence(a) /\ Len(a) = u.argsSize + 1
    BY <2>1, IsSequenceMap
  <2> QED
    BY <2>2, <2>3, <2>4 DEF Timed, UsesAt
<1>4. Timed(b, 0, 0) /\ UsesAt({Context(0)}, 0) \subseteq ToSet(b)
  <2> DEFINE use == [var |-> Context(0), at |-> 0]
  <2>1. use.at = 0 /\ b = <<use>> /\ UsesAt({Context(0)}, 0) = {use}
    BY DEF UsesAt
  <2> HIDE DEF use
  <2>2. IsSequence(b) /\ (\A i \in DOMAIN b : b[i].at = 0) /\ ToSet(b) = {use}
    BY <2>1, Single DEF ToSet
  <2> HIDE DEF b
  <2> QED
    BY <2>1, <2>2 DEF Timed
<1>5. Timed(c, 0, n) /\ \A i \in 1..n : ToSet(Uses(u.code[i], i - 1)) \subseteq ToSet(c)
  <2>1. \A i \in 1..n : Timed(p[i], i - 1, i) /\ p[i] = Uses(u.code[i], i - 1)
    <3> SUFFICES ASSUME NEW i \in 1..n PROVE Timed(Uses(u.code[i], i - 1), i - 1, i)
      OBVIOUS
    <3>1. i - 1 \in Nat /\ (i - 1) + 1 = i
      BY <1>1
    <3>2. Timed(Uses(u.code[i], i - 1), i - 1, (i - 1) + 1)
      BY <1>1, <3>1, UsesTimed
    <3> QED
      BY <3>1, <3>2
  <2>2. p = [i \in 1..n |-> p[i]] /\ DOMAIN p = 1..n
    OBVIOUS
  <2> HIDE DEF p
  <2>3. IsSequence(p) /\ Len(p) = n
    BY <1>1, <2>2, IsSequenceMap
  <2>4. \A i \in DOMAIN p : IsSequence(p[i])
    BY <2>1, <2>2 DEF Timed
  <2> QED
    BY <2>1, <2>2, <2>3, <2>4, FlattenedTimed, FlattenedSet
<1>6. IsSequence(d) /\ ToSet(d) = IF Returns(u.code) THEN {} ELSE {last}
  <2>1. CASE Returns(u.code)
    <3>1. d \in Seq({}) /\ DOMAIN d = {}
      BY <2>1
    <3> QED
      BY <2>1, <3>1, IsSequenceFrom DEF ToSet
  <2>2. CASE ~Returns(u.code)
    <3>1. d = <<last>>
      BY <2>2
    <3> HIDE DEF d
    <3> QED
      BY <2>2, <3>1, Single DEF ToSet
  <2> QED
    BY <2>1, <2>2
<1> DEFINE ab == a \o b
           abc == ab \o c
<1> HIDE DEF a, b, c, d, p
<1>7. Timed(ab, 0, 0) /\ ToSet(ab) = ToSet(a) \union ToSet(b)
  <2>1. Timed(ab, 0, 0)
    BY <1>3, <1>4, JoinedTimed
  <2>2. IsSequence(a) /\ IsSequence(b)
    BY <1>3, <1>4 DEF Timed
  <2> QED
    BY <2>1, <2>2, JoinedSet
<1> HIDE DEF ab
<1>8. Timed(abc, 0, n) /\ ToSet(abc) = ToSet(ab) \union ToSet(c)
  <2>1. Timed(abc, 0, n)
    <3>1. n \in Nat /\ 0 \in Nat /\ 0 <= 0 /\ 0 <= n /\ Timed(ab, 0, 0) /\ Timed(c, 0, n)
      BY <1>1, <1>5, <1>7
    <3> QED
      BY <3>1, JoinedTimed
  <2>2. IsSequence(ab) /\ IsSequence(c)
    BY <1>5, <1>7 DEF Timed
  <2> QED
    BY <2>1, <2>2, JoinedSet
<1> HIDE DEF abc
<1>9. UsesAt(Begins(u), 0) \subseteq ToSet(abc)
  BY <1>3, <1>4, <1>7, <1>8 DEF Begins, UsesAt
<1>10. AllUses(u) = abc \o d
  BY <1>2 DEF ab, abc
<1>11. Met(u, abc, d)
  BY <1>2a, <1>5, <1>6, <1>8, <1>9, <1>10 DEF Met, n
<1> QED
  BY <1>11

(* The first use of a variable comes after all uses met before it.         *)
InOrder(uses) ==
  /\ IsSequence(uses)
  /\ \A i \in DOMAIN uses : uses[i].at \in Nat
  /\ \A i, j \in DOMAIN uses :
       (i <= j /\ \A k \in 1..(j - 1) : uses[k].var # uses[j].var) => uses[i].at <= uses[j].at

(* The scan of a unit meets uses in the order of the code.                 *)
LEMMA AllUsesInOrder ==
  ASSUME NEW u \in Units
  PROVE  InOrder(AllUses(u))
<1>1. PICK s, d : Met(u, s, d)
  BY AllUsesMet
<1> DEFINE uses == AllUses(u)
<1>2. /\ uses = s \o d /\ Timed(s, 0, Len(u.code)) /\ IsSequence(d)
      /\ UsesAt(Begins(u), 0) \subseteq ToSet(s)
      /\ ToSet(d) = IF Returns(u.code) THEN {} ELSE {LastOf(u)}
  BY <1>1 DEF Met
<1>3. u.argsSize \in Nat /\ Len(u.code) \in Nat
  BY UnitFacts
<1> HIDE DEF uses
<1>4. /\ IsSequence(uses) /\ DOMAIN uses = 1..(Len(s) + Len(d))
      /\ Len(s) \in Nat /\ Len(d) \in Nat /\ DOMAIN s = 1..Len(s) /\ DOMAIN d = 1..Len(d)
      /\ \A i \in 1..(Len(s) + Len(d)) : uses[i] = IF i <= Len(s) THEN s[i] ELSE d[i - Len(s)]
  BY <1>2, Joined DEF Timed
<1>5. PICK k \in DOMAIN s : s[k].var = SelfVar
  <2>1. SelfVar \in Begins(u)
    BY <1>3 DEF Begins, SelfVar
  <2>2. [var |-> SelfVar, at |-> 0] \in ToSet(s)
    BY <1>2, <2>1 DEF UsesAt
  <2> QED
    BY <2>2 DEF ToSet
<1>6. \A i \in DOMAIN d : d[i].var = SelfVar /\ d[i].at \in Nat
  <2>1. LastOf(u).var = SelfVar /\ LastOf(u).at \in Nat
    BY <1>3 DEF LastOf
  <2>2. \A i \in DOMAIN d : d[i] \in ToSet(d)
    BY DEF ToSet
  <2> QED
    BY <1>2, <2>1, <2>2
<1>7. \A i \in DOMAIN uses : uses[i].at \in Nat
  <2>1. \A i \in DOMAIN s : s[i].at \in Nat
    BY <1>2, <1>3 DEF Timed
  <2>2. \A i \in DOMAIN uses : i \in DOMAIN s \/ i - Len(s) \in DOMAIN d
    BY <1>4
  <2> QED
    BY <1>4, <1>6, <2>1, <2>2
<1>8. ASSUME NEW i \in DOMAIN uses, NEW j \in DOMAIN uses, i <= j,
             \A l \in 1..(j - 1) : uses[l].var # uses[j].var
      PROVE  uses[i].at <= uses[j].at
  <2>1. CASE j <= Len(s)
    <3>1. i \in DOMAIN s /\ j \in DOMAIN s /\ uses[i] = s[i] /\ uses[j] = s[j]
      BY <1>4, <1>8, <2>1
    <3> QED
      BY <1>2, <1>8, <3>1 DEF Timed
  <2>2. CASE ~(j <= Len(s))
    <3>1. uses[j].var = SelfVar
      <4>1. j - Len(s) \in DOMAIN d /\ uses[j] = d[j - Len(s)]
        BY <1>4, <2>2
      <4> QED
        BY <1>6, <4>1
    <3>2. k \in 1..(j - 1) /\ uses[k] = s[k]
      BY <1>4, <1>5, <2>2
    <3> QED
      BY <1>5, <1>8, <3>1, <3>2
  <2> QED
    BY <2>1, <2>2
<1> QED
  BY <1>4, <1>7, <1>8 DEF InOrder, uses

-----------------------------------------------------------------------------
(* The order of the variables and their intervals.                         *)

UsesOf(uses, v) == { i \in DOMAIN uses : uses[i].var = v }
FirstUse(uses, v) == CHOOSE i \in UsesOf(uses, v) : \A j \in UsesOf(uses, v) : i <= j
LastUse(uses, v) == CHOOSE i \in UsesOf(uses, v) : \A j \in UsesOf(uses, v) : j <= i

(* The first and the last use exist and are what they are called.          *)
LEMMA UseFacts ==
  ASSUME NEW uses, IsSequence(uses), NEW k \in DOMAIN uses, NEW v, v = uses[k].var
  PROVE  /\ FirstUse(uses, v) \in UsesOf(uses, v)
         /\ \A j \in UsesOf(uses, v) : FirstUse(uses, v) <= j
         /\ LastUse(uses, v) \in UsesOf(uses, v)
         /\ \A j \in UsesOf(uses, v) : j <= LastUse(uses, v)
<1>1. DOMAIN uses = 1..Len(uses) /\ Len(uses) \in Nat
  BY IsSequenceFacts
<1>2. UsesOf(uses, v) \in SUBSET Nat /\ UsesOf(uses, v) # {}
  BY <1>1 DEF UsesOf
<1>3. \E i \in UsesOf(uses, v) : \A j \in UsesOf(uses, v) : i <= j
  BY <1>2, LeastNatural
<1>4. \E i \in UsesOf(uses, v) : \A j \in UsesOf(uses, v) : j <= i
  <2> DEFINE S == { Len(uses) - i : i \in UsesOf(uses, v) }
  <2>1. UsesOf(uses, v) \subseteq 1..Len(uses)
    BY <1>1 DEF UsesOf
  <2>2. S \in SUBSET Nat /\ S # {}
    BY <1>1, <1>2, <2>1
  <2>3. PICK m \in S : \A x \in S : m <= x
    <3> HIDE DEF S
    <3> QED
      BY <2>2, LeastNatural
  <2>4. PICK i \in UsesOf(uses, v) : m = Len(uses) - i
    OBVIOUS
  <2>5. \A j \in UsesOf(uses, v) : j <= i
    <3> SUFFICES ASSUME NEW j \in UsesOf(uses, v) PROVE j <= i
      OBVIOUS
    <3>1. Len(uses) - j \in S
      OBVIOUS
    <3>2. Len(uses) - i <= Len(uses) - j
      BY <2>3, <2>4, <3>1
    <3> QED
      BY <1>1, <2>1, <3>2
  <2> QED
    BY <2>5
<1> QED
  BY <1>3, <1>4 DEF FirstUse, LastUse

(* Every variable once, in the order of first uses.                        *)
Collected(s, uses, n) ==
  /\ IsSequence(s) /\ OnceEach(s)
  /\ ToSet(s) = { uses[i].var : i \in 1..n }
  /\ \A i, j \in DOMAIN s : i <= j => FirstUse(uses, s[i]) <= FirstUse(uses, s[j])

(* One more use is met.                                                    *)
LEMMA CollectOne ==
  ASSUME NEW uses, IsSequence(uses), NEW n \in DOMAIN uses, NEW s, Collected(s, uses, n - 1)
  PROVE  Collected(IF uses[n].var \in ToSet(s) THEN s ELSE Append(s, uses[n].var), uses, n)
<1> DEFINE v == uses[n].var
<1>1. DOMAIN uses = 1..Len(uses) /\ Len(uses) \in Nat /\ n \in 1..Len(uses)
  BY IsSequenceFacts
<1>2. { uses[i].var : i \in 1..n } = { uses[i].var : i \in 1..(n - 1) } \union {v}
  <2>1. \A i \in 1..n : i = n \/ i \in 1..(n - 1)
    BY <1>1
  <2>2. n \in 1..n /\ \A i \in 1..(n - 1) : i \in 1..n
    BY <1>1
  <2> QED
    BY <2>1, <2>2
<1>3. CASE v \in ToSet(s)
  BY <1>2, <1>3 DEF Collected
<1>4. CASE v \notin ToSet(s)
  <2> DEFINE T == ToSet(s) \union {v}
             a == Append(s, v)
  <2>1. s \in Seq(T) /\ v \in T
    <3>1. s \in Seq(ToSet(s)) /\ ToSet(s) \subseteq T
      BY DEF Collected, IsSequence
    <3> HIDE DEF T
    <3>2. s \in Seq(T)
      BY <3>1, SeqMonotonic
    <3> QED
      BY <3>2 DEF T
  <2> HIDE DEF v
  <2>2. a \in Seq(T) /\ ToSet(a) = ToSet(s) \union {v} /\ OnceEach(a)
    <3> HIDE DEF T
    <3> QED
      BY <1>4, <2>1, AppendOnce DEF Collected
  <2>3. /\ Len(a) = Len(s) + 1 /\ a[Len(s) + 1] = v
        /\ \A i \in 1..Len(s) : a[i] = s[i]
        /\ DOMAIN s = 1..Len(s) /\ Len(s) \in Nat /\ DOMAIN a = 1..Len(a)
    <3> HIDE DEF T
    <3> QED
      BY <2>1, <2>2, AppendProperties, LenProperties
  <2>4. FirstUse(uses, v) = n
    <3>1. /\ FirstUse(uses, v) \in UsesOf(uses, v)
          /\ \A j \in UsesOf(uses, v) : FirstUse(uses, v) <= j
      BY UseFacts DEF v
    <3>2. n \in UsesOf(uses, v) /\ \A j \in UsesOf(uses, v) : j \in 1..Len(uses) /\ j >= n
      <4>1. \A j \in 1..(n - 1) : uses[j].var # v
        BY <1>4 DEF Collected
      <4> QED
        BY <1>1, <4>1 DEF UsesOf, v
    <3> QED
      BY <1>1, <3>1, <3>2
  <2>5. \A i \in 1..Len(s) : FirstUse(uses, s[i]) <= n /\ FirstUse(uses, s[i]) \in Nat
    <3> SUFFICES ASSUME NEW i \in 1..Len(s)
                 PROVE  FirstUse(uses, s[i]) <= n /\ FirstUse(uses, s[i]) \in Nat
      OBVIOUS
    <3>1. PICK k \in 1..(n - 1) : s[i] = uses[k].var
      <4>1. s[i] \in ToSet(s)
        BY <2>3 DEF ToSet
      <4> QED
        BY <4>1 DEF Collected
    <3>2. k \in DOMAIN uses /\ k <= n
      BY <1>1
    <3>3. k \in UsesOf(uses, s[i])
      BY <3>1, <3>2 DEF UsesOf
    <3>4. /\ FirstUse(uses, s[i]) \in UsesOf(uses, s[i])
          /\ FirstUse(uses, s[i]) <= k
      BY <3>1, <3>2, <3>3, UseFacts
    <3> QED
      BY <1>1, <3>2, <3>4 DEF UsesOf
  <2>6. \A i, j \in DOMAIN a : i <= j => FirstUse(uses, a[i]) <= FirstUse(uses, a[j])
    <3> SUFFICES ASSUME NEW i \in 1..Len(a), NEW j \in 1..Len(a), i <= j
                 PROVE  FirstUse(uses, a[i]) <= FirstUse(uses, a[j])
      BY <2>3
    <3>1. CASE j = Len(s) + 1
      <4>1. i = Len(s) + 1 \/ i \in 1..Len(s)
        BY <2>3
      <4> QED
        BY <1>1, <2>3, <2>4, <2>5, <3>1, <4>1
    <3>2. CASE j # Len(s) + 1
      <4>1. i \in DOMAIN s /\ j \in DOMAIN s /\ a[i] = s[i] /\ a[j] = s[j]
        BY <2>3, <3>2
      <4> QED
        BY <4>1 DEF Collected
    <3> QED
      BY <3>1, <3>2
  <2>7. Collected(a, uses, n)
    <3>1. IsSequence(a)
      BY <2>2, IsSequenceFrom
    <3>2. ToSet(a) = { uses[i].var : i \in 1..n }
      BY <1>2, <2>2 DEF Collected, v
    <3> HIDE DEF a
    <3> QED
      BY <2>2, <2>6, <3>1, <3>2 DEF Collected
  <2> QED
    BY <1>4, <2>7 DEF v
<1> QED
  BY <1>3, <1>4

(* OrderOf collects each variable once, by its first use.                  *)
LEMMA OrderCollects ==
  ASSUME NEW uses, IsSequence(uses)
  PROVE  Collected(OrderOf(uses), uses, Len(uses))
<1> DEFINE n == Len(uses)
           V == { uses[i].var : i \in 1..n }
           X == Seq(V)
           After(x, i) == IF uses[i].var \in ToSet(x) THEN x ELSE Append(x, uses[i].var)
           step == [i \in 1..n |-> [x \in X |-> After(x, i)]]
           Goes(f) == f = [i \in 0..n |-> IF i = 0 THEN << >> ELSE After(f[i - 1], i)]
           defined == CHOOSE f : Goes(f)
<1>1. n \in Nat /\ DOMAIN uses = 1..n
  BY IsSequenceFacts
<1>2. OrderOf(uses) = defined[n]
  BY DEF OrderOf
<1>3. \A i \in 1..n : \A x \in X : After(x, i) \in X
  <2>1. \A i \in 1..n : uses[i].var \in V
    OBVIOUS
  <2> HIDE DEF V
  <2> QED
    BY <2>1, AppendProperties
<1> HIDE DEF n, V, After
<1>4. step \in [1..n -> [X -> X]]
  BY <1>3
<1>5. PICK f \in [0..n -> X] : f[0] = << >> /\ \A i \in 1..n : f[i] = step[i][f[i - 1]]
  <2>1. << >> \in X
    OBVIOUS
  <2> HIDE DEF X, step
  <2>2. Determined(n, X, << >>, step)
    BY <1>1, <1>4, <2>1, Recursion
  <2> QED
    BY <2>2 DEF Determined
<1>6. \A i \in 1..n : f[i] = After(f[i - 1], i)
  <2>1. \A i \in 1..n : f[i - 1] \in X
    BY <1>1
  <2> HIDE DEF X
  <2> QED
    BY <1>5, <2>1
<1>7. Goes(f)
  <2>1. \A i \in 0..n : i = 0 \/ i \in 1..n
    BY <1>1
  <2>2. \A i \in 0..n : f[i] = IF i = 0 THEN << >> ELSE After(f[i - 1], i)
    BY <1>5, <1>6, <2>1
  <2> HIDE DEF X
  <2> QED
    BY <2>2
<1>8. Goes(defined)
  <2> HIDE DEF Goes
  <2> QED
    BY <1>7
<1> HIDE DEF defined
<1>9. defined[0] = << >> /\ \A i \in 1..n : defined[i] = After(defined[i - 1], i)
  <2>1. 0 \in 0..n /\ \A i \in 1..n : i \in 0..n /\ i # 0
    BY <1>1
  <2> QED
    BY <1>8, <2>1
<1> DEFINE S == { i \in 0..n : Collected(defined[i], uses, i) }
<1>10. 0 \in S
  <2>1. /\ << >> \in Seq({}) /\ DOMAIN << >> = {}
        /\ { uses[i].var : i \in 1..0 } = {}
    OBVIOUS
  <2>2. ToSet(<< >>) = {} /\ OnceEach(<< >>) /\ IsSequence(<< >>)
    BY <2>1, IsSequenceFrom DEF ToSet, OnceEach
  <2>3. Collected(<< >>, uses, 0)
    BY <2>1, <2>2 DEF Collected
  <2> QED
    BY <1>1, <1>9, <2>3
<1>11. ASSUME NEW i \in 1..n, i - 1 \in S PROVE i \in S
  <2>1. Collected(defined[i - 1], uses, i - 1) /\ i \in DOMAIN uses /\ i \in 0..n
    BY <1>1, <1>11
  <2>2. Collected(After(defined[i - 1], i), uses, i)
    BY <2>1, CollectOne DEF After
  <2> QED
    BY <1>9, <2>1, <2>2
<1>12. n \in S
  <2> HIDE DEF S
  <2>1. 0..n \subseteq S
    BY <1>1, <1>10, <1>11, UpTo
  <2> QED
    BY <1>1, <2>1
<1> QED
  BY <1>2, <1>12 DEF n

(* At first the variables are in the order of their first uses.            *)
LEMMA InitOrdered ==
  ASSUME NEW uses, InOrder(uses), order = OrderOf(uses),
         interval = [v \in { uses[i].var : i \in DOMAIN uses } |-> Interval(uses, v)]
  PROVE  Ordered
<1> DEFINE n == Len(uses)
           V == { uses[i].var : i \in DOMAIN uses }
<1>1. DOMAIN uses = 1..n /\ n \in Nat /\ IsSequence(uses)
  BY IsSequenceFacts DEF InOrder
<1>2. Collected(order, uses, n)
  BY <1>1, OrderCollects
<1>3. \A v \in V : /\ interval[v] = [start |-> uses[FirstUse(uses, v)].at,
                                     end   |-> uses[LastUse(uses, v)].at]
                   /\ FirstUse(uses, v) \in UsesOf(uses, v)
                   /\ \A j \in UsesOf(uses, v) : FirstUse(uses, v) <= j
                   /\ LastUse(uses, v) \in UsesOf(uses, v)
  <2> SUFFICES ASSUME NEW v \in V
               PROVE  /\ interval[v] = [start |-> uses[FirstUse(uses, v)].at,
                                        end   |-> uses[LastUse(uses, v)].at]
                      /\ FirstUse(uses, v) \in UsesOf(uses, v)
                      /\ \A j \in UsesOf(uses, v) : FirstUse(uses, v) <= j
                      /\ LastUse(uses, v) \in UsesOf(uses, v)
    OBVIOUS
  <2>1. PICK k \in DOMAIN uses : v = uses[k].var
    OBVIOUS
  <2>2. interval[v] = Interval(uses, v)
    OBVIOUS
  <2>3. Interval(uses, v) = [start |-> uses[FirstUse(uses, v)].at,
                             end   |-> uses[LastUse(uses, v)].at]
    BY DEF Interval, FirstUse, LastUse, UsesOf
  <2> HIDE DEF V
  <2>4. /\ FirstUse(uses, v) \in UsesOf(uses, v)
        /\ \A j \in UsesOf(uses, v) : FirstUse(uses, v) <= j
        /\ LastUse(uses, v) \in UsesOf(uses, v)
    BY <1>1, <2>1, UseFacts
  <2> QED
    BY <2>2, <2>3, <2>4
<1>3a. \A v \in V : /\ interval[v].start = uses[FirstUse(uses, v)].at
                    /\ interval[v].end = uses[LastUse(uses, v)].at
  <2> HIDE DEF V
  <2> SUFFICES ASSUME NEW v \in V
               PROVE  /\ interval[v].start = uses[FirstUse(uses, v)].at
                      /\ interval[v].end = uses[LastUse(uses, v)].at
    OBVIOUS
  <2>1. interval[v] = [start |-> uses[FirstUse(uses, v)].at,
                       end   |-> uses[LastUse(uses, v)].at]
    BY <1>3
  <2> QED
    BY <2>1
<1>4. DOMAIN interval = V
  OBVIOUS
<1>5. interval \in [V -> [start : Int, end : Int]]
  <2>3. interval = [v \in V |-> interval[v]]
    OBVIOUS
  <2> HIDE DEF V
  <2>1. \A v \in V : uses[FirstUse(uses, v)].at \in Int /\ uses[LastUse(uses, v)].at \in Int
    <3>1. \A i \in DOMAIN uses : uses[i].at \in Int
      BY DEF InOrder
    <3> QED
      BY <1>3, <3>1 DEF UsesOf
  <2>2. ASSUME NEW v \in V PROVE interval[v] \in [start : Int, end : Int]
    <3>1. /\ uses[FirstUse(uses, v)].at \in Int /\ uses[LastUse(uses, v)].at \in Int
          /\ interval[v] = [start |-> uses[FirstUse(uses, v)].at,
                            end   |-> uses[LastUse(uses, v)].at]
      BY <1>3, <2>1
    <3> QED
      BY <3>1
  <2> HIDE DEF V
  <2> QED
    BY <2>2, <2>3
<1>6. order \in Seq(V) /\ ToSet(order) = V
  <2>1. ToSet(order) = V
    BY <1>1, <1>2 DEF Collected
  <2>2. order \in Seq(ToSet(order))
    BY <1>2 DEF Collected, IsSequence
  <2> HIDE DEF V
  <2> QED
    BY <2>1, <2>2
<1>7. ASSUME NEW i \in DOMAIN order, NEW j \in DOMAIN order, i <= j
      PROVE  interval[order[i]].start <= interval[order[j]].start
  <2> DEFINE v == order[i]
             w == order[j]
             k == FirstUse(uses, v)
             l == FirstUse(uses, w)
  <2>1. v \in V /\ w \in V
    <3> HIDE DEF V
    <3> QED
      BY <1>6 DEF ToSet
  <2>2. k <= l
    BY <1>2, <1>7 DEF Collected
  <2>3. /\ k \in DOMAIN uses /\ l \in DOMAIN uses /\ uses[l].var = w
        /\ \A m \in UsesOf(uses, w) : l <= m
        /\ interval[v].start = uses[k].at /\ interval[w].start = uses[l].at
    <3> HIDE DEF V, v, w
    <3>1. /\ k \in UsesOf(uses, v) /\ l \in UsesOf(uses, w)
          /\ \A m \in UsesOf(uses, w) : l <= m
          /\ interval[v].start = uses[k].at /\ interval[w].start = uses[l].at
      BY <1>3, <1>3a, <2>1
    <3> QED
      BY <3>1 DEF UsesOf
  <2> HIDE DEF k, l, v, w
  <2>4. \A m \in 1..(l - 1) : uses[m].var # uses[l].var
    <3> SUFFICES ASSUME NEW m \in 1..(l - 1), uses[m].var = uses[l].var PROVE FALSE
      OBVIOUS
    <3>1. m \in UsesOf(uses, w) /\ m < l
      BY <1>1, <2>3 DEF UsesOf
    <3> QED
      BY <1>1, <2>3, <3>1
  <2>5. uses[k].at <= uses[l].at
    BY <2>2, <2>3, <2>4 DEF InOrder
  <2> QED
    BY <2>3, <2>5 DEF v, w
<1> HIDE DEF V
<1> QED
  BY <1>2, <1>4, <1>5, <1>6, <1>7 DEF Ordered, Collected

-----------------------------------------------------------------------------
(* The theorems.                                                           *)

(* Before any variable is placed.                                          *)
LEMMA ScanInvInit ==
  ASSUME Init
  PROVE  ScanInv
<1>1. Ordered
  <2>1. PICK uses \in {AllUses(unit)} :
          /\ order = OrderOf(uses)
          /\ interval = [v \in { uses[i].var : i \in DOMAIN uses } |-> Interval(uses, v)]
    BY DEF Init
  <2>2. unit \in Units
    BY DEF Init
  <2>3. InOrder(uses)
    BY <2>2, AllUsesInOrder
  <2> QED
    BY <2>1, <2>3, InitOrdered
<1>2. next = 0 /\ active = << >> /\ Placed = {}
  BY DEF Init, ScanInit, Placed
<1>3. DOMAIN reg = DOMAIN interval /\ (Pinned \in DOMAIN reg => reg[Pinned] = PinnedReg)
  BY DEF Init, ScanInit
<1>4. pool \in Seq(Registers) /\ OnceEach(pool)
  <2>1. pool \in RegFiles
    BY DEF Init
  <2>2. IsSequence(pool) /\ \A i, j \in DOMAIN pool : pool[i] = pool[j] => i = j
    BY <2>1, RegFilesAssumption
  <2>3. pool \in Seq(ToSet(pool)) /\ ToSet(pool) \subseteq Registers
    BY <2>1, <2>2 DEF IsSequence, Registers
  <2> HIDE DEF Registers
  <2> QED
    BY <2>2, <2>3, SeqMonotonic DEF OnceEach
<1>5. ToSet(active) = {} /\ OnceEach(active) /\ active \in Seq(DOMAIN interval)
  <2>1. DOMAIN active = {} /\ active \in Seq(DOMAIN interval)
    BY <1>2
  <2> QED
    BY <2>1 DEF ToSet, OnceEach
<1>6. 0 \in 0..Len(order)
  BY <1>1, LenProperties DEF Ordered
<1>7. Holders /\ Retired /\ Apart
  BY <1>2, <1>4, <1>5 DEF Holders, Retired, Apart
<1> QED
  BY <1>1, <1>2, <1>3, <1>5, <1>6, <1>7 DEF ScanInv

(* Steps of the generated code leave the scan alone.                       *)
LEMMA ScanInvKept ==
  ASSUME ScanInv, UNCHANGED scanVars
  PROVE  ScanInv'
<1>1. /\ order' = order /\ interval' = interval /\ next' = next
      /\ active' = active /\ pool' = pool /\ reg' = reg
  BY DEF scanVars
<1>2. Ordered' /\ Holders' /\ Placed' = Placed
  BY <1>1 DEF ScanInv, Ordered, Holders, Placed
<1>3. Retired' /\ Apart'
  BY <1>1, <1>2 DEF ScanInv, Retired, Apart, Overlap
<1> QED
  BY <1>1, <1>2, <1>3 DEF ScanInv

(* Every step keeps the invariant of the scan.                             *)
LEMMA ScanInvNext ==
  ASSUME ScanInv, [Next]_vars
  PROVE  ScanInv'
<1>1. CASE Place
  BY <1>1, PlaceStep DEF Place
<1>2. CASE Begin \/ CopyBytecode \/ SendBytecode \/ ReturnBytecode \/ EndOfCode
  <2>1. UNCHANGED scanVars
    BY <1>2 DEF Begin, CopyBytecode, SendBytecode, ReturnBytecode, EndOfCode, AtBytecode
  <2> QED
    BY <2>1, ScanInvKept
<1>3. CASE UNCHANGED vars
  BY <1>3, ScanInvKept DEF vars
<1> QED
  BY <1>1, <1>2, <1>3 DEF Next

(* The list holds variables that are placed and have registers of their    *)
(* own, the pool no register twice and none that someone holds, and a      *)
(* variable that has left the list with a register came to its end before  *)
(* the last one placed began (scanRegisters, RegisterAllocator.c).         *)
THEOREM ScanInvHolds == Spec => []ScanInv
<1>1. Init => ScanInv
  BY ScanInvInit
<1>2. ScanInv /\ [Next]_vars => ScanInv'
  BY ScanInvNext
<1> QED
  BY <1>1, <1>2, PTL DEF Spec

(* For any unit of code and any list of registers, two variables that are  *)
(* alive at one place in the code never have one register.                 *)
THEOREM NoSharedRegisterHolds == Spec => []NoSharedRegister
<1>1. ScanInv => NoSharedRegister
  BY ApartEnough
<1> QED
  BY <1>1, ScanInvHolds, PTL

-----------------------------------------------------------------------------
(* What the generated code keeps.                                          *)

HeldRegisters == { reg[v] : v \in DOMAIN reg } \ {Spilled}

(* x is what the variable v stands for, when the arguments and temporaries *)
(* are vals.  Of those in stale, the class kept is an earlier one.         *)
Right(v, x, vals, stale) ==
  /\ x # Junk
  /\ \A i \in DOMAIN vals : v = Tmp(i) => x = vals[i]
  /\ \A i \in DOMAIN vals : (v = Class(i) /\ i \notin stale) => x = ClassOf(vals[i])
  /\ \A i : v = Context(i) => x = ContextOut(i)
  /\ \A i : v = Assoc(i) => x = Association(i)

(* What the flags say is so, of the variables in live: the others have     *)
(* been used for the last time, and their registers and slots are others'. *)
Machine(m) ==
  m = [started |-> m.started, inReg |-> m.inReg, onStack |-> m.onStack, regs |-> m.regs,
       frame |-> m.frame, memory |-> m.memory, sent |-> m.sent, shown |-> m.shown,
       result |-> m.result, failed |-> m.failed]

Holds(m, vals, live, stale) ==
  /\ Machine(m)
  /\ DOMAIN m.regs = HeldRegisters /\ DOMAIN m.frame = DOMAIN reg
  /\ m.inReg \subseteq { v \in DOMAIN reg : reg[v] # Spilled }
  /\ m.onStack \subseteq { v \in DOMAIN reg : v[1] # "ASSOC" }
  /\ \A v \in m.inReg \cap live : Right(v, m.regs[reg[v]], vals, stale)
  /\ \A v \in m.onStack \cap live : Right(v, m.frame[v], vals, stale)
  /\ Arguments \union {SelfVar} \subseteq m.onStack /\ m.frame[SelfVar] = <<"arg", 1>>
  /\ \A i \in DOMAIN vals :
        Tmp(i) \in DOMAIN reg => (Tmp(i) \in m.onStack \/ vals[i] = Nil)
  /\ Context(0) \in m.inReg \union m.onStack \/ (FrameLess /\ ~unit.isBlock)
  /\ ~FrameLess => (Context(0) \in m.onStack /\ m.frame[Context(0)] = ContextOut(0))
  /\ ~m.failed /\ Junk \notin m.shown
  /\ \A p \in DOMAIN m.memory : m.memory[p] # Junk

Valued(vals) ==
  /\ DOMAIN vals = 1..(unit.argsSize + 1 + unit.tempsSize)
  /\ \A i \in DOMAIN vals : vals[i] # Junk
  /\ 1 \in DOMAIN vals /\ vals[1] = <<"arg", 1>>

(* The variables that may be used at n, or were before and will be later.  *)
InUse(v, n) == interval[v].start <= n /\ n <= interval[v].end
LiveAt(n) ==
  { v \in DOMAIN reg : v # Context(0) /\ InUse(v, n) }
    \union (IF HasContext(unit) THEN {Context(0)} ELSE {})
LiveAtEnd == {SelfVar} \union (IF HasContext(unit) THEN {Context(0)} ELSE {})
LiveFor(p) == IF p <= Len(unit.code) THEN LiveAt(p - 1) ELSE LiveAtEnd

(* The class of variable i was found, and since then only copies that keep *)
(* it wrote to the variable: in stale they did.                            *)
SentTo(b, i) == b.op = "SEND" /\ b.receiver.type \in {"TEMP", "ARG"} /\ b.receiver.index = i
KeepingCopy(b) == b.op = "COPY" /\ b.from.type \notin {"TEMP", "ARG"}
ClassFound(i, k, p) ==
  /\ SentTo(unit.code[k], i)
  /\ \A q \in k..(p - 1) : Writes(unit.code[q], i) => KeepingCopy(unit.code[q])
Kept(p) == { i \in Nat : \E k \in 1..(p - 1) : ClassFound(i, k, p) }
Stale(p) == { i \in Nat : \E k \in 1..(p - 1) :
                /\ ClassFound(i, k, p)
                /\ \E q \in k..(p - 1) : Writes(unit.code[q], i) }

KnownWrong ==
  KeepsClass(unit.code) \/ WritesCallersFrame(unit) \/ UsesSpilled(unit.code)

UsesKnown ==
  /\ unit \in Units /\ order = OrderOf(AllUses(unit))
  /\ interval = [v \in { AllUses(unit)[i].var : i \in DOMAIN AllUses(unit) } |->
                   Interval(AllUses(unit), v)]
  /\ Valued(values)
  /\ pc \in 1..(Len(unit.code) + 1)

RunsRight(m, vals, p) ==
  /\ Holds(m, vals, LiveFor(p), Stale(p)) /\ IsSequence(m.sent)
  /\ \A v \in m.inReg \union m.onStack : interval[v].start <= p - 1
  /\ \A i \in Nat : Class(i) \in m.inReg \union m.onStack => i \in Kept(p)
  /\ \A q \in 1..(p - 1) : unit.code[q].op \notin {"RETURN", "OUTER_RETURN"}

GenInv ==
  /\ UsesKnown
  /\ ~machine.started => (machine = Idle /\ pc = 1 /\ values = A!VariablesOf(unit))
  /\ machine.started =>
       /\ Scanned /\ ~KnownWrong
       /\ ~machine.failed /\ Junk \notin machine.shown
       /\ machine.inReg \union machine.onStack \subseteq DOMAIN reg
       /\ machine.result = Running => RunsRight(machine, values, pc)

(* What a step leaves alone while it moves values between registers and    *)
(* slots.                                                                  *)
Outside(m) == <<m.started, m.memory, m.sent, m.result>>
Moved(m, c, flagged) ==
  /\ Outside(c) = Outside(m)
  /\ c.inReg \union c.onStack \subseteq m.inReg \union m.onStack \union flagged

(* What does not change once registers are given.                          *)
Setting ==
  /\ unit \in Units /\ SelfVar \in Arguments
  /\ interval \in [DOMAIN reg -> [start : Int, end : Int]]
  /\ Context(0) \in DOMAIN reg /\ reg[Context(0)] # Spilled

Separate(live) ==
  /\ live \subseteq DOMAIN reg
  /\ \A v, w \in live : (v # w /\ reg[v] # Spilled) => reg[v] # reg[w]

(* A variable flagged before adds no flag.                                 *)
LEMMA MovedFlagged ==
  ASSUME NEW m, NEW c, NEW v, v \in m.inReg \union m.onStack, Moved(m, c, {v})
  PROVE  Moved(m, c, {})
<1>1. c.inReg \union c.onStack \subseteq m.inReg \union m.onStack
  BY DEF Moved
<1> QED
  BY <1>1 DEF Moved

(* What Right says of each kind of variable.                               *)
LEMMA RightOf ==
  ASSUME NEW i, NEW x, NEW vals, NEW stale
  PROVE  /\ i \in DOMAIN vals => (Right(Tmp(i), x, vals, stale) <=> (x # Junk /\ x = vals[i]))
         /\ i \in DOMAIN vals =>
              (Right(Class(i), x, vals, stale) <=> (x # Junk /\ (i \in stale \/ x = ClassOf(vals[i]))))
         /\ Right(Context(i), x, vals, stale) <=> x = ContextOut(i)
         /\ Right(Assoc(i), x, vals, stale) <=> x = Association(i)
<1>1. /\ \A j : Tmp(i) # Class(j) /\ Tmp(i) # Context(j) /\ Tmp(i) # Assoc(j)
      /\ \A j : Class(i) # Context(j) /\ Class(i) # Assoc(j) /\ Context(i) # Assoc(j)
      /\ \A j : Class(i) # Tmp(j) /\ Context(i) # Tmp(j) /\ Assoc(i) # Tmp(j)
      /\ \A j : Context(i) # Class(j) /\ Assoc(i) # Class(j) /\ Assoc(i) # Context(j)
  BY DEF Tmp, Class, Context, Assoc
<1>2. /\ \A j : Tmp(i) = Tmp(j) => i = j
      /\ \A j : Class(i) = Class(j) => i = j
      /\ \A j : Context(i) = Context(j) => i = j
      /\ \A j : Assoc(i) = Assoc(j) => i = j
  BY DEF Tmp, Class, Context, Assoc
<1>3. ContextOut(i) # Junk /\ Association(i) # Junk
  BY DEF ContextOut, Association, Junk
<1> QED
  BY <1>1, <1>2, <1>3 DEF Right

(* A register is written.                                                  *)
LEMMA IntoRegFields ==
  ASSUME NEW m, Machine(m), DOMAIN m.regs = HeldRegisters,
         NEW v \in DOMAIN reg, reg[v] # Spilled, NEW x
  PROVE  /\ Machine(IntoReg(m, v, x)) /\ Outside(IntoReg(m, v, x)) = Outside(m)
         /\ IntoReg(m, v, x).inReg = m.inReg \union {v}
         /\ IntoReg(m, v, x).onStack = m.onStack
         /\ IntoReg(m, v, x).frame = m.frame
         /\ DOMAIN IntoReg(m, v, x).regs = HeldRegisters
         /\ \A r \in HeldRegisters :
              IntoReg(m, v, x).regs[r] = IF r = reg[v] THEN x ELSE m.regs[r]
         /\ RegValue(IntoReg(m, v, x), v) = x
         /\ IntoReg(m, v, x).shown = m.shown /\ IntoReg(m, v, x).failed = m.failed
<1> DEFINE into == [started |-> m.started, inReg |-> m.inReg \union {v}, onStack |-> m.onStack,
                    regs |-> [m.regs EXCEPT ![reg[v]] = x],
                    frame |-> m.frame, memory |-> m.memory, sent |-> m.sent, shown |-> m.shown,
                    result |-> m.result, failed |-> m.failed]
<1>1. IntoReg(m, v, x) = into
  BY DEF IntoReg, Machine
<1>2. reg[v] \in HeldRegisters
  BY DEF HeldRegisters
<1>3. RegValue(into, v) = x
  BY <1>2 DEF RegValue
<1>4. Machine(into) /\ Outside(into) = Outside(m)
  BY DEF Machine, Outside
<1> QED
  BY <1>1, <1>2, <1>3, <1>4

(* What the variable stands for is put in its register.                    *)
LEMMA IntoRegHolds ==
  ASSUME NEW m, NEW vals, NEW live, NEW stale, Holds(m, vals, live, stale), Separate(live),
         NEW v \in live, reg[v] # Spilled, NEW x, Right(v, x, vals, stale)
  PROVE  /\ Holds(IntoReg(m, v, x), vals, live, stale)
         /\ Moved(m, IntoReg(m, v, x), {v})
         /\ IntoReg(m, v, x).inReg = m.inReg \union {v}
         /\ RegValue(IntoReg(m, v, x), v) = x
<1>1. v \in DOMAIN reg
  BY DEF Separate
<1>2. PICK c : c = IntoReg(m, v, x)
  OBVIOUS
<1>3. /\ Machine(c) /\ Outside(c) = Outside(m)
      /\ c.inReg = m.inReg \union {v} /\ c.onStack = m.onStack /\ c.frame = m.frame
      /\ DOMAIN c.regs = HeldRegisters
      /\ \A r \in HeldRegisters : c.regs[r] = IF r = reg[v] THEN x ELSE m.regs[r]
      /\ RegValue(c, v) = x
      /\ c.shown = m.shown /\ c.failed = m.failed
  BY <1>1, <1>2, IntoRegFields DEF Holds
<1>4. c.memory = m.memory
  BY <1>3 DEF Outside
<1>5. \A w \in c.inReg \cap live : Right(w, c.regs[reg[w]], vals, stale)
  <2> SUFFICES ASSUME NEW w \in c.inReg \cap live PROVE Right(w, c.regs[reg[w]], vals, stale)
    OBVIOUS
  <2>1. CASE w = v
    <3>1. reg[v] \in HeldRegisters
      BY <1>1 DEF HeldRegisters
    <3> QED
      BY <1>3, <2>1, <3>1
  <2>2. CASE w # v
    <3>1. w \in m.inReg \cap live /\ reg[w] # Spilled /\ w \in DOMAIN reg
      BY <1>3, <2>2 DEF Holds
    <3>2. reg[w] # reg[v] /\ reg[w] \in HeldRegisters
      BY <2>2, <3>1 DEF Separate, HeldRegisters
    <3> QED
      BY <1>3, <3>1, <3>2 DEF Holds
  <2> QED
    BY <2>1, <2>2
<1>6. Holds(c, vals, live, stale)
  BY <1>1, <1>3, <1>4, <1>5 DEF Holds
<1> QED
  BY <1>2, <1>3, <1>6 DEF Moved

(* A slot of the frame is written.                                         *)
LEMMA IntoFrameFields ==
  ASSUME NEW m, Machine(m), DOMAIN m.frame = DOMAIN reg,
         NEW v \in DOMAIN reg, ~FrameLess, NEW x
  PROVE  /\ Machine(IntoFrame(m, v, x)) /\ Outside(IntoFrame(m, v, x)) = Outside(m)
         /\ IntoFrame(m, v, x).onStack = m.onStack \union {v}
         /\ IntoFrame(m, v, x).inReg = m.inReg
         /\ IntoFrame(m, v, x).regs = m.regs
         /\ DOMAIN IntoFrame(m, v, x).frame = DOMAIN reg
         /\ \A w \in DOMAIN reg : IntoFrame(m, v, x).frame[w] = IF w = v THEN x ELSE m.frame[w]
         /\ IntoFrame(m, v, x).shown = m.shown /\ IntoFrame(m, v, x).failed = m.failed
<1> DEFINE into == [started |-> m.started, inReg |-> m.inReg, onStack |-> m.onStack \union {v},
                    regs |-> m.regs,
                    frame |-> [m.frame EXCEPT ![v] = x], memory |-> m.memory, sent |-> m.sent,
                    shown |-> m.shown, result |-> m.result, failed |-> m.failed]
<1>1. IntoFrame(m, v, x) = into
  BY DEF IntoFrame, Machine
<1>2. Machine(into) /\ Outside(into) = Outside(m)
  BY DEF Machine, Outside
<1> QED
  BY <1>1, <1>2

(* What the variable stands for is put in its slot.                        *)
LEMMA IntoFrameHolds ==
  ASSUME NEW m, NEW vals, NEW live, NEW stale, Holds(m, vals, live, stale), Separate(live),
         NEW v \in live, v[1] # "ASSOC", ~FrameLess, NEW x, Right(v, x, vals, stale),
         v = SelfVar => x = <<"arg", 1>>
  PROVE  /\ Holds(IntoFrame(m, v, x), vals, live, stale)
         /\ Moved(m, IntoFrame(m, v, x), {v})
         /\ IntoFrame(m, v, x).inReg = m.inReg
         /\ IntoFrame(m, v, x).regs = m.regs
<1>1. v \in DOMAIN reg
  BY DEF Separate
<1>2. PICK c : c = IntoFrame(m, v, x)
  OBVIOUS
<1>3. /\ Machine(c) /\ Outside(c) = Outside(m)
      /\ c.inReg = m.inReg /\ c.onStack = m.onStack \union {v} /\ c.regs = m.regs
      /\ DOMAIN c.frame = DOMAIN reg
      /\ \A w \in DOMAIN reg : c.frame[w] = IF w = v THEN x ELSE m.frame[w]
      /\ c.shown = m.shown /\ c.failed = m.failed
  BY <1>1, <1>2, IntoFrameFields DEF Holds
<1>4. c.memory = m.memory
  BY <1>3 DEF Outside
<1>5. \A w \in c.onStack \cap live : Right(w, c.frame[w], vals, stale)
  BY <1>1, <1>3 DEF Holds, Separate
<1>7. /\ Arguments \union {SelfVar} \subseteq c.onStack
      /\ Context(0) \in m.onStack => Context(0) \in c.onStack
  BY <1>3 DEF Holds
<1>8. Context(0) \in c.onStack /\ c.frame[Context(0)] = ContextOut(0)
  <2>1. Context(0) \in m.onStack /\ m.frame[Context(0)] = ContextOut(0) /\ Context(0) \in DOMAIN reg
    BY DEF Holds
  <2>2. v = Context(0) => x = ContextOut(0)
    BY DEF Right, Context
  <2> QED
    BY <1>3, <2>1, <2>2
<1>9. c.frame[SelfVar] = <<"arg", 1>>
  <2>1. SelfVar \in DOMAIN reg
    BY DEF Holds
  <2> QED
    BY <1>3, <2>1 DEF Holds
<1>10. Holds(c, vals, live, stale)
  BY <1>1, <1>3, <1>4, <1>5, <1>7, <1>8, <1>9 DEF Holds
<1> QED
  BY <1>2, <1>3, <1>10 DEF Moved

(* A variable is brought to its register.                                  *)
LEMMA FillVarHolds ==
  ASSUME NEW m, NEW vals, NEW live, NEW stale, Holds(m, vals, live, stale), Separate(live),
         NEW v \in live, reg[v] # Spilled, v \in m.inReg \union m.onStack
  PROVE  /\ Holds(FillVar(m, v), vals, live, stale)
         /\ Moved(m, FillVar(m, v), {})
         /\ FillVar(m, v).inReg = m.inReg \union {v}
         /\ Right(v, RegValue(FillVar(m, v), v), vals, stale)
<1>1. CASE v \in m.inReg
  <2>1. FillVar(m, v) = m
    BY <1>1 DEF FillVar
  <2>2. Right(v, RegValue(m, v), vals, stale)
    BY <1>1 DEF Holds, RegValue
  <2> QED
    BY <1>1, <2>1, <2>2 DEF Moved
<1>2. CASE v \notin m.inReg
  <2>1. FillVar(m, v) = IntoReg(m, v, m.frame[v])
    BY <1>2 DEF FillVar, Check
  <2>2. Right(v, m.frame[v], vals, stale)
    BY <1>2 DEF Holds
  <2> DEFINE c == IntoReg(m, v, m.frame[v])
  <2>3. /\ Holds(c, vals, live, stale) /\ Moved(m, c, {v})
        /\ c.inReg = m.inReg \union {v} /\ RegValue(c, v) = m.frame[v]
    BY <2>2, IntoRegHolds
  <2> HIDE DEF c
  <2>4. Moved(m, c, {})
    BY <2>3, MovedFlagged
  <2> QED
    BY <2>1, <2>2, <2>3, <2>4 DEF c
<1> QED
  BY <1>1, <1>2

(* A register is copied to the variable's slot.                            *)
LEMMA SpillVarHolds ==
  ASSUME NEW m, NEW vals, NEW live, NEW stale, Holds(m, vals, live, stale), Separate(live),
         NEW v \in live, v[1] \notin {"ASSOC", "TMP"}, ~FrameLess, v \in m.inReg
  PROVE  /\ Holds(SpillVar(m, v), vals, live, stale)
         /\ Moved(m, SpillVar(m, v), {})
         /\ SpillVar(m, v).inReg = m.inReg
         /\ RegValue(SpillVar(m, v), v) = RegValue(m, v)
<1>1. Right(v, RegValue(m, v), vals, stale)
  BY DEF Holds, RegValue
<1>2. v # SelfVar
  BY DEF SelfVar, Tmp
<1> DEFINE c == IntoFrame(m, v, RegValue(m, v))
<1>3. /\ Holds(c, vals, live, stale) /\ Moved(m, c, {v})
      /\ c.inReg = m.inReg /\ c.regs = m.regs
  BY <1>1, <1>2, IntoFrameHolds
<1>4. SpillVar(m, v) = c
  BY DEF SpillVar
<1> HIDE DEF c
<1>5. Moved(m, c, {})
  BY <1>3, MovedFlagged
<1> QED
  BY <1>3, <1>4, <1>5 DEF RegValue

(* A context further out is reached from the first.                        *)
LEMMA FillContextHolds ==
  ASSUME NEW m, NEW vals, NEW live, NEW stale, Holds(m, vals, live, stale), Separate(live),
         NEW level \in Nat, ~FrameLess, Context(0) \in live, Context(level) \in live,
         reg[Context(0)] # Spilled, reg[Context(level)] # Spilled
  PROVE  /\ Holds(FillContext(m, level), vals, live, stale)
         /\ Moved(m, FillContext(m, level), {Context(level)})
         /\ RegValue(FillContext(m, level), Context(level)) = ContextOut(level)
         /\ FillContext(m, level).inReg \subseteq m.inReg \union {Context(0), Context(level)}
<1> DEFINE v == Context(level)
<1>0. v[1] = "CONTEXT" /\ v[2] = level /\ Context(0)[1] = "CONTEXT" /\ Context(0)[2] = 0
  BY DEF Context
<1>1. CASE v \in m.inReg \union m.onStack
  <2>1. FillContext(m, level) = FillVar(m, v)
    BY <1>1 DEF FillContext
  <2>2. Right(v, RegValue(FillVar(m, v), v), vals, stale)
    BY <1>1, FillVarHolds
  <2>3. Moved(m, FillVar(m, v), {v})
    BY <1>1, FillVarHolds DEF Moved
  <2> QED
    BY <1>0, <1>1, <2>1, <2>2, <2>3, FillVarHolds DEF Right
<1>2. CASE v \notin m.inReg \union m.onStack
  <2> DEFINE from == FillVar(m, Context(0))
             into == IntoReg(from, v, ContextOut(level))
  <2>1. Context(0) \in m.inReg \union m.onStack
    BY DEF Holds
  <2>2. /\ Holds(from, vals, live, stale) /\ Moved(m, from, {})
        /\ Right(Context(0), RegValue(from, Context(0)), vals, stale)
        /\ from.inReg = m.inReg \union {Context(0)}
    BY <2>1, FillVarHolds
  <2>3. RegValue(from, Context(0)) = ContextOut(0)
    BY <1>0, <2>2 DEF Right
  <2>4. ContextOut(0)[1] = "context" /\ ContextOut(ContextOut(0)[2] + level) = ContextOut(level)
    BY DEF ContextOut
  <2>5. FillContext(m, level) = SpillVar(into, v)
    BY <1>2, <2>3, <2>4 DEF FillContext
  <2>6. Right(v, ContextOut(level), vals, stale)
    BY RightOf
  <2> HIDE DEF from, v
  <2>61. v \in live /\ reg[v] # Spilled
    BY DEF v
  <2>7. /\ Holds(into, vals, live, stale) /\ Moved(from, into, {v})
        /\ into.inReg = from.inReg \union {v} /\ RegValue(into, v) = ContextOut(level)
    <3>1. Holds(into, vals, live, stale)
      BY <2>2, <2>6, <2>61, IntoRegHolds
    <3>2. Moved(from, into, {v})
      BY <2>2, <2>6, <2>61, <3>1, IntoRegHolds
    <3>3. into.inReg = from.inReg \union {v} /\ RegValue(into, v) = ContextOut(level)
      <4>1. Machine(from) /\ DOMAIN from.regs = HeldRegisters /\ v \in DOMAIN reg
        BY <2>2, <2>61 DEF Holds, Separate
      <4> QED
        BY <2>61, <4>1, IntoRegFields
    <3> QED
      BY <3>1, <3>2, <3>3
  <2> HIDE DEF into
  <2>8. /\ Holds(SpillVar(into, v), vals, live, stale) /\ Moved(into, SpillVar(into, v), {})
        /\ RegValue(SpillVar(into, v), v) = ContextOut(level)
        /\ SpillVar(into, v).inReg = into.inReg
    BY <1>0, <2>61, <2>7, SpillVarHolds
  <2>9. Moved(m, SpillVar(into, v), {v})
    BY <2>2, <2>7, <2>8 DEF Moved
  <2> QED
    BY <2>2, <2>5, <2>7, <2>8, <2>9 DEF v
<1> QED
  BY <1>1, <1>2

(* An association is brought to its register.                              *)
LEMMA FillAssocHolds ==
  ASSUME NEW m, NEW vals, NEW live, NEW stale, Holds(m, vals, live, stale), Separate(live),
         NEW i, Assoc(i) \in live, reg[Assoc(i)] # Spilled
  PROVE  /\ Holds(FillAssoc(m, i), vals, live, stale)
         /\ Moved(m, FillAssoc(m, i), {Assoc(i)})
         /\ RegValue(FillAssoc(m, i), Assoc(i)) = Association(i)
         /\ FillAssoc(m, i).inReg = m.inReg \union {Assoc(i)}
<1> DEFINE v == Assoc(i)
<1>0. v[1] = "ASSOC" /\ v[2] = i
  BY DEF Assoc
<1>1. CASE v \in m.inReg
  <2>1. FillAssoc(m, i) = m
    BY <1>1 DEF FillAssoc
  <2>2. Right(v, RegValue(m, v), vals, stale)
    BY <1>1 DEF Holds, RegValue
  <2>3. RegValue(m, v) = Association(i)
    BY <2>2, RightOf
  <2> QED
    BY <1>1, <2>1, <2>3 DEF Moved
<1>2. CASE v \notin m.inReg
  <2> DEFINE c == IntoReg(m, v, Association(i))
  <2>1. FillAssoc(m, i) = c
    BY <1>2 DEF FillAssoc
  <2>2. Right(v, Association(i), vals, stale)
    BY RightOf
  <2>3. /\ Holds(c, vals, live, stale) /\ Moved(m, c, {v})
        /\ c.inReg = m.inReg \union {v} /\ RegValue(c, v) = Association(i)
    BY <2>2, IntoRegHolds
  <2> HIDE DEF c
  <2> QED
    BY <2>1, <2>3
<1> QED
  BY <1>1, <1>2

(* Reading a variable.                                                     *)
LEMMA MovVarHolds ==
  ASSUME NEW m, NEW vals, NEW live, NEW stale, Holds(m, vals, live, stale), Separate(live),
         NEW v \in live
  PROVE  /\ Holds(MovVar(m, v).m, vals, live, stale)
         /\ Moved(m, MovVar(m, v).m, {})
         /\ v \in m.inReg \union m.onStack => Right(v, MovVar(m, v).x, vals, stale)
         /\ v \notin m.inReg \union m.onStack => MovVar(m, v).x = Nil
<1>1. CASE reg[v] = Spilled /\ v \in m.onStack
  <2>1. MovVar(m, v) = Loaded(m, m.frame[v])
    BY <1>1 DEF MovVar
  <2>2. Right(v, m.frame[v], vals, stale)
    BY <1>1 DEF Holds
  <2> QED
    BY <1>1, <2>1, <2>2 DEF Loaded, Moved
<1>2. CASE ~(reg[v] = Spilled /\ v \in m.onStack) /\ v \in m.inReg \union m.onStack
  <2>1. MovVar(m, v) = Loaded(FillVar(m, v), RegValue(FillVar(m, v), v))
    BY <1>2 DEF MovVar
  <2>2. reg[v] # Spilled
    BY <1>2 DEF Holds
  <2> QED
    BY <1>2, <2>1, <2>2, FillVarHolds DEF Loaded
<1>3. CASE v \notin m.inReg \union m.onStack
  <2>1. MovVar(m, v) = Loaded(m, Nil)
    BY <1>3 DEF MovVar
  <2> QED
    BY <1>3, <2>1 DEF Loaded, Moved
<1> QED
  BY <1>1, <1>2, <1>3

(* Reading an argument or temporary gives its value.                       *)
LEMMA MovTmpHolds ==
  ASSUME NEW m, NEW vals, NEW live, NEW stale, Holds(m, vals, live, stale), Separate(live),
         NEW i \in DOMAIN vals, Tmp(i) \in live
  PROVE  /\ Holds(MovVar(m, Tmp(i)).m, vals, live, stale)
         /\ Moved(m, MovVar(m, Tmp(i)).m, {})
         /\ MovVar(m, Tmp(i)).x = vals[i]
<1>1. Tmp(i) \notin m.inReg \union m.onStack => vals[i] = Nil
  BY DEF Holds, Separate
<1> QED
  BY <1>1, MovVarHolds, RightOf

(* And so does pushing it.                                                 *)
LEMMA PushTmpHolds ==
  ASSUME NEW m, NEW vals, NEW live, NEW stale, Holds(m, vals, live, stale), Separate(live),
         NEW i \in DOMAIN vals, Tmp(i) \in live
  PROVE  /\ Holds(PushVar(m, Tmp(i)).m, vals, live, stale)
         /\ Moved(m, PushVar(m, Tmp(i)).m, {Tmp(i)})
         /\ PushVar(m, Tmp(i)).x = vals[i]
<1> DEFINE v == Tmp(i)
<1>1. CASE v \in m.inReg
  <2>1. PushVar(m, v) = Loaded(m, RegValue(m, v))
    BY <1>1 DEF PushVar
  <2>2. Right(v, RegValue(m, v), vals, stale)
    BY <1>1 DEF Holds, RegValue
  <2> QED
    BY <2>1, <2>2, RightOf DEF Loaded, Moved
<1>2. CASE v \in m.onStack \ m.inReg
  <2>1. PushVar(m, v) = Loaded(m, m.frame[v])
    BY <1>2 DEF PushVar
  <2>2. Right(v, m.frame[v], vals, stale)
    BY <1>2 DEF Holds
  <2> QED
    BY <2>1, <2>2, RightOf DEF Loaded, Moved
<1>3. CASE v \notin m.onStack \union m.inReg
  <2>1. PushVar(m, v) = Loaded(IF reg[v] = Spilled THEN m ELSE IntoReg(m, v, Nil), Nil)
    BY <1>3 DEF PushVar
  <2>2. vals[i] = Nil
    BY <1>3 DEF Holds, Separate
  <2>3. Right(v, Nil, vals, stale)
    BY <2>2, RightOf DEF Nil, Junk
  <2> QED
    BY <2>1, <2>2, <2>3, IntoRegHolds DEF Loaded, Moved
<1> QED
  BY <1>1, <1>2, <1>3

(* What holds of some variables holds of fewer.                            *)
LEMMA HoldsFewer ==
  ASSUME NEW m, NEW vals, NEW live, NEW stale, Holds(m, vals, live, stale), NEW fewer \in SUBSET live
  PROVE  Holds(m, vals, fewer, stale)
BY DEF Holds

(* A collection, at a send or the allocation of a block.                   *)
LEMMA CollectFields ==
  ASSUME NEW m, Machine(m), NEW n
  PROVE  LET shown == { v \in DOMAIN reg : InStackmap(m, v, n) }
         IN  /\ Machine(Collect(m, n)) /\ Outside(Collect(m, n)) = Outside(m)
             /\ Collect(m, n).inReg = {} /\ Collect(m, n).onStack = m.onStack
             /\ DOMAIN Collect(m, n).regs = DOMAIN m.regs
             /\ DOMAIN Collect(m, n).frame = DOMAIN reg
             /\ \A v \in DOMAIN reg : v \in shown \union Arguments => Collect(m, n).frame[v] = m.frame[v]
             /\ Collect(m, n).shown = { m.frame[v] : v \in shown }
             /\ Collect(m, n).failed = m.failed
<1> DEFINE shown == { v \in DOMAIN reg : InStackmap(m, v, n) }
           seen == { m.frame[v] : v \in shown }
           regs == [r \in DOMAIN m.regs |-> Junk]
           frame == [v \in DOMAIN reg |-> IF v \in shown \union Arguments THEN m.frame[v] ELSE Junk]
           c == [started |-> m.started, inReg |-> {}, onStack |-> m.onStack, regs |-> regs,
                 frame |-> frame, memory |-> m.memory, sent |-> m.sent, shown |-> seen,
                 result |-> m.result, failed |-> m.failed]
<1>1. Collect(m, n) = c
  <2>1. Collect(m, n) = [m EXCEPT !.shown = seen, !.inReg = {}, !.regs = regs, !.frame = frame]
    BY DEF Collect
  <2> HIDE DEF shown, seen, regs, frame
  <2> QED
    BY <2>1 DEF Machine
<1>2. Machine(c) /\ Outside(c) = Outside(m)
  BY DEF Machine, Outside
<1> HIDE DEF shown
<1> QED
  BY <1>1, <1>2 DEF shown

(* Slots of live variables are in the stack map, and survive.              *)
LEMMA CollectHolds ==
  ASSUME NEW m, NEW vals, NEW stale, NEW n \in Nat, Holds(m, vals, LiveAt(n), stale),
         Setting, ~FrameLess, NEW later, later \cap m.onStack \subseteq LiveAt(n) \union {Context(0)}
  PROVE  /\ Holds(Collect(m, n), vals, later, stale)
         /\ Moved(m, Collect(m, n), {}) /\ Collect(m, n).inReg = {}
         /\ Collect(m, n).onStack = m.onStack
<1> DEFINE shown == { v \in DOMAIN reg : InStackmap(m, v, n) }
<1>1. PICK c : c = Collect(m, n)
  OBVIOUS
<1>2. /\ Machine(c) /\ Outside(c) = Outside(m)
      /\ c.inReg = {} /\ c.onStack = m.onStack
      /\ DOMAIN c.regs = HeldRegisters /\ DOMAIN c.frame = DOMAIN reg
      /\ \A v \in DOMAIN reg : v \in shown \union Arguments => c.frame[v] = m.frame[v]
      /\ c.shown = { m.frame[v] : v \in shown } /\ c.failed = m.failed
  BY <1>1, CollectFields DEF Holds
<1>3. Context(0) \in shown /\ m.frame[Context(0)] = ContextOut(0)
  BY DEF InStackmap, Holds, Setting
<1>4. ASSUME NEW v \in LiveAt(n), v \in m.onStack, v # Context(0)
      PROVE  v \in shown \union Arguments
  <2>1. v \in DOMAIN reg /\ InUse(v, n) /\ v[1] # "ASSOC"
    BY <1>4 DEF LiveAt, Holds
  <2>2. n \in interval[v].start .. interval[v].end
    BY <2>1 DEF InUse, Setting
  <2> QED
    BY <1>4, <2>1, <2>2 DEF InStackmap, HasSlot
<1>5. ASSUME NEW v \in shown, v # Context(0)
      PROVE  v \in LiveAt(n) \cap m.onStack
  <2>1. v \in m.onStack /\ n \in interval[v].start .. interval[v].end /\ v \in DOMAIN reg
    BY <1>5 DEF InStackmap
  <2> QED
    BY <1>5, <2>1 DEF LiveAt, InUse, Setting
<1> HIDE DEF shown
<1>6. Junk \notin c.shown
  <2>1. \A v \in shown : m.frame[v] # Junk
    BY <1>3, <1>5 DEF Holds, Right, ContextOut, Junk
  <2> QED
    BY <1>2, <2>1
<1>7. \A v \in c.onStack \cap later : Right(v, c.frame[v], vals, stale)
  <2> SUFFICES ASSUME NEW v \in c.onStack \cap later PROVE Right(v, c.frame[v], vals, stale)
    OBVIOUS
  <2>1. v \in DOMAIN reg /\ v \in m.onStack
    BY <1>2 DEF Holds
  <2>2. CASE v = Context(0)
    <3>1. c.frame[v] = ContextOut(0)
      BY <1>2, <1>3, <2>1, <2>2
    <3> QED
      BY <2>2, <3>1, RightOf
  <2>3. CASE v # Context(0)
    BY <1>2, <1>4, <2>1, <2>3 DEF Holds
  <2> QED
    BY <2>2, <2>3
<1>8. c.memory = m.memory
  BY <1>2 DEF Outside
<1>9. c.frame[SelfVar] = <<"arg", 1>>
  <2>1. SelfVar \in Arguments
    BY DEF Setting
  <2> QED
    BY <1>2, <2>1 DEF Holds
<1>10. Holds(c, vals, later, stale)
  BY <1>2, <1>3, <1>6, <1>7, <1>8, <1>9 DEF Holds
<1> QED
  BY <1>1, <1>2, <1>10 DEF Moved

(* The receiver is the first argument.                                     *)
LEMMA SelfIs ==
  ASSUME NEW x, NEW vals, NEW stale, Valued(vals), Right(SelfVar, x, vals, stale)
  PROVE  x = <<"arg", 1>>
<1>1. x = vals[1]
  BY RightOf DEF SelfVar, Valued
<1> QED
  BY <1>1 DEF Valued

(* A block captures the receiver and the first context.                    *)
LEMMA LoadBlockHolds ==
  ASSUME NEW m, NEW vals, NEW stale, NEW n \in Nat, Holds(m, vals, LiveAt(n), stale),
         Setting, Separate(LiveAt(n) \union {Context(0)}), Valued(vals), ~FrameLess,
         NEW index, SelfVar \in LiveAt(n), reg[SelfVar] # Spilled
  PROVE  /\ Holds(LoadBlock(m, index, n).m, vals, LiveAt(n), stale)
         /\ Moved(m, LoadBlock(m, index, n).m, {})
         /\ LoadBlock(m, index, n).x = <<"block", index, <<"arg", 1>>, ContextOut(0)>>
<1> DEFINE live == LiveAt(n) \union {Context(0)}
           c == Collect(m, n)
           d == FillVar(c, Context(0))
           e == FillVar(d, SelfVar)
<1>1. /\ Holds(c, vals, live, stale) /\ Moved(m, c, {}) /\ c.onStack = m.onStack
  BY CollectHolds
<1>2. Context(0) \in m.onStack /\ SelfVar \in m.onStack
  BY DEF Holds
<1> HIDE DEF c
<1>3. /\ Holds(d, vals, live, stale) /\ Moved(c, d, {}) /\ Context(0) \in d.inReg
  BY <1>1, <1>2, FillVarHolds DEF Setting
<1>4. SelfVar \in d.inReg \union d.onStack
  <2>1. SelfVar \in d.onStack
    BY <1>3 DEF Holds
  <2> QED
    BY <2>1
<1> HIDE DEF d
<1>5. /\ Holds(e, vals, live, stale) /\ Moved(d, e, {}) /\ d.inReg \subseteq e.inReg
      /\ Right(SelfVar, RegValue(e, SelfVar), vals, stale)
  BY <1>3, <1>4, FillVarHolds
<1> HIDE DEF e
<1>6. RegValue(e, SelfVar) = <<"arg", 1>>
  BY <1>5, SelfIs
<1>7. Right(Context(0), RegValue(e, Context(0)), vals, stale)
  BY <1>3, <1>5 DEF Holds, RegValue, Setting
<1>8. RegValue(e, Context(0)) = ContextOut(0)
  BY <1>7 DEF Right, Context
<1>9. LoadBlock(m, index, n) = Loaded(e, <<"block", index, RegValue(e, SelfVar), RegValue(e, Context(0))>>)
  BY DEF LoadBlock, c, d, e
<1>10. Moved(m, e, {})
  BY <1>1, <1>3, <1>5 DEF Moved
<1>11. Holds(e, vals, LiveAt(n), stale)
  BY <1>5, HoldsFewer
<1> QED
  BY <1>6, <1>8, <1>9, <1>10, <1>11 DEF Loaded

(* What an operand of the unit uses is live, and not spilled where it is   *)
(* filled.                                                                 *)
Ready(o, live) ==
  /\ SourceOf(unit, o)
  /\ o.type \in {"TEMP", "ARG"} => Tmp(o.index) \in live
  /\ o.type \in {"SUPER", "INST", "BLOCK"} => (SelfVar \in live /\ reg[SelfVar] # Spilled)
  /\ o.type = "CONTEXT" => (Context(o.level) \in live /\ reg[Context(o.level)] # Spilled)
  /\ o.type \in {"CONTEXT", "THIS_CONTEXT"} => Context(0) \in live
  /\ o.type = "ASSOC" => (Assoc(o.index) \in live /\ reg[Assoc(o.index)] # Spilled)
  /\ o.type \in {"CONTEXT", "BLOCK"} => ~FrameLess
  /\ o.type = "THIS_CONTEXT" => ~(FrameLess /\ ~unit.isBlock)

Plain(live) == { v \in live : v[1] # "CLASS" }

(* The meaning of an operand, when memory is mem and as many were sent.    *)
Meant(o, vals, mem, sends) ==
  CASE o.type \in {"TEMP", "ARG"} -> vals[o.index]
    [] o.type = "SUPER"        -> <<"arg", 1>>
    [] o.type = "VALUE"        -> o.index
    [] o.type = "LITERAL"      -> <<"literal", o.index>>
    [] o.type = "THIS_CONTEXT" -> ContextOut(0)
    [] o.type = "CONTEXT"      -> A!ReadField(mem, ContextOut(o.level), o.index, sends)
    [] o.type = "INST"         -> A!ReadField(mem, <<"arg", 1>>, o.index, sends)
    [] o.type = "ASSOC"        -> A!ReadField(mem, Association(o.index), 0, sends)
    [] o.type = "BLOCK"        -> <<"block", o.index, <<"arg", 1>>, ContextOut(0)>>

(* An operand names a variable of the unit.                                *)
LEMMA IndexValued ==
  ASSUME NEW o, NEW vals, SourceOf(unit, o), o.type \in {"TEMP", "ARG"}, Valued(vals), unit \in Units
  PROVE  o.index \in DOMAIN vals /\ vals[o.index] # Junk
<1>1. unit.argsSize \in Nat /\ unit.tempsSize \in Nat
  BY UnitsAssumption
<1>2. o.index \in DOMAIN vals
  <2>1. CASE o.type = "TEMP"
    <3>1. o.index \in unit.argsSize + 2 .. unit.argsSize + 1 + unit.tempsSize
      BY <2>1 DEF SourceOf
    <3> QED
      BY <1>1, <3>1 DEF Valued
  <2>2. CASE o.type = "ARG"
    <3>1. o.index \in 1 .. unit.argsSize + 1
      BY <2>2 DEF SourceOf
    <3> QED
      BY <1>1, <3>1 DEF Valued
  <2> QED
    BY <2>1, <2>2
<1> QED
  BY <1>2 DEF Valued

(* Registers apart for some variables are for fewer.                       *)
LEMMA SeparateFewer ==
  ASSUME NEW live, Separate(live), NEW fewer \in SUBSET live
  PROVE  Separate(fewer)
BY DEF Separate

(* Fewer flags than allowed are allowed.                                   *)
LEMMA MovedMore ==
  ASSUME NEW m, NEW c, NEW flagged, NEW more, flagged \subseteq more, Moved(m, c, flagged)
  PROVE  Moved(m, c, more)
BY DEF Moved

(* One step after another.                                                 *)
LEMMA MovedTwice ==
  ASSUME NEW m, NEW c, NEW d, NEW flagged, Moved(m, c, flagged), Moved(c, d, flagged)
  PROVE  Moved(m, d, flagged)
<1>1. Outside(d) = Outside(m)
  BY DEF Moved
<1>2. d.inReg \union d.onStack \subseteq m.inReg \union m.onStack \union flagged
  BY DEF Moved
<1> QED
  BY <1>1, <1>2 DEF Moved

(* A field is read as the meaning says, if memory is the same.             *)
LEMMA ReadSame ==
  ASSUME NEW m, NEW c, Outside(c) = Outside(m), NEW object, NEW field
  PROVE  ReadField(c, object, field) = A!ReadField(m.memory, object, field, Len(m.sent))
<1>1. c.memory = m.memory /\ c.sent = m.sent
  BY DEF Outside
<1> QED
  BY <1>1 DEF ReadField, A!ReadField

(* No field holds Junk.                                                    *)
LEMMA ReadClean ==
  ASSUME NEW mem, \A p \in DOMAIN mem : mem[p] # Junk, NEW object, NEW field, NEW sends
  PROVE  A!ReadField(mem, object, field, sends) # Junk
<1>1. <<"field", object, field, sends>> # Junk
  BY DEF Junk
<1> QED
  BY <1>1 DEF A!ReadField

(* Reading an operand, for a register or for the stack.                    *)
LEMMA PlainHas ==
  ASSUME NEW live
  PROVE  /\ \A i : Tmp(i) \in live => {Tmp(i)} \subseteq Plain(live)
         /\ \A i : Context(i) \in live => {Context(i)} \subseteq Plain(live)
         /\ \A i : Assoc(i) \in live => {Assoc(i)} \subseteq Plain(live)
         /\ {} \subseteq Plain(live)
BY DEF Plain, Tmp, Context, Assoc

Read(m, r, o, vals, live, stale) ==
  /\ Holds(r.m, vals, live, stale)
  /\ Moved(m, r.m, Plain(live))
  /\ r.x = Meant(o, vals, m.memory, Len(m.sent))
  /\ r.x # Junk

(* Reading the first context, or filling its register.                     *)
LEMMA FirstContextHolds ==
  ASSUME NEW m, NEW vals, NEW live, NEW stale, Holds(m, vals, live, stale), Separate(live),
         Context(0) \in live, ~(FrameLess /\ ~unit.isBlock), Setting
  PROVE  /\ Holds(MovVar(m, Context(0)).m, vals, live, stale)
         /\ Moved(m, MovVar(m, Context(0)).m, {})
         /\ MovVar(m, Context(0)).x = ContextOut(0)
         /\ Holds(FillVar(m, Context(0)), vals, live, stale)
         /\ Moved(m, FillVar(m, Context(0)), {})
         /\ RegValue(FillVar(m, Context(0)), Context(0)) = ContextOut(0)
<1> DEFINE v == Context(0)
<1>0. v[1] = "CONTEXT" /\ v[2] = 0
  BY DEF Context
<1>1. v \in m.inReg \union m.onStack
  BY DEF Holds
<1>2. /\ Holds(MovVar(m, v).m, vals, live, stale) /\ Moved(m, MovVar(m, v).m, {})
      /\ Right(v, MovVar(m, v).x, vals, stale)
  BY <1>1, MovVarHolds
<1>3. reg[v] # Spilled
  BY DEF Setting
<1>4. /\ Holds(FillVar(m, v), vals, live, stale) /\ Moved(m, FillVar(m, v), {})
      /\ Right(v, RegValue(FillVar(m, v), v), vals, stale)
  BY <1>1, <1>3, FillVarHolds
<1> HIDE DEF v
<1> QED
  BY <1>0, <1>2, <1>4 DEF Right, v

(* Reading the receiver, or filling its register.                          *)
LEMMA SelfHolds ==
  ASSUME NEW m, NEW vals, NEW live, NEW stale, Holds(m, vals, live, stale), Separate(live),
         SelfVar \in live, reg[SelfVar] # Spilled, Valued(vals)
  PROVE  /\ Holds(MovVar(m, SelfVar).m, vals, live, stale)
         /\ Moved(m, MovVar(m, SelfVar).m, {})
         /\ MovVar(m, SelfVar).x = <<"arg", 1>>
         /\ Holds(FillVar(m, SelfVar), vals, live, stale)
         /\ Moved(m, FillVar(m, SelfVar), {})
         /\ RegValue(FillVar(m, SelfVar), SelfVar) = <<"arg", 1>>
         /\ FillVar(m, SelfVar).inReg = m.inReg \union {SelfVar}
<1>1. SelfVar \in m.inReg \union m.onStack
  BY DEF Holds
<1>2. /\ Holds(MovVar(m, SelfVar).m, vals, live, stale) /\ Moved(m, MovVar(m, SelfVar).m, {})
      /\ Right(SelfVar, MovVar(m, SelfVar).x, vals, stale)
  BY <1>1, MovVarHolds
<1>4. /\ Holds(FillVar(m, SelfVar), vals, live, stale) /\ Moved(m, FillVar(m, SelfVar), {})
      /\ Right(SelfVar, RegValue(FillVar(m, SelfVar), SelfVar), vals, stale)
      /\ FillVar(m, SelfVar).inReg = m.inReg \union {SelfVar}
  BY <1>1, FillVarHolds
<1> QED
  BY <1>2, <1>4, SelfIs

(* Reading a field once the object is at hand.                             *)
LEMMA FieldRead ==
  ASSUME NEW m, NEW c, NEW vals, NEW live, NEW stale, NEW flagged \in SUBSET Plain(live),
         Holds(m, vals, live, stale), Holds(c, vals, live, stale), Moved(m, c, flagged),
         NEW o, NEW object, NEW field,
         Meant(o, vals, m.memory, Len(m.sent)) = A!ReadField(m.memory, object, field, Len(m.sent))
  PROVE  Read(m, Loaded(c, ReadField(c, object, field)), o, vals, live, stale)
<1>1. ReadField(c, object, field) = A!ReadField(m.memory, object, field, Len(m.sent))
  BY ReadSame DEF Moved
<1>2. A!ReadField(m.memory, object, field, Len(m.sent)) # Junk
  BY ReadClean DEF Holds
<1>3. Moved(m, c, Plain(live))
  BY MovedMore
<1> QED
  BY <1>1, <1>2, <1>3 DEF Read, Loaded

(* movOperand loads what the operand means.                                *)
LEMMA MovOperandHolds ==
  ASSUME NEW m, NEW vals, NEW stale, NEW n \in Nat, Holds(m, vals, LiveAt(n), stale),
         Setting, Separate(LiveAt(n) \union {Context(0)}), Valued(vals),
         NEW o, Ready(o, LiveAt(n))
  PROVE  Read(m, MovOperand(m, o, n), o, vals, LiveAt(n), stale)
<1> DEFINE live == LiveAt(n)
           r == MovOperand(m, o, n)
           mem == m.memory
           sends == Len(m.sent)
<1>0. Separate(live)
  BY SeparateFewer
<1>1. CASE o.type \in {"TEMP", "ARG"}
  <2>1. r = MovVar(m, Tmp(o.index)) /\ Meant(o, vals, mem, sends) = vals[o.index]
    BY <1>1 DEF MovOperand, Meant
  <2>2. o.index \in DOMAIN vals /\ vals[o.index] # Junk /\ Tmp(o.index) \in live
    BY <1>1, IndexValued DEF Ready, Setting
  <2>3. /\ Holds(r.m, vals, live, stale) /\ Moved(m, r.m, {}) /\ r.x = vals[o.index]
    BY <1>0, <2>1, <2>2, MovTmpHolds
  <2>4. Moved(m, r.m, Plain(live))
    BY <2>3, PlainHas, MovedMore
  <2> HIDE DEF r, live
  <2> QED
    BY <2>1, <2>2, <2>3, <2>4 DEF Read, live, r
<1>2. CASE o.type = "THIS_CONTEXT"
  <2>1. r = MovVar(m, Context(0)) /\ Meant(o, vals, mem, sends) = ContextOut(0)
    BY <1>2 DEF MovOperand, Meant
  <2>2. Context(0) \in live /\ ~(FrameLess /\ ~unit.isBlock)
    BY <1>2 DEF Ready
  <2>3. /\ Holds(r.m, vals, live, stale) /\ Moved(m, r.m, {}) /\ r.x = ContextOut(0)
    BY <1>0, <2>1, <2>2, FirstContextHolds
  <2>4. Moved(m, r.m, Plain(live)) /\ ContextOut(0) # Junk
    BY <2>3, PlainHas, MovedMore DEF ContextOut, Junk
  <2> HIDE DEF r, live
  <2> QED
    BY <2>1, <2>3, <2>4 DEF Read, live, r
<1>3. CASE o.type = "SUPER"
  <2>1. r = MovVar(m, SelfVar) /\ Meant(o, vals, mem, sends) = <<"arg", 1>>
    BY <1>3 DEF MovOperand, Meant
  <2>2. SelfVar \in live /\ reg[SelfVar] # Spilled
    BY <1>3 DEF Ready
  <2>3. /\ Holds(r.m, vals, live, stale) /\ Moved(m, r.m, {}) /\ r.x = <<"arg", 1>>
    BY <1>0, <2>1, <2>2, SelfHolds
  <2>4. Moved(m, r.m, Plain(live)) /\ <<"arg", 1>> # Junk
    BY <2>3, PlainHas, MovedMore DEF Junk
  <2> HIDE DEF r, live
  <2> QED
    BY <2>1, <2>3, <2>4 DEF Read, live, r
<1>4. CASE o.type = "CONTEXT"
  <2> DEFINE c == FillContext(m, o.level)
  <2>1. r = Loaded(c, ReadField(c, RegValue(c, Context(o.level)), o.index))
    BY <1>4 DEF MovOperand, LoadField
  <2>2. Meant(o, vals, mem, sends) = A!ReadField(mem, ContextOut(o.level), o.index, sends)
    BY <1>4 DEF Meant
  <2>3. /\ o.level \in Nat /\ ~FrameLess /\ Context(0) \in live /\ Context(o.level) \in live
        /\ reg[Context(0)] # Spilled /\ reg[Context(o.level)] # Spilled
    BY <1>4 DEF Ready, SourceOf, Setting
  <2>4. /\ Holds(c, vals, live, stale) /\ Moved(m, c, {Context(o.level)})
        /\ RegValue(c, Context(o.level)) = ContextOut(o.level)
    BY <1>0, <2>3, FillContextHolds
  <2>5. {Context(o.level)} \subseteq Plain(live)
    BY <2>3, PlainHas
  <2> HIDE DEF c, live, r
  <2> QED
    BY <2>1, <2>2, <2>4, <2>5, FieldRead DEF live, r
<1>5. CASE o.type = "INST"
  <2> DEFINE c == FillVar(m, SelfVar)
  <2>1. r = Loaded(c, ReadField(c, RegValue(c, SelfVar), o.index))
    BY <1>5 DEF MovOperand, LoadField
  <2>2. Meant(o, vals, mem, sends) = A!ReadField(mem, <<"arg", 1>>, o.index, sends)
    BY <1>5 DEF Meant
  <2>3. SelfVar \in live /\ reg[SelfVar] # Spilled
    BY <1>5 DEF Ready
  <2>4. /\ Holds(c, vals, live, stale) /\ Moved(m, c, {}) /\ RegValue(c, SelfVar) = <<"arg", 1>>
    BY <1>0, <2>3, SelfHolds
  <2> HIDE DEF c, live, r
  <2> QED
    BY <2>1, <2>2, <2>4, PlainHas, FieldRead DEF live, r
<1>6. CASE o.type = "ASSOC"
  <2> DEFINE c == FillAssoc(m, o.index)
  <2>1. Assoc(o.index) \in live /\ reg[Assoc(o.index)] # Spilled
    BY <1>6 DEF Ready
  <2>2. r = Loaded(c, ReadField(c, RegValue(c, Assoc(o.index)), 0))
    BY <1>6, <2>1 DEF MovOperand, LoadField
  <2>3. Meant(o, vals, mem, sends) = A!ReadField(mem, Association(o.index), 0, sends)
    BY <1>6 DEF Meant
  <2>4. /\ Holds(c, vals, live, stale) /\ Moved(m, c, {Assoc(o.index)})
        /\ RegValue(c, Assoc(o.index)) = Association(o.index)
    BY <1>0, <2>1, FillAssocHolds
  <2>5. {Assoc(o.index)} \subseteq Plain(live)
    BY <2>1, PlainHas
  <2> HIDE DEF c, live, r
  <2> QED
    BY <2>2, <2>3, <2>4, <2>5, FieldRead DEF live, r
<1>7. CASE o.type = "BLOCK"
  <2>1. r = LoadBlock(m, o.index, n)
    BY <1>7 DEF MovOperand
  <2>2. Meant(o, vals, mem, sends) = <<"block", o.index, <<"arg", 1>>, ContextOut(0)>>
    BY <1>7 DEF Meant
  <2>3. SelfVar \in live /\ reg[SelfVar] # Spilled /\ ~FrameLess
    BY <1>7 DEF Ready
  <2>4. /\ Holds(r.m, vals, live, stale) /\ Moved(m, r.m, {})
        /\ r.x = <<"block", o.index, <<"arg", 1>>, ContextOut(0)>>
    BY <2>1, <2>3, LoadBlockHolds
  <2>5. Moved(m, r.m, Plain(live)) /\ <<"block", o.index, <<"arg", 1>>, ContextOut(0)>> # Junk
    BY <2>4, PlainHas, MovedMore DEF Junk
  <2> HIDE DEF r, live
  <2> QED
    BY <2>2, <2>4, <2>5 DEF Read, live, r
<1>8. CASE o.type = "LITERAL"
  <2>1. r = Loaded(m, <<"literal", o.index>>) /\ Meant(o, vals, mem, sends) = <<"literal", o.index>>
    BY <1>8 DEF MovOperand, Meant
  <2>2. <<"literal", o.index>> # Junk
    BY DEF Junk
  <2> QED
    BY <2>1, <2>2 DEF Read, Loaded, Moved
<1>9. CASE o.type = "VALUE"
  <2>1. r = Loaded(m, o.index) /\ Meant(o, vals, mem, sends) = o.index
    BY <1>9 DEF MovOperand, Meant
  <2>2. o.index # Junk
    BY <1>9 DEF Ready, SourceOf
  <2> QED
    BY <2>1, <2>2 DEF Read, Loaded, Moved
<1>10. o.type \in {"TEMP", "ARG", "THIS_CONTEXT", "SUPER", "CONTEXT", "INST", "ASSOC", "BLOCK", "LITERAL", "VALUE"}
  BY DEF Ready, SourceOf
<1> QED
  BY <1>1, <1>2, <1>3, <1>4, <1>5, <1>6, <1>7, <1>8, <1>9, <1>10

(* pushOperand pushes what the operand means.                              *)
LEMMA PushOperandHolds ==
  ASSUME NEW m, NEW vals, NEW stale, NEW n \in Nat, Holds(m, vals, LiveAt(n), stale),
         Setting, Separate(LiveAt(n) \union {Context(0)}), Valued(vals),
         NEW o, Ready(o, LiveAt(n))
  PROVE  Read(m, PushOperand(m, o, n), o, vals, LiveAt(n), stale)
<1> DEFINE live == LiveAt(n)
           r == PushOperand(m, o, n)
           mem == m.memory
           sends == Len(m.sent)
<1>0. Separate(live)
  BY SeparateFewer
<1>1. CASE o.type \in {"TEMP", "ARG"}
  <2>1. r = PushVar(m, Tmp(o.index)) /\ Meant(o, vals, mem, sends) = vals[o.index]
    BY <1>1 DEF PushOperand, Meant
  <2>2. o.index \in DOMAIN vals /\ vals[o.index] # Junk /\ Tmp(o.index) \in live
    BY <1>1, IndexValued DEF Ready, Setting
  <2> DEFINE q == PushVar(m, Tmp(o.index))
  <2>3. /\ Holds(r.m, vals, live, stale) /\ Moved(m, r.m, {Tmp(o.index)}) /\ r.x = vals[o.index]
    <3>1. Holds(q.m, vals, live, stale) /\ Moved(m, q.m, {Tmp(o.index)}) /\ q.x = vals[o.index]
      BY <1>0, <2>2, PushTmpHolds
    <3> HIDE DEF q, r
    <3> QED
      BY <2>1, <3>1 DEF q
  <2>4. Moved(m, r.m, Plain(live))
    BY <2>2, <2>3, PlainHas, MovedMore
  <2> HIDE DEF r, live
  <2> QED
    BY <2>1, <2>2, <2>3, <2>4 DEF Read, live, r
<1>2. CASE o.type = "THIS_CONTEXT"
  <2> DEFINE c == FillVar(m, Context(0))
  <2>1. r = Loaded(c, RegValue(c, Context(0))) /\ Meant(o, vals, mem, sends) = ContextOut(0)
    BY <1>2 DEF PushOperand, Filled, Meant
  <2>2. Context(0) \in live /\ ~(FrameLess /\ ~unit.isBlock)
    BY <1>2 DEF Ready
  <2>3. /\ Holds(c, vals, live, stale) /\ Moved(m, c, {}) /\ RegValue(c, Context(0)) = ContextOut(0)
    BY <1>0, <2>2, FirstContextHolds
  <2>4. Moved(m, c, Plain(live)) /\ ContextOut(0) # Junk
    BY <2>3, PlainHas, MovedMore DEF ContextOut, Junk
  <2> HIDE DEF c, r, live
  <2> QED
    BY <2>1, <2>3, <2>4 DEF Read, Loaded, live, r
<1>3. CASE o.type = "SUPER"
  <2> DEFINE c == FillVar(m, SelfVar)
  <2>1. r = Loaded(c, RegValue(c, SelfVar)) /\ Meant(o, vals, mem, sends) = <<"arg", 1>>
    BY <1>3 DEF PushOperand, Filled, Meant
  <2>2. SelfVar \in live /\ reg[SelfVar] # Spilled
    BY <1>3 DEF Ready
  <2>3. /\ Holds(c, vals, live, stale) /\ Moved(m, c, {}) /\ RegValue(c, SelfVar) = <<"arg", 1>>
    BY <1>0, <2>2, SelfHolds
  <2>4. Moved(m, c, Plain(live)) /\ <<"arg", 1>> # Junk
    BY <2>3, PlainHas, MovedMore DEF Junk
  <2> HIDE DEF c, r, live
  <2> QED
    BY <2>1, <2>3, <2>4 DEF Read, Loaded, live, r
<1>4. CASE o.type = "ASSOC"
  <2>1. r = Loaded(m, ReadField(m, Association(o.index), 0))
    BY <1>4 DEF PushOperand
  <2>2. Meant(o, vals, mem, sends) = A!ReadField(mem, Association(o.index), 0, sends)
    BY <1>4 DEF Meant
  <2>3. Moved(m, m, {})
    BY DEF Moved
  <2> HIDE DEF r, live
  <2> QED
    BY <2>1, <2>2, <2>3, PlainHas, FieldRead DEF live, r
<1>5. CASE o.type \notin {"TEMP", "ARG", "THIS_CONTEXT", "SUPER", "ASSOC"}
  <2>1. r = MovOperand(m, o, n)
    BY <1>5 DEF PushOperand
  <2> QED
    BY <2>1, MovOperandHolds
<1> QED
  BY <1>1, <1>2, <1>3, <1>4, <1>5

-----------------------------------------------------------------------------
(* Stores.                                                                 *)

(* Writing a field leaves registers and slots alone.                       *)
LEMMA WriteFieldHolds ==
  ASSUME NEW m, NEW vals, NEW live, NEW stale, Holds(m, vals, live, stale),
         NEW object, NEW field, NEW x, x # Junk
  PROVE  /\ Holds(WriteField(m, object, field, x), vals, live, stale)
         /\ WriteField(m, object, field, x).memory = A!WithField(m.memory, object, field, x)
         /\ WriteField(m, object, field, x).sent = m.sent
         /\ WriteField(m, object, field, x).result = m.result
         /\ WriteField(m, object, field, x).started = m.started
         /\ WriteField(m, object, field, x).inReg = m.inReg
         /\ WriteField(m, object, field, x).onStack = m.onStack
<1> DEFINE mem == A!WithField(m.memory, object, field, x)
           c == [started |-> m.started, inReg |-> m.inReg, onStack |-> m.onStack,
                 regs |-> m.regs, frame |-> m.frame, memory |-> mem, sent |-> m.sent,
                 shown |-> m.shown, result |-> m.result, failed |-> m.failed]
<1>1. \A p \in DOMAIN mem : mem[p] # Junk
  BY DEF Holds, A!WithField
<1>2. WriteField(m, object, field, x) = [m EXCEPT !.memory = mem]
  BY DEF WriteField, A!WithField
<1> HIDE DEF mem
<1>3. WriteField(m, object, field, x) = c
  BY <1>2 DEF Holds, Machine
<1>4. Holds(c, vals, live, stale)
  BY <1>1 DEF Holds, Machine
<1> QED
  BY <1>3, <1>4 DEF mem

(* An argument or a temporary is written: the class found for it may be    *)
(* that of the value before.                                               *)
Wrote(m, c, v, x) ==
  /\ Machine(c) /\ Outside(c) = Outside(m)
  /\ DOMAIN c.regs = HeldRegisters /\ DOMAIN c.frame = DOMAIN reg
  /\ c.onStack = m.onStack \union {v}
  /\ \A w \in DOMAIN reg : c.frame[w] = IF w = v THEN x ELSE m.frame[w]
  /\ \/ /\ reg[v] = Spilled /\ c.inReg = m.inReg /\ c.regs = m.regs
     \/ /\ reg[v] # Spilled /\ c.inReg = m.inReg \union {v}
        /\ \A r \in HeldRegisters : c.regs[r] = IF r = reg[v] THEN x ELSE m.regs[r]
  /\ c.shown = m.shown /\ c.failed = m.failed

(* A store goes to the register and the slot, or only the slot.            *)
LEMMA WritesBoth ==
  ASSUME NEW m, NEW vals, NEW live, NEW stale, Holds(m, vals, live, stale), ~FrameLess,
         NEW v \in DOMAIN reg, NEW x
  PROVE  Wrote(m, IF reg[v] = Spilled THEN IntoFrame(m, v, x) ELSE SpillVar(IntoReg(m, v, x), v), v, x)
<1>0. Machine(m) /\ DOMAIN m.regs = HeldRegisters /\ DOMAIN m.frame = DOMAIN reg
  BY DEF Holds
<1>1. CASE reg[v] = Spilled
  BY <1>0, <1>1, IntoFrameFields DEF Wrote
<1>2. CASE reg[v] # Spilled
  <2> DEFINE b == IntoReg(m, v, x)
             c == IntoFrame(b, v, RegValue(b, v))
  <2>1. /\ Machine(b) /\ Outside(b) = Outside(m)
        /\ b.inReg = m.inReg \union {v} /\ b.onStack = m.onStack /\ b.frame = m.frame
        /\ DOMAIN b.regs = HeldRegisters
        /\ \A r \in HeldRegisters : b.regs[r] = IF r = reg[v] THEN x ELSE m.regs[r]
        /\ RegValue(b, v) = x /\ b.shown = m.shown /\ b.failed = m.failed
    BY <1>0, <1>2, IntoRegFields
  <2>2. SpillVar(b, v) = c
    BY DEF SpillVar
  <2> HIDE DEF b
  <2>3. /\ Machine(c) /\ Outside(c) = Outside(b)
        /\ c.onStack = b.onStack \union {v} /\ c.inReg = b.inReg /\ c.regs = b.regs
        /\ DOMAIN c.frame = DOMAIN reg
        /\ \A w \in DOMAIN reg : c.frame[w] = IF w = v THEN RegValue(b, v) ELSE b.frame[w]
        /\ c.shown = b.shown /\ c.failed = b.failed
    BY <1>0, <2>1, IntoFrameFields
  <2> HIDE DEF c
  <2>4. Wrote(m, c, v, x)
    BY <1>2, <2>1, <2>3 DEF Wrote
  <2> QED
    BY <1>2, <2>2, <2>4 DEF b
<1> QED
  BY <1>1, <1>2

(* A store into one variable is no store into another.                     *)
LEMMA OthersRight ==
  ASSUME NEW vals, NEW stale, NEW i \in DOMAIN vals, NEW x, NEW w, w # Tmp(i), NEW y,
         Right(w, y, vals, stale)
  PROVE  Right(w, y, [vals EXCEPT ![i] = x], stale \union {i})
<1> DEFINE after == [vals EXCEPT ![i] = x]
<1>1. DOMAIN after = DOMAIN vals /\ \A j \in DOMAIN vals : j # i => after[j] = vals[j]
  OBVIOUS
<1> HIDE DEF after
<1>2. \A j \in DOMAIN after : w = Tmp(j) => y = after[j]
  BY <1>1 DEF Right
<1>3. \A j \in DOMAIN after : (w = Class(j) /\ j \notin stale \union {i}) => y = ClassOf(after[j])
  BY <1>1 DEF Right
<1>4. Right(w, y, after, stale \union {i})
  BY <1>2, <1>3 DEF Right
<1> QED
  BY <1>4 DEF after

(* After a store only the class found may be an earlier one.               *)
LEMMA WroteHolds ==
  ASSUME NEW m, NEW vals, NEW live, NEW stale, Holds(m, vals, live, stale), Separate(live),
         NEW i \in DOMAIN vals, i # 1, Tmp(i) \in live, NEW x, x # Junk,
         NEW c, Wrote(m, c, Tmp(i), x), Setting
  PROVE  Holds(c, [vals EXCEPT ![i] = x], live, stale \union {i})
<1> DEFINE v == Tmp(i)
           after == [vals EXCEPT ![i] = x]
           older == stale \union {i}
<1>1. DOMAIN after = DOMAIN vals /\ after[i] = x /\ \A j \in DOMAIN vals : j # i => after[j] = vals[j]
  OBVIOUS
<1>2. Right(v, x, after, older)
  BY <1>1, RightOf
<1>3. \A w, y : (w # v /\ Right(w, y, vals, stale)) => Right(w, y, after, older)
  BY OthersRight
<1>4. v \in DOMAIN reg /\ v # SelfVar /\ v # Context(0) /\ v[1] # "ASSOC"
  BY DEF Separate, Tmp, SelfVar, Context
<1>5. \A j \in DOMAIN vals : Tmp(j) = v => j = i
  BY DEF Tmp
<1> HIDE DEF v, after, older
<1>6. \A w \in c.inReg \cap live : Right(w, c.regs[reg[w]], after, older)
  <2> SUFFICES ASSUME NEW w \in c.inReg \cap live PROVE Right(w, c.regs[reg[w]], after, older)
    OBVIOUS
  <2>1. CASE reg[v] = Spilled
    <3>1. w \in m.inReg /\ w \in live /\ c.regs = m.regs
      BY <2>1 DEF Wrote, v
    <3>2. w # v
      BY <2>1, <3>1 DEF Holds
    <3> QED
      BY <1>3, <3>1, <3>2 DEF Holds
  <2>2. CASE reg[v] # Spilled /\ w = v
    <3>1. reg[v] \in HeldRegisters
      BY <1>4, <2>2 DEF HeldRegisters
    <3>2. c.regs[reg[w]] = x
      BY <2>2, <3>1 DEF Wrote, v
    <3> QED
      BY <1>2, <2>2, <3>2
  <2>3. CASE reg[v] # Spilled /\ w # v
    <3>1. w \in m.inReg /\ w \in live /\ w \in DOMAIN reg /\ reg[w] # Spilled
      BY <2>3 DEF Wrote, v, Holds
    <3>2. reg[w] # reg[v] /\ reg[w] \in HeldRegisters
      BY <2>3, <3>1 DEF Separate, HeldRegisters, v
    <3>3. c.regs[reg[w]] = m.regs[reg[w]]
      BY <2>3, <3>2 DEF Wrote, v
    <3> QED
      BY <1>3, <2>3, <3>1, <3>3 DEF Holds
  <2> QED
    BY <2>1, <2>2, <2>3
<1>7. \A w \in c.onStack \cap live : Right(w, c.frame[w], after, older)
  <2> SUFFICES ASSUME NEW w \in c.onStack \cap live PROVE Right(w, c.frame[w], after, older)
    OBVIOUS
  <2>1. w \in DOMAIN reg
    BY DEF Separate
  <2>2. c.frame[w] = IF w = v THEN x ELSE m.frame[w]
    BY <2>1 DEF Wrote, v
  <2>3. w # v => w \in m.onStack
    BY DEF Wrote, v
  <2> QED
    BY <1>2, <1>3, <2>2, <2>3 DEF Holds
<1>8. \A j \in DOMAIN after : Tmp(j) \in DOMAIN reg => (Tmp(j) \in c.onStack \/ after[j] = Nil)
  <2> SUFFICES ASSUME NEW j \in DOMAIN after, Tmp(j) \in DOMAIN reg
               PROVE  Tmp(j) \in c.onStack \/ after[j] = Nil
    OBVIOUS
  <2>1. c.onStack = m.onStack \union {v}
    BY DEF Wrote, v
  <2>2. CASE j = i
    BY <2>1, <2>2 DEF v
  <2>3. CASE j # i
    BY <1>1, <2>1, <2>3 DEF Holds
  <2> QED
    BY <2>2, <2>3
<1>9. /\ Machine(c) /\ DOMAIN c.regs = HeldRegisters /\ DOMAIN c.frame = DOMAIN reg
      /\ c.onStack = m.onStack \union {v} /\ c.inReg \subseteq m.inReg \union {v}
      /\ m.inReg \subseteq c.inReg /\ (v \in c.inReg \ m.inReg => reg[v] # Spilled)
      /\ c.shown = m.shown /\ c.failed = m.failed
      /\ c.frame[SelfVar] = m.frame[SelfVar] /\ c.frame[Context(0)] = m.frame[Context(0)]
  <2>1. SelfVar \in DOMAIN reg /\ Context(0) \in DOMAIN reg
    BY DEF Holds, Setting
  <2> QED
    BY <1>4, <2>1 DEF Wrote, v
<1>10. c.memory = m.memory
  BY DEF Wrote, Outside
<1>11. Holds(c, after, live, older)
  BY <1>4, <1>6, <1>7, <1>8, <1>9, <1>10 DEF Holds
<1> QED
  BY <1>11 DEF after, older

(* Once forgotten the class is not an earlier one either.                  *)
LEMMA ForgetHolds ==
  ASSUME NEW m, NEW vals, NEW live, NEW stale, NEW i, Holds(m, vals, live, stale \union {i})
  PROVE  /\ Holds(ForgetClass(m, i), vals, live, stale)
         /\ Outside(ForgetClass(m, i)) = Outside(m)
         /\ ForgetClass(m, i).inReg = m.inReg \ {Class(i)}
         /\ ForgetClass(m, i).onStack = m.onStack \ {Class(i)}
<1> DEFINE r == m.inReg \ {Class(i)}
           s == m.onStack \ {Class(i)}
           c == [started |-> m.started, inReg |-> r, onStack |-> s,
                 regs |-> m.regs, frame |-> m.frame, memory |-> m.memory, sent |-> m.sent,
                 shown |-> m.shown, result |-> m.result, failed |-> m.failed]
<1>1. ForgetClass(m, i) = c
  <2>1. ForgetClass(m, i) = [m EXCEPT !.inReg = r, !.onStack = s]
    BY DEF ForgetClass
  <2>2. Machine(m)
    BY DEF Holds
  <2> HIDE DEF r, s
  <2> QED
    BY <2>1, <2>2 DEF Machine
<1>2. \A w, x : (w # Class(i) /\ Right(w, x, vals, stale \union {i})) => Right(w, x, vals, stale)
  BY DEF Right
<1>3. \A j : Tmp(j) # Class(i) /\ Context(j) # Class(i)
  BY DEF Tmp, Context, Class
<1>4. Arguments \union {SelfVar} \subseteq c.onStack
  BY <1>3 DEF Holds, Arguments, SelfVar
<1>5. Holds(c, vals, live, stale)
  BY <1>2, <1>3, <1>4 DEF Holds, Machine
<1> QED
  BY <1>1, <1>5 DEF Outside

(* Storing a value.                                                        *)
ValuesAfter(vals, o, x) == IF o.type = "TEMP" THEN [vals EXCEPT ![o.index] = x] ELSE vals

Takes(o, live) ==
  \/ o.type = "NONE"
  \/ TargetOf(unit, o) /\ Ready(o, live) /\ (o.type = "TEMP" => ~FrameLess)

Stores(m, c, vals, live, stale, o, x) ==
  /\ Holds(c, ValuesAfter(vals, o, x), live, stale)
  /\ c.memory = A!MemoryWith(m.memory, o, x) /\ c.sent = m.sent
  /\ c.result = m.result /\ c.started = m.started
  /\ c.inReg \subseteq m.inReg \union live
  /\ c.inReg \union c.onStack \subseteq m.inReg \union m.onStack \union Plain(live)
  /\ o.type = "TEMP" => Class(o.index) \notin c.inReg \union c.onStack

(* What is stored into is a temporary, and not the receiver.               *)
LEMMA TargetIndex ==
  ASSUME NEW o, SourceOf(unit, o), o.type = "TEMP", NEW vals, Valued(vals), unit \in Units
  PROVE  o.index \in DOMAIN vals /\ o.index # 1
<1>1. unit.argsSize \in Nat /\ o.index \in unit.argsSize + 2 .. unit.argsSize + 1 + unit.tempsSize
  BY UnitsAssumption DEF SourceOf
<1>2. o.index # 1
  BY <1>1
<1> QED
  BY <1>2, IndexValued

(* movToVar stores into a temporary and forgets its class.                 *)
LEMMA MovToVarHolds ==
  ASSUME NEW m, NEW vals, NEW live, NEW stale, Holds(m, vals, live, stale), Separate(live),
         Setting, NEW i \in DOMAIN vals, i # 1, Tmp(i) \in live, ~FrameLess, NEW x, x # Junk
  PROVE  /\ Holds(MovToVar(m, Tmp(i), x), [vals EXCEPT ![i] = x], live, stale)
         /\ Outside(MovToVar(m, Tmp(i), x)) = Outside(m)
         /\ MovToVar(m, Tmp(i), x).inReg \subseteq m.inReg \union {Tmp(i)}
         /\ MovToVar(m, Tmp(i), x).onStack \subseteq m.onStack \union {Tmp(i)}
         /\ Class(i) \notin MovToVar(m, Tmp(i), x).inReg \union MovToVar(m, Tmp(i), x).onStack
<1> DEFINE v == Tmp(i)
           c == IF reg[v] = Spilled THEN IntoFrame(m, v, x) ELSE SpillVar(IntoReg(m, v, x), v)
<1>1. Wrote(m, c, v, x)
  BY WritesBoth DEF Separate
<1>2. MovToVar(m, v, x) = ForgetClass(c, i)
  BY DEF MovToVar, Tmp
<1> DEFINE after == [vals EXCEPT ![i] = x]
<1> HIDE DEF c
<1>3. Holds(c, after, live, stale \union {i})
  BY <1>1, WroteHolds
<1> HIDE DEF after, v
<1>4. /\ Holds(ForgetClass(c, i), after, live, stale)
      /\ Outside(ForgetClass(c, i)) = Outside(c)
      /\ ForgetClass(c, i).inReg = c.inReg \ {Class(i)}
      /\ ForgetClass(c, i).onStack = c.onStack \ {Class(i)}
  <2>1. Holds(ForgetClass(c, i), after, live, stale)
    BY <1>3, ForgetHolds
  <2>2. Outside(ForgetClass(c, i)) = Outside(c)
    BY <1>3, <2>1, ForgetHolds
  <2>3. ForgetClass(c, i).inReg = c.inReg \ {Class(i)}
    BY <1>3, <2>1, ForgetHolds
  <2>4. ForgetClass(c, i).onStack = c.onStack \ {Class(i)}
    BY <1>3, <2>1, ForgetHolds
  <2> QED
    BY <2>1, <2>2, <2>3, <2>4
<1>5. Outside(c) = Outside(m) /\ c.inReg \subseteq m.inReg \union {v} /\ c.onStack = m.onStack \union {v}
  BY <1>1 DEF Wrote
<1> QED
  BY <1>2, <1>4, <1>5 DEF after, v

(* A store into a field, once the object is at hand.                       *)
LEMMA StoreField ==
  ASSUME NEW m, NEW vals, NEW live, NEW stale, NEW c, Holds(c, vals, live, stale),
         NEW flagged \in SUBSET Plain(live), Moved(m, c, flagged), c.inReg \subseteq m.inReg \union live,
         NEW o, o.type # "TEMP", NEW object, NEW field, NEW x, x # Junk,
         A!MemoryWith(m.memory, o, x) = A!WithField(m.memory, object, field, x)
  PROVE  Stores(m, WriteField(c, object, field, x), vals, live, stale, o, x)
<1> DEFINE d == WriteField(c, object, field, x)
<1>1. /\ Holds(d, vals, live, stale) /\ d.memory = A!WithField(c.memory, object, field, x)
      /\ d.sent = c.sent /\ d.result = c.result /\ d.started = c.started
      /\ d.inReg = c.inReg /\ d.onStack = c.onStack
  BY WriteFieldHolds
<1>2. c.memory = m.memory /\ c.sent = m.sent /\ c.result = m.result /\ c.started = m.started
  BY DEF Moved, Outside
<1>3. c.inReg \union c.onStack \subseteq m.inReg \union m.onStack \union Plain(live)
  BY DEF Moved
<1> HIDE DEF d
<1>4. Stores(m, d, vals, live, stale, o, x)
  BY <1>1, <1>2, <1>3 DEF Stores, ValuesAfter
<1> QED
  BY <1>4 DEF d

(* movToOperand stores where the operand says.                             *)
LEMMA MovToOperandHolds ==
  ASSUME NEW m, NEW vals, NEW live, NEW stale, Holds(m, vals, live, stale), Separate(live),
         Setting, Valued(vals), NEW o, Takes(o, live), NEW x, x # Junk
  PROVE  Stores(m, MovToOperand(m, o, x), vals, live, stale, o, x)
<1> DEFINE r == MovToOperand(m, o, x)
<1>1. CASE o.type = "TEMP"
  <2>1. r = MovToVar(m, Tmp(o.index), x) /\ A!MemoryWith(m.memory, o, x) = m.memory
    BY <1>1 DEF MovToOperand, A!MemoryWith
  <2>2. o.index \in DOMAIN vals /\ o.index # 1 /\ Tmp(o.index) \in live /\ ~FrameLess
    BY <1>1, TargetIndex DEF Takes, Ready, Setting
  <2> DEFINE c == MovToVar(m, Tmp(o.index), x)
  <2>3. /\ Holds(c, [vals EXCEPT ![o.index] = x], live, stale) /\ Outside(c) = Outside(m)
        /\ c.inReg \subseteq m.inReg \union {Tmp(o.index)}
        /\ c.onStack \subseteq m.onStack \union {Tmp(o.index)}
        /\ Class(o.index) \notin c.inReg \union c.onStack
    BY <2>2, MovToVarHolds
  <2>4. {Tmp(o.index)} \subseteq Plain(live)
    BY <2>2, PlainHas
  <2> HIDE DEF c, r
  <2>5. Stores(m, c, vals, live, stale, o, x)
    BY <1>1, <2>1, <2>2, <2>3, <2>4 DEF Stores, ValuesAfter, Outside
  <2> QED
    BY <2>1, <2>5 DEF c, r
<1>2. CASE o.type = "CONTEXT"
  <2> DEFINE c == FillContext(m, o.level)
  <2>1. r = WriteField(c, RegValue(c, Context(o.level)), o.index, x)
    BY <1>2 DEF MovToOperand, MovToField
  <2>2. A!MemoryWith(m.memory, o, x) = A!WithField(m.memory, ContextOut(o.level), o.index, x)
    BY <1>2 DEF A!MemoryWith, ContextOut
  <2>3. /\ o.level \in Nat /\ ~FrameLess /\ Context(0) \in live /\ Context(o.level) \in live
        /\ reg[Context(0)] # Spilled /\ reg[Context(o.level)] # Spilled
    BY <1>2 DEF Takes, Ready, SourceOf, Setting
  <2>4. /\ Holds(c, vals, live, stale) /\ Moved(m, c, {Context(o.level)})
        /\ RegValue(c, Context(o.level)) = ContextOut(o.level)
        /\ c.inReg \subseteq m.inReg \union {Context(0), Context(o.level)}
    BY <2>3, FillContextHolds
  <2>5. {Context(o.level)} \subseteq Plain(live)
    BY <2>3, PlainHas
  <2>6. c.inReg \subseteq m.inReg \union live
    BY <2>3, <2>4
  <2> HIDE DEF c, r
  <2> QED
    BY <1>2, <2>1, <2>2, <2>4, <2>5, <2>6, StoreField DEF r
<1>3. CASE o.type = "INST"
  <2> DEFINE c == FillVar(m, SelfVar)
  <2>1. r = WriteField(c, RegValue(c, SelfVar), o.index, x)
    BY <1>3 DEF MovToOperand, MovToField
  <2>2. A!MemoryWith(m.memory, o, x) = A!WithField(m.memory, <<"arg", 1>>, o.index, x)
    BY <1>3 DEF A!MemoryWith, A!Self
  <2>3. SelfVar \in live /\ reg[SelfVar] # Spilled
    BY <1>3 DEF Takes, Ready
  <2>4. /\ Holds(c, vals, live, stale) /\ Moved(m, c, {})
        /\ RegValue(c, SelfVar) = <<"arg", 1>>
        /\ c.inReg = m.inReg \union {SelfVar}
    BY <2>3, SelfHolds
  <2>6. c.inReg \subseteq m.inReg \union live
    BY <2>3, <2>4
  <2> HIDE DEF c, r
  <2> QED
    BY <1>3, <2>1, <2>2, <2>4, <2>6, PlainHas, StoreField DEF r
<1>4. CASE o.type = "ASSOC"
  <2> DEFINE c == FillAssoc(m, o.index)
  <2>1. r = WriteField(c, RegValue(c, Assoc(o.index)), 0, x)
    BY <1>4 DEF MovToOperand, MovToField
  <2>2. A!MemoryWith(m.memory, o, x) = A!WithField(m.memory, Association(o.index), 0, x)
    BY <1>4 DEF A!MemoryWith, Association
  <2>3. Assoc(o.index) \in live /\ reg[Assoc(o.index)] # Spilled
    BY <1>4 DEF Takes, Ready
  <2>4. /\ Holds(c, vals, live, stale) /\ Moved(m, c, {Assoc(o.index)})
        /\ RegValue(c, Assoc(o.index)) = Association(o.index)
        /\ c.inReg = m.inReg \union {Assoc(o.index)}
    BY <2>3, FillAssocHolds
  <2>5. {Assoc(o.index)} \subseteq Plain(live)
    BY <2>3, PlainHas
  <2>6. c.inReg \subseteq m.inReg \union live
    BY <2>3, <2>4
  <2> HIDE DEF c, r
  <2> QED
    BY <1>4, <2>1, <2>2, <2>4, <2>5, <2>6, StoreField DEF r
<1>5. CASE o.type = "NONE"
  <2>1. r = m /\ A!MemoryWith(m.memory, o, x) = m.memory
    BY <1>5 DEF MovToOperand, A!MemoryWith
  <2> QED
    BY <1>5, <2>1 DEF Stores, ValuesAfter
<1>6. o.type \in {"TEMP", "CONTEXT", "INST", "ASSOC", "NONE"}
  BY DEF Takes, TargetOf
<1> QED
  BY <1>1, <1>2, <1>3, <1>4, <1>5, <1>6

-----------------------------------------------------------------------------
(* The arguments of a send are pushed one after the other.                 *)

(* A sequence with one more in front.                                      *)
LEMMA FrontOf ==
  ASSUME NEW k \in Nat \ {0}, NEW s, s = [j \in 1..(k - 1) |-> s[j]], NEW x
  PROVE  <<x>> \o s = [j \in 1..k |-> IF j = 1 THEN x ELSE s[j - 1]]
<1>1. IsSequence(s) /\ Len(s) = k - 1
  BY IsSequenceMap
<1>2. <<x>> \in Seq({x}) /\ Len(<<x>>) = 1 /\ <<x>>[1] = x
  OBVIOUS
<1>3. IsSequence(<<x>>)
  BY Single
<1> DEFINE t == <<x>> \o s
<1>4. /\ IsSequence(t) /\ DOMAIN t = 1..(1 + Len(s))
      /\ \A i \in 1..(1 + Len(s)) : t[i] = IF i <= 1 THEN <<x>>[i] ELSE s[i - 1]
  BY <1>1, <1>2, <1>3, Joined
<1>5. t \in Seq(ToSet(t))
  BY <1>4 DEF IsSequence
<1> HIDE DEF t
<1>6. 1 + Len(s) = k /\ \A i \in 1..k : (i <= 1) <=> (i = 1)
  BY <1>1
<1>7. \A i \in 1..k : t[i] = IF i = 1 THEN x ELSE s[i - 1]
  BY <1>2, <1>4, <1>6
<1>8. DOMAIN t = 1..k /\ t = [i \in DOMAIN t |-> t[i]]
  BY <1>4, <1>5, <1>6
<1>9. t = [j \in 1..k |-> IF j = 1 THEN x ELSE s[j - 1]]
  BY <1>7, <1>8
<1> QED
  BY <1>9 DEF t

(* All the arguments are pushed, each with its meaning.                    *)
LEMMA PushedHolds ==
  ASSUME NEW m, NEW vals, NEW stale, NEW n \in Nat, Holds(m, vals, LiveAt(n), stale),
         Setting, Separate(LiveAt(n) \union {Context(0)}), Valued(vals),
         NEW args, IsSequence(args), \A o \in ToSet(args) : Ready(o, LiveAt(n))
  PROVE  /\ Holds(Pushed(m, args, n).m, vals, LiveAt(n), stale)
         /\ Moved(m, Pushed(m, args, n).m, Plain(LiveAt(n)))
         /\ Pushed(m, args, n).xs
              = [i \in DOMAIN args |-> Meant(args[i], vals, m.memory, Len(m.sent))]
<1> DEFINE N == Len(args)
           live == LiveAt(n)
           After(x, i) == [m |-> PushOperand(x.m, args[N + 1 - i], n).m,
                           xs |-> <<PushOperand(x.m, args[N + 1 - i], n).x>> \o x.xs]
           start == [m |-> m, xs |-> << >>]
           Goes(k, f) == f = [i \in 0..k |-> IF i = 0 THEN start ELSE After(f[i - 1], i)]
           after == CHOOSE f : Goes(N, f)
           T == { k \in 0..N : \E f : Goes(k, f) }
           M(i) == Meant(args[i], vals, m.memory, Len(m.sent))
<1>1. N \in Nat /\ DOMAIN args = 1..N /\ \A i \in 1..N : args[i] \in ToSet(args)
  BY IsSequenceFacts DEF ToSet
<1>2. Pushed(m, args, n) = after[N]
  BY DEF Pushed
<1> HIDE DEF N, After, start, live, M
<1>3. 0 \in T
  <2> DEFINE f == [i \in 0..0 |-> start]
  <2>1. \A i \in 0..0 : i = 0
    OBVIOUS
  <2>2. Goes(0, f)
    BY <2>1
  <2> HIDE DEF f, Goes
  <2> QED
    BY <1>1, <2>2
<1>4. ASSUME NEW k \in 1..N, k - 1 \in T PROVE k \in T
  <2>1. PICK f : Goes(k - 1, f)
    BY <1>4
  <2>2. k \in Nat /\ k - 1 \in 0..(k - 1) /\ \A i \in 0..k : i = k \/ i \in 0..(k - 1)
    BY <1>1
  <2> DEFINE g == [i \in 0..k |-> IF i = k THEN After(f[k - 1], k) ELSE f[i]]
  <2>3. ASSUME NEW i \in 0..k PROVE g[i] = IF i = 0 THEN start ELSE After(g[i - 1], i)
    <3>1. CASE i = k
      <4>1. g[k - 1] = f[k - 1] /\ k # 0
        BY <2>2
      <4> QED
        BY <3>1, <4>1
    <3>2. CASE i # k
      <4>1. i \in 0..(k - 1) /\ g[i] = f[i]
        BY <2>2, <3>2
      <4>2. f[i] = IF i = 0 THEN start ELSE After(f[i - 1], i)
        BY <2>1, <4>1
      <4>3. i # 0 => (i - 1 \in 0..k /\ i - 1 # k)
        BY <2>2, <4>1
      <4>4. i # 0 => g[i - 1] = f[i - 1]
        BY <4>3
      <4> HIDE DEF g
      <4> QED
        BY <4>1, <4>2, <4>4
    <3> QED
      BY <3>1, <3>2
  <2>4. g = [i \in 0..k |-> g[i]]
    OBVIOUS
  <2> HIDE DEF g
  <2>5. Goes(k, g)
    BY <2>3, <2>4
  <2> HIDE DEF Goes
  <2>6. k \in 0..N
    BY <1>1
  <2> QED
    BY <2>5, <2>6
<1>5. Goes(N, after)
  <2> HIDE DEF T
  <2>1. 0..N \subseteq T
    BY <1>1, <1>3, <1>4, UpTo
  <2>2. N \in T
    BY <1>1, <2>1
  <2> HIDE DEF Goes
  <2>3. \E f : Goes(N, f)
    BY <2>2 DEF T
  <2> QED
    BY <2>3
<1> HIDE DEF after, T
<1>6. after[0] = start /\ \A i \in 1..N : after[i] = After(after[i - 1], i)
  <2>1. 0 \in 0..N /\ \A i \in 1..N : i \in 0..N /\ i # 0
    BY <1>1
  <2> QED
    BY <1>5, <2>1
<1> DEFINE Good(i) == /\ Holds(after[i].m, vals, live, stale)
                      /\ Moved(m, after[i].m, Plain(live))
                      /\ after[i].xs = [j \in 1..i |-> M(N - i + j)]
           S == { i \in 0..N : Good(i) }
<1>7. 0 \in S
  <2>1. after[0].m = m /\ after[0].xs = << >>
    BY <1>6 DEF start
  <2>2. Holds(m, vals, live, stale) /\ Moved(m, m, Plain(live))
    BY DEF live, Moved
  <2>3. << >> = [j \in 1..0 |-> M(N - 0 + j)]
    OBVIOUS
  <2> QED
    BY <1>1, <2>1, <2>2, <2>3
<1>8. ASSUME NEW i \in 1..N, i - 1 \in S PROVE i \in S
  <2> DEFINE b == after[i - 1]
             o == args[N + 1 - i]
             p == PushOperand(b.m, o, n)
  <2>1. /\ Holds(b.m, vals, live, stale) /\ Moved(m, b.m, Plain(live))
        /\ b.xs = [j \in 1..(i - 1) |-> M(N - (i - 1) + j)]
    BY <1>8
  <2>2. after[i].m = p.m /\ after[i].xs = <<p.x>> \o b.xs
    <3>1. after[i] = After(b, i)
      BY <1>6
    <3>2. After(b, i) = [m |-> p.m, xs |-> <<p.x>> \o b.xs]
      BY DEF After
    <3> HIDE DEF p, b
    <3> QED
      BY <3>1, <3>2
  <2>3. N + 1 - i \in 1..N /\ i \in Nat \ {0} /\ i \in 0..N
    BY <1>1
  <2>4. o \in ToSet(args)
    BY <1>1, <2>3
  <2>5. Ready(o, live)
    BY <2>4 DEF live
  <2> HIDE DEF b, o
  <2>6. Read(b.m, p, o, vals, live, stale)
    BY <2>1, <2>5, PushOperandHolds DEF live
  <2>7. p.x = M(N + 1 - i)
    <3>1. b.m.memory = m.memory /\ b.m.sent = m.sent
      BY <2>1 DEF Moved, Outside
    <3> QED
      BY <2>6, <3>1 DEF Read, M, o
  <2> HIDE DEF p
  <2>8. Holds(p.m, vals, live, stale) /\ Moved(m, p.m, Plain(live))
    BY <2>1, <2>6, MovedTwice DEF Read
  <2>9. <<p.x>> \o b.xs = [j \in 1..i |-> M(N - i + j)]
    <3> DEFINE s == b.xs
    <3>1. s = [j \in 1..(i - 1) |-> s[j]]
      BY <2>1
    <3>2. \A j \in 1..(i - 1) : s[j] = M(N - (i - 1) + j)
      BY <2>1
    <3> HIDE DEF s
    <3>3. <<p.x>> \o s = [j \in 1..i |-> IF j = 1 THEN p.x ELSE s[j - 1]]
      BY <2>3, <3>1, FrontOf
    <3>4. ASSUME NEW j \in 1..i PROVE (IF j = 1 THEN p.x ELSE s[j - 1]) = M(N - i + j)
      <4>1. CASE j = 1
        <5>1. N + 1 - i = N - i + j
          BY <1>1, <4>1
        <5> QED
          BY <2>7, <4>1, <5>1
      <4>2. CASE j # 1
        <5>1. j - 1 \in 1..(i - 1) /\ N - (i - 1) + (j - 1) = N - i + j
          BY <1>1, <4>2
        <5>2. s[j - 1] = M(N - (i - 1) + (j - 1))
          BY <3>2, <5>1
        <5> QED
          BY <4>2, <5>1, <5>2
      <4> QED
        BY <4>1, <4>2
    <3> QED
      BY <3>3, <3>4 DEF s
  <2> QED
    BY <2>2, <2>3, <2>8, <2>9
<1>9. N \in S
  <2> HIDE DEF S
  <2>1. 0..N \subseteq S
    BY <1>1, <1>7, <1>8, UpTo
  <2> QED
    BY <1>1, <2>1
<1>10. [j \in 1..N |-> M(N - N + j)] = [j \in DOMAIN args |-> M(j)]
  <2>1. \A j \in 1..N : N - N + j = j
    BY <1>1
  <2> QED
    BY <1>1, <2>1
<1> QED
  BY <1>2, <1>9, <1>10 DEF live, M

-----------------------------------------------------------------------------
(* Where variables are used.                                               *)

(* A variable is alive where it is used, but the receiver perhaps not      *)
(* where a send at the end stores into it.                                 *)
AliveAt(v, k) ==
  /\ v \in DOMAIN interval /\ interval[v].start <= k
  /\ k <= interval[v].end \/ (v = SelfVar /\ k = Len(unit.code))

(* The intervals the scan finds cover every use.                           *)
LEMMA UsedAlive ==
  ASSUME NEW u \in Units, unit = u, Ordered,
         interval = [v \in { AllUses(u)[i].var : i \in DOMAIN AllUses(u) } |-> Interval(AllUses(u), v)]
  PROVE  /\ \A v \in Begins(u) : v \in DOMAIN interval /\ interval[v].start <= 0
         /\ \A p \in 1..Len(u.code) :
              /\ \A v \in Using(u.code[p]) : AliveAt(v, p - 1)
              /\ \A v \in UsingThen(u.code[p]) : AliveAt(v, p)
         /\ (Len(u.code) > 0 /\ ~Returns(u.code)) => interval[SelfVar].end >= Len(u.code) - 1
<1> DEFINE uses == AllUses(u)
           n == Len(u.code)
           V == { uses[i].var : i \in DOMAIN uses }
<1>0. n \in Nat /\ u.argsSize \in Nat /\ SelfVar \in Begins(u)
  BY UnitFacts DEF Begins, SelfVar
<1>1. PICK s, d : Met(u, s, d)
  BY AllUsesMet
<1> HIDE DEF n
<1>2. /\ IsSequence(uses) /\ DOMAIN uses = 1..(Len(s) + Len(d))
      /\ Len(s) \in Nat /\ Len(d) \in Nat /\ DOMAIN s = 1..Len(s) /\ DOMAIN d = 1..Len(d)
      /\ \A i \in 1..(Len(s) + Len(d)) : uses[i] = IF i <= Len(s) THEN s[i] ELSE d[i - Len(s)]
  BY <1>1, Joined DEF Met, Timed
<1> HIDE DEF uses
<1>3. \A v \in V : /\ interval[v].start = uses[FirstUse(uses, v)].at
                   /\ interval[v].end = uses[LastUse(uses, v)].at
                   /\ FirstUse(uses, v) \in UsesOf(uses, v)
                   /\ \A j \in UsesOf(uses, v) : FirstUse(uses, v) <= j
                   /\ LastUse(uses, v) \in UsesOf(uses, v)
                   /\ \A j \in UsesOf(uses, v) : j <= LastUse(uses, v)
  <2> SUFFICES ASSUME NEW v \in V
               PROVE  /\ interval[v].start = uses[FirstUse(uses, v)].at
                      /\ interval[v].end = uses[LastUse(uses, v)].at
                      /\ FirstUse(uses, v) \in UsesOf(uses, v)
                      /\ \A j \in UsesOf(uses, v) : FirstUse(uses, v) <= j
                      /\ LastUse(uses, v) \in UsesOf(uses, v)
                      /\ \A j \in UsesOf(uses, v) : j <= LastUse(uses, v)
    OBVIOUS
  <2>1. PICK k \in DOMAIN uses : v = uses[k].var
    OBVIOUS
  <2>2. interval[v] = Interval(uses, v)
    BY DEF uses
  <2>3. Interval(uses, v) = [start |-> uses[FirstUse(uses, v)].at,
                             end   |-> uses[LastUse(uses, v)].at]
    BY DEF Interval, FirstUse, LastUse, UsesOf
  <2> HIDE DEF V
  <2>4. /\ FirstUse(uses, v) \in UsesOf(uses, v)
        /\ \A j \in UsesOf(uses, v) : FirstUse(uses, v) <= j
        /\ LastUse(uses, v) \in UsesOf(uses, v)
        /\ \A j \in UsesOf(uses, v) : j <= LastUse(uses, v)
    BY <1>2, <2>1, UseFacts
  <2> QED
    BY <2>2, <2>3, <2>4
<1>3a. DOMAIN interval = V
  BY DEF uses
<1> HIDE DEF V
<1>4. ASSUME NEW x \in ToSet(s)
      PROVE  \E k \in 1..Len(s) : k \in DOMAIN uses /\ uses[k] = x /\ s[k] = x
  BY <1>2 DEF ToSet
<1>5. \A i, j \in 1..Len(s) : i <= j => s[i].at <= s[j].at
  BY <1>1, <1>2 DEF Met, Timed
<1>5a. \A i \in 1..Len(s) : s[i].at \in 0..n
  BY <1>1, <1>2 DEF Met, Timed, n
<1>6. \A i \in DOMAIN d : d[i].var = SelfVar /\ d[i].at = (IF n = 0 THEN 0 ELSE n - 1) /\ ~Returns(u.code)
  <2>1. \A i \in DOMAIN d : d[i] \in ToSet(d)
    BY DEF ToSet
  <2>2. LastOf(u).var = SelfVar /\ LastOf(u).at = (IF n = 0 THEN 0 ELSE n - 1)
    BY DEF LastOf, n
  <2> QED
    BY <1>1, <2>1, <2>2 DEF Met
<1>7. ASSUME NEW v, NEW k, [var |-> v, at |-> k] \in ToSet(s) PROVE v \in V /\ AliveAt(v, k)
  <2>1. PICK j \in 1..Len(s) : j \in DOMAIN uses /\ uses[j].var = v /\ uses[j].at = k /\ s[j].at = k
    <3>1. PICK j \in 1..Len(s) : j \in DOMAIN uses /\ uses[j] = [var |-> v, at |-> k] /\ s[j] = uses[j]
      BY <1>4, <1>7
    <3> QED
      BY <3>1
  <2>2. v \in V /\ j \in UsesOf(uses, v)
    BY <2>1 DEF V, UsesOf
  <2> DEFINE f == FirstUse(uses, v)
             l == LastUse(uses, v)
  <2>3. /\ interval[v].start = uses[f].at /\ interval[v].end = uses[l].at
        /\ f \in UsesOf(uses, v) /\ l \in UsesOf(uses, v) /\ f <= j /\ j <= l
    BY <1>3, <2>2
  <2> HIDE DEF f, l
  <2>4. f \in 1..Len(s) /\ uses[f] = s[f]
    BY <1>2, <2>1, <2>3 DEF UsesOf
  <2>5. uses[f].at <= k
    BY <1>5, <2>1, <2>3, <2>4
  <2>6. CASE l \in 1..Len(s)
    <3>1. uses[l] = s[l] /\ l \in Nat
      BY <1>2, <2>6
    <3>2. k <= uses[l].at
      BY <1>5, <2>1, <2>3, <2>6, <3>1
    <3> QED
      BY <1>3a, <2>2, <2>3, <2>5, <3>2 DEF AliveAt
  <2>7. CASE l \notin 1..Len(s)
    <3>1. l - Len(s) \in DOMAIN d /\ uses[l] = d[l - Len(s)] /\ uses[l].var = v
      BY <1>2, <2>3, <2>7 DEF UsesOf
    <3>2. v = SelfVar /\ uses[l].at = IF n = 0 THEN 0 ELSE n - 1
      BY <1>6, <3>1
    <3>3. k \in 0..n
      BY <1>5a, <2>1
    <3>4. k <= uses[l].at \/ k = n
      BY <1>0, <3>2, <3>3
    <3> QED
      BY <1>3a, <2>2, <2>3, <2>5, <3>2, <3>4 DEF AliveAt, n
  <2> QED
    BY <2>6, <2>7
<1>8. ASSUME NEW v \in Begins(u) PROVE v \in DOMAIN interval /\ interval[v].start <= 0
  <2>1. [var |-> v, at |-> 0] \in ToSet(s)
    BY <1>1 DEF Met, UsesAt
  <2> QED
    BY <1>7, <2>1 DEF AliveAt
<1>9. ASSUME NEW p \in 1..n
      PROVE  /\ \A v \in Using(u.code[p]) : AliveAt(v, p - 1)
             /\ \A v \in UsingThen(u.code[p]) : AliveAt(v, p)
  <2>1. p - 1 \in Nat /\ (p - 1) + 1 = p
    BY <1>0
  <2>2. u.code[p].op = "SEND" => IsSequence(u.code[p].args)
    BY UnitFacts DEF n
  <2>3. UsesAt(Using(u.code[p]), p - 1) \union UsesAt(UsingThen(u.code[p]), (p - 1) + 1)
          \subseteq ToSet(Uses(u.code[p], p - 1))
    BY <2>1, <2>2, UsesHave
  <2>4. ToSet(Uses(u.code[p], p - 1)) \subseteq ToSet(s)
    BY <1>1 DEF Met, n
  <2>5. \A v \in Using(u.code[p]) : [var |-> v, at |-> p - 1] \in ToSet(s)
    BY <2>3, <2>4 DEF UsesAt
  <2>6. \A v \in UsingThen(u.code[p]) : [var |-> v, at |-> p] \in ToSet(s)
    BY <2>1, <2>3, <2>4 DEF UsesAt
  <2> QED
    BY <1>7, <2>5, <2>6
<1>10. ASSUME n > 0, ~Returns(u.code) PROVE interval[SelfVar].end >= n - 1
  <2>1. LastOf(u) \in ToSet(d)
    BY <1>1, <1>10 DEF Met
  <2>2. PICK i \in DOMAIN d : d[i] = LastOf(u)
    BY <2>1 DEF ToSet
  <2>3. Len(s) + i \in DOMAIN uses /\ uses[Len(s) + i] = d[i]
    BY <1>2
  <2>4. uses[Len(s) + i].var = SelfVar
    BY <1>6, <2>3
  <2>5. SelfVar \in V /\ Len(s) + i \in UsesOf(uses, SelfVar)
    BY <2>3, <2>4 DEF V, UsesOf
  <2> DEFINE l == LastUse(uses, SelfVar)
  <2>6. interval[SelfVar].end = uses[l].at /\ l \in UsesOf(uses, SelfVar) /\ Len(s) + i <= l
    BY <1>3, <2>5
  <2>7. l - Len(s) \in DOMAIN d /\ uses[l] = d[l - Len(s)]
    BY <1>2, <2>6 DEF UsesOf
  <2>8. uses[l].at = n - 1
    BY <1>6, <1>10, <2>7
  <2> QED
    BY <1>0, <2>6, <2>8
<1> QED
  BY <1>8, <1>9, <1>10 DEF n

-----------------------------------------------------------------------------
(* What the registers given are good for.                                  *)

Located ==
  /\ Setting /\ ScanInv /\ UsesKnown
  /\ \A n \in Nat : Separate(LiveAt(n) \union {Context(0)})
  /\ \A v \in DOMAIN reg : v # Context(0) => reg[v] # reg[Context(0)]

(* So where the scan has ended live variables have registers apart.        *)
LEMMA Allocated ==
  ASSUME ScanInv, Scanned, UsesKnown
  PROVE  Located
<1>1. /\ DOMAIN order = 1..Len(order) /\ Len(order) \in Nat /\ next = Len(order)
      /\ DOMAIN reg = DOMAIN interval
      /\ interval \in [DOMAIN interval -> [start : Int, end : Int]]
      /\ Ordered
  BY Members DEF ScanInv, Ordered, Scanned
<1>2. unit \in Units /\ unit.argsSize \in Nat
  BY UnitFacts DEF UsesKnown
<1>3. \A v \in Begins(unit) : v \in DOMAIN interval
  BY <1>1, <1>2, UsedAlive DEF UsesKnown
<1>4. Context(0) \in DOMAIN reg /\ reg[Context(0)] = PinnedReg /\ PinnedReg # Spilled
  BY <1>1, <1>3, PinnedAssumption DEF Begins, ScanInv
<1>5. SelfVar \in Arguments
  BY <1>2 DEF SelfVar, Arguments
<1>6. Placed = DOMAIN reg
  <2>1. PICK uses : uses = AllUses(unit)
    OBVIOUS
  <2>2. IsSequence(uses) /\ DOMAIN uses = 1..Len(uses)
    BY <1>2, <2>1, AllUsesInOrder, IsSequenceFacts DEF InOrder
  <2>3. ToSet(order) = { uses[i].var : i \in 1..Len(uses) }
    BY <2>1, <2>2, OrderCollects DEF UsesKnown, Collected
  <2>4. DOMAIN interval = { uses[i].var : i \in DOMAIN uses }
    BY <2>1 DEF UsesKnown
  <2>5. Placed = ToSet(order)
    BY <1>1 DEF Placed, ToSet
  <2> QED
    BY <1>1, <2>2, <2>3, <2>4, <2>5
<1>7. ASSUME NEW v \in DOMAIN reg, v # Context(0) PROVE reg[v] # PinnedReg
  <2>1. v \in Placed \ {Pinned}
    BY <1>6, <1>7, PinnedAssumption
  <2>2. reg[v] = Spilled \/ reg[v] \in Registers
    BY <2>1 DEF ScanInv, Holders, Retired
  <2> QED
    BY <1>4, <2>2, RegistersOfUse
<1>8. ASSUME NEW n \in Nat PROVE Separate(LiveAt(n) \union {Context(0)})
  <2> DEFINE live == LiveAt(n) \union {Context(0)}
  <2>1. live \subseteq DOMAIN reg /\ \A v \in live : v # Context(0) => InUse(v, n)
    BY <1>4 DEF LiveAt
  <2> HIDE DEF live
  <2>2. ASSUME NEW v \in live, NEW w \in live, v # w, reg[v] # Spilled PROVE reg[v] # reg[w]
    <3>1. CASE v = Context(0) \/ w = Context(0)
      BY <1>4, <1>7, <2>1, <2>2, <3>1
    <3>2. CASE v # Context(0) /\ w # Context(0)
      <4>1. /\ v \in Placed /\ w \in Placed /\ InUse(v, n) /\ InUse(w, n)
            /\ interval[v] \in [start : Int, end : Int] /\ interval[w] \in [start : Int, end : Int]
        BY <1>1, <1>6, <2>1, <3>2
      <4>2. Overlap(v, w)
        BY <4>1 DEF InUse, Overlap
      <4> QED
        BY <2>2, <4>1, <4>2 DEF ScanInv, Apart
    <3> QED
      BY <3>1, <3>2
  <2> QED
    BY <2>1, <2>2 DEF Separate, live
<1>9. Setting
  BY <1>1, <1>2, <1>4, <1>5 DEF Setting
<1> QED
  BY <1>4, <1>7, <1>8, <1>9 DEF Located

(* What a byte code uses is alive where it is.                             *)
LiveThen(p) ==
  IF p < Len(unit.code) THEN LiveAt(p)
  ELSE UsingThen(unit.code[p]) \union (IF HasContext(unit) THEN {Context(0)} ELSE {})

(* What a byte code uses is live at it.                                    *)
LEMMA UsedLive ==
  ASSUME Located, NEW p \in 1..Len(unit.code)
  PROVE  /\ Using(unit.code[p]) \ {Context(0)} \subseteq LiveAt(p - 1)
         /\ UsingThen(unit.code[p]) \ {Context(0)} \subseteq LiveThen(p)
         /\ HasContext(unit) => Context(0) \in LiveAt(p - 1) \cap LiveThen(p)
<1>1. /\ \A v \in Using(unit.code[p]) : AliveAt(v, p - 1)
      /\ \A v \in UsingThen(unit.code[p]) : AliveAt(v, p)
      /\ DOMAIN reg = DOMAIN interval /\ Len(unit.code) \in Nat
  <2>1. unit \in Units /\ Ordered
    BY DEF Located, UsesKnown, ScanInv
  <2> QED
    BY <2>1, UsedAlive, UnitFacts DEF Located, UsesKnown, ScanInv
<1>2. p - 1 # Len(unit.code)
  BY <1>1
<1>3. \A v : (AliveAt(v, p - 1) /\ v # Context(0)) => v \in LiveAt(p - 1)
  BY <1>1, <1>2 DEF AliveAt, LiveAt, InUse
<1>4. \A v : (AliveAt(v, p) /\ v # Context(0) /\ p < Len(unit.code)) => v \in LiveAt(p)
  BY <1>1 DEF AliveAt, LiveAt, InUse
<1>5. HasContext(unit) => Context(0) \in LiveAt(p - 1) \cap LiveThen(p)
  BY DEF LiveAt, LiveThen
<1> QED
  BY <1>1, <1>3, <1>4, <1>5 DEF LiveThen

(* The variables an operand uses, by its type.                             *)
LEMMA UsedSetOf ==
  ASSUME NEW o
  PROVE  /\ o.type \in {"TEMP", "ARG"} => (UsedSet(o) = {Tmp(o.index)} /\ ToSet(ClassUsedBy(o)) = {Class(o.index)})
         /\ o.type \in {"SUPER", "INST"} => UsedSet(o) = {SelfVar}
         /\ o.type = "CONTEXT" => UsedSet(o) = {Context(o.level)}
         /\ o.type = "ASSOC" => UsedSet(o) = {Assoc(o.index)}
         /\ o.type = "BLOCK" => UsedSet(o) = {SelfVar, Context(0)}
         /\ o.type = "NONE" => UsedSet(o) = {}
<1>1. \A x : ToSet(<<x>>) = {x}
  BY DEF ToSet
<1>2. \A x, y : ToSet(<<x, y>>) = {x, y}
  BY DEF ToSet
<1>3. ToSet(<< >>) = {}
  BY DEF ToSet
<1> QED
  BY <1>1, <1>2, <1>3 DEF UsedSet, UsedBy, ClassUsedBy

(* An operand of a unit not known to be wrong can be read.                 *)
LEMMA OperandReady ==
  ASSUME ~KnownWrong, NEW b \in ToSet(unit.code), NEW o \in ToSet(OperandsOf(b)),
         SourceOf(unit, o), NEW live, UsedSet(o) \ {Context(0)} \subseteq live,
         HasContext(unit) => Context(0) \in live
  PROVE  Ready(o, live)
<1>1. \A i : Tmp(i) # Context(0) /\ Assoc(i) # Context(0) /\ SelfVar # Context(0)
  BY DEF Tmp, Assoc, Context, SelfVar
<1>2. o.type \in {"TEMP", "ARG"} => Tmp(o.index) \in live
  BY <1>1, UsedSetOf
<1>3. o.type \in {"SUPER", "INST", "BLOCK"} => SelfVar \in live
  BY <1>1, UsedSetOf
<1>4. o.type = "ASSOC" => Assoc(o.index) \in live
  BY <1>1, UsedSetOf
<1>5. o.type \in {"CONTEXT", "THIS_CONTEXT"} => Context(0) \in live
  BY DEF SourceOf
<1>6. o.type = "CONTEXT" => Context(o.level) \in live
  BY <1>5, UsedSetOf
<1>7. /\ o.type \in {"INST", "BLOCK", "SUPER"} => reg[SelfVar] # Spilled
      /\ o.type = "CONTEXT" => reg[Context(o.level)] # Spilled
      /\ o.type = "ASSOC" => reg[Assoc(o.index)] # Spilled
  BY DEF KnownWrong, UsesSpilled
<1>8. o.type \in {"CONTEXT", "BLOCK"} => ~FrameLess
  BY DEF FrameLess, FrameLessCode
<1>9. o.type = "THIS_CONTEXT" => ~(FrameLess /\ ~unit.isBlock)
  BY DEF KnownWrong, WritesCallersFrame, FrameLess
<1> QED
  BY <1>2, <1>3, <1>4, <1>5, <1>6, <1>7, <1>8, <1>9 DEF Ready

(* So a byte code's operands can be read and stored into.                  *)
CanRun(b, live, then) ==
  /\ b.op \in {"COPY", "SEND", "RETURN", "OUTER_RETURN"}
  /\ b.op = "COPY" => (Ready(b.from, live) /\ Takes(b.to, live))
  /\ b.op = "SEND" =>
       /\ Ready(b.receiver, live) /\ \A o \in ToSet(b.args) : Ready(o, live)
       /\ b.receiver.type \in {"TEMP", "ARG"} => Class(b.receiver.index) \in live
       /\ Takes(b.store, then) /\ ~FrameLess /\ IsSequence(b.args)
  /\ b.op \in {"RETURN", "OUTER_RETURN"} => Ready(b.value, live)
  /\ b.op = "OUTER_RETURN" => (HasContext(unit) /\ ~FrameLess)

(* OperandsOf lists every operand.                                         *)
LEMMA OperandsAre ==
  ASSUME NEW b
  PROVE  /\ b.op = "COPY" => {b.from, b.to} \subseteq ToSet(OperandsOf(b))
         /\ (b.op = "SEND" /\ IsSequence(b.args)) =>
              {b.receiver, b.store} \union ToSet(b.args) \subseteq ToSet(OperandsOf(b))
         /\ b.op \notin {"COPY", "SEND"} => b.value \in ToSet(OperandsOf(b))
<1>1. \A x, y : ToSet(<<x, y>>) = {x, y}
  BY DEF ToSet
<1>2. \A x : ToSet(<<x>>) = {x}
  BY DEF ToSet
<1>3. ASSUME b.op = "SEND", IsSequence(b.args)
      PROVE  {b.receiver, b.store} \union ToSet(b.args) \subseteq ToSet(OperandsOf(b))
  <2> DEFINE s == <<b.receiver, b.store>>
  <2>1. s \in Seq({b.receiver, b.store})
    OBVIOUS
  <2>2. IsSequence(s) /\ ToSet(s) = {b.receiver, b.store}
    BY <1>1, <2>1, IsSequenceFrom
  <2>3. OperandsOf(b) = s \o b.args
    BY <1>3 DEF OperandsOf
  <2> HIDE DEF s
  <2> QED
    BY <1>3, <2>2, <2>3, JoinedSet
<1> QED
  BY <1>1, <1>2, <1>3 DEF OperandsOf

(* Every byte code of such a unit can be run.                              *)
LEMMA BytecodeRuns ==
  ASSUME Located, ~KnownWrong, NEW p \in 1..Len(unit.code)
  PROVE  CanRun(unit.code[p], LiveAt(p - 1), LiveThen(p))
<1> DEFINE b == unit.code[p]
           live == LiveAt(p - 1)
           then == LiveThen(p)
<1> SUFFICES CanRun(b, live, then)
  OBVIOUS
<1>1. /\ BytecodeOf(unit, b) /\ b \in ToSet(unit.code)
      /\ b.op = "SEND" => IsSequence(b.args)
  <2>1. unit \in Units
    BY DEF Located, UsesKnown
  <2> QED
    BY <2>1, UnitFacts DEF ToSet
<1>2. /\ Using(b) \ {Context(0)} \subseteq live /\ UsingThen(b) \ {Context(0)} \subseteq then
      /\ HasContext(unit) => Context(0) \in live \cap then
  BY UsedLive
<1>3. b.op \in {"SEND", "OUTER_RETURN"} => ~FrameLess
  BY <1>1 DEF FrameLess, FrameLessCode
<1> HIDE DEF b, live, then
<1>4. CASE b.op = "COPY"
  <2>1. SourceOf(unit, b.from) /\ TargetOf(unit, b.to) /\ SourceOf(unit, b.to)
    BY <1>1, <1>4 DEF BytecodeOf, TargetOf
  <2>2. {b.from, b.to} \subseteq ToSet(OperandsOf(b))
    BY <1>4, OperandsAre
  <2>3. UsedSet(b.from) \ {Context(0)} \subseteq live /\ UsedSet(b.to) \ {Context(0)} \subseteq live
    BY <1>2, <1>4 DEF Using
  <2>4. Ready(b.from, live) /\ Ready(b.to, live)
    BY <1>1, <1>2, <2>1, <2>2, <2>3, OperandReady
  <2>5. b.to.type = "TEMP" => ~FrameLess
    BY <1>1, <1>4 DEF KnownWrong, WritesCallersFrame, FrameLess
  <2> QED
    BY <1>4, <2>1, <2>4, <2>5 DEF CanRun, Takes
<1>5. CASE b.op = "SEND"
  <2>1. /\ \A o \in ToSet(b.args) \union {b.receiver} : SourceOf(unit, o)
        /\ b.store.type = "NONE" \/ (TargetOf(unit, b.store) /\ SourceOf(unit, b.store))
    BY <1>1, <1>5 DEF BytecodeOf, TargetOf
  <2>2. {b.receiver, b.store} \union ToSet(b.args) \subseteq ToSet(OperandsOf(b))
    BY <1>1, <1>5, OperandsAre
  <2>3. /\ \A o \in ToSet(b.args) \union {b.receiver} : UsedSet(o) \ {Context(0)} \subseteq live
        /\ UsedSet(b.store) \ {Context(0)} \subseteq then
        /\ ToSet(ClassUsedBy(b.receiver)) \ {Context(0)} \subseteq live
    BY <1>2, <1>5 DEF Using, UsingThen
  <2>4. \A o \in ToSet(b.args) \union {b.receiver} : Ready(o, live)
    BY <1>1, <1>2, <2>1, <2>2, <2>3, OperandReady
  <2>5. b.store.type # "NONE" => Ready(b.store, then)
    BY <1>1, <1>2, <2>1, <2>2, <2>3, OperandReady
  <2>6. b.receiver.type \in {"TEMP", "ARG"} => Class(b.receiver.index) \in live
    <3>1. Class(b.receiver.index) # Context(0)
      BY DEF Class, Context
    <3> QED
      BY <2>3, <3>1, UsedSetOf
  <2>7. Takes(b.store, then)
    BY <1>3, <1>5, <2>1, <2>5 DEF Takes
  <2> QED
    BY <1>1, <1>3, <1>5, <2>4, <2>6, <2>7 DEF CanRun
<1>6. CASE b.op \notin {"COPY", "SEND"}
  <2>1. /\ b.op \in {"RETURN", "OUTER_RETURN"} /\ SourceOf(unit, b.value)
        /\ b.op = "OUTER_RETURN" => HasContext(unit)
    BY <1>1, <1>6 DEF BytecodeOf
  <2>2. b.value \in ToSet(OperandsOf(b)) /\ UsedSet(b.value) \ {Context(0)} \subseteq live
    BY <1>2, <1>6, OperandsAre DEF Using
  <2>3. Ready(b.value, live)
    BY <1>1, <1>2, <2>1, <2>2, OperandReady
  <2> QED
    BY <1>3, <1>6, <2>1, <2>3 DEF CanRun
<1> QED
  BY <1>4, <1>5, <1>6

-----------------------------------------------------------------------------
(* From one byte code to the next.                                         *)

(* Variables used for the last time are left out.                          *)
LEMMA HoldsLater ==
  ASSUME NEW m, NEW vals, NEW live, NEW stale, Holds(m, vals, live, stale),
         NEW later, (m.inReg \union m.onStack) \cap later \subseteq live,
         NEW older, \A i \in stale : Class(i) \in m.inReg \union m.onStack => i \in older
  PROVE  Holds(m, vals, later, older)
<1>1. ASSUME NEW v \in m.inReg \union m.onStack, NEW x, Right(v, x, vals, stale)
      PROVE  Right(v, x, vals, older)
  <2>1. \A i : (v = Class(i) /\ i \in stale) => i \in older
    OBVIOUS
  <2> QED
    BY <1>1, <2>1 DEF Right
<1>2. \A v \in m.inReg \cap later : Right(v, m.regs[reg[v]], vals, older)
  BY <1>1 DEF Holds
<1>3. \A v \in m.onStack \cap later : Right(v, m.frame[v], vals, older)
  BY <1>1 DEF Holds
<1> QED
  BY <1>2, <1>3 DEF Holds

(* Where the code ends only the receiver and the context are needed.       *)
LEMMA HoldsSelf ==
  ASSUME NEW m, NEW vals, NEW live, NEW stale, Holds(m, vals, live, stale), Valued(vals),
         SelfVar \in m.inReg => SelfVar \in live,
         HasContext(unit) => Context(0) \in live, NEW older
  PROVE  Holds(m, vals, LiveAtEnd, older)
<1>1. \A x, s : Right(SelfVar, x, vals, s) <=> (x # Junk /\ x = vals[1])
  BY RightOf DEF SelfVar, Valued
<1>2. Right(SelfVar, m.frame[SelfVar], vals, older)
  BY <1>1 DEF Holds, Valued, Junk
<1>3. SelfVar \in m.inReg => Right(SelfVar, m.regs[reg[SelfVar]], vals, older)
  BY <1>1 DEF Holds
<1>4. \A x, s : Right(Context(0), x, vals, s) <=> x = ContextOut(0)
  BY RightOf
<1>5. ASSUME HasContext(unit)
      PROVE  /\ Context(0) \in m.inReg => Right(Context(0), m.regs[reg[Context(0)]], vals, older)
             /\ Context(0) \in m.onStack => Right(Context(0), m.frame[Context(0)], vals, older)
  <2>1. Context(0) \in live
    BY <1>5
  <2> QED
    BY <1>4, <2>1 DEF Holds
<1>6. \A v \in LiveAtEnd : v = SelfVar \/ (v = Context(0) /\ HasContext(unit))
  BY DEF LiveAtEnd
<1>7. /\ \A v \in m.inReg \cap LiveAtEnd : Right(v, m.regs[reg[v]], vals, older)
      /\ \A v \in m.onStack \cap LiveAtEnd : Right(v, m.frame[v], vals, older)
  BY <1>2, <1>3, <1>5, <1>6
<1> QED
  BY <1>7 DEF Holds

(* A byte code that does not write to the variable keeps its class.        *)
LEMMA KeptNext ==
  ASSUME NEW p \in Nat \ {0}, NEW i \in Nat, ~Writes(unit.code[p], i) \/ KeepingCopy(unit.code[p])
  PROVE  /\ i \in Kept(p) => i \in Kept(p + 1)
         /\ i \in Stale(p) => i \in Stale(p + 1)
         /\ (i \in Kept(p) /\ Writes(unit.code[p], i)) => i \in Stale(p + 1)
<1>1. ASSUME NEW k \in 1..(p - 1), ClassFound(i, k, p) PROVE k \in 1..p /\ ClassFound(i, k, p + 1)
  <2>1. k \in 1..p /\ \A q \in k..(p + 1 - 1) : q = p \/ q \in k..(p - 1)
    OBVIOUS
  <2> QED
    BY <1>1, <2>1 DEF ClassFound
<1>2. p + 1 - 1 = p
  OBVIOUS
<1>3. i \in Kept(p) => i \in Kept(p + 1)
  BY <1>1, <1>2 DEF Kept
<1>4. i \in Stale(p) => i \in Stale(p + 1)
  <2> SUFFICES ASSUME i \in Stale(p) PROVE i \in Stale(p + 1)
    OBVIOUS
  <2>1. PICK k \in 1..(p - 1) :
          ClassFound(i, k, p) /\ \E q \in k..(p - 1) : Writes(unit.code[q], i)
    BY DEF Stale
  <2>2. PICK q \in k..(p - 1) : Writes(unit.code[q], i)
    BY <2>1
  <2>3. q \in k..p
    OBVIOUS
  <2> QED
    BY <1>1, <1>2, <2>1, <2>2, <2>3 DEF Stale
<1>5. (i \in Kept(p) /\ Writes(unit.code[p], i)) => i \in Stale(p + 1)
  <2> SUFFICES ASSUME i \in Kept(p), Writes(unit.code[p], i) PROVE i \in Stale(p + 1)
    OBVIOUS
  <2>1. PICK k \in 1..(p - 1) : ClassFound(i, k, p)
    BY DEF Kept
  <2>2. p \in k..p
    OBVIOUS
  <2> QED
    BY <1>1, <1>2, <2>1, <2>2 DEF Stale
<1> QED
  BY <1>3, <1>4, <1>5

(* A send finds the class of its receiver.                                 *)
LEMMA KeptHere ==
  ASSUME NEW p \in Nat \ {0}, NEW i \in Nat, SentTo(unit.code[p], i), ~Writes(unit.code[p], i)
  PROVE  i \in Kept(p + 1)
<1>1. p \in 1..(p + 1 - 1) /\ \A q \in p..(p + 1 - 1) : q = p
  OBVIOUS
<1>2. ClassFound(i, p, p + 1)
  BY <1>1 DEF ClassFound
<1> QED
  BY <1>1, <1>2 DEF Kept

(* A class found is that of the value, where a message is sent.            *)
LEMMA NotStale ==
  ASSUME unit \in Units, ~KnownWrong, NEW p \in 1..Len(unit.code), NEW i \in Nat,
         SentTo(unit.code[p], i)
  PROVE  i \notin Stale(p)
<1> SUFFICES ASSUME i \in Stale(p) PROVE FALSE
  OBVIOUS
<1> DEFINE code == unit.code
<1>1. PICK k \in 1..(p - 1) :
        ClassFound(i, k, p) /\ \E q \in k..(p - 1) : Writes(code[q], i)
  BY DEF Stale
<1>2. PICK q \in k..(p - 1) : Writes(code[q], i)
  BY <1>1
<1>3. /\ DOMAIN code = 1..Len(code) /\ Len(code) \in Nat
      /\ \A j \in 1..Len(code) : BytecodeOf(unit, code[j])
      /\ unit.argsSize \in Nat /\ unit.tempsSize \in Nat
  BY UnitFacts
<1>4. k \in DOMAIN code /\ q \in DOMAIN code /\ p \in DOMAIN code /\ k < p
  BY <1>3
<1> HIDE DEF code
<1>5. i \in unit.argsSize + 2 .. unit.argsSize + 1 + unit.tempsSize
  <2>1. BytecodeOf(unit, code[q])
    BY <1>3, <1>4
  <2> QED
    BY <1>2, <2>1 DEF Writes, BytecodeOf, TargetOf, SourceOf
<1>6. ASSUME NEW j \in DOMAIN code, SentTo(code[j], i)
      PROVE  code[j].op = "SEND" /\ code[j].receiver.type = "TEMP" /\ code[j].receiver.index = i
  <2>1. BytecodeOf(unit, code[j]) /\ code[j].op = "SEND"
    BY <1>3, <1>6 DEF SentTo
  <2>2. SourceOf(unit, code[j].receiver)
    BY <2>1 DEF BytecodeOf
  <2>3. code[j].receiver.type # "ARG"
    BY <1>3, <1>5, <1>6, <2>2 DEF SourceOf, SentTo
  <2> QED
    BY <1>6, <2>3 DEF SentTo
<1>7. SentTo(code[k], i) /\ \A j \in k..(p - 1) : Writes(code[j], i) => KeepingCopy(code[j])
  BY <1>1 DEF ClassFound, code
<1>8. SentTo(code[p], i)
  BY DEF code
<1>9. KeepsClass(code)
  <2>1. { j \in k .. p - 1 : Writes(code[j], i) } # {}
    BY <1>2
  <2>2. \A j \in { l \in k .. p - 1 : Writes(code[l], i) } :
          code[j].op = "COPY" /\ code[j].from.type \notin {"TEMP", "ARG"}
    BY <1>7 DEF KeepingCopy
  <2>3. /\ code[k].op = "SEND" /\ code[k].receiver.type = "TEMP" /\ code[k].receiver.index = i
        /\ code[p].op = "SEND" /\ code[p].receiver.type = "TEMP" /\ code[p].receiver.index = i
    BY <1>4, <1>6, <1>7, <1>8
  <2> QED
    BY <1>4, <2>1, <2>2, <2>3 DEF KeepsClass
<1> QED
  BY <1>9 DEF KnownWrong, code

(* The variable its class is kept in, and when it can be relied on.        *)
ClassesOf(o) == IF o.type \in {"TEMP", "ARG"} THEN {Class(o.index)} ELSE {}
FindsClass(o, x, vals, live, stale) ==
  o.type \in {"TEMP", "ARG"} =>
    /\ o.index \in DOMAIN vals /\ o.index \notin stale /\ x = vals[o.index]
    /\ Class(o.index) \in live

(* The class found, or kept, is that of the value.                         *)
LEMMA FindClassHolds ==
  ASSUME NEW m, NEW vals, NEW live, NEW stale, Holds(m, vals, live, stale), Separate(live),
         Setting, ~FrameLess, NEW o, NEW x, FindsClass(o, x, vals, live, stale)
  PROVE  /\ Holds(FindClass(m, o, x).m, vals, live, stale)
         /\ Moved(m, FindClass(m, o, x).m, ClassesOf(o))
         /\ FindClass(m, o, x).x = ClassOf(x)
<1> DEFINE c == Class(o.index)
           f == FindClass(m, o, x)
<1>0. c[1] = "CLASS" /\ c # SelfVar /\ c # Context(0) /\ c \notin Arguments
  BY DEF Class, SelfVar, Tmp, Context, Arguments
<1>1. CASE o.type \notin {"TEMP", "ARG"}
  <2>1. f = Loaded(m, ClassOf(x))
    BY <1>1 DEF FindClass
  <2> QED
    BY <1>1, <2>1 DEF Loaded, Moved, ClassesOf
<1>2. CASE o.type \in {"TEMP", "ARG"}
  <2>1. /\ c \in live /\ c \in DOMAIN reg
        /\ \A y : Right(c, y, vals, stale) <=> (y # Junk /\ y = ClassOf(x))
    BY <1>2, RightOf DEF Separate, FindsClass
  <2>2. ClassOf(x) # Junk
    BY DEF ClassOf, Junk
  <2>3. CASE reg[c] = Spilled /\ c \in m.onStack
    <3>1. f = Loaded(m, m.frame[c])
      BY <1>2, <2>3 DEF FindClass
    <3>2. Right(c, m.frame[c], vals, stale)
      BY <2>1, <2>3 DEF Holds
    <3> QED
      BY <1>2, <2>1, <3>1, <3>2 DEF Loaded, Moved, ClassesOf
  <2>4. CASE reg[c] = Spilled /\ c \notin m.onStack
    <3> DEFINE fr == [m.frame EXCEPT ![c] = ClassOf(x)]
               d == [started |-> m.started, inReg |-> m.inReg, onStack |-> m.onStack,
                     regs |-> m.regs, frame |-> fr, memory |-> m.memory, sent |-> m.sent,
                     shown |-> m.shown, result |-> m.result, failed |-> m.failed]
    <3>1. f = Loaded([m EXCEPT !.frame[c] = ClassOf(x)], ClassOf(x))
      BY <1>2, <2>4 DEF FindClass
    <3>2. [m EXCEPT !.frame[c] = ClassOf(x)] = d
      BY DEF Holds, Machine
    <3>3. DOMAIN fr = DOMAIN reg /\ \A v \in DOMAIN reg : v # c => fr[v] = m.frame[v]
      BY DEF Holds
    <3>4. SelfVar \in DOMAIN reg /\ Context(0) \in DOMAIN reg
      BY DEF Holds, Setting
    <3> HIDE DEF c, fr
    <3>5. \A v \in m.onStack : fr[v] = m.frame[v]
      BY <2>4, <3>3 DEF Holds
    <3>6. fr[SelfVar] = m.frame[SelfVar] /\ fr[Context(0)] = m.frame[Context(0)]
      BY <1>0, <3>3, <3>4
    <3>7. Holds(d, vals, live, stale)
      BY <3>3, <3>5, <3>6 DEF Holds, Machine
    <3>8. Moved(m, d, {c})
      BY DEF Moved, Outside
    <3> HIDE DEF d, f
    <3> QED
      BY <1>2, <3>1, <3>2, <3>7, <3>8 DEF Loaded, c, f, ClassesOf
  <2>5. CASE reg[c] # Spilled /\ c \in m.inReg \union m.onStack
    <3> DEFINE d == FillVar(m, c)
    <3>1. f = Loaded(d, RegValue(d, c))
      BY <1>2, <2>5 DEF FindClass, Filled
    <3>2. Holds(d, vals, live, stale) /\ Moved(m, d, {}) /\ Right(c, RegValue(d, c), vals, stale)
      BY <2>1, <2>5, FillVarHolds
    <3>3. Moved(m, d, {c})
      BY <3>2 DEF Moved
    <3> HIDE DEF d, f
    <3> QED
      BY <1>2, <2>1, <3>1, <3>2, <3>3 DEF Loaded, f, ClassesOf, c
  <2>6. CASE reg[c] # Spilled /\ c \notin m.inReg \union m.onStack
    <3> DEFINE d == IntoReg(m, c, ClassOf(x))
               e == SpillVar(d, c)
    <3>1. f = Loaded(e, ClassOf(x))
      BY <1>2, <2>6 DEF FindClass
    <3>2. Right(c, ClassOf(x), vals, stale)
      BY <2>1, <2>2
    <3>3. Holds(d, vals, live, stale) /\ Moved(m, d, {c})
      BY <2>1, <2>6, <3>2, IntoRegHolds
    <3>4. c \in d.inReg
      <4>1. Machine(m) /\ DOMAIN m.regs = HeldRegisters
        BY DEF Holds
      <4>2. d.inReg = m.inReg \union {c}
        BY <2>1, <2>6, <4>1, IntoRegFields
      <4> HIDE DEF d
      <4> QED
        BY <4>2
    <3> HIDE DEF d
    <3>5. Holds(e, vals, live, stale) /\ Moved(d, e, {})
      BY <1>0, <2>1, <3>3, <3>4, SpillVarHolds
    <3> HIDE DEF e
    <3>6. Moved(m, e, {c})
      BY <3>3, <3>5 DEF Moved
    <3> HIDE DEF f
    <3> QED
      BY <1>2, <3>1, <3>5, <3>6 DEF Loaded, f, ClassesOf, c
  <2> QED
    BY <2>3, <2>4, <2>5, <2>6
<1> QED
  BY <1>1, <1>2

-----------------------------------------------------------------------------
(* The byte codes, one by one.                                             *)

(* A copy, but from no variable to one, forgets the class found for the    *)
(* value before.                                                           *)
KeepsIt(from, to) == from.type \notin {"TEMP", "ARG"} /\ to.type = "TEMP"
CopyRight(m, c, vals, live, stale, from, to) ==
  LET x == Meant(from, vals, m.memory, Len(m.sent))
  IN  /\ x # Junk
      /\ Holds(c, ValuesAfter(vals, to, x), live,
               stale \union (IF KeepsIt(from, to) THEN {to.index} ELSE {}))
      /\ c.memory = A!MemoryWith(m.memory, to, x) /\ c.sent = m.sent
      /\ c.result = m.result /\ c.started = m.started
      /\ c.inReg \union c.onStack \subseteq m.inReg \union m.onStack \union Plain(live)
      /\ (to.type = "TEMP" /\ ~KeepsIt(from, to)) => Class(to.index) \notin c.inReg \union c.onStack

(* What the lemmas about stores say, for a copy.                           *)
LEMMA CopyStores ==
  ASSUME NEW m, NEW f, NEW c, NEW vals, NEW live, NEW stale, Moved(m, f, Plain(live)),
         NEW from, NEW to, ~KeepsIt(from, to), NEW x, x # Junk,
         x = Meant(from, vals, m.memory, Len(m.sent)),
         Stores(f, c, vals, live, stale, to, x)
  PROVE  CopyRight(m, c, vals, live, stale, from, to)
<1>1. stale \union (IF KeepsIt(from, to) THEN {to.index} ELSE {}) = stale
  OBVIOUS
<1>2. f.memory = m.memory /\ f.sent = m.sent /\ f.result = m.result /\ f.started = m.started
  BY DEF Moved, Outside
<1>3. f.inReg \union f.onStack \subseteq m.inReg \union m.onStack \union Plain(live)
  BY DEF Moved
<1>4. c.inReg \union c.onStack \subseteq m.inReg \union m.onStack \union Plain(live)
  BY <1>3 DEF Stores
<1> QED
  BY <1>1, <1>2, <1>4 DEF Stores, CopyRight

(* The source is filled, whether it was ever written or not.               *)
LEMMA SourceFilled ==
  ASSUME NEW m, NEW vals, NEW live, NEW stale, Holds(m, vals, live, stale), Separate(live),
         NEW i \in DOMAIN vals, Tmp(i) \in live, reg[Tmp(i)] # Spilled, vals[i] # Junk
  PROVE  LET f == IF Tmp(i) \in m.inReg \union m.onStack THEN FillVar(m, Tmp(i))
                  ELSE IntoReg(m, Tmp(i), Nil)
         IN  /\ Holds(f, vals, live, stale) /\ Moved(m, f, Plain(live))
             /\ RegValue(f, Tmp(i)) = vals[i]
<1> DEFINE v == Tmp(i)
<1>1. {v} \subseteq Plain(live) /\ {} \subseteq Plain(live)
  BY PlainHas
<1>2. v \in live /\ v \in DOMAIN reg /\ reg[v] # Spilled
  BY DEF Separate
<1>3. \A x : Right(v, x, vals, stale) <=> (x # Junk /\ x = vals[i])
  BY RightOf
<1>4. v \in DOMAIN reg => (v \in m.onStack \/ vals[i] = Nil)
  BY DEF Holds
<1> HIDE DEF v
<1>5. CASE v \in m.inReg \union m.onStack
  <2> DEFINE f == FillVar(m, v)
  <2>1. Holds(f, vals, live, stale) /\ Moved(m, f, {}) /\ Right(v, RegValue(f, v), vals, stale)
    BY <1>2, <1>5, FillVarHolds
  <2> HIDE DEF f
  <2>2. Moved(m, f, Plain(live))
    BY <1>1, <2>1, MovedMore
  <2> QED
    BY <1>3, <1>5, <2>1, <2>2 DEF f, v
<1>6. CASE v \notin m.inReg \union m.onStack
  <2> DEFINE f == IntoReg(m, v, Nil)
  <2>1. vals[i] = Nil /\ Nil # Junk
    BY <1>2, <1>4, <1>6 DEF Nil, Junk
  <2>2. Right(v, Nil, vals, stale)
    BY <1>3, <2>1
  <2>3. Holds(f, vals, live, stale) /\ Moved(m, f, {v}) /\ RegValue(f, v) = Nil
    BY <1>2, <2>2, IntoRegHolds
  <2> HIDE DEF f
  <2>4. Moved(m, f, Plain(live))
    BY <1>1, <2>3, MovedMore
  <2> QED
    BY <1>6, <2>1, <2>3, <2>4 DEF f, v
<1> QED
  BY <1>5, <1>6

(* A copy stores what its source means.                                    *)
LEMMA CopyHolds ==
  ASSUME NEW m, NEW vals, NEW stale, NEW n \in Nat, Holds(m, vals, LiveAt(n), stale),
         Setting, Separate(LiveAt(n) \union {Context(0)}), Valued(vals),
         NEW from, NEW to, Ready(from, LiveAt(n)), Takes(to, LiveAt(n)), to.type # "NONE",
         from.type \in {"TEMP", "ARG"} => reg[Tmp(from.index)] # Spilled,
         ~(from.type = "TEMP" /\ to.type = "TEMP" /\ from.index = to.index)
  PROVE  CopyRight(m, GenerateCopy(m, from, to, n), vals, LiveAt(n), stale, from, to)
<1> DEFINE live == LiveAt(n)
           x == Meant(from, vals, m.memory, Len(m.sent))
           v == Tmp(from.index)
           w == Tmp(to.index)
<1>1. Separate(live)
  BY SeparateFewer
<1>2. SourceOf(unit, from) /\ SourceOf(unit, to) /\ unit \in Units
  BY DEF Ready, Takes, TargetOf, Setting
<1>3. CASE from.type \in {"TEMP", "ARG"}
  <2> DEFINE f == IF v \in m.inReg \union m.onStack THEN FillVar(m, v) ELSE IntoReg(m, v, Nil)
             ok == to.type = "TEMP" => reg[w] = Spilled \/ reg[w] # reg[v]
  <2>1. GenerateCopy(m, from, to, n) = MovToOperand(Check(f, ok), to, RegValue(f, v))
    BY <1>3 DEF GenerateCopy
  <2>2. from.index \in DOMAIN vals /\ vals[from.index] # Junk /\ v \in live /\ reg[v] # Spilled
    BY <1>2, <1>3, IndexValued DEF Ready
  <2>3. Holds(f, vals, live, stale) /\ Moved(m, f, Plain(live)) /\ RegValue(f, v) = vals[from.index]
    BY <1>1, <2>2, SourceFilled
  <2>4. x = vals[from.index]
    BY <1>3 DEF Meant
  <2>5. ok
    <3> SUFFICES ASSUME to.type = "TEMP", reg[w] # Spilled PROVE reg[w] # reg[v]
      OBVIOUS
    <3>1. w \in live
      BY DEF Takes, Ready
    <3>2. from.index # to.index
      <4>1. unit.argsSize \in Nat /\ unit.tempsSize \in Nat
        BY <1>2, UnitFacts
      <4> QED
        BY <1>2, <1>3, <4>1 DEF SourceOf
    <3>3. v # w
      BY <3>2 DEF Tmp
    <3> QED
      BY <1>1, <2>2, <3>1, <3>3 DEF Separate
  <2> HIDE DEF f, ok, v, w, live, x
  <2>6. Check(f, ok) = f
    BY <2>5 DEF Check
  <2>7. x # Junk
    BY <2>2, <2>4
  <2> DEFINE c == MovToOperand(f, to, x)
  <2>8. Stores(f, c, vals, live, stale, to, x)
    BY <1>1, <2>3, <2>7, MovToOperandHolds DEF live
  <2>9. GenerateCopy(m, from, to, n) = c
    BY <2>1, <2>3, <2>4, <2>6
  <2>10. ~KeepsIt(from, to)
    BY <1>3 DEF KeepsIt
  <2> HIDE DEF c
  <2>11. CopyRight(m, c, vals, live, stale, from, to)
    BY <2>3, <2>7, <2>8, <2>10, CopyStores DEF x
  <2> QED
    BY <2>9, <2>11 DEF live
<1> DEFINE r == MovOperand(m, from, n)
<1>4. /\ Holds(r.m, vals, live, stale) /\ Moved(m, r.m, Plain(live))
      /\ r.x = x /\ x # Junk
  BY MovOperandHolds DEF Read
<1>5. CASE from.type \notin {"TEMP", "ARG"} /\ to.type = "TEMP"
  <2> DEFINE c == IF reg[w] = Spilled THEN IntoFrame(r.m, w, x)
                  ELSE SpillVar(IntoReg(r.m, w, x), w)
  <2>1. GenerateCopy(m, from, to, n) = c
    BY <1>4, <1>5 DEF GenerateCopy
  <2>2. to.index \in DOMAIN vals /\ to.index # 1 /\ w \in live /\ ~FrameLess /\ w \in DOMAIN reg
    BY <1>1, <1>2, <1>5, TargetIndex DEF Takes, Ready, Separate
  <2> HIDE DEF r, x, live
  <2>3. Wrote(r.m, c, w, x)
    BY <1>4, <2>2, WritesBoth
  <2> HIDE DEF c
  <2>4. Holds(c, [vals EXCEPT ![to.index] = x], live, stale \union {to.index})
    BY <1>1, <1>4, <2>2, <2>3, WroteHolds
  <2>5. /\ c.memory = m.memory /\ c.sent = m.sent /\ c.result = m.result /\ c.started = m.started
    BY <1>4, <2>3 DEF Wrote, Moved, Outside
  <2>6. {w} \subseteq Plain(live)
    BY <2>2, PlainHas
  <2>7. c.inReg \union c.onStack \subseteq r.m.inReg \union r.m.onStack \union {w}
    BY <2>3 DEF Wrote
  <2>8. c.inReg \union c.onStack \subseteq m.inReg \union m.onStack \union Plain(live)
    BY <1>4, <2>6, <2>7 DEF Moved
  <2>9. A!MemoryWith(m.memory, to, x) = m.memory /\ ValuesAfter(vals, to, x) = [vals EXCEPT ![to.index] = x]
    BY <1>5 DEF A!MemoryWith, ValuesAfter
  <2>10. KeepsIt(from, to)
    BY <1>5 DEF KeepsIt
  <2> HIDE DEF w
  <2>11. CopyRight(m, c, vals, live, stale, from, to)
    BY <1>4, <2>4, <2>5, <2>8, <2>9, <2>10 DEF CopyRight, x
  <2> QED
    BY <2>1, <2>11 DEF live
<1>6. CASE from.type \notin {"TEMP", "ARG"} /\ to.type # "TEMP"
  <2> DEFINE c == MovToOperand(r.m, to, x)
  <2>1. GenerateCopy(m, from, to, n) = c
    BY <1>4, <1>6 DEF GenerateCopy
  <2> HIDE DEF r, x
  <2>2. Stores(r.m, c, vals, live, stale, to, x)
    BY <1>1, <1>4, MovToOperandHolds
  <2>3. ~KeepsIt(from, to)
    BY <1>6 DEF KeepsIt
  <2> HIDE DEF c, live
  <2>4. CopyRight(m, c, vals, live, stale, from, to)
    BY <1>4, <2>2, <2>3, CopyStores DEF x
  <2> QED
    BY <2>1, <2>4 DEF live
<1> QED
  BY <1>3, <1>5, <1>6

(* Where the last byte code stores, the first context apart.               *)
LEMMA ThenSeparate ==
  ASSUME Located, NEW p \in 1..Len(unit.code), unit.code[p].op = "SEND",
         ~KnownWrong
  PROVE  Separate(LiveThen(p)) /\ LiveThen(p) \subseteq DOMAIN reg
<1>1. CASE p < Len(unit.code)
  <2>1. p \in Nat
    BY <1>1
  <2>2. LiveThen(p) = LiveAt(p) /\ Separate(LiveAt(p) \union {Context(0)})
    BY <1>1, <2>1 DEF LiveThen, Located
  <2>3. LiveAt(p) \subseteq LiveAt(p) \union {Context(0)}
    OBVIOUS
  <2>4. Separate(LiveThen(p))
    BY <2>2, <2>3, SeparateFewer
  <2> QED
    BY <2>4 DEF Separate
<1>2. CASE ~(p < Len(unit.code))
  <2> DEFINE store == unit.code[p].store
  <2>1. CanRun(unit.code[p], LiveAt(p - 1), LiveThen(p))
    BY BytecodeRuns
  <2>2. store.type = "NONE" \/ store.type \in {"TEMP", "CONTEXT", "INST", "ASSOC"}
    BY <2>1 DEF CanRun, Takes, TargetOf
  <2>3. PICK v : UsedSet(store) \subseteq {v}
    <3>1. store.type = "NONE" => UsedSet(store) = {}
      BY UsedSetOf
    <3>2. store.type = "TEMP" => UsedSet(store) = {Tmp(store.index)}
      BY UsedSetOf
    <3>3. store.type = "CONTEXT" => UsedSet(store) = {Context(store.level)}
      BY UsedSetOf
    <3>4. store.type = "ASSOC" => UsedSet(store) = {Assoc(store.index)}
      BY UsedSetOf
    <3>5. store.type = "INST" => UsedSet(store) = {SelfVar}
      BY UsedSetOf
    <3> QED
      BY <2>2, <3>1, <3>2, <3>3, <3>4, <3>5
  <2>4. UsedSet(store) \subseteq DOMAIN reg
    <3>1. \A w \in UsingThen(unit.code[p]) : AliveAt(w, p)
      BY UsedAlive DEF Located, UsesKnown, ScanInv
    <3> QED
      BY <3>1 DEF UsingThen, AliveAt, Located, ScanInv
  <2>5. LiveThen(p) \subseteq UsedSet(store) \union {Context(0)}
    BY <1>2 DEF LiveThen, UsingThen
  <2>6. /\ Context(0) \in DOMAIN reg
        /\ \A w \in DOMAIN reg : w # Context(0) => reg[w] # reg[Context(0)]
    BY DEF Located, Setting
  <2> QED
    BY <2>3, <2>4, <2>5, <2>6 DEF Separate
<1> QED
  BY <1>1, <1>2

(* A variable used after a send, and before, is alive at the send.         *)
LEMMA AliveAcross ==
  ASSUME Located, NEW p \in 1..Len(unit.code), unit.code[p].op = "SEND",
         \A q \in 1..(p - 1) : unit.code[q].op \notin {"RETURN", "OUTER_RETURN"},
         NEW v \in LiveThen(p), v \in DOMAIN reg, v # Context(0), interval[v].start <= p - 1
  PROVE  v \in LiveAt(p - 1)
<1>1. /\ interval[v].start \in Int /\ interval[v].end \in Int
      /\ DOMAIN reg = DOMAIN interval
      /\ unit \in Units /\ Len(unit.code) \in Nat /\ DOMAIN unit.code = 1..Len(unit.code)
  BY UnitFacts DEF Located, Setting, ScanInv
<1>2. interval[v].end >= p - 1
  <2>1. CASE p < Len(unit.code)
    BY <1>1, <2>1 DEF LiveThen, LiveAt, InUse
  <2>2. CASE ~(p < Len(unit.code))
    <3>1. p = Len(unit.code) /\ v \in UsingThen(unit.code[p])
      BY <1>1, <2>2 DEF LiveThen
    <3>2. ~Returns(unit.code)
      BY <1>1, <3>1 DEF Returns
    <3>3. /\ AliveAt(v, p)
          /\ (Len(unit.code) > 0 /\ ~Returns(unit.code)) => interval[SelfVar].end >= Len(unit.code) - 1
      BY <3>1, UsedAlive DEF Located, UsesKnown, ScanInv
    <3> QED
      BY <1>1, <3>1, <3>2, <3>3 DEF AliveAt
  <2> QED
    BY <2>1, <2>2
<1> QED
  BY <1>1, <1>2 DEF LiveAt, InUse

(* The method called may write to any memory.                              *)
Called(c, msg) == [c EXCEPT !.memory = <<>>, !.sent = Append(@, msg)]

(* The call itself leaves registers and slots alone.                       *)
LEMMA CalledHolds ==
  ASSUME NEW c, NEW vals, NEW live, NEW stale, Holds(c, vals, live, stale), NEW y
  PROVE  /\ Holds(Called(c, y), vals, live, stale)
         /\ Called(c, y).memory = <<>> /\ Called(c, y).sent = Append(c.sent, y)
         /\ Called(c, y).result = c.result /\ Called(c, y).started = c.started
         /\ Called(c, y).inReg = c.inReg /\ Called(c, y).onStack = c.onStack
<1> DEFINE s == Append(c.sent, y)
           e == [started |-> c.started, inReg |-> c.inReg, onStack |-> c.onStack, regs |-> c.regs,
                 frame |-> c.frame, memory |-> <<>>, sent |-> c.sent, shown |-> c.shown,
                 result |-> c.result, failed |-> c.failed]
           d == [started |-> c.started, inReg |-> c.inReg, onStack |-> c.onStack, regs |-> c.regs,
                 frame |-> c.frame, memory |-> <<>>, sent |-> s, shown |-> c.shown,
                 result |-> c.result, failed |-> c.failed]
<1>1. Called(c, y) = d
  <2>1. Machine(c)
    BY DEF Holds
  <2>2. [c EXCEPT !.memory = <<>>] = e
    BY <2>1 DEF Machine
  <2>4. e.sent = c.sent
    OBVIOUS
  <2> HIDE DEF s
  <2>3. [e EXCEPT !.sent = s] = d
    OBVIOUS
  <2> HIDE DEF e, d
  <2> USE DEF s
  <2> QED
    BY <2>2, <2>3, <2>4, Zenon DEF Called
<1>2. \A p \in DOMAIN d.memory : d.memory[p] # Junk
  OBVIOUS
<1>3. Holds(d, vals, live, stale)
  BY <1>2 DEF Holds, Machine
<1>4. /\ d.memory = <<>> /\ d.sent = s /\ d.result = c.result /\ d.started = c.started
      /\ d.inReg = c.inReg /\ d.onStack = c.onStack
  OBVIOUS
<1> HIDE DEF d
<1> QED
  BY <1>1, <1>3, <1>4

(* The class of the receiver is found, or known.                           *)
LEMMA FoundHolds ==
  ASSUME NEW m, NEW vals, NEW live, NEW stale, Holds(m, vals, live, stale), Separate(live),
         Setting, ~FrameLess, NEW o, NEW x, FindsClass(o, x, vals, live, stale)
  PROVE  LET f == IF Resolved(o) THEN Loaded(m, <<"known">>) ELSE FindClass(m, o, x)
         IN  /\ Holds(f.m, vals, live, stale)
             /\ Moved(m, f.m, ClassesOf(o))
             /\ f.x = A!ClassFor(o, x)
<1>1. CASE Resolved(o)
  <2>1. o.type \notin A!Found /\ o.type \notin {"TEMP", "ARG"}
    BY <1>1 DEF Resolved, A!Found
  <2> QED
    BY <1>1, <2>1 DEF Loaded, Moved, A!ClassFor, ClassesOf
<1>2. CASE ~Resolved(o)
  <2>1. A!ClassFor(o, x) = ClassOf(x)
    BY <1>2 DEF Resolved, A!Found, A!ClassFor, ClassOf
  <2>2. /\ Holds(FindClass(m, o, x).m, vals, live, stale)
        /\ Moved(m, FindClass(m, o, x).m, ClassesOf(o))
        /\ FindClass(m, o, x).x = ClassOf(x)
    BY FindClassHolds
  <2> QED
    BY <1>2, <2>1, <2>2
<1> QED
  BY <1>1, <1>2

(* A send: what it is sent, and what is left of the registers.             *)
Sends(b, vals, m) ==
  [selector |-> b.selector, receiver |-> Meant(b.receiver, vals, m.memory, Len(m.sent)),
   args |-> [i \in DOMAIN b.args |-> Meant(b.args[i], vals, m.memory, Len(m.sent))],
   class |-> A!ClassFor(b.receiver, Meant(b.receiver, vals, m.memory, Len(m.sent)))]
Answer(m) == <<"answer", Len(m.sent) + 1>>

SendRight(m, c, vals, live, then, stale, b) ==
  /\ Holds(c, ValuesAfter(vals, b.store, Answer(m)), then, stale)
  /\ c.memory = A!MemoryWith(<<>>, b.store, Answer(m)) /\ c.sent = Append(m.sent, Sends(b, vals, m))
  /\ IsSequence(c.sent)
  /\ c.result = m.result /\ c.started = m.started
  /\ c.inReg \subseteq then
  /\ c.inReg \union c.onStack
       \subseteq m.inReg \union m.onStack \union Plain(live) \union Plain(then) \union ClassesOf(b.receiver)
  /\ b.store.type = "TEMP" => Class(b.store.index) \notin c.inReg \union c.onStack

(* One more is sent.                                                       *)
LEMMA AppendLen ==
  ASSUME NEW s, IsSequence(s), NEW x
  PROVE  IsSequence(Append(s, x)) /\ Len(Append(s, x)) = Len(s) + 1
<1>1. s \in Seq(ToSet(s) \union {x})
  <2>1. s \in Seq(ToSet(s)) /\ DOMAIN s = 1..Len(s) /\ Len(s) \in Nat
    BY IsSequenceFacts DEF IsSequence
  <2>2. \A i \in 1..Len(s) : s[i] \in ToSet(s)
    BY <2>1 DEF ToSet
  <2> HIDE DEF IsSequence
  <2>3. s = [i \in 1..Len(s) |-> s[i]]
    BY <2>1
  <2> QED
    BY <2>1, <2>2, <2>3
<1>2. /\ Append(s, x) \in Seq(ToSet(s) \union {x})
      /\ ToSet(Append(s, x)) = ToSet(s) \union {x}
  BY <1>1, AppendOnce
<1>3. Len(Append(s, x)) = Len(s) + 1
  BY <1>1, AppendProperties
<1> QED
  BY <1>2, <1>3 DEF IsSequence

(* Running a send up to the collection.                                    *)
LEMMA SendFound ==
  ASSUME Located, ~KnownWrong, NEW p \in 1..Len(unit.code), unit.code[p].op = "SEND",
         NEW m, NEW vals, Holds(m, vals, LiveAt(p - 1), Stale(p)), Valued(vals)
  PROVE  LET b == unit.code[p]
             pushed == Pushed(m, b.args, p - 1)
             r == MovOperand(pushed.m, b.receiver, p - 1)
             found == IF Resolved(b.receiver) THEN Loaded(r.m, <<"known">>)
                      ELSE FindClass(r.m, b.receiver, r.x)
         IN  /\ Holds(found.m, vals, LiveAt(p - 1), Stale(p))
             /\ Moved(m, found.m, Plain(LiveAt(p - 1)) \union ClassesOf(b.receiver))
             /\ [selector |-> b.selector, receiver |-> r.x, args |-> pushed.xs, class |-> found.x]
                  = Sends(b, vals, m)
<1> DEFINE b == unit.code[p]
           n == p - 1
           live == LiveAt(n)
           pushed == Pushed(m, b.args, n)
           r == MovOperand(pushed.m, b.receiver, n)
           found == IF Resolved(b.receiver) THEN Loaded(r.m, <<"known">>)
                    ELSE FindClass(r.m, b.receiver, r.x)
           x == Meant(b.receiver, vals, m.memory, Len(m.sent))
           flagged == Plain(live) \union ClassesOf(b.receiver)
<1>1. /\ n \in Nat /\ unit \in Units /\ Setting
      /\ Separate(live \union {Context(0)})
  BY DEF Located, UsesKnown
<1>2. CanRun(b, live, LiveThen(p))
  BY BytecodeRuns
<1> HIDE DEF n, live
<1>3. /\ Ready(b.receiver, live) /\ \A o \in ToSet(b.args) : Ready(o, live)
      /\ b.receiver.type \in {"TEMP", "ARG"} => Class(b.receiver.index) \in live
      /\ ~FrameLess /\ IsSequence(b.args)
  BY <1>2 DEF CanRun
<1>4. Holds(m, vals, live, Stale(p))
  BY DEF live, n
<1> HIDE DEF b
<1>5. /\ Holds(pushed.m, vals, live, Stale(p)) /\ Moved(m, pushed.m, Plain(live))
      /\ pushed.xs = [i \in DOMAIN b.args |-> Meant(b.args[i], vals, m.memory, Len(m.sent))]
  BY <1>1, <1>3, <1>4, PushedHolds DEF live
<1> HIDE DEF pushed
<1>6. /\ Holds(r.m, vals, live, Stale(p)) /\ Moved(pushed.m, r.m, Plain(live))
      /\ r.x = Meant(b.receiver, vals, pushed.m.memory, Len(pushed.m.sent))
  BY <1>1, <1>3, <1>5, MovOperandHolds DEF live, Read
<1>7. r.x = x
  BY <1>5, <1>6 DEF Moved, Outside
<1>8. Moved(m, r.m, Plain(live))
  BY <1>5, <1>6, MovedTwice
<1> HIDE DEF r
<1>9. FindsClass(b.receiver, x, vals, live, Stale(p))
  <2> SUFFICES ASSUME b.receiver.type \in {"TEMP", "ARG"}
               PROVE  /\ b.receiver.index \in DOMAIN vals /\ b.receiver.index \notin Stale(p)
                      /\ x = vals[b.receiver.index] /\ Class(b.receiver.index) \in live
    BY DEF FindsClass
  <2>1. b.receiver.index \in DOMAIN vals
    BY <1>1, <1>3, IndexValued DEF Ready
  <2>2. b.receiver.index \in Nat
    BY <1>1, <2>1, UnitFacts DEF Valued
  <2>3. SentTo(unit.code[p], b.receiver.index)
    BY DEF SentTo, b
  <2>4. b.receiver.index \notin Stale(p)
    BY <1>1, <2>2, <2>3, NotStale
  <2>5. x = vals[b.receiver.index]
    BY DEF Meant
  <2> QED
    BY <1>3, <2>1, <2>4, <2>5
<1> HIDE DEF x
<1>10. /\ Holds(found.m, vals, live, Stale(p)) /\ Moved(r.m, found.m, ClassesOf(b.receiver))
       /\ found.x = A!ClassFor(b.receiver, x)
  <2>1. Separate(live)
    BY <1>1, SeparateFewer
  <2> QED
    BY <1>1, <1>3, <1>6, <1>7, <1>9, <2>1, FoundHolds
<1> HIDE DEF found
<1>11. Moved(m, r.m, flagged) /\ Moved(r.m, found.m, flagged)
  BY <1>8, <1>10, MovedMore
<1>12. Moved(m, found.m, flagged)
  BY <1>11, MovedTwice
<1>13. [selector |-> b.selector, receiver |-> r.x, args |-> pushed.xs, class |-> found.x]
         = Sends(b, vals, m)
  BY <1>5, <1>7, <1>10 DEF Sends, x
<1> HIDE DEF flagged
<1>14. /\ Holds(found.m, vals, live, Stale(p)) /\ Moved(m, found.m, flagged)
       /\ [selector |-> b.selector, receiver |-> r.x, args |-> pushed.xs, class |-> found.x]
            = Sends(b, vals, m)
  BY <1>10, <1>12, <1>13
<1> QED
  BY <1>14 DEF b, pushed, r, found, flagged, live, n

(* A send passes, keeps and stores what it means.                          *)
LEMMA SendHolds ==
  ASSUME Located, ~KnownWrong, NEW p \in 1..Len(unit.code), unit.code[p].op = "SEND",
         NEW m, NEW vals, Holds(m, vals, LiveAt(p - 1), Stale(p)), Valued(vals),
         IsSequence(m.sent),
         \A v \in m.inReg \union m.onStack : interval[v].start <= p - 1,
         \A q \in 1..(p - 1) : unit.code[q].op \notin {"RETURN", "OUTER_RETURN"}
  PROVE  SendRight(m, GenerateSend(m, unit.code[p], p - 1), vals,
                   LiveAt(p - 1), LiveThen(p), Stale(p), unit.code[p])
<1> DEFINE b == unit.code[p]
           n == p - 1
           live == LiveAt(n)
           then == LiveThen(p)
           pushed == Pushed(m, b.args, n)
           r == MovOperand(pushed.m, b.receiver, n)
           found == IF Resolved(b.receiver) THEN Loaded(r.m, <<"known">>)
                    ELSE FindClass(r.m, b.receiver, r.x)
           msg == [selector |-> b.selector, receiver |-> r.x, args |-> pushed.xs, class |-> found.x]
           called == [Collect(found.m, n) EXCEPT !.memory = <<>>, !.sent = Append(@, msg)]
           x == Answer(m)
<1>0. GenerateSend(m, b, n) = MovToOperand(called, b.store, <<"answer", Len(called.sent)>>)
  BY DEF GenerateSend
<1>1. PICK d : d = found.m
  OBVIOUS
<1>2. /\ Holds(d, vals, live, Stale(p)) /\ Moved(m, d, Plain(live) \union ClassesOf(b.receiver))
      /\ msg = Sends(b, vals, m)
  BY <1>1, SendFound
<1> HIDE DEF msg, found
<1>3. PICK e : e = called
  OBVIOUS
<1>4. e = [Collect(d, n) EXCEPT !.memory = <<>>, !.sent = Append(@, msg)]
  BY <1>1, <1>3
<1> HIDE DEF called, r, pushed
<1>5. n \in Nat /\ Setting /\ unit \in Units /\ DOMAIN reg = DOMAIN interval
      /\ \A v \in DOMAIN reg : interval[v].start \in Int
  BY DEF Located, UsesKnown, ScanInv, Setting
<1>6. CanRun(b, live, then)
  BY BytecodeRuns
<1>7. /\ b.receiver.type \in {"TEMP", "ARG"} => Class(b.receiver.index) \in live
      /\ ~FrameLess /\ Takes(b.store, then)
  BY <1>6 DEF CanRun
<1>8. Separate(then) /\ then \subseteq DOMAIN reg
  BY ThenSeparate
<1>9. then \cap d.onStack \subseteq live \union {Context(0)}
  <2> SUFFICES ASSUME NEW v \in then, v \in d.onStack, v # Context(0) PROVE v \in live
    OBVIOUS
  <2>1. v \in m.inReg \union m.onStack \union Plain(live) \union ClassesOf(b.receiver)
    BY <1>2 DEF Moved
  <2>2. CASE v \in m.inReg \union m.onStack
    <3>1. interval[v].start <= p - 1 /\ v \in DOMAIN reg
      BY <1>8, <2>2
    <3> QED
      BY <3>1, AliveAcross
  <2>3. CASE v \in Plain(live)
    BY <2>3 DEF Plain
  <2>4. CASE v \in ClassesOf(b.receiver)
    BY <1>7, <2>4 DEF ClassesOf
  <2> QED
    BY <2>1, <2>2, <2>3, <2>4
<1> HIDE DEF b, then, x
<1>10. PICK c : c = Collect(d, n)
  OBVIOUS
<1>11. /\ Holds(c, vals, then, Stale(p)) /\ Moved(d, c, {}) /\ c.inReg = {} /\ c.onStack = d.onStack
  BY <1>2, <1>5, <1>7, <1>9, <1>10, CollectHolds DEF live
<1>12. /\ c.sent = m.sent /\ c.result = m.result /\ c.started = m.started
  BY <1>2, <1>11 DEF Moved, Outside
<1>13. /\ Holds(e, vals, then, Stale(p)) /\ e.memory = <<>> /\ e.sent = Append(m.sent, msg)
       /\ e.result = m.result /\ e.started = m.started /\ e.inReg = {} /\ e.onStack = d.onStack
  <2>1. e = Called(c, msg)
    BY <1>4, <1>10 DEF Called
  <2>2. /\ Holds(e, vals, then, Stale(p)) /\ e.memory = <<>> /\ e.sent = Append(c.sent, msg)
        /\ e.result = c.result /\ e.started = c.started /\ e.inReg = c.inReg /\ e.onStack = c.onStack
    BY <1>11, <2>1, CalledHolds
  <2> QED
    BY <1>11, <1>12, <2>2
<1>14. IsSequence(e.sent) /\ <<"answer", Len(e.sent)>> = x
  BY <1>13, AppendLen DEF x, Answer
<1>15. x # Junk
  BY DEF x, Answer, Junk
<1>16. PICK f : f = MovToOperand(e, b.store, x)
  OBVIOUS
<1>17. Stores(e, f, vals, then, Stale(p), b.store, x)
  BY <1>5, <1>7, <1>8, <1>13, <1>15, <1>16, MovToOperandHolds
<1>18. GenerateSend(m, b, n) = f
  BY <1>0, <1>3, <1>14, <1>16
<1>19. f.inReg \subseteq then
  BY <1>13, <1>17 DEF Stores
<1>20. f.inReg \union f.onStack
         \subseteq m.inReg \union m.onStack \union Plain(live) \union Plain(then) \union ClassesOf(b.receiver)
  BY <1>2, <1>13, <1>17 DEF Stores, Moved
<1>21. SendRight(m, f, vals, live, then, Stale(p), b)
  BY <1>2, <1>13, <1>14, <1>17, <1>19, <1>20 DEF SendRight, Stores, x
<1> QED
  BY <1>18, <1>21 DEF b, n, live, then

(* The unit answers.                                                       *)
Answered(m, x) == [m EXCEPT !.result = x]
AnswerRight(m, c, op, x) ==
  /\ c.result = <<op, x, ContextOut(0)>>
  /\ c.memory = m.memory /\ c.sent = m.sent /\ c.started = m.started
  /\ ~c.failed /\ Junk \notin c.shown
  /\ c.inReg \union c.onStack \subseteq DOMAIN reg

(* An answer leaves everything else alone.                                 *)
LEMMA AnsweredRight ==
  ASSUME NEW m, NEW c, NEW vals, NEW live, NEW stale, Holds(c, vals, live, stale),
         Outside(c) = Outside(m), NEW op, NEW x
  PROVE  AnswerRight(m, Answered(c, <<op, x, ContextOut(0)>>), op, x)
<1> DEFINE y == <<op, x, ContextOut(0)>>
           d == [started |-> c.started, inReg |-> c.inReg, onStack |-> c.onStack, regs |-> c.regs,
                 frame |-> c.frame, memory |-> c.memory, sent |-> c.sent, shown |-> c.shown,
                 result |-> y, failed |-> c.failed]
<1>1. Answered(c, y) = d
  <2>1. Machine(c)
    BY DEF Holds
  <2> HIDE DEF y
  <2> QED
    BY <2>1 DEF Machine, Answered
<1>2. /\ d.result = y /\ d.memory = m.memory /\ d.sent = m.sent /\ d.started = m.started
      /\ d.failed = c.failed /\ d.shown = c.shown /\ d.inReg = c.inReg /\ d.onStack = c.onStack
  BY DEF Outside
<1>3. ~c.failed /\ Junk \notin c.shown /\ c.inReg \union c.onStack \subseteq DOMAIN reg
  BY DEF Holds
<1> HIDE DEF d
<1> QED
  BY <1>1, <1>2, <1>3 DEF AnswerRight

(* The context the answer needs is the unit's own.                         *)
LEMMA AnswerHolds ==
  ASSUME NEW m, NEW vals, NEW live, NEW stale, Holds(m, vals, live, stale),
         Setting, Separate(live), HasContext(unit) => Context(0) \in live,
         NEW op, op = "OUTER_RETURN" => (HasContext(unit) /\ ~FrameLess), NEW x
  PROVE  AnswerRight(m, AnswerWith(m, op, x), op, x)
<1> DEFINE c == FillVar(m, Context(0))
           found == op = "OUTER_RETURN" \/ RestoresContext
<1>1. CASE ~found
  <2>1. AnswerWith(m, op, x) = Answered(m, <<op, x, ContextOut(0)>>)
    BY <1>1 DEF AnswerWith, Answered
  <2> QED
    BY <2>1, AnsweredRight
<1>2. CASE found
  <2>1. Context(0) \in live /\ ~FrameLess
    BY <1>2 DEF RestoresContext
  <2>2. /\ Holds(c, vals, live, stale) /\ Moved(m, c, {})
        /\ RegValue(c, Context(0)) = ContextOut(0)
    BY <2>1, FirstContextHolds
  <2>3. AnswerWith(m, op, x) = Answered(c, <<op, x, ContextOut(0)>>)
    BY <1>2, <2>2 DEF AnswerWith, Answered
  <2> HIDE DEF c
  <2>4. Outside(c) = Outside(m)
    BY <2>2 DEF Moved
  <2> QED
    BY <2>2, <2>3, <2>4, AnsweredRight
<1> QED
  BY <1>1, <1>2

(* A return answers what its operand means.                                *)
LEMMA ReturnHolds ==
  ASSUME Located, ~KnownWrong, NEW p \in 1..Len(unit.code),
         unit.code[p].op \in {"RETURN", "OUTER_RETURN"},
         NEW m, NEW vals, Holds(m, vals, LiveAt(p - 1), Stale(p)), Valued(vals)
  PROVE  AnswerRight(m, GenerateReturn(m, unit.code[p], p - 1), unit.code[p].op,
                     Meant(unit.code[p].value, vals, m.memory, Len(m.sent)))
<1> DEFINE b == unit.code[p]
           n == p - 1
           live == LiveAt(n)
           r == MovOperand(m, b.value, n)
           x == Meant(b.value, vals, m.memory, Len(m.sent))
<1>1. n \in Nat /\ Setting /\ Separate(live \union {Context(0)})
  BY DEF Located
<1>2. CanRun(b, live, LiveThen(p))
  BY BytecodeRuns
<1>3. Ready(b.value, live) /\ (b.op = "OUTER_RETURN" => (HasContext(unit) /\ ~FrameLess))
  BY <1>2 DEF CanRun
<1>4. HasContext(unit) => Context(0) \in live
  BY DEF LiveAt
<1>5. Holds(r.m, vals, live, Stale(p)) /\ Moved(m, r.m, Plain(live)) /\ r.x = x
  BY <1>1, <1>3, MovOperandHolds DEF Read
<1>6. Separate(live)
  BY <1>1, SeparateFewer
<1>7. GenerateReturn(m, b, n) = AnswerWith(r.m, b.op, x)
  BY <1>5 DEF GenerateReturn
<1> HIDE DEF r, b, live, n, x
<1>8. AnswerRight(r.m, AnswerWith(r.m, b.op, x), b.op, x)
  BY <1>1, <1>3, <1>4, <1>5, <1>6, AnswerHolds
<1>9. Outside(r.m) = Outside(m)
  BY <1>5 DEF Moved
<1>10. AnswerRight(m, GenerateReturn(m, b, n), b.op, x)
  BY <1>7, <1>8, <1>9 DEF AnswerRight, Outside
<1> QED
  BY <1>10 DEF b, n, x

(* Code that ends answers the receiver.                                    *)
LEMMA EndHolds ==
  ASSUME Located, NEW m, NEW vals, NEW stale, Holds(m, vals, LiveAtEnd, stale), Valued(vals)
  PROVE  LET r == MovVar(m, SelfVar)
         IN  AnswerRight(m, AnswerWith(r.m, "RETURN", r.x), "RETURN", <<"arg", 1>>)
<1> DEFINE r == MovVar(m, SelfVar)
<1>1. SelfVar \in m.onStack /\ SelfVar \in DOMAIN reg /\ SelfVar \in LiveAtEnd
  BY DEF Holds, LiveAtEnd
<1>2. Setting /\ Separate(LiveAtEnd)
  <2>1. /\ Setting /\ Context(0) \in DOMAIN reg
        /\ \A v \in DOMAIN reg : v # Context(0) => reg[v] # reg[Context(0)]
    BY DEF Located, Setting
  <2>2. \A v \in LiveAtEnd : v = SelfVar \/ v = Context(0)
    BY DEF LiveAtEnd
  <2>3. ASSUME NEW v \in LiveAtEnd, NEW w \in LiveAtEnd, v # w PROVE reg[v] # reg[w]
    <3>1. \/ v = Context(0) /\ w \in DOMAIN reg /\ w # Context(0)
          \/ w = Context(0) /\ v \in DOMAIN reg /\ v # Context(0)
      BY <1>1, <2>2, <2>3
    <3> QED
      BY <2>1, <3>1
  <2>4. LiveAtEnd \subseteq DOMAIN reg
    BY <1>1, <2>1, <2>2
  <2> QED
    BY <2>1, <2>3, <2>4 DEF Separate
<1>3. Holds(r.m, vals, LiveAtEnd, stale) /\ Moved(m, r.m, {}) /\ Right(SelfVar, r.x, vals, stale)
  BY <1>1, <1>2, MovVarHolds
<1>4. r.x = <<"arg", 1>>
  BY <1>3, SelfIs
<1>5. HasContext(unit) => Context(0) \in LiveAtEnd
  BY DEF LiveAtEnd
<1> HIDE DEF r
<1>6. Outside(r.m) = Outside(m)
  BY <1>3 DEF Moved
<1>7. AnswerRight(r.m, AnswerWith(r.m, "RETURN", r.x), "RETURN", <<"arg", 1>>)
  BY <1>2, <1>3, <1>4, <1>5, AnswerHolds
<1>8. AnswerRight(m, AnswerWith(r.m, "RETURN", r.x), "RETURN", <<"arg", 1>>)
  BY <1>6, <1>7 DEF AnswerRight, Outside
<1> QED
  BY <1>8 DEF r

(* Where the code begins.                                                  *)
LEMMA StartHolds ==
  ASSUME Located, values = A!VariablesOf(unit),
         NEW live, Context(0) \in live => HasContext(unit)
  PROVE  /\ Holds(StartMachine, values, live, {})
         /\ StartMachine.inReg \union StartMachine.onStack \subseteq Begins(unit)
         /\ StartMachine.started /\ StartMachine.memory = <<>> /\ StartMachine.sent = <<>>
         /\ StartMachine.result = Running
<1> DEFINE m == StartMachine
           known == unit.isBlock \/ unit.hasContext
<1>1. /\ unit \in Units /\ Setting /\ Ordered /\ ScanInv /\ unit.argsSize \in Nat /\ unit.tempsSize \in Nat
      /\ DOMAIN reg = DOMAIN interval
  BY UnitFacts DEF Located, UsesKnown, ScanInv
<1>2. Begins(unit) \subseteq DOMAIN reg
  BY <1>1, UsedAlive DEF Located, UsesKnown
<1>3. Arguments \union {Context(0)} = Begins(unit)
  BY DEF Arguments, Begins
<1>4. reg[Context(0)] = PinnedReg /\ PinnedReg # Spilled /\ Context(0) \in DOMAIN reg
  BY <1>1, PinnedAssumption DEF ScanInv, Setting
<1>5. /\ m.inReg = IF FrameLess /\ ~unit.isBlock THEN {} ELSE {Context(0)}
      /\ m.onStack = Arguments \union (IF FrameLess THEN {} ELSE {Context(0)})
      /\ m.regs = [q \in HeldRegisters |-> IF q = PinnedReg /\ known THEN ContextOut(0) ELSE Junk]
      /\ DOMAIN m.frame = DOMAIN reg
      /\ m.memory = <<>> /\ m.sent = <<>> /\ m.shown = {} /\ m.result = Running /\ m.failed = FALSE
      /\ m.started = TRUE
  BY DEF StartMachine, HeldRegisters
<1>6. Machine(m)
  BY DEF Machine, StartMachine
<1>7. \A v \in DOMAIN reg : /\ v \in Arguments => m.frame[v] = <<"arg", v[2]>>
                            /\ (v = Context(0) /\ v \notin Arguments /\ ~FrameLess) => m.frame[v] = ContextOut(0)
  <2> SUFFICES ASSUME NEW v \in DOMAIN reg
               PROVE  /\ v \in Arguments => m.frame[v] = <<"arg", v[2]>>
                      /\ (v = Context(0) /\ v \notin Arguments /\ ~FrameLess) => m.frame[v] = ContextOut(0)
    OBVIOUS
  <2>1. m.frame[v] = CASE v \in Arguments -> <<"arg", v[2]>>
                       [] v = Context(0) /\ ~FrameLess -> ContextOut(0)
                       [] OTHER -> Junk
    BY DEF StartMachine
  <2>2. CASE v \in Arguments
    <3>1. v # Context(0)
      BY <2>2 DEF Arguments, Tmp, Context
    <3> QED
      BY <2>1, <2>2, <3>1
  <2>3. CASE v \notin Arguments
    BY <2>1, <2>3
  <2> QED
    BY <2>2, <2>3
<1>8. Context(0) \notin Arguments /\ SelfVar \in Arguments /\ SelfVar = Tmp(1)
  BY <1>1 DEF Arguments, Tmp, Context, Setting, SelfVar
<1>9. /\ DOMAIN values = 1..(unit.argsSize + 1 + unit.tempsSize)
      /\ \A i \in DOMAIN values : values[i] = IF i <= unit.argsSize + 1 THEN <<"arg", i>> ELSE Nil
  BY DEF A!VariablesOf, A!Nil, Nil
<1> HIDE DEF m
<1>10. ASSUME NEW v \in m.inReg \cap live PROVE Right(v, m.regs[reg[v]], values, {})
  <2>1. v = Context(0) /\ known /\ reg[v] \in HeldRegisters
    BY <1>4, <1>5, <1>10 DEF HasContext, HeldRegisters
  <2>2. m.regs[reg[v]] = ContextOut(0)
    BY <1>4, <1>5, <2>1
  <2> QED
    BY <2>1, <2>2, RightOf
<1>11. ASSUME NEW v \in m.onStack \cap live PROVE Right(v, m.frame[v], values, {})
  <2>1. v \in DOMAIN reg
    BY <1>2, <1>3, <1>5
  <2>2. CASE v \in Arguments
    <3>1. PICK i \in 1..(unit.argsSize + 1) : v = Tmp(i)
      BY <2>2 DEF Arguments
    <3>2. v[2] = i /\ i \in DOMAIN values /\ values[i] = <<"arg", i>>
      BY <1>1, <1>9, <3>1 DEF Tmp
    <3>3. <<"arg", i>> # Junk
      BY DEF Junk
    <3>4. m.frame[v] = values[i] /\ values[i] # Junk
      BY <1>7, <2>1, <2>2, <3>2, <3>3
    <3> QED
      BY <3>1, <3>2, <3>4, RightOf
  <2>3. CASE v \notin Arguments
    <3>1. v = Context(0) /\ ~FrameLess
      BY <1>5, <2>3
    <3>2. m.frame[v] = ContextOut(0)
      BY <1>7, <2>1, <2>3, <3>1
    <3> QED
      BY <3>1, <3>2, RightOf
  <2> QED
    BY <2>2, <2>3
<1>12. m.frame[SelfVar] = <<"arg", 1>> /\ (~FrameLess => m.frame[Context(0)] = ContextOut(0))
  <2>1. SelfVar[2] = 1
    BY DEF SelfVar, Tmp
  <2> QED
    BY <1>2, <1>3, <1>7, <1>8, <2>1
<1>13. \A i \in DOMAIN values : Tmp(i) \in DOMAIN reg => (Tmp(i) \in m.onStack \/ values[i] = Nil)
  <2> SUFFICES ASSUME NEW i \in DOMAIN values, values[i] # Nil PROVE Tmp(i) \in m.onStack
    OBVIOUS
  <2>1. i \in 1..(unit.argsSize + 1)
    BY <1>1, <1>9
  <2> QED
    BY <1>5, <2>1 DEF Arguments
<1>14. \A v \in Begins(unit) : v[1] # "ASSOC"
  BY DEF Begins, Tmp, Context
<1>15. /\ m.inReg \subseteq { v \in DOMAIN reg : reg[v] # Spilled }
       /\ m.onStack \subseteq { v \in DOMAIN reg : v[1] # "ASSOC" }
       /\ m.inReg \union m.onStack \subseteq Begins(unit)
  BY <1>2, <1>3, <1>4, <1>5, <1>14
<1>16. Holds(m, values, live, {})
  <2>1. \A q \in DOMAIN m.memory : m.memory[q] # Junk
    BY <1>5
  <2>2. DOMAIN m.regs = HeldRegisters /\ ~m.failed /\ Junk \notin m.shown
    BY <1>5
  <2>3. Arguments \union {SelfVar} \subseteq m.onStack
    BY <1>5, <1>8
  <2>4. /\ Context(0) \in m.inReg \union m.onStack \/ (FrameLess /\ ~unit.isBlock)
        /\ ~FrameLess => (Context(0) \in m.onStack /\ m.frame[Context(0)] = ContextOut(0))
    BY <1>5, <1>12
  <2> QED
    BY <1>5, <1>6, <1>10, <1>11, <1>12, <1>13, <1>15, <2>1, <2>2, <2>3, <2>4 DEF Holds
<1> QED
  BY <1>5, <1>15, <1>16 DEF m

(* What is alive had its first use.                                        *)
LEMMA Started ==
  ASSUME Located
  PROVE  /\ \A n \in Nat : \A v \in LiveAt(n) : v \in DOMAIN reg /\ interval[v].start <= n
         /\ \A p \in 1..Len(unit.code) : \A v \in LiveThen(p) : interval[v].start <= p
         /\ \A v \in DOMAIN reg : interval[v].start \in Int /\ interval[v].end \in Int
         /\ (Len(unit.code) > 0 /\ ~Returns(unit.code)) => SelfVar \in LiveAt(Len(unit.code) - 1)
         /\ \A v \in Begins(unit) : v \in DOMAIN reg /\ interval[v].start <= 0
<1>1. /\ unit \in Units /\ Ordered /\ DOMAIN reg = DOMAIN interval /\ Len(unit.code) \in Nat
      /\ Context(0) \in DOMAIN reg
      /\ \A v \in DOMAIN reg : interval[v].start \in Int /\ interval[v].end \in Int
  BY UnitFacts DEF Located, UsesKnown, ScanInv, Setting
<1>2. /\ \A v \in Begins(unit) : v \in DOMAIN interval /\ interval[v].start <= 0
      /\ \A p \in 1..Len(unit.code) : \A v \in UsingThen(unit.code[p]) : AliveAt(v, p)
      /\ (Len(unit.code) > 0 /\ ~Returns(unit.code)) => interval[SelfVar].end >= Len(unit.code) - 1
  BY <1>1, UsedAlive DEF Located, UsesKnown
<1>3. Context(0) \in Begins(unit) /\ SelfVar \in Begins(unit)
  BY <1>1, UnitFacts DEF Begins, SelfVar
<1>4. interval[Context(0)].start \in Int /\ interval[Context(0)].start <= 0
  BY <1>1, <1>2, <1>3
<1>5. ASSUME NEW n \in Nat, NEW v \in LiveAt(n) PROVE v \in DOMAIN reg /\ interval[v].start <= n
  BY <1>1, <1>4, <1>5 DEF LiveAt, InUse
<1>6. ASSUME NEW p \in 1..Len(unit.code), NEW v \in LiveThen(p) PROVE interval[v].start <= p
  <2>1. p \in Nat
    BY <1>1
  <2>2. CASE p < Len(unit.code)
    BY <1>5, <1>6, <2>1, <2>2 DEF LiveThen
  <2>3. CASE ~(p < Len(unit.code)) /\ v \in UsingThen(unit.code[p])
    BY <1>2, <2>3 DEF AliveAt
  <2>4. CASE v = Context(0)
    BY <1>4, <2>1, <2>4
  <2>5. p < Len(unit.code) \/ v \in UsingThen(unit.code[p]) \/ v = Context(0)
    BY <1>6 DEF LiveThen
  <2> QED
    BY <2>2, <2>3, <2>4, <2>5
<1>7. ASSUME Len(unit.code) > 0, ~Returns(unit.code)
      PROVE  SelfVar \in LiveAt(Len(unit.code) - 1)
  <2>1. /\ SelfVar \in DOMAIN reg /\ SelfVar # Context(0)
        /\ interval[SelfVar].start <= 0 /\ interval[SelfVar].start \in Int
    BY <1>1, <1>2, <1>3 DEF SelfVar, Tmp, Context
  <2> QED
    BY <1>1, <1>2, <1>7, <2>1 DEF LiveAt, InUse
<1> QED
  BY <1>1, <1>2, <1>5, <1>6, <1>7

(* Values stay values.                                                     *)
LEMMA AfterValued ==
  ASSUME NEW vals, Valued(vals), unit \in Units, NEW o, NEW x, x # Junk,
         o.type = "TEMP" => SourceOf(unit, o)
  PROVE  Valued(ValuesAfter(vals, o, x))
<1>1. CASE o.type # "TEMP"
  BY <1>1 DEF ValuesAfter
<1>2. CASE o.type = "TEMP"
  <2>1. o.index \in DOMAIN vals /\ o.index # 1
    BY <1>2, TargetIndex
  <2> QED
    BY <1>2, <2>1 DEF ValuesAfter, Valued
<1> QED
  BY <1>1, <1>2

(* After a copy the next byte code can run.                                *)
LEMMA CopyRuns ==
  ASSUME Located, ~KnownWrong, NEW p \in 1..Len(unit.code), unit.code[p].op = "COPY",
         NEW m, NEW vals, Valued(vals), RunsRight(m, vals, p)
  PROVE  LET b == unit.code[p]
             c == GenerateCopy(m, b.from, b.to, p - 1)
             x == Meant(b.from, vals, m.memory, Len(m.sent))
         IN  /\ RunsRight(c, ValuesAfter(vals, b.to, x), p + 1)
             /\ Valued(ValuesAfter(vals, b.to, x))
             /\ c.memory = A!MemoryWith(m.memory, b.to, x) /\ c.sent = m.sent
             /\ c.result = m.result /\ c.started = m.started
<1> DEFINE b == unit.code[p]
           x == Meant(b.from, vals, m.memory, Len(m.sent))
           live == LiveAt(p - 1)
<1>1. PICK c : c = GenerateCopy(m, b.from, b.to, p - 1)
  OBVIOUS
<1>2. /\ p - 1 \in Nat /\ p \in Nat /\ Setting /\ Separate(live \union {Context(0)}) /\ unit \in Units
      /\ Len(unit.code) \in Nat /\ DOMAIN unit.code = 1..Len(unit.code)
  BY UnitFacts DEF Located, UsesKnown
<1>3. Ready(b.from, live) /\ Takes(b.to, live)
  BY BytecodeRuns DEF CanRun
<1>4. TargetOf(unit, b.to) /\ b.to.type # "NONE"
  <2>1. BytecodeOf(unit, b)
    BY <1>2, UnitFacts
  <2> QED
    BY <2>1 DEF BytecodeOf, TargetOf
<1>5. b \in ToSet(unit.code) /\ b.from \in ToSet(OperandsOf(b))
  <2>1. b \in ToSet(unit.code)
    BY <1>2 DEF ToSet
  <2> QED
    BY <2>1, OperandsAre
<1>6. b.from.type \in {"TEMP", "ARG"} => reg[Tmp(b.from.index)] # Spilled
  BY <1>5 DEF KnownWrong, UsesSpilled
<1>7. ~(b.from.type = "TEMP" /\ b.to.type = "TEMP" /\ b.from.index = b.to.index)
  <2>1. BytecodeOf(unit, b)
    BY <1>2, UnitFacts
  <2> QED
    BY <2>1 DEF BytecodeOf
<1>8. Holds(m, vals, live, Stale(p))
  BY <1>2 DEF RunsRight, LiveFor
<1> HIDE DEF x
<1>9. CopyRight(m, c, vals, live, Stale(p), b.from, b.to)
  BY <1>1, <1>2, <1>3, <1>4, <1>6, <1>7, <1>8, CopyHolds
<1> DEFINE after == ValuesAfter(vals, b.to, x)
           older == Stale(p) \union (IF KeepsIt(b.from, b.to) THEN {b.to.index} ELSE {})
<1>10. /\ x # Junk /\ Holds(c, after, live, older)
       /\ c.memory = A!MemoryWith(m.memory, b.to, x) /\ c.sent = m.sent
       /\ c.result = m.result /\ c.started = m.started
       /\ c.inReg \union c.onStack \subseteq m.inReg \union m.onStack \union Plain(live)
       /\ (b.to.type = "TEMP" /\ ~KeepsIt(b.from, b.to)) => Class(b.to.index) \notin c.inReg \union c.onStack
  BY <1>9 DEF CopyRight, x
<1>11. Valued(after)
  BY <1>2, <1>4, <1>10, AfterValued DEF TargetOf
<1>12. \A i : Class(i) \in c.inReg \union c.onStack => Class(i) \in m.inReg \union m.onStack
  <2>1. \A i : Class(i) \notin Plain(live)
    BY DEF Plain, Class
  <2> QED
    BY <1>10, <2>1
<1>13. ASSUME NEW i \in Nat, Class(i) \in c.inReg \union c.onStack
       PROVE  ~Writes(b, i) \/ KeepingCopy(b)
  BY <1>10, <1>13 DEF Writes, KeepingCopy, KeepsIt
<1>14. \A i \in Nat : Class(i) \in c.inReg \union c.onStack => (i \in Kept(p) /\ i \in Kept(p + 1))
  <2> SUFFICES ASSUME NEW i \in Nat, Class(i) \in c.inReg \union c.onStack
               PROVE  i \in Kept(p) /\ i \in Kept(p + 1)
    OBVIOUS
  <2>1. i \in Kept(p)
    BY <1>12 DEF RunsRight
  <2> QED
    BY <1>2, <1>13, <2>1, KeptNext
<1>15. \A i \in older : Class(i) \in c.inReg \union c.onStack => i \in Stale(p + 1)
  <2> SUFFICES ASSUME NEW i \in older, Class(i) \in c.inReg \union c.onStack
               PROVE  i \in Stale(p + 1)
    OBVIOUS
  <2>1. CASE i \in Stale(p)
    <3>1. i \in Nat
      BY <2>1 DEF Stale
    <3> QED
      BY <1>2, <1>13, <2>1, <3>1, KeptNext
  <2>2. CASE KeepsIt(b.from, b.to) /\ i = b.to.index
    <3>1. i \in Nat
      <4>1. i \in DOMAIN vals
        BY <1>2, <1>4, <2>2, TargetIndex DEF TargetOf, KeepsIt
      <4> QED
        BY <1>2, <4>1, UnitFacts DEF Valued
    <3>2. Writes(b, i) /\ i \in Kept(p)
      BY <1>14, <2>2, <3>1 DEF Writes, KeepsIt
    <3> QED
      BY <1>2, <1>13, <3>1, <3>2, KeptNext
  <2> QED
    BY <2>1, <2>2
<1>16. \A q \in 1..p : unit.code[q].op \notin {"RETURN", "OUTER_RETURN"}
  BY <1>2 DEF RunsRight
<1>17. ASSUME NEW v \in c.inReg \union c.onStack
       PROVE  v \in DOMAIN reg /\ interval[v].start \in Int /\ interval[v].start <= p - 1
  <2>1. v \in m.inReg \union m.onStack \/ v \in live
    BY <1>10 DEF Plain
  <2>2. v \in m.inReg \union m.onStack => (interval[v].start <= p - 1 /\ v \in DOMAIN reg)
    BY <1>8 DEF RunsRight, Holds
  <2>3. v \in live => (interval[v].start <= p - 1 /\ v \in DOMAIN reg)
    BY <1>2, Started
  <2> QED
    BY <2>1, <2>2, <2>3, Started
<1>18. (c.inReg \union c.onStack) \cap LiveFor(p + 1) \subseteq live
  <2> SUFFICES ASSUME NEW v \in c.inReg \union c.onStack, v \in LiveFor(p + 1) PROVE v \in live
    OBVIOUS
  <2>1. CASE p + 1 <= Len(unit.code)
    <3>1. v \in LiveAt(p)
      BY <1>2, <2>1 DEF LiveFor
    <3>2. interval[v].end \in Int
      BY <1>17, Started
    <3> QED
      BY <1>2, <1>17, <3>1, <3>2 DEF LiveAt, InUse
  <2>2. CASE ~(p + 1 <= Len(unit.code))
    <3>1. p = Len(unit.code) /\ (v = SelfVar \/ (v = Context(0) /\ HasContext(unit)))
      BY <1>2, <2>2 DEF LiveFor, LiveAtEnd
    <3>2. ~Returns(unit.code)
      BY <1>2, <1>16, <3>1 DEF Returns
    <3>3. CASE v = SelfVar
      BY <1>2, <3>1, <3>2, <3>3, Started
    <3>4. CASE v = Context(0) /\ HasContext(unit)
      BY <3>4 DEF LiveAt
    <3> QED
      BY <3>1, <3>3, <3>4
  <2> QED
    BY <2>1, <2>2
<1> HIDE DEF after, older, live
<1>19. Holds(c, after, LiveFor(p + 1), Stale(p + 1))
  BY <1>10, <1>15, <1>18, HoldsLater
<1>20. IsSequence(c.sent)
  BY <1>10 DEF RunsRight
<1>21. \A v \in c.inReg \union c.onStack : interval[v].start <= (p + 1) - 1
  BY <1>2, <1>17
<1>22. (p + 1) - 1 = p
  BY <1>2
<1>23. RunsRight(c, after, p + 1)
  BY <1>14, <1>16, <1>19, <1>20, <1>21, <1>22 DEF RunsRight
<1> QED
  BY <1>1, <1>10, <1>11, <1>23 DEF after, x

(* After a send the next byte code can run.                                *)
LEMMA SendRuns ==
  ASSUME Located, ~KnownWrong, NEW p \in 1..Len(unit.code), unit.code[p].op = "SEND",
         NEW m, NEW vals, Valued(vals), RunsRight(m, vals, p)
  PROVE  LET b == unit.code[p]
             c == GenerateSend(m, b, p - 1)
         IN  /\ RunsRight(c, ValuesAfter(vals, b.store, Answer(m)), p + 1)
             /\ Valued(ValuesAfter(vals, b.store, Answer(m)))
             /\ c.memory = A!MemoryWith(<<>>, b.store, Answer(m))
             /\ c.sent = Append(m.sent, Sends(b, vals, m))
             /\ c.result = m.result /\ c.started = m.started
<1> DEFINE b == unit.code[p]
           live == LiveAt(p - 1)
           then == LiveThen(p)
           after == ValuesAfter(vals, b.store, Answer(m))
<1>1. PICK c : c = GenerateSend(m, b, p - 1)
  OBVIOUS
<1>2. /\ p - 1 \in Nat /\ p \in Nat /\ Setting /\ unit \in Units
      /\ Len(unit.code) \in Nat /\ DOMAIN unit.code = 1..Len(unit.code)
  BY UnitFacts DEF Located, UsesKnown
<1>3. Holds(m, vals, live, Stale(p))
  BY <1>2 DEF RunsRight, LiveFor
<1>4. SendRight(m, c, vals, live, then, Stale(p), b)
  BY <1>1, <1>3, SendHolds DEF RunsRight
<1>5. CanRun(b, live, then)
  BY BytecodeRuns
<1>6. Valued(after)
  <2>1. Answer(m) # Junk
    BY DEF Answer, Junk
  <2>2. b.store.type = "TEMP" => SourceOf(unit, b.store)
    BY <1>5 DEF CanRun, Takes, TargetOf
  <2> QED
    BY <1>2, <2>1, <2>2, AfterValued
<1>7. ClassesOf(b.receiver) \subseteq live
  BY <1>5 DEF CanRun, ClassesOf
<1>8. \A i \in Nat : Class(i) \in c.inReg \union c.onStack => ~Writes(b, i)
  BY <1>4 DEF SendRight, Writes
<1>9. \A i \in Nat : Class(i) \in c.inReg \union c.onStack => i \in Kept(p + 1)
  <2> SUFFICES ASSUME NEW i \in Nat, Class(i) \in c.inReg \union c.onStack PROVE i \in Kept(p + 1)
    OBVIOUS
  <2>1. Class(i) \notin Plain(live) /\ Class(i) \notin Plain(then)
    BY DEF Plain, Class
  <2>2. Class(i) \in m.inReg \union m.onStack \/ Class(i) \in ClassesOf(b.receiver)
    BY <1>4, <2>1 DEF SendRight
  <2>3. CASE Class(i) \in m.inReg \union m.onStack
    <3>1. i \in Kept(p)
      BY <2>3 DEF RunsRight
    <3> QED
      BY <1>2, <1>8, <3>1, KeptNext
  <2>4. CASE Class(i) \in ClassesOf(b.receiver)
    <3>1. SentTo(b, i)
      BY <2>4 DEF ClassesOf, SentTo, Class
    <3> QED
      BY <1>2, <1>8, <3>1, KeptHere
  <2> QED
    BY <2>2, <2>3, <2>4
<1>10. \A i \in Stale(p) : Class(i) \in c.inReg \union c.onStack => i \in Stale(p + 1)
  <2> SUFFICES ASSUME NEW i \in Stale(p), Class(i) \in c.inReg \union c.onStack
               PROVE  i \in Stale(p + 1)
    OBVIOUS
  <2>1. i \in Nat
    BY DEF Stale
  <2> QED
    BY <1>2, <1>8, <2>1, KeptNext
<1>11. \A q \in 1..p : unit.code[q].op \notin {"RETURN", "OUTER_RETURN"}
  BY <1>2 DEF RunsRight
<1>12. \A v \in c.inReg \union c.onStack : interval[v].start <= p
  <2> SUFFICES ASSUME NEW v \in c.inReg \union c.onStack PROVE interval[v].start <= p
    OBVIOUS
  <2>1. v \in m.inReg \union m.onStack \/ v \in live \/ v \in then
    BY <1>4, <1>7 DEF SendRight, Plain
  <2>2. v \in DOMAIN reg
    BY <1>4 DEF SendRight, Holds
  <2>3. interval[v].start \in Int
    BY <2>2, Started
  <2>4. CASE v \in m.inReg \union m.onStack
    <3>1. interval[v].start <= p - 1
      BY <2>4 DEF RunsRight
    <3> QED
      BY <1>2, <2>3, <3>1
  <2>5. CASE v \in live
    <3>1. interval[v].start <= p - 1
      BY <1>2, <2>5, Started
    <3> QED
      BY <1>2, <2>3, <3>1
  <2>6. CASE v \in then
    BY <2>6, Started
  <2> QED
    BY <2>1, <2>4, <2>5, <2>6
<1>13. Holds(c, after, LiveFor(p + 1), Stale(p + 1))
  <2> HIDE DEF b, after, live
  <2>1. Holds(c, after, then, Stale(p)) /\ c.inReg \subseteq then
    BY <1>4 DEF SendRight, after
  <2>2. CASE p < Len(unit.code)
    <3>1. LiveFor(p + 1) = then
      BY <1>2, <2>2 DEF LiveFor, LiveThen
    <3> HIDE DEF then
    <3> QED
      BY <1>10, <2>1, <3>1, HoldsLater
  <2>3. CASE ~(p < Len(unit.code))
    <3>1. LiveFor(p + 1) = LiveAtEnd
      BY <1>2, <2>3 DEF LiveFor
    <3>2. HasContext(unit) => Context(0) \in then
      BY DEF LiveThen, LiveAt
    <3> HIDE DEF then
    <3> QED
      BY <1>6, <2>1, <3>1, <3>2, HoldsSelf
  <2> QED
    BY <2>2, <2>3
<1> HIDE DEF after, live, then
<1>14. (p + 1) - 1 = p
  BY <1>2
<1>15. RunsRight(c, after, p + 1)
  BY <1>4, <1>9, <1>11, <1>12, <1>13, <1>14 DEF RunsRight, SendRight
<1> QED
  BY <1>1, <1>4, <1>6, <1>15 DEF after, SendRight

-----------------------------------------------------------------------------
(* What a step that leaves the registers alone keeps.                      *)
LEMMA KnownNext ==
  ASSUME UNCHANGED <<scanVars, unit>>
  PROVE  /\ KnownWrong' <=> KnownWrong
         /\ Scanned' <=> Scanned
         /\ (UsesKnown /\ Valued(values') /\ pc' \in 1..(Len(unit.code) + 1)) => UsesKnown'
<1>1. UNCHANGED <<reg, order, interval, next, unit>>
  BY DEF scanVars
<1>2. KnownWrong' <=> KnownWrong
  BY <1>1 DEF KnownWrong, UsesSpilled
<1>3. Scanned' <=> Scanned
  BY <1>1 DEF Scanned
<1>4. (UsesKnown /\ Valued(values') /\ pc' \in 1..(Len(unit.code) + 1)) => UsesKnown'
  BY <1>1 DEF UsesKnown, Valued
<1> QED
  BY <1>2, <1>3, <1>4

(* The same, of the state after the step.                                  *)
LEMMA RunsNext ==
  ASSUME UNCHANGED <<scanVars, unit>>, NEW m, NEW vals, NEW p,
         machine' = m, values' = vals, pc' = p, RunsRight(m, vals, p)
  PROVE  RunsRight(machine, values, pc)'
<1>1. UNCHANGED <<reg, interval, unit>>
  BY DEF scanVars
<1>2. /\ FrameLess' = FrameLess /\ Arguments' = Arguments /\ HeldRegisters' = HeldRegisters
      /\ LiveFor(pc)' = LiveFor(p) /\ Stale(pc)' = Stale(p) /\ Kept(pc)' = Kept(p)
  <2>1. FrameLess' = FrameLess /\ Arguments' = Arguments /\ HeldRegisters' = HeldRegisters
    BY <1>1 DEF FrameLess, Arguments, HeldRegisters
  <2>2. LiveFor(pc)' = LiveFor(p)
    BY <1>1 DEF LiveFor, LiveAtEnd, LiveAt, InUse
  <2>3. Stale(pc)' = Stale(p) /\ Kept(pc)' = Kept(p)
    BY <1>1 DEF Stale, Kept, ClassFound
  <2> QED
    BY <2>1, <2>2, <2>3
<1>3. Holds(machine, values, LiveFor(pc), Stale(pc))'
  <2>1. Holds(m, vals, LiveFor(p), Stale(p))
    BY DEF RunsRight
  <2> QED
    BY <1>1, <1>2, <2>1 DEF Holds, Machine, Right
<1> QED
  BY <1>1, <1>2, <1>3 DEF RunsRight

(* The steps of Activation.                                                *)
Simulates == [A!Next]_A!activationVars

(* The meaning Activation gives an operand.                                *)
LEMMA ValueMeant ==
  ASSUME NEW o, SourceOf(unit, o)
  PROVE  A!ValueOf(o) = Meant(o, values, machine.memory, Len(machine.sent))
<1>1. o.type \in {"TEMP", "ARG", "CONTEXT", "THIS_CONTEXT", "VALUE", "SUPER", "INST", "ASSOC",
                  "BLOCK", "LITERAL"}
  BY DEF SourceOf
<1> QED
  BY <1>1 DEF A!ValueOf, Meant, A!Self, ContextOut, Association

(* And to a store into a variable.                                         *)
LEMMA AfterWith ==
  ASSUME NEW o, NEW x
  PROVE  A!ValuesWith(o, x) = ValuesAfter(values, o, x)
BY DEF A!ValuesWith, ValuesAfter

(* Each step keeps the invariant and is one of Activation's, or none.      *)
LEMMA PlaceKeeps ==
  ASSUME GenInv, Place
  PROVE  GenInv' /\ Simulates
<1>1. ~machine.started /\ UNCHANGED <<order, interval, unit, pc, machine, values>>
  BY DEF Place, PlaceVariable, GenInv
<1>2. UsesKnown'
  BY <1>1 DEF GenInv, UsesKnown, Valued
<1>3. GenInv'
  BY <1>1, <1>2 DEF GenInv
<1>4. Simulates
  BY <1>1 DEF Simulates, A!activationVars
<1> QED
  BY <1>3, <1>4

(* The code begins.                                                        *)
LEMMA BeginKeeps ==
  ASSUME GenInv, ScanInv, Begin
  PROVE  GenInv' /\ Simulates
<1> DEFINE m == StartMachine
<1>1. /\ UsesKnown /\ ~machine.started /\ machine = Idle /\ pc = 1 /\ values = A!VariablesOf(unit)
      /\ Scanned /\ ~KnownWrong /\ machine' = m
      /\ UNCHANGED <<scanVars, unit, pc, values>>
  BY DEF GenInv, Begin, KnownWrong
<1>2. Located
  BY <1>1, Allocated
<1>3. unit \in Units /\ Len(unit.code) \in Nat
  BY <1>1, UnitFacts DEF UsesKnown
<1>4. Context(0) \in LiveFor(1) => HasContext(unit)
  BY DEF LiveFor, LiveAt, LiveAtEnd, SelfVar, Tmp, Context
<1> HIDE DEF m
<1>5. /\ Holds(m, values, LiveFor(1), {}) /\ m.inReg \union m.onStack \subseteq Begins(unit)
      /\ m.started /\ m.memory = <<>> /\ m.sent = <<>> /\ m.result = Running
  BY <1>1, <1>2, <1>4, StartHolds DEF m
<1>6. RunsRight(m, values, 1)
  <2>1. Stale(1) = {}
    BY DEF Stale
  <2>2. IsSequence(m.sent)
    BY <1>5 DEF IsSequence
  <2>3. \A v \in m.inReg \union m.onStack : interval[v].start <= 1 - 1
    BY <1>2, <1>5, Started
  <2>4. \A i : Class(i) \notin Begins(unit)
    BY DEF Begins, Tmp, Context, Class
  <2>5. \A i : Class(i) \notin m.inReg \union m.onStack
    BY <1>5, <2>4
  <2>6. Holds(m, values, LiveFor(1), Stale(1))
    BY <1>5, <2>1
  <2>7. 1..(1 - 1) = {}
    OBVIOUS
  <2> QED
    BY <2>2, <2>3, <2>5, <2>6, <2>7 DEF RunsRight
<1>7. RunsRight(machine, values, pc)'
  BY <1>1, <1>6, RunsNext
<1>8. UsesKnown' /\ Scanned' /\ ~KnownWrong'
  <2>1. Valued(values') /\ pc' \in 1..(Len(unit.code) + 1)
    BY <1>1 DEF UsesKnown
  <2> QED
    BY <1>1, <2>1, KnownNext
<1>9. ~m.failed /\ Junk \notin m.shown /\ m.inReg \union m.onStack \subseteq DOMAIN reg
  BY <1>5 DEF Holds
<1>10. GenInv'
  <2>1. reg' = reg
    BY <1>1 DEF scanVars
  <2> QED
    BY <1>1, <1>5, <1>7, <1>8, <1>9, <2>1 DEF GenInv
<1>11. Simulates
  <2>1. machine'.memory = machine.memory /\ machine'.sent = machine.sent /\ machine'.result = machine.result
    BY <1>1, <1>5 DEF Idle
  <2> QED
    BY <1>1, <2>1 DEF Simulates, A!activationVars
<1> QED
  BY <1>10, <1>11

(* What a running unit has, where it runs a byte code.                     *)
LEMMA Runs ==
  ASSUME GenInv, ScanInv, machine.started, machine.result = Running
  PROVE  /\ Located /\ ~KnownWrong /\ RunsRight(machine, values, pc) /\ Valued(values)
         /\ UsesKnown /\ Scanned /\ unit \in Units /\ pc \in Nat \ {0} /\ Len(unit.code) \in Nat
<1>1. /\ UsesKnown /\ Scanned /\ ~KnownWrong /\ RunsRight(machine, values, pc)
  BY DEF GenInv
<1>2. Located
  BY <1>1, Allocated
<1>3. unit \in Units /\ Len(unit.code) \in Nat
  BY <1>1, UnitFacts DEF UsesKnown
<1> QED
  BY <1>1, <1>2, <1>3 DEF UsesKnown

(* A byte code that does not answer.                                       *)
LEMMA RunKeeps ==
  ASSUME GenInv, ScanInv, machine.started, machine.result = Running, UNCHANGED <<scanVars, unit>>,
         pc \in 1..Len(unit.code), pc' = pc + 1, Valued(values'), RunsRight(machine', values', pc + 1),
         machine'.started
  PROVE  GenInv'
<1>1. /\ UsesKnown /\ Scanned /\ ~KnownWrong /\ Len(unit.code) \in Nat
  BY Runs
<1>2. PICK m, vals, p : m = machine' /\ vals = values' /\ p = pc'
  OBVIOUS
<1>3. RunsRight(m, vals, p)
  BY <1>2
<1>4. RunsRight(machine, values, pc)'
  BY <1>2, <1>3, RunsNext
<1>5. UsesKnown' /\ Scanned' /\ ~KnownWrong'
  BY <1>1, KnownNext
<1>6. ~m.failed /\ Junk \notin m.shown /\ m.inReg \union m.onStack \subseteq DOMAIN reg
  BY <1>3 DEF RunsRight, Holds
<1>7. reg' = reg
  BY DEF scanVars
<1> QED
  BY <1>2, <1>4, <1>5, <1>6, <1>7 DEF GenInv

(* A copy.                                                                 *)
LEMMA CopyKeeps ==
  ASSUME GenInv, ScanInv, CopyBytecode
  PROVE  GenInv' /\ Simulates
<1> DEFINE b == unit.code[pc]
           x == Meant(b.from, values, machine.memory, Len(machine.sent))
           c == GenerateCopy(machine, b.from, b.to, pc - 1)
<1>1. /\ machine.started /\ machine.result = Running /\ pc <= Len(unit.code) /\ b.op = "COPY"
      /\ pc' = pc + 1 /\ UNCHANGED <<scanVars, unit>>
      /\ machine' = c /\ values' = A!ValuesWith(b.to, A!ValueOf(b.from))
  BY DEF CopyBytecode, AtBytecode, Bytecode
<1>2. /\ Located /\ ~KnownWrong /\ RunsRight(machine, values, pc) /\ Valued(values)
      /\ unit \in Units /\ pc \in 1..Len(unit.code)
  BY <1>1, Runs
<1>3. SourceOf(unit, b.from)
  <2>1. BytecodeOf(unit, b)
    BY <1>2, UnitFacts
  <2> QED
    BY <1>1, <2>1 DEF BytecodeOf
<1>4. A!ValueOf(b.from) = x
  BY <1>3, ValueMeant
<1>5. values' = ValuesAfter(values, b.to, x)
  BY <1>1, <1>4, AfterWith
<1>6. /\ RunsRight(c, ValuesAfter(values, b.to, x), pc + 1) /\ Valued(ValuesAfter(values, b.to, x))
      /\ c.memory = A!MemoryWith(machine.memory, b.to, x) /\ c.sent = machine.sent
      /\ c.result = machine.result /\ c.started = machine.started
  BY <1>1, <1>2, CopyRuns
<1> HIDE DEF c, x
<1>7. GenInv'
  BY <1>1, <1>2, <1>5, <1>6, RunKeeps
<1>8. A!Next
  <2>1. A!CopyStep
    BY <1>1, <1>4, <1>6 DEF A!CopyStep, A!Bytecode
  <2>2. A!Step
    BY <1>1, <2>1 DEF A!Step, A!Running, Running
  <2> QED
    BY <2>2 DEF A!Next
<1> QED
  BY <1>7, <1>8 DEF Simulates

(* A send.                                                                 *)
LEMMA SendKeeps ==
  ASSUME GenInv, ScanInv, SendBytecode
  PROVE  GenInv' /\ Simulates
<1> DEFINE b == unit.code[pc]
           x == Answer(machine)
           c == GenerateSend(machine, b, pc - 1)
<1>1. /\ machine.started /\ machine.result = Running /\ pc <= Len(unit.code) /\ b.op = "SEND"
      /\ pc' = pc + 1 /\ UNCHANGED <<scanVars, unit>>
      /\ machine' = c /\ values' = A!ValuesWith(b.store, x)
  BY DEF SendBytecode, AtBytecode, Bytecode, Answer
<1>2. /\ Located /\ ~KnownWrong /\ RunsRight(machine, values, pc) /\ Valued(values)
      /\ unit \in Units /\ pc \in 1..Len(unit.code)
  BY <1>1, Runs
<1>3. IsSequence(b.args) /\ \A o \in ToSet(b.args) \cup {b.receiver} : SourceOf(unit, o)
  <2>1. BytecodeOf(unit, b)
    BY <1>2, UnitFacts
  <2> QED
    BY <1>1, <2>1 DEF BytecodeOf
<1>4. Sends(b, values, machine)
        = [selector |-> b.selector, receiver |-> A!ValueOf(b.receiver),
           args |-> [i \in DOMAIN b.args |-> A!ValueOf(b.args[i])],
           class |-> A!ClassFor(b.receiver, A!ValueOf(b.receiver))]
  <2>1. \A i \in DOMAIN b.args :
          A!ValueOf(b.args[i]) = Meant(b.args[i], values, machine.memory, Len(machine.sent))
    BY <1>3, ValueMeant DEF ToSet
  <2>2. A!ValueOf(b.receiver) = Meant(b.receiver, values, machine.memory, Len(machine.sent))
    BY <1>3, ValueMeant
  <2> HIDE DEF b
  <2> QED
    BY <2>1, <2>2 DEF Sends
<1>5. values' = ValuesAfter(values, b.store, x)
  BY <1>1, AfterWith
<1>6. /\ RunsRight(c, ValuesAfter(values, b.store, x), pc + 1) /\ Valued(ValuesAfter(values, b.store, x))
      /\ c.memory = A!MemoryWith(<<>>, b.store, x)
      /\ c.sent = Append(machine.sent, Sends(b, values, machine))
      /\ c.result = machine.result /\ c.started = machine.started
  BY <1>1, <1>2, SendRuns
<1> HIDE DEF c, x
<1>7. GenInv'
  BY <1>1, <1>2, <1>5, <1>6, RunKeeps
<1>8. A!Next
  <2>1. A!SendStep
    BY <1>1, <1>4, <1>6 DEF A!SendStep, A!Bytecode, x, Answer
  <2>2. A!Step
    BY <1>1, <2>1 DEF A!Step, A!Running, Running
  <2> QED
    BY <2>2 DEF A!Next
<1> QED
  BY <1>7, <1>8 DEF Simulates

(* Once it has answered a unit stops.                                      *)
LEMMA StopKeeps ==
  ASSUME GenInv, machine.started, machine.result = Running, UNCHANGED <<scanVars, unit, values>>,
         pc' \in 1..(Len(unit.code) + 1), NEW op \in {"RETURN", "OUTER_RETURN"}, NEW x,
         AnswerRight(machine, machine', op, x)
  PROVE  GenInv'
<1>1. UsesKnown /\ Scanned /\ ~KnownWrong
  BY DEF GenInv
<1>2. UsesKnown' /\ Scanned' /\ ~KnownWrong'
  <2>1. Valued(values')
    BY <1>1 DEF UsesKnown
  <2> QED
    BY <1>1, <2>1, KnownNext
<1>3. /\ machine'.started /\ ~machine'.failed /\ Junk \notin machine'.shown
      /\ machine'.inReg \union machine'.onStack \subseteq DOMAIN reg
      /\ machine'.result # Running
  BY DEF AnswerRight, Running
<1>4. reg' = reg
  BY DEF scanVars
<1> QED
  BY <1>2, <1>3, <1>4 DEF GenInv

(* A return.                                                               *)
LEMMA ReturnKeeps ==
  ASSUME GenInv, ScanInv, ReturnBytecode
  PROVE  GenInv' /\ Simulates
<1> DEFINE b == unit.code[pc]
           x == Meant(b.value, values, machine.memory, Len(machine.sent))
           c == GenerateReturn(machine, b, pc - 1)
<1>1. /\ machine.started /\ machine.result = Running /\ pc <= Len(unit.code)
      /\ b.op \in {"RETURN", "OUTER_RETURN"}
      /\ pc' = pc + 1 /\ UNCHANGED <<scanVars, unit, values>> /\ machine' = c
  BY DEF ReturnBytecode, AtBytecode, Bytecode
<1>2. /\ Located /\ ~KnownWrong /\ RunsRight(machine, values, pc) /\ Valued(values)
      /\ unit \in Units /\ pc \in 1..Len(unit.code) /\ Len(unit.code) \in Nat
  BY <1>1, Runs
<1>3. SourceOf(unit, b.value)
  <2>1. BytecodeOf(unit, b)
    BY <1>2, UnitFacts
  <2> QED
    BY <1>1, <2>1 DEF BytecodeOf
<1>4. A!ValueOf(b.value) = x
  BY <1>3, ValueMeant
<1>5. Holds(machine, values, LiveAt(pc - 1), Stale(pc))
  BY <1>1, <1>2 DEF RunsRight, LiveFor
<1>6. AnswerRight(machine, c, b.op, x)
  BY <1>1, <1>2, <1>5, ReturnHolds
<1> HIDE DEF c, x
<1>7. GenInv'
  <2>1. pc' \in 1..(Len(unit.code) + 1)
    BY <1>1, <1>2
  <2> QED
    BY <1>1, <1>6, <2>1, StopKeeps
<1>8. A!Next
  <2>1. A!ReturnStep
    BY <1>1, <1>4, <1>6 DEF A!ReturnStep, A!AtReturn, A!Bytecode, AnswerRight, ContextOut
  <2>2. A!Step
    BY <1>1, <2>1 DEF A!Step, A!Running, Running
  <2> QED
    BY <2>2 DEF A!Next
<1> QED
  BY <1>7, <1>8 DEF Simulates

(* The end of code without one.                                            *)
LEMMA EndKeeps ==
  ASSUME GenInv, ScanInv, EndOfCode
  PROVE  GenInv' /\ Simulates
<1>1. /\ machine.started /\ machine.result = Running /\ pc = Len(unit.code) + 1
      /\ UNCHANGED <<scanVars, unit, pc, values>>
  BY DEF EndOfCode
<1>2. /\ Located /\ RunsRight(machine, values, pc) /\ Valued(values)
      /\ pc \in 1..(Len(unit.code) + 1) /\ Len(unit.code) \in Nat
  BY <1>1, Runs
<1>3. Holds(machine, values, LiveAtEnd, Stale(pc))
  <2>1. LiveFor(pc) = LiveAtEnd
    BY <1>1, <1>2 DEF LiveFor
  <2> QED
    BY <1>2, <2>1 DEF RunsRight
<1>4. AnswerRight(machine, machine', "RETURN", <<"arg", 1>>)
  BY <1>2, <1>3, EndHolds DEF EndOfCode
<1>5. GenInv'
  BY <1>1, <1>2, <1>4, StopKeeps
<1>6. A!End
  BY <1>1, <1>4 DEF A!End, AnswerRight, A!Running, Running, A!Self, ContextOut
<1> QED
  BY <1>5, <1>6 DEF Simulates, A!Next

(* Before the registers are given.                                         *)
LEMMA GenInvInit ==
  ASSUME Init
  PROVE  GenInv /\ A!Init
<1>1. /\ unit \in Units /\ order = OrderOf(AllUses(unit)) /\ pc = 1 /\ machine = Idle
      /\ interval = [v \in { AllUses(unit)[i].var : i \in DOMAIN AllUses(unit) } |->
                       Interval(AllUses(unit), v)]
      /\ values = A!VariablesOf(unit)
  BY DEF Init
<1>2. unit.argsSize \in Nat /\ unit.tempsSize \in Nat /\ Len(unit.code) \in Nat
  BY <1>1, UnitFacts
<1>3. Valued(values)
  <2>1. /\ DOMAIN values = 1..(unit.argsSize + 1 + unit.tempsSize)
        /\ \A i \in DOMAIN values : values[i] = IF i <= unit.argsSize + 1 THEN <<"arg", i>> ELSE Nil
    BY <1>1 DEF A!VariablesOf, A!Nil, Nil
  <2>2. \A i : <<"arg", i>> # Junk /\ Nil # Junk
    BY DEF Junk, Nil
  <2>3. 1 \in DOMAIN values /\ 1 <= unit.argsSize + 1
    BY <1>2, <2>1
  <2> QED
    BY <2>1, <2>2, <2>3 DEF Valued
<1>4. ~machine.started /\ machine.memory = <<>> /\ machine.sent = <<>> /\ machine.result = Running
  BY <1>1 DEF Idle
<1>5. GenInv
  BY <1>1, <1>2, <1>3, <1>4 DEF GenInv, UsesKnown
<1>6. A!Init
  BY <1>1, <1>4 DEF A!Init, A!Running, Running
<1> QED
  BY <1>5, <1>6

(* All the steps.                                                          *)
LEMMA GenInvNext ==
  ASSUME GenInv, ScanInv, [Next]_vars
  PROVE  GenInv' /\ Simulates
<1>1. CASE UNCHANGED vars
  <2>1. UNCHANGED <<scanVars, unit, pc, machine, values>>
    BY <1>1 DEF vars
  <2>2. UsesKnown' <=> UsesKnown
    BY <2>1 DEF UsesKnown, Valued, scanVars
  <2>3. (KnownWrong' <=> KnownWrong) /\ (Scanned' <=> Scanned) /\ reg' = reg
    BY <2>1, KnownNext DEF scanVars
  <2>4. RunsRight(machine, values, pc) => RunsRight(machine, values, pc)'
    <3>1. PICK m, vals, p : m = machine /\ vals = values /\ p = pc
      OBVIOUS
    <3> QED
      BY <2>1, <3>1, RunsNext
  <2>5. GenInv'
    BY <2>1, <2>2, <2>3, <2>4 DEF GenInv
  <2> QED
    BY <2>1, <2>5 DEF Simulates, A!activationVars
<1> QED
  BY <1>1, PlaceKeeps, BeginKeeps, CopyKeeps, SendKeeps, ReturnKeeps, EndKeeps DEF Next

(* The registers and slots flagged hold what the variables that are used   *)
(* again stand for, and a class found is that of the value unless copies   *)
(* from no variable have overwritten it (CodeGeneratorX64.c).              *)
THEOREM GenInvHolds == Spec => []GenInv
<1>1. Init => GenInv
  BY GenInvInit
<1>2. GenInv /\ ScanInv /\ [Next]_vars => GenInv'
  BY GenInvNext
<1> QED
  BY <1>1, <1>2, ScanInvHolds, PTL DEF Spec

(* Outside the units known to be wrong no assertion of the code generator  *)
(* fails, whatever the unit and the registers (CodeGeneratorX64.c).        *)
THEOREM TypeOKHolds == Spec => []TypeOK
<1>1. ScanInv /\ GenInv => TypeOK
  <2> SUFFICES ASSUME ScanInv, GenInv PROVE TypeOK
    OBVIOUS
  <2>1. DOMAIN order = 1..Len(order) /\ Len(order) \in Nat /\ next \in 0..Len(order)
    BY Members DEF ScanInv, Ordered
  <2>2. ToSet(active) \subseteq ToSet(order)
    <3>1. Placed \subseteq ToSet(order)
      BY <2>1 DEF Placed, ToSet
    <3> QED
      BY <3>1 DEF ScanInv
  <2> QED
    BY <2>1, <2>2 DEF GenInv, TypeOK
<1> QED
  BY <1>1, GenInvHolds, ScanInvHolds, PTL

(* A stack map shows the collector no slot that was not written since the  *)
(* last collection left it out (generateStackmap).                         *)
THEOREM StackmapsInitializedHolds == Spec => []StackmapsInitialized
<1>1. GenInv => StackmapsInitialized
  BY DEF GenInv, StackmapsInitialized
<1> QED
  BY <1>1, GenInvHolds, PTL

(* The code generated for a unit sends, stores and answers what its byte   *)
(* code means: each byte code run is the step of Activation, the rest are  *)
(* stutters (generateCode).                                                *)
THEOREM ImplementsByteCodeHolds == Spec => ImplementsByteCode
<1>1. Init => A!Init
  BY GenInvInit
<1>2. GenInv /\ ScanInv /\ [Next]_vars => [A!Next]_A!activationVars
  BY GenInvNext DEF Simulates
<1> QED
  BY <1>1, <1>2, GenInvHolds, ScanInvHolds, PTL DEF Spec, ImplementsByteCode, A!Spec

=============================================================================
