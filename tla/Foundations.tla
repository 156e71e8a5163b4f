----------------------------- MODULE Foundations -----------------------------
(***************************************************************************)
(* What the proofs about several components rest on: facts about the part  *)
(* of a graph that is reached; the least-number principle, which they use  *)
(* in place of an induction, from the well-foundedness of the inclusion of *)
(* finite sets; and that recursive definitions along the numbers define a  *)
(* function.                                                               *)
(***************************************************************************)
EXTENDS Integers, FiniteSetTheorems, WellFoundedInduction, Reachability, TLAPS

-----------------------------------------------------------------------------
(* Reachability.                                                           *)

(* Only nodes are reached.                                                 *)
LEMMA ReachInNode ==
  ASSUME NEW Node, NEW src, NEW succ
  PROVE  Reach(Node, src, succ) \subseteq Node
BY DEF Reach

(* The sources are reached.                                                *)
LEMMA ReachSources ==
  ASSUME NEW Node, NEW src, NEW succ, src \subseteq Node
  PROVE  src \subseteq Reach(Node, src, succ)
BY DEF Reach, ClosedSets

(* What a reached node points to is reached.                               *)
LEMMA ReachClosed ==
  ASSUME NEW Node, NEW src, NEW succ,
         \A x \in Node : succ[x] \subseteq Node
  PROVE  \A x \in Reach(Node, src, succ) : succ[x] \subseteq Reach(Node, src, succ)
<1> SUFFICES ASSUME NEW x \in Reach(Node, src, succ), NEW y \in succ[x]
             PROVE  y \in Reach(Node, src, succ)
  OBVIOUS
<1>1. x \in Node /\ y \in Node
  BY ReachInNode DEF Reach
<1>2. ASSUME NEW S \in ClosedSets(Node, src, succ)
      PROVE  y \in S
  <2>1. x \in S
    BY <1>2 DEF Reach
  <2> QED
    BY <2>1, <1>2 DEF ClosedSets, ClosedUnder
<1> QED
  BY <1>1, <1>2 DEF Reach

(* Any closed set that holds the sources holds everything reached.         *)
LEMMA ReachLeast ==
  ASSUME NEW Node, NEW src, NEW succ, NEW S,
         S \subseteq Node, src \subseteq S,
         \A x \in S : succ[x] \subseteq S
  PROVE  Reach(Node, src, succ) \subseteq S
<1>1. S = src \union (S \ src) /\ S \ src \in SUBSET (Node \ src)
  OBVIOUS
<1>2. S \in ClosedSets(Node, src, succ)
  BY <1>1 DEF ClosedSets, ClosedUnder
<1> QED
  BY <1>2 DEF Reach

(* One of the nodes D leads to all of them.                                *)
HasFirst(Node, succ, D) == \E a \in D : D \subseteq Reach(Node, {a}, succ)

(* Where no node has two successors, this is so of any nodes that c leads  *)
(* to.  (Whichever node none of them is, its successor leads to all of     *)
(* them if it does.)                                                       *)
LEMMA ReachHasFirst ==
  ASSUME NEW Node, NEW succ,
         \A x \in Node : succ[x] \subseteq Node,
         \A x \in Node : \A y, z \in succ[x] : y = z,
         NEW c \in Node, NEW D \in SUBSET Reach(Node, {c}, succ), D # {}
  PROVE  HasFirst(Node, succ, D)
<1> USE DEF HasFirst
<1> DEFINE R(x) == Reach(Node, {x}, succ)
           S == { x \in R(c) : D \subseteq R(x) }
<1> SUFFICES ASSUME \A a \in D : ~(D \subseteq R(a)) PROVE FALSE
  OBVIOUS
<1>1. ASSUME NEW x \in Node
      PROVE  /\ x \in R(x) /\ R(x) \subseteq Node
             /\ \A y \in R(x) : succ[y] \subseteq R(x)
  BY ReachSources, ReachInNode, ReachClosed
<1>2. c \in S /\ S \subseteq Node
  BY <1>1
<1>3. ASSUME NEW x \in S, NEW y \in succ[x] PROVE y \in S
  <2>1. x \in Node /\ x \notin D /\ D \subseteq R(x) /\ y \in R(c) /\ y \in Node
    BY <1>1, <1>3
  <2>2. R(x) \subseteq {x} \union R(y)
    <3> DEFINE T == {x} \union R(y)
    <3>1. T \subseteq Node /\ {x} \subseteq T /\ y \in T
      BY <1>1, <2>1
    <3>2. \A z \in T : succ[z] \subseteq T
      BY <1>1, <1>3, <2>1, <3>1
    <3> HIDE DEF T
    <3>3. Reach(Node, {x}, succ) \subseteq T
      BY <3>1, <3>2, ReachLeast
    <3> QED
      BY <3>3 DEF T
  <2> QED
    BY <2>1, <2>2
<1>4. ASSUME NEW x \in S, succ[x] = {} PROVE FALSE
  <2>1. x \in Node /\ x \notin D /\ D \subseteq R(x)
    BY <1>1, <1>2, <1>4
  <2>2. Reach(Node, {x}, succ) \subseteq {x}
    BY <1>4, <2>1, ReachLeast
  <2>3. PICK d \in D : TRUE
    OBVIOUS
  <2>4. d \in {x}
    BY <2>1, <2>2
  <2> QED
    BY <2>1, <2>4
<1>5. R(c) \subseteq S
  <2> HIDE DEF S
  <2> QED
    BY <1>2, <1>3, ReachLeast
<1> QED
  BY <1>1, <1>5

-----------------------------------------------------------------------------
(* Numbers.                                                                *)

(* A set of natural numbers that is not empty has a least member.          *)
LEMMA LeastNatural ==
  ASSUME NEW S \in SUBSET Nat, S # {}
  PROVE  \E n \in S : \A m \in S : n <= m
<1> DEFINE T == { 0..n : n \in S }
           R == StrictSubsetOrdering(Nat)
<1>1. IsWellFoundedOn(R, FiniteSubsetsOf(Nat))
  BY FS_StrictSubsetOrderingWellFounded
<1>2. T \subseteq FiniteSubsetsOf(Nat) /\ T # {}
  <2>1. ASSUME NEW n \in S PROVE 0..n \in FiniteSubsetsOf(Nat)
    <3>1. 0 \in Int /\ n \in Int /\ 0..n \subseteq Nat
      OBVIOUS
    <3>2. IsFiniteSet(0..n)
      BY <3>1, FS_Interval
    <3> QED
      BY <3>1, <3>2 DEF FiniteSubsetsOf
  <2> QED
    BY <2>1
<1>3. PICK x \in T : \A y \in T : ~ (<<y, x>> \in R)
  <2> HIDE DEF R, T
  <2> QED
    BY <1>1, <1>2, WFMin
<1>4. PICK n \in S : x = 0..n
  OBVIOUS
<1>5. ASSUME NEW m \in S, m < n PROVE FALSE
  <2>1. 0..m \in T /\ 0..m \subseteq Nat /\ 0..n \subseteq Nat
    OBVIOUS
  <2>2. 0..m \subseteq 0..n /\ n \in 0..n /\ n \notin 0..m
    BY <1>5
  <2>3. <<0..m, 0..n>> \in R
    BY <2>1, <2>2 DEF StrictSubsetOrdering
  <2> QED
    BY <1>3, <1>4, <2>1, <2>3
<1>6. \A m \in S : n <= m
  BY <1>5
<1> QED
  BY <1>6

(* A number is told by its quotient and its remainder.                     *)
LEMMA Remainder ==
  ASSUME NEW n \in Nat \ {0}, NEW q \in Nat, NEW r \in 0..(n - 1)
  PROVE  (n * q + r) % n = r
OBVIOUS

(* n places in a row, counted round the end, are all the places there are. *)
LEMMA AllRemainders ==
  ASSUME NEW n \in Nat \ {0}, NEW h \in Nat, NEW j \in 0..(n - 1)
  PROVE  \E m \in 0..(n - 1) : (h + m) % n = j
<1> DEFINE r == h % n
           q == h \div n
<1>1. h = n * q + r /\ q \in Nat /\ r \in 0..(n - 1)
  OBVIOUS
<1> HIDE DEF q, r
<1>2. CASE r <= j
  <2>1. j - r \in 0..(n - 1) /\ h + (j - r) = n * q + j
    BY <1>1, <1>2
  <2> QED
    BY <1>1, <2>1, Remainder
<1>3. CASE r > j
  <2>1. n * (q + 1) = n * q + n
    BY <1>1
  <2>2. j + n - r \in 0..(n - 1) /\ h + (j + n - r) = n * (q + 1) + j
    BY <1>1, <1>3, <2>1
  <2>3. (n * (q + 1) + j) % n = j
    BY <1>1, Remainder
  <2> QED
    BY <2>2, <2>3
<1> QED
  BY <1>1, <1>2, <1>3

(* What holds of 0, and of a number with its predecessor, holds of each.   *)
LEMMA UpTo ==
  ASSUME NEW n \in Nat, NEW S, 0 \in S,
         \A i \in 1..n : i - 1 \in S => i \in S
  PROVE  0..n \subseteq S
<1> SUFFICES ASSUME NEW k \in 0..n, k \notin S PROVE FALSE
  OBVIOUS
<1> DEFINE Out == { i \in 0..n : i \notin S }
<1>1. Out \in SUBSET Nat /\ Out # {}
  OBVIOUS
<1>2. PICK i \in Out : \A m \in Out : i <= m
  <2> HIDE DEF Out
  <2> QED
    BY <1>1, LeastNatural
<1>3. i \in 1..n /\ i - 1 \in 0..n
  OBVIOUS
<1>4. i - 1 \notin Out
  <2>1. ~ (i <= i - 1)
    BY <1>3
  <2> QED
    BY <1>2, <2>1
<1> QED
  BY <1>3, <1>4

(* What holds of a number if it does of all larger ones, up to a last,     *)
(* holds of each.                                                          *)
LEMMA DownFrom ==
  ASSUME NEW lo \in Nat, NEW hi \in Nat, NEW S,
         \A j \in lo..hi : (\A k \in (j + 1)..hi : k \in S) => j \in S
  PROVE  lo..hi \subseteq S
<1> SUFFICES ASSUME NEW j \in lo..hi, j \notin S PROVE FALSE
  OBVIOUS
<1> DEFINE Out == { m \in Nat : hi - m \in lo..hi /\ hi - m \notin S }
<1>1. hi - j \in Out
  OBVIOUS
<1>2. PICK m \in Out : \A o \in Out : m <= o
  <2>1. Out \in SUBSET Nat /\ Out # {}
    BY <1>1
  <2> HIDE DEF Out
  <2> QED
    BY <2>1, LeastNatural
<1>3. ASSUME NEW k \in (hi - m + 1)..hi PROVE k \in S
  <2>1. hi - k \in Nat /\ hi - (hi - k) = k /\ k \in lo..hi /\ ~(m <= hi - k)
    BY <1>2
  <2>2. hi - k \notin Out
    BY <1>2, <2>1
  <2> QED
    BY <2>1, <2>2
<1> QED
  BY <1>2, <1>3

(* A sequence of steps from b determines a function.                       *)
Determined(n, X, b, step) ==
  \E f \in [0..n -> X] : f[0] = b /\ \A i \in 1..n : f[i] = step[i][f[i - 1]]

LEMMA Recursion ==
  ASSUME NEW n \in Nat, NEW X, NEW b \in X, NEW step \in [1..n -> [X -> X]]
  PROVE  Determined(n, X, b, step)
<1> DEFINE Goes(m) == \E f \in [0..m -> X] :
                        f[0] = b /\ \A i \in 1..m : f[i] = step[i][f[i - 1]]
           S == { m \in 0..n : Goes(m) }
<1>1. 0 \in S
  <2> DEFINE g == [i \in 0..0 |-> b]
  <2>1. g \in [0..0 -> X] /\ g[0] = b /\ \A i \in 1..0 : g[i] = step[i][g[i - 1]]
    OBVIOUS
  <2> HIDE DEF g
  <2>2. Goes(0)
    BY <2>1
  <2> HIDE DEF Goes
  <2> QED
    BY <2>2
<1>2. ASSUME NEW m \in 1..n, m - 1 \in S PROVE m \in S
  <2>1. PICK f \in [0..(m - 1) -> X] :
          f[0] = b /\ \A i \in 1..(m - 1) : f[i] = step[i][f[i - 1]]
    BY <1>2
  <2> DEFINE g == [i \in 0..m |-> IF i = m THEN step[m][f[m - 1]] ELSE f[i]]
  <2>2. f[m - 1] \in X /\ step[m] \in [X -> X]
    OBVIOUS
  <2>3. g \in [0..m -> X]
    <3>1. \A i \in 0..m : i = m \/ i \in 0..(m - 1)
      OBVIOUS
    <3> QED
      BY <2>2, <3>1
  <2>4. g[0] = b
    BY <2>1
  <2>5. ASSUME NEW i \in 1..m PROVE g[i] = step[i][g[i - 1]]
    <3>1. g[i - 1] = f[i - 1]
      OBVIOUS
    <3>2. CASE i = m
      BY <3>1, <3>2
    <3>3. CASE i # m
      <4>1. i \in 1..(m - 1) /\ g[i] = f[i]
        BY <3>3
      <4> QED
        BY <2>1, <3>1, <4>1
    <3> QED
      BY <3>2, <3>3
  <2> HIDE DEF g
  <2>6. Goes(m)
    BY <2>3, <2>4, <2>5
  <2> HIDE DEF Goes
  <2> QED
    BY <2>6
<1>3. n \in S
  <2> HIDE DEF S
  <2>1. 0..n \subseteq S
    BY <1>1, <1>2, UpTo
  <2> QED
    BY <2>1
<1> QED
  BY <1>3 DEF Determined

(* The same where each step is known of some values only, those the steps  *)
(* before it may have given.                                               *)
DeterminedAlong(n, In, b, step) ==
  \E f : /\ DOMAIN f = 0..n /\ f = [i \in 0..n |-> f[i]] /\ f[0] = b
         /\ \A i \in 1..n : f[i - 1] \in In[i - 1] /\ f[i] = step[i][f[i - 1]]

LEMMA RecursionAlong ==
  ASSUME NEW n \in Nat, NEW In, NEW b \in In[0], NEW step,
         \A i \in 1..n : step[i] \in [In[i - 1] -> In[i]]
  PROVE  DeterminedAlong(n, In, b, step)
<1> DEFINE X == UNION { In[i] : i \in 0..n }
           whole == [i \in 1..n |-> [x \in X |-> IF x \in In[i - 1] THEN step[i][x] ELSE x]]
<1>1. \A i \in 0..n : In[i] \subseteq X
  OBVIOUS
<1>2. b \in X
  BY <1>1
<1>3. ASSUME NEW i \in 1..n, NEW x \in In[i - 1]
      PROVE  x \in X /\ step[i][x] \in In[i] /\ step[i][x] \in X /\ whole[i][x] = step[i][x]
  <2>1. i - 1 \in 0..n /\ i \in 0..n
    OBVIOUS
  <2>2. x \in X /\ step[i][x] \in In[i]
    BY <1>1, <2>1
  <2>3. step[i][x] \in X
    BY <1>1, <2>1, <2>2
  <2> HIDE DEF X
  <2> QED
    BY <2>2, <2>3
<1>4. whole \in [1..n -> [X -> X]]
  <2> SUFFICES ASSUME NEW i \in 1..n, NEW x \in X
               PROVE  (IF x \in In[i - 1] THEN step[i][x] ELSE x) \in X
    OBVIOUS
  <2> HIDE DEF X, whole
  <2> QED
    BY <1>3
<1> HIDE DEF X, whole
<1>5. PICK f \in [0..n -> X] : f[0] = b /\ \A i \in 1..n : f[i] = whole[i][f[i - 1]]
  <2>1. Determined(n, X, b, whole)
    BY <1>2, <1>4, Recursion
  <2> QED
    BY <2>1 DEF Determined
<1> DEFINE S == { i \in 0..n : f[i] \in In[i] }
<1>6. 0 \in S
  BY <1>5
<1>7. ASSUME NEW i \in 1..n, i - 1 \in S PROVE i \in S
  BY <1>3, <1>5, <1>7
<1>8. 0..n \subseteq S
  <2> HIDE DEF S
  <2> QED
    BY <1>6, <1>7, UpTo
<1>9. ASSUME NEW i \in 1..n PROVE f[i - 1] \in In[i - 1] /\ f[i] = step[i][f[i - 1]]
  <2>1. i - 1 \in 0..n
    OBVIOUS
  <2>2. f[i - 1] \in In[i - 1]
    BY <1>8, <2>1
  <2> QED
    BY <1>3, <1>5, <2>2
<1>10. DOMAIN f = 0..n /\ f = [i \in 0..n |-> f[i]]
  OBVIOUS
<1> QED
  BY <1>5, <1>9, <1>10 DEF DeterminedAlong

(* A definition in which the value at each number follows from those at    *)
(* larger ones, up to a last, has a solution.                              *)
DeterminedDown(lo, hi, X, step) ==
  \E f \in [lo..hi -> X] : \A j \in lo..hi : f[j] = step[j][[k \in (j + 1)..hi |-> f[k]]]

LEMMA RecursionDown ==
  ASSUME NEW lo \in Nat, NEW hi \in Nat, lo <= hi, NEW X, NEW step,
         \A j \in lo..hi : step[j] \in [[(j + 1)..hi -> X] -> X]
  PROVE  DeterminedDown(lo, hi, X, step)
<1> DEFINE n == hi - lo + 1
           In == [i \in 0..n |-> [(hi - i + 1)..hi -> X]]
           b == [k \in (hi + 1)..hi |-> k]
           next == [i \in 1..n |-> [g \in In[i - 1] |->
                      [k \in (hi - i + 1)..hi |->
                         IF k = hi - i + 1 THEN step[k][g] ELSE g[k]]]]
<1>1. n \in Nat /\ b \in In[0]
  <2>1. hi - 0 + 1 = hi + 1 /\ (hi + 1)..hi = {} /\ 0 \in 0..n
    OBVIOUS
  <2>2. In[0] = [(hi + 1)..hi -> X]
    BY <2>1
  <2> QED
    BY <2>1, <2>2
<1>2. ASSUME NEW i \in 1..n, NEW g \in In[i - 1]
      PROVE  /\ g \in [(hi - i + 2)..hi -> X]
             /\ next[i][g] = [k \in (hi - i + 1)..hi |->
                                IF k = hi - i + 1 THEN step[k][g] ELSE g[k]]
             /\ next[i][g] \in In[i]
  <2>1. i - 1 \in 0..n /\ i \in 0..n /\ hi - (i - 1) + 1 = hi - i + 2
        /\ hi - i + 1 \in lo..hi /\ (hi - i + 1) + 1 = hi - i + 2
        /\ \A k \in (hi - i + 1)..hi : k = hi - i + 1 \/ k \in (hi - i + 2)..hi
    OBVIOUS
  <2>2. g \in [(hi - i + 2)..hi -> X]
    BY <2>1
  <2>3. step[hi - i + 1][g] \in X
    BY <2>1, <2>2
  <2>4. next[i][g] = [k \in (hi - i + 1)..hi |->
                        IF k = hi - i + 1 THEN step[k][g] ELSE g[k]]
    OBVIOUS
  <2> HIDE DEF next
  <2>5. next[i][g] \in [(hi - i + 1)..hi -> X]
    BY <2>1, <2>2, <2>3, <2>4
  <2> QED
    BY <2>1, <2>2, <2>4, <2>5
<1>3. \A i \in 1..n : next[i] \in [In[i - 1] -> In[i]]
  <2> SUFFICES ASSUME NEW i \in 1..n PROVE next[i] \in [In[i - 1] -> In[i]]
    OBVIOUS
  <2>1. next[i] = [g \in In[i - 1] |-> next[i][g]]
    OBVIOUS
  <2> HIDE DEF next, In
  <2> QED
    BY <1>2, <2>1
<1> HIDE DEF next
<1>4. PICK F : /\ DOMAIN F = 0..n /\ F[0] = b
               /\ \A i \in 1..n : F[i - 1] \in In[i - 1] /\ F[i] = next[i][F[i - 1]]
  <2> HIDE DEF n, In, b
  <2>1. DeterminedAlong(n, In, b, next)
    BY <1>1, <1>3, RecursionAlong
  <2> QED
    BY <2>1 DEF DeterminedAlong
<1> DEFINE f == [j \in lo..hi |-> F[hi - j + 1][j]]
           S == { i \in 0..n : \A k \in (hi - i + 1)..hi : F[i][k] = f[k] }
<1>5. 0 \in S
  BY <1>1
<1>6. ASSUME NEW i \in 1..n, i - 1 \in S PROVE i \in S
  <2>1. F[i] = [k \in (hi - i + 1)..hi |->
                  IF k = hi - i + 1 THEN step[k][F[i - 1]] ELSE F[i - 1][k]]
    BY <1>2, <1>4
  <2>2. ASSUME NEW k \in (hi - i + 1)..hi PROVE F[i][k] = f[k]
    <3>1. CASE k = hi - i + 1
      <4>1. hi - k + 1 = i /\ k \in lo..hi
        BY <3>1
      <4> QED
        BY <4>1
    <3>2. CASE k # hi - i + 1
      <4>1. k \in (hi - (i - 1) + 1)..hi
        BY <3>2
      <4>2. F[i - 1][k] = f[k]
        BY <1>6, <4>1
      <4> HIDE DEF f
      <4> QED
        BY <2>1, <3>2, <4>2
    <3> QED
      BY <3>1, <3>2
  <2> HIDE DEF f
  <2> QED
    BY <2>2
<1>7. 0..n \subseteq S
  <2> HIDE DEF S, n
  <2> QED
    BY <1>1, <1>5, <1>6, UpTo
<1>8. ASSUME NEW j \in lo..hi
      PROVE  f[j] \in X /\ f[j] = step[j][[k \in (j + 1)..hi |-> f[k]]]
  <2> DEFINE i == hi - j + 1
  <2>1. i \in 1..n /\ i - 1 \in 0..n /\ hi - i + 1 = j /\ hi - (i - 1) + 1 = j + 1
        /\ hi - i + 2 = j + 1
    OBVIOUS
  <2>2. F[i - 1] \in [(j + 1)..hi -> X]
    BY <1>4, <2>1
  <2>3. F[i - 1] = [k \in (j + 1)..hi |-> f[k]]
    <3>1. i - 1 \in S
      BY <1>7, <2>1
    <3>2. \A k \in (j + 1)..hi : F[i - 1][k] = f[k]
      BY <2>1, <3>1
    <3> HIDE DEF f, i
    <3> QED
      BY <2>2, <3>2
  <2>4. F[i] = [k \in j..hi |-> IF k = j THEN step[k][F[i - 1]] ELSE F[i - 1][k]]
    <3> HIDE DEF i, f, S, n, In
    <3>1. F[i] = [k \in (hi - i + 1)..hi |->
                    IF k = hi - i + 1 THEN step[k][F[i - 1]] ELSE F[i - 1][k]]
      BY <1>2, <1>4, <2>1
    <3> QED
      BY <2>1, <3>1
  <2>5. f[j] = step[j][F[i - 1]]
    <3>1. f[j] = F[i][j]
      OBVIOUS
    <3>2. j \in j..hi
      OBVIOUS
    <3> HIDE DEF i, f
    <3> QED
      BY <2>4, <3>1, <3>2
  <2>6. step[j] \in [[(j + 1)..hi -> X] -> X]
    OBVIOUS
  <2> HIDE DEF f, i
  <2> QED
    BY <2>2, <2>3, <2>5, <2>6
<1> QED
  <2>1. f = [j \in lo..hi |-> f[j]]
    OBVIOUS
  <2> HIDE DEF f
  <2>2. f \in [lo..hi -> X]
    BY <1>8, <2>1
  <2> QED
    BY <1>8, <2>2 DEF DeterminedDown

=============================================================================
