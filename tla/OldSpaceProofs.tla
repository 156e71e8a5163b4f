---------------------------- MODULE OldSpaceProofs ----------------------------
(***************************************************************************)
(* Theorems about FreeList for every size of a page, every number of lists *)
(* and every sequence of requests, and about RememberedSet for every       *)
(* number of objects and every size of a block.                            *)
(***************************************************************************)
EXTENDS FreeList, RememberedSet, SequenceTheorems, Foundations

-----------------------------------------------------------------------------
(* The lists.                                                              *)

(* A chunk inside one of the first n pages.                                *)
Piece(n) ==
  { c \in [page : 1..n, at : Nat, size : Nat \ {0}] : c.at + c.size <= PageSize }

Lists(n) == [Index -> Seq(Piece(n))]

(* A bit says that its list has a chunk, and a list has chunks of its size.*)
Sound(l, m, n) ==
  /\ l \in Lists(n) /\ m \subseteq Index
  /\ \A i \in Index \ {ListSize} : i \in m <=> l[i] # << >>
  /\ ListSize \in m => l[ListSize] # << >>
  /\ \A i \in Index : \A k \in 1..Len(l[i]) : IndexForSize(l[i][k].size) = i

LEMMA IndexType ==
  /\ ListSize \in Index /\ ListSize \in Nat \ {0}
  /\ \A n \in Nat : IndexForSize(n) \in Index
BY FreeListAssumption DEF Index, IndexForSize

LEMMA PieceFacts ==
  ASSUME NEW n \in Nat, NEW c \in Piece(n)
  PROVE  /\ c.page \in 1..n /\ c.at \in Nat /\ c.size \in Nat \ {0}
         /\ c.at + c.size <= PageSize
         /\ c \in [page : 1..n, at : Nat, size : Nat \ {0}]
BY DEF Piece

(* What freeListAddFreeSpace does to the lists.                            *)
LEMMA PushedFacts ==
  ASSUME NEW n \in Nat, NEW l \in Lists(n), NEW c \in Piece(n)
  PROVE  LET new == Pushed(l, c)
             j   == IndexForSize(c.size)
         IN  /\ new \in Lists(n) /\ j \in Index
             /\ \A i \in Index : i # j => new[i] = l[i]
             /\ Len(new[j]) = Len(l[j]) + 1 /\ new[j][1] = c /\ new[j] # << >>
             /\ \A k \in 1..Len(l[j]) : new[j][k + 1] = l[j][k]
<1> DEFINE j == IndexForSize(c.size)
           new == Pushed(l, c)
<1>1. j \in Index
  BY PieceFacts, IndexType
<1>2. new = [l EXCEPT ![j] = <<c>> \o l[j]]
  BY DEF Pushed
<1>3. l[j] \in Seq(Piece(n)) /\ <<c>> \in Seq(Piece(n)) /\ Len(<<c>>) = 1 /\ <<c>>[1] = c
  BY <1>1 DEF Lists
<1> HIDE DEF j, new
<1>4. /\ <<c>> \o l[j] \in Seq(Piece(n)) /\ Len(<<c>> \o l[j]) = 1 + Len(l[j])
      /\ \A k \in 1..(1 + Len(l[j])) :
           (<<c>> \o l[j])[k] = IF k <= 1 THEN <<c>>[k] ELSE l[j][k - 1]
  <2> DEFINE one == <<c>>
  <2> HIDE DEF one
  <2>1. one \in Seq(Piece(n)) /\ Len(one) = 1
    BY <1>3 DEF one
  <2>2. /\ one \o l[j] \in Seq(Piece(n)) /\ Len(one \o l[j]) = Len(one) + Len(l[j])
        /\ \A k \in 1..(Len(one) + Len(l[j])) :
             (one \o l[j])[k] = IF k <= Len(one) THEN one[k] ELSE l[j][k - Len(one)]
    BY <1>3, <2>1, ConcatProperties
  <2> QED
    BY <2>1, <2>2 DEF one
<1>5. Len(l[j]) \in Nat
  BY <1>3
<1>6. new[j] = <<c>> \o l[j] /\ new \in Lists(n) /\ \A i \in Index : i # j => new[i] = l[i]
  BY <1>1, <1>2, <1>4 DEF Lists
<1>7. new[j][1] = c
  BY <1>3, <1>4, <1>5, <1>6
<1>8. \A k \in 1..Len(l[j]) : new[j][k + 1] = l[j][k]
  BY <1>4, <1>5, <1>6
<1>9. new[j] # << >> /\ Len(new[j]) = Len(l[j]) + 1
  BY <1>4, <1>5, <1>6, EmptySeq
<1> QED
  BY <1>1, <1>6, <1>7, <1>8, <1>9 DEF j, new

(* What popFreeSpace does to the lists.                                    *)
LEMMA PoppedFacts ==
  ASSUME NEW n \in Nat, NEW l \in Lists(n), NEW j \in Index, l[j] # << >>
  PROVE  LET new == Popped(l, j)
         IN  /\ new \in Lists(n)
             /\ \A i \in Index : i # j => new[i] = l[i]
             /\ Len(l[j]) \in Nat \ {0} /\ Len(new[j]) = Len(l[j]) - 1
             /\ Head(l[j]) = l[j][1] /\ l[j][1] \in Piece(n)
             /\ \A k \in 1..(Len(l[j]) - 1) : new[j][k] = l[j][k + 1]
<1>1. l[j] \in Seq(Piece(n))
  BY DEF Lists
<1>2. /\ Head(l[j]) \in Piece(n) /\ Tail(l[j]) \in Seq(Piece(n)) /\ Len(Tail(l[j])) = Len(l[j]) - 1
      /\ \A i \in 1..Len(Tail(l[j])) : Tail(l[j])[i] = l[j][i + 1]
  BY <1>1, HeadTailProperties
<1>3. Len(l[j]) \in Nat \ {0} /\ Head(l[j]) = l[j][1]
  BY <1>1, EmptySeq
<1>4. Popped(l, j) = [l EXCEPT ![j] = Tail(l[j])]
  BY DEF Popped
<1>5. /\ Popped(l, j) \in Lists(n) /\ Popped(l, j)[j] = Tail(l[j])
      /\ \A i \in Index : i # j => Popped(l, j)[i] = l[i]
  BY <1>2, <1>4 DEF Lists
<1> QED
  BY <1>2, <1>3, <1>5

LEMMA PushedSound ==
  ASSUME NEW n \in Nat, NEW l, NEW m, Sound(l, m, n), NEW c \in Piece(n)
  PROVE  Sound(Pushed(l, c), PushedMap(m, c), n)
<1> DEFINE j   == IndexForSize(c.size)
           new == Pushed(l, c)
<1>1. l \in Lists(n)
  BY DEF Sound
<1>2. /\ new \in Lists(n) /\ j \in Index
      /\ \A i \in Index : i # j => new[i] = l[i]
      /\ Len(new[j]) = Len(l[j]) + 1 /\ new[j][1] = c /\ new[j] # << >>
      /\ \A k \in 1..Len(l[j]) : new[j][k + 1] = l[j][k]
  BY <1>1, PushedFacts
<1>3. PushedMap(m, c) = m \union {j}
  BY DEF PushedMap
<1>4. Len(l[j]) \in Nat
  BY <1>1, <1>2 DEF Lists
<1> HIDE DEF j, new
<1>5. ASSUME NEW i \in Index, NEW k \in 1..Len(new[i]) PROVE IndexForSize(new[i][k].size) = i
  <2>1. CASE i # j
    BY <2>1, <1>2, <1>5 DEF Sound
  <2>2. CASE i = j /\ k = 1
    BY <2>2, <1>2 DEF j
  <2>3. CASE i = j /\ k # 1
    <3>1. k - 1 \in 1..Len(l[j]) /\ new[j][(k - 1) + 1] = l[j][k - 1] /\ (k - 1) + 1 = k
      BY <2>3, <1>2, <1>4
    <3> QED
      BY <2>3, <1>2, <3>1 DEF Sound
  <2> QED
    BY <2>1, <2>2, <2>3
<1>6. /\ \A i \in Index \ {ListSize} : i \in m \union {j} <=> new[i] # << >>
      /\ ListSize \in m \union {j} => new[ListSize] # << >>
  BY <1>2, IndexType DEF Sound
<1>7. m \union {j} \subseteq Index
  BY <1>2 DEF Sound
<1> QED
  BY <1>2, <1>3, <1>5, <1>6, <1>7 DEF Sound, new

LEMMA PoppedSound ==
  ASSUME NEW n \in Nat, NEW l, NEW m, Sound(l, m, n), NEW j \in Index, l[j] # << >>
  PROVE  Sound(Popped(l, j), PoppedMap(l, m, j), n)
<1> DEFINE new == Popped(l, j)
<1>1. l \in Lists(n)
  BY DEF Sound
<1>2. /\ new \in Lists(n)
      /\ \A i \in Index : i # j => new[i] = l[i]
      /\ Len(l[j]) \in Nat \ {0} /\ Len(new[j]) = Len(l[j]) - 1
      /\ \A k \in 1..(Len(l[j]) - 1) : new[j][k] = l[j][k + 1]
  BY <1>1, PoppedFacts
<1>3. PoppedMap(l, m, j) = IF Len(l[j]) = 1 THEN m \ {j} ELSE m
  BY DEF PoppedMap
<1> HIDE DEF new
<1>4. ASSUME NEW i \in Index, NEW k \in 1..Len(new[i]) PROVE IndexForSize(new[i][k].size) = i
  <2>1. CASE i # j
    BY <2>1, <1>2, <1>4 DEF Sound
  <2>2. CASE i = j
    <3>1. k + 1 \in 1..Len(l[j]) /\ new[j][k] = l[j][k + 1]
      BY <2>2, <1>2
    <3> QED
      BY <2>2, <3>1 DEF Sound
  <2> QED
    BY <2>1, <2>2
<1>5. new[j] = << >> <=> Len(l[j]) = 1
  <2>1. new[j] \in Seq(Piece(n))
    BY <1>2 DEF Lists
  <2>2. new[j] = << >> <=> Len(new[j]) = 0
    BY <2>1, EmptySeq
  <2> QED
    BY <1>2, <2>2
<1>6. /\ \A i \in Index \ {ListSize} : i \in PoppedMap(l, m, j) <=> new[i] # << >>
      /\ ListSize \in PoppedMap(l, m, j) => new[ListSize] # << >>
      /\ PoppedMap(l, m, j) \subseteq Index
  BY <1>2, <1>3, <1>5, IndexType DEF Sound
<1> QED
  BY <1>2, <1>4, <1>6 DEF Sound, new

-----------------------------------------------------------------------------
(* The search.                                                             *)

LEMMA LeastFacts ==
  ASSUME NEW S \in SUBSET Nat, S # {}
  PROVE  Least(S) \in S /\ \A j \in S : Least(S) <= j
BY LeastNatural DEF Least

(* freeMapNext answers an index whose bit is set, and gives up only when   *)
(* no later byte has one.                                                  *)
LEMMA FreeMapNextFacts ==
  ASSUME NEW m \in SUBSET Index, NEW i \in Nat
  PROVE  /\ FreeMapNext(m, i) \in m \union {-1}
         /\ FreeMapNext(m, i) = -1 =>
              \A j \in m : j # ListSize => ~(j \div ByteBits > i \div ByteBits)
<1> DEFINE here  == { j \in m : j \div ByteBits = i \div ByteBits /\ j % ByteBits >= i % ShiftBits }
           later == { j \in m : j \div ByteBits > i \div ByteBits }
<1>1. m \subseteq Nat
  BY DEF Index
<1>2. FreeMapNext(m, i) = IF here # {} THEN Least(here)
                          ELSE IF later \ {ListSize} # {} THEN Least(later) ELSE -1
  BY DEF FreeMapNext
<1>3. here \subseteq m /\ later \subseteq m /\ \A j \in m : j # ListSize =>
        (j \div ByteBits > i \div ByteBits => j \in later \ {ListSize})
  OBVIOUS
<1> HIDE DEF here, later
<1>4. CASE here # {}
  <2>1. Least(here) \in here
    BY <1>1, <1>3, <1>4, LeastFacts
  <2>2. FreeMapNext(m, i) = Least(here)
    BY <1>2, <1>4
  <2>3. Least(here) \in m /\ Least(here) \in Nat
    BY <2>1, <1>1, <1>3
  <2>4. FreeMapNext(m, i) \in m /\ FreeMapNext(m, i) # -1
    BY <2>2, <2>3
  <2> QED
    BY <2>4
<1>5. CASE here = {} /\ later \ {ListSize} # {}
  <2>1. Least(later) \in later
    BY <1>1, <1>3, <1>5, LeastFacts
  <2>2. FreeMapNext(m, i) = Least(later)
    BY <1>2, <1>5
  <2>3. Least(later) \in m /\ Least(later) \in Nat
    BY <2>1, <1>1, <1>3
  <2>4. FreeMapNext(m, i) \in m /\ FreeMapNext(m, i) # -1
    BY <2>2, <2>3
  <2> QED
    BY <2>4
<1>6. CASE here = {} /\ later \ {ListSize} = {}
  BY <1>2, <1>3, <1>6
<1> QED
  BY <1>4, <1>5, <1>6

(* The list that serves a request has a chunk.  A list of one size is tried *)
(* first, and no list serves the request only when none of the chunks that *)
(* the search looks at is large enough.                                    *)
LEMMA SourceFacts ==
  ASSUME NEW p \in Nat, NEW l, NEW m, Sound(l, m, p), NEW n \in Nat \ {0}
  PROVE  LET i == Source(l, m, n)
             x == IndexForSize(n)
         IN  /\ i \in Index \union {-1}
             /\ i # -1 => i \in Index /\ l[i] # << >>
             /\ i # -1 /\ i # ListSize => i \in m
             /\ x # ListSize /\ x \in m => i = x
             /\ i = -1 =>
                  /\ x + 1 < ListSize => FreeMapNext(m, x + 1) = -1
                  /\ \A k \in 1..Len(l[ListSize]) : ~(l[ListSize][k].size >= n)
<1> DEFINE x     == IndexForSize(n)
           next  == IF x + 1 < ListSize THEN FreeMapNext(m, x + 1) ELSE -1
           large == \E k \in DOMAIN l[ListSize] : l[ListSize][k].size >= n
<1>1. x \in Index /\ x \in Nat /\ -1 \notin Index /\ ListSize \in Index
  BY IndexType DEF Index
<1>2. Source(l, m, n) = IF x # ListSize /\ x \in m THEN x
                        ELSE IF next # -1 THEN next
                        ELSE IF large THEN ListSize ELSE -1
  BY DEF Source
<1>3. m \subseteq Index /\ \A i \in m : l[i] # << >>
  BY DEF Sound
<1>4. next \in m \union {-1}
  BY <1>1, <1>3, FreeMapNextFacts
<1>5. l[ListSize] \in Seq(Piece(p)) /\ DOMAIN l[ListSize] = 1..Len(l[ListSize])
  BY <1>1 DEF Sound, Lists
<1>6. large => l[ListSize] # << >>
  BY <1>5, EmptySeq
<1>7. next = -1 => (x + 1 < ListSize => FreeMapNext(m, x + 1) = -1)
  OBVIOUS
<1>8. ~large => \A k \in 1..Len(l[ListSize]) : ~(l[ListSize][k].size >= n)
  BY <1>5
<1> HIDE DEF x, next, large
<1> QED
  BY <1>1, <1>2, <1>3, <1>4, <1>6, <1>7, <1>8 DEF x

-----------------------------------------------------------------------------
(* Units.                                                                  *)

(* The places of the lists whose chunk covers unit u of page p.            *)
FreeAt(l, p, u) ==
  { x \in Index \X (Nat \ {0}) : x[2] <= Len(l[x[1]]) /\ Covers(l[x[1]][x[2]], p, u) }
UsedAt(U, p, u) == { c \in U : Covers(c, p, u) }

(* Unit u of page p belongs to one object or to one free chunk.            *)
OneOwner(l, U, p, u) ==
  \/ (\E c : UsedAt(U, p, u) = {c}) /\ FreeAt(l, p, u) = {}
  \/ UsedAt(U, p, u) = {} /\ (\E i \in Index, k \in Nat \ {0} : FreeAt(l, p, u) = {<<i, k>>})

Tiled(l, U, n) == \A p \in 1..n, u \in 0..(PageSize - 1) : OneOwner(l, U, p, u)

(* A chunk put on a list owns what it covers, and the other owners stay.   *)
LEMMA PushedOwners ==
  ASSUME NEW n \in Nat, NEW l \in Lists(n), NEW c \in Piece(n), NEW p, NEW u
  PROVE  /\ Covers(c, p, u) /\ FreeAt(l, p, u) = {} =>
              \E i \in Index, k \in Nat \ {0} : FreeAt(Pushed(l, c), p, u) = {<<i, k>>}
         /\ ~Covers(c, p, u) /\ FreeAt(l, p, u) = {} => FreeAt(Pushed(l, c), p, u) = {}
         /\ ~Covers(c, p, u) /\ (\E i \in Index, k \in Nat \ {0} : FreeAt(l, p, u) = {<<i, k>>}) =>
              \E i \in Index, k \in Nat \ {0} : FreeAt(Pushed(l, c), p, u) = {<<i, k>>}
<1> DEFINE j   == IndexForSize(c.size)
           new == Pushed(l, c)
           to(i, k) == <<i, IF i = j THEN k + 1 ELSE k>>
<1>1. /\ new \in Lists(n) /\ j \in Index
      /\ \A i \in Index : i # j => new[i] = l[i]
      /\ Len(new[j]) = Len(l[j]) + 1 /\ new[j][1] = c
      /\ \A k \in 1..Len(l[j]) : new[j][k + 1] = l[j][k]
  BY PushedFacts
<1>2. \A i \in Index : Len(l[i]) \in Nat
  BY DEF Lists
<1> HIDE DEF j, new
<1>3. ASSUME NEW i \in Index, NEW k \in Nat \ {0}
      PROVE  <<i, k>> \in FreeAt(l, p, u) <=> to(i, k) \in FreeAt(new, p, u)
  <2>1. CASE i = j
    BY <2>1, <1>1, <1>2 DEF FreeAt
  <2>2. CASE i # j
    BY <2>2, <1>1, <1>2 DEF FreeAt
  <2> QED
    BY <2>1, <2>2
<1>4. <<j, 1>> \in FreeAt(new, p, u) <=> Covers(c, p, u)
  BY <1>1, <1>2 DEF FreeAt
<1>5. ASSUME NEW x \in FreeAt(new, p, u)
      PROVE  x = <<j, 1>> \/ \E i \in Index, k \in Nat \ {0} : x = to(i, k)
  <2>1. PICK i \in Index, k \in Nat \ {0} : x = <<i, k>>
    BY <1>5 DEF FreeAt
  <2>2. CASE i # j
    BY <2>1, <2>2
  <2>3. CASE i = j /\ k = 1
    BY <2>1, <2>3
  <2>4. CASE i = j /\ k # 1
    <3>1. k - 1 \in Nat \ {0} /\ (k - 1) + 1 = k
      BY <2>4
    <3> QED
      BY <2>1, <2>4, <3>1
  <2> QED
    BY <2>2, <2>3, <2>4
<1>6. CASE FreeAt(l, p, u) = {}
  <2>1. FreeAt(new, p, u) \subseteq {<<j, 1>>}
    BY <1>3, <1>5, <1>6
  <2>2. ~Covers(c, p, u) => FreeAt(new, p, u) = {}
    BY <2>1, <1>4
  <2>3. Covers(c, p, u) => FreeAt(new, p, u) = {<<j, 1>>}
    BY <2>1, <1>4
  <2>4. 1 \in Nat \ {0} /\ \A i, k : FreeAt(l, p, u) # {<<i, k>>}
    BY <1>6
  <2> QED
    BY <2>2, <2>3, <2>4, <1>1 DEF new
<1>7. ASSUME ~Covers(c, p, u), NEW i \in Index, NEW k \in Nat \ {0}, FreeAt(l, p, u) = {<<i, k>>}
      PROVE  \E a \in Index, b \in Nat \ {0} : FreeAt(new, p, u) = {<<a, b>>}
  <2>1. to(i, k) \in FreeAt(new, p, u)
    BY <1>3, <1>7
  <2>2. ASSUME NEW x \in FreeAt(new, p, u) PROVE x = to(i, k)
    <3>1. PICK a \in Index, b \in Nat \ {0} : x = to(a, b)
      BY <1>4, <1>5, <1>7
    <3>2. <<a, b>> \in FreeAt(l, p, u)
      BY <3>1, <1>3
    <3> QED
      BY <3>1, <3>2, <1>7
  <2>3. FreeAt(new, p, u) = {to(i, k)}
    BY <2>1, <2>2
  <2>4. (IF i = j THEN k + 1 ELSE k) \in Nat \ {0}
    OBVIOUS
  <2> QED
    BY <2>3, <2>4
<1> QED
  BY <1>6, <1>7 DEF new

(* A chunk taken off a list owns nothing any more, and the others stay.    *)
LEMMA PoppedOwners ==
  ASSUME NEW n \in Nat, NEW l \in Lists(n), NEW j \in Index, l[j] # << >>, NEW p, NEW u
  PROVE  /\ Covers(Head(l[j]), p, u) /\ (\E i \in Index, k \in Nat \ {0} : FreeAt(l, p, u) = {<<i, k>>}) =>
              FreeAt(Popped(l, j), p, u) = {}
         /\ Covers(Head(l[j]), p, u) => FreeAt(l, p, u) # {}
         /\ ~Covers(Head(l[j]), p, u) /\ FreeAt(l, p, u) = {} => FreeAt(Popped(l, j), p, u) = {}
         /\ ~Covers(Head(l[j]), p, u) /\ (\E i \in Index, k \in Nat \ {0} : FreeAt(l, p, u) = {<<i, k>>}) =>
              \E i \in Index, k \in Nat \ {0} : FreeAt(Popped(l, j), p, u) = {<<i, k>>}
<1> DEFINE new == Popped(l, j)
           c   == Head(l[j])
           to(i, k) == <<i, IF i = j THEN k + 1 ELSE k>>
<1>1. /\ new \in Lists(n)
      /\ \A i \in Index : i # j => new[i] = l[i]
      /\ Len(l[j]) \in Nat \ {0} /\ Len(new[j]) = Len(l[j]) - 1
      /\ c = l[j][1]
      /\ \A k \in 1..(Len(l[j]) - 1) : new[j][k] = l[j][k + 1]
  BY PoppedFacts
<1>2. \A i \in Index : Len(l[i]) \in Nat
  BY DEF Lists
<1> HIDE DEF new, c
<1>3. ASSUME NEW i \in Index, NEW k \in Nat \ {0}
      PROVE  <<i, k>> \in FreeAt(new, p, u) <=> to(i, k) \in FreeAt(l, p, u)
  <2>1. CASE i = j
    BY <2>1, <1>1, <1>2 DEF FreeAt
  <2>2. CASE i # j
    BY <2>2, <1>1, <1>2 DEF FreeAt
  <2> QED
    BY <2>1, <2>2
<1>4. <<j, 1>> \in FreeAt(l, p, u) <=> Covers(c, p, u)
  BY <1>1, <1>2 DEF FreeAt
<1>5. ASSUME NEW x \in FreeAt(l, p, u)
      PROVE  x = <<j, 1>> \/ \E i \in Index, k \in Nat \ {0} : x = to(i, k)
  <2>1. PICK i \in Index, k \in Nat \ {0} : x = <<i, k>>
    BY <1>5 DEF FreeAt
  <2>2. CASE i # j
    BY <2>1, <2>2
  <2>3. CASE i = j /\ k = 1
    BY <2>1, <2>3
  <2>4. CASE i = j /\ k # 1
    <3>1. k - 1 \in Nat \ {0} /\ (k - 1) + 1 = k
      BY <2>4
    <3> QED
      BY <2>1, <2>4, <3>1
  <2> QED
    BY <2>2, <2>3, <2>4
<1>6. ASSUME NEW x \in FreeAt(new, p, u)
      PROVE  \E i \in Index, k \in Nat \ {0} : x = <<i, k>> /\ to(i, k) \in FreeAt(l, p, u) /\ to(i, k) # <<j, 1>>
  <2>1. PICK i \in Index, k \in Nat \ {0} : x = <<i, k>>
    BY <1>6 DEF FreeAt
  <2>2. to(i, k) # <<j, 1>>
    OBVIOUS
  <2> QED
    BY <2>1, <2>2, <1>3, <1>6
<1>7. ASSUME ~Covers(c, p, u), NEW i \in Index, NEW k \in Nat \ {0}, FreeAt(l, p, u) = {<<i, k>>}
      PROVE  \E a \in Index, b \in Nat \ {0} : FreeAt(new, p, u) = {<<a, b>>}
  <2>1. PICK a \in Index, b \in Nat \ {0} : <<i, k>> = to(a, b)
    BY <1>4, <1>5, <1>7
  <2>2. <<a, b>> \in FreeAt(new, p, u)
    BY <2>1, <1>3, <1>7
  <2>3. ASSUME NEW x \in FreeAt(new, p, u) PROVE x = <<a, b>>
    <3>1. PICK d \in Index, e \in Nat \ {0} : x = <<d, e>> /\ to(d, e) \in FreeAt(l, p, u)
      BY <1>6
    <3>2. to(d, e) = to(a, b)
      BY <3>1, <2>1, <1>7
    <3> QED
      BY <3>1, <3>2
  <2> QED
    BY <2>2, <2>3
<1>8. CASE FreeAt(l, p, u) = {}
  BY <1>4, <1>6, <1>8 DEF new, c
<1>9. ASSUME Covers(c, p, u), NEW i \in Index, NEW k \in Nat \ {0}, FreeAt(l, p, u) = {<<i, k>>}
      PROVE  FreeAt(new, p, u) = {}
  BY <1>4, <1>6, <1>9
<1> QED
  BY <1>4, <1>7, <1>8, <1>9 DEF new, c

-----------------------------------------------------------------------------
(* Serving a request.                                                      *)

(* splitFreeSpace cuts a chunk in two: what is taken and what is given     *)
(* back lie in it and share nothing.                                       *)
LEMMA SplitFacts ==
  ASSUME NEW p \in Nat, NEW c \in Piece(p), NEW n \in Nat \ {0}, n < c.size
  PROVE  LET taken == [c EXCEPT !.size = n]
             rest  == Rest(c, n)
         IN  /\ taken \in Piece(p) /\ rest \in Piece(p) /\ taken.size = n
             /\ \A q, u \in Nat : /\ Covers(taken, q, u) \/ Covers(rest, q, u) <=> Covers(c, q, u)
                                 /\ ~(Covers(taken, q, u) /\ Covers(rest, q, u))
<1> DEFINE taken == [c EXCEPT !.size = n]
           rest  == Rest(c, n)
<1>1. /\ c.page \in 1..p /\ c.at \in Nat /\ c.size \in Nat \ {0} /\ c.at + c.size <= PageSize
      /\ c = [page |-> c.page, at |-> c.at, size |-> c.size]
  BY DEF Piece
<1>2. taken = [page |-> c.page, at |-> c.at, size |-> n]
  BY <1>1
<1>3. rest = [page |-> c.page, at |-> c.at + n, size |-> c.size - n]
  <2>1. [c EXCEPT !.at = c.at + n] = [page |-> c.page, at |-> c.at + n, size |-> c.size]
    BY <1>1
  <2>2. [[page |-> c.page, at |-> c.at + n, size |-> c.size] EXCEPT !.size = c.size - n]
          = [page |-> c.page, at |-> c.at + n, size |-> c.size - n]
    OBVIOUS
  <2> QED
    BY <2>1, <2>2 DEF Rest
<1> HIDE DEF taken, rest
<1>4. /\ taken.page = c.page /\ taken.at = c.at /\ taken.size = n
      /\ rest.page = c.page /\ rest.at = c.at + n /\ rest.size = c.size - n
  BY <1>2, <1>3
<1>5. taken \in Piece(p) /\ rest \in Piece(p)
  <2>1. c.size - n \in Nat \ {0} /\ c.at + n \in Nat
    BY <1>1
  <2>2. c.at + n <= PageSize /\ (c.at + n) + (c.size - n) <= PageSize
    BY <1>1, FreeListAssumption
  <2> QED
    BY <1>1, <1>2, <1>3, <1>4, <2>1, <2>2 DEF Piece
<1>6. ASSUME NEW q \in Nat, NEW u \in Nat
      PROVE  /\ Covers(taken, q, u) \/ Covers(rest, q, u) <=> Covers(c, q, u)
             /\ ~(Covers(taken, q, u) /\ Covers(rest, q, u))
  BY <1>1, <1>4 DEF Covers
<1> QED
  BY <1>4, <1>5, <1>6 DEF taken, rest

(* The chunk that is handed out when the request for n units is served     *)
(* from index i of the lists l.                                            *)
Exact(n, i) == i = IndexForSize(n) /\ i # ListSize
Taken(l, n, i) ==
  [Head(l[i]) EXCEPT !.size = IF Exact(n, i) THEN Head(l[i]).size ELSE n]

LEMMA ServeSound ==
  ASSUME NEW p \in Nat, NEW l, NEW m, Sound(l, m, p), used \subseteq Piece(p), Tiled(l, used, p),
         NEW n \in Nat \ {0}, NEW i \in Index, l[i] # << >>, Serve(l, m, n, i)
  PROVE  \/ failed' = "split" /\ UNCHANGED <<free, map, used>>
         \/ /\ failed' = failed
            /\ Sound(free', map', p) /\ used' \subseteq Piece(p) /\ Tiled(free', used', p)
            /\ used' = used \union {Taken(l, n, i)}
            /\ IF Exact(n, i) THEN Taken(l, n, i) = l[i][1] ELSE Taken(l, n, i).size = n
<1> DEFINE c     == Head(l[i])
           taken == Taken(l, n, i)
<1>1. l \in Lists(p)
  BY DEF Sound
<1>2. c = l[i][1] /\ c \in Piece(p)
  BY <1>1, PoppedFacts
<1>3. /\ c.size \in Nat \ {0}
      /\ c = [page |-> c.page, at |-> c.at, size |-> c.size]
  BY <1>2 DEF Piece
<1>4. Sound(Popped(l, i), PoppedMap(l, m, i), p) /\ Popped(l, i) \in Lists(p)
  BY PoppedSound DEF Sound
<1>5. taken = [c EXCEPT !.size = IF Exact(n, i) THEN c.size ELSE n]
  BY DEF Taken
<1>6. \/ ~Exact(n, i) /\ c.size <= n /\ failed' = "split" /\ UNCHANGED <<free, map, used>>
      \/ /\ Exact(n, i) \/ n < c.size
         /\ failed' = failed
         /\ used' = used \union {taken}
         /\ free' = IF Exact(n, i) THEN Popped(l, i) ELSE Pushed(Popped(l, i), Rest(c, n))
         /\ map'  = IF Exact(n, i) THEN PoppedMap(l, m, i)
                    ELSE PushedMap(PoppedMap(l, m, i), Rest(c, n))
  BY <1>3 DEF Serve, Exact, Taken
<1>7. 1..p \subseteq Nat /\ 0..(PageSize - 1) \subseteq Nat
  BY FreeListAssumption
<1> HIDE DEF c, taken
<1>8. CASE Exact(n, i) /\ failed' = failed /\ used' = used \union {taken} /\ free' = Popped(l, i)
            /\ map' = PoppedMap(l, m, i)
  <2>1. taken = c
    BY <1>3, <1>5, <1>8
  <2>2. Tiled(free', used', p)
    <3> SUFFICES ASSUME NEW q \in 1..p, NEW u \in 0..(PageSize - 1)
                 PROVE  OneOwner(Popped(l, i), used \union {c}, q, u)
      BY <1>8, <2>1 DEF Tiled
    <3>1. OneOwner(l, used, q, u)
      BY DEF Tiled
    <3>2. CASE Covers(c, q, u)
      <4>1. UsedAt(used, q, u) = {} /\ FreeAt(Popped(l, i), q, u) = {}
        BY <1>1, <3>1, <3>2, PoppedOwners DEF OneOwner, c
      <4>2. UsedAt(used \union {c}, q, u) = {c}
        BY <4>1, <3>2 DEF UsedAt
      <4> QED
        BY <4>1, <4>2 DEF OneOwner
    <3>3. CASE ~Covers(c, q, u)
      <4>1. UsedAt(used \union {c}, q, u) = UsedAt(used, q, u)
        BY <3>3 DEF UsedAt
      <4> QED
        BY <1>1, <3>1, <3>3, <4>1, PoppedOwners DEF OneOwner, c
    <3> QED
      BY <3>2, <3>3
  <2> QED
    BY <1>2, <1>4, <1>8, <2>1, <2>2 DEF taken
<1>9. CASE ~Exact(n, i) /\ n < c.size /\ failed' = failed /\ used' = used \union {taken}
            /\ free' = Pushed(Popped(l, i), Rest(c, n))
            /\ map' = PushedMap(PoppedMap(l, m, i), Rest(c, n))
  <2>1. taken = [c EXCEPT !.size = n]
    BY <1>5, <1>9
  <2>2. /\ taken \in Piece(p) /\ Rest(c, n) \in Piece(p) /\ taken.size = n
        /\ \A q, u \in Nat : /\ Covers(taken, q, u) \/ Covers(Rest(c, n), q, u) <=> Covers(c, q, u)
                            /\ ~(Covers(taken, q, u) /\ Covers(Rest(c, n), q, u))
    BY <1>2, <1>9, <2>1, SplitFacts
  <2>3. Sound(free', map', p)
    BY <1>4, <1>9, <2>2, PushedSound
  <2>4. Tiled(free', used', p)
    <3> SUFFICES ASSUME NEW q \in 1..p, NEW u \in 0..(PageSize - 1)
                 PROVE  OneOwner(Pushed(Popped(l, i), Rest(c, n)), used \union {taken}, q, u)
      BY <1>9 DEF Tiled
    <3>1. OneOwner(l, used, q, u)
      BY DEF Tiled
    <3>2. /\ Covers(taken, q, u) \/ Covers(Rest(c, n), q, u) <=> Covers(c, q, u)
          /\ ~(Covers(taken, q, u) /\ Covers(Rest(c, n), q, u))
      BY <1>7, <2>2
    <3>3. CASE Covers(c, q, u)
      <4>1. UsedAt(used, q, u) = {} /\ FreeAt(Popped(l, i), q, u) = {}
        BY <1>1, <3>1, <3>3, PoppedOwners DEF OneOwner, c
      <4>2. CASE Covers(taken, q, u)
        <5>1. UsedAt(used \union {taken}, q, u) = {taken}
          BY <4>1, <4>2 DEF UsedAt
        <5>2. FreeAt(Pushed(Popped(l, i), Rest(c, n)), q, u) = {}
          BY <1>4, <2>2, <3>2, <4>1, <4>2, PushedOwners
        <5> QED
          BY <5>1, <5>2 DEF OneOwner
      <4>3. CASE ~Covers(taken, q, u)
        <5>1. UsedAt(used \union {taken}, q, u) = {}
          BY <4>1, <4>3 DEF UsedAt
        <5>2. \E j \in Index, k \in Nat \ {0} :
                FreeAt(Pushed(Popped(l, i), Rest(c, n)), q, u) = {<<j, k>>}
          BY <1>4, <2>2, <3>2, <3>3, <4>1, <4>3, PushedOwners
        <5> QED
          BY <5>1, <5>2 DEF OneOwner
      <4> QED
        BY <4>2, <4>3
    <3>4. CASE ~Covers(c, q, u)
      <4>1. UsedAt(used \union {taken}, q, u) = UsedAt(used, q, u)
        BY <3>2, <3>4 DEF UsedAt
      <4>2. OneOwner(Popped(l, i), used, q, u)
        BY <1>1, <3>1, <3>4, PoppedOwners DEF OneOwner, c
      <4>3. OneOwner(Pushed(Popped(l, i), Rest(c, n)), used, q, u)
        BY <1>4, <2>2, <3>2, <3>4, <4>2, PushedOwners DEF OneOwner
      <4> QED
        BY <4>1, <4>3 DEF OneOwner
    <3> QED
      BY <3>3, <3>4
  <2> QED
    BY <1>9, <2>2, <2>3, <2>4 DEF taken
<1> QED
  BY <1>6, <1>8, <1>9

-----------------------------------------------------------------------------
(* A new page, and a chunk that is given back.                             *)

LEMMA PieceGrows ==
  ASSUME NEW p \in Nat
  PROVE  Piece(p) \subseteq Piece(p + 1) /\ Lists(p) \subseteq Lists(p + 1)
<1>1. Piece(p) \subseteq Piece(p + 1)
  <2>1. 1..p \subseteq 1..(p + 1)
    OBVIOUS
  <2> QED
    BY <2>1 DEF Piece
<1>2. Seq(Piece(p)) \subseteq Seq(Piece(p + 1))
  BY <1>1
<1> HIDE DEF Piece
<1>3. Lists(p) \subseteq Lists(p + 1)
  BY <1>2 DEF Lists
<1> QED
  BY <1>1, <1>3

LEMMA GrowSound ==
  ASSUME NEW p \in Nat, NEW l, NEW m, Sound(l, m, p), used \subseteq Piece(p), Tiled(l, used, p)
  PROVE  LET new == WholePage(p + 1)
         IN  /\ Sound(Pushed(l, new), PushedMap(m, new), p + 1)
             /\ used \subseteq Piece(p + 1) /\ Tiled(Pushed(l, new), used, p + 1)
<1> DEFINE new == WholePage(p + 1)
<1>1. new \in Piece(p + 1) /\ new.page = p + 1 /\ new.at = 0 /\ new.size = PageSize
  BY FreeListAssumption DEF WholePage, Piece
<1>2. l \in Lists(p) /\ l \in Lists(p + 1) /\ used \subseteq Piece(p + 1)
  BY PieceGrows DEF Sound
<1>3. Sound(l, m, p + 1)
  BY <1>2 DEF Sound
<1>4. Sound(Pushed(l, new), PushedMap(m, new), p + 1)
  <2> HIDE DEF new
  <2> QED
    BY <1>1, <1>3, PushedSound
<1> HIDE DEF new
<1>5. ASSUME NEW q \in 1..(p + 1), NEW u \in 0..(PageSize - 1)
      PROVE  OneOwner(Pushed(l, new), used, q, u)
  <2>1. CASE q = p + 1
    <3>1. Covers(new, q, u)
      BY <1>1, <2>1, FreeListAssumption DEF Covers
    <3>2. UsedAt(used, q, u) = {}
      BY <2>1 DEF UsedAt, Covers, Piece
    <3>3. FreeAt(l, q, u) = {}
      <4>1. ASSUME NEW i \in Index, NEW k \in 1..Len(l[i]) PROVE l[i][k].page # q
        <5>1. l[i][k] \in Piece(p)
          BY <1>2 DEF Lists
        <5> QED
          BY <5>1, <2>1, PieceFacts
      <4>2. \A i \in Index : Len(l[i]) \in Nat
        BY <1>2 DEF Lists
      <4> QED
        BY <4>1, <4>2 DEF FreeAt, Covers
    <3> QED
      BY <1>1, <1>2, <3>1, <3>2, <3>3, PushedOwners DEF OneOwner
  <2>2. CASE q # p + 1
    <3>1. q \in 1..p /\ ~Covers(new, q, u)
      BY <1>1, <2>2 DEF Covers
    <3>2. OneOwner(l, used, q, u)
      BY <3>1 DEF Tiled
    <3>3. /\ FreeAt(l, q, u) = {} => FreeAt(Pushed(l, new), q, u) = {}
          /\ (\E i \in Index, k \in Nat \ {0} : FreeAt(l, q, u) = {<<i, k>>}) =>
               \E i \in Index, k \in Nat \ {0} : FreeAt(Pushed(l, new), q, u) = {<<i, k>>}
      <4>1. p + 1 \in Nat
        OBVIOUS
      <4> QED
        BY <1>1, <1>2, <3>1, <4>1, PushedOwners
    <3> QED
      BY <3>2, <3>3 DEF OneOwner
  <2> QED
    BY <2>1, <2>2
<1> QED
  BY <1>2, <1>4, <1>5 DEF Tiled, new

LEMMA FreeSound ==
  ASSUME NEW p \in Nat, Sound(free, map, p), used \subseteq Piece(p), Tiled(free, used, p),
         NEW c \in used
  PROVE  /\ Sound(Pushed(free, c), PushedMap(map, c), p)
         /\ Tiled(Pushed(free, c), used \ {c}, p)
<1>1. c \in Piece(p) /\ free \in Lists(p)
  BY DEF Sound
<1>2. ASSUME NEW q \in 1..p, NEW u \in 0..(PageSize - 1)
      PROVE  OneOwner(Pushed(free, c), used \ {c}, q, u)
  <2>1. OneOwner(free, used, q, u)
    BY DEF Tiled
  <2>2. CASE Covers(c, q, u)
    <3>1. c \in UsedAt(used, q, u)
      BY <2>2 DEF UsedAt
    <3>2. UsedAt(used, q, u) = {c} /\ FreeAt(free, q, u) = {}
      BY <2>1, <3>1 DEF OneOwner
    <3>3. UsedAt(used \ {c}, q, u) = {}
      BY <3>2 DEF UsedAt
    <3> QED
      BY <1>1, <2>2, <3>2, <3>3, PushedOwners DEF OneOwner
  <2>3. CASE ~Covers(c, q, u)
    <3>1. UsedAt(used \ {c}, q, u) = UsedAt(used, q, u)
      BY <2>3 DEF UsedAt
    <3> QED
      BY <1>1, <2>1, <2>3, <3>1, PushedOwners DEF OneOwner
  <2> QED
    BY <2>2, <2>3
<1> QED
  BY <1>1, <1>2, PushedSound DEF Tiled

-----------------------------------------------------------------------------
(* The invariant.                                                          *)

Inv ==
  /\ pages \in 1..MaxPages
  /\ failed \in {"no", "split", "page"}
  /\ Sound(free, map, pages)
  /\ used \subseteq Piece(pages)
  /\ failed # "split" => Tiled(free, used, pages)

LEMMA InitInv == Init => Inv
<1> SUFFICES ASSUME Init PROVE Inv
  OBVIOUS
<1> DEFINE c == WholePage(1)
<1>1. pages = 1 /\ used = {} /\ map = {} /\ failed = "no"
      /\ free = [i \in Index |-> IF i = ListSize THEN <<c>> ELSE << >>]
  BY DEF Init
<1>2. c \in Piece(1) /\ c.page = 1 /\ c.at = 0 /\ c.size = PageSize /\ IndexForSize(c.size) = ListSize
  BY FreeListAssumption DEF WholePage, Piece, IndexForSize
<1> HIDE DEF c
<1>3. /\ free[ListSize] # << >>
       /\ \A i \in Index \ {ListSize} : free[i] = << >>
  BY <1>1, IndexType
<1>4. /\ Len(free[ListSize]) = 1 /\ free[ListSize][1] = c
      /\ \A i \in Index \ {ListSize} : Len(free[i]) = 0
  BY <1>1, IndexType
<1>5. free \in Lists(1)
  BY <1>1, <1>2 DEF Lists
<1>6. Sound(free, map, 1)
  <2>1. ASSUME NEW i \in Index, NEW k \in 1..Len(free[i]) PROVE i = ListSize /\ k = 1
    <3>1. CASE i # ListSize
      <4>1. Len(free[i]) = 0
        BY <1>4, <3>1
      <4> QED
        BY <4>1
    <3>2. CASE i = ListSize
      <4>1. Len(free[i]) = 1
        BY <1>4, <3>2
      <4>2. k \in 1..1
        BY <4>1
      <4> QED
        BY <3>2, <4>2
    <3> QED
      BY <3>1, <3>2
  <2>2. \A i \in Index : \A k \in 1..Len(free[i]) : IndexForSize(free[i][k].size) = i
    BY <1>2, <1>4, <2>1
  <2> QED
    BY <1>1, <1>3, <1>5, <2>2 DEF Sound
<1>7. ASSUME NEW q \in 1..1, NEW u \in 0..(PageSize - 1) PROVE OneOwner(free, used, q, u)
  <2>1. Covers(c, q, u)
    BY <1>2, FreeListAssumption DEF Covers
  <2>2. UsedAt(used, q, u) = {}
    BY <1>1 DEF UsedAt
  <2>3. FreeAt(free, q, u) = {<<ListSize, 1>>}
    <3>1. <<ListSize, 1>> \in FreeAt(free, q, u)
      BY <1>4, <2>1, IndexType DEF FreeAt
    <3>2. ASSUME NEW x \in FreeAt(free, q, u) PROVE x = <<ListSize, 1>>
      <4>1. x \in Index \X (Nat \ {0}) /\ x[2] <= Len(free[x[1]])
        BY DEF FreeAt
      <4>2. x[1] = ListSize
        BY <1>4, <4>1
      <4>3. Len(free[x[1]]) = 1
        BY <1>4, <4>2
      <4>4. x[2] = 1
        <5>1. x[2] \in Nat \ {0} /\ x[2] <= 1
          BY <4>1, <4>3
        <5> QED
          BY <5>1
      <4> QED
        BY <4>1, <4>2, <4>4
    <3> QED
      BY <3>1, <3>2
  <2> QED
    BY <2>2, <2>3, IndexType DEF OneOwner
<1> QED
  BY <1>1, <1>6, <1>7, FreeListAssumption DEF Inv, Tiled

(* What a step that serves a request hands out: a chunk of the size asked  *)
(* for, whether it is taken whole or cut off a larger one.                 *)
LEMMA ServesSize ==
  ASSUME NEW p \in Nat, NEW l, NEW m, Sound(l, m, p), NEW n \in Nat \ {0},
         NEW i \in Index, l[i] # << >>,
         IF Exact(n, i) THEN Taken(l, n, i) = l[i][1] ELSE Taken(l, n, i).size = n
  PROVE  Taken(l, n, i).size = n
<1>1. CASE Exact(n, i)
  <2>1. l[i] \in Seq(Piece(p)) /\ 1 \in 1..Len(l[i])
    BY EmptySeq DEF Sound, Lists
  <2>2. IndexForSize(l[i][1].size) = i /\ l[i][1] \in Piece(p)
    BY <2>1 DEF Sound
  <2>3. l[i][1].size \in Nat
    BY <2>2, PieceFacts
  <2> QED
    BY <1>1, <2>2, <2>3, FreeListAssumption DEF Exact, IndexForSize
<1>2. CASE ~Exact(n, i)
  BY <1>2
<1> QED
  BY <1>1, <1>2

LEMMA AllocateFreeStep ==
  ASSUME Inv, NEW n \in Request, AllocateFree(n)
  PROVE  /\ Inv'
         /\ \/ used' = used
            \/ /\ Source(free, map, n) \in Index
               /\ used' = used \union {Taken(free, n, Source(free, map, n))}
               /\ Taken(free, n, Source(free, map, n)).size = n
               /\ IndexForSize(n) # ListSize /\ IndexForSize(n) \in map
                    => Taken(free, n, Source(free, map, n)) = free[IndexForSize(n)][1]
<1> DEFINE i == Source(free, map, n)
<1>1. /\ failed = "no" /\ i # -1 /\ Serve(free, map, n, i) /\ pages' = pages
      /\ n \in Nat \ {0} /\ pages \in Nat /\ Sound(free, map, pages)
      /\ used \subseteq Piece(pages) /\ Tiled(free, used, pages)
  BY FreeListAssumption DEF AllocateFree, Inv
<1>2. /\ i \in Index /\ free[i] # << >>
      /\ IndexForSize(n) # ListSize /\ IndexForSize(n) \in map => i = IndexForSize(n)
  BY <1>1, SourceFacts
<1> HIDE DEF i
<1>3. \/ failed' = "split" /\ UNCHANGED <<free, map, used>>
      \/ /\ failed' = failed
         /\ Sound(free', map', pages) /\ used' \subseteq Piece(pages) /\ Tiled(free', used', pages)
         /\ used' = used \union {Taken(free, n, i)}
         /\ IF Exact(n, i) THEN Taken(free, n, i) = free[i][1] ELSE Taken(free, n, i).size = n
  BY <1>1, <1>2, ServeSound
<1>4. Inv'
  BY <1>1, <1>3 DEF Inv
<1>5. CASE used' = used
  BY <1>4, <1>5
<1>6. CASE used' = used \union {Taken(free, n, i)}
           /\ IF Exact(n, i) THEN Taken(free, n, i) = free[i][1] ELSE Taken(free, n, i).size = n
  <2>1. Taken(free, n, i).size = n
    BY <1>1, <1>2, <1>6, ServesSize
  <2> QED
    BY <1>2, <1>4, <1>6, <2>1 DEF Exact, i
<1> QED
  BY <1>3, <1>5, <1>6

LEMMA AllocateGrowsStep ==
  ASSUME Inv, NEW n \in Request, AllocateGrows(n)
  PROVE  /\ Inv' /\ pages' = pages + 1 /\ Source(free, map, n) = -1
         /\ used' = used \/ \E c : c.size = n /\ used' = used \union {c}
<1> DEFINE new == WholePage(pages + 1)
           l == Pushed(free, new)
           m == PushedMap(map, new)
           i == Source(l, m, n)
<1>1. /\ failed = "no" /\ pages' = pages + 1 /\ pages < MaxPages /\ Source(free, map, n) = -1
      /\ n \in Nat \ {0} /\ pages \in Nat /\ pages' \in Nat /\ Sound(free, map, pages)
      /\ used \subseteq Piece(pages) /\ Tiled(free, used, pages)
  BY FreeListAssumption DEF AllocateGrows, Inv
<1>2. IF i # -1 THEN Serve(l, m, n, i)
      ELSE failed' = "page" /\ free' = l /\ map' = m /\ used' = used
  BY DEF AllocateGrows
<1>3. Sound(l, m, pages + 1) /\ used \subseteq Piece(pages + 1) /\ Tiled(l, used, pages + 1)
  BY <1>1, GrowSound
<1>4. pages + 1 \in Nat /\ pages + 1 \in 1..MaxPages
  BY <1>1, FreeListAssumption
<1> HIDE DEF l, m, new
<1>5. CASE i = -1
  BY <1>1, <1>2, <1>3, <1>4, <1>5 DEF Inv
<1>6. CASE i # -1
  <2>1. i \in Index /\ l[i] # << >>
    BY <1>1, <1>3, <1>4, <1>6, SourceFacts
  <2> HIDE DEF i
  <2>2. \/ failed' = "split" /\ UNCHANGED <<free, map, used>>
        \/ /\ failed' = failed
           /\ Sound(free', map', pages + 1) /\ used' \subseteq Piece(pages + 1)
           /\ Tiled(free', used', pages + 1)
           /\ used' = used \union {Taken(l, n, i)}
           /\ IF Exact(n, i) THEN Taken(l, n, i) = l[i][1] ELSE Taken(l, n, i).size = n
    BY <1>1, <1>2, <1>3, <1>4, <1>6, <2>1, ServeSound
  <2>3. CASE failed' = "split" /\ UNCHANGED <<free, map, used>>
    <3>1. free \in Lists(pages + 1)
      BY <1>1, PieceGrows DEF Sound
    <3>2. Sound(free, map, pages + 1)
      BY <1>1, <3>1 DEF Sound
    <3> QED
      BY <1>1, <1>3, <1>4, <2>3, <3>2 DEF Inv
  <2>4. CASE /\ failed' = failed
             /\ Sound(free', map', pages + 1) /\ used' \subseteq Piece(pages + 1)
             /\ Tiled(free', used', pages + 1)
             /\ used' = used \union {Taken(l, n, i)}
             /\ IF Exact(n, i) THEN Taken(l, n, i) = l[i][1] ELSE Taken(l, n, i).size = n
    <3>1. Taken(l, n, i).size = n
      BY <1>1, <1>3, <1>4, <2>1, <2>4, ServesSize
    <3> QED
      BY <1>1, <1>4, <2>4, <3>1 DEF Inv
  <2> QED
    BY <2>2, <2>3, <2>4
<1> QED
  BY <1>5, <1>6

LEMMA FreeObjectStep ==
  ASSUME Inv, NEW c \in used, FreeObject(c)
  PROVE  Inv' /\ used' \subseteq used
<1>1. /\ failed = "no" /\ pages \in Nat /\ Sound(free, map, pages)
      /\ used \subseteq Piece(pages) /\ Tiled(free, used, pages)
      /\ used' = used \ {c} /\ free' = Pushed(free, c) /\ map' = PushedMap(map, c)
      /\ pages' = pages /\ failed' = failed
  BY FreeListAssumption DEF Inv, FreeObject
<1>2. Sound(free', map', pages) /\ Tiled(free', used', pages)
  BY <1>1, FreeSound
<1> QED
  BY <1>1, <1>2 DEF Inv

LEMMA InvHolds == Spec => []Inv
<1>1. Inv /\ [Next]_vars => Inv'
  <2> SUFFICES ASSUME Inv, [Next]_vars PROVE Inv'
    OBVIOUS
  <2>1. ASSUME NEW n \in Request, AllocateFree(n) PROVE Inv'
    BY <2>1, AllocateFreeStep
  <2>2. ASSUME NEW n \in Request, AllocateGrows(n) PROVE Inv'
    BY <2>2, AllocateGrowsStep
  <2>3. ASSUME NEW c \in used, FreeObject(c) PROVE Inv'
    BY <2>3, FreeObjectStep
  <2>4. CASE UNCHANGED vars
    BY <2>4 DEF Inv, vars
  <2> QED
    BY <2>1, <2>2, <2>3, <2>4 DEF Next
<1> QED
  BY InitInv, <1>1, PTL DEF Spec

-----------------------------------------------------------------------------
(* Theorems.                                                               *)

(* Every variable keeps its type: the chunks of the lists and the objects  *)
(* lie inside the pages there are.                                         *)
THEOREM TypeCorrect == Spec => []TypeOK
<1>1. Inv => TypeOK
  <2> SUFFICES ASSUME Inv PROVE TypeOK
    OBVIOUS
  <2>1. Piece(pages) \subseteq Chunk
    <3>1. 1..pages \subseteq 1..MaxPages
      BY FreeListAssumption DEF Inv
    <3>2. ASSUME NEW c \in Piece(pages) PROVE c.at \in 0..(PageSize - 1) /\ c.size \in 1..PageSize
      BY FreeListAssumption DEF Piece
    <3> QED
      BY <3>1, <3>2 DEF Piece, Chunk
  <2>2. Seq(Piece(pages)) \subseteq Seq(Chunk)
    <3> HIDE DEF Piece, Chunk
    <3> QED
      BY <2>1
  <2>3. free \in [Index -> Seq(Chunk)]
    BY <2>2 DEF Inv, Sound, Lists
  <2> QED
    BY <2>1, <2>3 DEF Inv, Sound, TypeOK
<1> QED
  BY InvHolds, <1>1, PTL

(* A bit of freeMap is set exactly when its list has a chunk: freeMapNext  *)
(* never sends freeListTryAllocate to an empty list.                       *)
THEOREM MapAgreesHolds == Spec => []MapAgrees
<1>1. Inv => MapAgrees
  BY DEF Inv, Sound, MapAgrees
<1> QED
  BY InvHolds, <1>1, PTL

(* A list holds chunks of its size only: the first chunk of a list that is *)
(* large enough serves a request without a look at its size.               *)
THEOREM ListsBySizeHolds == Spec => []ListsBySize
<1>1. Inv => ListsBySize
  <2> SUFFICES ASSUME Inv PROVE ListsBySize
    OBVIOUS
  <2>1. \A i \in Index : DOMAIN free[i] = 1..Len(free[i])
    BY DEF Inv, Sound, Lists
  <2> QED
    BY <2>1 DEF Inv, Sound, ListsBySize
<1> QED
  BY InvHolds, <1>1, PTL

(* Every unit of every page belongs to exactly one object or free chunk:   *)
(* however chunks are split, given back and reused, no two allocations     *)
(* overlap and no memory is lost.                                          *)
THEOREM PagesTiledHolds == Spec => []PagesTiled
<1>1. Inv => PagesTiled
  <2> SUFFICES ASSUME Inv, failed # "split", NEW p \in 1..pages, NEW u \in 0..(PageSize - 1)
               PROVE  Cardinality({ c \in used : Covers(c, p, u) }) +
                      Cardinality(UNION { { <<i, k>> : k \in { k \in DOMAIN free[i] : Covers(free[i][k], p, u) } }
                                          : i \in Index }) = 1
    BY DEF PagesTiled
  <2> DEFINE places == UNION { { <<i, k>> : k \in { k \in DOMAIN free[i] : Covers(free[i][k], p, u) } }
                               : i \in Index }
  <2>1. OneOwner(free, used, p, u)
    BY DEF Inv, Tiled
  <2>2. \A i \in Index : DOMAIN free[i] = 1..Len(free[i]) /\ Len(free[i]) \in Nat
    BY DEF Inv, Sound, Lists
  <2>3. places = FreeAt(free, p, u)
    <3>1. ASSUME NEW x \in places PROVE x \in FreeAt(free, p, u)
      <4>1. PICK i \in Index : x \in { <<i, k>> : k \in { k \in DOMAIN free[i] : Covers(free[i][k], p, u) } }
        OBVIOUS
      <4>2. PICK k \in DOMAIN free[i] : x = <<i, k>> /\ Covers(free[i][k], p, u)
        BY <4>1
      <4>3. k \in Nat \ {0} /\ k <= Len(free[i])
        BY <2>2
      <4> QED
        BY <4>2, <4>3 DEF FreeAt
    <3>2. ASSUME NEW x \in FreeAt(free, p, u) PROVE x \in places
      <4>1. PICK i \in Index, k \in Nat \ {0} : x = <<i, k>>
        BY DEF FreeAt
      <4>2. k <= Len(free[i]) /\ Covers(free[i][k], p, u)
        BY <4>1 DEF FreeAt
      <4>3. k \in DOMAIN free[i]
        BY <2>2, <4>2
      <4>4. x \in { <<i, y>> : y \in { y \in DOMAIN free[i] : Covers(free[i][y], p, u) } }
        BY <4>1, <4>2, <4>3
      <4> QED
        BY <4>4
    <3> QED
      BY <3>1, <3>2
  <2>4. { c \in used : Covers(c, p, u) } = UsedAt(used, p, u)
    BY DEF UsedAt
  <2>5. Cardinality({}) = 0 /\ \A x : Cardinality({x}) = 1
    BY FS_EmptySet, FS_Singleton
  <2> HIDE DEF places
  <2>6. Cardinality(UsedAt(used, p, u)) + Cardinality(FreeAt(free, p, u)) = 1
    <3> DEFINE a == UsedAt(used, p, u)
               b == FreeAt(free, p, u)
    <3>1. ASSUME NEW c, a = {c}, b = {} PROVE Cardinality(a) = 1 /\ Cardinality(b) = 0
      BY <2>5, <3>1, Zenon
    <3>2. ASSUME NEW i \in Index, NEW k \in Nat \ {0}, a = {}, b = {<<i, k>>}
          PROVE  Cardinality(a) = 0 /\ Cardinality(b) = 1
      BY <2>5, <3>2, Zenon
    <3> QED
      BY <2>1, <3>1, <3>2 DEF OneOwner
  <2> QED
    BY <2>3, <2>4, <2>6 DEF places
<1> QED
  BY InvHolds, <1>1, PTL

-----------------------------------------------------------------------------
(* The choices of freeListTryAllocate.                                     *)

LEMMA DivGrows ==
  ASSUME NEW a \in Nat, NEW b \in Nat, NEW B \in Nat \ {0}, a <= b
  PROVE  a \div B <= b \div B
<1> DEFINE x == a \div B
           y == b \div B
<1>1. x \in Nat /\ y \in Nat /\ B * x <= a /\ b < B * y + B
  OBVIOUS
<1> HIDE DEF x, y
<1>2. ASSUME ~(x <= y) PROVE FALSE
  <2>1. x >= y + 1
    BY <1>1, <1>2
  <2>2. B * x >= B * y + B
    BY <1>1, <2>1
  <2>3. B * x \in Nat /\ B * y \in Nat
    BY <1>1
  <2> QED
    BY <1>1, <2>2, <2>3
<1> QED
  BY <1>2 DEF x, y

(* A free chunk is on the list of its size.                                *)
LEMMA FreeChunkFacts ==
  ASSUME Inv, NEW d \in FreeChunks
  PROVE  /\ d.size \in Nat \ {0}
         /\ d.size < ListSize => d.size \in map /\ d.size \in Index
         /\ ~(d.size < ListSize) => \E k \in 1..Len(free[ListSize]) : d = free[ListSize][k]
<1>1. PICK i \in Index : d \in { free[i][k] : k \in DOMAIN free[i] }
  BY DEF FreeChunks
<1>2. free[i] \in Seq(Piece(pages)) /\ DOMAIN free[i] = 1..Len(free[i])
  BY DEF Inv, Sound, Lists
<1>3. PICK k \in 1..Len(free[i]) : d = free[i][k]
  BY <1>1, <1>2
<1>4. d \in Piece(pages) /\ IndexForSize(d.size) = i /\ free[i] # << >>
  BY <1>2, <1>3, EmptySeq DEF Inv, Sound
<1>5. d.size \in Nat \ {0}
  <2>1. pages \in Nat
    BY FreeListAssumption DEF Inv
  <2> QED
    BY <1>4, <2>1, PieceFacts
<1>6. CASE d.size < ListSize
  <2>1. i = d.size /\ i # ListSize
    BY <1>4, <1>5, <1>6, FreeListAssumption DEF IndexForSize
  <2> QED
    BY <1>4, <1>5, <1>6, <2>1 DEF Inv, Sound
<1>7. CASE ~(d.size < ListSize)
  <2>1. i = ListSize
    BY <1>4, <1>5, <1>7, FreeListAssumption DEF IndexForSize
  <2> QED
    BY <1>3, <1>5, <1>7, <2>1
<1> QED
  BY <1>6, <1>7, <1>5

(* What freeListTryAllocate overlooks when it gives up: chunks whose bit   *)
(* is in the byte of the next larger size, and no others.                  *)
LEMMA Overlooked ==
  ASSUME Inv, NEW n \in Request, Source(free, map, n) = -1, NEW d \in FreeChunks, d.size >= n
  PROVE  d.size < ListSize /\ d.size # n /\ d.size \div ByteBits = (n + 1) \div ByteBits
<1> DEFINE x == IndexForSize(n)
<1>1. n \in Nat \ {0} /\ pages \in Nat /\ Sound(free, map, pages)
  BY FreeListAssumption DEF Inv
<1>2. /\ ~(x # ListSize /\ x \in map)
      /\ x + 1 < ListSize => FreeMapNext(map, x + 1) = -1
      /\ \A k \in 1..Len(free[ListSize]) : ~(free[ListSize][k].size >= n)
  <2>1. -1 \notin Index
    BY DEF Index
  <2>2. x \in Nat /\ x \in Index
    BY <1>1, IndexType DEF Index
  <2> QED
    BY <1>1, <2>1, <2>2, SourceFacts
<1>3. d.size < ListSize
  BY <1>2, FreeChunkFacts
<1>4. d.size \in Nat \ {0} /\ d.size \in map
  BY <1>3, FreeChunkFacts
<1>5. x = n /\ n < ListSize /\ d.size # n
  BY <1>1, <1>2, <1>3, <1>4, FreeListAssumption DEF IndexForSize
<1> HIDE DEF x
<1>6. n + 1 <= d.size /\ n + 1 < ListSize /\ n + 1 \in Nat
  BY <1>1, <1>3, <1>4, <1>5, FreeListAssumption
<1>7. ~(d.size \div ByteBits > (n + 1) \div ByteBits)
  <2>1. map \in SUBSET Index /\ FreeMapNext(map, n + 1) = -1 /\ d.size # ListSize
    BY <1>1, <1>2, <1>3, <1>4, <1>5, <1>6, FreeListAssumption DEF Sound
  <2> QED
    BY <1>4, <1>6, <2>1, FreeMapNextFacts
<1>8. (n + 1) \div ByteBits <= d.size \div ByteBits
  BY <1>4, <1>6, DivGrows, FreeListAssumption
<1>9. (n + 1) \div ByteBits \in Nat /\ d.size \div ByteBits \in Nat
  BY <1>4, <1>6, FreeListAssumption
<1> QED
  BY <1>3, <1>5, <1>7, <1>8, <1>9

(* A page is mapped only for a request that no free chunk can hold, save   *)
(* for the chunks that freeMapNext overlooks because it masks the first    *)
(* byte with the whole index.                                              *)
THEOREM GrowsForNeedHolds == Spec => GrowsForNeed
<1> DEFINE A == \A c \in used' \ used : pages' > pages =>
                  \A d \in FreeChunks : d.size >= c.size =>
                    d.size < ListSize /\ d.size \div ByteBits = (c.size + 1) \div ByteBits
<1>1. Inv /\ [Next]_vars => [A]_vars
  <2> SUFFICES ASSUME Inv, Next, NEW c \in used' \ used, pages' > pages,
                      NEW d \in FreeChunks, d.size >= c.size
               PROVE  d.size < ListSize /\ d.size \div ByteBits = (c.size + 1) \div ByteBits
    OBVIOUS
  <2>1. ASSUME NEW n \in Request, AllocateGrows(n)
        PROVE  d.size < ListSize /\ d.size \div ByteBits = (c.size + 1) \div ByteBits
    <3>1. c.size = n /\ Source(free, map, n) = -1
      BY <2>1, AllocateGrowsStep
    <3> QED
      BY <3>1, Overlooked
  <2>2. pages \in Nat
    BY FreeListAssumption DEF Inv
  <2>3. ASSUME NEW n \in Request, AllocateFree(n) PROVE FALSE
    BY <2>2, <2>3 DEF AllocateFree
  <2>4. ASSUME NEW e \in used, FreeObject(e) PROVE FALSE
    BY <2>2, <2>4 DEF FreeObject
  <2> QED
    BY <2>1, <2>3, <2>4 DEF Next
<1>2. Spec => [][A]_vars
  <2> HIDE DEF A
  <2> QED
    BY InvHolds, <1>1, PTL DEF Spec
<1> QED
  BY <1>2 DEF GrowsForNeed

(* A chunk of exactly the size asked for is taken before any is split, and *)
(* before a page is mapped.                                                *)
THEOREM ExactFitFirstHolds == Spec => ExactFitFirst
<1> DEFINE A == \A c \in used' \ used : c.size < ListSize /\ (\E d \in FreeChunks : d.size = c.size)
                  => c \in FreeChunks
<1>1. Inv /\ [Next]_vars => [A]_vars
  <2> SUFFICES ASSUME Inv, Next, NEW c \in used' \ used, c.size < ListSize,
                      NEW d \in FreeChunks, d.size = c.size
               PROVE  c \in FreeChunks
    OBVIOUS
  <2>1. d.size \in Nat \ {0} /\ d.size \in map /\ d.size \in Index
    BY FreeChunkFacts
  <2>2. ASSUME NEW n \in Request, AllocateGrows(n) PROVE FALSE
    <3>1. c.size = n /\ Source(free, map, n) = -1
      BY <2>2, AllocateGrowsStep
    <3>2. d.size >= n
      BY <2>1, <3>1
    <3> QED
      BY <3>1, <3>2, Overlooked
  <2>3. ASSUME NEW n \in Request, AllocateFree(n) PROVE c \in FreeChunks
    <3>1. c = Taken(free, n, Source(free, map, n)) /\ c.size = n
      BY <2>3, AllocateFreeStep
    <3>2. IndexForSize(n) = n /\ n # ListSize /\ n \in map /\ n \in Index
      BY <2>1, <3>1, FreeListAssumption DEF IndexForSize
    <3>3. c = free[n][1]
      BY <2>3, <3>1, <3>2, AllocateFreeStep
    <3>4. free[n] \in Seq(Piece(pages)) /\ free[n] # << >>
      BY <3>2 DEF Inv, Sound, Lists
    <3>5. 1 \in DOMAIN free[n]
      BY <3>4, EmptySeq
    <3>6. c \in { free[n][k] : k \in DOMAIN free[n] }
      BY <3>3, <3>5
    <3> QED
      BY <3>2, <3>6 DEF FreeChunks
  <2>4. ASSUME NEW e \in used, FreeObject(e) PROVE FALSE
    BY <2>4, FreeObjectStep
  <2> QED
    BY <2>2, <2>3, <2>4 DEF Next
<1>2. Spec => [][A]_vars
  <2> HIDE DEF A
  <2> QED
    BY InvHolds, <1>1, PTL DEF Spec
<1> QED
  BY <1>2 DEF ExactFitFirst

-----------------------------------------------------------------------------
(* The remembered set: its chain of blocks.                                *)

Chain == Seq(Seq(Obj)) \ {<< >>}

(* What a chain is made of.                                                *)
LEMMA ChainFacts ==
  ASSUME NEW bs \in Chain
  PROVE  /\ Len(bs) \in Nat \ {0} /\ DOMAIN bs = 1..Len(bs)
         /\ \A b \in 1..Len(bs) : /\ bs[b] \in Seq(Obj)
                                  /\ Len(bs[b]) \in Nat /\ DOMAIN bs[b] = 1..Len(bs[b])
                                  /\ \A i \in 1..Len(bs[b]) : bs[b][i] \in Obj
BY DEF Chain

(* rememberedSetAdd puts the object behind all others.                     *)
LEMMA StoredFacts ==
  ASSUME NEW bs \in Chain, NEW o \in Obj
  PROVE  LET new == Stored(bs, o) IN
         /\ new \in Chain /\ Len(new) = Len(bs)
         /\ \A b \in 1..Len(bs) : b # Len(bs) => new[b] = bs[b]
         /\ new[Len(bs)] = Append(bs[Len(bs)], o)
<1> DEFINE e == Append(bs[Len(bs)], o)
<1>1. Len(bs) \in 1..Len(bs) /\ bs[Len(bs)] \in Seq(Obj) /\ bs \in Seq(Seq(Obj))
  BY ChainFacts DEF Chain
<1>2. e \in Seq(Obj)
  BY <1>1
<1>3. Stored(bs, o) = [bs EXCEPT ![Len(bs)] = e]
  BY DEF Stored
<1> HIDE DEF e
<1>4. /\ Stored(bs, o) \in Seq(Seq(Obj)) /\ Len(Stored(bs, o)) = Len(bs)
      /\ \A b \in 1..Len(bs) : Stored(bs, o)[b] = IF b = Len(bs) THEN e ELSE bs[b]
  BY <1>1, <1>2, <1>3, ExceptSeq
<1>5. Stored(bs, o) # << >>
  BY <1>1, <1>4, EmptySeq
<1> QED
  BY <1>1, <1>4, <1>5, ChainFacts DEF e, Chain

(* rememberedSetGrow puts an empty block behind the others.                *)
LEMMA GrownFacts ==
  ASSUME NEW bs \in Chain
  PROVE  LET new == Grown(bs) IN
         /\ new \in Chain /\ Len(new) = Len(bs) + 1
         /\ \A b \in 1..Len(bs) : new[b] = bs[b]
         /\ new[Len(bs) + 1] = << >>
<1>1. << >> \in Seq(Obj) /\ bs \in Seq(Seq(Obj))
  BY DEF Chain
<1> QED
  BY <1>1, AppendProperties DEF Grown, Chain

-----------------------------------------------------------------------------
(* Each object once.                                                       *)

(* No object is at two places of the chain.                                *)
Once(bs) ==
  \A b, c \in 1..Len(bs) : \A i \in 1..Len(bs[b]), j \in 1..Len(bs[c]) :
    bs[b][i] = bs[c][j] => b = c /\ i = j

(* Only the newest block may be empty.                                     *)
Filled(bs) == \A b \in 1..Len(bs) : b < Len(bs) => bs[b] # << >>

(* Inductive: what is in the chain has the tag.                            *)
ChainInv ==
  /\ blocks \in Chain
  /\ Once(blocks)
  /\ Filled(blocks)
  /\ InBlocks(blocks) \subseteq tagged
  /\ tagged \ InBlocks(blocks) \subseteq Finalizable
  /\ tagged \subseteq Obj
  /\ asserted \in BOOLEAN

LEMMA InBlocksMember ==
  ASSUME NEW bs \in Chain
  PROVE  \A o : o \in InBlocks(bs) <=>
                 \E b \in 1..Len(bs) : \E i \in 1..Len(bs[b]) : bs[b][i] = o
BY ChainFacts DEF InBlocks

LEMMA StoredOnce ==
  ASSUME NEW bs \in Chain, NEW o \in Obj, Once(bs), Filled(bs), o \notin InBlocks(bs)
  PROVE  LET new == Stored(bs, o) IN
         /\ Once(new) /\ Filled(new)
         /\ InBlocks(new) = InBlocks(bs) \union {o}
         /\ new[Len(new)] # << >>
<1> DEFINE new == Stored(bs, o)
           last == Len(bs)
<1>1. /\ new \in Chain /\ Len(new) = last
      /\ \A b \in 1..last : b # last => new[b] = bs[b]
      /\ new[last] = Append(bs[last], o)
  BY StoredFacts
<1>2. last \in 1..last /\ last \in Nat /\ bs[last] \in Seq(Obj) /\ Len(bs[last]) \in Nat
  BY ChainFacts
<1>3. /\ Len(new[last]) = Len(bs[last]) + 1
      /\ \A i \in 1..Len(bs[last]) : new[last][i] = bs[last][i]
      /\ new[last][Len(bs[last]) + 1] = o
      /\ new[last] # << >>
  BY <1>1, <1>2, AppendProperties
<1> HIDE DEF new
<1>4. \A b \in 1..last : \A i \in 1..Len(bs[b]) : i \in 1..Len(new[b]) /\ new[b][i] = bs[b][i]
  <2> SUFFICES ASSUME NEW b \in 1..last, NEW i \in 1..Len(bs[b])
               PROVE  i \in 1..Len(new[b]) /\ new[b][i] = bs[b][i]
    OBVIOUS
  <2>1. CASE b = last
    BY <2>1, <1>2, <1>3
  <2>2. CASE b # last
    BY <2>2, <1>1
  <2> QED
    BY <2>1, <2>2
<1>5. \A b \in 1..last : \A i \in 1..Len(new[b]) :
         i \in 1..Len(bs[b]) \/ (b = last /\ i = Len(bs[last]) + 1)
  BY <1>1, <1>2, <1>3
<1>6. \A b \in 1..last : \A i \in 1..Len(bs[b]) : bs[b][i] # o
  BY InBlocksMember
<1>7. Once(new)
  <2> SUFFICES ASSUME NEW b \in 1..last, NEW c \in 1..last,
                      NEW i \in 1..Len(new[b]), NEW j \in 1..Len(new[c]), new[b][i] = new[c][j]
               PROVE  b = c /\ i = j
    BY <1>1 DEF Once
  <2>1. CASE i \in 1..Len(bs[b]) /\ j \in 1..Len(bs[c])
    <3>1. bs[b][i] = bs[c][j]
      BY <2>1, <1>4
    <3> QED
      BY <2>1, <3>1 DEF Once
  <2>2. CASE i \in 1..Len(bs[b]) /\ ~(j \in 1..Len(bs[c]))
    <3>1. new[c][j] = o
      BY <2>2, <1>3, <1>5
    <3>2. new[b][i] # o
      <4>1. new[b][i] = bs[b][i]
        BY <2>2, <1>4
      <4> QED
        BY <2>2, <4>1, <1>6
    <3> QED
      BY <3>1, <3>2
  <2>3. CASE ~(i \in 1..Len(bs[b])) /\ j \in 1..Len(bs[c])
    <3>1. new[b][i] = o
      BY <2>3, <1>3, <1>5
    <3>2. new[c][j] # o
      BY <2>3, <1>4, <1>6
    <3> QED
      BY <3>1, <3>2
  <2>4. CASE ~(i \in 1..Len(bs[b])) /\ ~(j \in 1..Len(bs[c]))
    BY <2>4, <1>5
  <2> QED
    BY <2>1, <2>2, <2>3, <2>4
<1>8. Filled(new)
  BY <1>1 DEF Filled
<1>9. InBlocks(new) = InBlocks(bs) \union {o}
  <2>1. ASSUME NEW x \in InBlocks(new) PROVE x \in InBlocks(bs) \union {o}
    <3>1. PICK b \in 1..last : \E i \in 1..Len(new[b]) : new[b][i] = x
      BY <2>1, <1>1, InBlocksMember
    <3> QED
      BY <3>1, <1>3, <1>4, <1>5, InBlocksMember
  <2>2. ASSUME NEW x \in InBlocks(bs) PROVE x \in InBlocks(new)
    <3>1. PICK b \in 1..last : \E i \in 1..Len(bs[b]) : bs[b][i] = x
      BY <2>2, InBlocksMember
    <3> QED
      BY <3>1, <1>1, <1>4, InBlocksMember
  <2>3. o \in InBlocks(new)
    <3>1. Len(bs[last]) + 1 \in 1..Len(new[last])
      BY <1>2, <1>3
    <3> QED
      BY <3>1, <1>1, <1>2, <1>3, InBlocksMember
  <2> QED
    BY <2>1, <2>2, <2>3
<1> QED
  BY <1>1, <1>3, <1>7, <1>8, <1>9 DEF new

LEMMA GrownOnce ==
  ASSUME NEW bs \in Chain, Once(bs), Filled(bs), bs[Len(bs)] # << >>
  PROVE  LET new == Grown(bs) IN
         Once(new) /\ Filled(new) /\ InBlocks(new) = InBlocks(bs)
<1> DEFINE new == Grown(bs)
           last == Len(bs)
<1>1. /\ new \in Chain /\ Len(new) = last + 1 /\ last \in Nat \ {0}
      /\ \A b \in 1..last : new[b] = bs[b]
      /\ new[last + 1] = << >>
  BY GrownFacts, ChainFacts
<1> HIDE DEF new
<1>2. \A b \in 1..Len(new) : \A i \in 1..Len(new[b]) : b \in 1..last /\ new[b] = bs[b]
  <2>1. 1..Len(new[last + 1]) = {}
    BY <1>1, EmptySeq
  <2> QED
    BY <2>1, <1>1
<1>3. Once(new)
  BY <1>2 DEF Once
<1>4. Filled(new)
  BY <1>1 DEF Filled
<1>5. InBlocks(new) = InBlocks(bs)
  <2>1. ASSUME NEW x \in InBlocks(new) PROVE x \in InBlocks(bs)
    BY <1>1, <1>2, InBlocksMember
  <2>2. ASSUME NEW x \in InBlocks(bs) PROVE x \in InBlocks(new)
    <3>1. PICK b \in 1..last : \E i \in 1..Len(bs[b]) : bs[b][i] = x
      BY InBlocksMember
    <3>2. b \in 1..Len(new) /\ new[b] = bs[b]
      BY <1>1
    <3> QED
      BY <3>1, <3>2, <1>1, InBlocksMember
  <2> QED
    BY <2>1, <2>2
<1> QED
  BY <1>3, <1>4, <1>5 DEF new

(* What the two barriers do to the chain and the tags.                     *)
Adds(o) ==
  /\ o \notin tagged
  /\ blocks' \in {Stored(blocks, o), Grown(Stored(blocks, o))}
  /\ tagged' = tagged \union {o}
  /\ asserted' = asserted /\ scan' = scan

LEMMA AddKeepsChain ==
  ASSUME ChainInv, NEW o \in Obj, Adds(o)
  PROVE  ChainInv'
<1> DEFINE st == Stored(blocks, o)
<1>1. /\ st \in Chain /\ Once(st) /\ Filled(st)
      /\ InBlocks(st) = InBlocks(blocks) \union {o}
      /\ st[Len(st)] # << >>
  BY StoredFacts, StoredOnce DEF ChainInv, Adds
<1>2. /\ Grown(st) \in Chain /\ Once(Grown(st)) /\ Filled(Grown(st))
      /\ InBlocks(Grown(st)) = InBlocks(blocks) \union {o}
  <2> HIDE DEF st
  <2> QED
    BY <1>1, GrownFacts, GrownOnce
<1> QED
  BY <1>1, <1>2 DEF ChainInv, Adds

(* An addition goes through, or fails in the ASSERT and changes nothing.   *)
LEMMA Additions ==
  ASSUME ChainInv, NEW o \in Obj, Add(o) \/ StoreCheckAdds(o)
  PROVE  \/ Adds(o)
         \/ UNCHANGED <<blocks, tagged, scan>> /\ asserted' = TRUE
BY DEF Add, StoreCheckAdds, Adds, MayRemember

LEMMA FreshChain ==
  LET one == << << >> >> IN
  one \in Chain /\ Once(one) /\ Filled(one) /\ InBlocks(one) = {}
<1>1. << << >> >> \in Chain /\ Len(<< << >> >>) = 1 /\ << << >> >>[1] = << >>
  BY EmptySeq DEF Chain
<1>2. \A b \in 1..1 : 1..Len(<< << >> >>[b]) = {}
  BY <1>1, EmptySeq
<1> QED
  BY <1>1, <1>2, InBlocksMember DEF Once, Filled

LEMMA ChainStep == ChainInv /\ [SetNext]_setVars => ChainInv'
<1> SUFFICES ASSUME ChainInv, [SetNext]_setVars PROVE ChainInv'
  OBVIOUS
<1>1. ASSUME NEW o \in Obj, Add(o) \/ StoreCheckAdds(o) PROVE ChainInv'
  BY <1>1, Additions, AddKeepsChain DEF ChainInv
<1>2. CASE Reset
  BY <1>2, FreshChain DEF Reset, ChainInv
<1>3. CASE StartScan \/ ScanNext \/ EndScan
  BY <1>3 DEF StartScan, ScanNext, EndScan, ChainInv
<1>4. CASE UNCHANGED setVars
  BY <1>4 DEF setVars, ChainInv
<1> QED
  BY <1>1, <1>2, <1>3, <1>4 DEF SetNext

(* An object in the blocks is there once and has the tag, and only one     *)
(* with a finalizer has the tag without being there: whatever barrier      *)
(* added it, though native code adds blocks at will and though a mark and  *)
(* sweep leaves the tags of what it keeps.                                 *)
THEOREM EachOnceHolds == SetSpec => []EachOnce
<1>1. SetInit => ChainInv
  BY FreshChain DEF SetInit, ChainInv
<1>2. ChainInv => EachOnce
  <2> SUFFICES ASSUME ChainInv PROVE EachOnce
    OBVIOUS
  <2>1. DOMAIN blocks = 1..Len(blocks) /\ \A b \in 1..Len(blocks) : DOMAIN blocks[b] = 1..Len(blocks[b])
    BY ChainFacts DEF ChainInv
  <2>2. ASSUME NEW b \in DOMAIN blocks, NEW c \in DOMAIN blocks,
               NEW i \in DOMAIN blocks[b], NEW j \in DOMAIN blocks[c], blocks[b][i] = blocks[c][j]
        PROVE  b = c /\ i = j
    BY <2>1, <2>2 DEF ChainInv, Once
  <2> QED
    BY <2>2 DEF ChainInv, EachOnce
<1> QED
  BY <1>1, <1>2, ChainStep, PTL DEF SetSpec

-----------------------------------------------------------------------------
(* A scan.                                                                 *)

(* Whether iterator s has still to come to the place i of block b.         *)
IsAhead(s, b, i) ==
  /\ s.next # 0
  /\ \/ b < s.block
     \/ b = s.block /\ s.next <= i /\ i <= s.end

(* Inductive: what was in the set when the scan started has been seen or   *)
(* is ahead, and what is ahead has not been seen.  Additions during the    *)
(* scan are behind the iterator, in the newest block past its end.         *)
ScanInv ==
  Scanning =>
    /\ scan \in Scan
    /\ scan.block \in 1..Len(blocks)
    /\ scan.next <= scan.end /\ scan.end <= Len(blocks[scan.block])
    /\ \A o \in scan.start :
         \/ \E i \in 1..Len(scan.seen) : scan.seen[i] = o
         \/ \E b \in 1..Len(blocks) : \E i \in 1..Len(blocks[b]) :
              IsAhead(scan, b, i) /\ blocks[b][i] = o
    /\ \A i, j \in 1..Len(scan.seen) : i # j => scan.seen[i] # scan.seen[j]
    /\ \A k \in 1..Len(scan.seen) : \A b \in 1..Len(blocks) : \A i \in 1..Len(blocks[b]) :
         IsAhead(scan, b, i) => scan.seen[k] # blocks[b][i]

(* rememberedSetAdd changes no place that is in use.                       *)
LEMMA AddKeepsPlaces ==
  ASSUME blocks \in Chain, NEW o \in Obj, Adds(o)
  PROVE  /\ Len(blocks') >= Len(blocks) /\ Len(blocks') \in Nat
         /\ \A b \in 1..Len(blocks) :
              /\ Len(blocks'[b]) \in Nat /\ Len(blocks'[b]) >= Len(blocks[b])
              /\ \A i \in 1..Len(blocks[b]) : blocks'[b][i] = blocks[b][i]
         /\ \A b \in 1..Len(blocks) : b # Len(blocks) => blocks'[b] = blocks[b]
<1> DEFINE st == Stored(blocks, o)
           last == Len(blocks)
<1>1. /\ st \in Chain /\ Len(st) = last /\ last \in Nat \ {0}
      /\ \A b \in 1..last : b # last => st[b] = blocks[b]
      /\ st[last] = Append(blocks[last], o)
      /\ \A b \in 1..last : blocks[b] \in Seq(Obj) /\ Len(blocks[b]) \in Nat
  BY StoredFacts, ChainFacts
<1>2. /\ Len(st[last]) = Len(blocks[last]) + 1
      /\ \A i \in 1..Len(blocks[last]) : st[last][i] = blocks[last][i]
  BY <1>1, AppendProperties
<1> HIDE DEF st
<1>3. \A b \in 1..last : /\ Len(st[b]) \in Nat /\ Len(st[b]) >= Len(blocks[b])
                         /\ \A i \in 1..Len(blocks[b]) : st[b][i] = blocks[b][i]
  <2> SUFFICES ASSUME NEW b \in 1..last
               PROVE  /\ Len(st[b]) \in Nat /\ Len(st[b]) >= Len(blocks[b])
                      /\ \A i \in 1..Len(blocks[b]) : st[b][i] = blocks[b][i]
    OBVIOUS
  <2>1. CASE b = last
    BY <2>1, <1>1, <1>2
  <2>2. CASE b # last
    BY <2>2, <1>1
  <2> QED
    BY <2>1, <2>2
<1>4. /\ Len(Grown(st)) = last + 1
      /\ \A b \in 1..last : Grown(st)[b] = st[b]
  BY <1>1, GrownFacts
<1>5. blocks' = st \/ blocks' = Grown(st)
  BY DEF Adds, st
<1>6. CASE blocks' = st
  BY <1>1, <1>3, <1>6
<1>7. CASE blocks' = Grown(st)
  <2>1. /\ Len(blocks') = last + 1
        /\ \A b \in 1..last : blocks'[b] = st[b]
    BY <1>4, <1>7
  <2> HIDE DEF st
  <2> QED
    BY <1>1, <1>3, <2>1
<1> QED
  BY <1>5, <1>6, <1>7

(* The block an iterator enters from a later one has objects.              *)
LEMMA AtBlockFacts ==
  ASSUME ChainInv, NEW b \in 1..Len(blocks)
  PROVE  LET at == AtBlock(b) IN
         /\ at.block = b /\ at.end = Len(blocks[b]) /\ at.end \in Nat
         /\ at.next = IF blocks[b] = << >> THEN 0 ELSE 1
         /\ at.next <= at.end
         /\ b < Len(blocks) => at.next = 1
<1>1. blocks[b] \in Seq(Obj) /\ Len(blocks[b]) \in Nat
  BY ChainFacts DEF ChainInv
<1>2. blocks[b] # << >> => Len(blocks[b]) # 0
  BY <1>1, EmptySeq
<1> QED
  BY <1>1, <1>2 DEF AtBlock, ChainInv, Filled

LEMMA AddKeepsScan ==
  ASSUME ChainInv, ScanInv, NEW o \in Obj, Adds(o)
  PROVE  ScanInv'
<1> SUFFICES ASSUME Scanning PROVE ScanInv'
  BY DEF ScanInv, Adds, Scanning
<1>1. /\ Len(blocks') >= Len(blocks) /\ Len(blocks') \in Nat
      /\ \A b \in 1..Len(blocks) :
           /\ Len(blocks'[b]) \in Nat /\ Len(blocks'[b]) >= Len(blocks[b])
           /\ \A i \in 1..Len(blocks[b]) : blocks'[b][i] = blocks[b][i]
      /\ \A b \in 1..Len(blocks) : b # Len(blocks) => blocks'[b] = blocks[b]
  BY AddKeepsPlaces DEF ChainInv
<1>2. scan' = scan
  BY DEF Adds
<1>3. /\ Len(blocks) \in Nat \ {0}
      /\ \A b \in 1..Len(blocks) : Len(blocks[b]) \in Nat
  BY ChainFacts DEF ChainInv
<1>4. /\ scan.block \in 1..Len(blocks) /\ scan.next \in Nat /\ scan.end \in Nat
      /\ scan.next <= scan.end /\ scan.end <= Len(blocks[scan.block])
  BY DEF ScanInv, Scan
<1>5. ASSUME NEW b \in 1..Len(blocks'), NEW i \in 1..Len(blocks'[b]), IsAhead(scan, b, i)
      PROVE  b \in 1..Len(blocks) /\ i \in 1..Len(blocks[b]) /\ blocks'[b][i] = blocks[b][i]
  BY <1>1, <1>3, <1>4, <1>5 DEF IsAhead
<1>6. ASSUME NEW b \in 1..Len(blocks), NEW i \in 1..Len(blocks[b])
      PROVE  b \in 1..Len(blocks') /\ i \in 1..Len(blocks'[b]) /\ blocks'[b][i] = blocks[b][i]
  BY <1>1, <1>3
<1>7. scan.block \in 1..Len(blocks') /\ scan.end <= Len(blocks'[scan.block])
  BY <1>1, <1>3, <1>4
<1>8. ASSUME NEW x \in scan.start
      PROVE  \/ \E i \in 1..Len(scan.seen) : scan.seen[i] = x
             \/ \E b \in 1..Len(blocks') : \E i \in 1..Len(blocks'[b]) :
                  IsAhead(scan, b, i) /\ blocks'[b][i] = x
  <2>1. CASE \E i \in 1..Len(scan.seen) : scan.seen[i] = x
    BY <2>1
  <2>2. CASE \E b \in 1..Len(blocks) : \E i \in 1..Len(blocks[b]) :
               IsAhead(scan, b, i) /\ blocks[b][i] = x
    BY <2>2, <1>6
  <2> QED
    BY <2>1, <2>2 DEF ScanInv
<1>9. ASSUME NEW k \in 1..Len(scan.seen), NEW b \in 1..Len(blocks'),
             NEW i \in 1..Len(blocks'[b]), IsAhead(scan, b, i)
      PROVE  scan.seen[k] # blocks'[b][i]
  BY <1>5, <1>9 DEF ScanInv
<1>10. \A x \in scan'.start :
         \/ \E i \in 1..Len(scan'.seen) : scan'.seen[i] = x
         \/ \E b \in 1..Len(blocks') : \E i \in 1..Len(blocks'[b]) :
              IsAhead(scan', b, i) /\ blocks'[b][i] = x
  BY <1>2, <1>8
<1>11. \A k \in 1..Len(scan'.seen) : \A b \in 1..Len(blocks') : \A i \in 1..Len(blocks'[b]) :
         IsAhead(scan', b, i) => scan'.seen[k] # blocks'[b][i]
  BY <1>2, <1>9
<1>12. /\ scan' \in Scan /\ scan'.block \in 1..Len(blocks')
       /\ scan'.next <= scan'.end /\ scan'.end <= Len(blocks'[scan'.block])
       /\ \A i, j \in 1..Len(scan'.seen) : i # j => scan'.seen[i] # scan'.seen[j]
  BY <1>2, <1>4, <1>7 DEF ScanInv
<1> QED
  BY <1>10, <1>11, <1>12 DEF ScanInv

(* initRememberedSetIterator passes over no object.                        *)
LEMMA StartScanInv ==
  ASSUME ChainInv, StartScan
  PROVE  ScanInv'
<1> DEFINE at == AtBlock(FirstBlock)
<1>1. /\ Len(blocks) \in Nat \ {0}
      /\ \A b \in 1..Len(blocks) : blocks[b] \in Seq(Obj) /\ Len(blocks[b]) \in Nat
  BY ChainFacts DEF ChainInv
<1>2. /\ FirstBlock \in 1..Len(blocks)
      /\ \A b \in 1..Len(blocks) : b > FirstBlock => blocks[b] = << >>
      /\ FirstBlock = Len(blocks) => blocks[FirstBlock] # << >> \/ FirstBlock = 1
  <2>1. CASE Newest = << >> /\ Len(blocks) > 1
    <3>1. FirstBlock = Len(blocks) - 1
      BY <2>1 DEF FirstBlock
    <3> QED
      BY <2>1, <3>1, <1>1 DEF Newest
  <2>2. CASE ~(Newest = << >> /\ Len(blocks) > 1)
    <3>1. FirstBlock = Len(blocks)
      BY <2>2 DEF FirstBlock
    <3> QED
      BY <2>2, <3>1, <1>1 DEF Newest
  <2> QED
    BY <2>1, <2>2
<1>3. /\ at.block = FirstBlock /\ at.end = Len(blocks[FirstBlock]) /\ at.end \in Nat
      /\ at.next = IF blocks[FirstBlock] = << >> THEN 0 ELSE 1
      /\ at.next <= at.end
      /\ FirstBlock < Len(blocks) => at.next = 1
  BY <1>2, AtBlockFacts
<1>4. /\ scan' = [block |-> at.block, next |-> at.next, end |-> at.end,
                  start |-> InBlocks(blocks), seen |-> << >>]
      /\ blocks' = blocks
  BY DEF StartScan
<1> HIDE DEF at
<1>5. InBlocks(blocks) \subseteq Obj
  BY InBlocksMember, ChainFacts DEF ChainInv
<1>6. << >> \in Seq(Obj) /\ Len(<< >>) = 0
  BY EmptySeq
<1>7. /\ scan'.block = FirstBlock /\ scan'.next = at.next /\ scan'.end = Len(blocks[FirstBlock])
      /\ scan'.start = InBlocks(blocks) /\ scan'.seen = << >>
      /\ scan' \in Scan
  BY <1>1, <1>2, <1>3, <1>4, <1>5, <1>6 DEF Scan
<1>8. ASSUME NEW x \in InBlocks(blocks)
      PROVE  \E b \in 1..Len(blocks) : \E i \in 1..Len(blocks[b]) :
               IsAhead(scan', b, i) /\ blocks[b][i] = x
  <2>1. PICK b \in 1..Len(blocks) : \E i \in 1..Len(blocks[b]) : blocks[b][i] = x
    BY InBlocksMember DEF ChainInv
  <2>2. PICK i \in 1..Len(blocks[b]) : blocks[b][i] = x
    BY <2>1
  <2>3. blocks[b] # << >>
    BY <2>2, <1>6
  <2>4. b <= FirstBlock
    BY <2>3, <1>1, <1>2
  <2>5. at.next = 1
    BY <2>3, <2>4, <1>1, <1>2, <1>3
  <2>6. IsAhead(scan', b, i)
    BY <2>2, <2>4, <2>5, <1>1, <1>2, <1>7 DEF IsAhead
  <2> QED
    BY <2>2, <2>6
<1>9. 1..Len(scan'.seen) = {}
  BY <1>6, <1>7
<1> QED
  BY <1>2, <1>3, <1>4, <1>7, <1>8, <1>9 DEF ScanInv

(* An iterator by its fields, and what an update does to them.             *)
Iter(b, n, e, st, sn) == [block |-> b, next |-> n, end |-> e, start |-> st, seen |-> sn]

LEMMA IterFields ==
  ASSUME NEW b \in Nat, NEW n \in Nat, NEW e \in Nat, NEW st \in SUBSET Obj, NEW sn \in Seq(Obj)
  PROVE  LET s == Iter(b, n, e, st, sn) IN
         /\ s \in Scan /\ s.block = b /\ s.next = n /\ s.end = e
         /\ s.start = st /\ s.seen = sn
BY DEF Iter, Scan

LEMMA IterNext ==
  ASSUME NEW s \in Scan, NEW n \in Nat
  PROVE  [s EXCEPT !.next = n] = Iter(s.block, n, s.end, s.start, s.seen)
BY DEF Iter, Scan

LEMMA IterMove ==
  ASSUME NEW s \in Scan, NEW b \in Nat, NEW n \in Nat, NEW e \in Nat
  PROVE  [s EXCEPT !.block = b, !.next = n, !.end = e] = Iter(b, n, e, s.start, s.seen)
<1>1. s = Iter(s.block, s.next, s.end, s.start, s.seen)
  BY DEF Iter, Scan
<1>2. [s EXCEPT !.block = b] = Iter(b, s.next, s.end, s.start, s.seen)
  BY <1>1 DEF Iter
<1>3. [Iter(b, s.next, s.end, s.start, s.seen) EXCEPT !.next = n]
        = Iter(b, n, s.end, s.start, s.seen)
  BY DEF Iter
<1>4. [Iter(b, n, s.end, s.start, s.seen) EXCEPT !.end = e] = Iter(b, n, e, s.start, s.seen)
  BY DEF Iter
<1> QED
  BY <1>2, <1>3, <1>4

LEMMA IterSeen ==
  ASSUME NEW b, NEW n, NEW e, NEW st, NEW sn, NEW x
  PROVE  [Iter(b, n, e, st, sn) EXCEPT !.seen = Append(@, x)] = Iter(b, n, e, st, Append(sn, x))
<1>1. Iter(b, n, e, st, sn).seen = sn
  BY DEF Iter
<1>2. ASSUME NEW y PROVE [Iter(b, n, e, st, sn) EXCEPT !.seen = y] = Iter(b, n, e, st, y)
  BY DEF Iter
<1> QED
  BY <1>1, <1>2, Zenon

(* rememberedSetIteratorNext passes over no object either.                 *)
LEMMA ScanNextAhead ==
  ASSUME ChainInv, ScanInv, ScanNext
  PROVE  /\ scan' \in Scan /\ scan'.block \in 1..Len(blocks)
         /\ scan'.next <= scan'.end /\ scan'.end <= Len(blocks[scan'.block])
         /\ scan'.start = scan.start
         /\ scan'.seen = Append(scan.seen, blocks[scan.block][scan.next])
         /\ scan.next \in 1..Len(blocks[scan.block])
         /\ \A b \in 1..Len(blocks) : \A i \in 1..Len(blocks[b]) :
              IsAhead(scan', b, i) <=>
                IsAhead(scan, b, i) /\ ~(b = scan.block /\ i = scan.next)
<1> DEFINE o == blocks[scan.block][scan.next]
           seen == Append(scan.seen, o)
           prev == AtBlock(scan.block - 1)
<1>1. /\ scan \in Scan /\ scan.block \in 1..Len(blocks)
      /\ scan.next \in Nat \ {0} /\ scan.end \in Nat
      /\ scan.next <= scan.end /\ scan.end <= Len(blocks[scan.block])
      /\ scan.start \subseteq Obj /\ scan.seen \in Seq(Obj)
  BY DEF ScanNext, ScanInv, Scan
<1>2. /\ Len(blocks) \in Nat \ {0}
      /\ \A b \in 1..Len(blocks) : /\ Len(blocks[b]) \in Nat
                                   /\ \A i \in 1..Len(blocks[b]) : blocks[b][i] \in Obj
  BY ChainFacts DEF ChainInv
<1>3. scan.next \in 1..Len(blocks[scan.block]) /\ o \in Obj
  BY <1>1, <1>2
<1>4. seen \in Seq(Obj)
  BY <1>1, <1>3
<1>5. ASSUME NEW b \in Nat, NEW n \in Nat, NEW e \in Nat,
             Advanced(scan) = Iter(b, n, e, scan.start, scan.seen)
      PROVE  /\ scan' \in Scan /\ scan'.block = b /\ scan'.next = n /\ scan'.end = e
             /\ scan'.start = scan.start /\ scan'.seen = seen
  <2>1. scan' = [Iter(b, n, e, scan.start, scan.seen) EXCEPT !.seen = Append(@, o)]
    BY <1>5 DEF ScanNext
  <2>2. scan' = Iter(b, n, e, scan.start, seen)
    BY <2>1, IterSeen
  <2> HIDE DEF seen
  <2> QED
    BY <2>2, <1>1, <1>4, IterFields
<1> HIDE DEF o, seen
<1>6. CASE scan.next < scan.end
  <2>1. Advanced(scan) = [scan EXCEPT !.next = scan.next + 1]
    BY <1>6 DEF Advanced
  <2>2. Advanced(scan) = Iter(scan.block, scan.next + 1, scan.end, scan.start, scan.seen)
    <3>1. scan.next + 1 \in Nat
      BY <1>1
    <3> QED
      BY <2>1, <3>1, <1>1, IterNext, Zenon
  <2>3. /\ scan' \in Scan /\ scan'.block = scan.block /\ scan'.next = scan.next + 1
        /\ scan'.end = scan.end /\ scan'.start = scan.start /\ scan'.seen = seen
    BY <2>2, <1>1, <1>2, <1>5
  <2>4. ASSUME NEW b \in 1..Len(blocks), NEW i \in 1..Len(blocks[b])
        PROVE  IsAhead(scan', b, i) <=>
                 IsAhead(scan, b, i) /\ ~(b = scan.block /\ i = scan.next)
    BY <2>3, <1>1, <1>2, <1>6 DEF IsAhead
  <2> QED
    BY <2>3, <2>4, <1>1, <1>3, <1>6 DEF seen, o
<1>7. CASE ~(scan.next < scan.end) /\ scan.block > 1
  <2>1. Advanced(scan) = [scan EXCEPT !.block = prev.block, !.next = prev.next, !.end = prev.end]
    BY <1>7 DEF Advanced
  <2>2. scan.block - 1 \in 1..Len(blocks) /\ scan.block - 1 < Len(blocks)
    BY <1>1, <1>2, <1>7
  <2>3. /\ prev.block = scan.block - 1 /\ prev.next = 1
        /\ prev.end = Len(blocks[scan.block - 1]) /\ prev.end \in Nat /\ prev.next <= prev.end
    BY <2>2, AtBlockFacts
  <2> HIDE DEF prev
  <2>4. Advanced(scan) = Iter(scan.block - 1, 1, prev.end, scan.start, scan.seen)
    <3>1. /\ scan.block - 1 \in Nat /\ 1 \in Nat
          /\ Advanced(scan) = [scan EXCEPT !.block = scan.block - 1, !.next = 1, !.end = prev.end]
      BY <2>1, <2>2, <2>3
    <3> QED
      BY <2>3, <3>1, <1>1, IterMove, Zenon
  <2>5. /\ scan' \in Scan /\ scan'.block = scan.block - 1 /\ scan'.next = 1
        /\ scan'.end = Len(blocks[scan.block - 1]) /\ scan'.start = scan.start /\ scan'.seen = seen
    BY <2>2, <2>3, <2>4, <1>1, <1>5
  <2>6. scan.next = scan.end /\ scan'.next <= scan'.end
    BY <1>1, <1>7, <2>3, <2>5
  <2>7. ASSUME NEW b \in 1..Len(blocks), NEW i \in 1..Len(blocks[b])
        PROVE  IsAhead(scan', b, i) <=>
                 IsAhead(scan, b, i) /\ ~(b = scan.block /\ i = scan.next)
    BY <2>2, <2>5, <2>6, <1>1, <1>2, <1>7 DEF IsAhead
  <2>8. scan'.end <= Len(blocks[scan'.block])
    BY <2>2, <2>5, <1>2
  <2> QED
    BY <2>2, <2>5, <2>6, <2>7, <2>8, <1>3 DEF seen, o
<1>8. CASE ~(scan.next < scan.end) /\ ~(scan.block > 1)
  <2>1. Advanced(scan) = [scan EXCEPT !.next = 0]
    BY <1>8 DEF Advanced
  <2>2. Advanced(scan) = Iter(scan.block, 0, scan.end, scan.start, scan.seen)
    <3>1. 0 \in Nat
      OBVIOUS
    <3> QED
      BY <2>1, <3>1, <1>1, IterNext, Zenon
  <2>3. /\ scan' \in Scan /\ scan'.block = scan.block /\ scan'.next = 0
        /\ scan'.end = scan.end /\ scan'.start = scan.start /\ scan'.seen = seen
    BY <2>2, <1>1, <1>2, <1>5
  <2>4. scan.next = scan.end /\ scan.block = 1
    BY <1>1, <1>2, <1>8
  <2>5. ASSUME NEW b \in 1..Len(blocks), NEW i \in 1..Len(blocks[b])
        PROVE  IsAhead(scan', b, i) <=>
                 IsAhead(scan, b, i) /\ ~(b = scan.block /\ i = scan.next)
    BY <2>3, <2>4, <1>1, <1>2 DEF IsAhead
  <2> QED
    BY <2>3, <2>5, <1>1, <1>3 DEF seen, o
<1> QED
  BY <1>6, <1>7, <1>8

LEMMA ScanNextInv ==
  ASSUME ChainInv, ScanInv, ScanNext
  PROVE  ScanInv'
<1> DEFINE o == blocks[scan.block][scan.next]
           n == Len(scan.seen)
<1>1. /\ scan' \in Scan /\ scan'.block \in 1..Len(blocks)
      /\ scan'.next <= scan'.end /\ scan'.end <= Len(blocks[scan'.block])
      /\ scan'.start = scan.start
      /\ scan'.seen = Append(scan.seen, o)
      /\ scan.next \in 1..Len(blocks[scan.block])
      /\ \A b \in 1..Len(blocks) : \A i \in 1..Len(blocks[b]) :
           IsAhead(scan', b, i) <=> IsAhead(scan, b, i) /\ ~(b = scan.block /\ i = scan.next)
  BY ScanNextAhead
<1>2. blocks' = blocks /\ Scanning /\ scan.next # 0
  BY DEF ScanNext
<1>3. /\ scan.block \in 1..Len(blocks) /\ scan.next \in Nat /\ scan.end \in Nat
      /\ scan.next <= scan.end /\ scan.seen \in Seq(Obj) /\ o \in Obj
  BY <1>1, <1>2, ChainFacts DEF ScanInv, Scan, ChainInv
<1>4. IsAhead(scan, scan.block, scan.next)
  BY <1>2, <1>3 DEF IsAhead
<1>5. /\ n \in Nat /\ Len(scan'.seen) = n + 1
      /\ \A k \in 1..n : scan'.seen[k] = scan.seen[k]
      /\ scan'.seen[n + 1] = o
  <2> DEFINE old == scan.seen
  <2>1. old \in Seq(Obj) /\ o \in Obj /\ scan'.seen = Append(old, o)
    BY <1>1, <1>3
  <2> HIDE DEF old, o
  <2>2. /\ Len(old) \in Nat /\ Len(Append(old, o)) = Len(old) + 1
        /\ \A k \in 1..Len(old) : Append(old, o)[k] = old[k]
        /\ Append(old, o)[Len(old) + 1] = o
    BY <2>1, AppendProperties
  <2> QED
    BY <2>1, <2>2 DEF old
<1> HIDE DEF o, n
<1>6. \A k \in 1..n : scan.seen[k] # o
  <2>1. \A k \in 1..n : \A b \in 1..Len(blocks) : \A i \in 1..Len(blocks[b]) :
          IsAhead(scan, b, i) => scan.seen[k] # blocks[b][i]
    BY <1>2 DEF ScanInv, n
  <2> QED
    BY <1>1, <1>3, <1>4, <2>1 DEF o
<1>7. ASSUME NEW x \in scan.start
      PROVE  \/ \E i \in 1..(n + 1) : scan'.seen[i] = x
             \/ \E b \in 1..Len(blocks) : \E i \in 1..Len(blocks[b]) :
                  IsAhead(scan', b, i) /\ blocks[b][i] = x
  <2>1. CASE \E i \in 1..n : scan.seen[i] = x
    BY <2>1, <1>5
  <2>2. CASE \E b \in 1..Len(blocks) : \E i \in 1..Len(blocks[b]) :
               IsAhead(scan, b, i) /\ blocks[b][i] = x
    <3>1. PICK b \in 1..Len(blocks) :
            \E i \in 1..Len(blocks[b]) : IsAhead(scan, b, i) /\ blocks[b][i] = x
      BY <2>2
    <3>2. PICK i \in 1..Len(blocks[b]) : IsAhead(scan, b, i) /\ blocks[b][i] = x
      BY <3>1
    <3>3. CASE b = scan.block /\ i = scan.next
      <4>1. n + 1 \in 1..(n + 1) /\ scan'.seen[n + 1] = x
        BY <3>2, <3>3, <1>5 DEF o
      <4> QED
        BY <4>1
    <3>4. CASE ~(b = scan.block /\ i = scan.next)
      BY <3>2, <3>4, <1>1
    <3> QED
      BY <3>3, <3>4
  <2> QED
    BY <2>1, <2>2, <1>2 DEF ScanInv, n
<1>8. ASSUME NEW i \in 1..(n + 1), NEW j \in 1..(n + 1), i # j
      PROVE  scan'.seen[i] # scan'.seen[j]
  <2>1. CASE i \in 1..n /\ j \in 1..n
    BY <2>1, <1>2, <1>5, <1>8 DEF ScanInv, n
  <2>2. CASE i \in 1..n /\ j = n + 1
    BY <2>2, <1>5, <1>6
  <2>3. CASE i = n + 1 /\ j \in 1..n
    BY <2>3, <1>5, <1>6
  <2> QED
    BY <2>1, <2>2, <2>3, <1>5, <1>8
<1>9. ASSUME NEW k \in 1..(n + 1), NEW b \in 1..Len(blocks), NEW i \in 1..Len(blocks[b]),
             IsAhead(scan', b, i)
      PROVE  scan'.seen[k] # blocks[b][i]
  <2>1. IsAhead(scan, b, i) /\ ~(b = scan.block /\ i = scan.next)
    BY <1>1, <1>9
  <2>2. CASE k \in 1..n
    BY <2>1, <2>2, <1>2, <1>5 DEF ScanInv, n
  <2>3. CASE k = n + 1
    <3>1. scan'.seen[k] = blocks[scan.block][scan.next]
      BY <2>3, <1>5 DEF o
    <3>2. blocks[scan.block][scan.next] # blocks[b][i]
      <4> DEFINE c == scan.block
                 j == scan.next
      <4>1. c \in 1..Len(blocks) /\ j \in 1..Len(blocks[c]) /\ ~(b = c /\ i = j) /\ Once(blocks)
        BY <2>1, <1>1, <1>3 DEF ChainInv
      <4> HIDE DEF c, j
      <4>2. blocks[c][j] # blocks[b][i]
        BY <4>1 DEF Once
      <4> QED
        BY <4>2 DEF c, j
    <3> QED
      BY <3>1, <3>2
  <2> QED
    BY <2>2, <2>3, <1>5
<1>10. /\ \A x \in scan'.start :
            \/ \E i \in 1..Len(scan'.seen) : scan'.seen[i] = x
            \/ \E b \in 1..Len(blocks') : \E i \in 1..Len(blocks'[b]) :
                 IsAhead(scan', b, i) /\ blocks'[b][i] = x
       /\ \A i, j \in 1..Len(scan'.seen) : i # j => scan'.seen[i] # scan'.seen[j]
       /\ \A k \in 1..Len(scan'.seen) : \A b \in 1..Len(blocks') : \A i \in 1..Len(blocks'[b]) :
            IsAhead(scan', b, i) => scan'.seen[k] # blocks'[b][i]
  <2>1. 1..Len(scan'.seen) = 1..(n + 1) /\ blocks' = blocks /\ scan'.start = scan.start
    BY <1>1, <1>2, <1>5
  <2>2. \A x \in scan'.start :
            \/ \E i \in 1..Len(scan'.seen) : scan'.seen[i] = x
            \/ \E b \in 1..Len(blocks') : \E i \in 1..Len(blocks'[b]) :
                 IsAhead(scan', b, i) /\ blocks'[b][i] = x
    BY <2>1, <1>7
  <2>3. \A i, j \in 1..Len(scan'.seen) : i # j => scan'.seen[i] # scan'.seen[j]
    BY <2>1, <1>8
  <2>4. \A k \in 1..Len(scan'.seen) : \A b \in 1..Len(blocks') : \A i \in 1..Len(blocks'[b]) :
            IsAhead(scan', b, i) => scan'.seen[k] # blocks'[b][i]
    BY <2>1, <1>9
  <2> QED
    BY <2>2, <2>3, <2>4
<1>11. /\ scan'.block \in 1..Len(blocks') /\ scan'.end <= Len(blocks'[scan'.block])
  BY <1>1, <1>2
<1> QED
  BY <1>1, <1>10, <1>11 DEF ScanInv, IsAhead

LEMMA ScanStep == ChainInv /\ ScanInv /\ [SetNext]_setVars => ScanInv'
<1> SUFFICES ASSUME ChainInv, ScanInv, [SetNext]_setVars PROVE ScanInv'
  OBVIOUS
<1>1. ASSUME UNCHANGED <<blocks, scan>> PROVE ScanInv'
  BY <1>1 DEF ScanInv, Scanning, IsAhead
<1>2. ASSUME NEW o \in Obj, Add(o) \/ StoreCheckAdds(o) PROVE ScanInv'
  BY <1>1, <1>2, Additions, AddKeepsScan
<1>3. CASE Reset
  BY <1>3 DEF Reset, ScanInv, Scanning
<1>4. CASE StartScan
  BY <1>4, StartScanInv
<1>5. CASE ScanNext
  BY <1>5, ScanNextInv
<1>6. CASE EndScan
  BY <1>6 DEF EndScan, ScanInv, Scanning
<1>7. CASE UNCHANGED setVars
  BY <1>1, <1>7 DEF setVars
<1> QED
  BY <1>2, <1>3, <1>4, <1>5, <1>6, <1>7 DEF SetNext

(* A scan that has ended has returned each object that was in the set when *)
(* it started, and none twice, whatever the scavenger added meanwhile.     *)
THEOREM ScanCompleteHolds == SetSpec => []ScanComplete
<1>1. SetInit => ChainInv /\ ScanInv
  BY FreshChain DEF SetInit, ChainInv, ScanInv, Scanning
<1>2. ScanInv => ScanComplete
  <2> SUFFICES ASSUME ScanInv, Scanning, scan.next = 0
               PROVE  /\ scan.start \subseteq { scan.seen[i] : i \in DOMAIN scan.seen }
                      /\ \A i, j \in DOMAIN scan.seen : i # j => scan.seen[i] # scan.seen[j]
    BY DEF ScanComplete
  <2>1. scan.seen \in Seq(Obj) /\ DOMAIN scan.seen = 1..Len(scan.seen)
    BY DEF ScanInv, Scan
  <2>2. \A b, i : ~IsAhead(scan, b, i)
    BY DEF IsAhead
  <2> QED
    BY <2>1, <2>2 DEF ScanInv
<1> QED
  BY <1>1, <1>2, ChainStep, ScanStep, PTL DEF SetSpec

(* The blocks hold objects, the tags are on objects and the iterator stands *)
(* in a block.                                                              *)
THEOREM RememberedTypeCorrect == SetSpec => []SetTypeOK
<1>1. SetInit => ChainInv /\ ScanInv
  BY FreshChain DEF SetInit, ChainInv, ScanInv, Scanning
<1>2. ChainInv /\ ScanInv => SetTypeOK
  BY DEF SetTypeOK, ChainInv, Chain, ScanInv, Scanning
<1> QED
  BY <1>1, <1>2, ChainStep, ScanStep, PTL DEF SetSpec
=============================================================================
