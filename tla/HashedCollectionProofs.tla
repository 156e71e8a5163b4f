------------------------ MODULE HashedCollectionProofs ------------------------
(***************************************************************************)
(* Theorems about HashedCollection for every set of keys, every hash and   *)
(* every size of the first table.                                          *)
(***************************************************************************)
EXTENDS HashedCollection, Foundations

-----------------------------------------------------------------------------
(* Tables.                                                                 *)

(* Association objects by their names: a slot, or the key of one that only *)
(* compiled code holds.                                                    *)
Names       == Nat \union Named
Association == [key : Keys, value : Values]
Objects     == UNION { [D -> Association] : D \in { D \in SUBSET Names : IsFiniteSet(D) } }

Tables ==
  { t \in [contents : Seq(Names \union {Nil}), tally : Nat, association : Objects] :
      /\ Len(t.contents) # 0
      /\ \A i \in Taken(t) : t.contents[i] \in DOMAIN t.association }

(* The element at a slot, the elements, and how many there are.            *)
Entry(t, i) == t.association[t.contents[i]]
Content(t)  == { Entry(t, i) : i \in Taken(t) }
Filled(t)   == Cardinality(Taken(t))
HasRoom(t)  == Filled(t) < Len(t.contents)

LEMMA ObjectsFacts ==
  ASSUME NEW s
  PROVE  s \in Objects <=> /\ DOMAIN s \subseteq Names /\ IsFiniteSet(DOMAIN s)
                           /\ s = [a \in DOMAIN s |-> s[a]]
                           /\ \A a \in DOMAIN s : s[a] \in Association
<1>1. ASSUME s \in Objects
      PROVE  /\ DOMAIN s \subseteq Names /\ IsFiniteSet(DOMAIN s)
             /\ s = [a \in DOMAIN s |-> s[a]]
             /\ \A a \in DOMAIN s : s[a] \in Association
  BY <1>1 DEF Objects
<1>2. ASSUME DOMAIN s \subseteq Names, IsFiniteSet(DOMAIN s), s = [a \in DOMAIN s |-> s[a]],
             \A a \in DOMAIN s : s[a] \in Association
      PROVE  s \in Objects
  <2>1. s \in [DOMAIN s -> Association]
    BY <1>2
  <2> QED
    BY <1>2, <2>1 DEF Objects
<1> QED
  BY <1>1, <1>2

LEMMA TableFacts ==
  ASSUME NEW t \in Tables
  PROVE  /\ t \in [contents : Seq(Names \union {Nil}), tally : Nat, association : Objects]
         /\ Len(t.contents) \in Nat \ {0} /\ DOMAIN t.contents = 1..Len(t.contents)
         /\ Taken(t) \subseteq 1..Len(t.contents) /\ IsFiniteSet(Taken(t))
         /\ Filled(t) \in Nat /\ Filled(t) <= Len(t.contents)
         /\ Nil \notin Names
         /\ \A i \in 1..Len(t.contents) : t.contents[i] \in Names \union {Nil}
         /\ \A i \in 1..Len(t.contents) : i \in Taken(t) <=> t.contents[i] # Nil
         /\ \A i \in Taken(t) : t.contents[i] \in DOMAIN t.association
         /\ \A a \in DOMAIN t.association : t.association[a] \in Association
         /\ DOMAIN t.association \subseteq Names /\ IsFiniteSet(DOMAIN t.association)
<1>1. t \in [contents : Seq(Names \union {Nil}), tally : Nat, association : Objects]
  BY DEF Tables
<1>2. /\ Len(t.contents) \in Nat \ {0} /\ DOMAIN t.contents = 1..Len(t.contents)
      /\ \A i \in 1..Len(t.contents) : t.contents[i] \in Names \union {Nil}
      /\ \A i \in Taken(t) : t.contents[i] \in DOMAIN t.association
  BY <1>1 DEF Tables
<1>3. Taken(t) \subseteq 1..Len(t.contents)
  BY <1>2 DEF Taken
<1>4. IsFiniteSet(Taken(t)) /\ Filled(t) \in Nat /\ Filled(t) <= Len(t.contents)
  <2>1. IsFiniteSet(1..Len(t.contents)) /\ Cardinality(1..Len(t.contents)) = Len(t.contents)
    BY <1>2, FS_Interval
  <2> QED
    BY <1>3, <2>1, FS_Subset, FS_CardinalityType DEF Filled
<1>5. Nil \notin Names
  BY NilAssumption, NamedAssumption DEF Names
<1> QED
  BY <1>1, <1>2, <1>3, <1>4, <1>5, ObjectsFacts DEF Taken

(* A table that is not full has an empty slot.                             *)
LEMMA RoomFacts ==
  ASSUME NEW t \in Tables, HasRoom(t)
  PROVE  \E i \in 1..Len(t.contents) : t.contents[i] = Nil
<1>1. CASE Taken(t) = 1..Len(t.contents)
  <2>1. Cardinality(1..Len(t.contents)) = Len(t.contents)
    BY TableFacts, FS_Interval
  <2> QED
    BY <1>1, <2>1, TableFacts DEF HasRoom, Filled
<1>2. CASE Taken(t) # 1..Len(t.contents)
  BY <1>2, TableFacts
<1> QED
  BY <1>1, <1>2

-----------------------------------------------------------------------------
(* Searching.                                                              *)

Searchable(t, k) == \E i \in 1..Len(t.contents) : Stops(t, k, i)

FirstStop(t, k, n) ==
  /\ n \in 0..(Len(t.contents) - 1)
  /\ Stops(t, k, Probe(t, k, n))
  /\ \A m \in 0..(n - 1) : ~Stops(t, k, Probe(t, k, m))

LEMMA ProbeType ==
  ASSUME NEW t \in Tables, NEW k \in Keys, NEW n \in Nat
  PROVE  Probe(t, k, n) \in 1..Len(t.contents)
<1>1. Hash[k] + n \in Nat /\ Len(t.contents) \in Nat \ {0}
  BY HashAssumption, TableFacts
<1>2. (Hash[k] + n) % Len(t.contents) \in 0..(Len(t.contents) - 1)
  BY <1>1
<1> QED
  BY <1>1, <1>2 DEF Probe

(* Probing goes past every slot.                                           *)
LEMMA ProbeOnto ==
  ASSUME NEW t \in Tables, NEW k \in Keys, NEW i \in 1..Len(t.contents)
  PROVE  \E n \in 0..(Len(t.contents) - 1) : Probe(t, k, n) = i
<1>1. Hash[k] \in Nat /\ Len(t.contents) \in Nat \ {0} /\ i - 1 \in 0..(Len(t.contents) - 1)
  BY HashAssumption, TableFacts
<1>2. PICK n \in 0..(Len(t.contents) - 1) : (Hash[k] + n) % Len(t.contents) = i - 1
  BY <1>1, AllRemainders
<1> QED
  BY <1>1, <1>2 DEF Probe

(* There is one first stop, and findIndex answers it.                      *)
LEMMA SearchUnique ==
  ASSUME NEW t \in Tables, NEW k \in Keys, NEW n, FirstStop(t, k, n)
  PROVE  FindIndex(t, k) = Probe(t, k, n)
<1> DEFINE Is(m) == /\ Stops(t, k, Probe(t, k, m))
                    /\ \A l \in 0..(m - 1) : ~Stops(t, k, Probe(t, k, l))
           c == CHOOSE m \in 0..(Len(t.contents) - 1) : Is(m)
<1>1. n \in 0..(Len(t.contents) - 1) /\ Is(n)
  BY DEF FirstStop
<1>2. c \in 0..(Len(t.contents) - 1) /\ Is(c)
  <2> HIDE DEF Is
  <2> QED
    BY <1>1
<1>3. c = n
  <2> HIDE DEF c
  <2>1. n \notin 0..(c - 1) /\ c \notin 0..(n - 1)
    BY <1>1, <1>2
  <2> QED
    BY <1>1, <1>2, <2>1
<1>4. FindIndex(t, k) = Probe(t, k, c)
  BY DEF FindIndex
<1> QED
  BY <1>3, <1>4

LEMMA SearchFacts ==
  ASSUME NEW t \in Tables, NEW k \in Keys, Searchable(t, k)
  PROVE  /\ \E n \in Nat : FirstStop(t, k, n) /\ FindIndex(t, k) = Probe(t, k, n)
         /\ FindIndex(t, k) \in 1..Len(t.contents)
         /\ Stops(t, k, FindIndex(t, k))
<1> DEFINE S == { n \in 0..(Len(t.contents) - 1) : Stops(t, k, Probe(t, k, n)) }
<1>1. S \in SUBSET Nat /\ S # {}
  <2>1. PICK i \in 1..Len(t.contents) : Stops(t, k, i)
    BY DEF Searchable
  <2>2. PICK n \in 0..(Len(t.contents) - 1) : Probe(t, k, n) = i
    BY ProbeOnto
  <2>3. n \in S
    BY <2>1, <2>2
  <2> QED
    BY <2>3, TableFacts
<1>2. PICK n \in S : \A m \in S : n <= m
  <2> HIDE DEF S
  <2> QED
    BY <1>1, LeastNatural
<1>3. FirstStop(t, k, n)
  <2>1. ASSUME NEW m \in 0..(n - 1) PROVE m \notin S /\ m \in 0..(Len(t.contents) - 1)
    BY <1>2, TableFacts
  <2> QED
    BY <2>1 DEF FirstStop
<1>4. n \in Nat /\ FindIndex(t, k) = Probe(t, k, n)
  BY <1>3, SearchUnique
<1>5. FindIndex(t, k) \in 1..Len(t.contents)
  BY <1>4, ProbeType
<1> QED
  BY <1>3, <1>4, <1>5 DEF FirstStop

(* The search still ends at the same place if it stops there, and if it    *)
(* stops nowhere where it did not stop.                                    *)
LEMMA StillFound ==
  ASSUME NEW t \in Tables, NEW u \in Tables, NEW k \in Keys, Searchable(t, k),
         Len(u.contents) = Len(t.contents),
         \A i \in 1..Len(t.contents) : Stops(u, k, i) => Stops(t, k, i),
         Stops(u, k, FindIndex(t, k))
  PROVE  FindIndex(u, k) = FindIndex(t, k)
<1>1. PICK n \in Nat : FirstStop(t, k, n) /\ FindIndex(t, k) = Probe(t, k, n)
  BY SearchFacts
<1>2. \A m : Probe(u, k, m) = Probe(t, k, m)
  BY DEF Probe
<1>3. FirstStop(u, k, n)
  <2>1. ASSUME NEW m \in 0..(n - 1) PROVE ~Stops(u, k, Probe(t, k, m))
    <3>1. m \in Nat
      OBVIOUS
    <3>2. Probe(t, k, m) \in 1..Len(t.contents)
      BY <3>1, ProbeType
    <3> QED
      BY <1>1, <3>2 DEF FirstStop
  <2> QED
    BY <1>1, <1>2, <2>1 DEF FirstStop
<1> QED
  BY <1>1, <1>2, <1>3, SearchUnique

(* A search in a table with room ends: at an element with the key, or at   *)
(* an empty slot.                                                          *)
LEMMA RoomSearchable ==
  ASSUME NEW t \in Tables, NEW k \in Keys, HasRoom(t)
  PROVE  Searchable(t, k)
BY RoomFacts DEF Searchable, Stops

LEMMA FoundFacts ==
  ASSUME NEW t \in Tables, NEW k \in Keys, Searchable(t, k)
  PROVE  /\ FindIndex(t, k) \in 1..Len(t.contents)
         /\ AssocAt(t, k) = t.contents[FindIndex(t, k)]
         /\ AssocAt(t, k) = Nil <=> FindIndex(t, k) \notin Taken(t)
         /\ AssocAt(t, k) # Nil => Entry(t, FindIndex(t, k)).key = k
BY SearchFacts, TableFacts DEF AssocAt, Stops, Entry

-----------------------------------------------------------------------------
(* Putting a key.                                                          *)

LEMMA FreshFacts ==
  ASSUME NEW t \in Tables
  PROVE  Fresh(t) \in Names /\ Fresh(t) \notin DOMAIN t.association
<1> DEFINE D == DOMAIN t.association
           n == Cardinality(D)
<1>1. n \in Nat /\ IsFiniteSet(D)
  BY TableFacts, FS_CardinalityType
<1>2. ~(1..(n + 1) \subseteq D)
  <2>1. Cardinality(1..(n + 1)) = n + 1
    <3>1. 1 \in Int /\ n + 1 \in Int /\ n + 1 - 1 + 1 = n + 1 /\ ~(1 > n + 1)
      BY <1>1
    <3> HIDE DEF n
    <3> QED
      BY <3>1, FS_Interval
  <2> QED
    BY <1>1, <2>1, FS_Subset
<1>3. \E a \in 1..(n + 1) : a \notin D
  BY <1>2
<1> QED
  BY <1>1, <1>3 DEF Fresh, Names

LEMMA NewAssociationFacts ==
  ASSUME NEW s \in Objects, NEW a \in Names, NEW k \in Keys, NEW v \in Values,
         NEW r, r = NewAssociation(s, a, k, v)
  PROVE  /\ r \in Objects
         /\ DOMAIN r = DOMAIN s \union {a}
         /\ r[a] = [key |-> k, value |-> v]
         /\ \A x \in DOMAIN s : x # a => r[x] = s[x]
<1>1. /\ DOMAIN r = DOMAIN s \union {a} /\ r = [x \in DOMAIN r |-> r[x]]
      /\ r[a] = [key |-> k, value |-> v] /\ \A x \in DOMAIN s : x # a => r[x] = s[x]
  BY DEF NewAssociation
<1>2. DOMAIN s \subseteq Names /\ IsFiniteSet(DOMAIN s) /\ \A x \in DOMAIN s : s[x] \in Association
  BY ObjectsFacts
<1>3. DOMAIN r \subseteq Names /\ IsFiniteSet(DOMAIN r)
  BY <1>1, <1>2, FS_AddElement
<1>4. \A x \in DOMAIN r : r[x] \in Association
  BY <1>1, <1>2 DEF Association
<1> QED
  BY <1>1, <1>3, <1>4, ObjectsFacts

(* An element at a slot that was empty.                                    *)
LEMMA AtNewIndexFacts ==
  ASSUME NEW t \in Tables, NEW i \in 1..Len(t.contents), t.contents[i] = Nil,
         NEW a \in DOMAIN t.association
  PROVE  LET u == AtNewIndex(t, i, a)
         IN  /\ u \in Tables /\ Len(u.contents) = Len(t.contents)
             /\ Taken(u) = Taken(t) \union {i} /\ i \notin Taken(t)
             /\ u.tally = t.tally + 1 /\ Filled(u) = Filled(t) + 1
             /\ u.association = t.association
             /\ u.contents[i] = a
             /\ \A j \in 1..Len(t.contents) : j # i => u.contents[j] = t.contents[j]
<1> DEFINE u == AtNewIndex(t, i, a)
<1>1. /\ u = [contents |-> [t.contents EXCEPT ![i] = a], tally |-> t.tally + 1,
              association |-> t.association]
      /\ t.contents \in Seq(Names \union {Nil}) /\ t.tally \in Nat /\ a \in Names
  <2>1. t \in [contents : Seq(Names \union {Nil}), tally : Nat, association : Objects] /\ a \in Names
    BY TableFacts
  <2> DEFINE w == [t EXCEPT !.contents = [@ EXCEPT ![i] = a]]
  <2>2. w = [contents |-> [t.contents EXCEPT ![i] = a], tally |-> t.tally,
             association |-> t.association]
    BY <2>1
  <2>3. u = [w EXCEPT !.tally = @ + 1]
    BY DEF AtNewIndex
  <2> HIDE DEF w, u
  <2>4. u = [contents |-> [t.contents EXCEPT ![i] = a], tally |-> t.tally + 1,
             association |-> t.association]
    BY <2>2, <2>3
  <2> QED
    BY <2>1, <2>4
<1> HIDE DEF u
<1>2. /\ u.contents \in Seq(Names \union {Nil}) /\ Len(u.contents) = Len(t.contents)
      /\ DOMAIN u.contents = 1..Len(t.contents)
      /\ u.contents[i] = a
      /\ \A j \in 1..Len(t.contents) : j # i => u.contents[j] = t.contents[j]
  BY <1>1, TableFacts
<1>3. Taken(u) = Taken(t) \union {i} /\ i \notin Taken(t)
  <2>1. Nil \notin Names /\ DOMAIN t.contents = 1..Len(t.contents)
    BY TableFacts
  <2> QED
    BY <1>1, <1>2, <2>1 DEF Taken
<1>4. Filled(u) = Filled(t) + 1
  BY <1>3, TableFacts, FS_AddElement DEF Filled
<1>5. u \in [contents : Seq(Names \union {Nil}), tally : Nat, association : Objects]
  BY <1>1, <1>2, TableFacts
<1>6. \A j \in Taken(u) : u.contents[j] \in DOMAIN u.association
  BY <1>1, <1>2, <1>3, TableFacts
<1>7. u \in Tables
  BY <1>2, <1>5, <1>6, TableFacts DEF Tables
<1>8. u.tally = t.tally + 1 /\ u.association = t.association
  BY <1>1
<1> QED
  BY <1>2, <1>3, <1>4, <1>7, <1>8 DEF u

(* dictAtPut puts an association at the slot where the search ended if it  *)
(* is empty, and gives the one that is there another value if not.         *)
Extended(t, k, v, u) ==
  LET i == FindIndex(t, k)
  IN  /\ i \notin Taken(t) /\ Taken(u) = Taken(t) \union {i}
      /\ u.tally = t.tally + 1 /\ Filled(u) = Filled(t) + 1
      /\ Entry(u, i) = [key |-> k, value |-> v]
      /\ \A j \in Taken(t) : u.contents[j] = t.contents[j] /\ Entry(u, j) = Entry(t, j)

Updated(t, k, v, u) ==
  LET i == FindIndex(t, k)
  IN  /\ i \in Taken(t) /\ Entry(t, i).key = k /\ u.contents = t.contents
      /\ Taken(u) = Taken(t) /\ u.tally = t.tally /\ Filled(u) = Filled(t)
      /\ Entry(u, i) = [key |-> k, value |-> v]
      /\ \A j \in Taken(t) : /\ Entry(u, j).key = Entry(t, j).key
                             /\ t.contents[j] # t.contents[i] => Entry(u, j) = Entry(t, j)

LEMMA StoredFacts ==
  ASSUME NEW t \in Tables, NEW k \in Keys, NEW v \in Values, HasRoom(t),
         NEW u, u = Stored(t, k, v, FindIndex(t, k))
  PROVE  /\ u \in Tables /\ Len(u.contents) = Len(t.contents)
         /\ DOMAIN t.association \subseteq DOMAIN u.association
         /\ AssocAt(t, k) = Nil => Extended(t, k, v, u)
         /\ AssocAt(t, k) # Nil => Updated(t, k, v, u)
<1> DEFINE i == FindIndex(t, k)
<1>1. i \in 1..Len(t.contents) /\ AssocAt(t, k) = t.contents[i]
  BY RoomSearchable, FoundFacts
<1>2. CASE t.contents[i] = Nil
  <2> DEFINE a == Fresh(t)
             s == [t EXCEPT !.association = NewAssociation(@, a, k, v)]
  <2>1. a \in Names /\ a \notin DOMAIN t.association
    BY FreshFacts
  <2>2. u = AtNewIndex(s, i, a)
    BY <1>2 DEF Stored
  <2>3. s = [contents |-> t.contents, tally |-> t.tally,
             association |-> NewAssociation(t.association, a, k, v)]
    BY TableFacts
  <2>4. /\ s.association \in Objects
        /\ DOMAIN s.association = DOMAIN t.association \union {a}
        /\ s.association[a] = [key |-> k, value |-> v]
        /\ \A x \in DOMAIN t.association : x # a => s.association[x] = t.association[x]
    <3>1. t.association \in Objects /\ s.association = NewAssociation(t.association, a, k, v)
      BY <2>3, TableFacts
    <3> HIDE DEF s, a
    <3>2. PICK o, r : o = t.association /\ r = s.association
      BY <3>1
    <3>3. o \in Objects /\ r = NewAssociation(o, a, k, v)
      BY <3>1, <3>2
    <3>4. /\ r \in Objects /\ DOMAIN r = DOMAIN o \union {a}
          /\ r[a] = [key |-> k, value |-> v]
          /\ \A x \in DOMAIN o : x # a => r[x] = o[x]
      BY <2>1, <3>3, NewAssociationFacts
    <3> QED
      BY <3>2, <3>4
  <2>5. Taken(s) = Taken(t) /\ Filled(s) = Filled(t) /\ s.contents = t.contents /\ s.tally = t.tally
    BY <2>3 DEF Taken, Filled
  <2>6. s \in Tables
    <3>1. s \in [contents : Seq(Names \union {Nil}), tally : Nat, association : Objects]
      BY <2>3, <2>4, TableFacts
    <3> HIDE DEF s
    <3> QED
      BY <2>4, <2>5, <3>1, TableFacts DEF Tables
  <2> HIDE DEF s, a
  <2>7. /\ u \in Tables /\ Len(u.contents) = Len(t.contents)
        /\ Taken(u) = Taken(t) \union {i} /\ i \notin Taken(t)
        /\ u.tally = t.tally + 1 /\ Filled(u) = Filled(t) + 1
        /\ u.association = s.association
        /\ u.contents[i] = a
        /\ \A j \in 1..Len(t.contents) : j # i => u.contents[j] = t.contents[j]
    BY <1>1, <1>2, <2>2, <2>4, <2>5, <2>6, AtNewIndexFacts
  <2>8. Entry(u, i) = [key |-> k, value |-> v]
    BY <2>4, <2>7 DEF Entry
  <2>9. \A j \in Taken(t) : u.contents[j] = t.contents[j] /\ Entry(u, j) = Entry(t, j)
    BY <2>1, <2>4, <2>7, TableFacts DEF Entry
  <2>10. DOMAIN t.association \subseteq DOMAIN u.association
    BY <2>4, <2>7
  <2> QED
    BY <1>1, <1>2, <2>7, <2>8, <2>9, <2>10 DEF Extended
<1>3. CASE t.contents[i] # Nil
  <2> DEFINE a == t.contents[i]
  <2>1. i \in Taken(t) /\ Entry(t, i).key = k /\ a \in DOMAIN t.association
    BY <1>1, <1>3, RoomSearchable, FoundFacts, TableFacts
  <2>2. t.association[a] = [key |-> k, value |-> t.association[a].value]
    <3>1. t.association[a] \in Association /\ t.association[a].key = k
      BY <2>1, TableFacts DEF Entry
    <3> QED
      BY <3>1 DEF Association
  <2>3. u = [t EXCEPT !.association = [t.association EXCEPT ![a] = [t.association[a] EXCEPT !.value = v]]]
    BY <1>3 DEF Stored
  <2>4. u = [contents |-> t.contents, tally |-> t.tally,
             association |-> [t.association EXCEPT ![a] = [key |-> k, value |-> v]]]
    <3>1. t \in [contents : Seq(Names \union {Nil}), tally : Nat, association : Objects]
      BY TableFacts
    <3>2. [t.association EXCEPT ![a] = [t.association[a] EXCEPT !.value = v]]
            = [t.association EXCEPT ![a] = [key |-> k, value |-> v]]
      <4>1. [t.association[a] EXCEPT !.value = v] = [key |-> k, value |-> v]
        BY <2>2
      <4> QED
        BY <4>1
    <3>3. u = [t EXCEPT !.association = [t.association EXCEPT ![a] = [key |-> k, value |-> v]]]
      BY <2>3, <3>2
    <3> QED
      BY <3>1, <3>3
  <2>5. /\ DOMAIN u.association = DOMAIN t.association
        /\ u.association[a] = [key |-> k, value |-> v]
        /\ \A x \in DOMAIN t.association : x # a => u.association[x] = t.association[x]
        /\ u.association = [x \in DOMAIN u.association |-> u.association[x]]
    BY <2>1, <2>4
  <2>6. u.association \in Objects
    <3>1. \A x \in DOMAIN t.association : t.association[x] \in Association
      BY TableFacts
    <3>2. [key |-> k, value |-> v] \in Association
      BY DEF Association
    <3>3. \A x \in DOMAIN u.association : u.association[x] \in Association
      BY <2>5, <3>1, <3>2
    <3>4. DOMAIN u.association \subseteq Names /\ IsFiniteSet(DOMAIN u.association)
      BY <2>5, TableFacts
    <3> QED
      BY <2>5, <3>3, <3>4, ObjectsFacts
  <2>7. u.contents = t.contents /\ Taken(u) = Taken(t) /\ u.tally = t.tally /\ Filled(u) = Filled(t)
    BY <2>4 DEF Taken, Filled
  <2>8. u \in Tables
    <3>1. u \in [contents : Seq(Names \union {Nil}), tally : Nat, association : Objects]
      BY <2>4, <2>6, TableFacts
    <3> QED
      BY <2>5, <2>7, <3>1, TableFacts DEF Tables
  <2>9. /\ Entry(u, i) = [key |-> k, value |-> v]
        /\ \A j \in Taken(t) : /\ Entry(u, j).key = Entry(t, j).key
                               /\ t.contents[j] # t.contents[i] => Entry(u, j) = Entry(t, j)
    BY <2>1, <2>5, <2>7, TableFacts DEF Entry
  <2>10. DOMAIN t.association \subseteq DOMAIN u.association
    BY <2>5
  <2> QED
    BY <1>1, <1>3, <2>1, <2>7, <2>8, <2>9, <2>10 DEF Updated
<1> QED
  BY <1>2, <1>3

-----------------------------------------------------------------------------
(* Sound tables: every element is where its key is looked for.             *)

IsSound(t) == \A i \in Taken(t) : FindIndex(t, Entry(t, i).key) = i

(* What a map has after it is put v at k.                                  *)
WithPut(C, k, v) == { e \in C : e.key # k } \union {[key |-> k, value |-> v]}

LEMMA EntryFacts ==
  ASSUME NEW t \in Tables, NEW i \in Taken(t)
  PROVE  /\ Entry(t, i) \in Association /\ Entry(t, i).key \in Keys /\ Entry(t, i).value \in Values
         /\ Entry(t, i) = [key |-> Entry(t, i).key, value |-> Entry(t, i).value]
         /\ Entry(t, i) \in Content(t)
<1>1. Entry(t, i) \in Association
  BY TableFacts DEF Entry
<1> QED
  BY <1>1 DEF Association, Content

(* No two elements have the same key, and none is there twice.             *)
LEMMA Distinct ==
  ASSUME NEW t \in Tables, IsSound(t), NEW i \in Taken(t), NEW j \in Taken(t),
         Entry(t, i).key = Entry(t, j).key \/ t.contents[i] = t.contents[j]
  PROVE  i = j
BY DEF IsSound, Entry

(* Slots that are taken after a search went over them do not disturb it.   *)
LEMMA KeepsFound ==
  ASSUME NEW t \in Tables, NEW u \in Tables, NEW k \in Keys, Searchable(t, k),
         Len(u.contents) = Len(t.contents),
         \A i \in Taken(t) : i \in Taken(u) /\ Entry(u, i).key = Entry(t, i).key,
         FindIndex(t, k) \in Taken(u), Entry(u, FindIndex(t, k)).key = k
  PROVE  FindIndex(u, k) = FindIndex(t, k)
<1>1. ASSUME NEW i \in 1..Len(t.contents), ~Stops(t, k, i) PROVE ~Stops(u, k, i)
  <2>1. i \in Taken(t) /\ Entry(t, i).key # k
    BY <1>1, TableFacts DEF Stops, Entry
  <2>2. u.contents[i] # Nil
    BY <2>1, TableFacts
  <2> QED
    BY <2>1, <2>2 DEF Stops, Entry
<1>2. Stops(u, k, FindIndex(t, k))
  BY DEF Stops, Entry
<1> QED
  BY <1>1, <1>2, StillFound

LEMMA StoredSound ==
  ASSUME NEW t \in Tables, NEW k \in Keys, NEW v \in Values, HasRoom(t), IsSound(t),
         NEW u, u = Stored(t, k, v, FindIndex(t, k))
  PROVE  /\ IsSound(u)
         /\ Content(u) = WithPut(Content(t), k, v)
         /\ FindIndex(u, k) = FindIndex(t, k) /\ FindIndex(u, k) \in Taken(u)
         /\ \A l \in Keys : FindIndex(t, l) \in Taken(t) =>
              FindIndex(u, l) = FindIndex(t, l) /\ u.contents[FindIndex(t, l)] = t.contents[FindIndex(t, l)]
<1> DEFINE i == FindIndex(t, k)
           new == [key |-> k, value |-> v]
<1>1. /\ u \in Tables /\ Len(u.contents) = Len(t.contents)
      /\ AssocAt(t, k) = Nil => Extended(t, k, v, u)
      /\ AssocAt(t, k) # Nil => Updated(t, k, v, u)
  BY StoredFacts
<1>2. /\ i \in Taken(u) /\ Entry(u, i) = new
      /\ Taken(u) = Taken(t) \union {i}
      /\ \A j \in Taken(t) : Entry(u, j).key = Entry(t, j).key /\ u.contents[j] = t.contents[j]
  BY <1>1 DEF Extended, Updated
<1>3. \A l \in Keys : Searchable(t, l)
  BY RoomSearchable
<1>4. ASSUME NEW l \in Keys, FindIndex(t, l) \in Taken(u), Entry(u, FindIndex(t, l)).key = l
      PROVE  FindIndex(u, l) = FindIndex(t, l)
  BY <1>1, <1>2, <1>3, <1>4, KeepsFound
<1>5. FindIndex(u, k) = i
  BY <1>2, <1>4
<1>6. IsSound(u)
  <2> SUFFICES ASSUME NEW j \in Taken(u) PROVE FindIndex(u, Entry(u, j).key) = j
    BY DEF IsSound
  <2>1. CASE j = i
    BY <1>2, <1>5, <2>1
  <2>2. CASE j \in Taken(t)
    <3>1. Entry(u, j).key = Entry(t, j).key /\ Entry(t, j).key \in Keys
      BY <1>2, <2>2, EntryFacts
    <3>2. FindIndex(t, Entry(t, j).key) = j
      BY <2>2 DEF IsSound
    <3> QED
      BY <1>4, <3>1, <3>2
  <2> QED
    BY <1>2, <2>1, <2>2
<1>7. ASSUME NEW j \in Taken(t), j # i PROVE Entry(u, j) = Entry(t, j) /\ Entry(t, j).key # k
  <2>1. FindIndex(t, Entry(t, j).key) = j
    BY DEF IsSound
  <2>2. CASE AssocAt(t, k) = Nil
    BY <1>1, <1>7, <2>1, <2>2 DEF Extended
  <2>3. CASE AssocAt(t, k) # Nil
    <3>1. Updated(t, k, v, u) /\ i \in Taken(t)
      BY <1>1, <2>3 DEF Updated
    <3>2. t.contents[j] # t.contents[i]
      BY <1>7, <3>1, Distinct
    <3> QED
      BY <1>7, <2>1, <3>1, <3>2 DEF Updated
  <2> QED
    BY <2>2, <2>3
<1>8. i \in Taken(t) => Entry(t, i).key = k
  BY <1>3, FoundFacts
<1>9. Content(u) = WithPut(Content(t), k, v)
  <2>1. ASSUME NEW j \in Taken(u) PROVE Entry(u, j) \in WithPut(Content(t), k, v)
    <3>1. CASE j = i
      BY <1>2, <3>1 DEF WithPut
    <3>2. CASE j # i
      BY <1>2, <1>7, <3>2 DEF WithPut, Content
    <3> QED
      BY <3>1, <3>2
  <2>2. ASSUME NEW j \in Taken(t), Entry(t, j).key # k PROVE Entry(t, j) \in Content(u)
    <3>1. j # i
      BY <1>8, <2>2
    <3> QED
      BY <1>2, <1>7, <3>1 DEF Content
  <2>3. new \in Content(u)
    BY <1>2 DEF Content
  <2> QED
    BY <2>1, <2>2, <2>3 DEF WithPut, Content
<1>10. ASSUME NEW l \in Keys, FindIndex(t, l) \in Taken(t)
       PROVE  FindIndex(u, l) = FindIndex(t, l) /\ u.contents[FindIndex(t, l)] = t.contents[FindIndex(t, l)]
  <2>1. Entry(t, FindIndex(t, l)).key = l
    BY <1>3, <1>10, FoundFacts
  <2> QED
    BY <1>2, <1>4, <1>10, <2>1
<1> QED
  BY <1>2, <1>5, <1>6, <1>9, <1>10

-----------------------------------------------------------------------------
(* What a sound table answers depends on its elements only.                *)

AnswersOf(t) == [k \in Keys |-> IF AssocAt(t, k) = Nil THEN "absent"
                                ELSE t.association[AssocAt(t, k)].value]

LEMMA AnswersFacts ==
  ASSUME NEW t \in Tables, HasRoom(t), IsSound(t), NEW k \in Keys
  PROVE  /\ \A e \in Content(t) : e.key = k => AssocAt(t, k) # Nil /\ AnswersOf(t)[k] = e.value
         /\ (\A e \in Content(t) : e.key # k) => AssocAt(t, k) = Nil /\ AnswersOf(t)[k] = "absent"
<1>1. /\ FindIndex(t, k) \in 1..Len(t.contents)
      /\ AssocAt(t, k) = t.contents[FindIndex(t, k)]
      /\ AssocAt(t, k) = Nil <=> FindIndex(t, k) \notin Taken(t)
      /\ AssocAt(t, k) # Nil => Entry(t, FindIndex(t, k)).key = k
  BY RoomSearchable, FoundFacts
<1>2. ASSUME NEW i \in Taken(t), Entry(t, i).key = k
      PROVE  AssocAt(t, k) # Nil /\ AnswersOf(t)[k] = Entry(t, i).value
  <2>1. FindIndex(t, k) = i
    BY <1>2 DEF IsSound
  <2> QED
    BY <1>1, <2>1 DEF AnswersOf, Entry
<1>3. ASSUME \A e \in Content(t) : e.key # k
      PROVE  AssocAt(t, k) = Nil /\ AnswersOf(t)[k] = "absent"
  <2>1. FindIndex(t, k) \notin Taken(t)
    BY <1>1, <1>3 DEF Content
  <2> QED
    BY <1>1, <2>1 DEF AnswersOf
<1> QED
  BY <1>2, <1>3 DEF Content

LEMMA SameAnswers ==
  ASSUME NEW t \in Tables, HasRoom(t), IsSound(t),
         NEW u \in Tables, HasRoom(u), IsSound(u), Content(u) = Content(t)
  PROVE  AnswersOf(u) = AnswersOf(t)
<1>1. ASSUME NEW k \in Keys PROVE AnswersOf(u)[k] = AnswersOf(t)[k]
  <2>1. CASE \E e \in Content(t) : e.key = k
    BY <2>1, AnswersFacts
  <2>2. CASE \A e \in Content(t) : e.key # k
    BY <2>2, AnswersFacts
  <2> QED
    BY <2>1, <2>2
<1> QED
  BY <1>1 DEF AnswersOf

LEMMA PutAnswers ==
  ASSUME NEW t \in Tables, HasRoom(t), IsSound(t),
         NEW u \in Tables, HasRoom(u), IsSound(u),
         NEW k \in Keys, NEW v \in Values, Content(u) = WithPut(Content(t), k, v)
  PROVE  AnswersOf(u) = [AnswersOf(t) EXCEPT ![k] = v]
<1>1. AnswersOf(u)[k] = v
  <2>1. [key |-> k, value |-> v] \in Content(u)
    BY DEF WithPut
  <2> QED
    BY <2>1, AnswersFacts
<1>2. ASSUME NEW l \in Keys, l # k PROVE AnswersOf(u)[l] = AnswersOf(t)[l]
  <2>1. ASSUME NEW e \in Content(t), e.key = l PROVE AnswersOf(u)[l] = AnswersOf(t)[l]
    <3>1. e \in Content(u)
      BY <1>2, <2>1 DEF WithPut
    <3> QED
      BY <2>1, <3>1, AnswersFacts
  <2>2. CASE \A e \in Content(t) : e.key # l
    <3>1. \A e \in Content(u) : e.key # l
      BY <1>2, <2>2 DEF WithPut
    <3> QED
      BY <2>2, <3>1, AnswersFacts
  <2> QED
    BY <2>1, <2>2
<1> QED
  BY <1>1, <1>2 DEF AnswersOf

-----------------------------------------------------------------------------
(* Growing a table.                                                        *)

(* The elements at the first n slots.                                      *)
Before(t, n) == Taken(t) \intersect 1..n

LEMMA BeforeFacts ==
  ASSUME NEW t \in Tables
  PROVE  /\ Before(t, 0) = {} /\ Before(t, Len(t.contents)) = Taken(t)
         /\ \A n \in 0..Len(t.contents) :
              /\ IsFiniteSet(Before(t, n)) /\ Cardinality(Before(t, n)) \in Nat
              /\ Cardinality(Before(t, n)) <= n
         /\ \A n \in 1..Len(t.contents) :
              /\ n \notin Taken(t) => Before(t, n) = Before(t, n - 1)
              /\ n \in Taken(t) => /\ Before(t, n) = Before(t, n - 1) \union {n}
                                   /\ n \notin Before(t, n - 1)
                                   /\ Cardinality(Before(t, n)) = Cardinality(Before(t, n - 1)) + 1
<1>1. Before(t, 0) = {} /\ Before(t, Len(t.contents)) = Taken(t)
  BY TableFacts DEF Before
<1>2. ASSUME NEW n \in 0..Len(t.contents)
      PROVE  IsFiniteSet(Before(t, n)) /\ Cardinality(Before(t, n)) \in Nat /\ Cardinality(Before(t, n)) <= n
  <2>1. IsFiniteSet(1..n) /\ Cardinality(1..n) = n
    BY TableFacts, FS_Interval
  <2> QED
    BY <2>1, FS_Subset, FS_CardinalityType DEF Before
<1>3. ASSUME NEW n \in 1..Len(t.contents)
      PROVE  /\ n \notin Taken(t) => Before(t, n) = Before(t, n - 1)
             /\ n \in Taken(t) => /\ Before(t, n) = Before(t, n - 1) \union {n}
                                  /\ n \notin Before(t, n - 1)
                                  /\ Cardinality(Before(t, n)) = Cardinality(Before(t, n - 1)) + 1
  <2>1. 1..n = 1..(n - 1) \union {n} /\ n \notin 1..(n - 1) /\ n - 1 \in 0..Len(t.contents)
    BY TableFacts
  <2>2. n \notin Taken(t) => Before(t, n) = Before(t, n - 1)
    BY <2>1 DEF Before
  <2>3. n \in Taken(t) => Before(t, n) = Before(t, n - 1) \union {n} /\ n \notin Before(t, n - 1)
    BY <2>1 DEF Before
  <2> QED
    BY <1>2, <2>1, <2>2, <2>3, FS_AddElement
<1> QED
  BY <1>1, <1>2, <1>3

(* A table with nothing in it.                                             *)
LEMMA EmptyFacts ==
  ASSUME NEW t \in Tables, NEW y \in Nat,
         NEW u, u = [contents |-> Empty(2 * Len(t.contents)), tally |-> y, association |-> t.association]
  PROVE  /\ u \in Tables /\ Len(u.contents) = 2 * Len(t.contents)
         /\ Taken(u) = {} /\ Filled(u) = 0 /\ Content(u) = {} /\ IsSound(u)
<1> DEFINE size == 2 * Len(t.contents)
<1>1. size \in Nat \ {0}
  BY TableFacts
<1> HIDE DEF size
<1>2. /\ Empty(size) \in Seq(Names \union {Nil}) /\ Len(Empty(size)) = size
      /\ DOMAIN Empty(size) = 1..size /\ \A i \in 1..size : Empty(size)[i] = Nil
  BY <1>1 DEF Empty
<1>3. u.contents = Empty(size) /\ u.tally = y /\ u.association = t.association
  BY DEF size
<1>4. Taken(u) = {}
  BY <1>2, <1>3 DEF Taken
<1>5. u \in [contents : Seq(Names \union {Nil}), tally : Nat, association : Objects]
  BY <1>2, TableFacts DEF size
<1>6. u \in Tables
  BY <1>1, <1>2, <1>3, <1>4, <1>5 DEF Tables
<1>7. Filled(u) = 0 /\ Content(u) = {} /\ IsSound(u)
  BY <1>4, FS_EmptySet DEF Filled, Content, IsSound
<1> QED
  BY <1>2, <1>3, <1>4, <1>6, <1>7 DEF size

(* The table u has been made from what the first n slots of t hold.        *)
Rebuilt(t, n, u) ==
  /\ Len(u.contents) = 2 * Len(t.contents)
  /\ DOMAIN t.association \subseteq DOMAIN u.association
  /\ Filled(u) <= Cardinality(Before(t, n))
  /\ IsSound(t) => /\ IsSound(u)
                   /\ Filled(u) = Cardinality(Before(t, n))
                   /\ Content(u) = { Entry(t, i) : i \in Before(t, n) }

LEMMA RebuiltHasRoom ==
  ASSUME NEW t \in Tables, NEW u \in Tables, NEW n \in 0..Len(t.contents), Rebuilt(t, n, u)
  PROVE  HasRoom(u)
<1>1. Filled(u) \in Nat /\ Len(t.contents) \in Nat \ {0} /\ Len(u.contents) = 2 * Len(t.contents)
  BY TableFacts DEF Rebuilt
<1>2. Filled(u) <= n
  <2>1. Cardinality(Before(t, n)) \in Nat /\ Cardinality(Before(t, n)) <= n
    BY BeforeFacts
  <2> QED
    BY <1>1, <2>1 DEF Rebuilt
<1> QED
  BY <1>1, <1>2 DEF HasRoom

(* A table that is sound has no key twice: the next one is new to what has *)
(* been rebuilt.                                                           *)
LEMMA NextIsNew ==
  ASSUME NEW t \in Tables, IsSound(t), NEW u \in Tables, NEW n \in Taken(t), Rebuilt(t, n - 1, u)
  PROVE  AssocAt(u, Entry(t, n).key) = Nil
<1>1. n \in 1..Len(t.contents) /\ n - 1 \in 0..Len(t.contents)
  BY TableFacts
<1>2. ASSUME NEW i \in Before(t, n - 1) PROVE Entry(t, i).key # Entry(t, n).key
  <2>1. i \in Taken(t) /\ i # n
    BY <1>1, <1>2, BeforeFacts DEF Before
  <2> QED
    BY <2>1, Distinct
<1>3. \A e \in Content(u) : e.key # Entry(t, n).key
  BY <1>2 DEF Rebuilt
<1>4. HasRoom(u)
  BY <1>1, RebuiltHasRoom
<1>5. IsSound(u) /\ Entry(t, n).key \in Keys
  BY EntryFacts DEF Rebuilt
<1> QED
  BY <1>3, <1>4, <1>5, AnswersFacts

(* growDictionary puts one more element.                                   *)
LEMMA PutOnceMoreFacts ==
  ASSUME NEW t \in Tables, NEW u \in Tables, NEW n \in Taken(t),
         Rebuilt(t, n - 1, u), u.tally = t.tally + Filled(u),
         NEW w, w = PutOnceMore(u, Entry(t, n).key, Entry(t, n).value)
  PROVE  w \in Tables /\ Rebuilt(t, n, w) /\ w.tally = t.tally + Filled(w)
<1> DEFINE k == Entry(t, n).key
           v == Entry(t, n).value
<1>1. n \in 1..Len(t.contents) /\ n - 1 \in 0..Len(t.contents)
  BY TableFacts
<1>2. HasRoom(u)
  BY <1>1, RebuiltHasRoom
<1>3. k \in Keys /\ v \in Values /\ Entry(t, n) = [key |-> k, value |-> v]
  BY EntryFacts
<1> HIDE DEF k, v
<1>4. w = Stored(u, k, v, FindIndex(u, k))
  BY DEF PutOnceMore, k, v
<1>5. /\ w \in Tables /\ Len(w.contents) = Len(u.contents)
      /\ DOMAIN u.association \subseteq DOMAIN w.association
      /\ AssocAt(u, k) = Nil => Extended(u, k, v, w)
      /\ AssocAt(u, k) # Nil => Updated(u, k, v, w)
  BY <1>2, <1>3, <1>4, StoredFacts
<1>6. Cardinality(Before(t, n)) = Cardinality(Before(t, n - 1)) + 1
      /\ Cardinality(Before(t, n - 1)) \in Nat
  BY <1>1, BeforeFacts
<1>7. Filled(u) \in Nat /\ Filled(w) \in Nat /\ t.tally \in Nat
  BY <1>5, TableFacts
<1>8. /\ Filled(w) <= Cardinality(Before(t, n)) /\ w.tally = t.tally + Filled(w)
      /\ AssocAt(u, k) = Nil => Filled(w) = Filled(u) + 1
  <2>1. CASE AssocAt(u, k) = Nil
    BY <1>5, <1>6, <1>7, <2>1 DEF Extended, Rebuilt
  <2>2. CASE AssocAt(u, k) # Nil
    BY <1>5, <1>6, <1>7, <2>2 DEF Updated, Rebuilt
  <2> QED
    BY <2>1, <2>2
<1>9. ASSUME IsSound(t)
      PROVE  /\ IsSound(w) /\ Filled(w) = Cardinality(Before(t, n))
             /\ Content(w) = { Entry(t, i) : i \in Before(t, n) }
  <2>1. AssocAt(u, k) = Nil
    BY <1>9, NextIsNew DEF k
  <2>2. IsSound(u) /\ Content(u) = { Entry(t, i) : i \in Before(t, n - 1) }
        /\ Filled(u) = Cardinality(Before(t, n - 1))
    BY <1>9 DEF Rebuilt
  <2>3. IsSound(w) /\ Content(w) = WithPut(Content(u), k, v)
    BY <1>2, <1>3, <1>4, <2>2, StoredSound
  <2>4. \A e \in Content(u) : e.key # k
    BY <1>2, <1>3, <2>1, <2>2, AnswersFacts
  <2>5. Content(w) = Content(u) \union {Entry(t, n)}
    BY <1>3, <2>3, <2>4 DEF WithPut
  <2>6. Before(t, n) = Before(t, n - 1) \union {n}
    BY <1>1, BeforeFacts
  <2>7. Content(w) = { Entry(t, i) : i \in Before(t, n) }
    BY <2>2, <2>5, <2>6
  <2> QED
    BY <1>6, <1>8, <2>1, <2>2, <2>3, <2>7
<1> QED
  BY <1>5, <1>8, <1>9 DEF Rebuilt

(* growDictionary: every element is put into a table of twice the size,    *)
(* and counted on top of the tally there was.                              *)
LEMMA ReinsertedFacts ==
  ASSUME NEW t \in Tables
  PROVE  /\ Reinserted(t) \in Tables
         /\ Rebuilt(t, Len(t.contents), Reinserted(t))
         /\ Reinserted(t).tally = t.tally + Filled(Reinserted(t))
<1> DEFINE L == Len(t.contents)
           start == [t EXCEPT !.contents = Empty(2 * Len(t.contents))]
           Puts(x, n) == IF t.contents[n] = Nil THEN x
                         ELSE PutOnceMore(x, Entry(t, n).key, Entry(t, n).value)
           In == [n \in 0..L |-> { x \in Tables : Rebuilt(t, n, x) /\ x.tally = t.tally + Filled(x) }]
           step == [n \in 1..L |-> [x \in In[n - 1] |-> Puts(x, n)]]
           Goes(f) == f = [n \in 0..L |-> IF n = 0 THEN start ELSE Puts(f[n - 1], n)]
<1>1. L \in Nat \ {0} /\ \A n \in 1..L : n - 1 \in 0..L /\ n \in 0..L /\ n # 0
  BY TableFacts
<1>2. start \in In[0]
  <2>1. start = [contents |-> Empty(2 * L), tally |-> t.tally, association |-> t.association]
    BY TableFacts
  <2>2. t.tally \in Nat
    BY TableFacts
  <2>3. /\ start \in Tables /\ Len(start.contents) = 2 * L
        /\ Taken(start) = {} /\ Filled(start) = 0 /\ Content(start) = {} /\ IsSound(start)
        /\ start.association = t.association
    <3> HIDE DEF start
    <3> QED
      BY <2>1, <2>2, EmptyFacts
  <2>4. Before(t, 0) = {} /\ Cardinality(Before(t, 0)) = 0
    BY BeforeFacts, FS_EmptySet
  <2>5. start.tally = t.tally + Filled(start)
    BY <2>1, <2>2, <2>3
  <2>6. Rebuilt(t, 0, start)
    <3> HIDE DEF start
    <3> QED
      BY <2>3, <2>4 DEF Rebuilt
  <2> HIDE DEF start
  <2> QED
    BY <1>1, <2>3, <2>5, <2>6
<1>3. ASSUME NEW n \in 1..L, NEW x \in In[n - 1] PROVE Puts(x, n) \in In[n]
  <2>1. x \in Tables /\ Rebuilt(t, n - 1, x) /\ x.tally = t.tally + Filled(x)
    BY <1>1
  <2>2. CASE t.contents[n] = Nil
    <3>1. Before(t, n) = Before(t, n - 1)
      BY <2>2, BeforeFacts, TableFacts
    <3> QED
      BY <1>1, <2>1, <2>2, <3>1 DEF Rebuilt
  <2>3. CASE t.contents[n] # Nil
    <3>1. n \in Taken(t)
      BY <2>3, TableFacts
    <3> DEFINE w == PutOnceMore(x, Entry(t, n).key, Entry(t, n).value)
    <3>2. w \in Tables /\ Rebuilt(t, n, w) /\ w.tally = t.tally + Filled(w)
      BY <2>1, <3>1, PutOnceMoreFacts
    <3>3. Puts(x, n) = w
      BY <2>3
    <3> HIDE DEF w
    <3> QED
      BY <1>1, <3>2, <3>3
  <2> QED
    BY <2>2, <2>3
<1>4. PICK f : /\ DOMAIN f = 0..L /\ f = [n \in 0..L |-> f[n]] /\ f[0] = start
               /\ \A n \in 1..L : f[n - 1] \in In[n - 1] /\ f[n] = step[n][f[n - 1]]
  <2>1. \A n \in 1..L : step[n] \in [In[n - 1] -> In[n]]
    <3> HIDE DEF In, Puts
    <3> QED
      BY <1>3
  <2> HIDE DEF In, step, start, L
  <2>2. DeterminedAlong(L, In, start, step)
    BY <1>1, <1>2, <2>1, RecursionAlong
  <2> QED
    BY <2>2 DEF DeterminedAlong
<1>5. Goes(f)
  <2>1. \A n \in 1..L : f[n] = Puts(f[n - 1], n)
    <3> HIDE DEF In, Puts
    <3> QED
      BY <1>4
  <2>2. \A n \in 0..L : n = 0 \/ n \in 1..L
    BY <1>1
  <2> HIDE DEF In, Puts, start, L
  <2>3. \A n \in 0..L : f[n] = IF n = 0 THEN start ELSE Puts(f[n - 1], n)
    BY <1>1, <1>4, <2>1, <2>2
  <2> QED
    BY <1>4, <2>3
<1> DEFINE put == CHOOSE g : Goes(g)
<1>6. Goes(put)
  <2> HIDE DEF Goes
  <2> QED
    BY <1>5
<1>7. Reinserted(t) = put[L]
  BY DEF Reinserted, Entry
<1> HIDE DEF put
<1> DEFINE S == { n \in 0..L : put[n] \in In[n] }
<1>8. 0 \in S
  <2>1. put[0] = start
    <3> HIDE DEF start, Puts
    <3> QED
      BY <1>1, <1>6
  <2> HIDE DEF In, start
  <2> QED
    BY <1>1, <1>2, <2>1
<1>9. ASSUME NEW n \in 1..L, n - 1 \in S PROVE n \in S
  <2>1. put[n] = Puts(put[n - 1], n)
    <3> HIDE DEF start, Puts
    <3> QED
      BY <1>1, <1>6
  <2> HIDE DEF In, Puts
  <2> QED
    BY <1>1, <1>3, <1>9, <2>1
<1>10. L \in S
  <2> HIDE DEF S, L
  <2> QED
    BY <1>1, <1>8, <1>9, UpTo
<1> QED
  BY <1>1, <1>7, <1>10

(* The whole table has been put into another.                              *)
LEMMA AllRebuilt ==
  ASSUME NEW t \in Tables, NEW u \in Tables, Rebuilt(t, Len(t.contents), u)
  PROVE  /\ Len(u.contents) = 2 * Len(t.contents) /\ HasRoom(u)
         /\ DOMAIN t.association \subseteq DOMAIN u.association
         /\ Filled(u) <= Filled(t)
         /\ IsSound(t) => IsSound(u) /\ Content(u) = Content(t) /\ Filled(u) = Filled(t)
<1>1. Before(t, Len(t.contents)) = Taken(t) /\ Len(t.contents) \in 0..Len(t.contents)
  BY BeforeFacts, TableFacts
<1>2. HasRoom(u)
  BY <1>1, RebuiltHasRoom
<1> QED
  BY <1>1, <1>2 DEF Rebuilt, Content, Filled

(* growDictionary leaves a slot empty, and a count below the size.         *)
LEMMA GrownFacts ==
  ASSUME NEW t \in Tables, t.tally = Len(t.contents),
         NEW g, g = Grown(t)
  PROVE  /\ g \in Tables /\ DOMAIN t.association \subseteq DOMAIN g.association
         /\ Filled(g) <= g.tally /\ g.tally < Len(g.contents)
         /\ IsSound(t) => IsSound(g) /\ Content(g) = Content(t)
<1> DEFINE r == Reinserted(t)
           q == Reinserted(r)
<1>1. /\ r \in Tables /\ Rebuilt(t, Len(t.contents), r) /\ r.tally = t.tally + Filled(r)
  BY ReinsertedFacts
<1> HIDE DEF r
<1>2. /\ q \in Tables /\ Rebuilt(r, Len(r.contents), q) /\ q.tally = r.tally + Filled(q)
  BY <1>1, ReinsertedFacts
<1> HIDE DEF q
<1>3. /\ Len(r.contents) = 2 * Len(t.contents) /\ DOMAIN t.association \subseteq DOMAIN r.association
      /\ Filled(r) <= Filled(t)
      /\ IsSound(t) => IsSound(r) /\ Content(r) = Content(t)
  BY <1>1, AllRebuilt
<1>4. /\ Len(q.contents) = 2 * Len(r.contents) /\ DOMAIN r.association \subseteq DOMAIN q.association
      /\ Filled(q) <= Filled(r)
      /\ IsSound(r) => IsSound(q) /\ Content(q) = Content(r)
  BY <1>1, <1>2, AllRebuilt
<1>5. /\ Len(t.contents) \in Nat \ {0} /\ Filled(t) \in Nat /\ Filled(t) <= Len(t.contents)
      /\ Filled(r) \in Nat /\ Filled(q) \in Nat
  BY <1>1, <1>2, TableFacts
<1>6. CASE IsFull(t, r)
  <2>1. r.tally = Len(r.contents)
    BY <1>6 DEF IsFull
  <2>2. Filled(q) <= Len(t.contents) /\ Len(q.contents) = 4 * Len(t.contents)
        /\ q.tally = 2 * Len(t.contents) + Filled(q)
    BY <1>2, <1>3, <1>4, <1>5, <2>1
  <2>3. Filled(q) <= q.tally /\ q.tally < Len(q.contents)
    BY <1>5, <2>2
  <2>4. g = q
    BY <1>6 DEF Grown, q, r
  <2> QED
    BY <1>2, <1>3, <1>4, <2>3, <2>4
<1>7. CASE ~IsFull(t, r)
  <2>1. ~(r.tally = Len(r.contents) /\ r.tally # t.tally)
    BY <1>7 DEF IsFull
  <2>2. r.tally = Len(t.contents) + Filled(r) /\ Len(r.contents) = 2 * Len(t.contents)
    BY <1>1, <1>3
  <2>3. Filled(r) <= r.tally /\ r.tally < Len(r.contents)
    BY <1>1, <1>3, <1>5, <2>1, <2>2
  <2>4. g = r
    BY <1>7 DEF Grown, r
  <2> QED
    BY <1>1, <1>3, <2>3, <2>4
<1> QED
  BY <1>6, <1>7

(* grow of the library: the associations themselves are moved, as far as   *)
(* the first empty slot.                                                   *)
Moved(t, n, u) ==
  /\ Rebuilt(t, n, u) /\ u.tally = Filled(u)
  /\ \A a \in DOMAIN t.association : u.association[a].key = t.association[a].key
  /\ IsSound(t) => /\ u.association = t.association
                   /\ \A i \in Before(t, n) : \E j \in Taken(u) : u.contents[j] = t.contents[i]

LEMMA AddFacts ==
  ASSUME NEW u \in Tables, HasRoom(u), NEW a \in DOMAIN u.association,
         NEW w, w = AddOnceMore(u, a)
  PROVE  LET k == u.association[a].key
             i == FindIndex(u, k)
         IN  /\ w \in Tables /\ Len(w.contents) = Len(u.contents)
             /\ DOMAIN u.association \subseteq DOMAIN w.association
             /\ \A x \in DOMAIN u.association : w.association[x].key = u.association[x].key
             /\ AssocAt(u, k) = Nil =>
                  /\ Taken(w) = Taken(u) \union {i} /\ i \notin Taken(u)
                  /\ w.association = u.association /\ w.contents[i] = a
                  /\ \A j \in Taken(u) : w.contents[j] = u.contents[j]
                  /\ w.tally = u.tally + 1 /\ Filled(w) = Filled(u) + 1
             /\ AssocAt(u, k) # Nil => w.tally = u.tally /\ Filled(w) = Filled(u)
<1> DEFINE k == u.association[a].key
           v == u.association[a].value
           i == FindIndex(u, k)
<1>1. k \in Keys /\ v \in Values /\ u.association[a] \in Association
  BY TableFacts DEF Association
<1>2. i \in 1..Len(u.contents) /\ AssocAt(u, k) = u.contents[i] /\ Taken(u) \subseteq 1..Len(u.contents)
  BY <1>1, RoomSearchable, FoundFacts, TableFacts
<1>3. w = IF u.contents[i] = Nil THEN AtNewIndex(u, i, a)
          ELSE [u EXCEPT !.association[u.contents[i]].value = v]
  BY DEF AddOnceMore, Add
<1>4. CASE u.contents[i] = Nil
  <2>1. w = AtNewIndex(u, i, a)
    BY <1>3, <1>4
  <2> HIDE DEF i, k
  <2>2. /\ w \in Tables /\ Len(w.contents) = Len(u.contents)
        /\ Taken(w) = Taken(u) \union {i} /\ i \notin Taken(u)
        /\ w.tally = u.tally + 1 /\ Filled(w) = Filled(u) + 1
        /\ w.association = u.association
        /\ w.contents[i] = a
        /\ \A j \in 1..Len(u.contents) : j # i => w.contents[j] = u.contents[j]
    BY <1>2, <1>4, <2>1, AtNewIndexFacts
  <2>3. \A j \in Taken(u) : w.contents[j] = u.contents[j]
    BY <1>2, <2>2
  <2> QED
    BY <1>2, <1>4, <2>2, <2>3 DEF i, k
<1>5. CASE u.contents[i] # Nil
  <2>1. w = [u EXCEPT !.association[u.contents[i]].value = v]
    BY <1>3, <1>5
  <2>2. w = Stored(u, k, v, i)
    BY <1>5, <2>1 DEF Stored
  <2> HIDE DEF k, v
  <2>3. /\ w \in Tables /\ Len(w.contents) = Len(u.contents)
        /\ DOMAIN u.association \subseteq DOMAIN w.association
        /\ Updated(u, k, v, w)
    BY <1>1, <1>2, <1>5, <2>2, StoredFacts
  <2>4. u.contents[i] \in DOMAIN u.association
    BY <1>2, <1>5, TableFacts
  <2>5. \A x \in DOMAIN u.association : w.association[x].key = u.association[x].key
    <3> DEFINE c == u.contents[i]
    <3>1. w = [u EXCEPT !.association = [u.association EXCEPT ![c] = [u.association[c] EXCEPT !.value = v]]]
      BY <2>1
    <3>2. u.association[c] \in Association
      BY <2>4, TableFacts
    <3>3. [u.association[c] EXCEPT !.value = v].key = u.association[c].key
      BY <3>2 DEF Association
    <3>4. u \in [contents : Seq(Names \union {Nil}), tally : Nat, association : Objects]
      BY TableFacts
    <3> HIDE DEF c, i
    <3>5. w.association = [u.association EXCEPT ![c] = [u.association[c] EXCEPT !.value = v]]
      BY <3>1, <3>4
    <3> QED
      BY <2>4, <3>3, <3>5 DEF c, i
  <2>6. w.tally = u.tally /\ Filled(w) = Filled(u)
    BY <2>3 DEF Updated
  <2> QED
    BY <1>2, <1>5, <2>3, <2>5, <2>6 DEF k
<1> QED
  BY <1>4, <1>5

(* grow moves one more element.                                            *)
LEMMA AddOnceMoreFacts ==
  ASSUME NEW t \in Tables, NEW u \in Tables, NEW n \in Taken(t), Moved(t, n - 1, u),
         NEW w, w = AddOnceMore(u, t.contents[n])
  PROVE  w \in Tables /\ Moved(t, n, w)
<1> DEFINE a == t.contents[n]
           k == u.association[a].key
           i == FindIndex(u, k)
<1>1. n \in 1..Len(t.contents) /\ n - 1 \in 0..Len(t.contents) /\ a \in DOMAIN t.association
  BY TableFacts
<1>2. Rebuilt(t, n - 1, u) /\ u.tally = Filled(u) /\ HasRoom(u) /\ a \in DOMAIN u.association
  BY <1>1, RebuiltHasRoom DEF Moved, Rebuilt
<1>3. k = Entry(t, n).key /\ k \in Keys
  <2>1. k = t.association[a].key
    BY <1>1 DEF Moved
  <2> QED
    BY <2>1, EntryFacts DEF Entry
<1> HIDE DEF k
<1>4. /\ w \in Tables /\ Len(w.contents) = Len(u.contents)
      /\ DOMAIN u.association \subseteq DOMAIN w.association
      /\ \A x \in DOMAIN u.association : w.association[x].key = u.association[x].key
      /\ AssocAt(u, k) = Nil =>
           /\ Taken(w) = Taken(u) \union {i} /\ i \notin Taken(u)
           /\ w.association = u.association /\ w.contents[i] = a
           /\ \A j \in Taken(u) : w.contents[j] = u.contents[j]
           /\ w.tally = u.tally + 1 /\ Filled(w) = Filled(u) + 1
      /\ AssocAt(u, k) # Nil => w.tally = u.tally /\ Filled(w) = Filled(u)
  BY <1>2, AddFacts DEF k
<1> HIDE DEF a, i
<1>5. Cardinality(Before(t, n)) = Cardinality(Before(t, n - 1)) + 1
      /\ Cardinality(Before(t, n - 1)) \in Nat
  BY <1>1, BeforeFacts
<1>6. /\ Filled(w) <= Cardinality(Before(t, n)) /\ w.tally = Filled(w)
      /\ Len(w.contents) = 2 * Len(t.contents)
      /\ DOMAIN t.association \subseteq DOMAIN w.association
      /\ \A x \in DOMAIN t.association : w.association[x].key = t.association[x].key
  <2>1. Filled(u) \in Nat
    BY TableFacts
  <2>2. Filled(w) <= Cardinality(Before(t, n)) /\ w.tally = Filled(w)
    BY <1>2, <1>4, <1>5, <2>1 DEF Rebuilt
  <2> QED
    BY <1>2, <1>4, <2>2 DEF Rebuilt, Moved
<1>7. ASSUME IsSound(t)
      PROVE  /\ IsSound(w) /\ Filled(w) = Cardinality(Before(t, n))
             /\ Content(w) = { Entry(t, m) : m \in Before(t, n) }
             /\ w.association = t.association
             /\ \A m \in Before(t, n) : \E j \in Taken(w) : w.contents[j] = t.contents[m]
  <2>1. AssocAt(u, k) = Nil
    BY <1>2, <1>3, <1>7, NextIsNew
  <2>2. /\ IsSound(u) /\ Content(u) = { Entry(t, m) : m \in Before(t, n - 1) }
        /\ Filled(u) = Cardinality(Before(t, n - 1)) /\ u.association = t.association
        /\ \A m \in Before(t, n - 1) : \E j \in Taken(u) : u.contents[j] = t.contents[m]
    BY <1>2, <1>7 DEF Rebuilt, Moved
  <2>3. /\ i \in Taken(w) /\ Entry(w, i) = Entry(t, n)
        /\ \A j \in Taken(u) : j \in Taken(w) /\ Entry(w, j) = Entry(u, j)
        /\ \A j \in Taken(w) : j = i \/ j \in Taken(u)
    BY <1>4, <2>1, <2>2 DEF Entry, a
  <2>4. Before(t, n) = Before(t, n - 1) \union {n}
    BY <1>1, BeforeFacts
  <2>5. Content(w) = Content(u) \union {Entry(t, n)}
    BY <2>3 DEF Content
  <2>6. Content(w) = { Entry(t, m) : m \in Before(t, n) }
    BY <2>2, <2>4, <2>5
  <2>7. ASSUME NEW m \in Before(t, n) PROVE \E j \in Taken(w) : w.contents[j] = t.contents[m]
    BY <1>4, <2>1, <2>2, <2>3, <2>4, <2>7 DEF a
  <2>8. IsSound(w)
    <3>1. \A j \in Taken(u) : Entry(u, j).key # k
      BY <1>2, <1>3, <2>1, <2>2, AnswersFacts DEF Content
    <3>2. u.contents[i] = Nil /\ i \in 1..Len(u.contents) /\ i = FindIndex(u, k)
      BY <1>2, <1>3, <2>1, RoomSearchable, FoundFacts DEF i
    <3>3. ASSUME NEW l \in Keys, FindIndex(u, l) \in Taken(w), Entry(w, FindIndex(u, l)).key = l
          PROVE  FindIndex(w, l) = FindIndex(u, l)
      <4>1. ASSUME NEW j \in 1..Len(u.contents), Stops(w, l, j) PROVE Stops(u, l, j)
        <5>1. CASE u.contents[j] = Nil
          BY <5>1 DEF Stops
        <5>2. CASE u.contents[j] # Nil
          <6>1. j \in Taken(u)
            BY <5>2, TableFacts
          <6> QED
            BY <1>4, <2>1, <4>1, <6>1 DEF Stops
        <5> QED
          BY <5>1, <5>2
      <4>2. Stops(w, l, FindIndex(u, l))
        BY <3>3 DEF Stops, Entry
      <4>3. Searchable(u, l)
        BY <1>2, RoomSearchable
      <4> QED
        BY <1>4, <4>1, <4>2, <4>3, StillFound
    <3>4. FindIndex(w, k) = i
      BY <1>3, <2>3, <3>2, <3>3
    <3>5. ASSUME NEW j \in Taken(u) PROVE FindIndex(w, Entry(w, j).key) = j
      <4>1. Entry(w, j) = Entry(u, j) /\ Entry(u, j).key \in Keys /\ FindIndex(u, Entry(u, j).key) = j
        BY <2>2, <2>3, EntryFacts DEF IsSound
      <4> QED
        BY <2>3, <3>3, <4>1
    <3> QED
      BY <1>3, <2>3, <3>4, <3>5 DEF IsSound
  <2> QED
    BY <1>4, <1>5, <2>1, <2>2, <2>6, <2>7, <2>8
<1> QED
  BY <1>4, <1>6, <1>7 DEF Rebuilt, Moved

(* The elements before the first empty slot, if there is one.              *)
LEMMA BeforeNilFacts ==
  ASSUME NEW t \in Tables
  PROVE  /\ BeforeNil(t.contents) \in 0..Len(t.contents)
         /\ 1..BeforeNil(t.contents) \subseteq Taken(t)
         /\ Taken(t) = 1..Len(t.contents) => BeforeNil(t.contents) = Len(t.contents)
<1> DEFINE L == Len(t.contents)
           Is(n) == /\ \A i \in 1..n : t.contents[i] # Nil
                    /\ n < L => t.contents[n + 1] = Nil
           S == { n \in 0..L : n = L \/ t.contents[n + 1] = Nil }
           c == CHOOSE n \in 0..L : Is(n)
<1>1. BeforeNil(t.contents) = c
  BY DEF BeforeNil
<1>2. L \in Nat \ {0} /\ \A i \in 1..L : i \in Taken(t) <=> t.contents[i] # Nil
  BY TableFacts
<1>3. S \in SUBSET Nat /\ S # {}
  BY <1>2
<1>4. PICK n \in S : \A m \in S : n <= m
  <2> HIDE DEF S
  <2> QED
    BY <1>3, LeastNatural
<1>5. n \in 0..L /\ Is(n)
  <2>1. ASSUME NEW i \in 1..n PROVE t.contents[i] # Nil
    <3>1. i - 1 \in 0..L /\ ~(n <= i - 1) /\ i - 1 # L /\ (i - 1) + 1 = i
      BY <1>2
    <3>2. i - 1 \notin S
      BY <1>4, <3>1
    <3> QED
      BY <3>1, <3>2
  <2> QED
    BY <1>2, <2>1
<1>6. c \in 0..L /\ Is(c)
  <2> HIDE DEF Is, L
  <2> QED
    BY <1>5
<1> HIDE DEF c
<1>7. 1..c \subseteq Taken(t)
  BY <1>2, <1>6
<1>8. ASSUME Taken(t) = 1..L PROVE c = L
  <2>1. ASSUME c < L PROVE FALSE
    <3>1. c + 1 \in 1..L
      BY <1>2, <1>6, <2>1
    <3> QED
      BY <1>2, <1>6, <1>8, <2>1, <3>1
  <2> QED
    BY <1>2, <1>6, <2>1
<1> QED
  BY <1>6, <1>1, <1>7, <1>8

LEMMA RegrownFacts ==
  ASSUME NEW t \in Tables
  PROVE  Regrown(t) \in Tables /\ Moved(t, BeforeNil(t.contents), Regrown(t))
<1> DEFINE L == BeforeNil(t.contents)
           start == [t EXCEPT !.contents = Empty(2 * Len(t.contents)), !.tally = 0]
           Adds(x, n) == AddOnceMore(x, t.contents[n])
           In == [n \in 0..L |-> { x \in Tables : Moved(t, n, x) }]
           step == [n \in 1..L |-> [x \in In[n - 1] |-> Adds(x, n)]]
           Goes(f) == f = [n \in 0..L |-> IF n = 0 THEN start ELSE Adds(f[n - 1], n)]
<1>1. /\ L \in Nat /\ 0 \in 0..L /\ \A n \in 1..L : n - 1 \in 0..L /\ n \in 0..L /\ n # 0
      /\ \A n \in 0..L : n = 0 \/ n \in 1..L
      /\ \A n \in 1..L : n \in Taken(t)
  BY BeforeNilFacts
<1>2. start \in In[0]
  <2>1. start = [contents |-> Empty(2 * Len(t.contents)), tally |-> 0, association |-> t.association]
    <3> DEFINE w == [t EXCEPT !.contents = Empty(2 * Len(t.contents))]
    <3>1. w = [contents |-> Empty(2 * Len(t.contents)), tally |-> t.tally, association |-> t.association]
      BY TableFacts
    <3>2. start = [w EXCEPT !.tally = 0]
      OBVIOUS
    <3> HIDE DEF w, start
    <3> QED
      BY <3>1, <3>2
  <2>2. /\ start \in Tables /\ Len(start.contents) = 2 * Len(t.contents)
        /\ Taken(start) = {} /\ Filled(start) = 0 /\ Content(start) = {} /\ IsSound(start)
        /\ start.association = t.association /\ start.tally = 0
    <3> HIDE DEF start
    <3> QED
      BY <2>1, EmptyFacts
  <2>3. Before(t, 0) = {} /\ Cardinality(Before(t, 0)) = 0
    BY BeforeFacts, FS_EmptySet
  <2>4. Moved(t, 0, start)
    <3> HIDE DEF start
    <3> QED
      BY <2>2, <2>3 DEF Rebuilt, Moved
  <2> HIDE DEF start
  <2> QED
    BY <1>1, <2>2, <2>4
<1>3. ASSUME NEW n \in 1..L, NEW x \in In[n - 1] PROVE Adds(x, n) \in In[n]
  <2>1. x \in Tables /\ Moved(t, n - 1, x) /\ n \in Taken(t)
    BY <1>1
  <2> DEFINE w == Adds(x, n)
  <2>2. w \in Tables /\ Moved(t, n, w)
    BY <2>1, AddOnceMoreFacts
  <2> HIDE DEF w
  <2>3. w \in In[n]
    BY <1>1, <2>2
  <2> QED
    BY <2>3 DEF w
<1>4. PICK f : /\ DOMAIN f = 0..L /\ f = [n \in 0..L |-> f[n]] /\ f[0] = start
               /\ \A n \in 1..L : f[n - 1] \in In[n - 1] /\ f[n] = step[n][f[n - 1]]
  <2>1. \A n \in 1..L : step[n] \in [In[n - 1] -> In[n]]
    <3> HIDE DEF In, Adds
    <3> QED
      BY <1>3
  <2> HIDE DEF In, step, start, L
  <2>2. DeterminedAlong(L, In, start, step)
    BY <1>1, <1>2, <2>1, RecursionAlong
  <2> QED
    BY <2>2 DEF DeterminedAlong
<1>5. Goes(f)
  <2>1. \A n \in 1..L : f[n] = Adds(f[n - 1], n)
    <3> HIDE DEF In, Adds
    <3> QED
      BY <1>4
  <2> HIDE DEF In, Adds, start, L
  <2>2. \A n \in 0..L : f[n] = IF n = 0 THEN start ELSE Adds(f[n - 1], n)
    BY <1>1, <1>4, <2>1
  <2> QED
    BY <1>4, <2>2
<1> DEFINE added == CHOOSE g : Goes(g)
<1>6. Goes(added)
  <2> HIDE DEF Goes
  <2> QED
    BY <1>5
<1>7. Regrown(t) = added[L]
  BY DEF Regrown
<1> HIDE DEF added
<1> DEFINE S == { n \in 0..L : added[n] \in In[n] }
<1>8. 0 \in S
  <2>1. added[0] = start
    <3> HIDE DEF start, Adds, L
    <3> QED
      BY <1>1, <1>6
  <2> HIDE DEF In, start, L
  <2> QED
    BY <1>1, <1>2, <2>1
<1>9. ASSUME NEW n \in 1..L, n - 1 \in S PROVE n \in S
  <2>1. added[n] = Adds(added[n - 1], n)
    <3> HIDE DEF start, Adds, L
    <3> QED
      BY <1>1, <1>6
  <2> HIDE DEF In, Adds
  <2> QED
    BY <1>1, <1>3, <1>9, <2>1
<1>10. L \in S
  <2> HIDE DEF S, L
  <2> QED
    BY <1>1, <1>8, <1>9, UpTo
<1>11. L \in 0..L /\ added[L] \in In[L]
  BY <1>1, <1>10
<1> QED
  BY <1>7, <1>11

(* Every operation passes on a table that has room.                        *)
(* After a put: below the size, or grown.                                  *)
LEMMA AfterPutFacts ==
  ASSUME NEW t \in Tables, Filled(t) <= t.tally, t.tally < Len(t.contents),
         NEW k \in Keys, NEW v \in Values,
         NEW u, u = Stored(t, k, v, FindIndex(t, k)),
         NEW w, w = AfterPut(t, u)
  PROVE  /\ u \in Tables /\ w \in Tables
         /\ DOMAIN t.association \subseteq DOMAIN u.association
         /\ DOMAIN u.association \subseteq DOMAIN w.association
         /\ Filled(w) <= w.tally /\ w.tally < Len(w.contents)
         /\ IsSound(t) => IsSound(w) /\ Content(w) = WithPut(Content(t), k, v)
         /\ ~IsFull(t, u) => w = u
<1>1. HasRoom(t) /\ Filled(t) \in Nat /\ t.tally \in Nat /\ Len(t.contents) \in Nat
  BY TableFacts DEF HasRoom
<1>2. /\ u \in Tables /\ Len(u.contents) = Len(t.contents)
      /\ DOMAIN t.association \subseteq DOMAIN u.association
      /\ AssocAt(t, k) = Nil => Extended(t, k, v, u)
      /\ AssocAt(t, k) # Nil => Updated(t, k, v, u)
      /\ IsSound(t) => IsSound(u) /\ Content(u) = WithPut(Content(t), k, v)
  BY <1>1, StoredFacts, StoredSound
<1>3. /\ Filled(u) <= u.tally /\ u.tally <= Len(u.contents)
      /\ u.tally = Len(u.contents) => IsFull(t, u)
  BY <1>1, <1>2 DEF Extended, Updated, IsFull
<1>4. CASE IsFull(t, u)
  <2>1. w = Grown(u) /\ u.tally = Len(u.contents)
    BY <1>4 DEF AfterPut, IsFull
  <2> QED
    BY <1>2, <1>4, <2>1, GrownFacts
<1>5. CASE ~IsFull(t, u)
  <2>1. w = u
    BY <1>5 DEF AfterPut
  <2>2. u.tally < Len(u.contents)
    BY <1>1, <1>2, <1>3, <1>5, TableFacts
  <2> QED
    BY <1>2, <1>3, <2>1, <2>2
<1> QED
  BY <1>4, <1>5

-----------------------------------------------------------------------------
(* Between operations: the objects have been named anew.                   *)

Bindings(b, objects) == /\ DOMAIN b = Named
                        /\ \A k \in Named : b[k] = Nil \/ b[k] \in DOMAIN objects

Renamed(t, b) ==
  [contents |-> [i \in DOMAIN t.contents |-> IF t.contents[i] = Nil THEN Nil ELSE i],
   tally |-> t.tally,
   association |-> [n \in Taken(t) \cup Severed(t, b) |->
                      t.association[IF n \in Named THEN b[n] ELSE t.contents[n]]]]

RenamedBindings(t, b) ==
  [k \in Named |-> IF k \in Severed(t, b) THEN k
                   ELSE IF b[k] = Nil THEN Nil ELSE SlotOf(t, b[k])]

\* As t, and every element is named by its slot.
NamedBySlots(t, s) ==
  /\ Len(s.contents) = Len(t.contents) /\ Taken(s) = Taken(t) /\ s.tally = t.tally
  /\ \A i \in Taken(t) : s.contents[i] = i /\ Entry(s, i) = Entry(t, i)

LEMMA RenamedFacts ==
  ASSUME NEW t \in Tables, NEW b, Bindings(b, t.association),
         NEW s, s = Renamed(t, b)
  PROVE  s \in Tables /\ NamedBySlots(t, s) /\ DOMAIN s.association = Taken(t) \union Severed(t, b)
<1> DEFINE L == Len(t.contents)
           D == Taken(t) \union Severed(t, b)
<1>1. /\ L \in Nat \ {0} /\ DOMAIN t.contents = 1..L /\ Taken(t) \subseteq 1..L
      /\ t.tally \in Nat /\ IsFiniteSet(Taken(t)) /\ Nil \notin Names
      /\ \A i \in 1..L : i \in Taken(t) <=> t.contents[i] # Nil
  BY TableFacts
<1>2. /\ s.contents = [i \in 1..L |-> IF t.contents[i] = Nil THEN Nil ELSE i]
      /\ s.tally = t.tally
      /\ s.association = [n \in D |-> t.association[IF n \in Named THEN b[n] ELSE t.contents[n]]]
      /\ s = [contents |-> s.contents, tally |-> s.tally, association |-> s.association]
  BY <1>1 DEF Renamed
<1>3. /\ Len(s.contents) = L /\ s.contents \in Seq(Names \union {Nil}) /\ DOMAIN s.contents = 1..L
      /\ \A i \in 1..L : s.contents[i] = IF t.contents[i] = Nil THEN Nil ELSE i
  <2>1. \A i \in 1..L : i \in Names
    BY <1>1 DEF Names
  <2> HIDE DEF L
  <2> QED
    BY <1>1, <1>2, <2>1
<1>4. Taken(s) = Taken(t)
  <2>1. \A i \in 1..L : i \in Names
    BY <1>1 DEF Names
  <2> HIDE DEF L
  <2> QED
    BY <1>1, <1>3, <2>1 DEF Taken
<1>5. /\ \A n \in Taken(t) : n \notin Named
      /\ Severed(t, b) \subseteq Named /\ IsFiniteSet(Severed(t, b))
      /\ \A n \in Severed(t, b) : b[n] \in DOMAIN t.association
  <2>1. Severed(t, b) \subseteq Named
    BY DEF Severed
  <2>2. IsFiniteSet(Severed(t, b))
    BY <2>1, NamedAssumption, FS_Subset
  <2>3. \A n \in Taken(t) : n \notin Named
    BY <1>1, NamedAssumption
  <2> QED
    BY <2>1, <2>2, <2>3 DEF Severed, Bindings
<1>6. \A i \in Taken(t) : s.contents[i] = i /\ Entry(s, i) = Entry(t, i)
  BY <1>1, <1>2, <1>3, <1>5 DEF Entry
<1>7. s.association \in Objects
  <2>1. D \subseteq Names /\ IsFiniteSet(D)
    <3>1. IsFiniteSet(D)
      BY <1>1, <1>5, FS_Union
    <3>2. 1..L \subseteq Nat
      BY <1>1
    <3> QED
      BY <1>1, <1>5, <3>1, <3>2 DEF Names
  <2>2. ASSUME NEW n \in D PROVE s.association[n] \in Association
    <3>1. CASE n \in Named
      BY <1>2, <1>5, <3>1, TableFacts
    <3>2. CASE n \notin Named
      BY <1>2, <1>5, <3>2, TableFacts
    <3> QED
      BY <3>1, <3>2
  <2> HIDE DEF D
  <2>3. DOMAIN s.association = D /\ s.association = [n \in D |-> s.association[n]]
    BY <1>2
  <2> QED
    BY <2>1, <2>2, <2>3, ObjectsFacts
<1>8. s \in [contents : Seq(Names \union {Nil}), tally : Nat, association : Objects]
  <2> HIDE DEF D, L
  <2> QED
    BY <1>1, <1>2, <1>3, <1>7
<1>9. \A i \in Taken(s) : s.contents[i] \in DOMAIN s.association
  BY <1>2, <1>4, <1>6
<1>10. s \in Tables
  BY <1>1, <1>3, <1>8, <1>9 DEF Tables
<1>11. DOMAIN s.association = D
  BY <1>2
<1> QED
  BY <1>2, <1>3, <1>4, <1>6, <1>10, <1>11 DEF NamedBySlots

(* Nothing is looked for elsewhere.                                        *)
LEMMA NamedBySlotsFacts ==
  ASSUME NEW t \in Tables, HasRoom(t), NEW s \in Tables, NamedBySlots(t, s)
  PROVE  /\ Filled(s) = Filled(t) /\ HasRoom(s) /\ Content(s) = Content(t)
         /\ \A k \in Keys : /\ FindIndex(s, k) = FindIndex(t, k)
                            /\ AssocAt(s, k) = Nil <=> AssocAt(t, k) = Nil
                            /\ AssocAt(s, k) # Nil => AssocAt(s, k) = FindIndex(t, k)
         /\ IsSound(s) <=> IsSound(t)
<1>1. Filled(s) = Filled(t) /\ HasRoom(s) /\ Content(s) = Content(t)
  BY DEF NamedBySlots, Filled, HasRoom, Content
<1>2. ASSUME NEW k \in Keys
      PROVE  /\ FindIndex(s, k) = FindIndex(t, k)
             /\ AssocAt(s, k) = Nil <=> AssocAt(t, k) = Nil
             /\ AssocAt(s, k) # Nil => AssocAt(s, k) = FindIndex(t, k)
  <2>1. /\ \A i \in 1..Len(t.contents) : i \in Taken(t) <=> t.contents[i] # Nil
        /\ \A i \in 1..Len(t.contents) : i \in Taken(t) <=> s.contents[i] # Nil
    BY TableFacts DEF NamedBySlots
  <2>2. \A i \in 1..Len(t.contents) : Stops(s, k, i) <=> Stops(t, k, i)
    BY <2>1 DEF Stops, NamedBySlots, Entry
  <2>3. Searchable(t, k) /\ Searchable(s, k)
    BY <1>1, RoomSearchable
  <2>4. FindIndex(t, k) \in 1..Len(t.contents) /\ Stops(t, k, FindIndex(t, k))
    BY <2>3, SearchFacts
  <2>5. FindIndex(s, k) = FindIndex(t, k)
    BY <2>2, <2>3, <2>4, StillFound DEF NamedBySlots
  <2> QED
    BY <2>1, <2>4, <2>5 DEF AssocAt, NamedBySlots
<1>3. IsSound(s) <=> IsSound(t)
  <2>1. ASSUME NEW i \in Taken(t)
        PROVE  FindIndex(s, Entry(s, i).key) = i <=> FindIndex(t, Entry(t, i).key) = i
    BY <1>2, EntryFacts DEF NamedBySlots
  <2> QED
    BY <2>1 DEF IsSound, NamedBySlots
<1> QED
  BY <1>1, <1>2, <1>3

(* What a binding becomes; a shared one stays shared.                      *)
LEMMA RenamedBindingsFacts ==
  ASSUME NEW t \in Tables, HasRoom(t), NEW b, Bindings(b, t.association),
         NEW s, s = Renamed(t, b), NEW c, c = RenamedBindings(t, b)
  PROVE  /\ Bindings(c, s.association)
         /\ \A k \in Named :
              /\ b[k] = Nil => c[k] = Nil
              /\ IsSound(t) /\ b[k] = AssocAt(t, k) => c[k] = AssocAt(s, k)
<1>1. s \in Tables /\ NamedBySlots(t, s) /\ DOMAIN s.association = Taken(t) \union Severed(t, b)
  BY RenamedFacts
<1>2. ASSUME NEW k \in Named, b[k] # Nil, k \notin Severed(t, b)
      PROVE  c[k] \in Taken(t) /\ t.contents[c[k]] = b[k]
  <2>1. c[k] = SlotOf(t, b[k])
    BY <1>2 DEF RenamedBindings
  <2>2. b[k] \in Elements(t.contents)
    BY <1>2 DEF Severed
  <2>3. \E i \in Taken(t) : t.contents[i] = b[k]
    BY <2>2 DEF Elements, Taken
  <2> QED
    BY <2>1, <2>3 DEF SlotOf
<1>3. \A k \in Named : c[k] = Nil \/ c[k] \in DOMAIN s.association
  <2>1. ASSUME NEW k \in Named, k \in Severed(t, b) PROVE c[k] = k
    BY <2>1 DEF RenamedBindings
  <2>2. ASSUME NEW k \in Named, b[k] = Nil PROVE c[k] = Nil
    BY <2>2 DEF RenamedBindings, Severed
  <2> QED
    BY <1>1, <1>2, <2>1, <2>2
<1>4. DOMAIN c = Named /\ \A k \in Named : b[k] = Nil => c[k] = Nil
  BY DEF RenamedBindings, Severed
<1>5. ASSUME NEW k \in Named, IsSound(t), b[k] = AssocAt(t, k) PROVE c[k] = AssocAt(s, k)
  <2>1. k \in Keys
    BY NamedAssumption
  <2>2. CASE b[k] = Nil
    BY <1>1, <1>4, <1>5, <2>1, <2>2, NamedBySlotsFacts
  <2>3. CASE b[k] # Nil
    <3>1. FindIndex(t, k) \in Taken(t) /\ t.contents[FindIndex(t, k)] = b[k]
      BY <1>5, <2>1, <2>3, RoomSearchable, FoundFacts
    <3>2. k \notin Severed(t, b)
      BY <2>3, <3>1 DEF Severed, Elements, Taken
    <3>3. c[k] = FindIndex(t, k)
      BY <1>2, <1>5, <2>3, <3>1, <3>2, Distinct
    <3> QED
      BY <1>1, <1>5, <2>1, <2>3, <3>3, NamedBySlotsFacts
  <2> QED
    BY <2>2, <2>3
<1> QED
  BY <1>3, <1>4, <1>5 DEF Bindings

-----------------------------------------------------------------------------
(* The invariant: the objects are named by slots, compiled code holds      *)
(* associations that there are, and no element is left uncounted.          *)

Inv == /\ Table \in Tables
       /\ \A i \in Taken(Table) : contents[i] = i
       /\ Bindings(bound, association)
       /\ Filled(Table) <= tally /\ tally < Len(contents)

LEMMA InvFacts ==
  ASSUME Inv
  PROVE  /\ Table \in Tables /\ HasRoom(Table)
         /\ Table.contents = contents /\ Table.tally = tally /\ Table.association = association
         /\ Elements(contents) = Taken(Table) /\ Count = Filled(Table)
         /\ Sound <=> IsSound(Table)
         /\ Answers = AnswersOf(Table)
<1>1. /\ Table.contents = contents /\ Table.tally = tally /\ Table.association = association
  BY DEF Table
<1>2. Table \in Tables /\ \A i \in Taken(Table) : contents[i] = i
  BY DEF Inv
<1>3. /\ Filled(Table) \in Nat /\ tally \in Nat /\ Len(contents) \in Nat
      /\ Filled(Table) <= tally /\ tally < Len(contents)
  <2>1. Filled(Table) \in Nat /\ Len(Table.contents) \in Nat
    BY <1>2, TableFacts
  <2>2. Table.tally \in Nat
    BY <1>2, TableFacts
  <2> QED
    BY <1>1, <2>1, <2>2 DEF Inv
<1>4. HasRoom(Table)
  BY <1>1, <1>3 DEF HasRoom
<1>5. Elements(contents) = Taken(Table)
  <2>1. Elements(contents) = { contents[i] : i \in Taken(Table) }
    BY <1>1 DEF Elements, Taken
  <2> QED
    BY <1>2, <2>1
<1>6. Sound <=> IsSound(Table)
  <2>1. \A i \in Taken(Table) : Entry(Table, i).key = association[i].key
    BY <1>1, <1>2 DEF Entry
  <2> QED
    BY <1>5, <2>1 DEF Sound, IsSound
<1>7. Answers = AnswersOf(Table)
  BY <1>1 DEF Answers, AnswersOf
<1> QED
  BY <1>1, <1>2, <1>4, <1>5, <1>6, <1>7 DEF Count, Filled

LEMMA BecomesInv ==
  ASSUME NEW t \in Tables, NEW b, Bindings(b, t.association),
         Filled(t) <= t.tally, t.tally < Len(t.contents), Becomes(t, b)
  PROVE  Inv' /\ Table' = Renamed(t, b) /\ bound' = RenamedBindings(t, b)
<1>1. Table' = Renamed(t, b) /\ bound' = RenamedBindings(t, b)
  BY DEF Becomes, Table, Renamed, RenamedBindings
<1>2. HasRoom(t)
  BY TableFacts DEF HasRoom
<1>3. PICK s, c : s = Renamed(t, b) /\ c = RenamedBindings(t, b)
  OBVIOUS
<1>4. s \in Tables /\ NamedBySlots(t, s)
  BY <1>3, RenamedFacts
<1>5. Bindings(c, s.association)
  BY <1>2, <1>3, RenamedBindingsFacts
<1>6. s.contents = contents' /\ s.association = association' /\ s.tally = tally' /\ Table' = s /\ bound' = c
  BY <1>1, <1>3 DEF Table
<1>7. /\ Filled(s) = Filled(t) /\ Taken(s) = Taken(t)
      /\ Len(s.contents) = Len(t.contents) /\ s.tally = t.tally
      /\ \A i \in Taken(t) : s.contents[i] = i
  BY <1>4 DEF NamedBySlots, Filled
<1> QED
  BY <1>1, <1>4, <1>5, <1>6, <1>7 DEF Inv

-----------------------------------------------------------------------------
(* The tables that the operations pass on.                                 *)

(* removeKey: empties the slot.                                            *)
Removed(t, i) == [t EXCEPT !.contents[i] = Nil, !.tally = @ - 1]

LEMMA RemovedFacts ==
  ASSUME NEW t \in Tables, NEW i \in Taken(t), Filled(t) <= t.tally,
         NEW u, u = Removed(t, i)
  PROVE  /\ u \in Tables /\ Len(u.contents) = Len(t.contents)
         /\ u.tally = t.tally - 1 /\ u.association = t.association
         /\ u.contents[i] = Nil
         /\ \A j \in 1..Len(t.contents) : j # i => u.contents[j] = t.contents[j]
         /\ Taken(u) = Taken(t) \ {i} /\ Filled(u) = Filled(t) - 1
<1>1. /\ Filled(t) \in Nat \ {0} /\ t.tally \in Nat /\ i \in 1..Len(t.contents)
      /\ Cardinality(Taken(t) \ {i}) = Filled(t) - 1
      /\ t \in [contents : Seq(Names \union {Nil}), tally : Nat, association : Objects]
  <2>1. IsFiniteSet(Taken(t)) /\ Taken(t) \subseteq 1..Len(t.contents)
    BY TableFacts
  <2>2. Cardinality(Taken(t) \ {i}) = Filled(t) - 1
    BY <2>1, FS_RemoveElement DEF Filled
  <2>3. Filled(t) # 0
    BY <2>1, FS_EmptySet DEF Filled
  <2>4. t.tally \in Nat
    BY TableFacts
  <2> QED
    BY <2>1, <2>2, <2>3, <2>4, TableFacts
<1>2. u = [contents |-> [t.contents EXCEPT ![i] = Nil], tally |-> t.tally - 1, association |-> t.association]
  <2> DEFINE w == [t EXCEPT !.contents = [@ EXCEPT ![i] = Nil]]
  <2>1. w = [contents |-> [t.contents EXCEPT ![i] = Nil], tally |-> t.tally, association |-> t.association]
    <3>1. t \in [contents : Seq(Names \union {Nil}), tally : Nat, association : Objects]
      BY <1>1
    <3> QED
      BY <3>1
  <2>2. u = [w EXCEPT !.tally = @ - 1]
    BY DEF Removed
  <2> HIDE DEF w
  <2> QED
    BY <2>1, <2>2
<1>3. /\ u.contents \in Seq(Names \union {Nil}) /\ Len(u.contents) = Len(t.contents)
      /\ DOMAIN u.contents = 1..Len(t.contents)
      /\ u.contents[i] = Nil
      /\ \A j \in 1..Len(t.contents) : j # i => u.contents[j] = t.contents[j]
  BY <1>1, <1>2, TableFacts
<1>4. Taken(u) = Taken(t) \ {i}
  <2>1. DOMAIN t.contents = 1..Len(t.contents)
    BY TableFacts
  <2> QED
    BY <1>3, <2>1 DEF Taken
<1>5. u \in [contents : Seq(Names \union {Nil}), tally : Nat, association : Objects]
  <2>1. t.tally - 1 \in Nat
    BY <1>1
  <2> QED
    BY <1>1, <1>2, <1>3, <2>1
<1>6. \A j \in Taken(u) : u.contents[j] \in DOMAIN u.association
  BY <1>1, <1>2, <1>3, <1>4, TableFacts
<1>7. u \in Tables
  BY <1>3, <1>5, <1>6, TableFacts DEF Tables
<1>8. u.tally = t.tally - 1 /\ u.association = t.association
  BY <1>2
<1>9. Filled(u) = Filled(t) - 1
  BY <1>1, <1>4 DEF Filled
<1> QED
  BY <1>3, <1>4, <1>7, <1>8, <1>9

(* at:put: grows a table that is full by moving what it holds.             *)
PutMoving(t, u) == IF IsFull(t, u) THEN Regrown(u) ELSE u

LEMMA PutMovingFacts ==
  ASSUME NEW t \in Tables, Filled(t) <= t.tally, t.tally < Len(t.contents),
         NEW k \in Keys, NEW v \in Values,
         NEW u, u = Stored(t, k, v, FindIndex(t, k)),
         NEW w, w = PutMoving(t, u)
  PROVE  /\ u \in Tables /\ w \in Tables
         /\ DOMAIN t.association \subseteq DOMAIN w.association
         /\ Filled(w) <= w.tally /\ w.tally < Len(w.contents)
<1>1. HasRoom(t) /\ Filled(t) \in Nat /\ t.tally \in Nat /\ Len(t.contents) \in Nat
  BY TableFacts DEF HasRoom
<1>2. /\ u \in Tables /\ Len(u.contents) = Len(t.contents)
      /\ DOMAIN t.association \subseteq DOMAIN u.association
      /\ AssocAt(t, k) = Nil => Extended(t, k, v, u)
      /\ AssocAt(t, k) # Nil => Updated(t, k, v, u)
  BY <1>1, StoredFacts
<1>3. /\ Filled(u) <= u.tally /\ u.tally <= Len(u.contents)
      /\ u.tally = Len(u.contents) => IsFull(t, u)
  BY <1>1, <1>2 DEF Extended, Updated, IsFull
<1>4. CASE IsFull(t, u)
  <2>1. w = Regrown(u)
    BY <1>4 DEF PutMoving
  <2>2. w \in Tables /\ Moved(u, BeforeNil(u.contents), w) /\ BeforeNil(u.contents) \in 0..Len(u.contents)
    BY <1>2, <2>1, RegrownFacts, BeforeNilFacts
  <2>3. HasRoom(w)
    BY <1>2, <2>2, RebuiltHasRoom DEF Moved
  <2>4. Filled(w) \in Nat
    BY <2>2, TableFacts
  <2> QED
    BY <1>2, <2>2, <2>3, <2>4 DEF Moved, Rebuilt, HasRoom
<1>5. CASE ~IsFull(t, u)
  <2>1. w = u
    BY <1>5 DEF PutMoving
  <2>2. u.tally < Len(u.contents)
    BY <1>1, <1>2, <1>3, <1>5, TableFacts
  <2> QED
    BY <1>2, <1>3, <2>1, <2>2
<1> QED
  BY <1>4, <1>5

-----------------------------------------------------------------------------
(* Each operation keeps the invariant. What the operations that put a key  *)
(* pass on is named once and for all: u, with the key stored, and w, after *)
(* it has grown.                                                           *)

LEMMA InvTable ==
  ASSUME Inv
  PROVE  /\ Table \in Tables /\ Bindings(bound, Table.association)
         /\ Filled(Table) <= Table.tally /\ Table.tally < Len(Table.contents)
BY InvFacts DEF Inv

LEMMA WiderBindings ==
  ASSUME NEW b, NEW o, NEW p, Bindings(b, o), DOMAIN o \subseteq DOMAIN p
  PROVE  Bindings(b, p)
BY DEF Bindings

LEMMA BoundAnew ==
  ASSUME NEW t \in Tables, NEW b, Bindings(b, t.association), NEW k \in Named, NEW u \in Tables,
         DOMAIN t.association \subseteq DOMAIN u.association, Searchable(u, k)
  PROVE  Bindings([b EXCEPT ![k] = AssocAt(u, k)], u.association)
<1>1. AssocAt(u, k) = Nil \/ AssocAt(u, k) \in DOMAIN u.association
  <2>1. k \in Keys
    BY NamedAssumption
  <2>2. /\ AssocAt(u, k) = u.contents[FindIndex(u, k)]
        /\ AssocAt(u, k) = Nil <=> FindIndex(u, k) \notin Taken(u)
    BY <2>1, FoundFacts
  <2> QED
    BY <2>2, TableFacts
<1> QED
  BY <1>1 DEF Bindings

LEMMA DictAtPutInv ==
  ASSUME Inv, NEW k \in Keys, NEW v \in Values, DictAtPut(k, v)
  PROVE  Inv'
<1> DEFINE u == Stored(Table, k, v, FindIndex(Table, k))
           w == AfterPut(Table, u)
<1>1. /\ u \in Tables /\ w \in Tables
      /\ DOMAIN Table.association \subseteq DOMAIN u.association
      /\ DOMAIN u.association \subseteq DOMAIN w.association
      /\ Filled(w) <= w.tally /\ w.tally < Len(w.contents)
  BY InvTable, AfterPutFacts
<1>2. Becomes(w, bound)
  BY DEF DictAtPut
<1> HIDE DEF u, w
<1>3. Bindings(bound, w.association)
  BY <1>1, InvTable DEF Bindings
<1> QED
  BY <1>1, <1>2, <1>3, BecomesInv

LEMMA AtPutInv ==
  ASSUME Inv, NEW k \in Keys, NEW v \in Values, AtPut(k, v)
  PROVE  Inv'
<1> DEFINE u == Stored(Table, k, v, FindIndex(Table, k))
           w == PutMoving(Table, u)
<1>1. /\ u \in Tables /\ w \in Tables
      /\ DOMAIN Table.association \subseteq DOMAIN w.association
      /\ Filled(w) <= w.tally /\ w.tally < Len(w.contents)
  BY InvTable, PutMovingFacts
<1>2. Becomes(w, bound)
  BY DEF AtPut, PutMoving
<1> HIDE DEF u, w
<1>3. Bindings(bound, w.association)
  BY <1>1, InvTable DEF Bindings
<1> QED
  BY <1>1, <1>2, <1>3, BecomesInv

LEMMA AnalyzeDictionaryVarInv ==
  ASSUME Inv, NEW k \in Named, AnalyzeDictionaryVar(k)
  PROVE  Inv'
<1> DEFINE b == [bound EXCEPT ![k] = AssocAt(Table, k)]
<1>1. k \in Keys
  BY NamedAssumption
<1>2. Bindings(b, Table.association)
  BY <1>1, InvTable, InvFacts, RoomSearchable, BoundAnew
<1>3. Becomes(Table, b)
  BY DEF AnalyzeDictionaryVar
<1> HIDE DEF b
<1> QED
  BY <1>2, <1>3, InvTable, BecomesInv

LEMMA AnalyzeGlobalVarInv ==
  ASSUME Inv, NEW k \in Named, AnalyzeGlobalVar(k)
  PROVE  Inv'
<1> DEFINE u == Stored(Table, k, Nil, FindIndex(Table, k))
           w == AfterPut(Table, u)
           b == [bound EXCEPT ![k] = AssocAt(u, k)]
<1>1. k \in Keys /\ Nil \in Values
  BY NamedAssumption, NilAssumption
<1>2. /\ u \in Tables /\ w \in Tables
      /\ DOMAIN Table.association \subseteq DOMAIN u.association
      /\ DOMAIN u.association \subseteq DOMAIN w.association
      /\ Filled(w) <= w.tally /\ w.tally < Len(w.contents)
  BY <1>1, InvTable, AfterPutFacts
<1>3. Becomes(w, b) /\ AssocAt(Table, k) = Nil
  BY DEF AnalyzeGlobalVar
<1>4. Searchable(u, k)
  <2>1. Extended(Table, k, Nil, u)
    BY <1>1, <1>3, InvFacts, StoredFacts
  <2> HIDE DEF u
  <2>2. FindIndex(Table, k) \in Taken(u) /\ Stops(u, k, FindIndex(Table, k))
    BY <2>1 DEF Extended, Stops, Entry
  <2> QED
    BY <1>2, <2>2, TableFacts DEF Searchable
<1> HIDE DEF u, w
<1>5. Bindings(b, u.association)
  BY <1>2, <1>4, InvTable, BoundAnew
<1>6. Bindings(b, w.association)
  <2> HIDE DEF b
  <2> QED
    BY <1>2, <1>5 DEF Bindings
<1> HIDE DEF b
<1> QED
  BY <1>2, <1>3, <1>6, BecomesInv

LEMMA RemoveKeyInv ==
  ASSUME Inv, NEW k \in Keys, RemoveKey(k)
  PROVE  Inv'
<1> DEFINE i == FindIndex(Table, k)
           u == Removed(Table, i)
<1>1. i \in Taken(Table)
  BY InvFacts, RoomSearchable, FoundFacts DEF RemoveKey
<1>2. Becomes(u, bound)
  BY DEF RemoveKey, Removed
<1> HIDE DEF i
<1>3. /\ u \in Tables /\ Len(u.contents) = Len(Table.contents)
      /\ u.tally = Table.tally - 1 /\ u.association = Table.association
      /\ Filled(u) = Filled(Table) - 1
  BY <1>1, InvTable, RemovedFacts
<1> HIDE DEF u
<1>4. Table.tally \in Nat /\ Filled(Table) \in Nat /\ Len(Table.contents) \in Nat
  BY InvTable, TableFacts
<1>5. Filled(u) <= u.tally /\ u.tally < Len(u.contents) /\ Bindings(bound, u.association)
  BY <1>3, <1>4, InvTable
<1> QED
  BY <1>2, <1>3, <1>5, BecomesInv

(* Compiled code changes the value of an association.                      *)
LEMMA AssignGlobalFacts ==
  ASSUME Inv, NEW k \in Named, NEW v \in Values, AssignGlobal(k, v)
  PROVE  /\ Inv' /\ contents' = contents /\ tally' = tally /\ bound' = bound
         /\ bound[k] \in DOMAIN association /\ DOMAIN association' = DOMAIN association
         /\ association'[bound[k]] = [key |-> association[bound[k]].key, value |-> v]
         /\ \A a \in DOMAIN association : a # bound[k] => association'[a] = association[a]
<1> DEFINE a == bound[k]
<1>1. /\ association' = [association EXCEPT ![a] = [association[a] EXCEPT !.value = v]]
      /\ contents' = contents /\ tally' = tally /\ bound' = bound /\ a # Nil
  BY DEF AssignGlobal
<1>2. Table \in Tables /\ Bindings(bound, association)
  BY DEF Inv
<1>3. a \in DOMAIN association
  BY <1>1, <1>2 DEF Bindings
<1>4. /\ DOMAIN association \subseteq Names /\ IsFiniteSet(DOMAIN association)
      /\ \A x \in DOMAIN association : association[x] \in Association
      /\ Table \in [contents : Seq(Names \union {Nil}), tally : Nat, association : Objects]
      /\ Len(contents) # 0 /\ \A i \in Taken(Table) : contents[i] \in DOMAIN association
  BY <1>2, InvFacts, TableFacts
<1> HIDE DEF a
<1>5. [association[a] EXCEPT !.value = v] = [key |-> association[a].key, value |-> v]
  BY <1>3, <1>4 DEF Association
<1>6. /\ DOMAIN association' = DOMAIN association
      /\ association' = [x \in DOMAIN association' |-> association'[x]]
      /\ association'[a] = [key |-> association[a].key, value |-> v]
      /\ \A x \in DOMAIN association : x # a => association'[x] = association[x]
  BY <1>1, <1>3, <1>5
<1>7. association' \in Objects
  <2>1. association[a].key \in Keys
    BY <1>3, <1>4 DEF Association
  <2>2. \A x \in DOMAIN association' : association'[x] \in Association
    BY <1>3, <1>4, <1>6, <2>1 DEF Association
  <2> QED
    BY <1>4, <1>6, <2>2, ObjectsFacts
<1>8. Table' \in [contents : Seq(Names \union {Nil}), tally : Nat, association : Objects]
  BY <1>1, <1>4, <1>7 DEF Table
<1>9. Taken(Table') = Taken(Table) /\ Table'.contents = contents
  BY <1>1 DEF Table, Taken
<1>10. Table' \in Tables
  <2>1. Table'.association = association'
    BY DEF Table
  <2> QED
    BY <1>4, <1>6, <1>8, <1>9, <2>1 DEF Tables
<1>11. Inv'
  BY <1>1, <1>2, <1>6, <1>9, <1>10 DEF Inv, Bindings, Filled
<1> QED
  BY <1>1, <1>3, <1>6, <1>11 DEF a

LEMMA InitInv == Init => Inv
<1> SUFFICES ASSUME Init PROVE Inv
  OBVIOUS
<1>1. InitialSize \in Nat \ {0, 1}
  BY SizeAssumption
<1>2. /\ contents = Empty(InitialSize) /\ tally = 0 /\ association = [a \in {} |-> Nil]
      /\ bound = [k \in Named |-> Nil]
  BY DEF Init
<1>3. /\ contents \in Seq(Names \union {Nil}) /\ Len(contents) = InitialSize
      /\ DOMAIN contents = 1..InitialSize /\ \A i \in 1..InitialSize : contents[i] = Nil
  BY <1>1, <1>2 DEF Empty
<1>4. association \in Objects
  BY <1>2, ObjectsFacts, FS_EmptySet
<1>5. /\ Table \in [contents : Seq(Names \union {Nil}), tally : Nat, association : Objects]
      /\ Table.contents = contents
  BY <1>2, <1>3, <1>4 DEF Table
<1>6. Taken(Table) = {} /\ Filled(Table) = 0
  BY <1>3, <1>5, FS_EmptySet DEF Taken, Filled
<1>7. Table \in Tables
  BY <1>1, <1>3, <1>5, <1>6 DEF Tables
<1>8. Bindings(bound, association)
  BY <1>2 DEF Bindings
<1> QED
  BY <1>1, <1>2, <1>3, <1>6, <1>7, <1>8 DEF Inv

LEMMA NextInv ==
  ASSUME Inv, [Next]_vars
  PROVE  Inv'
<1>1. ASSUME UNCHANGED vars PROVE Inv'
  BY <1>1 DEF Inv, vars, Table, Taken, Bindings, Filled
<1>2. ASSUME NEW k \in Keys, RemoveKey(k) PROVE Inv'
  BY <1>2, RemoveKeyInv
<1>3. ASSUME NEW k \in Named, AnalyzeDictionaryVar(k) PROVE Inv'
  BY <1>3, AnalyzeDictionaryVarInv
<1>4. ASSUME NEW k \in Named, AnalyzeGlobalVar(k) PROVE Inv'
  BY <1>4, AnalyzeGlobalVarInv
<1>5. ASSUME NEW k \in Keys, NEW v \in Values, DictAtPut(k, v) PROVE Inv'
  BY <1>5, DictAtPutInv
<1>6. ASSUME NEW k \in Keys, NEW v \in Values, AtPut(k, v) PROVE Inv'
  BY <1>6, AtPutInv
<1>7. ASSUME NEW k \in Named, NEW v \in Values, AssignGlobal(k, v) PROVE Inv'
  BY <1>7, AssignGlobalFacts
<1> QED
  BY <1>1, <1>2, <1>3, <1>4, <1>5, <1>6, <1>7 DEF Next

LEMMA InvHolds == Spec => []Inv
<1>1. Init => Inv
  BY InitInv
<1>2. Inv /\ [Next]_vars => Inv'
  BY NextInv
<1> QED
  BY <1>1, <1>2, PTL DEF Spec

(* The table is never full, and never takes itself to be emptier than it   *)
(* is: findIndex of either side ends, for every key, every hash and every  *)
(* order of the operations of both (Dictionary.c:232, Dictionary.st:155).   *)
THEOREM SearchEndsHolds == Spec => []SearchEnds
<1>1. Inv => SearchEnds
  BY InvFacts DEF Inv, SearchEnds
<1> QED
  BY <1>1, InvHolds, PTL

-----------------------------------------------------------------------------
(* What each operation does to the answers, to the count and to the        *)
(* bindings of compiled code.                                              *)

(* A key has the association it had.                                       *)
Keeps(t, w) == \A l \in Keys : AssocAt(t, l) # Nil => AssocAt(w, l) = AssocAt(t, l)

(* The removal of an element that is not in the way of another.            *)
LEMMA RemovedSound ==
  ASSUME NEW t \in Tables, HasRoom(t), IsSound(t), NEW k \in Keys, FindIndex(t, k) \in Taken(t),
         Filled(t) <= t.tally,
         \A j \in Taken(t) : Entry(t, j).key # k =>
           \A n \in 0..(Len(t.contents) - 1) :
             Probe(t, Entry(t, j).key, n) = FindIndex(t, k) =>
               \E m \in 0..n : Probe(t, Entry(t, j).key, m) = j,
         NEW u, u = Removed(t, FindIndex(t, k))
  PROVE  /\ IsSound(u) /\ Content(u) = { e \in Content(t) : e.key # k }
         /\ \A l \in Keys : l # k /\ AssocAt(t, l) # Nil => AssocAt(u, l) = AssocAt(t, l)
<1> DEFINE i == FindIndex(t, k)
<1>1. /\ u \in Tables /\ Len(u.contents) = Len(t.contents) /\ u.association = t.association
      /\ \A j \in 1..Len(t.contents) : j # i => u.contents[j] = t.contents[j]
      /\ Taken(u) = Taken(t) \ {i}
  BY RemovedFacts
<1>2. /\ Taken(t) \subseteq 1..Len(t.contents)
      /\ \A j \in 1..Len(t.contents) : j \in Taken(t) <=> t.contents[j] # Nil
      /\ Entry(t, i).key = k
  BY RoomSearchable, FoundFacts, TableFacts
<1>3. \A j \in Taken(u) : /\ j \in Taken(t) /\ j # i /\ u.contents[j] = t.contents[j]
                          /\ Entry(u, j) = Entry(t, j) /\ Entry(t, j).key # k
  <2>1. \A j \in Taken(u) : j \in Taken(t) /\ j # i /\ u.contents[j] = t.contents[j]
    BY <1>1, <1>2
  <2>2. \A j \in Taken(t) : j # i => Entry(t, j).key # k
    BY DEF IsSound
  <2> QED
    BY <1>1, <2>1, <2>2 DEF Entry
<1>4. ASSUME NEW j \in Taken(u) PROVE FindIndex(u, Entry(t, j).key) = j
  <2> DEFINE l == Entry(t, j).key
  <2>1. j \in Taken(t) /\ l \in Keys /\ l # k /\ FindIndex(t, l) = j
    BY <1>3, EntryFacts DEF IsSound
  <2>2. PICK n \in Nat : FirstStop(t, l, n) /\ j = Probe(t, l, n)
    BY <2>1, RoomSearchable, SearchFacts
  <2>3. \A m : Probe(u, l, m) = Probe(t, l, m)
    BY <1>1 DEF Probe
  <2>4. Stops(t, l, j)
    BY DEF Stops, Entry
  <2>5. ASSUME NEW m \in 0..(n - 1) PROVE ~Stops(u, l, Probe(t, l, m))
    <3>1. m \in Nat /\ m \in 0..(Len(t.contents) - 1) /\ \A x \in 0..m : x \in 0..(n - 1)
      BY <2>2, TableFacts DEF FirstStop
    <3>2. \A x \in 0..m : ~Stops(t, l, Probe(t, l, x))
      BY <2>2, <3>1 DEF FirstStop
    <3>3. Probe(t, l, m) # i
      BY <2>1, <2>4, <3>1, <3>2
    <3>4. Probe(t, l, m) \in 1..Len(t.contents)
      BY <2>1, <3>1, ProbeType
    <3>5. u.contents[Probe(t, l, m)] = t.contents[Probe(t, l, m)]
      BY <1>1, <3>3, <3>4
    <3>6. ~Stops(t, l, Probe(t, l, m))
      BY <3>1, <3>2
    <3> QED
      BY <1>1, <3>5, <3>6 DEF Stops
  <2>6. Stops(u, l, j)
    BY <1>3, <2>4 DEF Stops, Entry
  <2>7. FirstStop(u, l, n)
    BY <1>1, <2>2, <2>3, <2>5, <2>6 DEF FirstStop
  <2> HIDE DEF l
  <2>8. FindIndex(u, l) = j
    BY <1>1, <2>1, <2>2, <2>3, <2>7, SearchUnique
  <2> QED
    BY <2>8 DEF l
<1>5. IsSound(u)
  BY <1>3, <1>4 DEF IsSound
<1>6. Content(u) = { e \in Content(t) : e.key # k }
  <2>1. ASSUME NEW j \in Taken(t), Entry(t, j).key # k PROVE Entry(t, j) \in Content(u)
    <3>1. j \in Taken(u)
      BY <1>1, <1>2, <2>1
    <3> QED
      BY <1>3, <3>1 DEF Content
  <2> QED
    BY <1>3, <2>1 DEF Content
<1>7. ASSUME NEW l \in Keys, l # k, AssocAt(t, l) # Nil PROVE AssocAt(u, l) = AssocAt(t, l)
  <2> DEFINE j == FindIndex(t, l)
  <2>1. j \in Taken(t) /\ AssocAt(t, l) = t.contents[j] /\ Entry(t, j).key = l
    BY <1>7, RoomSearchable, FoundFacts
  <2>2. j \in Taken(u)
    BY <1>1, <1>2, <1>7, <2>1
  <2>3. FindIndex(u, l) = j /\ u.contents[j] = t.contents[j]
    BY <1>3, <1>4, <2>1, <2>2
  <2> QED
    BY <2>1, <2>3 DEF AssocAt
<1> QED
  BY <1>5, <1>6, <1>7

LEMMA RemoveAnswers ==
  ASSUME NEW t \in Tables, HasRoom(t), IsSound(t),
         NEW u \in Tables, HasRoom(u), IsSound(u),
         NEW k \in Keys, Content(u) = { e \in Content(t) : e.key # k }
  PROVE  AnswersOf(u) = [AnswersOf(t) EXCEPT ![k] = "absent"]
<1>1. AnswersOf(u)[k] = "absent"
  BY AnswersFacts
<1>2. ASSUME NEW l \in Keys, l # k PROVE AnswersOf(u)[l] = AnswersOf(t)[l]
  <2>1. ASSUME NEW e \in Content(t), e.key = l PROVE AnswersOf(u)[l] = AnswersOf(t)[l]
    <3>1. e \in Content(u)
      BY <1>2, <2>1
    <3> QED
      BY <2>1, <3>1, AnswersFacts
  <2>2. CASE \A e \in Content(t) : e.key # l
    BY <2>2, AnswersFacts
  <2> QED
    BY <2>1, <2>2
<1> QED
  BY <1>1, <1>2 DEF AnswersOf

(* growDictionary aside, what is put leaves the other associations.        *)
LEMMA StoredKeeps ==
  ASSUME NEW t \in Tables, HasRoom(t), IsSound(t), NEW k \in Keys, NEW v \in Values,
         NEW u, u = Stored(t, k, v, FindIndex(t, k))
  PROVE  Keeps(t, u)
<1> SUFFICES ASSUME NEW l \in Keys, AssocAt(t, l) # Nil PROVE AssocAt(u, l) = AssocAt(t, l)
  BY DEF Keeps
<1>1. FindIndex(t, l) \in Taken(t) /\ AssocAt(t, l) = t.contents[FindIndex(t, l)]
  BY RoomSearchable, FoundFacts
<1>2. FindIndex(u, l) = FindIndex(t, l) /\ u.contents[FindIndex(t, l)] = t.contents[FindIndex(t, l)]
  BY <1>1, StoredSound
<1> QED
  BY <1>1, <1>2 DEF AssocAt

(* grow of a table without an empty slot moves everything.                 *)
LEMMA RegrownFull ==
  ASSUME NEW u \in Tables, IsSound(u), Filled(u) >= Len(u.contents),
         NEW w, w = Regrown(u)
  PROVE  /\ w \in Tables /\ IsSound(w) /\ Content(w) = Content(u) /\ w.tally = Filled(w)
         /\ \A i \in Taken(u) : AssocAt(w, Entry(u, i).key) = u.contents[i]
<1>1. Taken(u) = 1..Len(u.contents)
  <2>1. Taken(u) \subseteq 1..Len(u.contents) /\ Filled(u) = Len(u.contents)
    BY TableFacts
  <2>2. IsFiniteSet(1..Len(u.contents)) /\ Cardinality(1..Len(u.contents)) = Len(u.contents)
    BY TableFacts, FS_Interval
  <2> QED
    BY <2>1, <2>2, FS_Subset DEF Filled
<1>2. BeforeNil(u.contents) = Len(u.contents)
  BY <1>1, BeforeNilFacts
<1>3. w \in Tables /\ Moved(u, Len(u.contents), w)
  BY <1>2, RegrownFacts
<1>4. IsSound(w) /\ Content(w) = Content(u)
  BY <1>3, AllRebuilt DEF Moved
<1>5. Before(u, Len(u.contents)) = Taken(u)
  BY BeforeFacts
<1>6. ASSUME NEW i \in Taken(u) PROVE AssocAt(w, Entry(u, i).key) = u.contents[i]
  <2>1. PICK j \in Taken(w) : w.contents[j] = u.contents[i]
    BY <1>3, <1>5 DEF Moved
  <2>2. Entry(w, j).key = Entry(u, i).key
    BY <1>3, <2>1 DEF Moved, Entry
  <2>3. FindIndex(w, Entry(u, i).key) = j
    BY <1>4, <2>2 DEF IsSound
  <2> QED
    BY <2>1, <2>3 DEF AssocAt
<1> QED
  BY <1>3, <1>4, <1>6 DEF Moved

LEMMA BecomesShows ==
  ASSUME NEW t \in Tables, IsSound(t), NEW b, Bindings(b, t.association),
         Filled(t) <= t.tally, t.tally < Len(t.contents), Becomes(t, b)
  PROVE  /\ IsSound(Table') /\ AnswersOf(Table') = AnswersOf(t)
         /\ tally' = t.tally /\ Filled(Table') = Filled(t)
         /\ \A l \in Named : b[l] = Nil \/ b[l] = AssocAt(t, l) =>
                               bound'[l] = Nil \/ bound'[l] = AssocAt(Table', l)
<1>1. Table' = Renamed(t, b) /\ bound' = RenamedBindings(t, b)
  BY BecomesInv
<1>2. HasRoom(t)
  BY TableFacts DEF HasRoom
<1>3. PICK s, c : s = Renamed(t, b) /\ c = RenamedBindings(t, b)
  OBVIOUS
<1>4. s \in Tables /\ NamedBySlots(t, s)
  BY <1>3, RenamedFacts
<1>5. Filled(s) = Filled(t) /\ HasRoom(s) /\ Content(s) = Content(t) /\ IsSound(s)
  BY <1>2, <1>4, NamedBySlotsFacts
<1>6. AnswersOf(s) = AnswersOf(t)
  BY <1>2, <1>4, <1>5, SameAnswers
<1>7. \A l \in Named : /\ b[l] = Nil => c[l] = Nil
                       /\ b[l] = AssocAt(t, l) => c[l] = AssocAt(s, l)
  BY <1>2, <1>3, RenamedBindingsFacts
<1>8. tally' = t.tally
  BY DEF Becomes
<1>9. Table' = s /\ bound' = c
  BY <1>1, <1>3
<1> QED
  BY <1>5, <1>6, <1>7, <1>8, <1>9

(* The bindings of the keys in L stay shared.                              *)
StayShared(L) == \A l \in L : (bound[l] = Nil \/ bound[l] = AssocAt(Table, l)) =>
                                (bound'[l] = Nil \/ bound'[l] = AssocAt(Table', l))

(* dictAtPut, alone and for a global that the compiler meets.              *)
LEMMA DictAtPutShows ==
  ASSUME Inv, IsSound(Table), NEW k \in Keys, NEW v \in Values, DictAtPut(k, v)
  PROVE  /\ IsSound(Table')
         /\ AnswersOf(Table') = [AnswersOf(Table) EXCEPT ![k] = v]
         /\ ~GrowsInC(k) => /\ tally = Filled(Table) => tally' = Filled(Table')
                            /\ StayShared(Named)
<1> DEFINE u == Stored(Table, k, v, FindIndex(Table, k))
           w == AfterPut(Table, u)
<1>1. /\ u \in Tables /\ w \in Tables
      /\ DOMAIN Table.association \subseteq DOMAIN u.association
      /\ DOMAIN u.association \subseteq DOMAIN w.association
      /\ Filled(w) <= w.tally /\ w.tally < Len(w.contents)
      /\ IsSound(w) /\ Content(w) = WithPut(Content(Table), k, v)
      /\ ~IsFull(Table, u) => w = u
  BY InvTable, AfterPutFacts
<1>2. Becomes(w, bound)
  BY DEF DictAtPut
<1>3. /\ Len(u.contents) = Len(Table.contents)
      /\ AssocAt(Table, k) = Nil => Extended(Table, k, v, u)
      /\ AssocAt(Table, k) # Nil => Updated(Table, k, v, u)
      /\ Keeps(Table, u)
  BY InvFacts, StoredFacts, StoredKeeps
<1> HIDE DEF u, w
<1>4. Bindings(bound, w.association)
  BY <1>1, InvTable DEF Bindings
<1>5. /\ IsSound(Table') /\ AnswersOf(Table') = AnswersOf(w)
      /\ tally' = w.tally /\ Filled(Table') = Filled(w)
      /\ \A l \in Named : bound[l] = Nil \/ bound[l] = AssocAt(w, l) =>
                            bound'[l] = Nil \/ bound'[l] = AssocAt(Table', l)
  BY <1>1, <1>2, <1>4, BecomesShows
<1>6. AnswersOf(w) = [AnswersOf(Table) EXCEPT ![k] = v]
  <2>1. HasRoom(w)
    BY <1>1, TableFacts DEF HasRoom
  <2> QED
    BY <1>1, <2>1, InvFacts, PutAnswers
<1>7. ASSUME ~GrowsInC(k)
      PROVE  (tally = Filled(Table) => tally' = Filled(Table')) /\ StayShared(Named)
  <2>1. ~IsFull(Table, u)
    <3>1. CASE AssocAt(Table, k) = Nil
      BY <1>3, <1>7, <3>1, InvFacts DEF IsFull, GrowsInC, Extended
    <3>2. CASE AssocAt(Table, k) # Nil
      BY <1>3, <3>2 DEF IsFull, Updated
    <3> QED
      BY <3>1, <3>2
  <2>2. w = u
    BY <1>1, <2>1
  <2>3. tally = Filled(Table) => u.tally = Filled(u)
    BY <1>3, InvFacts DEF Extended, Updated
  <2>4. \A l \in Named : l \in Keys
    BY NamedAssumption
  <2> QED
    BY <1>3, <1>5, <2>2, <2>3, <2>4 DEF StayShared, Keeps
<1> QED
  BY <1>5, <1>6, <1>7

LEMMA AnalyzeGlobalVarShows ==
  ASSUME Inv, IsSound(Table), NEW k \in Named, AnalyzeGlobalVar(k)
  PROVE  /\ IsSound(Table')
         /\ AnswersOf(Table') = [AnswersOf(Table) EXCEPT ![k] = Nil]
         /\ ~GrowsInC(k) => /\ tally = Filled(Table) => tally' = Filled(Table')
                            /\ StayShared(Named)
<1> DEFINE u == Stored(Table, k, Nil, FindIndex(Table, k))
           w == AfterPut(Table, u)
           b == [bound EXCEPT ![k] = AssocAt(u, k)]
<1>1. k \in Keys /\ Nil \in Values
  BY NamedAssumption, NilAssumption
<1>2. /\ u \in Tables /\ w \in Tables
      /\ DOMAIN Table.association \subseteq DOMAIN u.association
      /\ DOMAIN u.association \subseteq DOMAIN w.association
      /\ Filled(w) <= w.tally /\ w.tally < Len(w.contents)
      /\ IsSound(w) /\ Content(w) = WithPut(Content(Table), k, Nil)
      /\ ~IsFull(Table, u) => w = u
  BY <1>1, InvTable, AfterPutFacts
<1>3. Becomes(w, b) /\ AssocAt(Table, k) = Nil
  BY DEF AnalyzeGlobalVar
<1>4. Extended(Table, k, Nil, u) /\ Len(u.contents) = Len(Table.contents) /\ Keeps(Table, u)
  BY <1>1, <1>3, InvFacts, StoredFacts, StoredKeeps
<1> HIDE DEF u, w
<1>5. Searchable(u, k)
  <2>1. FindIndex(Table, k) \in Taken(u) /\ Stops(u, k, FindIndex(Table, k))
    BY <1>4 DEF Extended, Stops, Entry
  <2> QED
    BY <1>2, <2>1, TableFacts DEF Searchable
<1>6. Bindings(b, u.association)
  BY <1>2, <1>5, InvTable, BoundAnew
<1>7. b[k] = AssocAt(u, k) /\ \A l \in Named : l # k => b[l] = bound[l]
  BY InvTable DEF Bindings
<1> HIDE DEF b
<1>8. Bindings(b, w.association)
  BY <1>2, <1>6 DEF Bindings
<1>9. /\ IsSound(Table') /\ AnswersOf(Table') = AnswersOf(w)
      /\ tally' = w.tally /\ Filled(Table') = Filled(w)
      /\ \A l \in Named : b[l] = Nil \/ b[l] = AssocAt(w, l) =>
                            bound'[l] = Nil \/ bound'[l] = AssocAt(Table', l)
  BY <1>2, <1>3, <1>8, BecomesShows
<1>10. AnswersOf(w) = [AnswersOf(Table) EXCEPT ![k] = Nil]
  <2>1. HasRoom(w)
    BY <1>2, TableFacts DEF HasRoom
  <2> QED
    BY <1>1, <1>2, <2>1, InvFacts, PutAnswers
<1>11. ASSUME ~GrowsInC(k)
       PROVE  (tally = Filled(Table) => tally' = Filled(Table')) /\ StayShared(Named)
  <2>1. w = u
    BY <1>2, <1>3, <1>4, <1>11, InvFacts DEF IsFull, GrowsInC, Extended
  <2>2. tally = Filled(Table) => u.tally = Filled(u)
    BY <1>4, InvFacts DEF Extended
  <2>3. \A l \in Named : l \in Keys
    BY NamedAssumption
  <2> QED
    BY <1>4, <1>7, <1>9, <2>1, <2>2, <2>3 DEF StayShared, Keeps
<1> QED
  BY <1>9, <1>10, <1>11

LEMMA AtPutShows ==
  ASSUME Inv, IsSound(Table), NEW k \in Keys, NEW v \in Values, AtPut(k, v), ~GrowsOverNil(k)
  PROVE  /\ IsSound(Table')
         /\ AnswersOf(Table') = [AnswersOf(Table) EXCEPT ![k] = v]
         /\ tally = Filled(Table) => tally' = Filled(Table')
         /\ StayShared(Named)
<1> DEFINE u == Stored(Table, k, v, FindIndex(Table, k))
           w == PutMoving(Table, u)
<1>1. /\ u \in Tables /\ w \in Tables
      /\ DOMAIN Table.association \subseteq DOMAIN w.association
      /\ Filled(w) <= w.tally /\ w.tally < Len(w.contents)
  BY InvTable, PutMovingFacts
<1>2. Becomes(w, bound)
  BY DEF AtPut, PutMoving
<1>3. /\ Len(u.contents) = Len(Table.contents)
      /\ AssocAt(Table, k) = Nil => Extended(Table, k, v, u)
      /\ AssocAt(Table, k) # Nil => Updated(Table, k, v, u)
      /\ IsSound(u) /\ Content(u) = WithPut(Content(Table), k, v)
      /\ Keeps(Table, u)
  BY InvFacts, StoredFacts, StoredSound, StoredKeeps
<1>4. w = IF IsFull(Table, u) THEN Regrown(u) ELSE u
  BY DEF PutMoving
<1> HIDE DEF u, w
<1>5. /\ IsSound(w) /\ Content(w) = Content(u)
      /\ tally = Filled(Table) => w.tally = Filled(w)
      /\ Keeps(Table, w)
  <2>1. CASE ~IsFull(Table, u)
    <3>1. w = u
      BY <1>4, <2>1
    <3>2. tally = Filled(Table) => u.tally = Filled(u)
      BY <1>3, InvFacts DEF Extended, Updated
    <3> QED
      BY <1>3, <3>1, <3>2
  <2>2. CASE IsFull(Table, u)
    <3>1. AssocAt(Table, k) = Nil /\ Extended(Table, k, v, u)
      BY <1>3, <2>2 DEF IsFull, Updated
    <3>2. tally + 1 = Len(contents)
      BY <1>3, <2>2, <3>1, InvFacts DEF IsFull, Extended
    <3>3. Filled(u) >= Len(u.contents)
      <4>1. ~(Filled(Table) + 1 < Len(contents))
        BY <3>1, <3>2, InvFacts DEF GrowsOverNil, GrowsInC
      <4>2. Filled(u) = Filled(Table) + 1 /\ Filled(Table) \in Nat /\ Len(contents) \in Nat
            /\ Len(u.contents) = Len(contents)
        <5>1. Filled(Table) \in Nat /\ Len(Table.contents) \in Nat /\ Table.contents = contents
          BY InvFacts, TableFacts
        <5> QED
          BY <1>3, <3>1, <5>1 DEF Extended
      <4> QED
        BY <4>1, <4>2
    <3>4. w = Regrown(u)
      BY <1>4, <2>2
    <3>5. /\ IsSound(w) /\ Content(w) = Content(u) /\ w.tally = Filled(w)
          /\ \A i \in Taken(u) : AssocAt(w, Entry(u, i).key) = u.contents[i]
      BY <1>1, <1>3, <3>3, <3>4, RegrownFull
    <3>6. ASSUME NEW l \in Keys, AssocAt(Table, l) # Nil PROVE AssocAt(w, l) = AssocAt(Table, l)
      <4> DEFINE i == FindIndex(Table, l)
      <4>1. i \in Taken(Table) /\ AssocAt(Table, l) = Table.contents[i] /\ Entry(Table, i).key = l
        BY <3>6, InvFacts, RoomSearchable, FoundFacts
      <4>2. i \in Taken(u) /\ u.contents[i] = Table.contents[i] /\ Entry(u, i).key = l
        BY <3>1, <4>1 DEF Extended
      <4> QED
        BY <3>5, <4>1, <4>2
    <3> QED
      BY <3>5, <3>6 DEF Keeps
  <2> QED
    BY <2>1, <2>2
<1>6. Bindings(bound, w.association)
  BY <1>1, InvTable DEF Bindings
<1>7. /\ IsSound(Table') /\ AnswersOf(Table') = AnswersOf(w)
      /\ tally' = w.tally /\ Filled(Table') = Filled(w)
      /\ \A l \in Named : bound[l] = Nil \/ bound[l] = AssocAt(w, l) =>
                            bound'[l] = Nil \/ bound'[l] = AssocAt(Table', l)
  BY <1>1, <1>2, <1>5, <1>6, BecomesShows
<1>8. AnswersOf(w) = [AnswersOf(Table) EXCEPT ![k] = v]
  <2>1. HasRoom(w)
    BY <1>1, TableFacts DEF HasRoom
  <2> QED
    BY <1>1, <1>3, <1>5, <2>1, InvFacts, PutAnswers
<1>9. StayShared(Named)
  <2>1. \A l \in Named : l \in Keys
    BY NamedAssumption
  <2> QED
    BY <1>5, <1>7, <2>1 DEF StayShared, Keeps
<1> QED
  BY <1>5, <1>7, <1>8, <1>9

LEMMA AnalyzeDictionaryVarShows ==
  ASSUME Inv, IsSound(Table), NEW k \in Named, AnalyzeDictionaryVar(k)
  PROVE  /\ IsSound(Table')
         /\ tally = Filled(Table) => tally' = Filled(Table')
         /\ StayShared(Named)
<1> DEFINE b == [bound EXCEPT ![k] = AssocAt(Table, k)]
<1>1. k \in Keys
  BY NamedAssumption
<1>2. Bindings(b, Table.association)
  BY <1>1, InvTable, InvFacts, RoomSearchable, BoundAnew
<1>3. Becomes(Table, b)
  BY DEF AnalyzeDictionaryVar
<1>4. b[k] = AssocAt(Table, k) /\ \A l \in Named : l # k => b[l] = bound[l]
  BY InvTable DEF Bindings
<1> HIDE DEF b
<1>5. /\ IsSound(Table') /\ tally' = Table.tally /\ Filled(Table') = Filled(Table)
      /\ \A l \in Named : b[l] = Nil \/ b[l] = AssocAt(Table, l) =>
                            bound'[l] = Nil \/ bound'[l] = AssocAt(Table', l)
  BY <1>2, <1>3, InvTable, BecomesShows
<1> QED
  BY <1>4, <1>5, InvFacts DEF StayShared

LEMMA RemoveKeyShows ==
  ASSUME Inv, IsSound(Table), NEW k \in Keys, RemoveKey(k), ~InTheWay(k)
  PROVE  /\ IsSound(Table')
         /\ AnswersOf(Table)[k] # "absent"
         /\ AnswersOf(Table') = [AnswersOf(Table) EXCEPT ![k] = "absent"]
         /\ tally = Filled(Table) => tally' = Filled(Table')
         /\ StayShared(Named \ {k})
<1> DEFINE i == FindIndex(Table, k)
           u == Removed(Table, i)
<1>1. i \in Taken(Table) /\ AssocAt(Table, k) = Table.contents[i] /\ AssocAt(Table, k) # Nil
  BY InvFacts, RoomSearchable, FoundFacts DEF RemoveKey
<1>2. Becomes(u, bound)
  BY DEF RemoveKey, Removed
<1>3. /\ u \in Tables /\ Len(u.contents) = Len(Table.contents)
      /\ u.tally = Table.tally - 1 /\ u.association = Table.association
      /\ Filled(u) = Filled(Table) - 1
  <2> HIDE DEF i
  <2> QED
    BY <1>1, InvTable, RemovedFacts
<1>4. \A j \in Taken(Table) : Entry(Table, j).key # k =>
        \A n \in 0..(Len(Table.contents) - 1) :
          Probe(Table, Entry(Table, j).key, n) = i =>
            \E m \in 0..n : Probe(Table, Entry(Table, j).key, m) = j
  <2>1. \A j \in Taken(Table) : Entry(Table, j).key = association[j].key
    BY InvFacts DEF Entry, Inv
  <2> QED
    BY <2>1, InvFacts DEF InTheWay
<1>5. /\ IsSound(u) /\ Content(u) = { e \in Content(Table) : e.key # k }
      /\ \A l \in Keys : l # k /\ AssocAt(Table, l) # Nil => AssocAt(u, l) = AssocAt(Table, l)
  <2> HIDE DEF u
  <2>1. u = Removed(Table, FindIndex(Table, k))
    BY DEF u
  <2> QED
    BY <1>1, <1>4, <2>1, InvTable, InvFacts, RemovedSound
<1> HIDE DEF u, i
<1>6. Table.tally \in Nat /\ Filled(Table) \in Nat /\ Len(Table.contents) \in Nat
  BY InvTable, TableFacts
<1>7. Filled(u) <= u.tally /\ u.tally < Len(u.contents) /\ Bindings(bound, u.association)
  BY <1>3, <1>6, InvTable
<1>8. /\ IsSound(Table') /\ AnswersOf(Table') = AnswersOf(u)
      /\ tally' = u.tally /\ Filled(Table') = Filled(u)
      /\ \A l \in Named : bound[l] = Nil \/ bound[l] = AssocAt(u, l) =>
                            bound'[l] = Nil \/ bound'[l] = AssocAt(Table', l)
  BY <1>2, <1>3, <1>5, <1>7, BecomesShows
<1>9. AnswersOf(u) = [AnswersOf(Table) EXCEPT ![k] = "absent"]
  <2>1. HasRoom(u)
    BY <1>3, <1>7, TableFacts DEF HasRoom
  <2> QED
    BY <1>3, <1>5, <2>1, InvFacts, RemoveAnswers
<1>10. AnswersOf(Table)[k] # "absent"
  <2>1. Entry(Table, i).value \in Values /\ AssocAt(Table, k) = Table.contents[i]
    BY <1>1, InvFacts, EntryFacts
  <2> QED
    BY <1>1, <2>1, AbsentAssumption DEF AnswersOf, Entry
<1>11. StayShared(Named \ {k})
  <2>1. \A l \in Named \ {k} : l \in Keys /\ l # k
    BY NamedAssumption
  <2> QED
    BY <1>5, <1>8, <2>1 DEF StayShared
<1>12. tally = Filled(Table) => tally' = Filled(Table')
  BY <1>3, <1>8, InvFacts
<1> QED
  BY <1>8, <1>9, <1>10, <1>11, <1>12

LEMMA AssignGlobalShows ==
  ASSUME Inv, IsSound(Table), NEW k \in Named, NEW v \in Values, AssignGlobal(k, v)
  PROVE  /\ IsSound(Table')
         /\ IsShared(k) => AnswersOf(Table') = [AnswersOf(Table) EXCEPT ![k] = v]
         /\ tally = Filled(Table) => tally' = Filled(Table')
         /\ StayShared(Named)
<1>1. /\ Inv' /\ contents' = contents /\ tally' = tally /\ bound' = bound
      /\ bound[k] \in DOMAIN association /\ DOMAIN association' = DOMAIN association
      /\ association'[bound[k]] = [key |-> association[bound[k]].key, value |-> v]
      /\ \A a \in DOMAIN association : a # bound[k] => association'[a] = association[a]
  BY AssignGlobalFacts
<1>2. bound[k] # Nil
  BY DEF AssignGlobal
<1>3. PICK t, s : t = Table /\ s = Table'
  OBVIOUS
<1>4. /\ s.contents = contents /\ s.association = association' /\ s.tally = tally
      /\ t.contents = contents /\ t.association = association /\ t.tally = tally
  BY <1>1, <1>3 DEF Table
<1>5. /\ t \in Tables /\ s \in Tables /\ HasRoom(t) /\ IsSound(t)
      /\ Taken(s) = Taken(t) /\ Filled(s) = Filled(t)
  BY <1>1, <1>3, <1>4, InvFacts DEF Inv, Taken, Filled
<1>6. HasRoom(s)
  BY <1>4, <1>5 DEF HasRoom
<1>7. \A a \in DOMAIN association : association'[a].key = association[a].key
  BY <1>1
<1>8. \A j \in Taken(t) : t.contents[j] \in DOMAIN t.association
  BY <1>5, TableFacts
<1>9. ASSUME NEW l \in Keys PROVE FindIndex(s, l) = FindIndex(t, l) /\ AssocAt(s, l) = AssocAt(t, l)
  <2>1. ASSUME NEW j \in 1..Len(t.contents) PROVE Stops(s, l, j) <=> Stops(t, l, j)
    <3>1. CASE t.contents[j] = Nil
      BY <1>4, <3>1 DEF Stops
    <3>2. CASE t.contents[j] # Nil
      <4>1. j \in Taken(t)
        BY <1>5, <3>2, TableFacts
      <4> QED
        BY <1>4, <1>7, <1>8, <4>1 DEF Stops
    <3> QED
      BY <3>1, <3>2
  <2>2. Searchable(t, l)
    BY <1>5, RoomSearchable
  <2>3. FindIndex(t, l) \in 1..Len(t.contents) /\ Stops(t, l, FindIndex(t, l))
    BY <1>5, <2>2, SearchFacts
  <2>4. Len(s.contents) = Len(t.contents)
    BY <1>4
  <2>5. FindIndex(s, l) = FindIndex(t, l)
    BY <1>5, <2>1, <2>2, <2>3, <2>4, StillFound
  <2> QED
    BY <1>4, <2>5 DEF AssocAt
<1>10. \A j \in Taken(t) : Entry(s, j).key = Entry(t, j).key
  BY <1>4, <1>7, <1>8 DEF Entry
<1>11. IsSound(s)
  <2>1. \A j \in Taken(t) : Entry(t, j).key \in Keys
    BY <1>5, EntryFacts
  <2> QED
    BY <1>5, <1>9, <1>10, <2>1 DEF IsSound
<1>12. ASSUME IsShared(k) PROVE AnswersOf(s) = [AnswersOf(t) EXCEPT ![k] = v]
  <2>1. k \in Keys /\ bound[k] = AssocAt(t, k)
    BY <1>2, <1>3, <1>12, NamedAssumption DEF IsShared
  <2>2. AnswersOf(s)[k] = v
    BY <1>1, <1>2, <1>4, <1>9, <2>1 DEF AnswersOf
  <2>3. ASSUME NEW l \in Keys, l # k PROVE AnswersOf(s)[l] = AnswersOf(t)[l]
    <3>1. CASE AssocAt(t, l) = Nil
      BY <1>9, <3>1 DEF AnswersOf
    <3>2. CASE AssocAt(t, l) # Nil
      <4>1. /\ FindIndex(t, l) \in Taken(t) /\ AssocAt(t, l) = t.contents[FindIndex(t, l)]
            /\ Entry(t, FindIndex(t, l)).key = l
        BY <1>5, <3>2, RoomSearchable, FoundFacts
      <4>2. /\ FindIndex(t, k) \in Taken(t) /\ AssocAt(t, k) = t.contents[FindIndex(t, k)]
            /\ Entry(t, FindIndex(t, k)).key = k
        BY <1>2, <1>5, <2>1, RoomSearchable, FoundFacts
      <4>3. AssocAt(t, l) # bound[k]
        BY <2>1, <2>3, <4>1, <4>2 DEF Entry
      <4>4. AssocAt(t, l) \in DOMAIN association
        BY <1>4, <1>8, <4>1
      <4> QED
        BY <1>1, <1>4, <1>9, <4>3, <4>4 DEF AnswersOf
    <3> QED
      BY <3>1, <3>2
  <2> QED
    BY <2>1, <2>2, <2>3 DEF AnswersOf
<1>13. tally = Filled(Table) => tally' = Filled(Table')
  BY <1>1, <1>3, <1>5
<1>14. StayShared(Named)
  <2>1. \A l \in Named : l \in Keys
    BY NamedAssumption
  <2> QED
    BY <1>1, <1>3, <1>9, <2>1 DEF StayShared
<1> QED
  BY <1>3, <1>11, <1>12, <1>13, <1>14

-----------------------------------------------------------------------------
(* The action properties.                                                  *)

InvSays == /\ Count = Filled(Table) /\ (Sound <=> IsSound(Table))
           /\ Answers = AnswersOf(Table)

LEMMA InvSaysBefore == Inv => InvSays
BY InvFacts DEF InvSays

LEMMA InvSaysAfter == Inv' => InvSays'
BY InvSaysBefore, PTL

(* What the properties say of one operation that loses no element.         *)
LEMMA StepShows ==
  ASSUME Inv, Sound, ~OthersLost, [Next]_vars
  PROVE  /\ Sound'
         /\ tally = Count /\ ~GrownByC => tally' = Count'
         /\ ~GrownByC => \A k \in Named : IsShared(k) /\ ~RemoveKey(k) => IsShared(k)'
<1> DEFINE Shows == /\ IsSound(Table')
                    /\ tally = Filled(Table) /\ ~GrownByC => tally' = Filled(Table')
                    /\ ~GrownByC => StayShared({ l \in Named : ~RemoveKey(l) })
<1>1. IsSound(Table) /\ InvSays /\ Inv' /\ InvSays'
  BY NextInv, InvSaysBefore, InvSaysAfter DEF InvSays
<1>2. ASSUME UNCHANGED vars PROVE Shows
  <2>1. Table' = Table /\ bound' = bound /\ tally' = tally
    BY <1>2 DEF vars, Table
  <2> QED
    BY <1>1, <2>1 DEF StayShared
<1>3. ASSUME NEW k \in Keys, RemoveKey(k) PROVE Shows
  <2>1. ~InTheWay(k)
    BY <1>3 DEF OthersLost
  <2>2. /\ IsSound(Table')
        /\ tally = Filled(Table) => tally' = Filled(Table')
        /\ StayShared(Named \ {k})
    BY <1>1, <1>3, <2>1, RemoveKeyShows
  <2> QED
    BY <1>3, <2>2 DEF StayShared
<1>4. ASSUME NEW k \in Named, AnalyzeDictionaryVar(k) PROVE Shows
  BY <1>1, <1>4, AnalyzeDictionaryVarShows DEF StayShared
<1>5. ASSUME NEW k \in Named, AnalyzeGlobalVar(k) PROVE Shows
  <2>1. k \in Keys /\ ~GrownByC => ~GrowsInC(k)
    BY <1>5, NamedAssumption DEF GrownByC
  <2> QED
    BY <1>1, <1>5, <2>1, AnalyzeGlobalVarShows, NamedAssumption DEF StayShared
<1>6. ASSUME NEW k \in Keys, NEW v \in Values, DictAtPut(k, v) PROVE Shows
  <2>1. ~GrownByC => ~GrowsInC(k)
    BY <1>6 DEF GrownByC
  <2> QED
    BY <1>1, <1>6, <2>1, DictAtPutShows DEF StayShared
<1>7. ASSUME NEW k \in Keys, NEW v \in Values, AtPut(k, v) PROVE Shows
  <2>1. ~GrowsOverNil(k)
    BY <1>7 DEF OthersLost
  <2> QED
    BY <1>1, <1>7, <2>1, AtPutShows DEF StayShared
<1>8. ASSUME NEW k \in Named, NEW v \in Values, AssignGlobal(k, v) PROVE Shows
  BY <1>1, <1>8, AssignGlobalShows DEF StayShared
<1>9. Shows
  <2> HIDE DEF Shows
  <2> QED
    BY <1>2, <1>3, <1>4, <1>5, <1>6, <1>7, <1>8 DEF Next
<1>10. Sound' /\ (tally = Count /\ ~GrownByC => tally' = Count')
  BY <1>1, <1>9 DEF InvSays
<1>11. ASSUME ~GrownByC, NEW k \in Named, IsShared(k), ~RemoveKey(k) PROVE IsShared(k)'
  BY <1>9, <1>11 DEF IsShared, StayShared
<1> QED
  BY <1>10, <1>11

LEMMA AnswersShow ==
  ASSUME Inv, Sound, ~OthersLost, Inv'
  PROVE  /\ \A k \in Keys :
              /\ RemoveKey(k) => M!Remove(k)
              /\ \A v \in Values : DictAtPut(k, v) \/ AtPut(k, v) => M!Put(k, v)
         /\ \A k \in Named :
              /\ AnalyzeGlobalVar(k) => M!Put(k, Nil)
              /\ \A v \in Values : AssignGlobal(k, v) /\ IsShared(k) => M!Put(k, v)
<1>1. IsSound(Table) /\ Answers = AnswersOf(Table) /\ Answers' = AnswersOf(Table')
  BY InvSaysBefore, InvSaysAfter DEF InvSays
<1>2. ASSUME NEW k \in Keys, RemoveKey(k) PROVE M!Remove(k)
  <2>1. ~InTheWay(k)
    BY <1>2 DEF OthersLost
  <2>2. /\ AnswersOf(Table)[k] # "absent"
        /\ AnswersOf(Table') = [AnswersOf(Table) EXCEPT ![k] = "absent"]
    BY <1>1, <1>2, <2>1, RemoveKeyShows
  <2> QED
    BY <1>1, <2>2 DEF M!Remove
<1>3. ASSUME NEW k \in Keys, NEW v \in Values, DictAtPut(k, v) PROVE M!Put(k, v)
  BY <1>1, <1>3, DictAtPutShows DEF M!Put
<1>4. ASSUME NEW k \in Keys, NEW v \in Values, AtPut(k, v) PROVE M!Put(k, v)
  <2>1. ~GrowsOverNil(k)
    BY <1>4 DEF OthersLost
  <2> QED
    BY <1>1, <1>4, <2>1, AtPutShows DEF M!Put
<1>5. ASSUME NEW k \in Named, AnalyzeGlobalVar(k) PROVE M!Put(k, Nil)
  BY <1>1, <1>5, AnalyzeGlobalVarShows DEF M!Put
<1>6. ASSUME NEW k \in Named, NEW v \in Values, AssignGlobal(k, v), IsShared(k) PROVE M!Put(k, v)
  BY <1>1, <1>6, AssignGlobalShows DEF M!Put
<1> QED
  BY <1>2, <1>3, <1>4, <1>5, <1>6

(* For every set of keys and every hash: in a sound table each operation   *)
(* of the C code, the library and compiled code is that of a map, with the *)
(* exceptions that the property names, and leaves the table sound          *)
(* (Dictionary.c:83-130, Dictionary.st, HashedCollection.st:60-115).       *)
THEOREM OperationsOfMapHolds == Spec => OperationsOfMap
<1>1. Inv /\ [Next]_vars => (Sound /\ ~OthersLost =>
        /\ Sound'
        /\ tally = Count /\ ~GrownByC => tally' = Count'
        /\ \A k \in Keys :
             /\ RemoveKey(k) => M!Remove(k)
             /\ \A v \in Values : DictAtPut(k, v) \/ AtPut(k, v) => M!Put(k, v)
        /\ \A k \in Named :
             /\ AnalyzeGlobalVar(k) => M!Put(k, Nil)
             /\ \A v \in Values : AssignGlobal(k, v) /\ IsShared(k) => M!Put(k, v))
  BY NextInv, StepShows, AnswersShow
<1> QED
  BY <1>1, InvHolds, PTL DEF Spec, OperationsOfMap

(* For every set of keys and every hash: a binding that compiled code      *)
(* shares with the dictionary stays shared until the key is removed, but   *)
(* for the growth of the table in C (Scope.c:347-354).                     *)
THEOREM BindingsSharedHolds == Spec => BindingsShared
<1>1. Inv /\ [Next]_vars => (Sound /\ ~OthersLost /\ ~GrownByC => \A k \in Named :
        IsShared(k) /\ ~RemoveKey(k) => IsShared(k)')
  BY StepShows
<1> QED
  BY <1>1, InvHolds, PTL DEF Spec, BindingsShared

=============================================================================
