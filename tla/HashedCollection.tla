-------------------------- MODULE HashedCollection --------------------------
(* A Dictionary of associations in an array with linear probing, as two      *)
(* programs work on it: the C code (Dictionary.c: globals, class variables,  *)
(* methods, scopes) and the library (HashedCollection.st, Dictionary.st).    *)
(* They agree on where a key is looked for, not on how a table grows: the C  *)
(* code makes a new association for each key and counts it once more, the    *)
(* library moves the associations and stops at an empty slot.                *)
(*                                                                           *)
(* Compiled code holds the association of a global it names (bound) and      *)
(* never looks it up again.                                                  *)
EXTENDS Naturals, FiniteSets, Sequences

CONSTANTS Keys,          \* symbols
          Values,
          Nil,           \* nil: the value of a new global, and an empty slot
          Hash,          \* the hash of each key
          InitialSize,   \* newDictionary(size): a power of two
          Named,         \* the keys of globals that compiled code names
          MaxSize,       \* bound: tables that would be larger are not made
          MaxRemovals    \* bound: keys that are removed

ASSUME HashAssumption == Hash \in [Keys -> Nat]
ASSUME SizeAssumption == InitialSize \in Nat \ {0, 1}
ASSUME NilAssumption  == Nil \in Values /\ Nil \notin Nat \cup Keys
ASSUME NamedAssumption == /\ Named \subseteq Keys /\ IsFiniteSet(Named)
                          /\ Keys \cap Nat = {}
ASSUME AbsentAssumption == "absent" \notin Values

VARIABLES contents,      \* the array: an association or Nil in each slot
          tally,         \* the number of elements, as the table counts them
          association,   \* the key and the value of each association object
          bound,         \* the association compiled code holds for a key, or Nil
          removals       \* the keys removed so far

vars == <<contents, tally, association, bound, removals>>

(* A table as the operations pass it on: its array, its tally, the objects.  *)
Table == [contents |-> contents, tally |-> tally, association |-> association]

Empty(size) == [i \in 1 .. size |-> Nil]
Elements(array) == {array[i] : i \in DOMAIN array} \ {Nil}

-----------------------------------------------------------------------------
(* Searching: from the slot of the hash on, around the end, to the key or to *)
(* an empty slot.                                                            *)

Probe(t, k, n) == ((Hash[k] + n) % Len(t.contents)) + 1

Stops(t, k, i) == t.contents[i] = Nil \/ t.association[t.contents[i]].key = k

FindIndex(t, k) ==
  Probe(t, k, CHOOSE n \in 0 .. Len(t.contents) - 1 :
                /\ Stops(t, k, Probe(t, k, n))
                /\ \A m \in 0 .. n - 1 : ~Stops(t, k, Probe(t, k, m)))

AssocAt(t, k) == t.contents[FindIndex(t, k)]

-----------------------------------------------------------------------------
(* The C code.                                                               *)

\* An object that is not in use.
Fresh(t) == CHOOSE a \in 1 .. Cardinality(DOMAIN t.association) + 1 :
              a \notin DOMAIN t.association

NewAssociation(objects, a, k, v) ==
  [x \in DOMAIN objects \cup {a} |-> IF x = a THEN [key |-> k, value |-> v] ELSE objects[x]]

\* An association at slot i, where there was none.
AtNewIndex(t, i, a) == [t EXCEPT !.contents[i] = a, !.tally = @ + 1]

\* dictAtPut up to the test of the size.
Stored(t, k, v, i) ==
  IF t.contents[i] = Nil
  THEN AtNewIndex([t EXCEPT !.association = NewAssociation(@, Fresh(t), k, v)], i, Fresh(t))
  ELSE [t EXCEPT !.association[t.contents[i]].value = v]

IsFull(old, t) == t.tally # old.tally /\ t.tally = Len(t.contents)

\* The loop of growDictionary: every key is put once more, into an array of
\* twice the size, on top of the tally there was.
PutOnceMore(t, k, v) == Stored(t, k, v, FindIndex(t, k))
Reinserted(t) ==
  LET put[n \in 0 .. Len(t.contents)] ==
        IF n = 0 THEN [t EXCEPT !.contents = Empty(2 * Len(t.contents))]
        ELSE LET member == t.contents[n]
             IN  IF member = Nil THEN put[n - 1]
                 ELSE PutOnceMore(put[n - 1], t.association[member].key, t.association[member].value)
  IN  put[Len(t.contents)]

\* The dictAtPut of the last key may find the tally at the new size, if all the
\* slots were taken, and grows the table again; not a third time, as half of
\* this one is empty.
Grown(t) == IF IsFull(t, Reinserted(t)) THEN Reinserted(Reinserted(t)) ELSE Reinserted(t)

AfterPut(old, t) == IF IsFull(old, t) THEN Grown(t) ELSE t

\* Objects have no names of their own. Between operations those in the array
\* are named by their slots, and one that only code holds by its key.
Taken(t)     == {i \in DOMAIN t.contents : t.contents[i] # Nil}
SlotOf(t, a) == CHOOSE i \in Taken(t) : t.contents[i] = a
Severed(t, b) == {k \in Named : b[k] # Nil /\ b[k] \notin Elements(t.contents)}

Becomes(t, b) ==
  /\ Len(t.contents) <= MaxSize
  /\ tally' = t.tally
  /\ contents' = [i \in DOMAIN t.contents |-> IF t.contents[i] = Nil THEN Nil ELSE i]
  /\ bound' = [k \in Named |-> IF k \in Severed(t, b) THEN k
                               ELSE IF b[k] = Nil THEN Nil ELSE SlotOf(t, b[k])]
  /\ association' = [n \in Taken(t) \cup Severed(t, b) |->
                       t.association[IF n \in Named THEN b[n] ELSE t.contents[n]]]

\* dictAtPut, dictAtPutObject: setGlobal, class variables, methods.
DictAtPut(k, v) ==
  /\ Becomes(AfterPut(Table, Stored(Table, k, v, FindIndex(Table, k))), bound)
  /\ UNCHANGED removals

(* The compiler meets the name of a global: it takes its association, or     *)
(* makes one with the value nil. The association it keeps is the one it was  *)
(* given, before the table grew.                                             *)
AnalyzeDictionaryVar(k) ==
  /\ AssocAt(Table, k) # Nil
  /\ Becomes(Table, [bound EXCEPT ![k] = AssocAt(Table, k)])
  /\ UNCHANGED removals

AnalyzeGlobalVar(k) ==
  /\ AssocAt(Table, k) = Nil
  /\ \E t \in {Stored(Table, k, Nil, FindIndex(Table, k))} :
       Becomes(AfterPut(Table, t), [bound EXCEPT ![k] = AssocAt(t, k)])
  /\ UNCHANGED removals

\* Compiled code assigns the global.
AssignGlobal(k, v) ==
  /\ bound[k] # Nil
  /\ association' = [association EXCEPT ![bound[k]].value = v]
  /\ UNCHANGED <<contents, tally, bound, removals>>

-----------------------------------------------------------------------------
(* The library.                                                              *)

\* Mutant: an association of its own for every element.
AddAnew(t, a, i) == Stored(t, t.association[a].key, t.association[a].value, i)

\* add: of an association: it goes into the table itself, unless its key has
\* another there.
Add(t, a, i) ==
  IF t.contents[i] = Nil THEN AtNewIndex(t, i, a)
  ELSE [t EXCEPT !.association[t.contents[i]].value = t.association[a].value]

\* Mutant: the elements stay in their slots.
RegrownInPlace(t) == [t EXCEPT !.contents = @ \o Empty(Len(@))]

\* grow adds what the array holds, from the first slot on; the first nil does
\* not understand #key, and the rest is left behind.
BeforeNil(array) ==
  CHOOSE n \in 0 .. Len(array) : /\ \A i \in 1 .. n : array[i] # Nil
                                 /\ n < Len(array) => array[n + 1] = Nil
AddOnceMore(t, a) == Add(t, a, FindIndex(t, t.association[a].key))
Regrown(t) ==
  LET added[n \in 0 .. BeforeNil(t.contents)] ==
        IF n = 0 THEN [t EXCEPT !.contents = Empty(2 * Len(t.contents)), !.tally = 0]
        ELSE AddOnceMore(added[n - 1], t.contents[n])
  IN  added[BeforeNil(t.contents)]

\* at:put:, and add: of a new association.
AtPut(k, v) ==
  /\ \E t \in {Stored(Table, k, v, FindIndex(Table, k))} :
       Becomes(IF IsFull(Table, t) THEN Regrown(t) ELSE t, bound)
  /\ UNCHANGED removals

\* Mutant: the key is not asked for.
RemoveKeyUnasked(k) ==
  /\ removals < MaxRemovals
  /\ removals' = removals + 1
  /\ Becomes([Table EXCEPT !.contents[FindIndex(Table, k)] = Nil, !.tally = @ - 1], bound)

\* removeKey:ifAbsent: empties the slot; what was put behind it stays there.
RemoveKey(k) ==
  /\ removals < MaxRemovals
  /\ removals' = removals + 1
  /\ AssocAt(Table, k) # Nil
  /\ Becomes([Table EXCEPT !.contents[FindIndex(Table, k)] = Nil, !.tally = @ - 1], bound)

-----------------------------------------------------------------------------
Init ==
  /\ contents = Empty(InitialSize)
  /\ tally = 0
  /\ association = [a \in {} |-> Nil]
  /\ bound = [k \in Named |-> Nil]
  /\ removals = 0

Next == \E k \in Keys :
  \/ k \in Named /\ (AnalyzeDictionaryVar(k) \/ AnalyzeGlobalVar(k))
  \/ RemoveKey(k)
  \/ \E v \in Values : \/ DictAtPut(k, v) \/ AtPut(k, v)
                       \/ k \in Named /\ AssignGlobal(k, v)

Spec == Init /\ [][Next]_vars

-----------------------------------------------------------------------------
Count == Cardinality(Elements(contents))

\* Every association of the array is where its key is looked for.
Sound == \A i \in Elements(contents) : FindIndex(Table, association[i].key) = i

\* What the dictionary answers: dictAt, at:ifAbsent:, includesKey:.
Answers == [k \in Keys |-> IF AssocAt(Table, k) = Nil THEN "absent"
                           ELSE association[AssocAt(Table, k)].value]

\* Compiled code, if it names the key, has the association of the dictionary.
IsShared(k) == bound[k] # Nil => bound[k] = AssocAt(Table, k)

M == INSTANCE KeyedMap WITH map <- Answers, Absent <- "absent"

\* The ways in which the code breaks the promise.
\* HashedCollection.st:82, Dictionary.st:110: the slot that is emptied is one
\* that the search for another element passes.
InTheWay(k) == \E i \in Elements(contents) :
  /\ association[i].key # k
  /\ \E n \in 0 .. Len(contents) - 1 :
       /\ Probe(Table, association[i].key, n) = FindIndex(Table, k)
       /\ \A m \in 0 .. n : Probe(Table, association[i].key, m) # i
\* Dictionary.c:107: elements that are put once more are counted once more.
GrowsInC(k) == AssocAt(Table, k) = Nil /\ tally + 1 = Len(contents)
\* HashedCollection.st:72: such a table is said to be full when it is not.
GrowsOverNil(k) == GrowsInC(k) /\ Count + 1 < Len(contents)

(* A search for any key comes to an end: the table is never full, whoever    *)
(* filled it, as neither side ever counts fewer elements than there are      *)
(* (findIndex in Dictionary.c and Dictionary.st has no other end).           *)
SearchEnds == Count <= tally /\ tally < Len(contents)

GrownByC == \E k \in Keys : /\ GrowsInC(k)
                           /\ \/ k \in Named /\ AnalyzeGlobalVar(k)
                              \/ \E v \in Values : DictAtPut(k, v)
OthersLost == \E k \in Keys :
  \/ RemoveKey(k) /\ InTheWay(k)
  \/ GrowsOverNil(k) /\ (\E v \in Values : AtPut(k, v))

(* Each operation, of the C code, of the library or of compiled code, does   *)
(* to the answers what it does to a map, and leaves every element where it   *)
(* is found, through collisions and growth; and size answers how many there  *)
(* are. It does so in every sound table, but for the removal of an element   *)
(* in the way of another, the growth of a table of which C has lost count,   *)
(* and for the count when C grows the table.                                 *)
OperationsOfMap == [][Sound /\ ~OthersLost =>
  /\ Sound'
  /\ tally = Count /\ ~GrownByC => tally' = Count'
  /\ \A k \in Keys :
       /\ RemoveKey(k) => M!Remove(k)
       /\ \A v \in Values : DictAtPut(k, v) \/ AtPut(k, v) => M!Put(k, v)
  /\ \A k \in Named :
       /\ AnalyzeGlobalVar(k) => M!Put(k, Nil)
       /\ \A v \in Values : AssignGlobal(k, v) /\ IsShared(k) => M!Put(k, v)]_vars

(* Compiled code and the dictionary have one association for a global: what  *)
(* either assigns the other sees (Scope.c:347-354). A binding is shared from *)
(* the moment it is made until the key is removed, through every growth but  *)
(* that of C.                                                                *)
BindingsShared == [][Sound /\ ~OthersLost /\ ~GrownByC => \A k \in Named :
  IsShared(k) /\ ~RemoveKey(k) => IsShared(k)']_vars
=============================================================================
