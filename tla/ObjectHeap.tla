------------------------------ MODULE ObjectHeap ------------------------------
(***************************************************************************)
(* The generational heap of the virtual machine: allocation (Heap.c,       *)
(* StubCodeX64.c), the write barrier (Thread.h), the copying collector of  *)
(* the new space (Scavenger.c) and the mark and sweep collector of the old *)
(* space with its finalizers (GarbageCollector.c).                         *)
(*                                                                         *)
(* An object is an identity with a place.  Addresses are left out, but     *)
(* what happens to a pointer when its target moves is not: a collector     *)
(* rewrites the pointers it visits, and a pointer to a moved or freed      *)
(* object that it did not visit becomes Stale or Swept.  The collectors    *)
(* run with the program stopped, so each one is a single step;             *)
(* finalizers are Smalltalk code that runs in the middle of a collection,  *)
(* and phase and calls say where the suspended C code will continue.       *)
(***************************************************************************)
EXTENDS Naturals, FiniteSets, Sequences, Reachability

CONSTANTS
  Obj,          (* object identities; one may be used again once it is freed *)
  Field,        (* fields of an object, its class pointer included           *)
  ClassField,   (* the class pointer                                         *)
  Root,         (* stack slots, scope handles and literals of native code    *)
  Kernel,       (* a kernel class, always held by a persistent handle        *)
  Nil,
  Stale,        (* a pointer to where an object was before it moved          *)
  Swept,        (* a pointer to an object whose memory was freed             *)
  NewCells,     (* objects that fit in a semispace                           *)
  PageCells,    (* objects that fit in a page of the old space               *)
  MaxPages,     (* bound: pages the operating system can map                 *)
  MaxNesting,   (* bound: collections in progress, one inside another        *)
  Finalizable,  (* objects whose class understands #finalize                 *)
  Unbarriered   (* "fill": may an object that had to be allocated in the old *)
                (* space be filled in with new ones (see Retry)?  "copy": may*)
                (* any object be copied over any other (see CopyOver)?       *)

ASSUME HeapAssumption ==
  /\ Kernel \in Obj
  /\ ClassField \in Field
  /\ Nil \notin Obj /\ Stale \notin Obj /\ Swept \notin Obj
  /\ Nil # Stale /\ Nil # Swept /\ Stale # Swept
  /\ NewCells \in Nat \ {0} /\ PageCells \in Nat \ {0} /\ MaxPages \in Nat \ {0}
  /\ MaxNesting \in Nat
  /\ Finalizable \subseteq Obj
  /\ Unbarriered \subseteq {"fill", "copy"}

VARIABLES
  place,       (* where the object is: "eden" was allocated since the last   *)
               (* scavenge, "survivor" lies below survivorEnd                *)
  slot,        (* fields of every object                                     *)
  root,        (* values of the program's roots                              *)
  remembered,  (* objects in the blocks of the remembered set                *)
  remTag,      (* objects tagged TAG_REMEMBERED                              *)
  marked,      (* objects tagged TAG_MARKED                                  *)
  finalized,   (* objects tagged TAG_FINALIZED                               *)
  pages,       (* pages of the old space                                     *)
  failed,      (* hasPromotionFailure of the scavenger                       *)
  phase,       (* what runs: the program, or the rest of a collection        *)
  calls        (* collections in progress, outermost first                   *)

heapVars == <<place, slot, remembered, remTag, marked, finalized, pages, failed>>
vars == <<place, slot, root, remembered, remTag, marked, finalized, pages, failed,
          phase, calls>>

Ptr    == Obj \union {Nil, Stale, Swept}
Places == {"none", "eden", "survivor", "old"}
(* class is Nil for a collection the program asked for, and the class to   *)
(* instantiate for one caused by an allocation; finalize is the C array of *)
(* raw pointers gcSweep still has to send #finalize to.                    *)
Call   == [class : Ptr, finalize : SUBSET (Obj \union {Swept})]

NoFields   == [f \in Field |-> Nil]
Fresh(c, v) == [f \in Field |-> IF f = ClassField THEN c ELSE v]

Young      == { o \in Obj : place[o] \in {"eden", "survivor"} }
Old        == { o \in Obj : place[o] = "old" }
Targets(o) == { slot[o][f] : f \in Field } \intersect Obj
RootValues == { root[r] : r \in Root } \union {Kernel}
Handles    == { calls[i].class : i \in 1..Len(calls) }
Top        == calls[Len(calls)]

TypeOK ==
  /\ place \in [Obj -> Places]
  /\ slot \in [Obj -> [Field -> Ptr]]
  /\ root \in [Root -> Ptr]
  /\ remembered \subseteq Obj /\ remTag \subseteq Obj
  /\ marked \subseteq Obj /\ finalized \subseteq Obj
  /\ pages \in 1..MaxPages
  /\ failed \in BOOLEAN
  /\ phase \in {"program", "sweep", "finalize", "retry"}
  /\ calls \in Seq(Call)

Init ==
  /\ place = [o \in Obj |-> IF o = Kernel THEN "eden" ELSE "none"]
  /\ slot  = [o \in Obj |-> IF o = Kernel THEN Fresh(Kernel, Nil) ELSE NoFields]
  /\ root  = [r \in Root |-> Nil]
  /\ remembered = {} /\ remTag = {} /\ marked = {} /\ finalized = {}
  /\ pages = 1
  /\ failed = FALSE
  /\ phase = "program"
  /\ calls = << >>

-----------------------------------------------------------------------------
(* The program.                                                            *)

(* A variable is assigned, from another one or from a field.               *)
SetRoot(r) ==
  /\ phase = "program"
  /\ \E v \in RootValues \union {Nil} \union
              UNION { { slot[root[s]][f] : f \in Field } : s \in { s \in Root : root[s] \in Obj } } :
       root' = [root EXCEPT ![r] = v]
  /\ UNCHANGED <<heapVars, phase, calls>>

(* Mutant: the barrier takes only the objects of eden for new ones.        *)
BarrierEdenOnly(o, v) == o \in Old /\ v \in Obj /\ place[v] = "eden" /\ o \notin remTag

(* Must the barrier of rawObjectStorePtr add o, into which v is stored?    *)
BarrierAdds(o, v) == o \in Old /\ v \in Young /\ o \notin remTag

(* rawObjectStorePtr, objectStorePtr and the store check of native code.   *)
Store(s, f) ==
  /\ phase = "program"
  /\ root[s] \in Obj /\ f # ClassField
  /\ \E v \in RootValues \union {Nil} :
       /\ slot' = [slot EXCEPT ![root[s]][f] = v]
       /\ LET added == IF BarrierAdds(root[s], v) THEN {root[s]} ELSE {}
          IN  /\ remembered' = remembered \union added
              /\ remTag' = remTag \union added
  /\ UNCHANGED <<place, root, marked, finalized, pages, failed, phase, calls>>

(* May s be copied over t without hiding t from a collector?  The copy     *)
(* brings the tags of s and its pointers, and t enters no remembered set.  *)
CopySafe(t, s) ==
  /\ s \in remTag <=> t \in remTag
  /\ s \in Old \/ t \in Young \/ Targets(s) \intersect Young = {}
  /\ t \in Young \/ s \notin marked
  /\ s \in finalized <=> t \in finalized
  /\ s \in Finalizable <=> t \in Finalizable

(* The tag bits in set after s was copied over t.                          *)
Copied(set, t, s) == IF s \in set THEN set \union {t} ELSE set \ {t}

(* objectBecome for objects of one size, and installClass for a class that *)
(* exists already: the memory of one object, header and tags included, is  *)
(* copied over another's.                                                  *)
CopyOver(x, y) ==
  LET t == root[x]
      s == root[y]
  IN
  /\ phase = "program"
  /\ {t, s} \subseteq Obj
  /\ "copy" \in Unbarriered \/ CopySafe(t, s)
  /\ slot' = [slot EXCEPT ![t] = slot[s]]
  /\ remTag' = Copied(remTag, t, s)
  /\ marked' = Copied(marked, t, s)
  /\ finalized' = Copied(finalized, t, s)
  /\ UNCHANGED <<place, root, remembered, pages, failed, phase, calls>>

-----------------------------------------------------------------------------
(* Space.                                                                  *)

NewSpaceHasRoom == Cardinality(Young) < NewCells

(* Mutant: one page less than there is is recorded.                        *)
GrowCountsLess(n) ==
  \E p \in pages..MaxPages : Cardinality(Old) + n <= p * PageCells /\ pages' = p - 1

(* The old space takes n more objects.  It gets a page whenever the free   *)
(* list cannot serve a request, and no sooner.                             *)
GrowOldSpace(n) ==
  \E p \in pages..MaxPages :
    /\ Cardinality(Old) + n <= p * PageCells
    /\ \A q \in pages..(p - 1) : Cardinality(Old) + n > q * PageCells
    /\ pages' = p

(* A new object o of class c in the given place, held by root r.  Header,  *)
(* class and first field values are written with no barrier.               *)
Create(o, where, c, v, r) ==
  /\ place[o] = "none"
  /\ place' = [place EXCEPT ![o] = where]
  /\ slot'  = [slot EXCEPT ![o] = Fresh(c, v)]
  /\ root'  = [root EXCEPT ![r] = o]
  /\ UNCHANGED <<remembered, remTag, marked, finalized>>

-----------------------------------------------------------------------------
(* The scavenger.                                                          *)

(* Mutant: the remembered set is not read.                                 *)
ScavengeSourcesRootsOnly == (RootValues \union Handles) \intersect Young

(* What it starts from: the fields of the remembered objects, the roots of *)
(* the running code and the handles of the C code below it.                *)
ScavengeSources ==
  (RootValues \union Handles \union UNION { Targets(o) : o \in remembered }) \intersect Young

(* Mutant: the copies are not scanned in their turn.                       *)
ForwardedOnce == ScavengeSources

(* The new objects it forwards.  Old objects are not traversed.            *)
Forwarded == Reach(Obj, ScavengeSources, [o \in Obj |-> Targets(o) \intersect Young])

(* Of the forwarded objects fwd, those below survivorEnd have survived a   *)
(* scavenge before and are moved to the old space, the others to the other *)
(* semispace.                                                              *)
Promoted(fwd) == { o \in fwd : place[o] = "survivor" }

(* Mutant: iterateObject does not ask whether the object is old.           *)
VisitAddsAny(o, fwd) ==
  /\ o \in fwd \union remembered
  /\ Targets(o) \intersect (fwd \ Promoted(fwd)) # {}
  /\ o \notin remTag

(* iterateObject reads the fields of the remembered and of the forwarded   *)
(* objects; it remembers an old one that still refers to a new object once *)
(* its fields are rewritten.                                               *)
VisitAdds(o, fwd) ==
  /\ o \in Promoted(fwd) \union (remembered \intersect Old)
  /\ Targets(o) \intersect (fwd \ Promoted(fwd)) # {}
  /\ o \notin remTag

(* Mutant: the remembered objects' fields are followed, not rewritten.     *)
ScavengedFieldsCopiesOnly(o, fwd) ==
  CASE o \in Young \ fwd -> NoFields
    [] o \in fwd -> slot[o]
    [] OTHER -> [f \in Field |-> IF slot[o][f] \in Young THEN Stale ELSE slot[o][f]]

(* The fields of o afterwards: every new object has moved, and only the    *)
(* fields that were visited have been rewritten.                           *)
ScavengedFields(o, fwd) ==
  CASE o \in Young \ fwd -> NoFields
    [] o \in fwd \union remembered -> slot[o]
    [] OTHER -> [f \in Field |-> IF slot[o][f] \in Young THEN Stale ELSE slot[o][f]]

ScavengedPlace(o, fwd) ==
  CASE o \in Promoted(fwd) -> "old"
    [] o \in fwd \ Promoted(fwd) -> "survivor"
    [] o \in Young \ fwd -> "none"
    [] OTHER -> place[o]

(* scavengerScavenge.                                                      *)
Scavenge ==
  LET fwd   == Forwarded
      added == { o \in Obj : VisitAdds(o, fwd) }
      count == Cardinality(Promoted(fwd))
  IN
  /\ place' = [o \in Obj |-> ScavengedPlace(o, fwd)]
  /\ slot' = [o \in Obj |-> ScavengedFields(o, fwd)]
  /\ remembered' = remembered \union added
  /\ remTag' = remTag \union added
  /\ marked' = marked \ Young
  /\ finalized' = finalized \ (Young \ fwd)
  /\ failed' = (Cardinality(Old) + count > pages * PageCells)
  /\ GrowOldSpace(count)
  /\ UNCHANGED root

-----------------------------------------------------------------------------
(* Mark and sweep.                                                         *)

(* Mutant: the remembered set is a root of the marking.                    *)
MarkSourcesRemembered ==
  (((RootValues \union Handles) \intersect Obj) \union remembered) \ marked

(* gcMarkRoots: markObject does not queue an object that has its mark bit  *)
(* already.  The handler of CurrentExceptionHandler, which only the        *)
(* scavenger visits, is none of the roots of this module (see Unwinding).  *)
MarkSources == ((RootValues \union Handles) \intersect Obj) \ marked
Traversed   == Reach(Obj, MarkSources, [o \in Obj |-> Targets(o) \ marked])

(* iterateObject rebuilds the remembered set out of the traversed objects. *)
MarkAdds(o, trav) == o \in trav \intersect Old /\ Targets(o) \intersect Young # {}

Unmarked(trav) == Old \ (marked \union trav)

(* hasFinalizer asks the object's class, which this sweep or an earlier    *)
(* one may have freed: what is found in its memory is anyone's guess.      *)
ClassFreed(o, trav) == slot[o][ClassField] \in Unmarked(trav) \union {Stale, Swept}

(* Mutant: TAG_FINALIZED is not tested.                                    *)
KeepsAgain(trav) == { Unmarked(trav) \intersect Finalizable }

(* gcSweep: an old object with no mark is kept for its finalizer, once.    *)
(* The sets of objects that it may keep.                                   *)
Keeps(trav) ==
  LET asked == (Unmarked(trav) \intersect Finalizable) \ finalized
  IN  { kept \in SUBSET asked : \A o \in asked \ kept : ClassFreed(o, trav) }

(* Mutant: the sweep leaves the mark bits of the survivors set.            *)
MarksNotToggled(trav, kept) == marked \union trav

(* The mark bits of the old space are toggled by the sweep.                *)
MarksAfterSweep(trav, kept) == ((marked \union trav) \intersect Young) \union kept

(* Where the C code goes on when the collection on top of cs has no more   *)
(* finalizers to run.                                                      *)
Resume(cs) ==
  LET top == cs[Len(cs)] IN
  IF top.finalize # {} THEN phase' = "finalize" /\ calls' = cs
  ELSE IF top.class # Nil THEN phase' = "retry" /\ calls' = cs
  ELSE phase' = "program" /\ calls' = SubSeq(cs, 1, Len(cs) - 1)

(* A pointer into what has been freed is left as it is.                    *)
Cut(p, freed) == IF p \in freed THEN Swept ELSE p

(* markAndSweep, up to the first finalizer: what is neither marked nor     *)
(* kept goes back to the free list.                                        *)
Sweep(kept) ==
  LET trav  == Traversed
      freed == Unmarked(trav) \ kept
      added == { o \in Obj : MarkAdds(o, trav) }
  IN
  /\ place' = [o \in Obj |-> IF o \in freed THEN "none" ELSE place[o]]
  /\ slot' = [o \in Obj |-> IF o \in freed THEN NoFields
                            ELSE [f \in Field |-> Cut(slot[o][f], freed)]]
  /\ root' = [r \in Root |-> Cut(root[r], freed)]
  /\ remembered' = added
  /\ remTag' = ((remTag \ trav) \ freed) \union added
  /\ marked' = MarksAfterSweep(trav, kept)
  /\ finalized' = (finalized \union kept) \ freed
  /\ UNCHANGED <<pages, failed>>
  /\ Resume([i \in 1..Len(calls) |->
               [class |-> Cut(calls[i].class, freed),
                finalize |-> { Cut(p, freed) : p \in calls[i].finalize } \union
                             (IF i = Len(calls) THEN kept ELSE {})]])

MarkAndSweep == phase = "sweep" /\ \E kept \in Keeps(Traversed) : Sweep(kept)

(* #finalize is sent to the next entry, also to one whose memory a         *)
(* collection in an earlier finalizer freed; Swept is any number of them.  *)
(* A scope handle protects the receiver.                                   *)
RunFinalizer ==
  /\ phase = "finalize"
  /\ \E p \in Top.finalize, r \in Root :
       /\ root' = [root EXCEPT ![r] = p]
       /\ \E sent \in {{p}, {p} \ {Swept}} :
            calls' = [calls EXCEPT ![Len(calls)].finalize = @ \ sent]
  /\ phase' = "program"
  /\ UNCHANGED heapVars

(* A finalizer returns to gcSweep.                                         *)
FinalizerReturns ==
  /\ phase = "program" /\ calls # << >>
  /\ Resume(calls)
  /\ UNCHANGED <<heapVars, root>>

-----------------------------------------------------------------------------
(* Allocation.                                                             *)

(* The bump allocation of allocate and of AllocateStub.                    *)
Allocate(r) ==
  /\ phase = "program" /\ NewSpaceHasRoom
  /\ \E o \in Obj, c \in RootValues \intersect Obj, v \in RootValues \union {Nil} :
       Create(o, "eden", c, v, r)
  /\ UNCHANGED <<pages, failed, phase, calls>>

(* The new space is full: allocate scavenges, and marks and sweeps too     *)
(* when the scavenger could not promote without growing the old space.     *)
AllocateCollects ==
  /\ phase = "program" /\ ~NewSpaceHasRoom
  /\ Len(calls) < MaxNesting
  /\ Scavenge
  /\ \E c \in RootValues \intersect Obj :
       calls' = Append(calls, [class |-> c, finalize |-> {}])
  /\ phase' = IF failed' THEN "sweep" ELSE "retry"

(* allocate after the collection: the new space if it has room, else the   *)
(* old space, which grows.  The caller of allocateObject takes the object  *)
(* for a new one and fills it in with no barrier; Unbarriered says whether *)
(* it may then write a pointer to a new object into an old one.            *)
Retry(r) ==
  /\ phase = "retry"
  /\ \E o \in Obj, v \in RootValues \union {Nil} :
       IF NewSpaceHasRoom
       THEN /\ Create(o, "eden", Top.class, v, r)
            /\ UNCHANGED pages
       ELSE /\ "fill" \in Unbarriered \/ {Top.class, v} \intersect Young = {}
            /\ Create(o, "old", Top.class, v, r)
            /\ GrowOldSpace(1)
  /\ phase' = "program"
  /\ calls' = SubSeq(calls, 1, Len(calls) - 1)
  /\ UNCHANGED failed

(* collectGarbage, the primitive GarbageCollector class>>collectGarbage.   *)
CollectGarbage ==
  /\ phase = "program"
  /\ Len(calls) < MaxNesting
  /\ Scavenge
  /\ calls' = Append(calls, [class |-> Nil, finalize |-> {}])
  /\ phase' = "sweep"

Next ==
  \/ \E r \in Root : SetRoot(r) \/ Allocate(r) \/ Retry(r)
  \/ \E s \in Root, f \in Field : Store(s, f)
  \/ \E x, y \in Root : CopyOver(x, y)
  \/ AllocateCollects \/ CollectGarbage \/ MarkAndSweep
  \/ RunFinalizer \/ FinalizerReturns

Spec == Init /\ [][Next]_vars

-----------------------------------------------------------------------------
(* Properties.                                                             *)

(* What the program can reach.                                             *)
Reachable == Reach(Obj, (RootValues \union Handles) \intersect Obj, [o \in Obj |-> Targets(o)])

(* Everything the program can reach is allocated, and no variable or field *)
(* of it points to an object that was freed or has moved away.             *)
NoDangling ==
  /\ \A r \in Root : root[r] \notin {Stale, Swept}
  /\ \A o \in Reachable : place[o] # "none" /\ \A f \in Field : slot[o][f] \notin {Stale, Swept}

(* verifyHeap: every class pointer and field of every object of the new    *)
(* and the old space, garbage included, points into one of the two spaces. *)
(* An address of the abandoned semispace fails verifyPointer; one of a     *)
(* freed chunk lies in a page of the old space and does not.               *)
HeapVerified ==
  \A o \in Obj : place[o] # "none" => \A f \in Field : slot[o][f] # Stale

(* An old object that refers to a new one is in the remembered set: a      *)
(* scavenge finds every pointer from the old space into the new one.       *)
RememberedComplete ==
  \A o \in Old : Targets(o) \intersect Young # {} => o \in remembered

(* The tag that keeps the barrier from adding an object twice agrees with  *)
(* the set, which holds old objects only.                                  *)
TagsAgree == remTag = remembered /\ remembered \subseteq Old

(* Marking starts with no mark bit set, and none is left in the old space  *)
(* while the program runs: a leftover would hide an object from the next   *)
(* marking.                                                                *)
MarksClear ==
  /\ phase = "sweep" => marked = {}
  /\ phase = "program" => marked \intersect Old = {}

(* Mark and sweep leaves no garbage in the old space.                      *)
SweepFreesGarbage == [][MarkAndSweep => Old' \subseteq Reachable']_vars

(* The finalizers still to be sent.                                        *)
Pending(cs) == UNION { cs[i].finalize : i \in 1..Len(cs) }

(* No object is put twice on the lists of finalizers to send in its life,  *)
(* not even by a collection that runs inside a finalizer, and none waits   *)
(* on two lists: the tag is set with the first and lost with the memory.   *)
FinalizedOnce ==
  /\ [][\A o \in Obj :
          /\ o \in Pending(calls') \ Pending(calls) => o \in finalized' \ finalized
          /\ o \in finalized \ finalized' => place'[o] = "none"]_vars
  /\ [](\A i, j \in 1..Len(calls) : i # j => calls[i].finalize \intersect calls[j].finalize \intersect Obj = {})

(* #finalize reaches an object before its memory is freed: no entry of a   *)
(* list points to what a collection inside another finalizer has freed.    *)
(* The code does not keep this (README, section 4).                        *)
FinalizedBeforeFreed == Swept \notin Pending(calls)

=============================================================================
