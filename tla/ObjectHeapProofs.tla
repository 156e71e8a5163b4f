--------------------------- MODULE ObjectHeapProofs ---------------------------
(***************************************************************************)
(* Theorems about ObjectHeap for every number of objects, fields and roots *)
(* and every size of the spaces.                                           *)
(***************************************************************************)
EXTENDS MCObjectHeap, Foundations

-----------------------------------------------------------------------------
(* Type correctness.                                                       *)

(* Inductive: the C code of a collection runs only under a collection.     *)
TypeInv == TypeOK /\ (phase # "program" => calls # << >>)

LEMMA TopType ==
  ASSUME TypeInv, calls # << >>
  PROVE  /\ Len(calls) \in 1..Len(calls)
         /\ Top \in Call
BY DEF TypeInv, TypeOK, Top

LEMMA ForwardedType == Forwarded \subseteq Obj
BY ReachInNode DEF Forwarded

LEMMA TraversedType == Traversed \subseteq Obj
BY ReachInNode DEF Traversed

(* What a sweep keeps: objects with a finalizer and no tag yet.            *)
LEMMA KeepsFacts ==
  ASSUME NEW trav, NEW kept \in Keeps(trav)
  PROVE  /\ kept \subseteq Unmarked(trav) /\ kept \subseteq Finalizable
         /\ kept \subseteq Obj /\ kept \intersect finalized = {}
BY DEF Keeps, Unmarked, Old

LEMMA RootValueType ==
  ASSUME TypeOK
  PROVE  RootValues \subseteq Ptr /\ Nil \in Ptr
BY HeapAssumption DEF TypeOK, RootValues, Ptr

LEMMA FreshType ==
  ASSUME NEW c \in Ptr, NEW v \in Ptr
  PROVE  Fresh(c, v) \in [Field -> Ptr]
BY DEF Fresh

LEMMA CreateType ==
  ASSUME TypeOK, NEW o \in Obj, NEW where \in Places, NEW c \in Ptr, NEW v \in Ptr,
         NEW r \in Root, Create(o, where, c, v, r)
  PROVE  /\ place' \in [Obj -> Places]
         /\ slot' \in [Obj -> [Field -> Ptr]]
         /\ root' \in [Root -> Ptr]
<1>1. Fresh(c, v) \in [Field -> Ptr]
  BY FreshType
<1>2. o \in Ptr
  BY DEF Ptr
<1> QED
  BY <1>1, <1>2 DEF Create, TypeOK

LEMMA GrowType ==
  ASSUME TypeOK, NEW n, GrowOldSpace(n)
  PROVE  pages' \in 1..MaxPages
BY HeapAssumption DEF GrowOldSpace, TypeOK

LEMMA ScavengeType ==
  ASSUME TypeOK, Scavenge
  PROVE  /\ place' \in [Obj -> Places]
         /\ slot' \in [Obj -> [Field -> Ptr]]
         /\ root' \in [Root -> Ptr]
         /\ remembered' \subseteq Obj /\ remTag' \subseteq Obj
         /\ marked' \subseteq Obj /\ finalized' \subseteq Obj
         /\ pages' \in 1..MaxPages
         /\ failed' \in BOOLEAN
<1> DEFINE fwd == Forwarded
<1>1. \A o \in Obj : ScavengedPlace(o, fwd) \in Places
  BY DEF ScavengedPlace, Places, TypeOK
<1>2. \A o \in Obj : ScavengedFields(o, fwd) \in [Field -> Ptr]
  BY HeapAssumption DEF ScavengedFields, NoFields, Ptr, TypeOK
<1>3. place' \in [Obj -> Places] /\ slot' \in [Obj -> [Field -> Ptr]]
  BY <1>1, <1>2 DEF Scavenge
<1>4. pages' \in 1..MaxPages
  BY GrowType DEF Scavenge
<1> QED
  BY <1>3, <1>4 DEF Scavenge, TypeOK

(* What Resume does to the suspended collections.                          *)
LEMMA ResumeType ==
  ASSUME NEW cs \in Seq(Call), cs # << >>, Resume(cs)
  PROVE  /\ phase' \in {"program", "finalize", "retry"}
         /\ calls' \in Seq(Call)
         /\ phase' # "program" => calls' # << >>
BY DEF Resume

LEMMA TypeInit == Init => TypeInv
<1> SUFFICES ASSUME Init PROVE TypeInv
  OBVIOUS
<1>1. place \in [Obj -> Places]
  BY DEF Init, Places
<1>2. slot \in [Obj -> [Field -> Ptr]]
  BY HeapAssumption DEF Init, Fresh, NoFields, Ptr
<1>3. root \in [Root -> Ptr]
  BY DEF Init, Ptr
<1>4. pages \in 1..MaxPages
  BY HeapAssumption DEF Init
<1>5. calls \in Seq(Call)
  BY DEF Init
<1> QED
  BY <1>1, <1>2, <1>3, <1>4, <1>5 DEF Init, TypeInv, TypeOK

LEMMA TypeStep == TypeInv /\ [Next]_vars => TypeInv'
<1> SUFFICES ASSUME TypeInv, [Next]_vars PROVE TypeInv'
  OBVIOUS
<1> USE DEF TypeInv
<1>0. TypeOK
  OBVIOUS
<1>1. ASSUME NEW r \in Root, SetRoot(r) PROVE TypeInv'
  <2>1. PICK v \in RootValues \union {Nil} \union
                   UNION { { slot[root[s]][f] : f \in Field } : s \in { s \in Root : root[s] \in Obj } } :
          root' = [root EXCEPT ![r] = v]
    BY <1>1 DEF SetRoot
  <2>2. v \in Ptr
    BY <2>1, RootValueType DEF TypeOK
  <2> QED
    BY <1>1, <2>1, <2>2 DEF SetRoot, heapVars, TypeOK
<1>2. ASSUME NEW s \in Root, NEW f \in Field, Store(s, f) PROVE TypeInv'
  <2>1. PICK v \in RootValues \union {Nil} : slot' = [slot EXCEPT ![root[s]][f] = v]
    BY <1>2 DEF Store
  <2>2. slot' \in [Obj -> [Field -> Ptr]]
    BY <1>2, <2>1, RootValueType DEF Store, TypeOK
  <2>3. remembered' \subseteq Obj /\ remTag' \subseteq Obj
    BY <1>2 DEF Store, TypeOK
  <2> QED
    BY <1>2, <2>2, <2>3 DEF Store, TypeOK
<1>12. ASSUME NEW x \in Root, NEW y \in Root, CopyOver(x, y) PROVE TypeInv'
  <2>1. root[x] \in Obj /\ root[y] \in Obj
    BY <1>12 DEF CopyOver
  <2>2. slot' \in [Obj -> [Field -> Ptr]]
    BY <1>12, <2>1 DEF CopyOver, TypeOK
  <2>3. remTag' \subseteq Obj /\ marked' \subseteq Obj /\ finalized' \subseteq Obj
    BY <1>12, <2>1 DEF CopyOver, Copied, TypeOK
  <2> QED
    BY <1>12, <2>2, <2>3 DEF CopyOver, TypeOK
<1>3. ASSUME NEW r \in Root, Allocate(r) PROVE TypeInv'
  <2>1. PICK o \in Obj, c \in RootValues \intersect Obj, v \in RootValues \union {Nil} :
          Create(o, "eden", c, v, r)
    BY <1>3 DEF Allocate
  <2>2. c \in Ptr /\ v \in Ptr /\ "eden" \in Places
    BY RootValueType DEF Places
  <2>3. /\ place' \in [Obj -> Places]
        /\ slot' \in [Obj -> [Field -> Ptr]]
        /\ root' \in [Root -> Ptr]
    BY <2>1, <2>2, CreateType
  <2> QED
    BY <1>3, <2>1, <2>3 DEF Allocate, Create, TypeOK
<1>4. ASSUME NEW r \in Root, Retry(r) PROVE TypeInv'
  <2>1. Top \in Call /\ calls # << >>
    BY <1>4, TopType DEF Retry
  <2>2. PICK o \in Obj, v \in RootValues \union {Nil}, where \in {"eden", "old"} :
          /\ Create(o, where, Top.class, v, r)
          /\ pages' = pages \/ GrowOldSpace(1)
    BY <1>4 DEF Retry
  <2>3. Top.class \in Ptr /\ v \in Ptr /\ where \in Places
    BY <2>1, <2>2, RootValueType DEF Call, Places
  <2>4. /\ place' \in [Obj -> Places]
        /\ slot' \in [Obj -> [Field -> Ptr]]
        /\ root' \in [Root -> Ptr]
    BY <2>2, <2>3, CreateType
  <2>5. pages' \in 1..MaxPages
    BY <2>2, GrowType DEF TypeOK
  <2>6. calls' \in Seq(Call)
    BY <1>4, <2>1 DEF Retry, TypeOK
  <2> QED
    BY <1>4, <2>2, <2>4, <2>5, <2>6 DEF Retry, Create, TypeOK
<1>5. ASSUME AllocateCollects PROVE TypeInv'
  <2>1. PICK c \in RootValues \intersect Obj :
          calls' = Append(calls, [class |-> c, finalize |-> {}])
    BY <1>5 DEF AllocateCollects
  <2>2. [class |-> c, finalize |-> {}] \in Call
    BY RootValueType DEF Call
  <2>3. calls' \in Seq(Call) /\ calls' # << >>
    BY <2>1, <2>2 DEF TypeOK
  <2> QED
    BY <1>5, <2>3, ScavengeType DEF AllocateCollects, TypeOK
<1>6. ASSUME CollectGarbage PROVE TypeInv'
  <2>1. [class |-> Nil, finalize |-> {}] \in Call
    BY DEF Call, Ptr
  <2>2. calls' \in Seq(Call) /\ calls' # << >>
    BY <1>6, <2>1 DEF CollectGarbage, TypeOK
  <2> QED
    BY <1>6, <2>2, ScavengeType DEF CollectGarbage, TypeOK
<1>7. ASSUME MarkAndSweep PROVE TypeInv'
  <2>0. PICK kept \in Keeps(Traversed) : Sweep(kept)
    BY <1>7 DEF MarkAndSweep
  <2> DEFINE trav  == Traversed
             freed == Unmarked(trav) \ kept
             cs    == [i \in 1..Len(calls) |->
                         [class |-> Cut(calls[i].class, freed),
                          finalize |-> { Cut(p, freed) : p \in calls[i].finalize } \union
                                       (IF i = Len(calls) THEN kept ELSE {})]]
  <2>1. trav \subseteq Obj /\ kept \subseteq Obj /\ freed \subseteq Obj
    BY TraversedType, KeepsFacts DEF Unmarked, Old
  <2>2. calls # << >>
    BY <1>7 DEF MarkAndSweep
  <2>3. \A p \in Ptr : Cut(p, freed) \in Ptr
    BY DEF Cut, Ptr
  <2>4. \A p \in Obj \union {Swept} : Cut(p, freed) \in Obj \union {Swept}
    BY DEF Cut
  <2>5. ASSUME NEW i \in 1..Len(calls) PROVE cs[i] \in Call
    <3>1. calls[i] \in Call
      BY DEF TypeOK
    <3>2. Cut(calls[i].class, freed) \in Ptr
      BY <3>1, <2>3 DEF Call
    <3>3. { Cut(p, freed) : p \in calls[i].finalize } \subseteq Obj \union {Swept}
      BY <3>1, <2>4 DEF Call
    <3> QED
      BY <3>2, <3>3, <2>1 DEF Call
  <2>6. cs \in Seq(Call) /\ cs # << >>
    <3>1. calls \in Seq(Call)
      BY DEF TypeOK
    <3> DEFINE new(i) == cs[i]
    <3>2. \A i \in 1..Len(calls) : new(i) \in Call
      BY <2>5
    <3>3. cs = [i \in 1..Len(calls) |-> new(i)]
      OBVIOUS
    <3> HIDE DEF new, cs
    <3> QED
      BY <3>1, <3>2, <3>3, <2>2
  <2>7. Resume(cs)
    BY <2>0 DEF Sweep
  <2>8. /\ phase' \in {"program", "finalize", "retry"}
        /\ calls' \in Seq(Call)
        /\ phase' # "program" => calls' # << >>
    <3> HIDE DEF cs
    <3> QED
      BY <2>6, <2>7, ResumeType
  <2>9. place' \in [Obj -> Places]
    BY <2>0 DEF Sweep, TypeOK, Places
  <2>10. slot' \in [Obj -> [Field -> Ptr]]
    <3>1. slot' = [o \in Obj |-> IF o \in freed THEN NoFields
                                 ELSE [f \in Field |-> Cut(slot[o][f], freed)]]
      BY <2>0 DEF Sweep
    <3>2. NoFields \in [Field -> Ptr]
      BY DEF NoFields, Ptr
    <3> QED
      BY <3>1, <3>2, <2>3 DEF TypeOK
  <2>11. root' \in [Root -> Ptr]
    BY <2>0, <2>3 DEF Sweep, TypeOK
  <2>12. remembered' \subseteq Obj /\ remTag' \subseteq Obj
    BY <2>0 DEF Sweep, TypeOK
  <2>13. marked' \subseteq Obj /\ finalized' \subseteq Obj
    BY <2>0, <2>1 DEF Sweep, MarksAfterSweep, TypeOK
  <2> QED
    BY <2>0, <2>8, <2>9, <2>10, <2>11, <2>12, <2>13 DEF Sweep, TypeOK
<1>8. ASSUME RunFinalizer PROVE TypeInv'
  <2>1. Top \in Call /\ calls # << >> /\ Len(calls) \in 1..Len(calls)
    BY <1>8, TopType DEF RunFinalizer
  <2>2. PICK p \in Top.finalize, r \in Root :
          /\ root' = [root EXCEPT ![r] = p]
          /\ \E sent \in {{p}, {p} \ {Swept}} :
               calls' = [calls EXCEPT ![Len(calls)].finalize = @ \ sent]
    BY <1>8 DEF RunFinalizer
  <2>5. PICK sent : calls' = [calls EXCEPT ![Len(calls)].finalize = @ \ sent]
    BY <2>2
  <2>3. calls' \in Seq(Call)
    <3>1. [Top EXCEPT !.finalize = @ \ sent] \in Call
      BY <2>1 DEF Call
    <3>2. calls' = [calls EXCEPT ![Len(calls)] = [Top EXCEPT !.finalize = @ \ sent]]
      BY <2>1, <2>5 DEF Top, TypeOK
    <3> QED
      BY <3>1, <3>2, <2>1 DEF TypeOK
  <2>4. root' \in [Root -> Ptr]
    <3>1. p \in Ptr
      BY <2>1, <2>2 DEF Call, Ptr
    <3> QED
      BY <2>2, <3>1 DEF TypeOK
  <2> QED
    BY <1>8, <2>3, <2>4 DEF RunFinalizer, heapVars, TypeOK
<1>9. ASSUME FinalizerReturns PROVE TypeInv'
  <2>1. /\ phase' \in {"program", "finalize", "retry"}
        /\ calls' \in Seq(Call)
        /\ phase' # "program" => calls' # << >>
    BY <1>9, ResumeType DEF FinalizerReturns, TypeOK
  <2> QED
    BY <1>9, <2>1 DEF FinalizerReturns, heapVars, TypeOK
<1>10. ASSUME UNCHANGED vars PROVE TypeInv'
  BY <1>10 DEF vars, TypeOK
<1> QED
  BY <1>1, <1>2, <1>3, <1>4, <1>5, <1>6, <1>7, <1>8, <1>9, <1>10, <1>12 DEF Next

(* The heap, the bookkeeping of the collectors and the suspended           *)
(* collections always have their types; in particular the old space never  *)
(* needs more pages than the operating system can map.                     *)
THEOREM TypeCorrect == Spec => []TypeOK
<1>1. TypeInv => TypeOK
  BY DEF TypeInv
<1> QED
  BY <1>1, TypeInit, TypeStep, PTL DEF Spec

-----------------------------------------------------------------------------
(* What the collectors do to objects, whatever the constants.              *)

(* The scavenger forwards new objects only.                                *)
LEMMA ForwardedYoung == Forwarded \subseteq Young
<1>1. Young \subseteq Obj /\ ScavengeSources \subseteq Young
  BY DEF Young, ScavengeSources
<1>2. \A x \in Young : [o \in Obj |-> Targets(o) \intersect Young][x] \subseteq Young
  BY <1>1
<1> QED
  BY <1>1, <1>2, ReachLeast DEF Forwarded

(* Inductive: what waits for its finalizer is an old object, has been      *)
(* tagged and waits in one collection.                                     *)
PendingInv ==
  \A i \in 1..Len(calls) :
    /\ calls[i].finalize \intersect Obj \subseteq finalized \intersect Old
    /\ \A j \in 1..Len(calls) : i # j => calls[i].finalize \intersect calls[j].finalize \intersect Obj = {}

(* A step that makes no object wait and lets those that do stay old and    *)
(* tagged.                                                                 *)
LEMMA PendingStays ==
  ASSUME PendingInv, finalized \intersect Old \subseteq finalized' \intersect Old',
         \A i \in 1..Len(calls') :
           calls'[i].finalize = {} \/ (i \in 1..Len(calls) /\ calls'[i].finalize \subseteq calls[i].finalize)
  PROVE  PendingInv'
<1> SUFFICES ASSUME NEW i \in 1..Len(calls')
             PROVE  /\ calls'[i].finalize \intersect Obj \subseteq finalized' \intersect Old'
                    /\ \A j \in 1..Len(calls') :
                         i # j => calls'[i].finalize \intersect calls'[j].finalize \intersect Obj = {}
  BY DEF PendingInv
<1> QED
  BY DEF PendingInv

(* Where Resume goes on with the collections cs, they are what is left.    *)
LEMMA ResumeLeaves ==
  ASSUME NEW cs \in Seq(Call), cs # << >>, Resume(cs)
  PROVE  calls' \in Seq(Call) /\ \A i \in 1..Len(calls') : i \in 1..Len(cs) /\ calls'[i] = cs[i]
BY DEF Resume

(* The scavenger leaves the old objects and their tags alone.              *)
LEMMA ScavengeLeavesTagged ==
  ASSUME TypeInv, Scavenge
  PROVE  finalized \intersect Old \subseteq finalized' \intersect Old'
<1>1. ASSUME NEW o \in finalized \intersect Old PROVE o \in finalized' \intersect Old'
  <2>1. o \in Obj /\ o \notin Young /\ place[o] = "old"
    BY <1>1 DEF Old, Young
  <2>2. o \notin Promoted(Forwarded)
    BY <2>1 DEF Promoted
  <2>3. ScavengedPlace(o, Forwarded) = "old"
    BY <2>1, <2>2, ForwardedYoung DEF ScavengedPlace
  <2> QED
    BY <1>1, <2>1, <2>3 DEF Scavenge, Old
<1> QED
  BY <1>1

(* The collections in progress once gcSweep has swept.                     *)
SweptCalls(kept) ==
  LET freed == Unmarked(Traversed) \ kept IN
  [i \in 1..Len(calls) |->
     [class |-> Cut(calls[i].class, freed),
      finalize |-> { Cut(p, freed) : p \in calls[i].finalize } \union
                   (IF i = Len(calls) THEN kept ELSE {})]]

(* Freed objects are struck from the lists of finalizers to send; those    *)
(* kept get on the list of the collection that sweeps.                     *)
LEMMA SweptCallsFacts ==
  ASSUME TypeInv, phase = "sweep", NEW kept \in Keeps(Traversed), Sweep(kept)
  PROVE  /\ \A i \in 1..Len(calls) :
              SweptCalls(kept)[i].finalize \intersect Obj =
                ((calls[i].finalize \intersect Obj) \ (Unmarked(Traversed) \ kept))
                   \union (IF i = Len(calls) THEN kept ELSE {})
         /\ \A i \in 1..Len(calls') : i \in 1..Len(calls) /\ calls'[i] = SweptCalls(kept)[i]
<1> DEFINE freed == Unmarked(Traversed) \ kept
<1>1. Len(calls) \in Nat /\ Len(calls) # 0
  BY DEF TypeInv, TypeOK
<1>2. SweptCalls(kept) # << >> /\ Len(SweptCalls(kept)) = Len(calls)
  BY <1>1 DEF SweptCalls
<1>3. SweptCalls(kept) \in Seq(Call)
  <2>1. kept \subseteq Obj
    BY KeepsFacts
  <2>2. ASSUME NEW i \in 1..Len(calls) PROVE SweptCalls(kept)[i] \in Call
    <3>1. calls[i] \in Call
      BY DEF TypeInv, TypeOK
    <3>2. Cut(calls[i].class, freed) \in Ptr
      BY <3>1 DEF Call, Cut, Ptr
    <3>3. { Cut(p, freed) : p \in calls[i].finalize } \subseteq Obj \union {Swept}
      BY <3>1 DEF Call, Cut
    <3> QED
      BY <2>1, <3>2, <3>3 DEF Call, SweptCalls
  <2> DEFINE new(i) == SweptCalls(kept)[i]
  <2>3. \A i \in 1..Len(calls) : new(i) \in Call
    BY <2>2
  <2>4. SweptCalls(kept) = [i \in 1..Len(calls) |-> new(i)]
    BY DEF SweptCalls
  <2> HIDE DEF new
  <2> QED
    BY <1>1, <2>3, <2>4
<1>4. ASSUME NEW i \in 1..Len(calls)
      PROVE  SweptCalls(kept)[i].finalize \intersect Obj =
               ((calls[i].finalize \intersect Obj) \ freed)
                  \union (IF i = Len(calls) THEN kept ELSE {})
  BY HeapAssumption, KeepsFacts DEF Cut, SweptCalls
<1>5. Resume(SweptCalls(kept))
  BY DEF Sweep, SweptCalls
<1> QED
  BY <1>2, <1>3, <1>4, <1>5, ResumeLeaves

(* gcSweep puts on the list of finalizers to send what had no tag yet, and *)
(* what waits already has one.                                             *)
LEMMA SweepPending ==
  ASSUME TypeInv, PendingInv, MarkAndSweep
  PROVE  PendingInv'
<1>0. PICK kept \in Keeps(Traversed) : Sweep(kept)
  BY DEF MarkAndSweep
<1> DEFINE freed == Unmarked(Traversed) \ kept
<1>1. kept \intersect finalized = {} /\ kept \intersect freed = {} /\ kept \subseteq Old
  BY KeepsFacts DEF Unmarked
<1>2. finalized' = (finalized \union kept) \ freed /\ Old' = Old \ freed
  BY <1>0 DEF Sweep, Old, Unmarked
<1>3. /\ \A i \in 1..Len(calls) :
           SweptCalls(kept)[i].finalize \intersect Obj =
             ((calls[i].finalize \intersect Obj) \ freed)
                \union (IF i = Len(calls) THEN kept ELSE {})
      /\ \A i \in 1..Len(calls') : i \in 1..Len(calls) /\ calls'[i] = SweptCalls(kept)[i]
  BY <1>0, SweptCallsFacts DEF MarkAndSweep
<1>4. ASSUME NEW i \in 1..Len(calls), NEW j \in 1..Len(calls)
      PROVE  /\ SweptCalls(kept)[i].finalize \intersect Obj \subseteq finalized' \intersect Old'
             /\ i # j => (SweptCalls(kept)[i].finalize \intersect Obj)
                           \intersect (SweptCalls(kept)[j].finalize \intersect Obj) = {}
  BY <1>1, <1>2, <1>3 DEF PendingInv
<1> SUFFICES ASSUME NEW i \in 1..Len(calls'), NEW j \in 1..Len(calls')
             PROVE  /\ calls'[i].finalize \intersect Obj \subseteq finalized' \intersect Old'
                    /\ i # j => calls'[i].finalize \intersect calls'[j].finalize \intersect Obj = {}
  BY DEF PendingInv
<1> QED
  BY <1>3, <1>4

LEMMA PendingStep ==
  ASSUME "copy" \notin Unbarriered, TypeInv, TypeInv', PendingInv, [Next]_vars
  PROVE  PendingInv'
<1> USE DEF TypeInv
<1>0. calls \in Seq(Call) /\ calls' \in Seq(Call) /\ TypeOK
  BY DEF TypeOK
<1>1. CASE Scavenge /\ \E call \in Call : calls' = Append(calls, call) /\ call.finalize = {}
  <2>1. \A i \in 1..Len(calls') : calls'[i].finalize = {} \/ (i \in 1..Len(calls) /\ calls'[i] = calls[i])
    BY <1>0, <1>1
  <2> QED
    BY <1>1, <2>1, ScavengeLeavesTagged, PendingStays
<1>2. CASE MarkAndSweep
  BY <1>2, SweepPending
<1>3. ASSUME NEW o \in Obj, NEW where \in {"eden", "old"}, NEW c, NEW v, NEW r,
             Create(o, where, c, v, r)
      PROVE  finalized \intersect Old \subseteq finalized' \intersect Old'
  BY <1>3 DEF Create, Old, TypeOK
<1>4. CASE \E r \in Root : Allocate(r)
  BY <1>3, <1>4, PendingStays DEF Allocate
<1>5. CASE \E r \in Root : Retry(r)
  <2>1. calls # << >> /\ calls' = SubSeq(calls, 1, Len(calls) - 1)
    BY <1>5 DEF Retry
  <2>2. \A i \in 1..Len(calls') : i \in 1..Len(calls) /\ calls'[i] = calls[i]
    BY <1>0, <2>1
  <2> QED
    BY <1>3, <1>5, <2>2, PendingStays DEF Retry
<1>6. CASE \E x, y \in Root : CopyOver(x, y)
  <2>1. finalized' = finalized /\ place' = place /\ calls' = calls
    BY <1>6 DEF CopyOver, CopySafe, Copied
  <2> QED
    BY <2>1, PendingStays DEF Old
<1>7. CASE RunFinalizer
  <2>1. PICK sent : calls' = [calls EXCEPT ![Len(calls)].finalize = @ \ sent]
    BY <1>7 DEF RunFinalizer
  <2>2. \A i \in 1..Len(calls') : i \in 1..Len(calls) /\ calls'[i].finalize \subseteq calls[i].finalize
    BY <1>0, <2>1
  <2> QED
    BY <1>7, <2>2, PendingStays DEF RunFinalizer, heapVars, Old
<1>8. CASE FinalizerReturns
  <2>1. \A i \in 1..Len(calls') : i \in 1..Len(calls) /\ calls'[i] = calls[i]
    BY <1>0, <1>8, ResumeLeaves DEF FinalizerReturns
  <2> QED
    BY <1>8, <2>1, PendingStays DEF FinalizerReturns, heapVars, Old
<1>9. CASE UNCHANGED <<place, finalized, calls>>
  BY <1>9, PendingStays DEF Old
<1>10. ASSUME AllocateCollects \/ CollectGarbage
       PROVE  Scavenge /\ \E call \in Call : calls' = Append(calls, call) /\ call.finalize = {}
  <2>1. CASE CollectGarbage
    BY <2>1 DEF CollectGarbage, Call, Ptr
  <2>2. CASE AllocateCollects
    BY <2>2 DEF AllocateCollects, Call, Ptr
  <2> QED
    BY <1>10, <2>1, <2>2
<1> QED
  BY <1>1, <1>2, <1>4, <1>5, <1>6, <1>7, <1>8, <1>9, <1>10 DEF Next, SetRoot, Store, heapVars, vars

(* An object loses TAG_FINALIZED only with its memory.                     *)
LEMMA TagLostWithMemory ==
  ASSUME "copy" \notin Unbarriered, TypeInv, [Next]_vars,
         NEW o \in Obj, o \in finalized, o \notin finalized'
  PROVE  place'[o] = "none"
<1>1. ASSUME Scavenge PROVE place'[o] = "none"
  <2>1. place'[o] = ScavengedPlace(o, Forwarded) /\ o \in Young \ Forwarded
    BY <1>1 DEF Scavenge
  <2> QED
    BY <2>1 DEF ScavengedPlace, Promoted
<1>2. CASE MarkAndSweep
  <2>1. PICK kept \in Keeps(Traversed) : Sweep(kept)
    BY <1>2 DEF MarkAndSweep
  <2> QED
    BY <2>1 DEF Sweep
<1>3. CASE \E x, y \in Root : CopyOver(x, y)
  BY <1>3 DEF CopyOver, CopySafe, Copied
<1> QED
  BY <1>1, <1>2, <1>3
  DEF Next, SetRoot, Store, Allocate, Retry, Create, AllocateCollects, CollectGarbage,
      RunFinalizer, FinalizerReturns, heapVars, vars

(* What a step adds to the lists of finalizers gets its tag with the step. *)
LEMMA ListedWithTag ==
  ASSUME TypeInv, TypeInv', [Next]_vars, NEW o \in Obj,
         o \in Pending(calls'), o \notin Pending(calls)
  PROVE  o \in finalized' \ finalized
<1> PICK i \in 1..Len(calls') : o \in calls'[i].finalize
  BY DEF Pending
<1>0. calls \in Seq(Call) /\ calls' \in Seq(Call)
  BY DEF TypeInv, TypeOK
<1>1. ASSUME i \in 1..Len(calls) PROVE o \notin calls[i].finalize
  BY <1>1 DEF Pending
<1>2. CASE MarkAndSweep
  <2>1. PICK kept \in Keeps(Traversed) : Sweep(kept)
    BY <1>2 DEF MarkAndSweep
  <2>2. /\ i \in 1..Len(calls)
        /\ calls'[i].finalize \intersect Obj =
             ((calls[i].finalize \intersect Obj) \ (Unmarked(Traversed) \ kept))
                \union (IF i = Len(calls) THEN kept ELSE {})
    BY <1>2, <2>1, SweptCallsFacts DEF MarkAndSweep
  <2>3. o \in kept
    BY <1>1, <2>2
  <2>4. finalized' = (finalized \union kept) \ (Unmarked(Traversed) \ kept)
    BY <2>1 DEF Sweep
  <2> QED
    BY <2>3, <2>4, KeepsFacts
<1>3. ASSUME i \in 1..Len(calls), calls'[i].finalize \subseteq calls[i].finalize PROVE FALSE
  BY <1>1, <1>3
<1>4. CASE AllocateCollects \/ CollectGarbage
  <2>1. PICK c : calls' = Append(calls, [class |-> c, finalize |-> {}])
    BY <1>4 DEF AllocateCollects, CollectGarbage
  <2>2. i \in 1..Len(calls) /\ calls'[i] = calls[i]
    BY <1>0, <2>1
  <2> QED
    BY <1>3, <2>2
<1>5. CASE \E r \in Root : Retry(r)
  <2>1. calls # << >> /\ calls' = SubSeq(calls, 1, Len(calls) - 1)
    BY <1>5 DEF Retry, TypeInv
  <2> QED
    BY <1>0, <1>3, <2>1
<1>6. CASE RunFinalizer
  <2>1. PICK sent : calls' = [calls EXCEPT ![Len(calls)].finalize = @ \ sent]
    BY <1>6 DEF RunFinalizer
  <2> QED
    BY <1>0, <1>3, <2>1
<1>7. CASE FinalizerReturns
  <2>1. i \in 1..Len(calls) /\ calls'[i] = calls[i]
    BY <1>0, <1>7, ResumeLeaves DEF FinalizerReturns
  <2> QED
    BY <1>3, <2>1
<1>8. CASE UNCHANGED calls
  BY <1>3, <1>8
<1> QED
  BY <1>2, <1>4, <1>5, <1>6, <1>7, <1>8
  DEF Next, SetRoot, Store, CopyOver, Allocate, heapVars, vars

(* No object gets on two lists of finalizers to send, though collections   *)
(* may run inside finalizers, nor on a list for the second time in its     *)
(* life: unless another object's memory, tags included, is copied over it. *)
THEOREM FinalizedOnceHolds ==
  ASSUME "copy" \notin Unbarriered
  PROVE  Spec => FinalizedOnce
<1> DEFINE Once == \A o \in Obj :
                     /\ o \in Pending(calls') \ Pending(calls) => o \in finalized' \ finalized
                     /\ o \in finalized \ finalized' => place'[o] = "none"
           Apart == \A i, j \in 1..Len(calls) :
                      i # j => calls[i].finalize \intersect calls[j].finalize \intersect Obj = {}
<1>1. Init => PendingInv
  BY DEF Init, PendingInv
<1>2. PendingInv => Apart
  BY DEF PendingInv
<1>3. TypeInv /\ TypeInv' /\ [Next]_vars => [Once]_vars
  BY ListedWithTag, TagLostWithMemory
<1>4. TypeInv /\ TypeInv' /\ PendingInv /\ [Next]_vars => PendingInv'
  BY PendingStep
<1> QED
  BY <1>1, <1>2, <1>3, <1>4, TypeInit, TypeStep, PTL DEF Spec, FinalizedOnce

-----------------------------------------------------------------------------
(* Safety of the heap, in a program whose classes have no finalizers and   *)
(* which no object of the old space is written without the barrier, except *)
(* by a store that needs none.  (Without these it does not hold.)          *)

(* What holds the whole of the old space and of the running code together: *)
(* the objects a scavenge may have to keep.                                *)
AnchorSources == Old \union ((RootValues \union Handles) \intersect Obj)
Anchored == Reach(Obj, AnchorSources, [o \in Obj |-> Targets(o)])

(* Pointers of the running code, and of the objects a scavenge may keep,   *)
(* lead to allocated objects.  Garbage of the new space may dangle.        *)
RootsSound    == \A p \in RootValues \union Handles : p \in Obj \union {Nil}
AnchoredSound == \A o \in Anchored : place[o] # "none" /\ \A f \in Field : slot[o][f] \in Obj \union {Nil}

(* One collection at a time, with no finalizer to send.                    *)
CallsSound ==
  /\ phase = "program" => calls = << >>
  /\ phase # "program" => Len(calls) = 1
  /\ phase # "finalize"
  /\ phase = "retry" => Top.class \in Obj
  /\ \A i \in 1..Len(calls) : calls[i].finalize = {}

(* A mark bit is set in the new space only, and none when marking starts.  *)
MarksSound == marked \subseteq Young /\ (phase = "sweep" => marked = {})

HeapInv ==
  /\ TypeInv
  /\ RootsSound /\ AnchoredSound
  /\ HeapVerified
  /\ RememberedComplete /\ TagsAgree
  /\ CallsSound /\ MarksSound

LEMMA AnchoredFacts ==
  /\ Anchored \subseteq Obj
  /\ Old \subseteq Anchored
  /\ (RootValues \union Handles) \intersect Obj \subseteq Anchored
  /\ \A o \in Anchored : Targets(o) \subseteq Anchored
<1> DEFINE succ == [o \in Obj |-> Targets(o)]
<1>1. AnchorSources \subseteq Obj /\ \A o \in Obj : succ[o] \subseteq Obj
  BY DEF AnchorSources, Old, Targets
<1>2. Anchored = Reach(Obj, AnchorSources, succ)
  BY DEF Anchored
<1>3. Anchored \subseteq Obj
  BY <1>2, ReachInNode
<1>4. AnchorSources \subseteq Anchored
  BY <1>1, <1>2, ReachSources
<1>5. \A o \in Anchored : succ[o] \subseteq Anchored
  <2> HIDE DEF succ
  <2> QED
    BY <1>1, <1>2, ReachClosed
<1> QED
  BY <1>3, <1>4, <1>5 DEF AnchorSources

(* To show that the next state is sound it is enough to exhibit a set that *)
(* holds the next old space and roots and is closed in the next state.     *)
LEMMA AnchoredStep ==
  ASSUME NEW S, S \subseteq Obj,
         Old' \subseteq S,
         (RootValues \union Handles)' \subseteq S \union {Nil},
         \A o \in S : place'[o] # "none" /\ \A f \in Field : slot'[o][f] \in S \union {Nil}
  PROVE  RootsSound' /\ AnchoredSound'
<1> DEFINE succ == [o \in Obj |-> Targets(o)']
<1>1. Anchored' = Reach(Obj, AnchorSources', succ)
  BY DEF Anchored
<1>2. AnchorSources' \subseteq S
  BY HeapAssumption DEF AnchorSources
<1>3. \A o \in S : succ[o] \subseteq S
  BY HeapAssumption DEF Targets
<1>4. Anchored' \subseteq S
  <2> HIDE DEF succ
  <2> QED
    BY <1>1, <1>2, <1>3, ReachLeast
<1> QED
  BY <1>4 DEF RootsSound, AnchoredSound

(* The pointers of a sound object stay among the sound objects.            *)
LEMMA AnchoredFields ==
  ASSUME HeapInv
  PROVE  /\ \A o \in Anchored : place[o] # "none" /\ \A f \in Field : slot[o][f] \in Anchored \union {Nil}
         /\ RootValues \union Handles \subseteq Anchored \union {Nil}
BY AnchoredFacts DEF HeapInv, AnchoredSound, RootsSound, Targets

(* A new object, written with no barrier, keeps the heap sound when it is  *)
(* made in the new space or refers to no new object.                       *)
LEMMA CreateSound ==
  ASSUME HeapInv, NEW o \in Obj, NEW where \in {"eden", "old"},
         NEW c \in Anchored, NEW v \in Anchored \union {Nil}, NEW r \in Root,
         Create(o, where, c, v, r),
         where = "old" => {c, v} \intersect Young = {},
         Handles' \subseteq Handles
  PROVE  /\ RootsSound' /\ AnchoredSound'
         /\ HeapVerified'
         /\ RememberedComplete' /\ TagsAgree'
         /\ marked' = marked /\ Young \subseteq Young'
<1> DEFINE S == Anchored \union {o}
<1>1. /\ place' = [place EXCEPT ![o] = where]
      /\ slot' = [slot EXCEPT ![o] = Fresh(c, v)]
      /\ root' = [root EXCEPT ![r] = o]
      /\ UNCHANGED <<remembered, remTag, marked>>
      /\ place[o] = "none"
  BY DEF Create
<1>2. /\ place \in [Obj -> Places] /\ slot \in [Obj -> [Field -> Ptr]]
      /\ root \in [Root -> Ptr]
  BY DEF HeapInv, TypeInv, TypeOK
<1>3. o \notin Anchored
  BY <1>1, AnchoredFields
<1>4. S \subseteq Obj
  BY AnchoredFacts
<1>5. Old \subseteq Old' /\ Old' \subseteq Old \union {o} /\ Young \subseteq Young'
      /\ Young' \subseteq Young \union {o}
  BY <1>1, <1>2 DEF Old, Young
<1>6. Old' \subseteq S
  BY <1>5, AnchoredFacts
<1>7. (RootValues \union Handles)' \subseteq S \union {Nil}
  <2>1. RootValues' \subseteq RootValues \union {o}
    BY <1>1, <1>2 DEF RootValues
  <2> QED
    BY <2>1, AnchoredFields
<1>8. \A f \in Field : slot'[o][f] \in {c, v}
  BY <1>1, <1>2 DEF Fresh
<1>9. \A x \in Obj \ {o} : slot'[x] = slot[x] /\ place'[x] = place[x]
  BY <1>1, <1>2
<1>10. \A x \in S : place'[x] # "none" /\ \A f \in Field : slot'[x][f] \in S \union {Nil}
  <2>1. place'[o] # "none"
    BY <1>1, <1>2
  <2>2. ASSUME NEW x \in Anchored
        PROVE  place'[x] # "none" /\ \A f \in Field : slot'[x][f] \in S \union {Nil}
    BY <1>3, <1>4, <1>9, AnchoredFields
  <2> QED
    BY <1>8, <2>1, <2>2
<1>11. RootsSound' /\ AnchoredSound'
  <2> HIDE DEF S
  <2> QED
    BY <1>4, <1>6, <1>7, <1>10, AnchoredStep
<1>12. HeapVerified'
  <2>1. c # Stale /\ v # Stale
    BY AnchoredFacts, HeapAssumption
  <2> QED
    BY <1>8, <1>9, <2>1 DEF HeapInv, HeapVerified
<1>13. RememberedComplete'
  <2> SUFFICES ASSUME NEW x \in Old', Targets(x)' \intersect Young' # {}
               PROVE  x \in remembered'
    BY DEF RememberedComplete
  <2>1. x \in Obj
    BY DEF Old
  <2>2. CASE x = o
    <3>1. where = "old"
      BY <1>1, <1>2, <2>2 DEF Old
    <3>2. {c, v} \intersect Young = {} /\ o \notin Young'
      BY <1>1, <1>2, <3>1 DEF Young
    <3> QED
      BY <1>5, <1>8, <2>2, <3>2 DEF Targets
  <2>3. CASE x # o
    <3>1. x \in Old /\ Targets(x)' = Targets(x)
      BY <1>5, <1>9, <2>1, <2>3 DEF Targets
    <3>2. Targets(x) \intersect Young # {}
      BY <1>3, <1>5, <3>1, AnchoredFacts
    <3> QED
      BY <1>1, <3>1, <3>2 DEF HeapInv, RememberedComplete
  <2> QED
    BY <2>2, <2>3
<1>14. TagsAgree'
  BY <1>1, <1>5 DEF HeapInv, TagsAgree
<1> QED
  BY <1>1, <1>5, <1>11, <1>12, <1>13, <1>14

LEMMA ForwardedFacts ==
  ASSUME HeapInv
  PROVE  /\ Forwarded \subseteq Anchored
         /\ Forwarded \subseteq Young
         /\ ScavengeSources \subseteq Forwarded
         /\ \A o \in Forwarded : Targets(o) \intersect Young \subseteq Forwarded
<1> DEFINE succ == [o \in Obj |-> Targets(o) \intersect Young]
<1>1. Forwarded = Reach(Obj, ScavengeSources, succ)
  BY DEF Forwarded
<1>2. ScavengeSources \subseteq Obj /\ \A o \in Obj : succ[o] \subseteq Obj
  BY DEF ScavengeSources, Young
<1>3. ScavengeSources \subseteq Forwarded
  BY <1>1, <1>2, ReachSources
<1>4. \A o \in Forwarded : succ[o] \subseteq Forwarded
  <2> HIDE DEF succ
  <2> QED
    BY <1>1, <1>2, ReachClosed
<1>5. Forwarded \subseteq Obj
  BY ForwardedType
<1>6. ScavengeSources \subseteq Anchored
  <2>1. remembered \subseteq Anchored
    BY AnchoredFacts DEF HeapInv, TagsAgree
  <2>2. \A o \in remembered : Targets(o) \subseteq Anchored
    BY <2>1, AnchoredFacts
  <2> QED
    BY <2>2, AnchoredFacts DEF ScavengeSources, Young
<1>7. \A o \in Anchored : succ[o] \subseteq Anchored
  BY AnchoredFacts
<1>8. Forwarded \subseteq Anchored
  <2> HIDE DEF succ
  <2> QED
    BY <1>1, <1>6, <1>7, AnchoredFacts, ReachLeast
<1> QED
  BY <1>3, <1>4, <1>5, <1>8, ForwardedYoung

(* A scavenge keeps the heap sound: what it moves it finds through the     *)
(* remembered set and the roots, and it rewrites every pointer to it.      *)
LEMMA ScavengeSound ==
  ASSUME HeapInv, Scavenge, Handles' \subseteq Handles \union RootValues \union {Nil}
  PROVE  /\ RootsSound' /\ AnchoredSound'
         /\ HeapVerified'
         /\ RememberedComplete' /\ TagsAgree'
         /\ marked' = {}
         /\ \A o \in Anchored : slot'[o] = slot[o]
<1> DEFINE fwd  == Forwarded
           S    == Old \union fwd
<1> HIDE DEF fwd
<1>1. /\ place' = [o \in Obj |-> ScavengedPlace(o, fwd)]
      /\ slot' = [o \in Obj |-> ScavengedFields(o, fwd)]
      /\ remembered' = remembered \union { o \in Obj : VisitAdds(o, fwd) }
      /\ remTag' = remTag \union { o \in Obj : VisitAdds(o, fwd) }
      /\ marked' = marked \ Young
      /\ root' = root
  BY DEF Scavenge, fwd
<1>2. /\ fwd \subseteq Anchored /\ fwd \subseteq Young /\ ScavengeSources \subseteq fwd
      /\ \A o \in fwd : Targets(o) \intersect Young \subseteq fwd
  BY ForwardedFacts DEF fwd
<1>3. S \subseteq Anchored /\ S \subseteq Obj
  BY <1>2, AnchoredFacts
<1>4. Promoted(fwd) \subseteq fwd
  BY DEF Promoted
<1>5. Old \intersect Young = {}
  BY DEF Old, Young
<1>6. \A o \in Old : place'[o] = "old" /\ o \in Obj
  BY <1>1, <1>2, <1>4, <1>5 DEF ScavengedPlace, Old
<1>7. \A o \in Promoted(fwd) : place'[o] = "old" /\ o \in Obj
  BY <1>1, <1>3, <1>4 DEF ScavengedPlace
<1>8. \A o \in fwd \ Promoted(fwd) : place'[o] = "survivor" /\ o \in Obj
  BY <1>1, <1>3 DEF ScavengedPlace
<1>9. \A o \in Obj \ S : place'[o] = "none"
  <2> SUFFICES ASSUME NEW o \in Obj \ S PROVE place'[o] = "none"
    OBVIOUS
  <2>1. o \notin Promoted(fwd) /\ o \notin fwd /\ o \in Obj
    BY <1>4
  <2>2. CASE o \in Young
    BY <1>1, <2>1, <2>2 DEF ScavengedPlace
  <2>3. CASE o \notin Young
    <3>1. place[o] = "none"
      BY <2>1, <2>3 DEF Old, Young, HeapInv, TypeInv, TypeOK, Places
    <3> QED
      BY <1>1, <2>1, <2>3, <3>1 DEF ScavengedPlace
  <2> QED
    BY <2>2, <2>3
<1>10. Old' = Old \union Promoted(fwd)
  BY <1>6, <1>7, <1>8, <1>9 DEF Old
<1>11. Young' = fwd \ Promoted(fwd)
  BY <1>6, <1>7, <1>8, <1>9 DEF Young
(* No pointer that was not rewritten led into the new space.               *)
<1>12. \A o \in S : slot'[o] = slot[o]
  <2> SUFFICES ASSUME NEW o \in S PROVE slot'[o] = slot[o]
    OBVIOUS
  <2>1. slot'[o] = ScavengedFields(o, fwd) /\ o \notin Young \ fwd
    BY <1>1, <1>3, <1>5
  <2>2. CASE o \in fwd \union remembered
    BY <2>1, <2>2 DEF ScavengedFields
  <2>3. CASE o \notin fwd \union remembered
    <3>1. Targets(o) \intersect Young = {}
      BY <2>3 DEF HeapInv, RememberedComplete
    <3>2. \A f \in Field : slot[o][f] \notin Young
      BY <3>1 DEF Targets, Young
    <3>3. slot[o] \in [Field -> Ptr]
      BY <1>3 DEF HeapInv, TypeInv, TypeOK
    <3> QED
      BY <2>1, <2>3, <3>2, <3>3 DEF ScavengedFields
  <2> QED
    BY <2>2, <2>3
(* S holds what the roots and the fields of its members point to.          *)
<1>13. \A o \in S : Targets(o) \subseteq S
  <2> SUFFICES ASSUME NEW o \in S, NEW t \in Targets(o) PROVE t \in S
    OBVIOUS
  <2>1. t \in Anchored
    BY <1>3, AnchoredFacts
  <2>2. t \in Old \/ t \in Young
    BY <2>1, AnchoredFacts, AnchoredFields DEF Old, Young, HeapInv, TypeInv, TypeOK, Places
  <2>3. CASE t \in Young
    <3>1. CASE o \in fwd
      BY <1>2, <2>3, <3>1
    <3>2. CASE o \in Old
      <4>1. o \in remembered
        BY <2>3, <3>2 DEF HeapInv, RememberedComplete
      <4> QED
        BY <1>2, <2>3, <4>1 DEF ScavengeSources
    <3> QED
      BY <3>1, <3>2
  <2> QED
    BY <2>2, <2>3
<1>14. RootValues \union Handles \subseteq S \union {Nil}
  <2> SUFFICES ASSUME NEW p \in RootValues \union Handles, p # Nil PROVE p \in S
    OBVIOUS
  <2>1. p \in Anchored
    BY AnchoredFields
  <2>2. p \in Old \/ p \in Young
    BY <2>1, AnchoredFacts, AnchoredFields DEF Old, Young, HeapInv, TypeInv, TypeOK, Places
  <2>3. CASE p \in Young
    BY <1>2, <2>3 DEF ScavengeSources
  <2> QED
    BY <2>2, <2>3
<1>15. (RootValues \union Handles)' \subseteq S \union {Nil}
  BY <1>1, <1>14 DEF RootValues
<1>16. \A o \in S : place'[o] # "none" /\ \A f \in Field : slot'[o][f] \in S \union {Nil}
  <2> SUFFICES ASSUME NEW o \in S
               PROVE  place'[o] # "none" /\ \A f \in Field : slot'[o][f] \in S \union {Nil}
    OBVIOUS
  <2>1. place'[o] # "none"
    BY <1>6, <1>7, <1>8
  <2>2. \A f \in Field : slot[o][f] \in Obj \union {Nil}
    BY <1>3, AnchoredFacts, AnchoredFields
  <2> QED
    BY <1>12, <1>13, <2>1, <2>2 DEF Targets
<1>17. RootsSound' /\ AnchoredSound'
  <2>1. Old' \subseteq S
    BY <1>4, <1>10
  <2> HIDE DEF S
  <2> QED
    BY <1>3, <1>15, <1>16, <2>1, AnchoredStep
<1>18. HeapVerified'
  BY <1>3, <1>9, <1>16, HeapAssumption DEF HeapVerified
<1>19. RememberedComplete'
  <2> SUFFICES ASSUME NEW o \in Old', Targets(o)' \intersect Young' # {}
               PROVE  o \in remembered'
    BY DEF RememberedComplete
  <2>1. o \in S /\ o \in Obj
    BY <1>3, <1>4, <1>10
  <2>2. Targets(o)' = Targets(o)
    BY <1>12, <2>1 DEF Targets
  <2>3. Targets(o) \intersect (fwd \ Promoted(fwd)) # {}
    BY <1>11, <2>2
  <2>4. CASE o \in Old
    <3>1. o \in remembered
      BY <1>2, <2>3, <2>4 DEF HeapInv, RememberedComplete
    <3> QED
      BY <1>1, <3>1
  <2>5. CASE o \in Promoted(fwd)
    <3>1. CASE o \in remTag
      BY <1>1, <3>1 DEF HeapInv, TagsAgree
    <3>2. CASE o \notin remTag
      BY <1>1, <2>1, <2>3, <2>5, <3>2 DEF VisitAdds
    <3> QED
      BY <3>1, <3>2
  <2> QED
    BY <1>10, <2>4, <2>5
<1>20. TagsAgree'
  <2>1. \A o \in Obj : VisitAdds(o, fwd) => o \in Old'
    BY <1>10 DEF VisitAdds
  <2> QED
    BY <1>1, <1>10, <2>1 DEF HeapInv, TagsAgree
<1>21. marked' = {}
  BY <1>1 DEF HeapInv, MarksSound
<1>22. Anchored \subseteq S
  <2> DEFINE succ == [o \in Obj |-> Targets(o)]
  <2>1. Anchored = Reach(Obj, AnchorSources, succ)
    BY DEF Anchored
  <2>2. AnchorSources \subseteq S
    BY <1>14, HeapAssumption DEF AnchorSources
  <2>3. \A o \in S : succ[o] \subseteq S
    BY <1>3, <1>13
  <2> HIDE DEF S, succ
  <2> QED
    BY <1>3, <2>1, <2>2, <2>3, ReachLeast
<1> QED
  BY <1>12, <1>17, <1>18, <1>19, <1>20, <1>21, <1>22

LEMMA TraversedFacts ==
  ASSUME HeapInv, marked = {}
  PROVE  /\ Traversed \subseteq Anchored
         /\ (RootValues \union Handles) \intersect Obj \subseteq Traversed
         /\ \A o \in Traversed : Targets(o) \subseteq Traversed
<1> DEFINE succ == [o \in Obj |-> Targets(o) \ marked]
<1>1. Traversed = Reach(Obj, MarkSources, succ)
  BY DEF Traversed
<1>2. MarkSources \subseteq Obj /\ \A o \in Obj : succ[o] \subseteq Obj
  BY DEF MarkSources, Targets
<1>3. MarkSources = (RootValues \union Handles) \intersect Obj
  BY DEF MarkSources
<1>4. MarkSources \subseteq Traversed
  BY <1>1, <1>2, ReachSources
<1>5. \A o \in Traversed : succ[o] \subseteq Traversed
  <2> HIDE DEF succ
  <2> QED
    BY <1>1, <1>2, ReachClosed
<1>6. \A o \in Anchored : succ[o] \subseteq Anchored
  BY AnchoredFacts
<1>7. Traversed \subseteq Anchored
  <2> HIDE DEF succ
  <2> QED
    BY <1>1, <1>3, <1>6, AnchoredFacts, ReachLeast
<1> QED
  BY <1>3, <1>4, <1>5, <1>7, TraversedType

(* The sweep keeps the heap sound: it frees old objects that nothing sound *)
(* refers to.                                                              *)
LEMMA SweepSound ==
  ASSUME HeapInv, Finalizable = {}, MarkAndSweep
  PROVE  /\ RootsSound' /\ AnchoredSound'
         /\ HeapVerified'
         /\ RememberedComplete' /\ TagsAgree'
         /\ marked' \subseteq Young'
         /\ CallsSound' /\ phase' # "sweep"
         /\ Old' \subseteq Traversed
         /\ \A o \in Traversed : slot'[o] = slot[o]
         /\ root' = root /\ RootValues' = RootValues
         /\ Handles \intersect Obj \subseteq Handles' /\ Handles' \subseteq Handles
<1>0. Sweep({})
  BY KeepsFacts DEF MarkAndSweep
<1> DEFINE trav  == Traversed
           freed == Unmarked(trav) \ {}
<1> HIDE DEF trav, freed
<1>1. marked = {} /\ phase = "sweep"
  BY DEF MarkAndSweep, HeapInv, MarksSound
<1>3. freed = Old \ trav
  BY <1>1 DEF Unmarked, freed
<1>4. /\ place' = [o \in Obj |-> IF o \in freed THEN "none" ELSE place[o]]
      /\ slot' = [o \in Obj |-> IF o \in freed THEN NoFields
                                ELSE [f \in Field |-> Cut(slot[o][f], freed)]]
      /\ root' = [r \in Root |-> Cut(root[r], freed)]
      /\ remembered' = { o \in Obj : MarkAdds(o, trav) }
      /\ remTag' = ((remTag \ trav) \ freed) \union { o \in Obj : MarkAdds(o, trav) }
      /\ marked' = MarksAfterSweep(trav, {})
  BY <1>0 DEF Sweep, trav, freed
<1>5. /\ trav \subseteq Anchored
      /\ (RootValues \union Handles) \intersect Obj \subseteq trav
      /\ \A o \in trav : Targets(o) \subseteq trav
  BY <1>1, TraversedFacts DEF trav
<1>6. trav \subseteq Obj /\ trav \intersect freed = {}
  BY <1>3, TraversedType DEF trav
<1>7. /\ slot \in [Obj -> [Field -> Ptr]] /\ place \in [Obj -> Places]
      /\ root \in [Root -> Ptr] /\ calls \in Seq(Call)
  BY DEF HeapInv, TypeInv, TypeOK
<1>8. \A o \in Obj : place'[o] = IF o \in freed THEN "none" ELSE place[o]
  BY <1>4
<1>9. Old' = Old \intersect trav
  BY <1>3, <1>8 DEF Old
<1>10. Young' = Young
  BY <1>3, <1>8 DEF Young, Old
<1>11. \A o \in trav : slot'[o] = slot[o]
  <2> SUFFICES ASSUME NEW o \in trav PROVE slot'[o] = slot[o]
    OBVIOUS
  <2>1. slot'[o] = [f \in Field |-> Cut(slot[o][f], freed)]
    BY <1>4, <1>6
  <2>2. \A f \in Field : slot[o][f] \notin freed
    <3>1. \A f \in Field : slot[o][f] \in Obj => slot[o][f] \in trav
      BY <1>5 DEF Targets
    <3>2. freed \subseteq Obj
      BY <1>3 DEF Old
    <3> QED
      BY <1>6, <3>1, <3>2
  <2> QED
    BY <1>6, <1>7, <2>1, <2>2 DEF Cut
<1>12. \A p \in RootValues \union Handles : Cut(p, freed) = p
  <2>1. freed \subseteq Obj
    BY <1>3 DEF Old
  <2>2. \A p \in RootValues \union Handles : p \notin freed
    BY <1>5, <1>6, <2>1
  <2> QED
    BY <2>2 DEF Cut
<1>13. root' = root /\ RootValues' = RootValues
  <2>1. \A r \in Root : root'[r] = root[r]
    BY <1>4, <1>12 DEF RootValues
  <2>2. root' = root
    BY <1>4, <1>7, <2>1
  <2> QED
    BY <2>2 DEF RootValues
<1>14. Len(calls) = 1 /\ calls[1].finalize = {} /\ calls[1].class \in Handles
  <2>1. Len(calls) = 1 /\ calls[1].finalize = {}
    BY <1>1 DEF HeapInv, CallsSound
  <2>2. calls[1].class \in { calls[i].class : i \in 1..Len(calls) }
    BY <2>1
  <2> QED
    BY <2>1, <2>2 DEF Handles
<1>15. /\ CallsSound' /\ phase' # "sweep"
       /\ Handles' \subseteq Handles /\ Handles \intersect Obj \subseteq Handles'
  <2> DEFINE cs == [i \in 1..Len(calls) |->
                     [class |-> Cut(calls[i].class, freed),
                      finalize |-> { Cut(p, freed) : p \in calls[i].finalize } \union
                                   (IF i = Len(calls) THEN {} ELSE {})]]
  <2>1. Resume(cs)
    BY <1>0 DEF Sweep, trav, freed
  <2>2. Len(cs) = 1 /\ cs[1].finalize = {} /\ cs[1].class = calls[1].class
    BY <1>12, <1>14
  <2>3. cs \in Seq([class : {calls[1].class}, finalize : {{}}])
    <3>1. cs = [i \in 1..1 |-> [class |-> calls[1].class, finalize |-> {}]]
      BY <1>12, <1>14
    <3> HIDE DEF cs
    <3> QED
      BY <3>1
  <2> HIDE DEF cs
  <2>0. Handles = {calls[1].class}
    BY <1>14 DEF Handles
  <2>4. CASE calls[1].class # Nil
    <3>1. phase' = "retry" /\ calls' = cs
      BY <2>1, <2>2, <2>4 DEF Resume
    <3>2. calls[1].class \in Obj
      BY <1>14, <2>4 DEF HeapInv, RootsSound
    <3>3. Len(calls') = 1 /\ calls'[1].finalize = {} /\ calls'[1].class = calls[1].class
      BY <2>2, <3>1
    <3>4. Handles' = {calls[1].class}
      BY <3>3 DEF Handles
    <3>5. CallsSound'
      BY <3>1, <3>2, <3>3 DEF CallsSound, Top
    <3> QED
      BY <2>0, <3>1, <3>4, <3>5
  <2>5. CASE calls[1].class = Nil
    <3>1. phase' = "program" /\ calls' = SubSeq(cs, 1, 0)
      BY <2>1, <2>2, <2>5 DEF Resume
    <3>2. calls' = << >>
      BY <2>3, <3>1
    <3>3. Handles' = {}
      BY <3>2 DEF Handles
    <3> QED
      BY <2>0, <2>5, <3>1, <3>2, <3>3, HeapAssumption DEF CallsSound
  <2> QED
    BY <2>4, <2>5
<1>16. RootsSound' /\ AnchoredSound'
  <2>1. (RootValues \union Handles)' \subseteq trav \union {Nil}
    BY <1>5, <1>13, <1>15 DEF HeapInv, RootsSound
  <2>2. \A o \in trav : place'[o] # "none"
    BY <1>5, <1>6, <1>8, AnchoredFields
  <2>3. \A o \in trav : \A f \in Field : slot[o][f] \in Obj \union {Nil}
    BY <1>5, AnchoredFacts, AnchoredFields
  <2>4. \A o \in trav : \A f \in Field : slot'[o][f] \in trav \union {Nil}
    BY <1>5, <1>11, <2>3 DEF Targets
  <2> QED
    BY <1>6, <1>9, <2>1, <2>2, <2>4, AnchoredStep
<1>17. HeapVerified'
  <2> SUFFICES ASSUME NEW o \in Obj, place'[o] # "none", NEW f \in Field
               PROVE  slot'[o][f] # Stale
    BY DEF HeapVerified
  <2>1. o \notin freed /\ place[o] # "none"
    BY <1>8
  <2>2. slot'[o][f] = Cut(slot[o][f], freed)
    BY <1>4, <2>1
  <2> QED
    BY <2>1, <2>2, HeapAssumption DEF Cut, HeapInv, HeapVerified
<1>18. RememberedComplete'
  <2> SUFFICES ASSUME NEW o \in Old', Targets(o)' \intersect Young' # {}
               PROVE  o \in remembered'
    BY DEF RememberedComplete
  <2>1. o \in trav /\ o \in Old /\ o \in Obj
    BY <1>6, <1>9
  <2>2. Targets(o)' = Targets(o)
    BY <1>11, <2>1 DEF Targets
  <2> QED
    BY <1>4, <1>10, <2>1, <2>2 DEF MarkAdds
<1>19. TagsAgree'
  <2>1. (remTag \ trav) \ freed = {}
    BY <1>3 DEF HeapInv, TagsAgree
  <2>2. \A o \in Obj : MarkAdds(o, trav) => o \in Old'
    BY <1>9 DEF MarkAdds
  <2> QED
    BY <1>4, <2>1, <2>2 DEF TagsAgree
<1>20. marked' \subseteq Young'
  BY <1>4, <1>10 DEF MarksAfterSweep
<1> QED
  BY <1>9, <1>11, <1>13, <1>15, <1>16, <1>17, <1>18, <1>19, <1>20 DEF trav

LEMMA HeapInit == Init => HeapInv
<1> SUFFICES ASSUME Init PROVE HeapInv
  OBVIOUS
<1> DEFINE succ == [o \in Obj |-> Targets(o)]
           S    == {Kernel}
<1>1. /\ Old = {} /\ Young = {Kernel} /\ Handles = {}
      /\ RootValues \subseteq {Kernel, Nil}
  BY HeapAssumption DEF Init, Old, Young, Handles, RootValues
<1>2. \A o \in Obj : \A f \in Field : slot[o][f] \in {Kernel, Nil}
  BY DEF Init, Fresh, NoFields
<1>3. AnchorSources \subseteq S /\ S \subseteq Obj
  BY <1>1, HeapAssumption DEF AnchorSources
<1>4. \A o \in S : succ[o] \subseteq S
  BY <1>2, HeapAssumption DEF Targets
<1>5. Anchored \subseteq S
  <2>1. Anchored = Reach(Obj, AnchorSources, succ)
    BY DEF Anchored
  <2> HIDE DEF succ, S
  <2> QED
    BY <1>3, <1>4, <2>1, ReachLeast
<1>6. RootsSound
  BY <1>1, HeapAssumption DEF RootsSound
<1>7. AnchoredSound
  BY <1>2, <1>5, HeapAssumption DEF AnchoredSound, Init
<1>8. HeapVerified
  BY <1>2, HeapAssumption DEF HeapVerified
<1>9. RememberedComplete /\ TagsAgree
  BY <1>1 DEF RememberedComplete, TagsAgree, Init
<1>10. CallsSound /\ MarksSound
  BY DEF Init, CallsSound, MarksSound
<1> QED
  BY <1>6, <1>7, <1>8, <1>9, <1>10, TypeInit DEF HeapInv

LEMMA HeapStep ==
  ASSUME Finalizable = {}, Unbarriered = {}
  PROVE  HeapInv /\ [Next]_vars => HeapInv'
<1> SUFFICES ASSUME HeapInv, [Next]_vars PROVE HeapInv'
  OBVIOUS
<1>0. TypeInv /\ TypeInv'
  BY TypeStep DEF HeapInv
<1>a. /\ Anchored \subseteq Obj /\ Nil \notin Obj
      /\ \A o \in Anchored : \A f \in Field : slot[o][f] \in Anchored \union {Nil}
      /\ RootValues \union Handles \subseteq Anchored \union {Nil}
      /\ Old \subseteq Anchored
  BY AnchoredFacts, AnchoredFields, HeapAssumption
<1>1. ASSUME NEW r \in Root, SetRoot(r) PROVE HeapInv'
  <2>1. PICK v \in RootValues \union {Nil} \union
                   UNION { { slot[root[s]][f] : f \in Field } : s \in { s \in Root : root[s] \in Obj } } :
          root' = [root EXCEPT ![r] = v]
    BY <1>1 DEF SetRoot
  <2>2. \A s \in Root : root[s] \in Obj => root[s] \in Anchored
    BY <1>a DEF RootValues
  <2>3. v \in Anchored \union {Nil}
    BY <1>a, <2>1, <2>2
  <2>4. UNCHANGED <<place, slot, remembered, remTag, marked, phase, calls>>
    BY <1>1 DEF SetRoot, heapVars
  <2>5. (RootValues \union Handles)' \subseteq Anchored \union {Nil}
    BY <1>0, <1>a, <2>1, <2>3, <2>4 DEF RootValues, Handles, TypeInv, TypeOK
  <2>6. Old' = Old /\ Young' = Young
    BY <2>4 DEF Old, Young
  <2>7. RootsSound' /\ AnchoredSound'
    BY <1>a, <2>4, <2>5, <2>6, AnchoredFields, AnchoredStep
  <2> QED
    BY <1>0, <2>4, <2>6, <2>7
    DEF HeapInv, HeapVerified, RememberedComplete, TagsAgree, Targets, CallsSound,
        MarksSound, Top
<1>2. ASSUME NEW s \in Root, NEW f \in Field, Store(s, f) PROVE HeapInv'
  <2> DEFINE o == root[s]
  <2>1. PICK v \in RootValues \union {Nil} :
          /\ slot' = [slot EXCEPT ![o][f] = v]
          /\ remembered' = remembered \union (IF BarrierAdds(o, v) THEN {o} ELSE {})
          /\ remTag' = remTag \union (IF BarrierAdds(o, v) THEN {o} ELSE {})
    BY <1>2 DEF Store
  <2>2. o \in Obj /\ UNCHANGED <<place, root, marked, phase, calls>>
    BY <1>2 DEF Store
  <2>3. v \in Anchored \union {Nil} /\ o \in Anchored
    BY <1>a, <2>1, <2>2 DEF RootValues
  <2>4. \A x \in Obj, g \in Field : slot'[x][g] = IF x = o /\ g = f THEN v ELSE slot[x][g]
    BY <1>0, <2>1, <2>2 DEF TypeInv, TypeOK
  <2>5. Old' = Old /\ Young' = Young /\ RootValues' = RootValues /\ Handles' = Handles
    BY <2>2 DEF Old, Young, RootValues, Handles
  <2>6. \A x \in Anchored : place'[x] # "none" /\ \A g \in Field : slot'[x][g] \in Anchored \union {Nil}
    BY <1>a, <2>2, <2>3, <2>4, AnchoredFields
  <2>7. RootsSound' /\ AnchoredSound'
    BY <1>a, <2>5, <2>6, AnchoredStep
  <2>8. HeapVerified'
    BY <1>a, <2>2, <2>3, <2>4, HeapAssumption DEF HeapInv, HeapVerified
  <2>9. RememberedComplete'
    <3> SUFFICES ASSUME NEW x \in Old, NEW t \in Targets(x)', t \in Young
                 PROVE  x \in remembered'
      BY <2>5 DEF RememberedComplete
    <3>1. x \in Obj /\ t \in Obj
      BY DEF Old, Young
    <3>2. PICK g \in Field : t = slot'[x][g]
      BY DEF Targets
    <3>3. CASE x = o /\ g = f
      <4>1. t = v /\ o \in Old
        BY <2>4, <3>1, <3>2, <3>3
      <4>2. CASE o \in remTag
        BY <2>1, <3>3, <4>2 DEF HeapInv, TagsAgree
      <4>3. CASE o \notin remTag
        BY <2>1, <3>3, <4>1, <4>3 DEF BarrierAdds
      <4> QED
        BY <4>2, <4>3
    <3>4. CASE ~(x = o /\ g = f)
      <4>1. t \in Targets(x)
        BY <2>4, <3>1, <3>2, <3>4 DEF Targets
      <4> QED
        BY <2>1, <4>1 DEF HeapInv, RememberedComplete
    <3> QED
      BY <3>3, <3>4
  <2>10. TagsAgree'
    BY <2>1, <2>5 DEF HeapInv, TagsAgree, BarrierAdds
  <2>11. CallsSound' /\ MarksSound'
    BY <2>2, <2>5 DEF HeapInv, CallsSound, MarksSound, Top
  <2> QED
    BY <1>0, <2>7, <2>8, <2>9, <2>10, <2>11 DEF HeapInv
<1>12. ASSUME NEW y \in Root, NEW z \in Root, CopyOver(y, z) PROVE HeapInv'
  <2> DEFINE t == root[y]
             s == root[z]
  <2>1. /\ t \in Obj /\ s \in Obj /\ CopySafe(t, s)
        /\ slot' = [slot EXCEPT ![t] = slot[s]]
        /\ remTag' = Copied(remTag, t, s) /\ marked' = Copied(marked, t, s)
        /\ UNCHANGED <<place, root, remembered, phase, calls>>
        /\ phase = "program"
    BY <1>12 DEF CopyOver
  <2>2. t \in Anchored /\ s \in Anchored
    BY <1>a, <2>1 DEF RootValues
  <2>3. \A x \in Obj : slot'[x] = IF x = t THEN slot[s] ELSE slot[x]
    BY <1>0, <2>1 DEF TypeInv, TypeOK
  <2>4. Old' = Old /\ Young' = Young /\ RootValues' = RootValues /\ Handles' = Handles
    BY <2>1 DEF Old, Young, RootValues, Handles
  <2>5. \A x \in Anchored : place'[x] # "none" /\ \A g \in Field : slot'[x][g] \in Anchored \union {Nil}
    BY <1>a, <2>1, <2>2, <2>3, AnchoredFields
  <2>6. RootsSound' /\ AnchoredSound'
    BY <1>a, <2>4, <2>5, AnchoredStep
  <2>7. HeapVerified'
    <3>1. \A g \in Field : slot[s][g] # Stale
      BY <1>a, <2>2, HeapAssumption
    <3> QED
      BY <2>1, <2>3, <3>1 DEF HeapInv, HeapVerified
  <2>8. remTag' = remTag
    BY <2>1 DEF CopySafe, Copied
  <2>9. RememberedComplete'
    <3> SUFFICES ASSUME NEW x \in Old, Targets(x)' \intersect Young # {}
                 PROVE  x \in remembered
      BY <2>1, <2>4 DEF RememberedComplete
    <3>1. x \in Obj
      BY DEF Old
    <3>2. CASE x = t
      <4>1. Targets(s) \intersect Young # {} /\ t \notin Young
        BY <2>3, <3>1, <3>2 DEF Targets, Old, Young
      <4>2. s \in Old
        BY <2>1, <3>2, <4>1 DEF CopySafe
      <4>3. s \in remTag
        BY <4>1, <4>2 DEF HeapInv, RememberedComplete, TagsAgree
      <4> QED
        BY <2>1, <3>2, <4>3 DEF CopySafe, HeapInv, TagsAgree
    <3>3. CASE x # t
      BY <2>3, <3>1, <3>3 DEF Targets, HeapInv, RememberedComplete
    <3> QED
      BY <3>2, <3>3
  <2>10. TagsAgree'
    BY <2>1, <2>4, <2>8 DEF HeapInv, TagsAgree
  <2>11. CallsSound' /\ MarksSound'
    <3>1. marked' \subseteq Young
      BY <2>1 DEF Copied, CopySafe, HeapInv, MarksSound, Young
    <3> QED
      BY <2>1, <2>4, <3>1 DEF HeapInv, CallsSound, MarksSound, Top
  <2> QED
    BY <1>0, <2>6, <2>7, <2>9, <2>10, <2>11 DEF HeapInv
<1>3. ASSUME NEW r \in Root, Allocate(r) PROVE HeapInv'
  <2>1. PICK o \in Obj, c \in RootValues \intersect Obj, v \in RootValues \union {Nil} :
          Create(o, "eden", c, v, r)
    BY <1>3 DEF Allocate
  <2>2. UNCHANGED <<phase, calls>>
    BY <1>3 DEF Allocate
  <2>3. c \in Anchored /\ v \in Anchored \union {Nil}
    BY <1>a, <2>1
  <2>4. Handles' \subseteq Handles
    BY <2>2 DEF Handles
  <2>5. /\ RootsSound' /\ AnchoredSound'
        /\ HeapVerified'
        /\ RememberedComplete' /\ TagsAgree'
        /\ marked' = marked /\ Young \subseteq Young'
    BY <2>1, <2>3, <2>4, CreateSound
  <2> QED
    BY <1>0, <2>2, <2>5 DEF HeapInv, CallsSound, MarksSound, Top
<1>4. ASSUME NEW r \in Root, Retry(r) PROVE HeapInv'
  <2>1. PICK o \in Obj, v \in RootValues \union {Nil}, where \in {"eden", "old"} :
          /\ Create(o, where, Top.class, v, r)
          /\ where = "old" => {Top.class, v} \intersect Young = {}
    BY <1>4 DEF Retry
  <2>2. Len(calls) = 1 /\ calls \in Seq(Call) /\ Top.class \in Obj
    BY <1>4 DEF Retry, HeapInv, CallsSound, TypeInv, TypeOK
  <2>3. Top.class \in Handles
    BY <2>2 DEF Handles, Top
  <2>4. Top.class \in Anchored /\ v \in Anchored \union {Nil}
    BY <1>a, <2>1, <2>2, <2>3
  <2>5. calls' = << >> /\ phase' = "program"
    <3>1. calls' = SubSeq(calls, 1, 0) /\ phase' = "program"
      BY <1>4, <2>2 DEF Retry
    <3> QED
      BY <2>2, <3>1
  <2>6. Handles' \subseteq Handles
    BY <2>5 DEF Handles
  <2>7. /\ RootsSound' /\ AnchoredSound'
        /\ HeapVerified'
        /\ RememberedComplete' /\ TagsAgree'
        /\ marked' = marked /\ Young \subseteq Young'
    BY <2>1, <2>4, <2>6, CreateSound
  <2> QED
    BY <1>0, <2>5, <2>7 DEF HeapInv, CallsSound, MarksSound, Top
<1>5. ASSUME NEW c \in Obj \union {Nil}, c \in RootValues \union {Nil},
             phase = "program", Scavenge,
             calls' = Append(calls, [class |-> c, finalize |-> {}]),
             phase' \in {"sweep", "retry"}, phase' = "retry" => c \in Obj
      PROVE  HeapInv'
  <2>1. calls' = <<[class |-> c, finalize |-> {}]>>
    <3>1. calls = << >>
      BY <1>5 DEF HeapInv, CallsSound
    <3> QED
      BY <1>5, <3>1
  <2>2. Len(calls') = 1 /\ calls'[1].class = c /\ calls'[1].finalize = {}
    BY <2>1
  <2>3. Handles' \subseteq Handles \union RootValues \union {Nil}
    BY <1>5, <2>2 DEF Handles
  <2>4. /\ RootsSound' /\ AnchoredSound'
        /\ HeapVerified'
        /\ RememberedComplete' /\ TagsAgree'
        /\ marked' = {}
    BY <1>5, <2>3, ScavengeSound
  <2>5. CallsSound'
    BY <1>5, <2>2 DEF CallsSound, Top
  <2> QED
    BY <1>0, <2>4, <2>5 DEF HeapInv, MarksSound
<1>6. ASSUME AllocateCollects PROVE HeapInv'
  <2>1. PICK c \in RootValues \intersect Obj :
          calls' = Append(calls, [class |-> c, finalize |-> {}])
    BY <1>6 DEF AllocateCollects
  <2> QED
    BY <1>5, <1>6, <2>1 DEF AllocateCollects
<1>7. ASSUME CollectGarbage PROVE HeapInv'
  BY <1>5, <1>7 DEF CollectGarbage
<1>8. ASSUME MarkAndSweep PROVE HeapInv'
  BY <1>0, <1>8, SweepSound DEF HeapInv, MarksSound
<1>9. ASSUME RunFinalizer PROVE HeapInv'
  BY <1>9 DEF RunFinalizer, HeapInv, CallsSound
<1>10. ASSUME FinalizerReturns PROVE HeapInv'
  BY <1>10 DEF FinalizerReturns, HeapInv, CallsSound
<1>11. ASSUME UNCHANGED vars PROVE HeapInv'
  <2>1. UNCHANGED <<place, slot, root, remembered, remTag, marked, phase, calls>>
    BY <1>11 DEF vars
  <2>2. Old' = Old /\ Young' = Young /\ RootValues' = RootValues /\ Handles' = Handles
    BY <2>1 DEF Old, Young, RootValues, Handles
  <2>3. RootsSound' /\ AnchoredSound'
    BY <1>a, <2>1, <2>2, AnchoredFields, AnchoredStep
  <2> QED
    BY <1>0, <2>1, <2>2, <2>3
    DEF HeapInv, HeapVerified, RememberedComplete, TagsAgree, Targets, CallsSound,
        MarksSound, Top
<1> QED
  BY <1>1, <1>2, <1>3, <1>4, <1>6, <1>7, <1>8, <1>9, <1>10, <1>11, <1>12 DEF Next

LEMMA HeapAlways ==
  ASSUME Finalizable = {}, Unbarriered = {}
  PROVE  Spec => []HeapInv
<1>1. HeapInv /\ [Next]_vars => HeapInv'
  BY HeapStep
<1> QED
  BY <1>1, HeapInit, PTL DEF Spec

LEMMA ReachableAnchored == Reachable \subseteq Anchored
<1> DEFINE succ == [o \in Obj |-> Targets(o)]
           src  == (RootValues \union Handles) \intersect Obj
<1>1. Reachable = Reach(Obj, src, succ)
  BY DEF Reachable
<1>2. \A o \in Anchored : succ[o] \subseteq Anchored
  BY AnchoredFacts
<1>3. src \subseteq Anchored /\ Anchored \subseteq Obj
  BY AnchoredFacts
<1> HIDE DEF succ, src
<1> QED
  BY <1>1, <1>2, <1>3, ReachLeast

(* The program never sees a pointer to an object that was freed, or to     *)
(* where an object was before a collection moved it.                       *)
THEOREM NoDanglingHolds ==
  ASSUME Finalizable = {}, Unbarriered = {}
  PROVE  Spec => []NoDangling
<1>1. HeapInv => NoDangling
  <2> SUFFICES ASSUME HeapInv PROVE NoDangling
    OBVIOUS
  <2>1. \A r \in Root : root[r] \in Obj \union {Nil}
    BY DEF HeapInv, RootsSound, RootValues
  <2>2. \A o \in Reachable : place[o] # "none" /\ \A f \in Field : slot[o][f] \in Obj \union {Nil}
    BY ReachableAnchored DEF HeapInv, AnchoredSound
  <2> QED
    BY <2>1, <2>2, HeapAssumption DEF NoDangling
<1> QED
  BY <1>1, HeapAlways, PTL

(* verifyHeap would find no pointer, not even in garbage, to an abandoned  *)
(* address of the new space.                                               *)
THEOREM HeapVerifiedHolds ==
  ASSUME Finalizable = {}, Unbarriered = {}
  PROVE  Spec => []HeapVerified
<1>1. HeapInv => HeapVerified
  BY DEF HeapInv
<1> QED
  BY <1>1, HeapAlways, PTL

(* The barrier and the two collectors keep the remembered set complete.    *)
THEOREM RememberedCompleteHolds ==
  ASSUME Finalizable = {}, Unbarriered = {}
  PROVE  Spec => []RememberedComplete
<1>1. HeapInv => RememberedComplete
  BY DEF HeapInv
<1> QED
  BY <1>1, HeapAlways, PTL

(* TAG_REMEMBERED is set exactly on the members of the remembered set.     *)
THEOREM TagsAgreeHolds ==
  ASSUME Finalizable = {}, Unbarriered = {}
  PROVE  Spec => []TagsAgree
<1>1. HeapInv => TagsAgree
  BY DEF HeapInv
<1> QED
  BY <1>1, HeapAlways, PTL

(* Every marking starts from clear mark bits.                              *)
THEOREM MarksClearHolds ==
  ASSUME Finalizable = {}, Unbarriered = {}
  PROVE  Spec => []MarksClear
<1>1. HeapInv => MarksClear
  BY DEF HeapInv, MarksSound, MarksClear, Young, Old
<1> QED
  BY <1>1, HeapAlways, PTL

(* What is left in the old space by a mark and sweep is reachable.         *)
THEOREM SweepFreesGarbageHolds ==
  ASSUME Finalizable = {}, Unbarriered = {}
  PROVE  Spec => SweepFreesGarbage
<1>1. HeapInv /\ [Next]_vars => [MarkAndSweep => Old' \subseteq Reachable']_vars
  <2> SUFFICES ASSUME HeapInv, MarkAndSweep PROVE Old' \subseteq Reachable'
    OBVIOUS
  <2> DEFINE succ  == [o \in Obj |-> Targets(o) \ marked]
             succN == [o \in Obj |-> Targets(o)']
             srcN  == ((RootValues \union Handles) \intersect Obj)'
             S     == Traversed \intersect Reachable'
  <2>1. marked = {}
    BY DEF MarkAndSweep, HeapInv, MarksSound
  <2>2. /\ Old' \subseteq Traversed
        /\ \A o \in Traversed : slot'[o] = slot[o]
        /\ MarkSources \subseteq srcN
    BY SweepSound DEF MarkSources
  <2>3. Reachable' = Reach(Obj, srcN, succN)
    BY DEF Reachable
  <2>4. srcN \subseteq Reachable'
    <3>1. srcN \subseteq Obj
      OBVIOUS
    <3> HIDE DEF srcN, succN
    <3> QED
      BY <2>3, <3>1, ReachSources
  <2>5. \A o \in Reachable' : succN[o] \subseteq Reachable'
    <3>1. \A o \in Obj : succN[o] \subseteq Obj
      BY DEF Targets
    <3> HIDE DEF srcN, succN
    <3> QED
      BY <2>3, <3>1, ReachClosed
  <2>6. MarkSources \subseteq S /\ S \subseteq Obj
    BY <2>1, <2>2, <2>4, TraversedFacts, TraversedType DEF MarkSources
  <2>7. \A o \in S : succ[o] \subseteq S
    <3> SUFFICES ASSUME NEW o \in S PROVE Targets(o) \subseteq S
      BY <2>6
    <3>1. Targets(o) \subseteq Traversed
      BY <2>1, TraversedFacts
    <3>2. Targets(o)' = Targets(o)
      BY <2>2 DEF Targets
    <3> QED
      BY <2>5, <2>6, <3>1, <3>2
  <2>8. Traversed \subseteq S
    <3>1. Traversed = Reach(Obj, MarkSources, succ)
      BY DEF Traversed
    <3> HIDE DEF succ, S
    <3> QED
      BY <2>6, <2>7, <3>1, ReachLeast
  <2> QED
    BY <2>2, <2>8
<1> QED
  BY <1>1, HeapAlways, PTL DEF Spec, SweepFreesGarbage

-----------------------------------------------------------------------------
(* ObjectHeap implements MutatorHeap: the program that runs in the heap    *)
(* cannot tell that its objects are collected, moved and made again.  The  *)
(* refinement maps the fields of all objects to those of the reachable     *)
(* ones; the collections are stuttering steps of MutatorHeap.              *)

(* What is reached inside a set that nothing leaves is reached in that set *)
(* alone.                                                                  *)
LEMMA ReachWithin ==
  ASSUME NEW Node, NEW D, NEW src, NEW succ, NEW inner,
         D \subseteq Node, src \subseteq D,
         \A x \in D : succ[x] = inner[x] /\ succ[x] \subseteq D,
         \A x \in Node : succ[x] \subseteq Node
  PROVE  Reach(Node, src, succ) = Reach(D, src, inner)
<1>1. Reach(D, src, inner) \subseteq D
  BY ReachInNode
<1>2. src \subseteq Reach(D, src, inner) /\ src \subseteq Reach(Node, src, succ)
  BY ReachSources
<1>3. \A x \in Reach(D, src, inner) : inner[x] \subseteq Reach(D, src, inner)
  BY ReachClosed
<1>4. \A x \in Reach(Node, src, succ) : succ[x] \subseteq Reach(Node, src, succ)
  BY ReachClosed
<1>5. Reach(Node, src, succ) \subseteq Reach(D, src, inner)
  BY <1>1, <1>2, <1>3, ReachLeast
<1>6. Reach(D, src, inner) \subseteq Reach(Node, src, succ)
  BY <1>1, <1>2, <1>4, <1>5, ReachLeast
<1> QED
  BY <1>5, <1>6

(* The instance's graph operators are those of Reachability.               *)
LEMMA SameReach ==
  ASSUME NEW Node, NEW src, NEW succ
  PROVE  Program!Reach(Node, src, succ) = Reach(Node, src, succ)
BY DEF Reach, ClosedSets, ClosedUnder, Program!Reach, Program!ClosedSets, Program!ClosedUnder

-----------------------------------------------------------------------------
(* The reachable objects.                                                  *)

(* Inductive: the class a suspended collection will instantiate is still   *)
(* named by the program that waits for it.                                 *)
HandlesNamed == Handles \subseteq RootValues \union {Nil}

RefineInv == HeapInv /\ HandlesNamed

Graph == [o \in Reachable |-> slot[o]]

LEMMA ReachableFacts ==
  ASSUME RefineInv
  PROVE  /\ Reachable \subseteq Anchored /\ Reachable \subseteq Obj
         /\ RootValues \subseteq Reachable \union {Nil}
         /\ \A o \in Reachable : /\ place[o] # "none" /\ slot[o] \in [Field -> Ptr]
                                 /\ \A f \in Field : slot[o][f] \in Reachable \union {Nil}
         /\ \A o \in Reachable : Targets(o) = { slot[o][f] : f \in Field } \ {Nil}
         /\ \A o \in Reachable : Targets(o) \subseteq Reachable
<1> DEFINE succ == [o \in Obj |-> Targets(o)]
           src  == (RootValues \union Handles) \intersect Obj
<1>1. Reachable \subseteq Anchored /\ Anchored \subseteq Obj
  BY ReachableAnchored, AnchoredFacts
<1>2. Reachable = Reach(Obj, src, succ)
  BY DEF Reachable
<1>3. src \subseteq Obj /\ \A o \in Obj : succ[o] \subseteq Obj
  BY DEF Targets
<1>4. src \subseteq Reachable /\ \A o \in Reachable : succ[o] \subseteq Reachable
  <2> HIDE DEF src, succ
  <2> QED
    BY <1>2, <1>3, ReachSources, ReachClosed
<1>5. RootValues \subseteq Reachable \union {Nil}
  BY <1>4 DEF RefineInv, HeapInv, RootsSound
<1>6. \A o \in Reachable : place[o] # "none" /\ \A f \in Field : slot[o][f] \in Obj \union {Nil}
  BY <1>1 DEF RefineInv, HeapInv, AnchoredSound
<1>7. \A o \in Reachable : Targets(o) = { slot[o][f] : f \in Field } \ {Nil}
  BY <1>6, HeapAssumption DEF Targets
<1>8. \A o \in Reachable : \A f \in Field : slot[o][f] \in Reachable \union {Nil}
  BY <1>1, <1>4, <1>6 DEF Targets
<1>9. \A o \in Reachable : slot[o] \in [Field -> Ptr]
  BY <1>1 DEF RefineInv, HeapInv, TypeInv, TypeOK
<1> QED
  BY <1>1, <1>4, <1>5, <1>6, <1>7, <1>8, <1>9

(* The handles name nothing that the variables do not.                     *)
LEMMA ReachableSources ==
  ASSUME RefineInv
  PROVE  (RootValues \union Handles) \intersect Obj = RootValues \ {Nil}
BY HeapAssumption DEF RefineInv, HandlesNamed, HeapInv, RootsSound

(* The next graph is what the abstract heap trims to when its fields fl,   *)
(* before the trimming, agree with the new fields of the objects.          *)
LEMMA TrimStep ==
  ASSUME RefineInv', NEW D, D \subseteq Obj, NEW fl, DOMAIN fl = D,
         RootValues' \subseteq D \union {Nil},
         \A o \in D : fl[o] = slot'[o] /\ \A f \in Field : slot'[o][f] \in D \union {Nil}
  PROVE  Graph' = Program!Trim(root', fl)
<1> DEFINE succ  == [o \in Obj |-> Targets(o)']
           inner == [o \in D |-> { fl[o][f] : f \in Field } \ {Nil}]
           src   == ({ root'[r] : r \in Root } \union {Kernel}) \ {Nil}
<1>1. src = RootValues' \ {Nil} /\ src \subseteq D
  BY DEF RootValues
<1>2. Reachable' = Reach(Obj, src, succ)
  <2>1. Reachable' = Reach(Obj, (RootValues' \union Handles') \intersect Obj, succ)
    BY DEF Reachable
  <2>2. (RootValues' \union Handles') \intersect Obj = RootValues' \ {Nil}
    BY HeapAssumption DEF RefineInv, HandlesNamed, HeapInv, RootsSound
  <2> HIDE DEF succ, src
  <2> QED
    BY <1>1, <2>1, <2>2
<1>3. \A o \in D : succ[o] = inner[o] /\ succ[o] \subseteq D
  BY HeapAssumption DEF Targets
<1>4. \A o \in Obj : succ[o] \subseteq Obj
  BY DEF Targets
<1>5. Reachable' = Reach(D, src, inner)
  <2> HIDE DEF succ, inner, src
  <2> QED
    BY <1>1, <1>2, <1>3, <1>4, ReachWithin
<1>6. Program!Trim(root', fl) = [o \in Reach(D, src, inner) |-> fl[o]]
  BY SameReach DEF Program!Trim
<1>7. Reach(D, src, inner) \subseteq D
  BY ReachInNode
<1> HIDE DEF inner, src
<1> QED
  BY <1>5, <1>6, <1>7 DEF Graph

(* What a variable names is reachable, before and after a step.            *)
LEMMA RootsReached == RootValues \intersect Obj \subseteq Reachable
<1> DEFINE succ == [o \in Obj |-> Targets(o)]
           src  == (RootValues \union Handles) \intersect Obj
<1>1. Reachable = Reach(Obj, src, succ)
  BY DEF Reachable
<1>2. src \subseteq Reachable
  <2>1. src \subseteq Obj
    OBVIOUS
  <2> HIDE DEF src, succ
  <2> QED
    BY <1>1, <2>1, ReachSources
<1> QED
  BY <1>2

LEMMA RootsReachedNext == (RootValues \intersect Obj \subseteq Reachable)'
BY RootsReached, PTL

(* A step that changes no variable and no field of a reachable object, as  *)
(* a collection, does not change the graph.                                *)
LEMMA SameGraph ==
  ASSUME RefineInv, RefineInv', root' = root,
         \A o \in Reachable : slot'[o] = slot[o]
  PROVE  Graph' = Graph
<1> DEFINE succ  == [o \in Obj |-> Targets(o)]
           succN == [o \in Obj |-> Targets(o)']
           src   == RootValues \ {Nil}
           D     == Reachable
<1>1. Reachable = Reach(Obj, src, succ)
  <2>1. Reachable = Reach(Obj, (RootValues \union Handles) \intersect Obj, succ)
    BY DEF Reachable
  <2> HIDE DEF succ
  <2> QED
    BY <2>1, ReachableSources
<1>2. Reachable' = Reach(Obj, src, succN)
  <2>1. Reachable' = Reach(Obj, (RootValues' \union Handles') \intersect Obj, succN)
    BY DEF Reachable
  <2>2. (RootValues' \union Handles') \intersect Obj = RootValues' \ {Nil}
    BY HeapAssumption DEF RefineInv, HandlesNamed, HeapInv, RootsSound
  <2>3. RootValues' = RootValues
    BY DEF RootValues
  <2> HIDE DEF succN
  <2> QED
    BY <2>1, <2>2, <2>3
<1>3. D \subseteq Obj /\ src \subseteq D /\ \A o \in D : succ[o] \subseteq D
  BY ReachableFacts
<1>4. \A o \in D : succN[o] = succ[o] /\ succN[o] \subseteq D
  BY <1>3 DEF Targets
<1>5. (\A o \in Obj : succ[o] \subseteq Obj) /\ (\A o \in Obj : succN[o] \subseteq Obj)
  BY DEF Targets
<1> HIDE DEF succ, succN, src, D
<1>6. Reach(Obj, src, succ) = Reach(D, src, succ)
  BY <1>3, <1>5, ReachWithin
<1>7. Reach(Obj, src, succN) = Reach(D, src, succ)
  BY <1>3, <1>4, <1>5, ReachWithin
<1>8. Reachable' = Reachable
  BY <1>1, <1>2, <1>6, <1>7
<1> QED
  BY <1>8 DEF Graph

-----------------------------------------------------------------------------
(* The steps of the program.                                               *)

Sees == RootValues \union {Nil}

LEMMA GraphFacts ==
  /\ DOMAIN Graph = Reachable /\ \A o \in Reachable : Graph[o] = slot[o]
  /\ Program!Visible = Sees
BY DEF Graph, Program!Visible, Sees, RootValues

LEMMA SetRootRefines ==
  ASSUME RefineInv, RefineInv', NEW r \in Root, SetRoot(r)
  PROVE  Program!SetRoot(r, Graph, Graph')
<1>1. PICK v \in RootValues \union {Nil} \union
                 UNION { { slot[root[s]][f] : f \in Field } : s \in { s \in Root : root[s] \in Obj } } :
        root' = [root EXCEPT ![r] = v]
  BY DEF SetRoot
<1>2. slot' = slot /\ root \in [Root -> Ptr]
  BY DEF SetRoot, heapVars, RefineInv, HeapInv, TypeInv, TypeOK
<1>3. root'[r] = v /\ \A q \in Root : root'[q] \in {root[q], v}
  BY <1>1, <1>2
<1>4. \A s \in Root : root[s] \in Obj => root[s] \in Reachable
  BY ReachableFacts, HeapAssumption DEF RootValues
<1>5. v \in Sees \union Program!Fields(Graph)
  <2>1. CASE v \in RootValues \union {Nil}
    BY <2>1 DEF Sees
  <2>2. CASE v \notin RootValues \union {Nil}
    <3>1. PICK s \in Root : root[s] \in Obj /\ v \in { slot[root[s]][f] : f \in Field }
      BY <1>1, <2>2
    <3>2. root[s] \in { root[q] : q \in Root } \intersect DOMAIN Graph
      BY <3>1, <1>4, GraphFacts
    <3>3. v \in { Graph[root[s]][f] : f \in Field }
      BY <3>1, <3>2, GraphFacts
    <3> QED
      BY <3>2, <3>3 DEF Program!Fields
  <2> QED
    BY <2>1, <2>2
<1>6. v \in Reachable \union {Nil}
  <2>1. CASE v \in RootValues \union {Nil}
    BY <2>1, ReachableFacts
  <2>2. CASE v \notin RootValues \union {Nil}
    <3>1. PICK s \in Root : root[s] \in Obj /\ v \in { slot[root[s]][f] : f \in Field }
      BY <1>1, <2>2
    <3> QED
      BY <3>1, <1>4, ReachableFacts
  <2> QED
    BY <2>1, <2>2
<1>7. RootValues' \subseteq Reachable \union {Nil}
  BY <1>3, <1>6, ReachableFacts DEF RootValues
<1>8. Graph' = Program!Trim(root', Graph)
  <2> DEFINE D == Reachable
             fl == Graph
  <2>1. /\ D \subseteq Obj /\ DOMAIN fl = D /\ RootValues' \subseteq D \union {Nil}
        /\ \A o \in D : fl[o] = slot'[o] /\ \A f \in Field : slot'[o][f] \in D \union {Nil}
    BY <1>2, <1>7, GraphFacts, ReachableFacts
  <2> HIDE DEF D, fl
  <2>2. Graph' = Program!Trim(root', fl)
    BY <2>1, TrimStep
  <2> QED
    BY <2>2 DEF fl
<1>9. root' = [root EXCEPT ![r] = root'[r]]
  BY <1>1, <1>3
<1> QED
  BY <1>3, <1>5, <1>8, <1>9, GraphFacts DEF Program!SetRoot, Program!Assigns

LEMMA StoreRefines ==
  ASSUME RefineInv, RefineInv', NEW s \in Root, NEW f \in Field, Store(s, f)
  PROVE  f \in Field \ {ClassField} /\ Program!Store(s, f, Graph, Graph')
<1> DEFINE t == root[s]
<1>1. root' = root /\ t \in Obj /\ f # ClassField
  BY DEF Store
<1>2. PICK v \in Sees : slot' = [slot EXCEPT ![t][f] = v]
  BY DEF Store, Sees
<1>3. t \in Reachable /\ t \in Reachable' /\ t \in RootValues
  BY <1>1, RootsReached, RootsReachedNext DEF RootValues
<1> HIDE DEF t
<1>4. slot \in [Obj -> [Field -> Ptr]]
  BY DEF RefineInv, HeapInv, TypeInv, TypeOK
<1>5. /\ slot'[t] = [slot[t] EXCEPT ![f] = v] /\ slot'[t][f] = v
      /\ \A g \in Field : slot'[t][g] \in {slot[t][g], v}
      /\ \A o \in Reachable : o # t => slot'[o] = slot[o]
  BY <1>1, <1>2, <1>4, ReachableFacts
<1>6. Graph'[t] = slot'[t]
  BY <1>3 DEF Graph
<1> DEFINE D  == Reachable
           fl == [Graph EXCEPT ![t][f] = Graph'[t][f]]
<1>7. fl = [Graph EXCEPT ![t] = [Graph[t] EXCEPT ![f] = v]]
  BY <1>5, <1>6
<1>8. DOMAIN fl = D /\ fl[t] = slot'[t] /\ \A o \in D : o # t => fl[o] = slot[o]
  BY <1>3, <1>5, <1>7, GraphFacts
<1>9. v \in D \union {Nil}
  BY ReachableFacts DEF Sees
<1>10. RootValues' \subseteq D \union {Nil} /\ D \subseteq Obj
  BY <1>1, ReachableFacts DEF RootValues
<1>11. \A o \in D : fl[o] = slot'[o] /\ \A g \in Field : slot'[o][g] \in D \union {Nil}
  BY <1>5, <1>8, <1>9, ReachableFacts
<1>12. Graph' = Program!Trim(root', fl)
  <2> HIDE DEF D, fl
  <2> QED
    BY <1>8, <1>10, <1>11, TrimStep
<1> QED
  BY <1>1, <1>3, <1>5, <1>6, <1>12, GraphFacts DEF Program!Store, t

LEMMA CopyOverRefines ==
  ASSUME RefineInv, RefineInv', NEW x \in Root, NEW y \in Root, CopyOver(x, y)
  PROVE  Program!CopyOver(x, y, Graph, Graph') \/ (root' = root /\ Graph' = Graph)
<1> DEFINE t == root[x]
           s == root[y]
<1>1. root' = root /\ t \in Obj /\ s \in Obj /\ slot' = [slot EXCEPT ![t] = slot[s]]
  BY DEF CopyOver
<1>2. t \in Reachable /\ s \in Reachable
  BY <1>1, ReachableFacts, HeapAssumption DEF RootValues
<1> HIDE DEF t, s
<1>3. slot \in [Obj -> [Field -> Ptr]]
  BY DEF RefineInv, HeapInv, TypeInv, TypeOK
<1>4. slot'[t] = slot[s] /\ \A o \in Reachable : o # t => slot'[o] = slot[o]
  BY <1>1, <1>3, ReachableFacts
<1>5. CASE t = s
  BY <1>1, <1>4, <1>5, SameGraph
<1>6. CASE t # s
  <2> DEFINE D  == Reachable
             fl == [Graph EXCEPT ![t] = Graph[s]]
  <2>1. DOMAIN fl = D /\ \A o \in D : fl[o] = slot'[o]
    BY <1>2, <1>4, GraphFacts
  <2>2. RootValues' \subseteq D \union {Nil} /\ D \subseteq Obj
    BY <1>1, ReachableFacts DEF RootValues
  <2>3. \A o \in D : \A g \in Field : slot'[o][g] \in D \union {Nil}
    BY <1>2, <1>4, ReachableFacts
  <2>4. Graph' = Program!Trim(root', fl)
    <3> HIDE DEF D, fl
    <3> QED
      BY <2>1, <2>2, <2>3, TrimStep
  <2> QED
    BY <1>1, <1>2, <1>6, <2>4, GraphFacts DEF Program!CopyOver, t, s
<1> QED
  BY <1>5, <1>6

(* An object made by either path of an allocation is new to the program.   *)
LEMMA CreateRefines ==
  ASSUME RefineInv, RefineInv', NEW o \in Obj, NEW where, NEW c \in RootValues \intersect Obj,
         NEW v \in Sees, NEW r \in Root, Create(o, where, c, v, r)
  PROVE  Program!New(r, Graph, Graph')
<1>1. place[o] = "none" /\ slot' = [slot EXCEPT ![o] = Fresh(c, v)] /\ root' = [root EXCEPT ![r] = o]
  BY DEF Create
<1>2. slot \in [Obj -> [Field -> Ptr]] /\ root \in [Root -> Ptr]
  BY DEF RefineInv, HeapInv, TypeInv, TypeOK
<1>3. o \notin Reachable
  BY <1>1, ReachableFacts
<1>4. root'[r] = o /\ root' = [root EXCEPT ![r] = root'[r]]
  BY <1>1, <1>2
<1> DEFINE D  == Reachable \union {o}
           fl == [x \in DOMAIN Graph \union {root'[r]} |->
                   IF x = root'[r] THEN [f \in Field |-> IF f = ClassField THEN c ELSE v]
                   ELSE Graph[x]]
<1>5. slot'[o] = Fresh(c, v) /\ \A x \in Reachable : slot'[x] = slot[x]
  BY <1>1, <1>2, <1>3, ReachableFacts
<1>6. /\ DOMAIN fl = D /\ fl[o] = Fresh(c, v)
      /\ \A x \in Reachable : fl[x] = slot[x]
  BY <1>3, <1>4, GraphFacts DEF Fresh
<1>7. c \in Reachable /\ v \in Reachable \union {Nil}
  BY ReachableFacts, HeapAssumption DEF Sees
<1>8. \A f \in Field : slot'[o][f] \in {c, v}
  BY <1>5 DEF Fresh
<1>9. \A x \in D : fl[x] = slot'[x] /\ \A f \in Field : slot'[x][f] \in D \union {Nil}
  <2> HIDE DEF fl
  <2> QED
    BY <1>5, <1>6, <1>7, <1>8, ReachableFacts
<1>10. RootValues' \subseteq D \union {Nil} /\ D \subseteq Obj
  BY <1>1, <1>2, ReachableFacts DEF RootValues
<1>11. Graph' = Program!Trim(root', fl)
  <2> HIDE DEF D, fl
  <2> QED
    BY <1>6, <1>9, <1>10, TrimStep
<1>12. c \in Program!Visible \ {Nil} /\ v \in Program!Visible
  BY GraphFacts, HeapAssumption DEF Sees
<1> QED
  BY <1>3, <1>4, <1>11, <1>12, GraphFacts DEF Program!New, Program!Assigns

-----------------------------------------------------------------------------
(* All steps.                                                              *)

LEMMA HandlesInit == Init => HandlesNamed
BY DEF Init, HandlesNamed, Handles

LEMMA HandlesStep ==
  ASSUME Finalizable = {}, HeapInv, HandlesNamed, [Next]_vars
  PROVE  HandlesNamed'
<1>1. phase = "program" => calls = << >>
  BY DEF HeapInv, CallsSound
<1>2. ASSUME calls' = << >> PROVE HandlesNamed'
  BY <1>2 DEF HandlesNamed, Handles
<1>3. ASSUME NEW r \in Root, SetRoot(r) \/ Allocate(r) PROVE HandlesNamed'
  BY <1>1, <1>2, <1>3 DEF SetRoot, Allocate
<1>4. ASSUME NEW r \in Root, Retry(r) PROVE HandlesNamed'
  <2>1. calls \in Seq(Call) /\ Len(calls) = 1 /\ calls' = SubSeq(calls, 1, Len(calls) - 1)
    BY <1>4 DEF Retry, HeapInv, TypeInv, TypeOK, CallsSound
  <2>2. calls' = << >>
    BY <2>1
  <2> QED
    BY <2>2, <1>2
<1>5. ASSUME NEW s \in Root, NEW f \in Field, Store(s, f) PROVE HandlesNamed'
  BY <1>1, <1>2, <1>5 DEF Store
<1>6. ASSUME NEW x \in Root, NEW y \in Root, CopyOver(x, y) PROVE HandlesNamed'
  BY <1>1, <1>2, <1>6 DEF CopyOver
<1>7. CASE AllocateCollects \/ CollectGarbage
  <2>1. PICK c \in (RootValues \intersect Obj) \union {Nil} :
          calls' = Append(calls, [class |-> c, finalize |-> {}])
    BY <1>7 DEF AllocateCollects, CollectGarbage
  <2>2. calls = << >> /\ root' = root
    BY <1>1, <1>7 DEF AllocateCollects, CollectGarbage, Scavenge
  <2>3. calls' = << [class |-> c, finalize |-> {}] >>
    BY <2>1, <2>2
  <2>4. Handles' = {c}
    BY <2>3 DEF Handles
  <2> QED
    BY <2>1, <2>2, <2>4 DEF HandlesNamed, RootValues
<1>8. CASE MarkAndSweep
  BY <1>8, SweepSound DEF HandlesNamed
<1>9. CASE RunFinalizer \/ FinalizerReturns
  BY <1>1, <1>9 DEF RunFinalizer, FinalizerReturns, HeapInv, CallsSound
<1>10. CASE UNCHANGED vars
  BY <1>10 DEF vars, HandlesNamed, Handles, RootValues
<1> QED
  BY <1>3, <1>4, <1>5, <1>6, <1>7, <1>8, <1>9, <1>10 DEF Next

(* A collection is not seen by the program.                                *)
LEMMA CollectionUnseen ==
  ASSUME Finalizable = {}, RefineInv, RefineInv',
         AllocateCollects \/ CollectGarbage \/ MarkAndSweep
  PROVE  root' = root /\ Graph' = Graph
<1>1. CASE AllocateCollects \/ CollectGarbage
  <2>1. Scavenge
    BY <1>1 DEF AllocateCollects, CollectGarbage
  <2>2. Handles' \subseteq RootValues \union {Nil}
    BY <2>1 DEF Scavenge, RefineInv, HandlesNamed, RootValues
  <2>3. \A o \in Anchored : slot'[o] = slot[o]
    BY <2>1, <2>2, ScavengeSound DEF RefineInv
  <2>4. root' = root
    BY <2>1 DEF Scavenge
  <2> QED
    BY <2>3, <2>4, ReachableFacts, SameGraph
<1>2. CASE MarkAndSweep
  <2>1. root' = root /\ \A o \in Traversed : slot'[o] = slot[o]
    BY <1>2, SweepSound DEF RefineInv
  <2>2. marked = {}
    BY <1>2 DEF MarkAndSweep, RefineInv, HeapInv, MarksSound
  <2>3. /\ (RootValues \union Handles) \intersect Obj \subseteq Traversed
        /\ \A o \in Traversed : Targets(o) \subseteq Traversed
        /\ Traversed \subseteq Obj
    BY <2>2, TraversedFacts, TraversedType DEF RefineInv
  <2>4. Reachable \subseteq Traversed
    <3> DEFINE succ == [o \in Obj |-> Targets(o)]
               src  == (RootValues \union Handles) \intersect Obj
    <3>1. Reachable = Reach(Obj, src, succ)
      BY DEF Reachable
    <3>2. \A o \in Traversed : succ[o] \subseteq Traversed
      BY <2>3
    <3>3. src \subseteq Traversed
      BY <2>3
    <3> HIDE DEF succ, src
    <3> QED
      BY <2>3, <3>1, <3>2, <3>3, ReachLeast
  <2> QED
    BY <2>1, <2>4, SameGraph
<1> QED
  BY <1>1, <1>2

LEMMA StepRefines ==
  ASSUME Finalizable = {}, Unbarriered = {}, RefineInv, RefineInv', [Next]_vars
  PROVE  [Program!Next]_(Program!vars)
<1>0. Program!Next <=>
        \/ \E r \in Root : Program!SetRoot(r, Graph, Graph') \/ Program!New(r, Graph, Graph')
        \/ \E s \in Root, f \in Field \ {ClassField} : Program!Store(s, f, Graph, Graph')
        \/ \E t, s \in Root : Program!CopyOver(t, s, Graph, Graph')
  BY DEF Program!Next, Graph
<1>1. ASSUME root' = root, Graph' = Graph PROVE UNCHANGED Program!vars
  BY <1>1 DEF Program!vars, Graph
<1>2. ASSUME NEW r \in Root, SetRoot(r) PROVE Program!Next
  BY <1>0, <1>2, SetRootRefines
<1>3. ASSUME NEW r \in Root, Allocate(r) PROVE Program!Next
  <2>1. PICK o \in Obj, c \in RootValues \intersect Obj, v \in Sees : Create(o, "eden", c, v, r)
    BY <1>3 DEF Allocate, Sees
  <2> QED
    BY <1>0, <2>1, CreateRefines
<1>4. ASSUME NEW r \in Root, Retry(r) PROVE Program!Next
  <2>1. PICK o \in Obj, v \in Sees, where \in {"eden", "old"} : Create(o, where, Top.class, v, r)
    BY <1>4 DEF Retry, Sees
  <2>2. Top.class \in RootValues \intersect Obj
    <3>1. Top.class \in Obj /\ Len(calls) = 1
      BY <1>4 DEF Retry, RefineInv, HeapInv, CallsSound
    <3>2. Top.class \in Handles
      BY <3>1 DEF Top, Handles
    <3> QED
      BY <3>1, <3>2, HeapAssumption DEF RefineInv, HandlesNamed
  <2> QED
    BY <1>0, <2>1, <2>2, CreateRefines
<1>5. ASSUME NEW s \in Root, NEW f \in Field, Store(s, f) PROVE Program!Next
  BY <1>0, <1>5, StoreRefines
<1>6. ASSUME NEW x \in Root, NEW y \in Root, CopyOver(x, y) PROVE [Program!Next]_(Program!vars)
  BY <1>0, <1>1, <1>6, CopyOverRefines
<1>7. CASE AllocateCollects \/ CollectGarbage \/ MarkAndSweep
  BY <1>1, <1>7, CollectionUnseen
<1>8. CASE RunFinalizer \/ FinalizerReturns
  BY <1>8 DEF RunFinalizer, FinalizerReturns, RefineInv, HeapInv, CallsSound
<1>9. CASE UNCHANGED vars
  <2>1. root' = root /\ \A o \in Reachable : slot'[o] = slot[o]
    BY <1>9 DEF vars
  <2> QED
    BY <1>1, <2>1, SameGraph
<1> QED
  BY <1>2, <1>3, <1>4, <1>5, <1>6, <1>7, <1>8, <1>9 DEF Next

LEMMA InitRefines == Init /\ HeapInv /\ HandlesNamed => Program!Init
<1> SUFFICES ASSUME Init, HeapInv, HandlesNamed PROVE Program!Init
  OBVIOUS
<1>1. RefineInv /\ RootValues \subseteq {Kernel, Nil} /\ Kernel \in RootValues
  BY DEF Init, RefineInv, RootValues
<1>2. Handles = {}
  BY DEF Init, Handles
<1>3. \A f \in Field : slot[Kernel][f] \in {Kernel, Nil}
  BY HeapAssumption DEF Init, Fresh
<1>4. Reachable \subseteq {Kernel}
  <2> DEFINE succ == [o \in Obj |-> Targets(o)]
             src  == (RootValues \union Handles) \intersect Obj
  <2>1. Reachable = Reach(Obj, src, succ)
    BY DEF Reachable
  <2>2. src \subseteq {Kernel} /\ {Kernel} \subseteq Obj /\ \A o \in {Kernel} : succ[o] \subseteq {Kernel}
    BY <1>1, <1>2, <1>3, HeapAssumption DEF Targets
  <2> HIDE DEF succ, src
  <2> QED
    BY <2>1, <2>2, ReachLeast
<1>5. Reachable = {Kernel}
  BY <1>1, <1>4, ReachableFacts, HeapAssumption
<1>6. slot[Kernel] = [f \in Field |-> IF f = ClassField THEN Kernel ELSE Nil]
  BY HeapAssumption DEF Init, Fresh
<1>7. Graph = [o \in {Kernel} |-> [f \in Field |-> IF f = ClassField THEN Kernel ELSE Nil]]
  BY <1>5, <1>6 DEF Graph
<1> QED
  BY <1>7 DEF Program!Init, Graph, Init

(* The heap implements what MutatorHeap promises the program: an object    *)
(* that the program can reach keeps its identity and its fields until the  *)
(* program stores into it, whatever is allocated, moved or freed.          *)
THEOREM ImplementsMutatorHeap ==
  ASSUME Finalizable = {}, Unbarriered = {}
  PROVE  Spec => ProgramSpec
<1>1. Spec => []RefineInv
  <2>1. Init => RefineInv
    BY HeapInit, HandlesInit DEF RefineInv
  <2>2. RefineInv /\ [Next]_vars => RefineInv'
    BY HeapStep, HandlesStep DEF RefineInv
  <2> QED
    BY <2>1, <2>2, PTL DEF Spec
<1>2. Init => Program!Init
  BY HeapInit, HandlesInit, InitRefines
<1>3. RefineInv /\ RefineInv' /\ [Next]_vars => [Program!Next]_(Program!vars)
  BY StepRefines
<1> QED
  BY <1>1, <1>2, <1>3, PTL DEF Spec, ProgramSpec, Program!Spec
===============================================================================
