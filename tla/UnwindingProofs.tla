--------------------------- MODULE UnwindingProofs ---------------------------
(***************************************************************************)
(* Theorems about Unwinding for every set of contexts and of kinds of      *)
(* exceptions and every depth of the stack.                                *)
(***************************************************************************)
EXTENDS Unwinding, SequenceTheorems, Foundations

-----------------------------------------------------------------------------
(* The invariant.                                                          *)

Plain == {"method", "block"}

(* Frame d of the stack s is of the shape of its kind, and the frames next *)
(* to it are of kinds that go with it.                                     *)
WellPlaced(s, d) ==
  /\ s[d].kind = "method" => s[d].ctx # None /\ s[d].home = s[d].ctx
  /\ s[d].kind = "block"  => s[d].ctx = None /\ s[d].home # None
  /\ s[d].kind = "entry"  => s[d].ctx = None /\ s[d].home = None
  /\ s[d].kind \in {"body", "handling"} => s[d].ctx # None /\ s[d].home # None
  /\ s[d].kind \notin Plain => d \in 2..(Len(s) - 1) /\ s[d - 1].kind \in Plain
  /\ s[d].kind = "body" => s[d + 1].kind = "block"

Proper(s) ==
  /\ s # << >> /\ s[Len(s)].kind \in Plain
  /\ \A d \in 1..Len(s) : WellPlaced(s, d)

FramesInv == Proper(stack)

(* What frames, kept blocks and the current handler refer to exists; a     *)
(* context that a frame holds says where that frame is, and that of a      *)
(* method is no handler.                                                   *)
ObjectsInv ==
  /\ InFrames(stack) \union escaped \union ({current} \ {None}) \subseteq DOMAIN object
  /\ \A c \in DOMAIN object : object[c].parent \in DOMAIN object \union {None}
  /\ \A d \in 1..Depth : stack[d].ctx # None => object[stack[d].ctx].frame = d
  /\ \A d \in 1..Depth : stack[d].kind = "method" => object[stack[d].ctx].catches = {}

(* No handler is outside itself.                                           *)
ChainsInv == \A c \in DOMAIN object : c \notin ChainFrom(object[c].parent)

MemoryInv == \A d \in 1..Depth : memory[d] = stack[d].ctx

RunsInv == FramesInv /\ ObjectsInv /\ ChainsInv /\ MemoryInv

Inv ==
  /\ TypeOK
  /\ state = "runs" => RunsInv
  /\ ~DefaultReturns => HandlersInstalled

-----------------------------------------------------------------------------
(* Chains of handlers.                                                     *)

LEMMA ReachedFacts ==
  ASSUME NEW obj, NEW S
  PROVE  /\ Reached(obj, S) \subseteq DOMAIN obj
         /\ S \intersect DOMAIN obj \subseteq Reached(obj, S)
         /\ \A c \in Reached(obj, S) : obj[c].parent \in DOMAIN obj => obj[c].parent \in Reached(obj, S)
<1> DEFINE parents == [c \in DOMAIN obj |-> {obj[c].parent} \intersect DOMAIN obj]
           D == DOMAIN obj
           T == S \intersect D
<1>1. Reached(obj, S) = Reach(D, T, parents)
  BY DEF Reached
<1>2. \A c \in D : parents[c] = {obj[c].parent} \intersect D /\ parents[c] \subseteq D
  OBVIOUS
<1>3. T \subseteq D
  OBVIOUS
<1> HIDE DEF parents, D, T
<1>4. Reach(D, T, parents) \subseteq D /\ T \subseteq Reach(D, T, parents)
  BY <1>3, ReachInNode, ReachSources
<1>5. \A c \in Reach(D, T, parents) : parents[c] \subseteq Reach(D, T, parents)
  BY <1>2, ReachClosed
<1>6. \A c \in Reach(D, T, parents) : obj[c].parent \in D => obj[c].parent \in Reach(D, T, parents)
  BY <1>2, <1>4, <1>5
<1> QED
  BY <1>1, <1>4, <1>6 DEF D, T

LEMMA ReachedLeast ==
  ASSUME NEW obj, NEW S, NEW T, T \subseteq DOMAIN obj, S \intersect DOMAIN obj \subseteq T,
         \A c \in T : obj[c].parent \in DOMAIN obj => obj[c].parent \in T
  PROVE  Reached(obj, S) \subseteq T
<1> DEFINE parents == [c \in DOMAIN obj |-> {obj[c].parent} \intersect DOMAIN obj]
           D == DOMAIN obj
           U == S \intersect D
<1>1. Reached(obj, S) = Reach(D, U, parents)
  BY DEF Reached
<1>2. \A c \in T : parents[c] \subseteq T
  OBVIOUS
<1>3. T \subseteq D /\ U \subseteq T
  OBVIOUS
<1> HIDE DEF parents, D, U
<1> QED
  BY <1>1, <1>2, <1>3, ReachLeast

(* Objects that are not lost keep what they lead to.                       *)
LEMMA ReachedAgree ==
  ASSUME NEW obj, NEW new, NEW S, Reached(obj, S) \subseteq DOMAIN new,
         S \intersect DOMAIN new \subseteq DOMAIN obj,
         \A c \in Reached(obj, S) : new[c].parent = obj[c].parent,
         \A c \in DOMAIN obj : obj[c].parent \in DOMAIN obj \union {None},
         None \notin DOMAIN new
  PROVE  Reached(new, S) = Reached(obj, S)
<1> DEFINE R == Reached(obj, S)
           T == R \intersect Reached(new, S)
<1>1. /\ R \subseteq DOMAIN obj /\ R \subseteq DOMAIN new /\ S \intersect DOMAIN obj \subseteq R
      /\ \A c \in R : obj[c].parent \in DOMAIN obj => obj[c].parent \in R
      /\ \A c \in R : new[c].parent = obj[c].parent
  BY ReachedFacts
<1>2. /\ S \intersect DOMAIN new \subseteq Reached(new, S)
      /\ \A c \in Reached(new, S) : new[c].parent \in DOMAIN new => new[c].parent \in Reached(new, S)
  BY ReachedFacts
<1>3. Reached(new, S) \subseteq R
  <2>1. S \intersect DOMAIN new \subseteq R
    BY <1>1
  <2>2. \A c \in R : new[c].parent \in DOMAIN new => new[c].parent \in R
    BY <1>1
  <2> HIDE DEF R
  <2> QED
    BY <1>1, <2>1, <2>2, ReachedLeast
<1>4. R \subseteq T
  <2>1. T \subseteq DOMAIN obj /\ S \intersect DOMAIN obj \subseteq T
    BY <1>1, <1>2
  <2>2. \A c \in T : obj[c].parent \in DOMAIN obj => obj[c].parent \in T
    BY <1>1, <1>2
  <2> HIDE DEF T
  <2> QED
    BY <2>1, <2>2, ReachedLeast
<1> QED
  BY <1>3, <1>4

(* From one object on.                                                     *)
LEMMA ReachedFrom ==
  ASSUME NEW obj, NEW c \in DOMAIN obj
  PROVE  Reached(obj, {c}) = {c} \union Reached(obj, {obj[c].parent})
<1> DEFINE p == obj[c].parent
           T == {c} \union Reached(obj, {p})
           U == Reached(obj, {c})
<1>1. /\ Reached(obj, {p}) \subseteq DOMAIN obj
      /\ \A x \in Reached(obj, {p}) : obj[x].parent \in DOMAIN obj => obj[x].parent \in Reached(obj, {p})
      /\ p \in DOMAIN obj => p \in Reached(obj, {p})
  BY ReachedFacts
<1>2. U \subseteq T
  <2>1. T \subseteq DOMAIN obj /\ {c} \intersect DOMAIN obj \subseteq T
    BY <1>1
  <2>2. \A x \in T : obj[x].parent \in DOMAIN obj => obj[x].parent \in T
    BY <1>1
  <2> HIDE DEF T
  <2> QED
    BY <2>1, <2>2, ReachedLeast
<1>3. /\ c \in U /\ U \subseteq DOMAIN obj
      /\ \A x \in U : obj[x].parent \in DOMAIN obj => obj[x].parent \in U
  BY ReachedFacts
<1>4. Reached(obj, {p}) \subseteq U
  <2>1. {p} \intersect DOMAIN obj \subseteq U
    BY <1>3
  <2> HIDE DEF U, p
  <2> QED
    BY <1>3, <2>1, ReachedLeast
<1> QED
  BY <1>2, <1>3, <1>4

LEMMA ReachedNone ==
  ASSUME NEW obj, NEW c, c \notin DOMAIN obj
  PROVE  Reached(obj, {c}) = {}
<1>1. {} \subseteq DOMAIN obj /\ {c} \intersect DOMAIN obj \subseteq {}
  OBVIOUS
<1>2. Reached(obj, {c}) \subseteq {}
  BY <1>1, ReachedLeast
<1> QED
  BY <1>2

(* What is met first of some handlers of a chain.                          *)
LEMMA InnermostFacts ==
  ASSUME NEW h, NEW S, S \subseteq ChainFrom(h), S # {}
  PROVE  Innermost(S) \in S /\ S \subseteq ChainFrom(Innermost(S))
<1> DEFINE parents == [c \in DOMAIN object |-> {object[c].parent} \intersect DOMAIN object]
           D == DOMAIN object
<1>1. /\ \A x \in D : parents[x] \subseteq D
      /\ \A x \in D : \A y, z \in parents[x] : y = z
  OBVIOUS
<1>2. \A x \in D : ChainFrom(x) = Reach(D, {x}, parents)
  <2> TAKE x \in D
  <2>1. {x} \intersect DOMAIN object = {x}
    OBVIOUS
  <2> QED
    BY <2>1 DEF ChainFrom, Reached
<1>3. h \in D
  BY ReachedNone DEF ChainFrom
<1>4. S \subseteq D
  BY ReachedFacts DEF ChainFrom
<1> HIDE DEF parents, D
<1>5. HasFirst(D, parents, S)
  <2>1. S \in SUBSET Reach(D, {h}, parents)
    BY <1>2, <1>3
  <2> QED
    BY <1>1, <1>3, <2>1, ReachHasFirst
<1>6. \E c \in S : S \subseteq ChainFrom(c)
  BY <1>2, <1>4, <1>5 DEF HasFirst
<1> QED
  BY <1>6 DEF Innermost

-----------------------------------------------------------------------------
(* Frames.                                                                 *)

LEMMA InFramesFacts ==
  ASSUME NEW s \in Seq(Frame), NEW D
  PROVE  InFrames(s) \subseteq D
           <=> \A d \in 1..Len(s) : s[d].ctx \in D \union {None} /\ s[d].home \in D \union {None}
<1>1. DOMAIN s = 1..Len(s)
  OBVIOUS
<1> QED
  BY <1>1 DEF InFrames

LEMMA FrameType ==
  ASSUME NEW f \in Frame
  PROVE  f.kind \in Kinds /\ f.ctx \in Ctx \union {None} /\ f.home \in Ctx \union {None}
BY DEF Frame

(* Frames that are pushed upon some of a proper stack.                     *)
LEMMA ProperOnto ==
  ASSUME NEW s \in Seq(Frame), NEW t \in Seq(Frame), Proper(s),
         NEW k \in 1..Len(s), s[k].kind \in Plain, k <= Len(t),
         \A i \in 1..k : t[i] = s[i],
         t[Len(t)].kind \in Plain,
         \A d \in (k + 1)..Len(t) : WellPlaced(t, d)
  PROVE  Proper(t)
<1> DEFINE n == Len(t)
<1>1. n \in Nat /\ Len(s) \in Nat /\ k \in Nat /\ k >= 1 /\ k <= n
  OBVIOUS
<1>2. t # << >>
  BY <1>1, EmptySeq
<1> HIDE DEF n
<1>3. ASSUME NEW d \in 1..k PROVE WellPlaced(t, d)
  <2>1. WellPlaced(s, d) /\ t[d] = s[d] /\ d \in 1..Len(s)
    BY <1>1 DEF Proper
  <2>2. CASE s[d].kind \in Plain
    BY <2>1, <2>2 DEF WellPlaced, Plain
  <2>3. CASE s[d].kind \notin Plain
    <3>1. d # k
      BY <2>3
    <3>2. d \in 2..(Len(s) - 1) /\ s[d - 1].kind \in Plain
      BY <2>1, <2>3 DEF WellPlaced
    <3>3. d - 1 \in 1..k /\ d + 1 \in 1..k /\ d \in 2..(n - 1)
      BY <1>1, <3>1, <3>2
    <3>4. t[d - 1] = s[d - 1] /\ t[d + 1] = s[d + 1]
      BY <3>3
    <3> QED
      BY <2>1, <3>2, <3>3, <3>4 DEF WellPlaced, n
  <2> QED
    BY <2>2, <2>3
<1>4. \A d \in 1..n : d \in 1..k \/ d \in (k + 1)..n
  BY <1>1
<1> QED
  BY <1>2, <1>3, <1>4 DEF Proper, n

(* A stack cut at a plain frame.                                           *)
LEMMA CutFacts ==
  ASSUME stack \in Seq(Frame), NEW k \in 0..Depth
  PROVE  /\ Cut(k) \in Seq(Frame) /\ Len(Cut(k)) = k
         /\ \A i \in 1..k : Cut(k)[i] = stack[i]
         /\ FramesInv /\ k # 0 /\ stack[k].kind \in Plain => Proper(Cut(k))
<1>1. Len(stack) \in Nat /\ k \in Nat /\ k <= Len(stack)
  BY DEF Depth
<1>2. Cut(k) = [i \in 1..k |-> stack[i]]
  BY <1>1 DEF Cut
<1>3. \A i \in 1..k : stack[i] \in Frame
  BY <1>1
<1> DEFINE t == Cut(k)
<1>4. t \in Seq(Frame) /\ Len(t) = k /\ \A i \in 1..k : t[i] = stack[i]
  BY <1>1, <1>2, <1>3
<1>5. ASSUME FramesInv, k # 0, stack[k].kind \in Plain PROVE Proper(t)
  <2>1. k \in 1..Len(stack) /\ Proper(stack)
    BY <1>1, <1>5 DEF FramesInv
  <2>2. t[Len(t)].kind \in Plain /\ \A d \in (k + 1)..Len(t) : WellPlaced(t, d)
    BY <1>1, <1>4, <1>5
  <2> HIDE DEF t
  <2> QED
    BY <1>1, <1>4, <1>5, <2>1, <2>2, ProperOnto
<1> QED
  BY <1>4, <1>5

-----------------------------------------------------------------------------
(* Objects.                                                                *)

(* What a step leaves of the objects and of the chains, where it makes     *)
(* those of new.                                                           *)
ObjectsKept(new) ==
  /\ object' \in [DOMAIN object' -> Object] /\ DOMAIN object' \subseteq DOMAIN object \union new
  /\ InFrames(stack') \union escaped' \union HandlerRoot \subseteq DOMAIN object'
  /\ \A c \in DOMAIN object' : object'[c].parent \in DOMAIN object' \union {None}
  /\ \A c \in DOMAIN object' \intersect DOMAIN object :
       object'[c] = object[c] /\ ChainFrom(c)' = ChainFrom(c)

LEMMA NoneNowhere ==
  ASSUME TypeOK
  PROVE  /\ None \notin DOMAIN object /\ DOMAIN object \subseteq Ctx /\ ChainFrom(None) = {}
         /\ \A c \in DOMAIN object : object[c] \in Object
<1>1. None \notin DOMAIN object /\ DOMAIN object \subseteq Ctx
  BY UnwindingAssumption DEF TypeOK
<1>2. \A c \in DOMAIN object : object[c] \in Object
  BY DEF TypeOK
<1> QED
  BY <1>1, <1>2, ReachedNone DEF ChainFrom

LEMMA SetObjectsFacts ==
  ASSUME NEW obj, DOMAIN obj \subseteq Ctx, SetObjects(obj),
         \A c \in DOMAIN obj : obj[c] \in Object /\ obj[c].parent \in DOMAIN obj \union {None},
         InFrames(stack') \union escaped' \union HandlerRoot \subseteq DOMAIN obj
  PROVE  /\ object' \in [DOMAIN object' -> Object] /\ DOMAIN object' \subseteq DOMAIN obj
         /\ InFrames(stack') \union escaped' \union HandlerRoot \subseteq DOMAIN object'
         /\ \A c \in DOMAIN object' : object'[c].parent \in DOMAIN object' \union {None}
         /\ \A c \in DOMAIN object' :
              object'[c] = obj[c] /\ ChainFrom(c)' = Reached(obj, {c})
<1> DEFINE F == InFrames(stack') \union escaped' \union HandlerRoot
           H == Reached(obj, F)
<1>1. /\ H \subseteq DOMAIN obj /\ F \intersect DOMAIN obj \subseteq H
      /\ \A c \in H : obj[c].parent \in DOMAIN obj => obj[c].parent \in H
  BY ReachedFacts
<1>2. object' = [c \in H |-> obj[c]] /\ F \subseteq DOMAIN obj
  BY DEF SetObjects
<1> HIDE DEF H, F
<1>3. DOMAIN object' = H /\ \A c \in H : object'[c] = obj[c]
  BY <1>2
<1>4. object' \in [DOMAIN object' -> Object]
  BY <1>1, <1>2, <1>3
<1>5. \A c \in H : obj[c].parent \in H \union {None}
  BY <1>1
<1>6. None \notin H
  BY <1>1, UnwindingAssumption
<1>7. ASSUME NEW c \in H PROVE Reached(object', {c}) = Reached(obj, {c})
  <2>1. Reached(obj, {c}) \subseteq H
    <3>1. {c} \intersect DOMAIN obj \subseteq H
      OBVIOUS
    <3> QED
      BY <1>1, <3>1, ReachedLeast
  <2>2. {c} \intersect DOMAIN object' \subseteq DOMAIN obj
    BY <1>1, <1>3
  <2>3. \A x \in Reached(obj, {c}) : object'[x].parent = obj[x].parent
    BY <1>3, <2>1
  <2>4. Reached(obj, {c}) \subseteq DOMAIN object' /\ None \notin DOMAIN object'
    BY <1>3, <1>6, <2>1
  <2> QED
    BY <2>2, <2>3, <2>4, ReachedAgree
<1> QED
  BY <1>1, <1>2, <1>3, <1>4, <1>5, <1>7 DEF ChainFrom, F

LEMMA KeptSame ==
  ASSUME TypeOK, ObjectsInv, SetObjects(object) \/ object' = object,
         InFrames(stack') \union escaped' \union HandlerRoot \subseteq DOMAIN object
  PROVE  ObjectsKept({})
<1>1. DOMAIN object \subseteq Ctx
      /\ \A c \in DOMAIN object : object[c] \in Object /\ object[c].parent \in DOMAIN object \union {None}
  BY NoneNowhere DEF ObjectsInv
<1>2. CASE SetObjects(object)
  BY <1>1, <1>2, SetObjectsFacts DEF ObjectsKept, ChainFrom
<1>3. CASE object' = object
  <2>1. object \in [DOMAIN object -> Object]
    BY DEF TypeOK
  <2> QED
    BY <1>1, <1>3, <2>1 DEF ObjectsKept, ChainFrom
<1> QED
  BY <1>2, <1>3

LEMMA KeptNew ==
  ASSUME TypeOK, ObjectsInv, NEW c \in Unused, NEW o \in Object,
         o.parent \in DOMAIN object \union {None}, New(c, o),
         InFrames(stack') \union escaped' \union HandlerRoot \subseteq DOMAIN object \union {c}
  PROVE  /\ ObjectsKept({c})
         /\ c \in DOMAIN object' => object'[c] = o /\ ChainFrom(c)' = {c} \union ChainFrom(o.parent)
<1> DEFINE D == DOMAIN object \union {c}
           obj == [x \in D |-> IF x = c THEN o ELSE object[x]]
<1>1. c \in Ctx /\ c \notin DOMAIN object /\ SetObjects(obj)
  BY DEF Unused, New
<1>2. /\ DOMAIN object \subseteq Ctx /\ None \notin DOMAIN object
      /\ \A x \in DOMAIN object : object[x] \in Object /\ object[x].parent \in DOMAIN object \union {None}
  BY NoneNowhere DEF ObjectsInv
<1>3. /\ DOMAIN obj = DOMAIN object \union {c} /\ obj[c] = o
      /\ \A x \in DOMAIN object : obj[x] = object[x]
  BY <1>1
<1> HIDE DEF obj, D
<1>4. DOMAIN obj \subseteq Ctx /\ \A x \in DOMAIN obj : obj[x] \in Object /\ obj[x].parent \in DOMAIN obj \union {None}
  BY <1>1, <1>2, <1>3
<1>5. /\ object' \in [DOMAIN object' -> Object] /\ DOMAIN object' \subseteq DOMAIN obj
      /\ InFrames(stack') \union escaped' \union HandlerRoot \subseteq DOMAIN object'
      /\ \A x \in DOMAIN object' : object'[x].parent \in DOMAIN object' \union {None}
      /\ \A x \in DOMAIN object' : object'[x] = obj[x] /\ ChainFrom(x)' = Reached(obj, {x})
  BY <1>1, <1>3, <1>4, SetObjectsFacts
<1>6. ASSUME NEW x \in DOMAIN object \union {None} PROVE Reached(obj, {x}) = ChainFrom(x)
  <2>1. Reached(object, {x}) \subseteq DOMAIN object
    BY ReachedFacts
  <2>2. None \notin DOMAIN obj
    BY <1>4, UnwindingAssumption
  <2>3. {x} \intersect DOMAIN obj \subseteq DOMAIN object
    BY <1>3, <2>2
  <2>4. \A y \in Reached(object, {x}) : obj[y].parent = object[y].parent
    BY <1>3, <2>1
  <2>5. Reached(object, {x}) \subseteq DOMAIN obj
    BY <1>3, <2>1
  <2> QED
    BY <1>2, <2>2, <2>3, <2>4, <2>5, ReachedAgree DEF ChainFrom
<1>7. Reached(obj, {c}) = {c} \union ChainFrom(o.parent)
  <2>1. Reached(obj, {c}) = {c} \union Reached(obj, {o.parent})
    BY <1>3, ReachedFrom
  <2> QED
    BY <1>6, <2>1
<1> QED
  BY <1>3, <1>5, <1>6, <1>7 DEF ObjectsKept

-----------------------------------------------------------------------------
(* Memory, and what is alive.                                              *)

LEMMA StackFacts ==
  ASSUME TypeOK, FramesInv
  PROVE  /\ Depth \in Nat /\ Depth >= 1 /\ Depth <= MaxDepth /\ stack \in Seq(Frame) /\ MaxDepth \in Nat
         /\ \A d \in 1..Depth : stack[d] \in Frame /\ WellPlaced(stack, d)
         /\ TopFrame \in Frame /\ TopFrame.kind \in Plain /\ TopFrame = stack[Depth]
         /\ TopFrame.home \in Ctx
<1>1. stack \in Seq(Frame) /\ stack # << >> /\ MaxDepth \in Nat
  BY UnwindingAssumption DEF TypeOK, FramesInv, Proper
<1>2. Depth \in Nat /\ Depth >= 1 /\ Depth <= MaxDepth
  BY <1>1, EmptySeq DEF Depth, TypeOK
<1>3. \A d \in 1..Depth : stack[d] \in Frame /\ WellPlaced(stack, d)
  BY <1>1 DEF Depth, FramesInv, Proper
<1>4. TopFrame \in Frame /\ TopFrame.kind \in Plain /\ TopFrame = stack[Depth] /\ WellPlaced(stack, Depth)
  BY <1>1, <1>2, <1>3 DEF TopFrame, FramesInv, Proper, Depth
<1>5. TopFrame.home \in Ctx \union {None}
  BY <1>4, FrameType
<1>6. TopFrame.home # None
  <2>1. CASE stack[Depth].kind = "method"
    BY <1>4, <2>1 DEF WellPlaced
  <2>2. CASE stack[Depth].kind = "block"
    BY <1>4, <2>2 DEF WellPlaced
  <2> QED
    BY <1>4, <2>1, <2>2 DEF Plain
<1> QED
  BY <1>1, <1>2, <1>3, <1>4, <1>5, <1>6

LEMMA MemoryFrom ==
  ASSUME NEW m \in [1..MaxDepth -> Ctx \union {None}], NEW t \in Seq(Frame), Len(t) <= MaxDepth,
         stack' = t, memory' = Written(m, t)
  PROVE  memory' \in [1..MaxDepth -> Ctx \union {None}] /\ MemoryInv'
<1>1. memory' = [d \in 1..MaxDepth |-> IF d <= Len(t) THEN t[d].ctx ELSE m[d]]
  BY DEF Written
<1>2. Len(t) \in Nat /\ MaxDepth \in Nat
  BY UnwindingAssumption
<1>3. \A d \in 1..Len(t) : d \in 1..MaxDepth /\ t[d].ctx \in Ctx \union {None}
  BY <1>2, FrameType
<1>4. memory' \in [1..MaxDepth -> Ctx \union {None}]
  <2>1. \A d \in 1..MaxDepth : d <= Len(t) => d \in 1..Len(t)
    BY <1>2
  <2> QED
    BY <1>1, <1>2, <1>3, <2>1
<1>5. MemoryInv'
  <2>1. \A d \in 1..Len(t) : memory'[d] = t[d].ctx
    BY <1>1, <1>2, <1>3
  <2> QED
    BY <2>1 DEF MemoryInv, Depth
<1> QED
  BY <1>4, <1>5

LEMMA MemoryStep ==
  ASSUME TypeOK, NEW t \in Seq(Frame), Len(t) <= MaxDepth, SetStack(t)
  PROVE  stack' = t /\ memory' \in [1..MaxDepth -> Ctx \union {None}] /\ MemoryInv'
<1>1. stack' = t /\ memory' = Written(memory, t) /\ memory \in [1..MaxDepth -> Ctx \union {None}]
  BY DEF SetStack, TypeOK
<1> QED
  BY <1>1, MemoryFrom

(* The scope of #signal covers no word of a live frame.                    *)
LEMMA SignalMemory ==
  ASSUME TypeOK
  PROVE  /\ MemoryInSignal \in [1..MaxDepth -> Ctx \union {None}]
         /\ \A d \in 1..MaxDepth : MemoryInSignal[d] \in {None, memory[d]}
         /\ \A d \in 1..Depth : MemoryInSignal[d] = memory[d]
<1>1. /\ Depth \in Nat /\ Depth <= MaxDepth /\ MaxDepth \in Nat
      /\ memory \in [1..MaxDepth -> Ctx \union {None}]
  BY UnwindingAssumption DEF TypeOK, Depth
<1> DEFINE scope == (Depth + 1)..(Depth + ScopeFrames)
<1>2. \A d \in 1..Depth : d \in 1..MaxDepth /\ d \notin scope
  BY <1>1, UnwindingAssumption
<1>3. MemoryInSignal = [d \in 1..MaxDepth |-> IF d \in scope THEN None ELSE memory[d]]
  BY DEF MemoryInSignal
<1> HIDE DEF scope
<1> QED
  BY <1>1, <1>2, <1>3

(* A context is alive when the frame it names holds it.                    *)
LEMMA AliveFacts ==
  TypeOK /\ ObjectsInv =>
    /\ \A c : Alive(c) /\ c # None => c \in DOMAIN object /\ object[c].frame \in 1..Depth
                                      /\ stack[object[c].frame].ctx = c
    /\ \A c \in DOMAIN object :
         object[c].frame \in 1..Depth /\ stack[object[c].frame].ctx = c => Alive(c) /\ c # None
<1> SUFFICES ASSUME TypeOK, ObjectsInv
             PROVE  /\ \A c : Alive(c) /\ c # None => c \in DOMAIN object /\ object[c].frame \in 1..Depth
                                                      /\ stack[object[c].frame].ctx = c
                    /\ \A c \in DOMAIN object :
                         object[c].frame \in 1..Depth /\ stack[object[c].frame].ctx = c
                           => Alive(c) /\ c # None
  OBVIOUS
<1>1. stack \in Seq(Frame) /\ InFrames(stack) \subseteq DOMAIN object
  BY DEF TypeOK, ObjectsInv
<1>2. \A d \in 1..Depth : stack[d].ctx \in DOMAIN object \union {None}
  BY <1>1, InFramesFacts DEF Depth
<1>3. \A d \in 1..Depth : stack[d].ctx # None => object[stack[d].ctx].frame = d
  BY DEF ObjectsInv
<1>4. None \notin DOMAIN object
  BY NoneNowhere
<1> QED
  BY <1>2, <1>3, <1>4 DEF Alive

LEMMA AliveFactsNext == (
  TypeOK /\ ObjectsInv =>
    /\ \A c : Alive(c) /\ c # None => c \in DOMAIN object /\ object[c].frame \in 1..Depth
                                      /\ stack[object[c].frame].ctx = c
    /\ \A c \in DOMAIN object :
         object[c].frame \in 1..Depth /\ stack[object[c].frame].ctx = c => Alive(c) /\ c # None)'
BY AliveFacts, PTL

(* The on:do: frames up to a depth, by their contexts.                     *)
LEMMA GuardsFacts ==
  ASSUME TypeOK, ObjectsInv, FramesInv, NEW d \in 0..Depth
  PROVE  /\ Guards(d) \subseteq DOMAIN object
         /\ \A x \in DOMAIN object :
              x \in Guards(d) <=> /\ object[x].frame \in 1..d
                                  /\ stack[object[x].frame].ctx = x
                                  /\ stack[object[x].frame].kind = "body"
<1>1. \A i \in 1..d : i \in 1..Depth
  BY StackFacts
<1>2. \A i \in 1..d : stack[i].kind = "body" => stack[i].ctx # None
  BY <1>1, StackFacts DEF WellPlaced
<1>3. \A i \in 1..d : stack[i].kind = "body" => stack[i].ctx \in DOMAIN object /\ object[stack[i].ctx].frame = i
  <2>1. stack \in Seq(Frame) /\ InFrames(stack) \subseteq DOMAIN object
    BY DEF TypeOK, ObjectsInv
  <2>2. \A i \in 1..Depth : stack[i].ctx \in DOMAIN object \union {None}
    BY <2>1, InFramesFacts DEF Depth
  <2> QED
    BY <1>1, <1>2, <2>2 DEF ObjectsInv
<1>4. Guards(d) = { stack[i].ctx : i \in { j \in 1..d : stack[j].kind = "body" } }
  BY DEF Guards
<1> QED
  BY <1>3, <1>4

-----------------------------------------------------------------------------
(* Handlers while the stack changes above depth k.                         *)

Below(S, k) == { x \in S : object[x].frame <= k }

LEMMA LiveStep ==
  ASSUME TypeOK, TypeOK', ObjectsInv, ObjectsInv', NEW new, new \intersect DOMAIN object = {},
         ObjectsKept(new), NEW k \in 0..Depth, k <= Depth',
         \A i \in 1..k : stack'[i].ctx = stack[i].ctx,
         \A i \in (k + 1)..Depth' : stack'[i].ctx \in new \union {None},
         NEW c \in DOMAIN object, c \in DOMAIN object'
  PROVE  Live(ChainFrom(c))' = Below(Live(ChainFrom(c)), k)
<1>1. /\ ChainFrom(c)' = ChainFrom(c)
      /\ \A x \in DOMAIN object' \intersect DOMAIN object : object'[x] = object[x]
  BY DEF ObjectsKept
<1>2. ChainFrom(c)' \subseteq DOMAIN object' /\ ChainFrom(c) \subseteq DOMAIN object
  BY ReachedFacts DEF ChainFrom
<1>3. Depth \in Nat /\ Depth' \in Nat /\ k \in Nat
  BY DEF TypeOK, Depth
<1>4. ASSUME NEW x \in ChainFrom(c)
      PROVE  Alive(x)' <=> Alive(x) /\ object[x].frame <= k
  <2>1. x \in DOMAIN object /\ x \in DOMAIN object' /\ object'[x] = object[x] /\ x \notin new /\ x # None
    BY <1>1, <1>2, NoneNowhere
  <2> DEFINE f == object[x].frame
  <2>2. f \in Nat /\ f >= 1
    BY <2>1, UnwindingAssumption, NoneNowhere DEF Object
  <2>3. Alive(x) <=> f \in 1..Depth /\ stack[f].ctx = x
    BY <2>1, AliveFacts
  <2>4. Alive(x)' <=> f \in 1..Depth' /\ stack'[f].ctx = x
    BY <2>1, AliveFactsNext
  <2>5. CASE f <= k
    <3>1. f \in 1..k /\ f \in 1..Depth /\ f \in 1..Depth'
      BY <1>3, <2>2, <2>5
    <3>2. stack'[f].ctx = stack[f].ctx
      BY <3>1
    <3> QED
      BY <2>3, <2>4, <2>5, <3>1, <3>2
  <2>6. CASE ~(f <= k)
    <3>1. f \in 1..Depth' => f \in (k + 1)..Depth'
      BY <1>3, <2>2, <2>6
    <3> QED
      BY <2>1, <2>4, <2>6, <3>1
  <2> QED
    BY <2>5, <2>6
<1> QED
  BY <1>1, <1>4 DEF Live, Below

LEMMA GuardsBelow ==
  ASSUME TypeOK, ObjectsInv, FramesInv, NEW d \in 0..Depth, NEW k \in 0..Depth
  PROVE  Below(Guards(d), k) = Guards(IF d <= k THEN d ELSE k)
<1>1. d \in Nat /\ k \in Nat
  BY StackFacts
<1> DEFINE m == IF d <= k THEN d ELSE k
<1>2. m \in 0..Depth /\ \A f \in Nat : f \in 1..m <=> f \in 1..d /\ f <= k
  BY <1>1
<1> HIDE DEF m
<1>3. \A x \in DOMAIN object : object[x].frame \in Nat
  BY UnwindingAssumption, NoneNowhere DEF Object
<1>4. \A x \in DOMAIN object : x \in Guards(m) <=> x \in Guards(d) /\ object[x].frame <= k
  BY <1>2, <1>3, GuardsFacts
<1>5. Guards(d) \subseteq DOMAIN object /\ Guards(m) \subseteq DOMAIN object
  BY <1>2, GuardsFacts
<1>6. Below(Guards(d), k) = Guards(m)
  BY <1>4, <1>5 DEF Below
<1> QED
  BY <1>6 DEF m

LEMMA GuardsStep ==
  ASSUME NEW d \in Nat, NEW m \in Nat, m <= d,
         \A i \in 1..m : stack'[i].kind = stack[i].kind /\ stack'[i].ctx = stack[i].ctx,
         \A i \in (m + 1)..d : stack'[i].kind # "body"
  PROVE  Guards(d)' = Guards(m)
<1>1. \A i \in 1..d : i \in 1..m \/ i \in (m + 1)..d
  OBVIOUS
<1>2. \A i \in 1..m : i \in 1..d
  OBVIOUS
<1>3. Guards(d)' = { stack'[i].ctx : i \in { j \in 1..d : stack'[j].kind = "body" } }
  BY DEF Guards
<1>4. Guards(m) = { stack[i].ctx : i \in { j \in 1..m : stack[j].kind = "body" } }
  BY DEF Guards
<1> QED
  BY <1>1, <1>2, <1>3, <1>4

-----------------------------------------------------------------------------
(* Steps that push or pop frames.                                          *)

LEMMA NoneNowhereNext == (TypeOK =>
    /\ None \notin DOMAIN object /\ DOMAIN object \subseteq Ctx /\ ChainFrom(None) = {}
    /\ \A c \in DOMAIN object : object[c] \in Object)'
<1>1. TypeOK =>
    /\ None \notin DOMAIN object /\ DOMAIN object \subseteq Ctx /\ ChainFrom(None) = {}
    /\ \A c \in DOMAIN object : object[c] \in Object
  BY NoneNowhere
<1> QED
  BY <1>1, PTL

LEMMA TypeStep ==
  ASSUME NEW new, new \subseteq Ctx, TypeOK, ObjectsKept(new),
         stack' \in Seq(Frame), Len(stack') <= MaxDepth, memory' \in [1..MaxDepth -> Ctx \union {None}],
         entries' \in Seq(1..MaxDepth), state' \in {"runs", "exited", "wild"}
  PROVE  TypeOK'
<1>1. DOMAIN object' \subseteq Ctx /\ object' \in [DOMAIN object' -> Object]
  BY NoneNowhere DEF ObjectsKept
<1>2. escaped' \subseteq DOMAIN object' /\ current' \in DOMAIN object' \union {None}
  BY DEF ObjectsKept, HandlerRoot
<1> QED
  BY <1>1, <1>2 DEF TypeOK, Depth

LEMMA ChainsStep ==
  ASSUME TypeOK, TypeOK', ChainsInv, ObjectsInv,
         NEW new, new \intersect DOMAIN object = {}, ObjectsKept(new),
         \A c \in new \intersect DOMAIN object' : object'[c].parent \in DOMAIN object \union {None}
  PROVE  ChainsInv'
<1> SUFFICES ASSUME NEW c \in DOMAIN object', NEW p, p = object'[c].parent
             PROVE  c \notin Reached(object', {p})
  BY DEF ChainsInv, ChainFrom
<1>1. p \in DOMAIN object' \union {None} /\ (c \in DOMAIN object \/ c \in new)
  BY DEF ObjectsKept
<1>2. p \in DOMAIN object \union {None}
  BY <1>1 DEF ObjectsKept, ObjectsInv
<1>3. CASE p = None
  BY <1>3, NoneNowhereNext DEF ChainFrom
<1>4. CASE p # None
  <2>1. p \in DOMAIN object' \intersect DOMAIN object
    BY <1>1, <1>2, <1>4
  <2>2. Reached(object', {p}) = ChainFrom(p)
    BY <2>1 DEF ObjectsKept, ChainFrom
  <2>3. ChainFrom(p) \subseteq DOMAIN object
    BY ReachedFacts DEF ChainFrom
  <2>4. CASE c \in DOMAIN object
    <3>1. p = object[c].parent
      BY <2>4 DEF ObjectsKept
    <3> QED
      BY <2>2, <2>4, <3>1 DEF ChainsInv
  <2>5. CASE c \notin DOMAIN object
    BY <2>2, <2>3, <2>5
  <2> QED
    BY <2>4, <2>5
<1> QED
  BY <1>3, <1>4

(* The stack below depth k stays, the frames above it are new.             *)
LEMMA StackStep ==
  ASSUME TypeOK, TypeOK', RunsInv, MemoryInv', NEW k \in 1..Depth, k <= Depth',
         \A i \in 1..k : stack'[i] = stack[i],
         stack[k].kind \in Plain,
         stack'[Depth'].kind \in Plain,
         \A d \in (k + 1)..Depth' : WellPlaced(stack', d),
         NEW new, new \intersect DOMAIN object = {}, ObjectsKept(new),
         \A c \in new \intersect DOMAIN object' : object'[c].parent \in DOMAIN object \union {None},
         \A d \in (k + 1)..Depth' : stack'[d].ctx # None => object'[stack'[d].ctx].frame = d,
         \A d \in (k + 1)..Depth' : stack'[d].kind = "method" => object'[stack'[d].ctx].catches = {}
  PROVE  RunsInv'
<1>1. /\ stack \in Seq(Frame) /\ stack' \in Seq(Frame)
      /\ Depth \in Nat /\ Depth' \in Nat /\ k \in Nat /\ k >= 1 /\ k \in 1..Len(stack)
      /\ Depth = Len(stack) /\ Depth' = Len(stack')
  BY DEF TypeOK, Depth
<1>2. FramesInv'
  <2>1. Proper(stack)
    BY DEF RunsInv, FramesInv
  <2>2. Proper(stack')
    BY <1>1, <2>1, ProperOnto
  <2> QED
    BY <2>2 DEF FramesInv
<1>3. \A d \in 1..Depth : stack[d].ctx \in DOMAIN object \union {None} /\ stack[d].home \in DOMAIN object \union {None}
  BY <1>1, InFramesFacts DEF RunsInv, ObjectsInv
<1>4. \A d \in 1..k : d \in 1..Depth
  BY <1>1
<1>5. \A d \in 1..Depth' : d \in 1..k \/ d \in (k + 1)..Depth'
  BY <1>1
<1>6. ObjectsInv'
  <2>1. \A d \in 1..Depth' : stack'[d].ctx \in DOMAIN object' \union {None}
    <3>1. InFrames(stack') \subseteq DOMAIN object'
      BY DEF ObjectsKept
    <3> QED
      BY <1>1, <3>1, InFramesFacts
  <2>2. ASSUME NEW d \in 1..Depth', stack'[d].ctx # None PROVE object'[stack'[d].ctx].frame = d
    <3>1. CASE d \in 1..k
      <4>1. stack'[d].ctx = stack[d].ctx /\ stack[d].ctx \in DOMAIN object \intersect DOMAIN object'
        BY <1>3, <1>4, <2>1, <2>2, <3>1
      <4>2. object'[stack[d].ctx] = object[stack[d].ctx]
        BY <4>1 DEF ObjectsKept
      <4>3. object[stack[d].ctx].frame = d
        BY <1>4, <2>2, <3>1, <4>1 DEF RunsInv, ObjectsInv
      <4> QED
        BY <4>1, <4>2, <4>3
    <3>2. CASE d \in (k + 1)..Depth'
      BY <2>2, <3>2
    <3> QED
      BY <1>5, <3>1, <3>2
  <2>3. ASSUME NEW d \in 1..Depth', stack'[d].kind = "method" PROVE object'[stack'[d].ctx].catches = {}
    <3>1. CASE d \in 1..k
      <4>1. stack[d].kind = "method" /\ WellPlaced(stack, d) /\ d \in 1..Depth
        BY <1>4, <2>3, <3>1 DEF RunsInv, FramesInv, Proper, Depth
      <4>2. stack'[d].ctx = stack[d].ctx /\ stack[d].ctx # None
        BY <3>1, <4>1 DEF WellPlaced
      <4>3. stack[d].ctx \in DOMAIN object \intersect DOMAIN object'
        BY <1>3, <2>1, <4>1, <4>2
      <4>4. object'[stack[d].ctx] = object[stack[d].ctx]
        BY <4>3 DEF ObjectsKept
      <4> QED
        BY <4>1, <4>2, <4>4 DEF RunsInv, ObjectsInv
    <3>2. CASE d \in (k + 1)..Depth'
      BY <2>3, <3>2
    <3> QED
      BY <1>5, <3>1, <3>2
  <2> QED
    BY <2>2, <2>3 DEF ObjectsInv, ObjectsKept, HandlerRoot
<1>7. ChainsInv'
  BY ChainsStep DEF RunsInv
<1> QED
  BY <1>2, <1>6, <1>7 DEF RunsInv

LiveChain == Live(Chain)
AllGuards == Guards(Depth)

LEMMA InstalledNext ==
  ASSUME LiveChain' = AllGuards',
         \A d \in 1..Depth' : \A c : stack'[d].kind = "body" /\ c = stack'[d].ctx
           => Live(ChainFrom(c))' = Guards(d)'
  PROVE  HandlersInstalled'
BY DEF HandlersInstalled, LiveChain, AllGuards, Live, ChainFrom, Guards

(* The handlers, where the frames up to depth m stay and no receiver of    *)
(* on:do: runs above it; the contexts stay to depth k.                     *)
LEMMA GuardedStep ==
  ASSUME TypeOK, TypeOK', RunsInv, RunsInv', state = "runs", HandlersInstalled,
         NEW new, new \intersect DOMAIN object = {}, ObjectsKept(new),
         NEW k \in 0..Depth, k <= Depth', NEW m \in 0..k,
         \A i \in 1..k : stack'[i].ctx = stack[i].ctx,
         \A i \in (k + 1)..Depth' : stack'[i].ctx \in new \union {None},
         \A i \in 1..m : stack'[i].kind = stack[i].kind
  PROVE  /\ \A d \in 1..m : \A c : stack'[d].kind = "body" /\ c = stack'[d].ctx =>
              Live(ChainFrom(c))' = Guards(d)'
         /\ (\A i \in (m + 1)..Depth' : stack'[i].kind # "body") => AllGuards' = Guards(m)
         /\ \A c \in DOMAIN object \intersect DOMAIN object' :
              Live(ChainFrom(c))' = Below(Live(ChainFrom(c)), k)
         /\ current' = current => LiveChain' = Guards(k)
<1>1. /\ ObjectsInv /\ ObjectsInv' /\ FramesInv /\ Depth \in Nat /\ Depth' \in Nat /\ k \in Nat /\ m \in Nat
      /\ m <= Depth'
  BY DEF RunsInv, TypeOK, Depth
<1>2. /\ Live(Chain) = Guards(Depth)
      /\ \A d \in 1..Depth : stack[d].kind = "body" => Live(ChainFrom(stack[d].ctx)) = Guards(d)
  BY DEF HandlersInstalled
<1>3. \A c \in DOMAIN object \intersect DOMAIN object' : Live(ChainFrom(c))' = Below(Live(ChainFrom(c)), k)
  BY <1>1, LiveStep
<1>4. ASSUME NEW d \in 1..m, NEW c, stack'[d].kind = "body", c = stack'[d].ctx
      PROVE  Live(ChainFrom(c))' = Guards(d)'
  <2>1. d \in 1..Depth /\ d \in 1..k /\ d \in 0..Depth /\ d \in Nat /\ d <= k /\ stack[d].kind = "body" /\ stack[d].ctx = c
    BY <1>1, <1>4
  <2>2. c \in DOMAIN object
    <3>1. c \in Guards(d)
      BY <2>1 DEF Guards
    <3> QED
      BY <1>1, <2>1, <3>1, GuardsFacts
  <2>3. c \in DOMAIN object'
    <3>1. stack' \in Seq(Frame) /\ InFrames(stack') \subseteq DOMAIN object' /\ d \in 1..Len(stack')
      BY <1>1, <2>1 DEF TypeOK, ObjectsKept, Depth
    <3>2. stack'[d].ctx \in DOMAIN object' \union {None}
      BY <3>1, InFramesFacts
    <3> QED
      BY <1>4, <2>1, <2>2, <3>2, NoneNowhere
  <2>4. Live(ChainFrom(c))' = Below(Guards(d), k)
    BY <1>2, <1>3, <2>1, <2>2, <2>3
  <2>5. Below(Guards(d), k) = Guards(d)
    BY <1>1, <2>1, GuardsBelow
  <2>6. Guards(d)' = Guards(d)
    <3>1. \A i \in 1..d : i \in 1..m /\ i \in 1..k
      BY <1>1, <2>1
    <3>2. \A i \in 1..d : stack'[i].kind = stack[i].kind /\ stack'[i].ctx = stack[i].ctx
      BY <3>1
    <3>3. \A i \in (d + 1)..d : stack'[i].kind # "body"
      BY <2>1
    <3> QED
      BY <2>1, <3>2, <3>3, GuardsStep
  <2> QED
    BY <2>1, <2>4, <2>5, <2>6
<1>5. ASSUME \A i \in (m + 1)..Depth' : stack'[i].kind # "body" PROVE AllGuards' = Guards(m)
  <2>1. \A i \in 1..m : stack'[i].kind = stack[i].kind /\ stack'[i].ctx = stack[i].ctx
    BY <1>1
  <2> SUFFICES ASSUME NEW n, n = Depth' PROVE Guards(n)' = Guards(m)
    BY DEF AllGuards, Guards
  <2>2. n \in Nat /\ m <= n /\ \A i \in (m + 1)..n : stack'[i].kind # "body"
    BY <1>1, <1>5
  <2> QED
    BY <1>1, <2>1, <2>2, GuardsStep
<1>6. ASSUME current' = current PROVE LiveChain' = Guards(k)
  <2>1. Below(Guards(Depth), k) = Guards(k)
    <3>1. Depth \in 0..Depth /\ (Depth <= k => k = Depth)
      BY <1>1
    <3> QED
      BY <1>1, <3>1, GuardsBelow
  <2>2. CASE current = None
    <3>1. Chain' = {} /\ Chain = {}
      BY <1>6, <2>2, NoneNowhere, NoneNowhereNext DEF Chain, ChainFrom
    <3>2. LiveChain' = {} /\ Guards(Depth) = {}
      BY <1>2, <3>1 DEF Live, LiveChain
    <3> QED
      BY <2>1, <3>2 DEF Below
  <2>3. CASE current # None
    <3>1. current \in DOMAIN object \intersect DOMAIN object'
      BY <1>6, <2>3 DEF TypeOK
    <3>2. ASSUME NEW c, c = current PROVE LiveChain' = Live(ChainFrom(c))'
      BY <1>6, <3>2 DEF Chain, Live, ChainFrom, LiveChain
    <3>3. ASSUME NEW c, c = current PROVE LiveChain' = Below(Live(ChainFrom(c)), k)
      BY <1>3, <3>1, <3>2, <3>3
    <3> QED
      BY <1>2, <2>1, <3>3 DEF Chain
  <2> QED
    BY <2>2, <2>3
<1> QED
  BY <1>3, <1>4, <1>5, <1>6

(* The chain does not change.                                              *)
LEMMA HandlersKept ==
  ASSUME TypeOK, TypeOK', RunsInv, RunsInv', state = "runs", HandlersInstalled, current' = current,
         NEW new, new \intersect DOMAIN object = {}, ObjectsKept(new),
         NEW k \in 0..Depth, k <= Depth',
         \A i \in 1..k : stack'[i] = stack[i],
         \A i \in (k + 1)..Depth' : stack'[i].ctx \in new \union {None} /\ stack'[i].kind # "body"
  PROVE  HandlersInstalled'
<1>1. k \in Nat /\ Depth' \in Nat /\ k \in 0..k
  BY DEF TypeOK, Depth
<1>2. /\ \A d \in 1..k : \A c : stack'[d].kind = "body" /\ c = stack'[d].ctx => Live(ChainFrom(c))' = Guards(d)'
      /\ AllGuards' = Guards(k) /\ LiveChain' = Guards(k)
  BY <1>1, GuardedStep
<1>3. \A d \in 1..Depth' : stack'[d].kind = "body" => d \in 1..k
  BY <1>1
<1>4. \A d \in 1..Depth' : \A c : stack'[d].kind = "body" /\ c = stack'[d].ctx
        => Live(ChainFrom(c))' = Guards(d)'
  BY <1>2, <1>3
<1> QED
  BY <1>2, <1>4, InstalledNext

-----------------------------------------------------------------------------
(* Calls.                                                                  *)

(* What the frames refer to, those up to depth k being old ones.           *)
LEMMA FramesRefer ==
  ASSUME TypeOK, ObjectsInv, stack' \in Seq(Frame), NEW k \in 0..Depth,
         \A i \in 1..k : stack'[i] = stack[i], NEW new,
         \A i \in (k + 1)..Depth' :
           stack'[i].ctx \in DOMAIN object \union new \union {None}
             /\ stack'[i].home \in DOMAIN object \union new \union {None}
  PROVE  InFrames(stack') \subseteq DOMAIN object \union new
<1>1. Depth \in Nat /\ k \in Nat /\ Depth' \in Nat /\ Depth = Len(stack) /\ Depth' = Len(stack')
  BY DEF TypeOK, Depth
<1>2. \A i \in 1..Depth : stack[i].ctx \in DOMAIN object \union {None} /\ stack[i].home \in DOMAIN object \union {None}
  <2>1. stack \in Seq(Frame) /\ InFrames(stack) \subseteq DOMAIN object
    BY DEF TypeOK, ObjectsInv
  <2> QED
    BY <1>1, <2>1, InFramesFacts
<1>3. \A i \in 1..Depth' : i \in 1..k \/ i \in (k + 1)..Depth'
  BY <1>1
<1>4. \A i \in 1..k : i \in 1..Depth
  BY <1>1
<1>5. \A i \in 1..Depth' : stack'[i].ctx \in (DOMAIN object \union new) \union {None}
                           /\ stack'[i].home \in (DOMAIN object \union new) \union {None}
  BY <1>2, <1>3, <1>4
<1> QED
  BY <1>1, <1>5, InFramesFacts

LEMMA HomesFacts ==
  ASSUME TypeOK, ObjectsInv
  PROVE  Homes \subseteq DOMAIN object /\ None \notin Homes /\ escaped \subseteq DOMAIN object
         /\ Homes \subseteq Ctx
<1>1. stack \in Seq(Frame) /\ InFrames(stack) \subseteq DOMAIN object /\ escaped \subseteq DOMAIN object
  BY DEF TypeOK, ObjectsInv
<1>2. \A i \in 1..Depth : stack[i].home \in DOMAIN object \union {None}
  BY <1>1, InFramesFacts DEF Depth
<1> QED
  BY <1>1, <1>2, NoneNowhere DEF Homes

LEMMA PushStep ==
  ASSUME TypeOK, TypeOK', RunsInv, MemoryInv', state = "runs", current' = current,
         Depth <= Depth', \A i \in 1..Depth : stack'[i] = stack[i],
         stack'[Depth'].kind \in Plain,
         \A d \in (Depth + 1)..Depth' : WellPlaced(stack', d),
         NEW new, new \intersect DOMAIN object = {}, ObjectsKept(new),
         \A c \in new \intersect DOMAIN object' : object'[c].parent \in DOMAIN object \union {None},
         \A d \in (Depth + 1)..Depth' : stack'[d].ctx # None => object'[stack'[d].ctx].frame = d,
         \A d \in (Depth + 1)..Depth' : stack'[d].kind = "method" => object'[stack'[d].ctx].catches = {},
         \A d \in (Depth + 1)..Depth' : stack'[d].ctx \in new \union {None} /\ stack'[d].kind # "body"
  PROVE  RunsInv' /\ (HandlersInstalled => HandlersInstalled')
<1> SUFFICES ASSUME NEW k, k = Depth PROVE RunsInv' /\ (HandlersInstalled => HandlersInstalled')
  OBVIOUS
<1>1. k \in 1..Depth /\ k \in 0..Depth /\ stack[k].kind \in Plain
  BY StackFacts DEF RunsInv
<1>2. RunsInv'
  BY <1>1, StackStep
<1> QED
  BY <1>1, <1>2, HandlersKept

LEMMA CallMethodStep ==
  ASSUME Inv, CallMethod
  PROVE  Inv'
<1>1. /\ TypeOK /\ RunsInv /\ ObjectsInv /\ state = "runs" /\ state' = state
      /\ current' = current /\ escaped' = escaped /\ entries' = entries /\ Depth < MaxDepth
  BY DEF Inv, RunsInv, CallMethod
<1>2. PICK c \in Unused : SetStack(Append(stack, Method(c))) /\ New(c, Context(Depth + 1))
  BY DEF CallMethod
<1> DEFINE f == Method(c)
           t == Append(stack, f)
           o == Context(Depth + 1)
<1>3. /\ Depth \in Nat /\ Depth >= 1 /\ stack \in Seq(Frame) /\ MaxDepth \in Nat /\ Depth = Len(stack)
      /\ Depth + 1 \in 1..MaxDepth
  BY <1>1, StackFacts DEF RunsInv, Depth
<1>4. /\ f \in Frame /\ f.ctx = c /\ f.home = c /\ f.kind = "method"
      /\ c \in Ctx /\ c # None /\ c \notin DOMAIN object
  BY UnwindingAssumption DEF Method, Frame, Kinds, Unused
<1>5. o \in Object /\ o.parent = None /\ o.frame = Depth + 1 /\ o.catches = {}
  BY <1>3 DEF Context, Object
<1> HIDE DEF f, o
<1>6. t \in Seq(Frame) /\ Len(t) = Depth + 1 /\ (\A i \in 1..Depth : t[i] = stack[i]) /\ t[Depth + 1] = f
  BY <1>3, <1>4, AppendProperties
<1> HIDE DEF t
<1>7. stack' = t /\ memory' \in [1..MaxDepth -> Ctx \union {None}] /\ MemoryInv'
  <2>1. SetStack(t) /\ Len(t) <= MaxDepth
    BY <1>2, <1>3, <1>6 DEF t, f
  <2> QED
    BY <1>1, <1>6, <2>1, MemoryStep
<1> SUFFICES ASSUME NEW k, k = Depth PROVE Inv'
  OBVIOUS
<1>8. /\ k \in Nat /\ k \in 0..Depth /\ Depth' = k + 1 /\ \A d \in (k + 1)..Depth' : d = k + 1
      /\ k + 1 \in (k + 1)..Depth' /\ k <= Depth'
  BY <1>3, <1>6, <1>7 DEF Depth
<1>9. (\A i \in 1..k : stack'[i] = stack[i]) /\ stack'[k + 1] = f
  BY <1>6, <1>7
<1>10. InFrames(stack') \union escaped' \union HandlerRoot \subseteq DOMAIN object \union {c}
  <2>1. \A i \in (k + 1)..Depth' :
          stack'[i].ctx \in DOMAIN object \union {c} \union {None}
            /\ stack'[i].home \in DOMAIN object \union {c} \union {None}
    BY <1>4, <1>8, <1>9
  <2>2. stack' \in Seq(Frame)
    BY <1>6, <1>7
  <2>3. InFrames(stack') \subseteq DOMAIN object \union {c}
    BY <1>1, <1>8, <1>9, <2>1, <2>2, FramesRefer
  <2> QED
    BY <1>1, <2>3 DEF ObjectsInv, HandlerRoot
<1>11. ObjectsKept({c}) /\ (c \in DOMAIN object' => object'[c] = o)
  BY <1>1, <1>2, <1>5, <1>10, KeptNew DEF o
<1>12. c \in DOMAIN object'
  <2>1. stack' \in Seq(Frame) /\ InFrames(stack') \subseteq DOMAIN object' /\ k + 1 \in 1..Len(stack')
    BY <1>6, <1>7, <1>8, <1>11 DEF ObjectsKept, Depth
  <2>2. stack'[k + 1].ctx \in DOMAIN object' \union {None}
    BY <2>1, InFramesFacts
  <2> QED
    BY <1>4, <1>9, <2>2
<1>13. TypeOK'
  <2>1. entries' \in Seq(1..MaxDepth) /\ state' \in {"runs", "exited", "wild"} /\ {c} \subseteq Ctx
        /\ Len(stack') <= MaxDepth
    BY <1>1, <1>3, <1>4, <1>6, <1>7 DEF TypeOK
  <2> QED
    BY <1>1, <1>6, <1>7, <1>11, <2>1, TypeStep
<1>14. WellPlaced(stack', k + 1) /\ stack'[Depth'].kind \in Plain
  BY <1>4, <1>8, <1>9 DEF WellPlaced, Plain
<1>15. RunsInv' /\ (HandlersInstalled => HandlersInstalled')
  BY <1>1, <1>4, <1>5, <1>7, <1>8, <1>9, <1>11, <1>12, <1>13, <1>14, PushStep
<1> QED
  BY <1>1, <1>13, <1>15 DEF Inv

LEMMA CallBlockStep ==
  ASSUME Inv, CallBlock
  PROVE  Inv'
<1>1. /\ TypeOK /\ RunsInv /\ ObjectsInv /\ state = "runs" /\ state' = state /\ object' = object
      /\ current' = current /\ escaped' = escaped /\ entries' = entries /\ Depth < MaxDepth
  BY DEF Inv, RunsInv, CallBlock
<1>2. PICK h \in Homes : SetStack(Append(stack, BlockOf(h)))
  BY DEF CallBlock
<1> DEFINE f == BlockOf(h)
           t == Append(stack, f)
<1>3. /\ Depth \in Nat /\ Depth >= 1 /\ stack \in Seq(Frame) /\ MaxDepth \in Nat /\ Depth = Len(stack)
  BY <1>1, StackFacts DEF RunsInv, Depth
<1>4. h \in DOMAIN object /\ h \in Ctx /\ h # None
  BY <1>1, HomesFacts
<1>5. f \in Frame /\ f.ctx = None /\ f.home = h /\ f.kind = "block"
  BY <1>4 DEF BlockOf, Frame, Kinds
<1> HIDE DEF f
<1>6. t \in Seq(Frame) /\ Len(t) = Depth + 1 /\ (\A i \in 1..Depth : t[i] = stack[i]) /\ t[Depth + 1] = f
  BY <1>3, <1>5, AppendProperties
<1> HIDE DEF t
<1>7. stack' = t /\ memory' \in [1..MaxDepth -> Ctx \union {None}] /\ MemoryInv' /\ Len(t) <= MaxDepth
  <2>1. SetStack(t) /\ Len(t) <= MaxDepth
    BY <1>1, <1>2, <1>3, <1>6 DEF t, f
  <2> QED
    BY <1>1, <1>6, <2>1, MemoryStep
<1> SUFFICES ASSUME NEW k, k = Depth PROVE Inv'
  OBVIOUS
<1>8. /\ k \in Nat /\ k \in 0..Depth /\ Depth' = k + 1 /\ \A d \in (k + 1)..Depth' : d = k + 1
      /\ k + 1 \in (k + 1)..Depth' /\ k <= Depth'
  BY <1>3, <1>6, <1>7 DEF Depth
<1>9. (\A i \in 1..k : stack'[i] = stack[i]) /\ stack'[k + 1] = f
  BY <1>6, <1>7
<1>10. InFrames(stack') \union escaped' \union HandlerRoot \subseteq DOMAIN object
  <2>1. \A i \in (k + 1)..Depth' :
          stack'[i].ctx \in DOMAIN object \union {} \union {None}
            /\ stack'[i].home \in DOMAIN object \union {} \union {None}
    BY <1>4, <1>5, <1>8, <1>9
  <2>2. stack' \in Seq(Frame)
    BY <1>6, <1>7
  <2>3. InFrames(stack') \subseteq DOMAIN object \union {}
    BY <1>1, <1>8, <1>9, <2>1, <2>2, FramesRefer
  <2> QED
    BY <1>1, <2>3 DEF ObjectsInv, HandlerRoot
<1>11. ObjectsKept({})
  BY <1>1, <1>10, KeptSame
<1>12. TypeOK'
  <2>1. entries' \in Seq(1..MaxDepth) /\ state' \in {"runs", "exited", "wild"} /\ {} \subseteq Ctx
    BY <1>1 DEF TypeOK
  <2> QED
    BY <1>1, <1>6, <1>7, <1>11, <2>1, TypeStep
<1>13. WellPlaced(stack', k + 1) /\ stack'[Depth'].kind \in Plain
  BY <1>4, <1>5, <1>8, <1>9 DEF WellPlaced, Plain
<1>14. RunsInv' /\ (HandlersInstalled => HandlersInstalled')
  BY <1>1, <1>5, <1>7, <1>8, <1>9, <1>11, <1>12, <1>13, PushStep
<1> QED
  BY <1>1, <1>12, <1>14 DEF Inv

(* Two frames upon the stack.                                              *)
LEMMA TwoFrames ==
  ASSUME stack \in Seq(Frame), NEW f \in Frame, NEW g \in Frame
  PROVE  LET t == stack \o <<f, g>> IN
         /\ t \in Seq(Frame) /\ Len(t) = Depth + 2 /\ \A i \in 1..Depth : t[i] = stack[i]
         /\ t[Depth + 1] = f /\ t[Depth + 2] = g
<1> DEFINE two == <<f, g>>
<1>1. two \in Seq(Frame) /\ Len(two) = 2 /\ two[1] = f /\ two[2] = g
  OBVIOUS
<1> HIDE DEF two
<1>2. Len(stack) \in Nat /\ DOMAIN stack = 1..Len(stack)
  OBVIOUS
<1>3. /\ stack \o two \in Seq(Frame) /\ Len(stack \o two) = Len(stack) + 2
      /\ \A i \in 1..(Len(stack) + 2) :
           (stack \o two)[i] = IF i <= Len(stack) THEN stack[i] ELSE two[i - Len(stack)]
  <2>1. /\ stack \o two \in Seq(Frame) /\ Len(stack \o two) = Len(stack) + Len(two)
        /\ \A i \in 1..(Len(stack) + Len(two)) :
             (stack \o two)[i] = IF i <= Len(stack) THEN stack[i] ELSE two[i - Len(stack)]
    BY <1>1, ConcatProperties, Zenon
  <2> QED
    BY <1>1, <2>1
<1> DEFINE n == Len(stack)
<1>4. /\ \A i \in 1..n : i \in 1..(n + 2) /\ i <= n
      /\ n + 1 \in 1..(n + 2) /\ ~(n + 1 <= n) /\ (n + 1) - n = 1
      /\ n + 2 \in 1..(n + 2) /\ ~(n + 2 <= n) /\ (n + 2) - n = 2
  BY <1>2
<1> HIDE DEF n
<1>5. /\ \A i \in 1..n : (stack \o two)[i] = stack[i]
      /\ (stack \o two)[n + 1] = f /\ (stack \o two)[n + 2] = g
  BY <1>1, <1>3, <1>4 DEF n
<1> QED
  BY <1>3, <1>5 DEF n, two, Depth

LEMMA CallFromCStep ==
  ASSUME Inv, CallFromC
  PROVE  Inv'
<1>1. /\ TypeOK /\ RunsInv /\ ObjectsInv /\ state = "runs" /\ state' = state
      /\ current' = current /\ escaped' = escaped /\ entries' = Append(entries, Depth + 1)
      /\ Depth + 1 < MaxDepth
  BY DEF Inv, RunsInv, CallFromC
<1>2. PICK c \in Unused : SetStack(stack \o <<EntryFrame, Method(c)>>) /\ New(c, Context(Depth + 2))
  BY DEF CallFromC
<1> DEFINE f == EntryFrame
           g == Method(c)
           t == stack \o <<f, g>>
           o == Context(Depth + 2)
<1>3. /\ Depth \in Nat /\ Depth >= 1 /\ stack \in Seq(Frame) /\ MaxDepth \in Nat /\ Depth = Len(stack)
      /\ Depth + 1 \in 1..MaxDepth /\ Depth + 2 \in 1..MaxDepth
      /\ stack[Depth].kind \in Plain
  BY <1>1, StackFacts DEF RunsInv, Depth
<1>4. /\ g \in Frame /\ g.ctx = c /\ g.home = c /\ g.kind = "method"
      /\ c \in Ctx /\ c # None /\ c \notin DOMAIN object
      /\ f \in Frame /\ f.ctx = None /\ f.home = None /\ f.kind = "entry"
  BY UnwindingAssumption DEF Method, EntryFrame, Frame, Kinds, Unused
<1>5. o \in Object /\ o.parent = None /\ o.frame = Depth + 2 /\ o.catches = {}
  BY <1>3 DEF Context, Object
<1> HIDE DEF f, g, o
<1>6. /\ t \in Seq(Frame) /\ Len(t) = Depth + 2 /\ (\A i \in 1..Depth : t[i] = stack[i])
      /\ t[Depth + 1] = f /\ t[Depth + 2] = g
  BY <1>3, <1>4, TwoFrames
<1> HIDE DEF t
<1>7. stack' = t /\ memory' \in [1..MaxDepth -> Ctx \union {None}] /\ MemoryInv' /\ Len(t) <= MaxDepth
  <2>1. SetStack(t) /\ Len(t) <= MaxDepth
    BY <1>2, <1>3, <1>6 DEF t, f, g
  <2> QED
    BY <1>1, <1>6, <2>1, MemoryStep
<1> SUFFICES ASSUME NEW k, k = Depth PROVE Inv'
  OBVIOUS
<1>8. /\ k \in Nat /\ k \in 0..Depth /\ k \in 1..Depth /\ Depth' = k + 2
      /\ \A d \in (k + 1)..Depth' : d = k + 1 \/ d = k + 2
      /\ k <= Depth' /\ k + 1 \in 2..(Depth' - 1) /\ (k + 1) - 1 = k /\ k + 2 \in 1..Depth'
  BY <1>3, <1>6, <1>7 DEF Depth
<1>9. (\A i \in 1..k : stack'[i] = stack[i]) /\ stack'[k + 1] = f /\ stack'[k + 2] = g /\ stack'[k] = stack[k]
  BY <1>6, <1>7, <1>8
<1>10. InFrames(stack') \union escaped' \union HandlerRoot \subseteq DOMAIN object \union {c}
  <2>1. \A i \in (k + 1)..Depth' :
          stack'[i].ctx \in DOMAIN object \union {c} \union {None}
            /\ stack'[i].home \in DOMAIN object \union {c} \union {None}
    BY <1>4, <1>8, <1>9
  <2>2. stack' \in Seq(Frame)
    BY <1>6, <1>7
  <2>3. InFrames(stack') \subseteq DOMAIN object \union {c}
    BY <1>1, <1>8, <1>9, <2>1, <2>2, FramesRefer
  <2> QED
    BY <1>1, <2>3 DEF ObjectsInv, HandlerRoot
<1>11. ObjectsKept({c}) /\ (c \in DOMAIN object' => object'[c] = o)
  BY <1>1, <1>2, <1>5, <1>10, KeptNew DEF o
<1>12. c \in DOMAIN object'
  <2>1. stack' \in Seq(Frame) /\ InFrames(stack') \subseteq DOMAIN object' /\ k + 2 \in 1..Len(stack')
    BY <1>6, <1>7, <1>8, <1>11 DEF ObjectsKept, Depth
  <2>2. stack'[k + 2].ctx \in DOMAIN object' \union {None}
    BY <2>1, InFramesFacts
  <2> QED
    BY <1>4, <1>9, <2>2
<1>13. TypeOK'
  <2>1. entries' \in Seq(1..MaxDepth)
    BY <1>1, <1>3, AppendProperties DEF TypeOK
  <2>2. state' \in {"runs", "exited", "wild"} /\ {c} \subseteq Ctx
    BY <1>1, <1>4 DEF TypeOK
  <2> QED
    BY <1>1, <1>6, <1>7, <1>11, <2>1, <2>2, TypeStep
<1>14. WellPlaced(stack', k + 1) /\ WellPlaced(stack', k + 2) /\ stack'[Depth'].kind \in Plain
  <2>1. WellPlaced(stack', k + 2) /\ stack'[Depth'].kind \in Plain
    BY <1>4, <1>8, <1>9 DEF WellPlaced, Plain
  <2>2. stack'[(k + 1) - 1].kind \in Plain /\ k + 1 \in 2..(Len(stack') - 1)
    BY <1>3, <1>8, <1>9 DEF Depth
  <2>3. WellPlaced(stack', k + 1)
    BY <1>4, <1>9, <2>2 DEF WellPlaced
  <2> QED
    BY <2>1, <2>3
<1>15. RunsInv' /\ (HandlersInstalled => HandlersInstalled')
  <2>1. \A d \in (k + 1)..Depth' :
          /\ WellPlaced(stack', d)
          /\ stack'[d].ctx # None => object'[stack'[d].ctx].frame = d
          /\ stack'[d].kind = "method" => object'[stack'[d].ctx].catches = {}
          /\ stack'[d].ctx \in {c} \union {None} /\ stack'[d].kind # "body"
    BY <1>4, <1>5, <1>8, <1>9, <1>11, <1>12, <1>14
  <2>2. /\ {c} \intersect DOMAIN object = {}
        /\ \A x \in {c} \intersect DOMAIN object' : object'[x].parent \in DOMAIN object \union {None}
    BY <1>4, <1>5, <1>11
  <2> QED
    BY <1>1, <1>7, <1>8, <1>9, <1>11, <1>13, <1>14, <2>1, <2>2, PushStep
<1> QED
  BY <1>1, <1>13, <1>15 DEF Inv

(* The handler of a new on:do: frame is met first, and what was current    *)
(* before is met after it.                                                 *)
LEMMA GuardedOnDo ==
  ASSUME TypeOK, TypeOK', RunsInv, RunsInv', state = "runs", HandlersInstalled,
         NEW c, c \notin DOMAIN object, c # None, ObjectsKept({c}), current' = c,
         ChainFrom(c)' = {c} \union Chain, NEW k, k = Depth, Depth' = k + 2,
         \A i \in 1..k : stack'[i] = stack[i],
         stack'[k + 1].kind = "body", stack'[k + 1].ctx = c,
         stack'[k + 2].kind = "block", stack'[k + 2].ctx = None
  PROVE  HandlersInstalled'
<1>1. /\ k \in Nat /\ k >= 1 /\ k \in 0..Depth /\ k \in 0..k /\ k <= Depth' /\ ObjectsInv /\ FramesInv
      /\ \A i \in 1..Depth' : i \in 1..k \/ i = k + 1 \/ i = k + 2
      /\ k + 1 \in 1..Depth' /\ k + 1 \in Nat /\ k + 2 \in Nat
      /\ \A i \in 1..k : i \in 1..Depth'
      /\ \A i \in (k + 1)..Depth' : i = k + 1 \/ i = k + 2
  BY StackFacts DEF RunsInv
<1>2. \A d \in 1..k : \A x : stack'[d].kind = "body" /\ x = stack'[d].ctx => Live(ChainFrom(x))' = Guards(d)'
  <2>1. {c} \intersect DOMAIN object = {} /\ \A i \in (k + 1)..Depth' : stack'[i].ctx \in {c} \union {None}
    BY <1>1
  <2>2. \A i \in 1..k : stack'[i].ctx = stack[i].ctx /\ stack'[i].kind = stack[i].kind
    OBVIOUS
  <2> QED
    BY <1>1, <2>1, <2>2, GuardedStep
<1>3. Live(Chain) = Guards(Depth) /\ Chain \subseteq DOMAIN object
  BY ReachedFacts DEF HandlersInstalled, Chain, ChainFrom
<1>4. \A x \in Chain : Alive(x)' <=> Alive(x)
  <2> TAKE x \in Chain
  <2>1. x # c /\ x # None
    BY <1>3, NoneNowhere
  <2>2. Alive(x)' <=> \E i \in 1..Depth' : stack'[i].ctx = x
    BY DEF Alive
  <2>3. Alive(x) <=> \E i \in 1..k : stack[i].ctx = x
    BY DEF Alive
  <2> QED
    BY <1>1, <2>1, <2>2, <2>3
<1>5. Alive(c)'
  BY <1>1 DEF Alive
<1>6. Live(ChainFrom(c))' = {c} \union Guards(k)
  <2>1. Live(ChainFrom(c))' = { x \in ChainFrom(c)' : Alive(x)' }
    BY DEF Live
  <2>2. Guards(k) = { x \in Chain : Alive(x) }
    BY <1>3 DEF Live
  <2> QED
    BY <1>4, <1>5, <2>1, <2>2
<1>7. Guards(k + 1)' = {c} \union Guards(k) /\ AllGuards' = {c} \union Guards(k)
  <2>1. Guards(k) = { stack[i].ctx : i \in { j \in 1..k : stack[j].kind = "body" } }
    BY DEF Guards
  <2>2. /\ \A i \in 1..k : i \in 1..(k + 1)
        /\ \A i \in 1..(k + 1) : i \in 1..k \/ i = k + 1
        /\ k + 1 \in 1..(k + 1)
    BY <1>1
  <2>3. Guards(k + 1)' = { stack'[i].ctx : i \in { j \in 1..(k + 1) : stack'[j].kind = "body" } }
    BY DEF Guards
  <2>4. AllGuards' = { stack'[i].ctx : i \in { j \in 1..Depth' : stack'[j].kind = "body" } }
    BY DEF AllGuards, Guards
  <2>5. Guards(k + 1)' = {c} \union Guards(k)
    BY <2>1, <2>2, <2>3
  <2>6. AllGuards' = {c} \union Guards(k)
    BY <1>1, <2>1, <2>4
  <2> QED
    BY <2>5, <2>6
<1>8. LiveChain' = AllGuards'
  <2>1. LiveChain' = Live(ChainFrom(c))'
    BY DEF LiveChain, Live, Chain, ChainFrom
  <2> QED
    BY <1>6, <1>7, <2>1
<1>9. ASSUME NEW d \in 1..Depth', NEW x, stack'[d].kind = "body", x = stack'[d].ctx
      PROVE  Live(ChainFrom(x))' = Guards(d)'
  <2>1. CASE d \in 1..k
    BY <1>2, <1>9, <2>1
  <2>2. CASE d = k + 1
    BY <1>6, <1>7, <1>9, <2>2
  <2> QED
    BY <1>1, <1>9, <2>1, <2>2
<1> QED
  BY <1>8, <1>9, InstalledNext

LEMMA OnDoStep ==
  ASSUME Inv, OnDo
  PROVE  Inv'
<1>1. /\ TypeOK /\ RunsInv /\ ObjectsInv /\ state = "runs" /\ state' = state
      /\ escaped' = escaped /\ entries' = entries /\ Depth + 1 < MaxDepth
  BY DEF Inv, RunsInv, OnDo
<1>2. PICK c \in Unused, b \in Homes, e \in Caught :
        /\ SetStack(stack \o <<OnDoFrame(c, TopFrame.home), BlockOf(b)>>)
        /\ current' = c /\ New(c, Handler(Depth + 1, current, e))
  BY DEF OnDo
<1> DEFINE f == OnDoFrame(c, TopFrame.home)
           g == BlockOf(b)
           t == stack \o <<f, g>>
           o == Handler(Depth + 1, current, e)
<1>3. /\ Depth \in Nat /\ Depth >= 1 /\ stack \in Seq(Frame) /\ MaxDepth \in Nat /\ Depth = Len(stack)
      /\ Depth + 1 \in 1..MaxDepth /\ stack[Depth].kind \in Plain
      /\ TopFrame.home \in Ctx /\ TopFrame = stack[Depth] /\ Depth \in 1..Depth
  BY <1>1, StackFacts DEF RunsInv, Depth
<1>4. b \in DOMAIN object /\ b \in Ctx /\ b # None
  BY <1>1, HomesFacts
<1>5. TopFrame.home \in DOMAIN object /\ TopFrame.home # None
  <2>1. stack \in Seq(Frame) /\ InFrames(stack) \subseteq DOMAIN object
    BY <1>1, <1>3 DEF ObjectsInv
  <2>2. stack[Depth].home \in DOMAIN object \union {None}
    BY <1>3, <2>1, InFramesFacts
  <2> QED
    BY <1>3, <2>2, UnwindingAssumption
<1>6. /\ f \in Frame /\ f.ctx = c /\ f.home = TopFrame.home /\ f.kind = "body"
      /\ c \in Ctx /\ c # None /\ c \notin DOMAIN object
      /\ g \in Frame /\ g.ctx = None /\ g.home = b /\ g.kind = "block"
  BY <1>3, <1>4, UnwindingAssumption DEF BlockOf, OnDoFrame, Frame, Kinds, Unused
<1>7. o \in Object /\ o.parent = current /\ o.frame = Depth + 1 /\ current \in DOMAIN object \union {None}
  BY <1>1, <1>3, UnwindingAssumption DEF Handler, Object, TypeOK
<1> HIDE DEF f, g, o
<1>8. /\ t \in Seq(Frame) /\ Len(t) = Depth + 2 /\ (\A i \in 1..Depth : t[i] = stack[i])
      /\ t[Depth + 1] = f /\ t[Depth + 2] = g
  BY <1>3, <1>6, TwoFrames
<1> HIDE DEF t
<1>9. stack' = t /\ memory' \in [1..MaxDepth -> Ctx \union {None}] /\ MemoryInv' /\ Len(t) <= MaxDepth
  <2>1. SetStack(t) /\ Len(t) <= MaxDepth
    BY <1>1, <1>2, <1>3, <1>8 DEF t, f, g
  <2> QED
    BY <1>1, <1>8, <2>1, MemoryStep
<1> SUFFICES ASSUME NEW k, k = Depth PROVE Inv'
  OBVIOUS
<1>10. /\ k \in Nat /\ k \in 0..Depth /\ k \in 1..Depth /\ Depth' = k + 2
       /\ \A d \in (k + 1)..Depth' : d = k + 1 \/ d = k + 2
       /\ k <= Depth' /\ k + 1 \in 2..(Depth' - 1) /\ (k + 1) - 1 = k /\ k + 2 \in 1..Depth'
       /\ (k + 1) + 1 = k + 2 /\ k + 1 \in 1..Depth'
  BY <1>3, <1>8, <1>9 DEF Depth
<1>11. (\A i \in 1..k : stack'[i] = stack[i]) /\ stack'[k + 1] = f /\ stack'[k + 2] = g /\ stack'[k] = stack[k]
  BY <1>8, <1>9, <1>10
<1>12. InFrames(stack') \union escaped' \union HandlerRoot \subseteq DOMAIN object \union {c}
  <2>1. \A i \in (k + 1)..Depth' :
          stack'[i].ctx \in DOMAIN object \union {c} \union {None}
            /\ stack'[i].home \in DOMAIN object \union {c} \union {None}
    BY <1>4, <1>5, <1>6, <1>10, <1>11
  <2>2. stack' \in Seq(Frame)
    BY <1>8, <1>9
  <2>3. InFrames(stack') \subseteq DOMAIN object \union {c}
    BY <1>1, <1>10, <1>11, <2>1, <2>2, FramesRefer
  <2> QED
    BY <1>1, <1>2, <2>3 DEF ObjectsInv, HandlerRoot
<1>13. ObjectsKept({c}) /\ (c \in DOMAIN object' => object'[c] = o /\ ChainFrom(c)' = {c} \union ChainFrom(o.parent))
  BY <1>1, <1>2, <1>7, <1>12, KeptNew DEF o
<1>14. c \in DOMAIN object' /\ object'[c] = o /\ ChainFrom(c)' = {c} \union Chain
  <2>1. HandlerRoot = {c}
    BY <1>2, <1>6 DEF HandlerRoot
  <2>2. c \in DOMAIN object'
    BY <1>13, <2>1 DEF ObjectsKept
  <2> QED
    BY <1>7, <1>13, <2>2 DEF Chain
<1>15. TypeOK'
  <2>1. entries' \in Seq(1..MaxDepth) /\ state' \in {"runs", "exited", "wild"} /\ {c} \subseteq Ctx
    BY <1>1, <1>6 DEF TypeOK
  <2> QED
    BY <1>1, <1>8, <1>9, <1>13, <2>1, TypeStep
<1>16. WellPlaced(stack', k + 1) /\ WellPlaced(stack', k + 2) /\ stack'[Depth'].kind \in Plain
  <2>1. WellPlaced(stack', k + 2) /\ stack'[Depth'].kind \in Plain
    BY <1>4, <1>6, <1>10, <1>11 DEF WellPlaced, Plain
  <2>2. stack'[(k + 1) - 1].kind \in Plain /\ k + 1 \in 2..(Len(stack') - 1)
        /\ stack'[(k + 1) + 1].kind = "block"
    BY <1>3, <1>6, <1>10, <1>11 DEF Depth
  <2>3. WellPlaced(stack', k + 1)
    BY <1>5, <1>6, <1>11, <2>2 DEF WellPlaced
  <2> QED
    BY <2>1, <2>3
<1>17. RunsInv'
  <2>1. \A d \in (k + 1)..Depth' :
          /\ WellPlaced(stack', d)
          /\ stack'[d].ctx # None => object'[stack'[d].ctx].frame = d
          /\ stack'[d].kind # "method"
    BY <1>6, <1>7, <1>10, <1>11, <1>14, <1>16
  <2>2. /\ {c} \intersect DOMAIN object = {}
        /\ \A x \in {c} \intersect DOMAIN object' : object'[x].parent \in DOMAIN object \union {None}
    BY <1>6, <1>7, <1>14
  <2>3. stack[k].kind \in Plain
    BY <1>3
  <2> QED
    BY <1>1, <1>9, <1>10, <1>11, <1>13, <1>15, <1>16, <2>1, <2>2, <2>3, StackStep
<1>18. HandlersInstalled => HandlersInstalled'
  BY <1>1, <1>2, <1>6, <1>10, <1>11, <1>13, <1>14, <1>15, <1>17, GuardedOnDo
<1> QED
  BY <1>1, <1>15, <1>17, <1>18 DEF Inv

-----------------------------------------------------------------------------
(* Returns.                                                                *)

(* What is met from the parent of the handler of an on:do: frame on.       *)
LEMMA OuterLive ==
  ASSUME TypeOK, RunsInv, state = "runs", HandlersInstalled,
         NEW d \in 1..Depth, stack[d].kind = "body", NEW c, c = stack[d].ctx
  PROVE  c \in DOMAIN object /\ object[c].frame = d /\ Live(ChainFrom(object[c].parent)) = Guards(d - 1)
<1>1. /\ ObjectsInv /\ FramesInv /\ Depth \in Nat /\ d \in Nat /\ d - 1 \in 0..Depth /\ d \in 0..Depth
      /\ (\A i \in 1..(d - 1) : i \in 1..d /\ i # d) /\ d \in 1..d /\ \A i \in 1..d : i \in 1..(d - 1) \/ i = d
  BY StackFacts DEF RunsInv
<1>2. c \in Guards(d)
  BY <1>1 DEF Guards
<1>3. c \in DOMAIN object /\ c # None /\ object[c].frame = d
  BY <1>1, <1>2, GuardsFacts, NoneNowhere DEF ObjectsInv
<1>4. ChainFrom(c) = {c} \union ChainFrom(object[c].parent) /\ c \notin ChainFrom(object[c].parent)
  BY <1>3, ReachedFrom DEF RunsInv, ChainsInv, ChainFrom
<1>5. Live(ChainFrom(c)) = Guards(d)
  BY DEF HandlersInstalled
<1>6. Live(ChainFrom(object[c].parent)) = Guards(d) \ {c}
  BY <1>4, <1>5 DEF Live
<1>7. Guards(d) \ {c} = Guards(d - 1)
  <2>1. \A x \in DOMAIN object : x \in Guards(d) /\ x # c <=> x \in Guards(d - 1)
    <3> TAKE x \in DOMAIN object
    <3>1. x \in Guards(d) <=> /\ object[x].frame \in 1..d /\ stack[object[x].frame].ctx = x
                              /\ stack[object[x].frame].kind = "body"
      BY <1>1, GuardsFacts
    <3>2. x \in Guards(d - 1) <=> /\ object[x].frame \in 1..(d - 1) /\ stack[object[x].frame].ctx = x
                                  /\ stack[object[x].frame].kind = "body"
      BY <1>1, GuardsFacts
    <3> QED
      BY <1>1, <1>3, <3>1, <3>2
  <2>2. Guards(d) \subseteq DOMAIN object /\ Guards(d - 1) \subseteq DOMAIN object
    BY <1>1, GuardsFacts
  <2> QED
    BY <2>1, <2>2
<1> QED
  BY <1>3, <1>6, <1>7

(* The handler of the on:do: frame at d is taken off the chain, and its    *)
(* frame goes or is kept as one whose receiver is not running any more.    *)
LEMMA Uninstalled ==
  ASSUME TypeOK, TypeOK', RunsInv, RunsInv', state = "runs", HandlersInstalled, ObjectsKept({}),
         NEW d \in 1..Depth, stack[d].kind = "body", current' = object[stack[d].ctx].parent,
         NEW k \in {d - 1, d}, k <= Depth',
         \A i \in 1..k : stack'[i].ctx = stack[i].ctx,
         \A i \in (k + 1)..Depth' : stack'[i].ctx = None,
         \A i \in 1..(d - 1) : stack'[i].kind = stack[i].kind,
         \A i \in d..Depth' : stack'[i].kind # "body"
  PROVE  HandlersInstalled'
<1> SUFFICES ASSUME NEW c, c = stack[d].ctx, NEW p, p = object[c].parent, NEW m, m = d - 1
             PROVE  HandlersInstalled'
  OBVIOUS
<1>1. /\ ObjectsInv /\ FramesInv /\ Depth \in Nat /\ Depth' \in Nat /\ k \in Nat /\ m \in Nat
      /\ k \in 0..Depth /\ m \in 0..Depth /\ m \in 0..k /\ m <= k /\ m + 1 = d
      /\ \A i \in 1..Depth' : i \in 1..m \/ i \in d..Depth'
  BY StackFacts DEF RunsInv, TypeOK, Depth
<1>2. c \in DOMAIN object /\ Live(ChainFrom(p)) = Guards(m)
  BY OuterLive
<1>3. /\ \A i \in 1..m : \A x : stack'[i].kind = "body" /\ x = stack'[i].ctx => Live(ChainFrom(x))' = Guards(i)'
      /\ AllGuards' = Guards(m)
      /\ \A x \in DOMAIN object \intersect DOMAIN object' :
           Live(ChainFrom(x))' = Below(Live(ChainFrom(x)), k)
  <2>1. \A i \in (k + 1)..Depth' : stack'[i].ctx \in {} \union {None}
    OBVIOUS
  <2>2. {} \intersect DOMAIN object = {}
    OBVIOUS
  <2> QED
    BY <1>1, <2>1, <2>2, GuardedStep
<1>4. LiveChain' = Guards(m)
  <2>1. Below(Guards(m), k) = Guards(m)
    BY <1>1, GuardsBelow
  <2>2. CASE p = None
    <3>1. Chain' = {} /\ ChainFrom(p) = {}
      BY <2>2, NoneNowhere, NoneNowhereNext DEF Chain, ChainFrom
    <3> QED
      BY <1>2, <3>1 DEF LiveChain, Live
  <2>3. CASE p # None
    <3>1. p \in DOMAIN object \union {None}
      BY <1>1, <1>2 DEF ObjectsInv
    <3>2. p \in DOMAIN object \intersect DOMAIN object'
      BY <2>3, <3>1 DEF TypeOK
    <3>3. LiveChain' = Live(ChainFrom(p))'
      BY DEF LiveChain, Live, Chain, ChainFrom
    <3> QED
      BY <1>2, <1>3, <2>1, <3>2, <3>3
  <2> QED
    BY <2>2, <2>3
<1>5. \A i \in 1..Depth' : \A x : stack'[i].kind = "body" /\ x = stack'[i].ctx
        => Live(ChainFrom(x))' = Guards(i)'
  BY <1>1, <1>3
<1> QED
  BY <1>3, <1>4, <1>5, InstalledNext

LEMMA ReturnToStep ==
  ASSUME Inv, state = "runs", NEW d \in 0..(Depth - 1), ReturnTo(d),
         escaped' \subseteq DOMAIN object, SetObjects(object)
  PROVE  Inv'
<1> SUFFICES ASSUME NEW k, k = Continues(d) PROVE Inv'
  OBVIOUS
<1>1. TypeOK /\ RunsInv /\ ObjectsInv /\ FramesInv
  BY DEF Inv, RunsInv
<1>2. /\ Depth \in Nat /\ Depth >= 1 /\ Depth <= MaxDepth /\ MaxDepth \in Nat /\ stack \in Seq(Frame)
      /\ d \in Nat /\ (d # 0 => d \in 1..Depth)
  BY <1>1, StackFacts
<1>3. /\ SetStack(Cut(k)) /\ current' = HandlerAfter(d) /\ entries' = EntriesAfter(d)
      /\ state' = IF k = 0 THEN "exited" ELSE "runs"
  BY DEF ReturnTo
<1>4. d = 0 => k = 0 /\ KindAt(d) = "none"
  BY DEF Continues, KindAt
<1>5. ASSUME d # 0
      PROVE  /\ KindAt(d) = stack[d].kind /\ k \in 1..Depth /\ k # Depth /\ stack[k].kind \in Plain
             /\ \/ (k = d /\ stack[d].kind \in Plain)
                \/ (k = d - 1 /\ stack[d].kind \in {"body", "handling", "entry"})
  <2>1. stack[d] \in Frame /\ WellPlaced(stack, d) /\ KindAt(d) = stack[d].kind
    BY <1>1, <1>2, <1>5, StackFacts DEF KindAt
  <2>2. stack[d].kind \in Kinds
    BY <2>1, FrameType
  <2>3. CASE stack[d].kind \in {"body", "handling", "entry"}
    <3>1. stack[d].kind \notin Plain
      BY <2>3 DEF Plain
    <3>2. d \in 2..(Len(stack) - 1) /\ stack[d - 1].kind \in Plain
      BY <2>1, <3>1 DEF WellPlaced
    <3>3. k = d - 1
      BY <2>1, <2>3 DEF Continues
    <3>4. d - 1 \in 1..Depth /\ d - 1 # Depth
      BY <1>2, <3>2
    <3> QED
      BY <2>1, <2>3, <3>2, <3>3, <3>4
  <2>4. CASE stack[d].kind \notin {"body", "handling", "entry"}
    <3>1. stack[d].kind \in Plain /\ k = d
      BY <2>1, <2>2, <2>4 DEF Plain, Kinds, Continues
    <3> QED
      BY <1>2, <1>5, <2>1, <3>1
  <2> QED
    BY <2>3, <2>4
<1>6. k \in 0..Depth /\ k \in Nat /\ k <= MaxDepth
  BY <1>2, <1>4, <1>5
<1>7. Cut(k) \in Seq(Frame) /\ Len(Cut(k)) = k /\ \A i \in 1..k : Cut(k)[i] = stack[i]
  BY <1>2, <1>6, CutFacts
<1>8. stack' = Cut(k) /\ memory' \in [1..MaxDepth -> Ctx \union {None}] /\ MemoryInv'
  BY <1>1, <1>3, <1>6, <1>7, MemoryStep
<1>9. /\ stack' \in Seq(Frame) /\ Depth' = k /\ (\A i \in 1..k : stack'[i] = stack[i])
      /\ k <= Depth' /\ \A i \in (k + 1)..Depth' : FALSE
  <2>1. stack' \in Seq(Frame) /\ Depth' = k /\ \A i \in 1..k : stack'[i] = stack[i]
    BY <1>7, <1>8 DEF Depth
  <2> QED
    BY <1>6, <2>1
<1>10. d # 0 /\ stack[d].kind = "body" => stack[d].ctx \in DOMAIN object
  <2>1. InFrames(stack) \subseteq DOMAIN object
    BY <1>1 DEF ObjectsInv
  <2>2. d # 0 => stack[d].ctx \in DOMAIN object \union {None} /\ WellPlaced(stack, d)
    BY <1>1, <1>2, <2>1, InFramesFacts, StackFacts DEF Depth
  <2> QED
    BY <2>2 DEF WellPlaced
<1>11. current' \in DOMAIN object \union {None}
  BY <1>1, <1>3, <1>4, <1>5, <1>10 DEF HandlerAfter, ObjectsInv, TypeOK
<1>12. ObjectsKept({})
  <2>1. InFrames(stack') \subseteq DOMAIN object \union {}
    BY <1>1, <1>6, <1>9, FramesRefer
  <2> QED
    BY <1>1, <1>11, <2>1, KeptSame DEF HandlerRoot
<1>13. TypeOK'
  <2>1. entries' \in Seq(1..MaxDepth)
    <3>1. entries \in Seq(1..MaxDepth)
      BY <1>1 DEF TypeOK
    <3>2. Len(entries) \in Nat /\ \A i \in 1..Len(entries) : entries[i] \in 1..MaxDepth
      BY <3>1, ElementOfSeq, LenProperties
    <3>3. Len(entries) - 1 \in Int /\ 1 \in Int /\ \A i \in 1..(Len(entries) - 1) : i \in 1..Len(entries)
      BY <3>2
    <3>4. SubSeq(entries, 1, Len(entries) - 1) \in Seq(1..MaxDepth)
      BY <3>2, <3>3, SubSeqProperties
    <3> QED
      BY <1>3, <3>1, <3>4 DEF EntriesAfter
  <2>2. state' \in {"runs", "exited", "wild"} /\ {} \subseteq Ctx /\ Len(stack') <= MaxDepth
    BY <1>3, <1>6, <1>9 DEF Depth
  <2> QED
    BY <1>1, <1>8, <1>9, <1>12, <2>1, <2>2, TypeStep
<1>14. CASE d = 0
  BY <1>3, <1>4, <1>13, <1>14 DEF Inv, HandlersInstalled
<1>15. CASE d # 0
  <2>1. /\ KindAt(d) = stack[d].kind /\ k \in 1..Depth /\ stack[k].kind \in Plain /\ state' = "runs"
        /\ \/ (k = d /\ stack[d].kind \in Plain)
           \/ (k = d - 1 /\ stack[d].kind \in {"body", "handling", "entry"})
    BY <1>3, <1>5, <1>15
  <2>2. RunsInv'
    <3>1. stack'[Depth'].kind \in Plain /\ {} \intersect DOMAIN object = {}
      BY <1>9, <2>1
    <3> QED
      BY <1>1, <1>8, <1>9, <1>12, <1>13, <2>1, <3>1, StackStep
  <2>3. ASSUME HandlersInstalled PROVE HandlersInstalled'
    <3>1. {} \intersect DOMAIN object = {}
      OBVIOUS
    <3>2. CASE stack[d].kind = "body"
      <4>1. k = d - 1 /\ current' = object[stack[d].ctx].parent /\ d \in 1..Depth
        BY <1>2, <1>3, <1>15, <2>1, <3>2 DEF HandlerAfter, Plain
      <4>2. /\ (\A i \in 1..k : stack'[i].ctx = stack[i].ctx /\ stack'[i].kind = stack[i].kind)
            /\ \A i \in d..Depth' : FALSE
        BY <1>2, <1>9, <4>1
      <4>3. k \in {d - 1, d}
        BY <4>1
      <4> QED
        BY <1>1, <1>9, <1>12, <1>13, <2>2, <2>3, <3>2, <4>1, <4>2, <4>3, Uninstalled
    <3>3. CASE stack[d].kind # "body"
      <4>1. current' = current
        BY <1>3, <2>1, <3>3 DEF HandlerAfter
      <4> QED
        BY <1>1, <1>6, <1>9, <1>12, <1>13, <2>2, <2>3, <3>1, <4>1, HandlersKept
    <3> QED
      BY <3>2, <3>3
  <2> QED
    BY <1>13, <2>1, <2>2, <2>3 DEF Inv
<1> QED
  BY <1>14, <1>15

LEMMA ReturnStep ==
  ASSUME Inv, Return
  PROVE  Inv'
<1>1. TypeOK /\ ObjectsInv /\ FramesInv /\ state = "runs" /\ ReturnTo(Depth - 1) /\ SetObjects(object)
      /\ escaped' \in {escaped, {TopFrame.home}}
  BY DEF Inv, RunsInv, Return
<1>2. /\ Depth \in Nat /\ Depth >= 1 /\ TopFrame.kind \in Plain /\ TopFrame.home \in Ctx
      /\ TopFrame = stack[Depth] /\ Depth \in 1..Depth /\ stack \in Seq(Frame)
  BY <1>1, StackFacts
<1>3. TopFrame.home \in Homes
  BY <1>2, UnwindingAssumption DEF Homes
<1>4. escaped' \subseteq DOMAIN object
  BY <1>1, <1>3, HomesFacts
<1> SUFFICES ASSUME NEW d, d = Depth - 1 PROVE Inv'
  OBVIOUS
<1>5. d \in 0..(Depth - 1)
  BY <1>2
<1> QED
  BY <1>1, <1>4, <1>5, ReturnToStep

-----------------------------------------------------------------------------
(* Exceptions and ^.                                                       *)

(* The words that the machine reads name what is alive, and may name what  *)
(* is not.                                                                 *)
LEMMA WordFacts ==
  ASSUME TypeOK, RunsInv, NEW c \in DOMAIN object
  PROVE  /\ c # None /\ object[c].frame \in 1..MaxDepth
         /\ Alive(c) => /\ ValidFrame(memory, c) /\ ValidFrame(MemoryInSignal, c)
                        /\ object[c].frame \in 1..Depth /\ stack[object[c].frame].ctx = c
<1> SUFFICES ASSUME NEW f, f = object[c].frame
             PROVE  /\ c # None /\ f \in 1..MaxDepth
                    /\ Alive(c) => memory[f] = c /\ MemoryInSignal[f] = c /\ f \in 1..Depth /\ stack[f].ctx = c
  BY DEF ValidFrame
<1>1. /\ c # None /\ f \in 1..MaxDepth /\ Depth \in Nat /\ MaxDepth \in Nat /\ ObjectsInv
      /\ Depth <= MaxDepth
  BY NoneNowhere, StackFacts DEF RunsInv, Object
<1>2. Alive(c) <=> f \in 1..Depth /\ stack[f].ctx = c
  BY <1>1, AliveFacts
<1>3. \A d \in 1..Depth : memory[d] = stack[d].ctx /\ MemoryInSignal[d] = memory[d]
  BY SignalMemory DEF RunsInv, MemoryInv
<1> QED
  BY <1>1, <1>2, <1>3

(* The frame of a handler that takes an exception.                         *)
LEMMA TakerFrame ==
  ASSUME TypeOK, RunsInv, NEW c \in DOMAIN object, Alive(c), object[c].catches # {},
         NEW d, d = object[c].frame
  PROVE  /\ d \in 2..(Depth - 1) /\ stack[d].ctx = c /\ stack[d].kind \in {"body", "handling"}
         /\ stack[d].home \in Ctx /\ stack[d].home \in DOMAIN object /\ stack[d - 1].kind \in Plain
         /\ stack[d] \in Frame
<1>1. ObjectsInv /\ FramesInv /\ d \in 1..Depth /\ stack[d].ctx = c /\ c # None
  BY WordFacts DEF RunsInv
<1>2. stack[d] \in Frame /\ WellPlaced(stack, d)
  BY <1>1, StackFacts
<1>3. stack[d].kind # "method"
  BY <1>1 DEF ObjectsInv
<1>4. stack[d].kind \in {"body", "handling"}
  BY <1>1, <1>2, <1>3, FrameType DEF WellPlaced, Kinds
<1>5. stack[d].home # None /\ d \in 2..(Depth - 1) /\ stack[d - 1].kind \in Plain
  BY <1>2, <1>4 DEF WellPlaced, Plain, Depth
<1>6. stack[d].home \in Ctx
  BY <1>2, <1>5, FrameType
<1>7. stack[d].home \in DOMAIN object
  <2>1. stack \in Seq(Frame) /\ InFrames(stack) \subseteq DOMAIN object /\ d \in 1..Len(stack)
    BY <1>1 DEF TypeOK, ObjectsInv, Depth
  <2> QED
    BY <1>5, <2>1, InFramesFacts
<1> QED
  BY <1>1, <1>2, <1>4, <1>5, <1>6, <1>7

(* The stack when the frame of a handler has taken over.                   *)
LEMMA HandlerBlockFacts ==
  ASSUME TypeOK, RunsInv, NEW c \in DOMAIN object, Alive(c), object[c].catches # {},
         NEW d, d = object[c].frame, NEW t, t = HandlerBlock(c)
  PROVE  /\ t \in Seq(Frame) /\ Len(t) = d + 1 /\ \A i \in 1..(d - 1) : t[i] = stack[i]
         /\ t[d].kind = "handling" /\ t[d].ctx = c /\ t[d].home = stack[d].home
         /\ t[d + 1].kind = "block" /\ t[d + 1].ctx = None /\ t[d + 1].home = stack[d].home
<1>1. /\ d \in 2..(Depth - 1) /\ stack[d].ctx = c /\ stack[d].home \in Ctx /\ stack[d] \in Frame
      /\ stack \in Seq(Frame) /\ Depth \in Nat
  BY TakerFrame, StackFacts DEF RunsInv
<1>2. d \in 0..Depth /\ d \in Nat /\ d \in 1..d /\ d - 1 \in Nat /\ \A i \in 1..(d - 1) : i \in 1..d /\ i # d
  BY <1>1
<1> DEFINE cut == Cut(d)
           g == BlockOf(stack[d].home)
           u == [cut EXCEPT ![d].kind = "handling"]
<1>3. cut \in Seq(Frame) /\ Len(cut) = d /\ \A i \in 1..d : cut[i] = stack[i]
  BY <1>1, <1>2, CutFacts
<1>4. g \in Frame /\ g.kind = "block" /\ g.ctx = None /\ g.home = stack[d].home
  BY <1>1 DEF BlockOf, Frame, Kinds
<1>5. t = Append(u, g)
  BY DEF HandlerBlock
<1> HIDE DEF cut, g
<1>6. PICK f : f = [cut[d] EXCEPT !.kind = "handling"]
  OBVIOUS
<1>7. f \in Frame /\ f.kind = "handling" /\ f.ctx = c /\ f.home = stack[d].home
  <2>1. cut[d] = stack[d]
    BY <1>2, <1>3
  <2> QED
    BY <1>1, <1>6, <2>1 DEF Frame, Kinds
<1>8. u = [cut EXCEPT ![d] = f]
  BY <1>6
<1> HIDE DEF u
<1>9. u \in Seq(Frame) /\ Len(u) = d /\ u[d] = f /\ \A i \in 1..(d - 1) : u[i] = stack[i]
  <2>1. u \in Seq(Frame) /\ Len(u) = d /\ \A j \in 1..d : u[j] = IF j = d THEN f ELSE cut[j]
    BY <1>2, <1>3, <1>7, <1>8, ExceptSeq
  <2> QED
    BY <1>2, <1>3, <2>1
<1>10. /\ t \in Seq(Frame) /\ Len(t) = d + 1 /\ t[d + 1] = g
       /\ \A i \in 1..d : t[i] = u[i]
  BY <1>4, <1>5, <1>9, AppendProperties
<1> QED
  BY <1>2, <1>4, <1>7, <1>9, <1>10

(* Nothing takes the exception.                                            *)
LEMMA DefaultStep ==
  ASSUME Inv, state = "runs", current' = None, state' = IF DefaultReturns THEN "runs" ELSE "exited",
         stack' = stack, memory' = MemoryInSignal, escaped' = escaped, entries' = entries, SetObjects(object)
  PROVE  Inv'
<1> SUFFICES ASSUME NEW k, k = Depth PROVE Inv'
  OBVIOUS
<1>1. TypeOK /\ RunsInv /\ ObjectsInv /\ FramesInv
  BY DEF Inv, RunsInv
<1>2. /\ k \in 1..Depth /\ k \in 0..Depth /\ Depth' = k /\ k <= Depth' /\ stack[k].kind \in Plain
      /\ stack'[Depth'].kind \in Plain
      /\ (\A i \in (k + 1)..Depth : FALSE) /\ \A i \in (k + 1)..Depth' : FALSE
  <2>1. k \in Nat /\ k >= 1 /\ stack[k].kind \in Plain
    BY <1>1, StackFacts
  <2>2. Depth' = k
    BY DEF Depth
  <2> QED
    BY <2>1, <2>2
<1>3. InFrames(stack') \union escaped' \union HandlerRoot \subseteq DOMAIN object
  BY <1>1 DEF ObjectsInv, HandlerRoot
<1>4. ObjectsKept({})
  BY <1>1, <1>3, KeptSame
<1>5. TypeOK' /\ MemoryInv'
  <2>1. TypeOK'
    <3>1. /\ stack' \in Seq(Frame) /\ Len(stack') <= MaxDepth
          /\ memory' \in [1..MaxDepth -> Ctx \union {None}] /\ entries' \in Seq(1..MaxDepth)
          /\ state' \in {"runs", "exited", "wild"} /\ {} \subseteq Ctx
      BY <1>1, SignalMemory DEF TypeOK, Depth
    <3> QED
      BY <1>1, <1>4, <3>1, TypeStep
  <2>2. MemoryInv'
    BY <1>1, <1>2, SignalMemory DEF RunsInv, MemoryInv
  <2> QED
    BY <2>1, <2>2
<1>6. RunsInv'
  <2>1. {} \intersect DOMAIN object = {}
    OBVIOUS
  <2> QED
    BY <1>1, <1>2, <1>4, <1>5, <2>1, StackStep
<1>7. ~DefaultReturns => HandlersInstalled'
  BY DEF HandlersInstalled
<1> QED
  BY <1>5, <1>6, <1>7 DEF Inv

(* The frame of handler c takes over.                                      *)
LEMMA TakeOverStep ==
  ASSUME Inv, state = "runs", NEW c \in Chain, Alive(c), object[c].catches # {},
         current' = Outer(c), stack' = HandlerBlock(c), memory' = Written(MemoryInSignal, stack'),
         state' = state, escaped' = escaped, entries' = entries, SetObjects(object)
  PROVE  Inv'
<1> SUFFICES ASSUME NEW d, d = object[c].frame, NEW t, t = HandlerBlock(c), NEW k, k = d - 1 PROVE Inv'
  OBVIOUS
<1>1. TypeOK /\ RunsInv /\ ObjectsInv /\ FramesInv /\ c \in DOMAIN object
  BY ReachedFacts DEF Inv, RunsInv, Chain, ChainFrom
<1>2. /\ d \in 2..(Depth - 1) /\ stack[d].ctx = c /\ stack[d].kind \in {"body", "handling"}
      /\ stack[d].home \in Ctx /\ stack[d].home \in DOMAIN object /\ stack[k].kind \in Plain
      /\ c # None /\ stack[d].home # None
  BY <1>1, TakerFrame, NoneNowhere
<1>3. Depth \in Nat /\ Depth <= MaxDepth /\ MaxDepth \in Nat /\ stack \in Seq(Frame)
  BY <1>1, StackFacts
<1>4. /\ t \in Seq(Frame) /\ Len(t) = d + 1 /\ \A i \in 1..k : t[i] = stack[i]
      /\ t[d].kind = "handling" /\ t[d].ctx = c /\ t[d].home = stack[d].home
      /\ t[d + 1].kind = "block" /\ t[d + 1].ctx = None /\ t[d + 1].home = stack[d].home
  BY <1>1, HandlerBlockFacts
<1>5. stack' = t /\ memory' \in [1..MaxDepth -> Ctx \union {None}] /\ MemoryInv'
  <2>1. Len(t) <= MaxDepth
    BY <1>2, <1>3, <1>4
  <2>2. stack' = t /\ memory' = Written(MemoryInSignal, t)
    OBVIOUS
  <2>3. MemoryInSignal \in [1..MaxDepth -> Ctx \union {None}]
    BY <1>1, SignalMemory
  <2> QED
    BY <1>4, <2>1, <2>2, <2>3, MemoryFrom
<1>6. /\ d \in Nat /\ k \in Nat /\ Depth' = d + 1 /\ d \in 1..Depth /\ k \in 1..Depth /\ k \in 0..Depth
      /\ d \in 0..Depth /\ k <= Depth' /\ d <= Depth' /\ k + 1 = d /\ d - 1 = k
      /\ \A i \in d..Depth' : i = d \/ i = d + 1
      /\ \A i \in 1..d : i \in 1..k \/ i = d
      /\ \A i \in (d + 1)..Depth' : i = d + 1
      /\ d \in 2..(Depth' - 1) /\ k \in 1..k
  <2>1. Depth' = d + 1
    BY <1>4, <1>5 DEF Depth
  <2>2. d \in 2..(Depth - 1) /\ Depth \in Nat
    BY <1>2, <1>3
  <2>3. /\ d \in Nat /\ k \in Nat /\ d \in 1..Depth /\ k \in 1..Depth /\ k \in 0..Depth
        /\ d \in 0..Depth /\ k + 1 = d /\ d - 1 = k
        /\ k \in 1..k /\ \A i \in 1..d : i \in 1..k \/ i = d
    BY <2>2
  <2>4. /\ k <= d + 1 /\ d <= d + 1 /\ d \in 2..((d + 1) - 1)
        /\ (\A i \in d..(d + 1) : i = d \/ i = d + 1) /\ \A i \in (d + 1)..(d + 1) : i = d + 1
    BY <2>2, <2>3
  <2> QED
    BY <2>1, <2>3, <2>4
<1>7. /\ stack' \in Seq(Frame) /\ (\A i \in 1..k : stack'[i] = stack[i])
      /\ stack'[d].kind = "handling" /\ stack'[d].ctx = c /\ stack'[d].home = stack[d].home
      /\ stack'[d + 1].kind = "block" /\ stack'[d + 1].ctx = None /\ stack'[d + 1].home = stack[d].home
  BY <1>4, <1>5
<1>8. ObjectsKept({})
  <2>1. \A i \in d..Depth' :
          stack'[i].ctx \in DOMAIN object \union {} \union {None}
            /\ stack'[i].home \in DOMAIN object \union {} \union {None}
    BY <1>1, <1>2, <1>6, <1>7
  <2>2. InFrames(stack') \subseteq DOMAIN object \union {}
    BY <1>1, <1>6, <1>7, <2>1, FramesRefer
  <2>3. InFrames(stack') \union escaped' \union HandlerRoot \subseteq DOMAIN object
    BY <1>1, <2>2 DEF ObjectsInv, HandlerRoot, Outer
  <2> QED
    BY <1>1, <2>3, KeptSame
<1>9. TypeOK'
  <2>1. entries' \in Seq(1..MaxDepth) /\ state' \in {"runs", "exited", "wild"} /\ {} \subseteq Ctx
        /\ Len(stack') <= MaxDepth
    BY <1>1, <1>2, <1>3, <1>4, <1>5 DEF TypeOK
  <2> QED
    BY <1>1, <1>5, <1>7, <1>8, <2>1, TypeStep
<1>10. c \in DOMAIN object' /\ object'[c] = object[c]
  <2>1. InFrames(stack') \subseteq DOMAIN object' /\ d \in 1..Len(stack')
    BY <1>6, <1>8 DEF ObjectsKept, Depth
  <2>2. stack'[d].ctx \in DOMAIN object' \union {None}
    BY <1>7, <2>1, InFramesFacts
  <2> QED
    BY <1>1, <1>2, <1>7, <1>8, <2>2 DEF ObjectsKept
<1>11. RunsInv'
  <2>1. WellPlaced(stack', d)
    <3>1. d \in 2..(Len(stack') - 1)
      BY <1>6 DEF Depth
    <3>2. stack'[d - 1].kind \in Plain
      BY <1>2, <1>6, <1>7
    <3> QED
      BY <1>2, <1>7, <3>1, <3>2 DEF WellPlaced
  <2>2. WellPlaced(stack', d + 1) /\ stack'[Depth'].kind \in Plain
    BY <1>2, <1>6, <1>7 DEF WellPlaced, Plain
  <2>3. \A i \in (k + 1)..Depth' :
          /\ WellPlaced(stack', i)
          /\ stack'[i].ctx # None => object'[stack'[i].ctx].frame = i
          /\ stack'[i].kind # "method"
    <3> TAKE i \in (k + 1)..Depth'
    <3>1. i = d \/ i = d + 1
      BY <1>6
    <3>2. CASE i = d
      BY <1>7, <1>10, <2>1, <3>2
    <3>3. CASE i = d + 1
      BY <1>7, <2>2, <3>3
    <3> QED
      BY <3>1, <3>2, <3>3
  <2>4. {} \intersect DOMAIN object = {}
    OBVIOUS
  <2> QED
    BY <1>1, <1>2, <1>5, <1>6, <1>7, <1>8, <1>9, <2>2, <2>3, <2>4, StackStep
<1>12. ASSUME HandlersInstalled PROVE HandlersInstalled'
  <2>1. stack[d].kind = "body"
    <3>1. c \in Guards(Depth) /\ Depth \in 0..Depth
      BY <1>3, <1>12 DEF HandlersInstalled, Live
    <3> QED
      BY <1>1, <3>1, GuardsFacts
  <2>2. /\ \A i \in 1..d : stack'[i].ctx = stack[i].ctx
        /\ \A i \in (d + 1)..Depth' : stack'[i].ctx = None
        /\ \A i \in 1..k : stack'[i].kind = stack[i].kind
        /\ \A i \in d..Depth' : stack'[i].kind # "body"
    BY <1>2, <1>6, <1>7
  <2>3. current' = object[stack[d].ctx].parent /\ d \in {d - 1, d}
    BY <1>2 DEF Outer
  <2> QED
    BY <1>1, <1>6, <1>8, <1>9, <1>11, <1>12, <2>1, <2>2, <2>3, Uninstalled
<1> QED
  BY <1>9, <1>11, <1>12 DEF Inv

(* Control goes to a frame that is not there any more.                     *)
LEMMA WildStep ==
  ASSUME Inv, state = "runs", state' = "wild", stack' = stack,
         memory' \in [1..MaxDepth -> Ctx \union {None}], escaped' = escaped, entries' = entries, SetObjects(object),
         current' \in DOMAIN object \union {None}
  PROVE  Inv'
<1>1. TypeOK /\ RunsInv /\ ObjectsInv
  BY DEF Inv, RunsInv
<1>2. InFrames(stack') \union escaped' \union HandlerRoot \subseteq DOMAIN object
  BY <1>1 DEF ObjectsInv, HandlerRoot
<1>3. ObjectsKept({})
  BY <1>1, <1>2, KeptSame
<1>4. TypeOK'
  <2>1. /\ stack' \in Seq(Frame) /\ Len(stack') <= MaxDepth
        /\ memory' \in [1..MaxDepth -> Ctx \union {None}] /\ entries' \in Seq(1..MaxDepth)
        /\ state' \in {"runs", "exited", "wild"} /\ {} \subseteq Ctx
    BY <1>1 DEF TypeOK, Depth
  <2> QED
    BY <1>1, <1>3, <2>1, TypeStep
<1> QED
  BY <1>4 DEF Inv, HandlersInstalled

LEMMA SignalsStep ==
  ASSUME Inv, state = "runs", NEW e, Signals(e),
         escaped' = escaped, entries' = entries, SetObjects(object)
  PROVE  Inv'
<1> SUFFICES ASSUME NEW found, found = Matches(e), NEW c, c = Innermost(found) PROVE Inv'
  OBVIOUS
<1>1. TypeOK /\ RunsInv /\ ObjectsInv
  BY DEF Inv, RunsInv
<1>2. CASE found = {}
  BY <1>2, DefaultStep DEF Signals
<1>3. CASE found # {}
  <2>1. c \in found
    <3>1. found \subseteq ChainFrom(current)
      BY DEF Matches, Chain
    <3> QED
      BY <1>3, <3>1, InnermostFacts
  <2>2. c \in Chain /\ ValidFrame(MemoryInSignal, c) /\ object[c].catches # {}
    BY <2>1 DEF Matches
  <2>3. c \in DOMAIN object
    BY <2>2, ReachedFacts DEF Chain, ChainFrom
  <2>4. /\ current' = Outer(c) /\ memory' = Written(MemoryInSignal, stack')
        /\ Alive(c) => stack' = HandlerBlock(c) /\ state' = state
        /\ ~Alive(c) => stack' = stack /\ state' = "wild"
    BY <1>3 DEF Signals
  <2>5. CASE Alive(c)
    BY <2>2, <2>4, <2>5, TakeOverStep
  <2>6. CASE ~Alive(c)
    <3>1. memory' \in [1..MaxDepth -> Ctx \union {None}]
      <4>1. /\ stack \in Seq(Frame) /\ Len(stack) <= MaxDepth
            /\ MemoryInSignal \in [1..MaxDepth -> Ctx \union {None}]
        BY <1>1, SignalMemory DEF TypeOK, Depth
      <4>2. stack' = stack /\ memory' = Written(MemoryInSignal, stack)
        BY <2>4, <2>6
      <4> QED
        BY <4>1, <4>2, MemoryFrom
    <3>2. current' \in DOMAIN object \union {None}
      BY <1>1, <2>3, <2>4 DEF ObjectsInv, Outer
    <3> QED
      BY <2>4, <2>6, <3>1, <3>2, WildStep
  <2> QED
    BY <2>5, <2>6
<1> QED
  BY <1>2, <1>3

LEMMA OuterReturnStep ==
  ASSUME Inv, OuterReturn
  PROVE  Inv'
<1> SUFFICES ASSUME NEW h, h = TopFrame.home, NEW f, f = object[h].frame PROVE Inv'
  OBVIOUS
<1>1. /\ TypeOK /\ RunsInv /\ ObjectsInv /\ state = "runs" /\ escaped' = escaped /\ SetObjects(object)
      /\ escaped \subseteq DOMAIN object
  BY HomesFacts DEF Inv, RunsInv, OuterReturn
<1>2. h \in DOMAIN object
  <2>1. h \in Homes
    BY <1>1, StackFacts, UnwindingAssumption DEF Homes, RunsInv
  <2> QED
    BY <1>1, <2>1, HomesFacts
<1>3. CASE ~HomeLive(h)
  <2>1. Signals(CannotReturn) /\ entries' = entries
    BY <1>3 DEF OuterReturn
  <2> QED
    BY <1>1, <2>1, SignalsStep
<1>4. CASE HomeLive(h) /\ Alive(h)
  <2>1. ReturnTo(f - 1)
    BY <1>4 DEF OuterReturn
  <2>2. f \in 1..Depth /\ Depth \in Nat
    BY <1>1, <1>2, <1>4, WordFacts, StackFacts DEF RunsInv
  <2> SUFFICES ASSUME NEW d, d = f - 1 PROVE Inv'
    OBVIOUS
  <2>3. d \in 0..(Depth - 1) /\ d + 1 = f
    BY <2>2
  <2> QED
    BY <1>1, <2>1, <2>3, ReturnToStep
<1>5. CASE HomeLive(h) /\ ~Alive(h)
  <2>1. state' = "wild" /\ SetStack(stack) /\ current' = current /\ entries' = entries
    BY <1>5 DEF OuterReturn
  <2>2. stack' = stack /\ memory' \in [1..MaxDepth -> Ctx \union {None}]
    <3>1. stack \in Seq(Frame) /\ Len(stack) <= MaxDepth
      BY <1>1 DEF TypeOK, Depth
    <3> QED
      BY <1>1, <2>1, <3>1, MemoryStep
  <2>3. current' \in DOMAIN object \union {None}
    BY <1>1, <2>1 DEF TypeOK
  <2> QED
    BY <1>1, <2>1, <2>2, <2>3, WildStep
<1> QED
  BY <1>3, <1>4, <1>5

-----------------------------------------------------------------------------
(* Scavenges.                                                              *)

LEMMA ScavengeStep ==
  ASSUME Inv, Scavenge
  PROVE  Inv'
<1> SUFFICES ASSUME NEW k, k = Depth,
                    NEW valid, valid = { c \in Chain : ValidFrame(memory, c) },
                    NEW c, c = Innermost(valid)
             PROVE  Inv'
  OBVIOUS
<1>1. /\ TypeOK /\ RunsInv /\ ObjectsInv /\ FramesInv /\ state = "runs" /\ state' = state
      /\ stack' = stack /\ escaped' = escaped /\ entries' = entries /\ SetObjects(object)
      /\ current' = IF valid = {} THEN current ELSE c
  BY DEF Inv, RunsInv, Scavenge
<1>2. PICK moved \in SUBSET ({ memory[d] : d \in (Depth + 1)..MaxDepth } \ {None}) :
        memory' = [d \in 1..MaxDepth |-> IF d > Depth /\ memory[d] \in moved THEN None ELSE memory[d]]
  BY DEF Scavenge
<1>3. /\ k \in Nat /\ k \in 1..Depth /\ k \in 0..Depth /\ k \in 0..k /\ Depth' = k /\ k <= Depth'
      /\ stack[k].kind \in Plain /\ stack'[Depth'].kind \in Plain /\ k <= MaxDepth /\ MaxDepth \in Nat
      /\ (\A i \in (k + 1)..Depth : FALSE) /\ \A i \in (k + 1)..Depth' : FALSE
  <2>1. k \in Nat /\ k >= 1 /\ stack[k].kind \in Plain /\ k <= MaxDepth /\ MaxDepth \in Nat
    BY <1>1, StackFacts
  <2>2. Depth' = k
    BY <1>1 DEF Depth
  <2> QED
    BY <1>1, <2>1, <2>2
<1>4. valid # {} =>
        c \in Chain /\ c \in DOMAIN object /\ valid \subseteq ChainFrom(c) /\ ChainFrom(c) \subseteq Chain
  <2> SUFFICES ASSUME valid # {}
               PROVE  /\ c \in Chain /\ c \in DOMAIN object
                      /\ valid \subseteq ChainFrom(c) /\ ChainFrom(c) \subseteq Chain
    OBVIOUS
  <2>1. c \in Chain /\ valid \subseteq ChainFrom(c)
    <3>1. valid \subseteq ChainFrom(current)
      BY DEF Chain
    <3> QED
      BY <3>1, InnermostFacts
  <2>2. /\ Chain \subseteq DOMAIN object
        /\ \A x \in Chain : object[x].parent \in DOMAIN object => object[x].parent \in Chain
    BY ReachedFacts DEF Chain, ChainFrom
  <2>3. Reached(object, {c}) \subseteq Chain
    <3>1. {c} \intersect DOMAIN object \subseteq Chain
      BY <2>1
    <3> QED
      BY <2>2, <3>1, ReachedLeast
  <2> QED
    BY <2>1, <2>2, <2>3 DEF ChainFrom
<1>5. current' \in DOMAIN object \union {None}
  BY <1>1, <1>4 DEF TypeOK
<1>6. ObjectsKept({})
  <2>1. InFrames(stack') \union escaped' \union HandlerRoot \subseteq DOMAIN object
    BY <1>1, <1>5 DEF ObjectsInv, HandlerRoot
  <2> QED
    BY <1>1, <2>1, KeptSame
<1>7. TypeOK' /\ MemoryInv'
  <2>1. memory \in [1..MaxDepth -> Ctx \union {None}]
    BY <1>1 DEF TypeOK
  <2>2. memory' \in [1..MaxDepth -> Ctx \union {None}]
    BY <1>2, <2>1
  <2>3. MemoryInv'
    <3>1. \A d \in 1..k : memory'[d] = memory[d]
      BY <1>2, <1>3
    <3> QED
      BY <1>1, <1>3, <3>1 DEF RunsInv, MemoryInv
  <2>4. /\ stack' \in Seq(Frame) /\ Len(stack') <= MaxDepth /\ entries' \in Seq(1..MaxDepth)
        /\ state' \in {"runs", "exited", "wild"} /\ {} \subseteq Ctx
    BY <1>1 DEF TypeOK, Depth
  <2> QED
    BY <1>1, <1>6, <2>2, <2>3, <2>4, TypeStep
<1>8. RunsInv'
  <2>1. {} \intersect DOMAIN object = {}
    OBVIOUS
  <2> QED
    BY <1>1, <1>3, <1>6, <1>7, <2>1, StackStep
<1>9. ASSUME HandlersInstalled PROVE HandlersInstalled'
  <2>1. {} \intersect DOMAIN object = {}
    OBVIOUS
  <2>2. CASE valid = {}
    BY <1>1, <1>3, <1>6, <1>7, <1>8, <1>9, <2>1, <2>2, HandlersKept
  <2>3. CASE valid # {}
    <3>1. /\ \A d \in 1..k : \A x : stack'[d].kind = "body" /\ x = stack'[d].ctx => Live(ChainFrom(x))' = Guards(d)'
          /\ AllGuards' = Guards(k)
          /\ \A x \in DOMAIN object \intersect DOMAIN object' :
               Live(ChainFrom(x))' = Below(Live(ChainFrom(x)), k)
      BY <1>1, <1>3, <1>6, <1>7, <1>8, <1>9, <2>1, GuardedStep
    <3>2. Live(ChainFrom(c)) = Guards(k)
      <4>1. Live(Chain) \subseteq valid
        <5>1. Chain \subseteq DOMAIN object
          BY ReachedFacts DEF Chain, ChainFrom
        <5> QED
          BY <1>1, <5>1, WordFacts DEF Live
      <4>2. Live(ChainFrom(c)) = Live(Chain)
        BY <1>4, <2>3, <4>1 DEF Live
      <4> QED
        BY <1>1, <1>9, <4>2 DEF HandlersInstalled
    <3>3. c \in DOMAIN object \intersect DOMAIN object' /\ current' = c
      <4>1. current' = c /\ c \in DOMAIN object /\ c # None
        BY <1>1, <1>4, <2>3, NoneNowhere
      <4>2. current' \in DOMAIN object' \union {None}
        BY <1>7 DEF TypeOK
      <4> QED
        BY <4>1, <4>2
    <3>4. LiveChain' = Guards(k)
      <4>1. LiveChain' = Live(ChainFrom(c))'
        BY <3>3 DEF LiveChain, Live, Chain, ChainFrom
      <4>2. Below(Guards(k), k) = Guards(k)
        BY <1>1, <1>3, GuardsBelow
      <4> QED
        BY <3>1, <3>2, <3>3, <4>1, <4>2
    <3>5. \A d \in 1..Depth' : \A x : stack'[d].kind = "body" /\ x = stack'[d].ctx
            => Live(ChainFrom(x))' = Guards(d)'
      BY <1>3, <3>1
    <3> QED
      BY <3>1, <3>4, <3>5, InstalledNext
  <2> QED
    BY <2>2, <2>3
<1> QED
  BY <1>1, <1>7, <1>8, <1>9 DEF Inv

-----------------------------------------------------------------------------
(* The invariant holds.                                                    *)

LEMMA InitInv ==
  ASSUME Init
  PROVE  Inv
<1>1. PICK c \in Ctx :
        /\ stack = <<Method(c)>>
        /\ memory = [d \in 1..MaxDepth |-> IF d = 1 THEN c ELSE None]
        /\ object = [x \in {c} |-> Context(1)]
  BY DEF Init
<1>2. current = None /\ escaped = {} /\ entries = << >> /\ state = "runs"
  BY DEF Init
<1>3. /\ c # None /\ Method(c) \in Frame /\ Context(1) \in Object /\ Context(1).parent = None
      /\ Context(1).frame = 1 /\ Context(1).catches = {}
      /\ Method(c).kind = "method" /\ Method(c).ctx = c /\ Method(c).home = c
      /\ MaxDepth \in Nat /\ MaxDepth >= 1
  BY UnwindingAssumption DEF Method, Frame, Kinds, Context, Object
<1>4. stack \in Seq(Frame) /\ Depth = 1 /\ stack[1] = Method(c) /\ stack # << >> /\ Len(stack) = 1
  BY <1>1, <1>3 DEF Depth
<1>5. DOMAIN object = {c} /\ object[c] = Context(1)
  BY <1>1
<1>6. \A d \in 1..Depth : d = 1
  BY <1>4
<1>7. TypeOK
  <2>1. memory \in [1..MaxDepth -> Ctx \union {None}]
    BY <1>1
  <2>2. object \in [DOMAIN object -> Object]
    BY <1>1, <1>3
  <2>3. entries \in Seq(1..MaxDepth)
    BY <1>2, EmptySeq
  <2> QED
    BY <1>2, <1>3, <1>4, <1>5, <2>1, <2>2, <2>3 DEF TypeOK
<1>8. RunsInv
  <2>1. FramesInv
    BY <1>3, <1>4, <1>6 DEF FramesInv, Proper, WellPlaced, Plain, Depth
  <2>2. ObjectsInv
    <3>1. \A d \in 1..Len(stack) : stack[d].ctx \in DOMAIN object /\ stack[d].home \in DOMAIN object
      BY <1>3, <1>4, <1>5, <1>6
    <3>2. InFrames(stack) \subseteq DOMAIN object
      BY <1>4, <3>1, InFramesFacts
    <3> QED
      BY <1>2, <1>3, <1>4, <1>5, <1>6, <3>2 DEF ObjectsInv
  <2>3. ChainsInv
    BY <1>3, <1>5, <1>7, NoneNowhere DEF ChainsInv
  <2>4. MemoryInv
    <3>1. memory[1] = c
      BY <1>1, <1>3
    <3> QED
      BY <1>3, <1>4, <1>6, <3>1 DEF MemoryInv
  <2> QED
    BY <2>1, <2>2, <2>3, <2>4 DEF RunsInv
<1>9. HandlersInstalled
  <2>1. Chain = {}
    BY <1>2, <1>7, NoneNowhere DEF Chain
  <2>2. { j \in 1..Depth : stack[j].kind = "body" } = {} /\ \A d \in 1..Depth : stack[d].kind # "body"
    BY <1>3, <1>4, <1>6
  <2>3. Guards(Depth) = {}
    BY <2>2 DEF Guards
  <2> QED
    BY <2>1, <2>2, <2>3 DEF HandlersInstalled, Live
<1> QED
  BY <1>2, <1>7, <1>8, <1>9 DEF Inv

LEMMA StutterInv ==
  ASSUME Inv, UNCHANGED vars
  PROVE  Inv'
<1>1. /\ stack' = stack /\ memory' = memory /\ object' = object /\ current' = current
      /\ escaped' = escaped /\ entries' = entries /\ state' = state
  BY DEF vars
<1>2. TypeOK => TypeOK'
  BY <1>1 DEF TypeOK, Depth
<1>3. RunsInv => RunsInv'
  <2>1. FramesInv => FramesInv'
    BY <1>1 DEF FramesInv
  <2>2. ObjectsInv => ObjectsInv'
    BY <1>1 DEF ObjectsInv, Depth
  <2>3. ChainsInv => ChainsInv'
    BY <1>1 DEF ChainsInv, ChainFrom
  <2>4. MemoryInv => MemoryInv'
    BY <1>1 DEF MemoryInv, Depth
  <2> QED
    BY <2>1, <2>2, <2>3, <2>4 DEF RunsInv
<1>4. HandlersInstalled => HandlersInstalled'
  <2>1. CASE state # "runs"
    BY <1>1, <2>1 DEF HandlersInstalled
  <2>2. CASE state = "runs"
    <3>1. \A x : Alive(x)' <=> Alive(x)
      BY <1>1 DEF Alive, Depth
    <3>2. LiveChain' = Live(Chain) /\ \A x : Live(ChainFrom(x))' = Live(ChainFrom(x))
      BY <1>1, <3>1 DEF LiveChain, Live, Chain, ChainFrom
    <3>3. AllGuards' = Guards(Depth) /\ \A d : Guards(d)' = Guards(d)
      BY <1>1 DEF AllGuards, Guards, Depth
    <3>4. Depth' = Depth
      BY <1>1 DEF Depth
    <3> QED
      BY <1>1, <2>2, <3>2, <3>3, <3>4, InstalledNext DEF HandlersInstalled
  <2> QED
    BY <2>1, <2>2
<1> QED
  BY <1>1, <1>2, <1>3, <1>4 DEF Inv

LEMMA NextInv ==
  ASSUME Inv, [Next]_vars
  PROVE  Inv'
<1>1. CASE CallMethod
  BY <1>1, CallMethodStep
<1>2. CASE CallBlock
  BY <1>2, CallBlockStep
<1>3. CASE CallFromC
  BY <1>3, CallFromCStep
<1>4. CASE OnDo
  BY <1>4, OnDoStep
<1>5. CASE Return
  BY <1>5, ReturnStep
<1>6. CASE OuterReturn
  BY <1>6, OuterReturnStep
<1>7. CASE Scavenge
  BY <1>7, ScavengeStep
<1>8. ASSUME NEW e \in Exc, Signal(e) PROVE Inv'
  BY <1>8, SignalsStep DEF Signal
<1>9. CASE UNCHANGED vars
  BY <1>9, StutterInv
<1> QED
  BY <1>1, <1>2, <1>3, <1>4, <1>5, <1>6, <1>7, <1>8, <1>9 DEF Next

(* The frames, the objects and the chain stay consistent, whatever the     *)
(* classes given to on:do: catch and however deep the stack may become.    *)
THEOREM InvHolds == Spec => []Inv
<1>1. Init => Inv
  BY InitInv
<1>2. Inv /\ [Next]_vars => Inv'
  BY NextInv
<1> QED
  BY <1>1, <1>2, PTL DEF Spec

(* The variables keep their types.                                         *)
THEOREM TypeCorrect == Spec => []TypeOK
<1>1. Inv => TypeOK
  BY DEF Inv
<1> QED
  BY <1>1, InvHolds, PTL

(* The chain of handlers has the handlers of the on:do: frames whose       *)
(* receiver runs and no other live one, whatever calls, returns, ^,        *)
(* exceptions and scavenges do, if #defaultAction does not return.         *)
THEOREM HandlersInstalledHolds ==
  ASSUME DefaultReturns = FALSE
  PROVE  Spec => []HandlersInstalled
<1>1. Inv => HandlersInstalled
  BY DEF Inv
<1> QED
  BY <1>1, InvHolds, PTL

-----------------------------------------------------------------------------
(* Where an exception goes.                                                *)

Takers(e) == { d \in 1..Depth : stack[d].kind = "body" /\ e \in object[stack[d].ctx].catches }

(* The live handlers that take an exception are those of the frames that   *)
(* should.                                                                 *)
LEMMA MatchesTakers ==
  ASSUME Inv, state = "runs", DefaultReturns = FALSE, NEW e
  PROVE  /\ \A x \in Matches(e) : Alive(x) => /\ x \in Chain /\ object[x].catches # {}
                                               /\ object[x].frame \in Takers(e)
         /\ \A d \in Takers(e) : stack[d].ctx \in Matches(e) /\ Alive(stack[d].ctx)
                                /\ object[stack[d].ctx].frame = d
<1>1. /\ TypeOK /\ RunsInv /\ ObjectsInv /\ FramesInv /\ Live(Chain) = Guards(Depth) /\ Depth \in 0..Depth
      /\ Chain \subseteq DOMAIN object
  BY StackFacts, ReachedFacts DEF Inv, RunsInv, HandlersInstalled, Chain, ChainFrom
<1>2. ASSUME NEW x \in Matches(e), Alive(x)
      PROVE  x \in Chain /\ object[x].catches # {} /\ object[x].frame \in Takers(e)
  <2>1. x \in Chain /\ x \in DOMAIN object /\ e \in object[x].catches
    BY <1>1 DEF Matches
  <2>2. x \in Guards(Depth)
    BY <1>1, <1>2, <2>1 DEF Live
  <2>3. object[x].frame \in 1..Depth /\ stack[object[x].frame].ctx = x /\ stack[object[x].frame].kind = "body"
    BY <1>1, <2>1, <2>2, GuardsFacts
  <2> QED
    BY <2>1, <2>3 DEF Takers
<1>3. ASSUME NEW d \in Takers(e) PROVE stack[d].ctx \in Matches(e) /\ Alive(stack[d].ctx)
                                              /\ object[stack[d].ctx].frame = d
  <2> DEFINE x == stack[d].ctx
  <2>1. d \in 1..Depth /\ stack[d].kind = "body" /\ e \in object[x].catches
    BY DEF Takers
  <2>2. x \in Guards(Depth)
    BY <2>1 DEF Guards
  <2>3. x \in Chain /\ Alive(x) /\ x \in DOMAIN object
    BY <1>1, <2>2 DEF Live
  <2>4. ValidFrame(MemoryInSignal, x) /\ x # None
    BY <1>1, <2>3, WordFacts
  <2>5. object[x].frame = d
    BY <1>1, <2>1, <2>4 DEF ObjectsInv
  <2> QED
    BY <2>1, <2>3, <2>4, <2>5 DEF Matches
<1> QED
  BY <1>2, <1>3

(* The handler met first, if it is live, is that of the frame on top of    *)
(* the others.                                                             *)
LEMMA InnermostTaker ==
  ASSUME Inv, state = "runs", DefaultReturns = FALSE, NEW e, Matches(e) # {},
         NEW c, c = Innermost(Matches(e)), Alive(c), NEW d, d = object[c].frame
  PROVE  /\ c \in DOMAIN object /\ object[c].catches # {}
         /\ d \in Takers(e) /\ \A o \in Takers(e) : o <= d
<1>1. TypeOK /\ RunsInv /\ ObjectsInv /\ FramesInv /\ Depth \in Nat
  BY StackFacts DEF Inv, RunsInv
<1>2. c \in Matches(e) /\ Matches(e) \subseteq ChainFrom(c)
  <2>1. Matches(e) \subseteq ChainFrom(current)
    BY DEF Matches, Chain
  <2> QED
    BY <2>1, InnermostFacts
<1>3. c \in Chain /\ object[c].catches # {} /\ d \in Takers(e)
  BY <1>2, MatchesTakers
<1>4. c \in DOMAIN object /\ d \in 1..Depth /\ stack[d].kind = "body" /\ stack[d].ctx = c
  BY <1>1, <1>3, ReachedFacts, WordFacts DEF Takers, Chain, ChainFrom
<1>5. Live(ChainFrom(c)) = Guards(d)
  BY <1>4 DEF Inv, HandlersInstalled
<1>6. ASSUME NEW o \in Takers(e) PROVE o <= d
  <2> DEFINE x == stack[o].ctx
  <2>1. x \in Matches(e) /\ Alive(x) /\ object[x].frame = o
    BY MatchesTakers
  <2>2. x \in Live(ChainFrom(c)) /\ x \in DOMAIN object
    BY <1>2, <2>1, ReachedFacts DEF Live, ChainFrom
  <2>3. x \in Guards(d) /\ d \in 0..Depth
    BY <1>1, <1>4, <1>5, <2>2
  <2>4. object[x].frame \in 1..d
    BY <1>1, <2>2, <2>3, GuardsFacts
  <2> QED
    BY <1>1, <1>4, <2>1, <2>4
<1> QED
  BY <1>3, <1>4, <1>6

LEMMA SignalCaught ==
  ASSUME Inv, DefaultReturns = FALSE, NEW e, Signal(e), state' # "wild"
  PROVE  IF Takers(e) = {} THEN stack' = stack
         ELSE LET d == CHOOSE d \in Takers(e) : \A o \in Takers(e) : o <= d
              IN  Len(stack') = d + 1 /\ stack'[d].kind = "handling"
<1>1. Signals(e) /\ state = "runs" /\ TypeOK /\ RunsInv
  BY DEF Signal, Inv
<1>2. CASE Matches(e) = {}
  <2>1. Takers(e) = {}
    BY <1>1, <1>2, MatchesTakers
  <2> QED
    BY <1>1, <1>2, <2>1 DEF Signals
<1>3. CASE Matches(e) # {}
  <2> SUFFICES ASSUME NEW c, c = Innermost(Matches(e)), NEW f, f = object[c].frame,
                      NEW t, t = HandlerBlock(c),
                      NEW d, d = CHOOSE x \in Takers(e) : \A o \in Takers(e) : o <= x
               PROVE  Takers(e) # {} /\ Len(stack') = d + 1 /\ stack'[d].kind = "handling"
    OBVIOUS
  <2>1. Alive(c) /\ stack' = t
    BY <1>1, <1>3 DEF Signals
  <2>2. /\ c \in DOMAIN object /\ object[c].catches # {}
        /\ f \in Takers(e) /\ \A o \in Takers(e) : o <= f
    BY <1>1, <1>3, <2>1, InnermostTaker
  <2>3. d \in Takers(e) /\ \A o \in Takers(e) : o <= d
    BY <2>2
  <2>4. d = f
    <3>1. d \in 1..Depth /\ f \in 1..Depth
      BY <2>2, <2>3 DEF Takers
    <3>2. Depth \in Nat
      BY <1>1, StackFacts DEF RunsInv
    <3>3. d <= f /\ f <= d
      BY <2>2, <2>3
    <3> QED
      BY <3>1, <3>2, <3>3
  <2>5. Len(t) = f + 1 /\ t[f].kind = "handling"
    BY <1>1, <2>1, <2>2, HandlerBlockFacts
  <2> QED
    BY <2>1, <2>2, <2>4, <2>5
<1> QED
  BY <1>2, <1>3

(* #signal gives control to the innermost on:do: whose receiver is running *)
(* and whose class takes the exception, and to #defaultAction only if      *)
(* there is none, unless it goes to a frame that is gone; if               *)
(* #defaultAction does not return.                                         *)
THEOREM InnermostCatchesHolds ==
  ASSUME DefaultReturns = FALSE
  PROVE  Spec => InnermostCatches
<1>1. Inv /\ [Next]_vars =>
        [\A e \in Exc : Signal(e) /\ state' # "wild" =>
           LET takers == { d \in 1..Depth : stack[d].kind = "body" /\ e \in object[stack[d].ctx].catches }
           IN  IF takers = {} THEN stack' = stack
               ELSE LET d == CHOOSE d \in takers : \A o \in takers : o <= d
                    IN  Len(stack') = d + 1 /\ stack'[d].kind = "handling"]_vars
  BY SignalCaught DEF Takers
<1> QED
  BY <1>1, InvHolds, PTL DEF Spec, InnermostCatches

=============================================================================
