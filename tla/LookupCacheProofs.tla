-------------------------- MODULE LookupCacheProofs --------------------------
(***************************************************************************)
(* Theorems about LookupCache for every set of classes, selectors and      *)
(* methods, every size of the cache and every hash function.               *)
(***************************************************************************)
EXTENDS LookupCache, SequenceTheorems, Foundations

-----------------------------------------------------------------------------
(* The classes above a class.                                              *)

LEMMA AncestorsFacts ==
  ASSUME parent \in [Class -> Class \union {Nil}], NEW c \in Class
  PROVE  /\ Ancestors(c) \subseteq Class /\ c \in Ancestors(c)
         /\ \A x \in Ancestors(c) : parent[x] # Nil => parent[x] \in Ancestors(c)
<1> DEFINE succ == [x \in Class |-> {parent[x]} \ {Nil}]
<1>1. \A x \in Class : succ[x] = {parent[x]} \ {Nil} /\ succ[x] \subseteq Class
  OBVIOUS
<1>2. Ancestors(c) = Reach(Class, {c}, succ)
  BY DEF Ancestors
<1> HIDE DEF succ
<1>3. {c} \subseteq Reach(Class, {c}, succ) /\ Reach(Class, {c}, succ) \subseteq Class
  BY ReachSources, ReachInNode
<1>4. \A x \in Reach(Class, {c}, succ) : succ[x] \subseteq Reach(Class, {c}, succ)
  BY <1>1, ReachClosed
<1>5. ASSUME NEW x \in Ancestors(c), parent[x] # Nil PROVE parent[x] \in Ancestors(c)
  <2>1. x \in Class /\ parent[x] \in succ[x]
    BY <1>1, <1>2, <1>3, <1>5
  <2> QED
    BY <1>2, <1>4, <2>1
<1> QED
  BY <1>2, <1>3, <1>5

LEMMA AncestorsLeast ==
  ASSUME NEW c \in Class, NEW S \in SUBSET Class, c \in S,
         \A x \in S : parent[x] # Nil => parent[x] \in S
  PROVE  Ancestors(c) \subseteq S
<1> DEFINE succ == [x \in Class |-> {parent[x]} \ {Nil}]
<1>1. \A x \in S : succ[x] \subseteq S
  OBVIOUS
<1>2. Ancestors(c) = Reach(Class, {c}, succ)
  BY DEF Ancestors
<1> HIDE DEF succ
<1> QED
  BY <1>1, <1>2, ReachLeast

(* Of some classes above c one is below the others.                        *)
LEMMA NearestExists ==
  ASSUME parent \in [Class -> Class \union {Nil}], NEW c \in Class,
         NEW D \in SUBSET Ancestors(c), D # {}
  PROVE  \E a \in D : D \subseteq Ancestors(a)
<1> DEFINE succ == [x \in Class |-> {parent[x]} \ {Nil}]
<1>1. /\ \A x \in Class : succ[x] \subseteq Class
      /\ \A x \in Class : \A y, z \in succ[x] : y = z
  OBVIOUS
<1>2. \A x : Ancestors(x) = Reach(Class, {x}, succ)
  BY DEF Ancestors
<1> HIDE DEF succ
<1>3. HasFirst(Class, succ, D)
  <2>1. D \in SUBSET Reach(Class, {c}, succ)
    BY <1>2
  <2> QED
    BY <1>1, <2>1, ReachHasFirst
<1> QED
  BY <1>2, <1>3 DEF HasFirst

(* lookupSelector finds what the class is to run.                          *)
LEMMA AnswerFacts ==
  ASSUME TypeOK, NEW c \in Class, NEW s \in Selector
  PROVE  /\ Answer(c, s) \in Method \union {Nil}
         /\ Answer(c, s) # Nil => \E a \in Class : dict[a][s] = Answer(c, s)
         /\ CodeFor(Answer(c, s), s) \in Code
         /\ Runs(CodeFor(Answer(c, s), s), <<c, s>>)
<1> DEFINE defining == { a \in Ancestors(c) : dict[a][s] # Nil }
<1>1. parent \in [Class -> Class \union {Nil}] /\ dict \in [Class -> [Selector -> Method \union {Nil}]]
  BY DEF TypeOK
<1>2. Ancestors(c) \subseteq Class
  BY <1>1, AncestorsFacts
<1>3. CASE defining = {}
  <2>1. Answer(c, s) = Nil
    BY <1>3 DEF Answer
  <2> QED
    BY <1>3, <2>1 DEF CodeFor, Code, Runs
<1>4. CASE defining # {}
  <2> DEFINE near == CHOOSE a \in defining : defining \subseteq Ancestors(a)
  <2>1. \E a \in defining : defining \subseteq Ancestors(a)
    <3>1. defining \in SUBSET Ancestors(c)
      OBVIOUS
    <3> HIDE DEF defining
    <3> QED
      BY <1>1, <1>4, <3>1, NearestExists
  <2>2. near \in defining /\ defining \subseteq Ancestors(near)
    BY <2>1
  <2>3. Answer(c, s) = dict[near][s]
    BY <1>4 DEF Answer
  <2> HIDE DEF near
  <2>4. near \in Class /\ dict[near][s] \in Method
    BY <1>1, <1>2, <2>2
  <2>5. CodeFor(Answer(c, s), s) = dict[near][s]
    BY <2>2, <2>3 DEF CodeFor
  <2> QED
    BY <2>2, <2>3, <2>4, <2>5 DEF Code, Runs
<1> QED
  BY <1>3, <1>4

-----------------------------------------------------------------------------
(* The invariant.                                                          *)

(* Pairs of a class with a selector and of the code that the class runs.   *)
Right ==
  { p \in (Class \X Selector) \X Code :
      Exists(p[1][1]) /\ Exists(p[1][2]) /\ Runs(p[2], p[1]) }

(* The classes that exist are closed under superclass.                     *)
ClassesInv ==
  /\ Exists(Kernel)
  /\ \A c \in Class : Exists(c) => parent[c] = Nil \/ Exists(parent[c])
  /\ \A c \in Class : Exists(c) /\ c # Kernel => parent[c] # Nil

(* What a compiled method names exists, and the kernel has its one method. *)
MethodsInv ==
  \A m \in Method : owner[m] # Nil =>
    /\ Exists(owner[m]) /\ (owner[m] = Kernel => m = KernelMethod)
    /\ \A i \in 1..Len(Body[m]) : Exists(Body[m][i].sel) /\ Exists(Body[m][i].class)

(* A method is in no dictionary but that of the class it was compiled for. *)
DictsInv ==
  \A c \in Class, s \in Selector : dict[c][s] # Nil =>
    owner[dict[c][s]] = c /\ SelectorOf[dict[c][s]] = s

EntriesInv ==
  \A i \in Index : cache[i] # Nil /\ ~cache[i].outdated =>
    /\ cache[i].class = addr[cache[i].for[1]] /\ cache[i].sel = addr[cache[i].for[2]]
    /\ Hash[<<cache[i].class, cache[i].sel>>] = i
    /\ <<cache[i].for, cache[i].code>> \in Right

(* The send at i in the method m has its code among the bound sends B.     *)
Covered(m, i, B) ==
  Body[m][i].to # "variable" =>
    \E b \in B : b.for[1] = OperandClass(Body[m][i], owner[m]) /\ b.for[2] = Body[m][i].sel

NativeInv ==
  \A m \in native :
    /\ owner[m] # Nil
    /\ dict[owner[m]][SelectorOf[m]] = m => \A i \in 1..Len(Body[m]) : Covered(m, i, bound[m])

BoundInv == \A m \in Method : \A b \in bound[m] : ~b.outdated => <<b.for, b.code>> \in Right

(* The code generator is at the send of its method that todo says, and the *)
(* sends before that are bound.                                            *)
Progress(q) ==
  /\ q.method = Nil => q.todo = << >>
  /\ q.method # Nil =>
       /\ owner[q.method] # Nil
       /\ Len(q.todo) <= Len(Body[q.method])
       /\ \A i \in 1..Len(q.todo) : q.todo[i] = Body[q.method][Len(Body[q.method]) - Len(q.todo) + i]
       /\ q.method \in native \/
            \A i \in 1..(Len(Body[q.method]) - Len(q.todo)) : Covered(q.method, i, q.bound)

(* Lookups in progress: the answer stands, as do the sends bound so far.   *)
SoundCalls ==
  { q \in Call :
      /\ Exists(q.class) /\ Exists(q.sel)
      /\ q.method = Answer(q.class, q.sel)
      /\ \A b \in q.bound : <<b.for, b.code>> \in Right
      /\ Progress(q) }

(* The second call was made for the send the generator of the first is at. *)
Asking ==
  { p \in Call \X Call :
      /\ p[1].todo # << >> /\ Head(p[1].todo).to # "variable"
      /\ p[2].class = OperandClass(Head(p[1].todo), owner[p[1].method])
      /\ p[2].sel = Head(p[1].todo).sel }

StackInv ==
  /\ \A k \in 1..Len(lookups) : lookups[k] \in SoundCalls
  /\ \A k \in 1..(Len(lookups) - 1) : <<lookups[k], lookups[k + 1]>> \in Asking

Inv ==
  /\ TypeOK
  /\ ClassesInv /\ MethodsInv /\ DictsInv
  /\ EntriesInv /\ NativeInv /\ BoundInv /\ StackInv

-----------------------------------------------------------------------------
(* What stays when no class is defined.                                    *)

Keeps ==
  /\ UNCHANGED classes /\ native \subseteq native'
  /\ \A o \in Object : addr[o] # Nil => addr'[o] # Nil
  /\ \A c \in Class : addr'[c] # Nil => addr[c] # Nil

LEMMA SiteType ==
  ASSUME NEW m \in Method, NEW i \in 1..Len(Body[m])
  PROVE  /\ Body[m] \in Seq(SendSite) /\ Len(Body[m]) \in Nat /\ Body[m][i] \in SendSite
         /\ Body[m][i].sel \in Selector /\ Body[m][i].class \in Class
<1>1. Body[m] \in Seq(SendSite)
  BY LookupAssumption
<1>2. Len(Body[m]) \in Nat /\ Body[m][i] \in SendSite
  BY <1>1
<1> QED
  BY <1>1, <1>2 DEF SendSite

LEMMA SameAnswers ==
  ASSUME UNCHANGED classes, NEW c, NEW s, NEW x
  PROVE  Answer(c, s)' = Answer(c, s) /\ (Runs(x, <<c, s>>)' <=> Runs(x, <<c, s>>))
BY DEF classes, Answer, Ancestors, Runs

LEMMA RightStays ==
  ASSUME Keeps
  PROVE  Right \subseteq Right'
<1> SUFFICES ASSUME NEW p \in Right PROVE p \in Right'
  OBVIOUS
<1>1. PICK c \in Class, s \in Selector, x \in Code : p = <<<<c, s>>, x>>
  BY DEF Right
<1>2. addr[c] # Nil /\ addr[s] # Nil /\ Runs(x, <<c, s>>)
  BY <1>1 DEF Right, Exists
<1>3. addr'[c] # Nil /\ addr'[s] # Nil
  BY <1>2 DEF Keeps, Object
<1>4. Runs(x, <<c, s>>)'
  BY <1>2, SameAnswers DEF Keeps
<1> QED
  BY <1>1, <1>3, <1>4 DEF Right, Exists

LEMMA ProgressStays ==
  ASSUME Keeps, NEW q, Progress(q)
  PROVE  Progress(q)'
<1>1. owner' = owner /\ parent' = parent /\ native \subseteq native'
  BY DEF Keeps, classes
<1>2. \A m, i, B : Covered(m, i, B)' <=> Covered(m, i, B)
  BY <1>1 DEF Covered, OperandClass
<1> QED
  BY <1>1, <1>2 DEF Progress

LEMMA CallsStay ==
  ASSUME Keeps
  PROVE  SoundCalls \subseteq SoundCalls'
<1> SUFFICES ASSUME NEW q \in SoundCalls PROVE q \in SoundCalls'
  OBVIOUS
<1>1. /\ q \in Call /\ addr[q.class] # Nil /\ addr[q.sel] # Nil
      /\ q.method = Answer(q.class, q.sel)
      /\ \A b \in q.bound : <<b.for, b.code>> \in Right
      /\ Progress(q)
  BY DEF SoundCalls, Exists
<1>2. q.class \in Object /\ q.sel \in Object
  BY <1>1 DEF Call, Object
<1>3. addr'[q.class] # Nil /\ addr'[q.sel] # Nil
  BY <1>1, <1>2 DEF Keeps
<1>4. q.method = Answer(q.class, q.sel)'
  BY <1>1, SameAnswers DEF Keeps
<1>5. \A b \in q.bound : <<b.for, b.code>> \in Right'
  BY <1>1, RightStays
<1>6. Progress(q)'
  BY <1>1, ProgressStays
<1> QED
  BY <1>1, <1>3, <1>4, <1>5, <1>6 DEF SoundCalls, Exists

LEMMA AskingStays == ASSUME Keeps PROVE Asking' = Asking
BY DEF Keeps, classes, Asking, OperandClass

LEMMA ProgramStays ==
  ASSUME Keeps, TypeOK, ClassesInv, MethodsInv, DictsInv
  PROVE  ClassesInv' /\ MethodsInv' /\ DictsInv'
<1>1. owner' = owner /\ parent' = parent /\ dict' = dict
  BY DEF Keeps, classes
<1>2. \A c \in Class : addr'[c] # Nil <=> addr[c] # Nil
  BY DEF Keeps, Object
<1>3. Kernel \in Class /\ parent \in [Class -> Class \union {Nil}] /\ owner \in [Method -> Class \union {Nil}]
  BY LookupAssumption DEF TypeOK
<1>4. ClassesInv'
  <2>1. \A c \in Class : addr[c] # Nil => parent[c] = Nil \/ (parent[c] \in Class /\ addr[parent[c]] # Nil)
    BY <1>3 DEF ClassesInv, Exists
  <2>2. \A c \in Class : addr'[c] # Nil => parent'[c] = Nil \/ addr'[parent'[c]] # Nil
    BY <1>1, <1>2, <2>1
  <2>3. addr[Kernel] # Nil /\ \A c \in Class : addr[c] # Nil /\ c # Kernel => parent[c] # Nil
    BY DEF ClassesInv, Exists
  <2>4. addr'[Kernel] # Nil /\ \A c \in Class : addr'[c] # Nil /\ c # Kernel => parent'[c] # Nil
    BY <1>1, <1>2, <1>3, <2>3
  <2> QED
    BY <2>2, <2>4 DEF ClassesInv, Exists
<1>5. MethodsInv'
  <2> SUFFICES ASSUME NEW m \in Method, owner[m] # Nil
               PROVE  /\ addr'[owner[m]] # Nil /\ (owner[m] = Kernel => m = KernelMethod)
                      /\ \A i \in 1..Len(Body[m]) : addr'[Body[m][i].sel] # Nil /\ addr'[Body[m][i].class] # Nil
    BY <1>1 DEF MethodsInv, Exists
  <2>1. /\ addr[owner[m]] # Nil /\ (owner[m] = Kernel => m = KernelMethod)
        /\ \A i \in 1..Len(Body[m]) : addr[Body[m][i].sel] # Nil /\ addr[Body[m][i].class] # Nil
    BY DEF MethodsInv, Exists
  <2>2. owner[m] \in Object
    BY <1>3 DEF Object
  <2>3. \A i \in 1..Len(Body[m]) : Body[m][i].sel \in Object /\ Body[m][i].class \in Object
    BY SiteType DEF SendSite, Object
  <2> QED
    BY <2>1, <2>2, <2>3 DEF Keeps
<1>6. DictsInv'
  BY <1>1 DEF DictsInv
<1> QED
  BY <1>4, <1>5, <1>6

LEMMA CodeStays ==
  ASSUME Keeps, TypeOK, NativeInv, BoundInv, UNCHANGED <<native, bound>>
  PROVE  NativeInv' /\ BoundInv'
<1>1. owner' = owner /\ parent' = parent /\ dict' = dict /\ native' = native /\ bound' = bound
  BY DEF Keeps, classes
<1>2. \A m, i, B : Covered(m, i, B)' <=> Covered(m, i, B)
  BY <1>1 DEF Covered, OperandClass
<1>3. NativeInv'
  BY <1>1, <1>2 DEF NativeInv
<1>4. BoundInv'
  BY <1>1, RightStays DEF BoundInv
<1> QED
  BY <1>3, <1>4

LEMMA EntriesStay ==
  ASSUME Keeps, EntriesInv, UNCHANGED <<addr, cache>>
  PROVE  EntriesInv'
BY RightStays DEF EntriesInv

LEMMA StackStays ==
  ASSUME Keeps, StackInv, UNCHANGED lookups
  PROVE  StackInv'
BY CallsStay, AskingStays DEF StackInv

-----------------------------------------------------------------------------
(* The stack of lookups.                                                   *)

LEMMA TopFacts ==
  ASSUME TypeOK, StackInv, lookups # << >>
  PROVE  /\ Len(lookups) \in Nat \ {0} /\ Top = lookups[Len(lookups)]
         /\ Top \in Call /\ Top \in SoundCalls
<1>1. lookups \in Seq(Call)
  BY DEF TypeOK
<1>2. Len(lookups) \in Nat \ {0}
  BY <1>1, EmptySeq
<1> QED
  BY <1>2 DEF Top, StackInv, SoundCalls

LEMMA AskingLike ==
  ASSUME NEW r, NEW q, NEW s, <<r, q>> \in Asking, s \in Call, s.class = q.class, s.sel = q.sel
  PROVE  <<r, s>> \in Asking
BY DEF Asking

LEMMA SetTopSound ==
  ASSUME Keeps, NEW s \in Seq(Call), s # << >>,
         \A k \in 1..Len(s) : s[k] \in SoundCalls,
         \A k \in 1..(Len(s) - 1) : <<s[k], s[k + 1]>> \in Asking,
         NEW q \in SoundCalls', q \in Call, q.class = s[Len(s)].class, q.sel = s[Len(s)].sel,
         lookups' = [s EXCEPT ![Len(s)] = q]
  PROVE  lookups' \in Seq(Call) /\ StackInv'
<1> DEFINE n == Len(s)
<1>1. n \in Nat \ {0}
  BY EmptySeq
<1>2. /\ lookups' \in Seq(Call) /\ Len(lookups') = n /\ lookups'[n] = q
      /\ \A k \in 1..(n - 1) : lookups'[k] = s[k]
  <2>1. n \in 1..Len(s)
    BY <1>1
  <2> QED
    BY <1>1, <2>1
<1>3. \A k \in 1..n : lookups'[k] \in SoundCalls'
  <2> TAKE k \in 1..n
  <2>1. CASE k = n
    BY <1>2, <2>1
  <2>2. CASE k # n
    <3>1. k \in 1..(n - 1) /\ k \in 1..Len(s)
      BY <1>1, <2>2
    <3> QED
      BY <1>2, <3>1, CallsStay
  <2> QED
    BY <2>1, <2>2
<1>4. \A k \in 1..(n - 1) : <<lookups'[k], lookups'[k + 1]>> \in Asking
  <2> TAKE k \in 1..(n - 1)
  <2>1. lookups'[k] = s[k] /\ <<s[k], s[k + 1]>> \in Asking
    BY <1>2
  <2>2. CASE k + 1 = n
    BY <1>1, <1>2, <2>1, <2>2, AskingLike
  <2>3. CASE k + 1 # n
    <3>1. k + 1 \in 1..(n - 1)
      BY <1>1, <2>3
    <3> QED
      BY <1>2, <2>1, <3>1
  <2> QED
    BY <2>2, <2>3
<1> QED
  BY <1>2, <1>3, <1>4, AskingStays DEF StackInv

LEMMA PushSound ==
  ASSUME TypeOK, StackInv, Keeps, NEW r \in SoundCalls', r \in Call,
         lookups # << >> => <<Top, r>> \in Asking,
         lookups' = Append(lookups, r)
  PROVE  lookups' \in Seq(Call) /\ StackInv'
<1> DEFINE n == Len(lookups)
<1>1. lookups \in Seq(Call) /\ n \in Nat
  BY DEF TypeOK
<1>2. /\ lookups' \in Seq(Call) /\ Len(lookups') = n + 1 /\ lookups'[n + 1] = r
      /\ \A k \in 1..n : lookups'[k] = lookups[k]
  BY <1>1, AppendProperties
<1>3. \A k \in 1..(n + 1) : lookups'[k] \in SoundCalls'
  <2> TAKE k \in 1..(n + 1)
  <2>1. CASE k = n + 1
    BY <1>2, <2>1
  <2>2. CASE k # n + 1
    <3>1. k \in 1..n
      BY <1>1, <2>2
    <3> QED
      BY <1>2, <3>1, CallsStay DEF StackInv
  <2> QED
    BY <2>1, <2>2
<1>4. \A k \in 1..n : <<lookups'[k], lookups'[k + 1]>> \in Asking
  <2> TAKE k \in 1..n
  <2>1. CASE k = n
    <3>1. lookups # << >>
      BY <1>1, <2>1, EmptySeq
    <3>2. Top = lookups[n] /\ <<Top, r>> \in Asking
      BY <3>1 DEF Top
    <3> QED
      BY <1>2, <2>1, <3>2
  <2>2. CASE k # n
    <3>1. k \in 1..(n - 1) /\ k + 1 \in 1..n
      BY <1>1, <2>2
    <3> QED
      BY <1>2, <3>1 DEF StackInv
  <2> QED
    BY <2>1, <2>2
<1>5. (n + 1) - 1 = n
  BY <1>1
<1> QED
  BY <1>2, <1>3, <1>4, <1>5, AskingStays DEF StackInv

LEMMA LookingFacts ==
  ASSUME TypeOK, DictsInv, NEW c \in Class, NEW s \in Selector, Exists(c), Exists(s)
  PROVE  /\ Looking(c, s) \in SoundCalls /\ Looking(c, s) \in Call
         /\ Looking(c, s).class = c /\ Looking(c, s).sel = s
<1> DEFINE m == Answer(c, s)
           r == Looking(c, s)
<1>1. m \in Method \union {Nil} /\ (m # Nil => \E a \in Class : dict[a][s] = m)
  BY AnswerFacts
<1>2. m # Nil => m \in Method /\ owner[m] # Nil
  BY <1>1, LookupAssumption DEF DictsInv, Object
<1> DEFINE todo == IF m = Nil \/ m \in native THEN << >> ELSE Body[m]
<1>3. r = [class |-> c, sel |-> s, method |-> m, todo |-> todo,
           embedded |-> {}, bound |-> {}]
  BY DEF Looking
<1>4. << >> \in Seq(SendSite) /\ Len(<< >>) = 0
  OBVIOUS
<1>5. m # Nil => Body[m] \in Seq(SendSite) /\ Len(Body[m]) \in Nat
  BY <1>2, LookupAssumption
<1>6. todo \in Seq(SendSite)
  BY <1>4, <1>5
<1> HIDE DEF todo, m
<1>7. r \in Call
  BY <1>1, <1>3, <1>6 DEF Call
<1> HIDE DEF r
<1>8. r.method = m /\ r.todo = todo /\ r.bound = {} /\ r.class = c /\ r.sel = s
  BY <1>3
<1>9. Progress(r)
  <2>1. CASE m = Nil \/ m \in native
    <3>1. todo = << >>
      BY <2>1 DEF todo
    <3>2. Len(r.todo) = 0
      BY <1>4, <1>8, <3>1
    <3> QED
      BY <1>2, <1>5, <1>8, <2>1, <3>1, <3>2 DEF Progress
  <2>2. CASE m # Nil /\ m \notin native
    <3>1. todo = Body[m]
      BY <2>2 DEF todo
    <3>2. \A i \in 1..Len(todo) : (Len(Body[m]) - Len(todo)) + i = i
      BY <1>5, <2>2, <3>1
    <3>3. 1..(Len(Body[m]) - Len(todo)) = {}
      BY <1>5, <2>2, <3>1
    <3> QED
      BY <1>2, <1>5, <1>8, <2>2, <3>1, <3>2, <3>3 DEF Progress
  <2> QED
    BY <2>1, <2>2
<1> QED
  BY <1>7, <1>8, <1>9 DEF SoundCalls, m, r

(* The generator is done with a send.                                      *)
LEMMA TailProgress ==
  ASSUME NEW q \in Call, Progress(q), q.todo # << >>,
         NEW r, r.method = q.method, r.todo = Tail(q.todo), q.bound \subseteq r.bound,
         Head(q.todo).to # "variable" =>
           \E b \in r.bound : b.for[1] = OperandClass(Head(q.todo), owner[q.method])
                              /\ b.for[2] = Head(q.todo).sel
  PROVE  Progress(r)
<1> DEFINE m == q.method
           d == q.todo
           n == Len(Body[m]) - Len(d)
<1>1. m \in Method /\ m # Nil /\ d \in Seq(SendSite) /\ Body[m] \in Seq(SendSite)
  BY LookupAssumption DEF Progress, Call
<1>2. /\ owner[m] # Nil /\ Len(d) <= Len(Body[m])
      /\ \A i \in 1..Len(d) : d[i] = Body[m][n + i]
      /\ m \in native \/ \A i \in 1..n : Covered(m, i, q.bound)
  BY <1>1 DEF Progress
<1>3. Len(Body[m]) \in Nat /\ Len(d) \in Nat \ {0} /\ n \in Nat
  BY <1>1, <1>2, EmptySeq
<1>4. /\ Len(Tail(d)) = Len(d) - 1 /\ Head(d) = d[1]
      /\ \A i \in 1..(Len(d) - 1) : Tail(d)[i] = d[i + 1]
  BY <1>1, HeadTailProperties
<1> DEFINE e == Tail(d)
           x == Len(Body[m])
<1>5. r.method = m /\ r.todo = e /\ q.bound \subseteq r.bound
  OBVIOUS
<1> HIDE DEF m, d, e, x
<1>6. Len(e) \in Nat /\ Len(e) <= x /\ x - Len(e) = n + 1
  <2>1. Len(e) = Len(d) - 1 /\ x \in Nat /\ Len(d) \in Nat \ {0} /\ n = x - Len(d) /\ Len(d) <= x
    BY <1>2, <1>3, <1>4 DEF e, x
  <2> HIDE DEF n
  <2> QED
    BY <2>1
<1>7. \A i \in 1..Len(e) : e[i] = Body[m][(x - Len(e)) + i]
  <2> TAKE i \in 1..Len(e)
  <2>1. i \in 1..(Len(d) - 1) /\ i + 1 \in 1..Len(d) /\ n + (i + 1) = (n + 1) + i
    <3>1. Len(e) = Len(d) - 1 /\ Len(d) \in Nat \ {0} /\ n \in Nat
      BY <1>3, <1>4 DEF e
    <3> HIDE DEF n
    <3> QED
      BY <3>1
  <2>2. e[i] = d[i + 1] /\ d[i + 1] = Body[m][n + (i + 1)]
    BY <1>2, <1>4, <2>1 DEF e
  <2> QED
    BY <1>6, <2>1, <2>2
<1>8. ASSUME m \notin native, NEW i \in 1..(x - Len(e)) PROVE Covered(m, i, r.bound)
  <2>1. CASE i = n + 1
    <3>1. 1 \in 1..Len(d) /\ Head(d) = Body[m][n + 1]
      BY <1>2, <1>3, <1>4
    <3> QED
      BY <2>1, <3>1 DEF Covered, m, d
  <2>2. CASE i # n + 1
    <3>1. i \in 1..n
      <4>1. i \in 1..(n + 1) /\ n \in Nat
        BY <1>3, <1>6
      <4> HIDE DEF n
      <4> QED
        BY <2>2, <4>1
    <3>2. Covered(m, i, q.bound)
      BY <1>2, <1>8, <3>1
    <3> QED
      BY <1>5, <3>2 DEF Covered
  <2> QED
    BY <2>1, <2>2
<1> QED
  BY <1>1, <1>2, <1>5, <1>6, <1>7, <1>8 DEF Progress, x

(* The send that the generator is at is one of its method's.               *)
LEMMA HeadSite ==
  ASSUME Inv, lookups # << >>, Top.todo # << >>
  PROVE  /\ Top.method \in Method /\ owner[Top.method] # Nil
         /\ \E i \in 1..Len(Body[Top.method]) : Head(Top.todo) = Body[Top.method][i]
         /\ Head(Top.todo).sel \in Selector /\ Exists(Head(Top.todo).sel)
         /\ Head(Top.todo).class \in Class /\ Exists(Head(Top.todo).class)
<1> DEFINE site == Head(Top.todo)
<1>1. Top \in Call /\ Progress(Top)
  BY TopFacts DEF Inv, SoundCalls
<1>2. /\ Top.method \in Method /\ Top.todo \in Seq(SendSite)
      /\ owner[Top.method] # Nil /\ Len(Top.todo) <= Len(Body[Top.method])
      /\ \A i \in 1..Len(Top.todo) :
           Top.todo[i] = Body[Top.method][Len(Body[Top.method]) - Len(Top.todo) + i]
  BY <1>1 DEF Progress, Call
<1>3. \E i \in 1..Len(Body[Top.method]) : site = Body[Top.method][i]
  <2>1. Len(Top.todo) \in Nat \ {0} /\ site = Top.todo[1]
    BY <1>2, EmptySeq
  <2>2. Len(Body[Top.method]) \in Nat
    BY <1>2, LookupAssumption
  <2> DEFINE x == Len(Body[Top.method])
             y == Len(Top.todo)
  <2>3. (x - y) + 1 \in 1..x /\ 1 \in 1..y
    <3>1. x \in Nat /\ y \in Nat \ {0} /\ y <= x
      BY <1>2, <2>1, <2>2
    <3> HIDE DEF x, y
    <3> QED
      BY <3>1
  <2>4. Top.todo[1] = Body[Top.method][(x - y) + 1]
    BY <1>2, <2>3
  <2> HIDE DEF site, x, y
  <2>5. site = Body[Top.method][(x - y) + 1]
    BY <2>1, <2>4
  <2> QED
    BY <2>3, <2>5 DEF x
<1> HIDE DEF site
<1>4. PICK i \in 1..Len(Body[Top.method]) : site = Body[Top.method][i]
  BY <1>3
<1>5. site.sel \in Selector /\ site.class \in Class /\ Exists(site.sel) /\ Exists(site.class)
  BY <1>2, <1>4, SiteType DEF Inv, MethodsInv
<1> QED
  BY <1>2, <1>3, <1>5 DEF site

-----------------------------------------------------------------------------
(* The steps.                                                              *)

LEMMA SendStep ==
  ASSUME Inv, NEW c \in Class, NEW s \in Selector, Send(c, s)
  PROVE  Inv'
<1>1. /\ lookups = << >> /\ Exists(c) /\ Exists(s) /\ lookups' = << Looking(c, s) >>
      /\ addr' = addr /\ survived' = survived /\ active' = active
      /\ parent' = parent /\ dict' = dict /\ owner' = owner
      /\ native' = native /\ bound' = bound /\ literals' = literals /\ cache' = cache
  BY DEF Send, space, classes, code
<1>2. Keeps
  BY <1>1 DEF Keeps, classes
<1>3. Looking(c, s) \in SoundCalls /\ Looking(c, s) \in Call /\ Looking(c, s) \in SoundCalls'
  BY <1>1, <1>2, LookingFacts, CallsStay DEF Inv
<1>4. lookups' = Append(lookups, Looking(c, s))
  BY <1>1
<1>5. lookups' \in Seq(Call) /\ StackInv'
  BY <1>1, <1>2, <1>3, <1>4, PushSound DEF Inv
<1>6. TypeOK'
  BY <1>1, <1>5 DEF Inv, TypeOK
<1> QED
  BY <1>1, <1>2, <1>5, <1>6, ProgramStays, CodeStays, EntriesStay DEF Inv

LEMMA BindSendStep ==
  ASSUME Inv, BindSend
  PROVE  Inv'
<1> DEFINE site == Head(Top.todo)
           c    == OperandClass(site, owner[Top.method])
<1>1. /\ lookups # << >> /\ Top.todo # << >> /\ site.to # "variable"
      /\ lookups' = Append(lookups, Looking(c, site.sel))
      /\ addr' = addr /\ survived' = survived /\ active' = active
      /\ parent' = parent /\ dict' = dict /\ owner' = owner
      /\ native' = native /\ bound' = bound /\ literals' = literals /\ cache' = cache
  BY DEF BindSend, space, classes, code
<1>2. Keeps
  BY <1>1 DEF Keeps, classes
<1>3. Top \in Call /\ Top \in SoundCalls /\ Progress(Top)
  BY <1>1, TopFacts DEF Inv, SoundCalls
<1>4. Top.method \in Method /\ owner[Top.method] # Nil
  BY <1>1, HeadSite
<1>5. \E i \in 1..Len(Body[Top.method]) : site = Body[Top.method][i]
  BY <1>1, HeadSite
<1>6. PICK i \in 1..Len(Body[Top.method]) : site = Body[Top.method][i]
  BY <1>5
<1>7. site.sel \in Selector /\ site.class \in Class /\ Exists(site.sel) /\ Exists(site.class)
  BY <1>1, HeadSite
<1> HIDE DEF site
<1>8. c \in Class /\ Exists(c)
  <2>1. CASE site.to = "super"
    <3>1. owner[Top.method] \in Class /\ Exists(owner[Top.method])
      BY <1>4 DEF Inv, TypeOK, MethodsInv
    <3>2. owner[Top.method] # Kernel
      <4>1. Top.method # KernelMethod
        BY <1>6, LookupAssumption
      <4> QED
        BY <1>4, <4>1 DEF Inv, MethodsInv
    <3> QED
      BY <2>1, <3>1, <3>2 DEF Inv, TypeOK, ClassesInv, OperandClass
  <2>2. CASE site.to # "super"
    BY <1>7, <2>2 DEF OperandClass
  <2> QED
    BY <2>1, <2>2
<1>9. /\ Looking(c, site.sel) \in SoundCalls /\ Looking(c, site.sel) \in Call
      /\ Looking(c, site.sel).class = c /\ Looking(c, site.sel).sel = site.sel
  <2> HIDE DEF c
  <2> QED
    BY <1>7, <1>8, LookingFacts DEF Inv
<1>10. <<Top, Looking(c, site.sel)>> \in Asking
  BY <1>1, <1>3, <1>9 DEF Asking, site
<1>11. Looking(c, site.sel) \in SoundCalls'
  BY <1>2, <1>9, CallsStay
<1>12. lookups' \in Seq(Call) /\ StackInv'
  <2> HIDE DEF c
  <2> QED
    BY <1>1, <1>2, <1>9, <1>10, <1>11, PushSound DEF Inv
<1>13. TypeOK'
  BY <1>1, <1>12 DEF Inv, TypeOK
<1> QED
  BY <1>1, <1>2, <1>12, <1>13, ProgramStays, CodeStays, EntriesStay DEF Inv

(* A call with some of its fields changed.                                 *)
Made(q, todo, embedded, b) ==
  [class |-> q.class, sel |-> q.sel, method |-> q.method, todo |-> todo,
   embedded |-> embedded, bound |-> b]

(* Fields of an element of a stack, one after the other.                   *)
Replaced(s, n, q)      == [s EXCEPT ![n] = q]
EmbedsThen(s, n, x, y) == [s EXCEPT ![n].embedded = x, ![n].todo = y]
Settled(s, n, x)       == [s EXCEPT ![n].embedded = x]
Answered(s, n, x, y)   == [s EXCEPT ![n].todo = x, ![n].bound = y]

LEMMA TwoFields ==
  ASSUME NEW s \in Seq(Call), NEW n \in 1..Len(s), NEW x, NEW y
  PROVE  LET q == s[n] IN
         /\ EmbedsThen(s, n, x, y) = Replaced(s, n, Made(q, y, x, q.bound))
         /\ Settled(s, n, x) = Replaced(s, n, Made(q, q.todo, x, q.bound))
         /\ Answered(s, n, x, y) = Replaced(s, n, Made(q, x, q.embedded, y))
<1> DEFINE q == s[n]
<1>1. q \in Call /\ q = [class |-> q.class, sel |-> q.sel, method |-> q.method, todo |-> q.todo,
                         embedded |-> q.embedded, bound |-> q.bound]
  <2>1. q \in Call
    OBVIOUS
  <2> HIDE DEF q
  <2> QED
    BY <2>1 DEF Call
<1>2. \A r : [s EXCEPT ![n] = r][n] = r
  OBVIOUS
<1>3. \A r, u : [[s EXCEPT ![n] = r] EXCEPT ![n] = u] = [s EXCEPT ![n] = u]
  OBVIOUS
<1>4. [s EXCEPT ![n].embedded = x] = [s EXCEPT ![n] = Made(q, q.todo, x, q.bound)]
  <2>1. [q EXCEPT !.embedded = x] = Made(q, q.todo, x, q.bound)
    <3> HIDE DEF q
    <3> QED
      BY <1>1 DEF Made
  <2>2. [s EXCEPT ![n].embedded = x] = [s EXCEPT ![n] = [q EXCEPT !.embedded = x]]
    OBVIOUS
  <2> HIDE DEF q
  <2> QED
    BY <2>1, <2>2
<1>5. [s EXCEPT ![n].embedded = x, ![n].todo = y] = [s EXCEPT ![n] = Made(q, y, x, q.bound)]
  <2> DEFINE f == [s EXCEPT ![n].embedded = x]
             r == Made(q, q.todo, x, q.bound)
  <2>1. [s EXCEPT ![n].embedded = x, ![n].todo = y] = [f EXCEPT ![n] = [f[n] EXCEPT !.todo = y]]
    OBVIOUS
  <2>2. f = [s EXCEPT ![n] = r]
    BY <1>4
  <2>3. [r EXCEPT !.todo = y] = Made(q, y, x, q.bound)
    <3> HIDE DEF q
    <3> QED
      BY DEF Made
  <2> HIDE DEF f, r, q
  <2> QED
    BY <1>2, <1>3, <2>1, <2>2, <2>3
<1>6. [s EXCEPT ![n].todo = x, ![n].bound = y] = [s EXCEPT ![n] = Made(q, x, q.embedded, y)]
  <2> DEFINE f == [s EXCEPT ![n].todo = x]
             r == Made(q, x, q.embedded, q.bound)
  <2>1. [s EXCEPT ![n].todo = x, ![n].bound = y] = [f EXCEPT ![n] = [f[n] EXCEPT !.bound = y]]
    OBVIOUS
  <2>2. [q EXCEPT !.todo = x] = r
    <3> HIDE DEF q
    <3> QED
      BY <1>1 DEF Made
  <2>3. [r EXCEPT !.bound = y] = Made(q, x, q.embedded, y)
    <3> HIDE DEF q
    <3> QED
      BY DEF Made
  <2>4. f = [s EXCEPT ![n] = [q EXCEPT !.todo = x]]
    OBVIOUS
  <2> HIDE DEF f, r, q
  <2> QED
    BY <1>2, <1>3, <2>1, <2>2, <2>4, <2>3
<1> QED
  BY <1>4, <1>5, <1>6 DEF Replaced, EmbedsThen, Settled, Answered

LEMMA MadeCall ==
  ASSUME NEW q \in Call, NEW t, NEW e, NEW b,
         t \in Seq(SendSite), e \subseteq Literal, b \subseteq Bound
  PROVE  /\ Made(q, t, e, b) \in Call
         /\ Made(q, t, e, b).class = q.class /\ Made(q, t, e, b).sel = q.sel
         /\ Made(q, t, e, b).method = q.method /\ Made(q, t, e, b).todo = t
         /\ Made(q, t, e, b).embedded = e /\ Made(q, t, e, b).bound = b
BY DEF Made, Call

LEMMA LiteralType ==
  ASSUME TypeOK, NEW s \in Selector, Exists(s)
  PROVE  LiteralOf(s) \in Literal
<1>1. s \in Object /\ addr[s] \in Addr
  BY DEF TypeOK, Object, Exists
<1> QED
  BY <1>1 DEF LiteralOf, Literal

LEMMA GenerateSendStep ==
  ASSUME Inv, GenerateSend
  PROVE  Inv'
<1> DEFINE n == Len(lookups)
           e == Top.embedded \union {LiteralOf(Head(Top.todo).sel)}
           d == Tail(Top.todo)
           q == Made(Top, d, e, Top.bound)
<1>1. /\ lookups # << >> /\ Top.todo # << >> /\ Head(Top.todo).to = "variable"
      /\ lookups' = [lookups EXCEPT ![n].embedded = @ \union {LiteralOf(Head(Top.todo).sel)},
                                    ![n].todo = Tail(@)]
      /\ addr' = addr /\ survived' = survived /\ active' = active
      /\ parent' = parent /\ dict' = dict /\ owner' = owner
      /\ native' = native /\ bound' = bound /\ literals' = literals /\ cache' = cache
  BY DEF GenerateSend, space, classes, code
<1>2. Keeps
  BY <1>1 DEF Keeps, classes
<1>3. n \in 1..n /\ lookups \in Seq(Call) /\ Top = lookups[n] /\ Top \in Call /\ Top \in SoundCalls
  BY <1>1, TopFacts DEF Inv, TypeOK
<1>4. lookups' = [lookups EXCEPT ![n] = q]
  <2>1. [lookups EXCEPT ![n].embedded = e][n].todo = Top.todo
    <3> HIDE DEF e
    <3> QED
      BY <1>3 DEF Call
  <2>2. lookups' = EmbedsThen(lookups, n, e, d)
    BY <1>1, <1>3, <2>1 DEF EmbedsThen
  <2> HIDE DEF e, d
  <2>3. lookups' = Replaced(lookups, n, q)
    BY <1>3, <2>2, TwoFields
  <2> QED
    BY <2>3 DEF Replaced
<1>5. /\ Top.todo \in Seq(SendSite) /\ Tail(Top.todo) \in Seq(SendSite) /\ Head(Top.todo) \in SendSite
      /\ Top.embedded \subseteq Literal /\ Top.bound \subseteq Bound
  <2>1. Top.todo \in Seq(SendSite) /\ Top.embedded \subseteq Literal /\ Top.bound \subseteq Bound
    BY <1>3 DEF Call
  <2> QED
    BY <1>1, <2>1, HeadTailProperties
<1>6. e \subseteq Literal
  <2>1. LiteralOf(Head(Top.todo).sel) \in Literal
    BY <1>1, HeadSite, LiteralType DEF Inv
  <2> QED
    BY <1>5, <2>1
<1> HIDE DEF e, d
<1>7. /\ q \in Call /\ q.class = Top.class /\ q.sel = Top.sel /\ q.method = Top.method
      /\ q.todo = d /\ q.bound = Top.bound
  <2>1. d \in Seq(SendSite)
    BY <1>5 DEF d
  <2> QED
    BY <1>3, <1>5, <1>6, <2>1, MadeCall
<1> HIDE DEF q
<1>8. Progress(q)
  BY <1>1, <1>3, <1>7, TailProgress DEF SoundCalls, d
<1>9. q \in SoundCalls
  BY <1>3, <1>7, <1>8 DEF SoundCalls
<1>10. lookups' \in Seq(Call) /\ StackInv'
  <2>1. lookups # << >>
    BY <1>1
  <2>2. q \in SoundCalls'
    BY <1>2, <1>9, CallsStay
  <2> QED
    BY <1>2, <1>3, <1>4, <1>7, <2>1, <2>2, SetTopSound DEF Inv, StackInv
<1>11. TypeOK'
  BY <1>1, <1>10 DEF Inv, TypeOK
<1> QED
  BY <1>1, <1>2, <1>10, <1>11, ProgramStays, CodeStays, EntriesStay DEF Inv

LEMMA GeneratedStep ==
  ASSUME Inv, Generated
  PROVE  Inv'
<1> DEFINE n == Len(lookups)
           m == Top.method
           q == Made(Top, Top.todo, {}, Top.bound)
<1>1. /\ lookups # << >> /\ Top.todo = << >> /\ m \in Method /\ m \notin native
      /\ lookups' = [lookups EXCEPT ![n].embedded = {}]
      /\ native' = native \union {m} /\ bound' = [bound EXCEPT ![m] = Top.bound]
      /\ literals' = [literals EXCEPT ![m] = Top.embedded]
      /\ addr' = addr /\ survived' = survived /\ active' = active
      /\ parent' = parent /\ dict' = dict /\ owner' = owner /\ cache' = cache
  BY DEF Generated, WithCode, space, classes, code
<1>2. Keeps
  BY <1>1 DEF Keeps, classes
<1>3. n \in 1..n /\ lookups \in Seq(Call) /\ Top = lookups[n] /\ Top \in Call /\ Top \in SoundCalls
  BY <1>1, TopFacts DEF Inv, TypeOK
<1>4. lookups' = [lookups EXCEPT ![n] = q]
  <2>1. lookups' = Settled(lookups, n, {})
    BY <1>1 DEF Settled
  <2>2. lookups' = Replaced(lookups, n, q)
    BY <1>3, <2>1, TwoFields
  <2> QED
    BY <2>2 DEF Replaced
<1>5. /\ Top.todo \in Seq(SendSite)
      /\ Top.embedded \subseteq Literal /\ Top.bound \subseteq Bound
  BY <1>3 DEF Call
<1>6. /\ q \in Call /\ q.class = Top.class /\ q.sel = Top.sel /\ q.method = m
      /\ q.todo = Top.todo /\ q.bound = Top.bound
  BY <1>3, <1>5, MadeCall
<1> HIDE DEF q
<1>7. /\ Progress(Top) /\ m # Nil /\ Exists(Top.class) /\ Exists(Top.sel)
      /\ Top.method = Answer(Top.class, Top.sel)
      /\ \A b \in Top.bound : <<b.for, b.code>> \in Right
  BY <1>1, <1>3, LookupAssumption DEF SoundCalls
<1>8. q \in SoundCalls
  BY <1>6, <1>7 DEF SoundCalls, Progress
<1>9. lookups' \in Seq(Call) /\ StackInv'
  <2>1. lookups # << >>
    BY <1>1
  <2>2. q \in SoundCalls'
    BY <1>2, <1>8, CallsStay
  <2> QED
    BY <1>2, <1>3, <1>4, <1>6, <2>1, <2>2, SetTopSound DEF Inv, StackInv
<1> HIDE DEF m
<1>10. TypeOK'
  <2>1. /\ bound' \in [Method -> SUBSET Bound] /\ native' \subseteq Method
        /\ literals' \in [Method -> SUBSET Literal]
    BY <1>1, <1>5 DEF Inv, TypeOK
  <2> QED
    BY <1>1, <1>9, <2>1 DEF Inv, TypeOK
<1>11. \A k, i, B : Covered(k, i, B)' <=> Covered(k, i, B)
  BY <1>1 DEF Covered, OperandClass
<1>12. /\ owner[m] # Nil
       /\ \A i \in 1..Len(Body[m]) : Covered(m, i, Top.bound)
  <2>1. Len(Top.todo) = 0 /\ Len(Body[m]) \in Nat
    BY <1>1, LookupAssumption
  <2>2. Len(Body[m]) - Len(Top.todo) = Len(Body[m])
    BY <2>1
  <2> QED
    BY <1>1, <1>7, <2>2 DEF Progress, m
<1>13. bound'[m] = Top.bound /\ \A k \in Method \ {m} : bound'[k] = bound[k]
  BY <1>1 DEF Inv, TypeOK
<1>14. NativeInv'
  <2> SUFFICES ASSUME NEW k \in native'
               PROVE  /\ owner[k] # Nil
                      /\ dict[owner[k]][SelectorOf[k]] = k =>
                           \A i \in 1..Len(Body[k]) : Covered(k, i, bound'[k])
    BY <1>1, <1>11 DEF NativeInv
  <2>1. CASE k = m
    BY <1>12, <1>13, <2>1
  <2>2. CASE k # m
    <3>1. k \in native /\ k \in Method
      BY <1>1, <2>2 DEF Inv, TypeOK
    <3> QED
      BY <1>13, <2>2, <3>1 DEF Inv, NativeInv
  <2> QED
    BY <2>1, <2>2
<1>15. BoundInv'
  <2> SUFFICES ASSUME NEW k \in Method, NEW b \in bound'[k], ~b.outdated
               PROVE  <<b.for, b.code>> \in Right'
    BY DEF BoundInv
  <2>1. <<b.for, b.code>> \in Right
    BY <1>7, <1>13 DEF Inv, BoundInv
  <2> QED
    BY <1>2, <2>1, RightStays
<1> QED
  BY <1>1, <1>2, <1>9, <1>10, <1>14, <1>15, ProgramStays, EntriesStay DEF Inv

LEMMA LookupReturnsStep ==
  ASSUME Inv, LookupReturns
  PROVE  Inv'
<1> DEFINE n == Len(lookups)
           c == Top.class
           s == Top.sel
           m == Top.method
           found == CodeFor(m, s)
           h == Hash[<<addr[c], addr[s]>>]
           e == EntryOf(c, s, m)
           rest == SubSeq(lookups, 1, n - 1)
           new == [for |-> <<c, s>>, code |-> found, outdated |-> FALSE]
<1>1. /\ lookups # << >>
      /\ cache' = [cache EXCEPT ![h] = e]
      /\ lookups' = IF rest = << >> THEN rest
                    ELSE [rest EXCEPT ![Len(rest)].todo = Tail(@), ![Len(rest)].bound = @ \union {new}]
      /\ addr' = addr /\ survived' = survived /\ active' = active
      /\ parent' = parent /\ dict' = dict /\ owner' = owner
      /\ native' = native /\ bound' = bound /\ literals' = literals
  BY DEF LookupReturns, space, classes, code
<1>2. Keeps
  BY <1>1 DEF Keeps, classes
<1>3. n \in Nat \ {0} /\ lookups \in Seq(Call) /\ Top = lookups[n] /\ Top \in Call /\ Top \in SoundCalls
  BY <1>1, TopFacts DEF Inv, TypeOK
<1>4. /\ c \in Class /\ s \in Selector /\ addr[c] # Nil /\ addr[s] # Nil
      /\ m = Answer(c, s)
  BY <1>3 DEF SoundCalls, Call, Exists
<1>5. addr[c] \in Addr /\ addr[s] \in Addr /\ h \in Index
  <2>1. addr[c] \in Addr /\ addr[s] \in Addr
    BY <1>4 DEF Inv, TypeOK, Object
  <2> QED
    BY <2>1, LookupAssumption
<1>6. <<<<c, s>>, found>> \in Right /\ found \in Code
  BY <1>4, AnswerFacts DEF Inv, Right, Exists
<1>7. /\ e.class = addr[c] /\ e.sel = addr[s] /\ e.code = found /\ e.for = <<c, s>>
      /\ e.outdated = FALSE /\ e \in Entry
  BY <1>4, <1>5, <1>6 DEF EntryOf, Entry
<1>8. new \in Bound /\ new.for = <<c, s>> /\ new.code = found
  BY <1>4, <1>6 DEF Bound
<1> HIDE DEF c, s, m, found, h, e, new
<1>9. cache' \in [Index -> Entry \union {Nil}] /\ cache'[h] = e
      /\ \A i \in Index : i # h => cache'[i] = cache[i]
  BY <1>1, <1>5, <1>7 DEF Inv, TypeOK
<1>10. EntriesInv'
  <2> SUFFICES ASSUME NEW i \in Index, cache'[i] # Nil, ~cache'[i].outdated
               PROVE  /\ cache'[i].class = addr'[cache'[i].for[1]] /\ cache'[i].sel = addr'[cache'[i].for[2]]
                      /\ Hash[<<cache'[i].class, cache'[i].sel>>] = i
                      /\ <<cache'[i].for, cache'[i].code>> \in Right'
    BY DEF EntriesInv
  <2>1. CASE i = h
    <3>1. cache'[i] = e /\ e.for[1] = c /\ e.for[2] = s
      BY <1>7, <1>9, <2>1
    <3>2. Hash[<<e.class, e.sel>>] = i
      BY <1>7, <2>1 DEF h
    <3>3. <<e.for, e.code>> \in Right'
      BY <1>2, <1>6, <1>7, RightStays
    <3> QED
      BY <1>1, <1>7, <3>1, <3>2, <3>3
  <2>2. CASE i # h
    <3>1. cache'[i] = cache[i] /\ addr' = addr
      BY <1>1, <1>9, <2>2
    <3>2. /\ cache[i].class = addr[cache[i].for[1]] /\ cache[i].sel = addr[cache[i].for[2]]
          /\ Hash[<<cache[i].class, cache[i].sel>>] = i
          /\ <<cache[i].for, cache[i].code>> \in Right
      BY <3>1 DEF Inv, EntriesInv
    <3>3. <<cache[i].for, cache[i].code>> \in Right'
      BY <1>2, <3>2, RightStays
    <3> QED
      BY <3>1, <3>2, <3>3
  <2> QED
    BY <2>1, <2>2
<1>11. /\ rest \in Seq(Call) /\ Len(rest) = n - 1
       /\ \A k \in 1..(n - 1) : rest[k] = lookups[k]
  <2>1. \A k \in 1..(n - 1) : lookups[k] \in Call
    BY <1>3
  <2>2. rest = [k \in 1..(n - 1) |-> lookups[k]] /\ n - 1 \in Nat
    BY <1>3
  <2> DEFINE j == n - 1
  <2> HIDE DEF rest, j
  <2>3. rest \in [1..j -> Call] /\ j \in Nat /\ \A k \in 1..j : rest[k] = lookups[k]
    BY <2>1, <2>2 DEF j
  <2>4. rest \in Seq(Call) /\ Len(rest) = j
    BY <2>3
  <2> QED
    BY <2>3, <2>4 DEF j
<1>12. lookups' \in Seq(Call) /\ StackInv'
  <2>1. CASE n = 1
    <3>1. rest = << >>
      BY <1>11, <2>1, EmptySeq
    <3>2. lookups' = << >>
      BY <1>1, <3>1
    <3> QED
      BY <3>2 DEF StackInv
  <2>2. CASE n # 1
    <3> DEFINE k == n - 1
               q == lookups[k]
               d == Tail(q.todo)
               b == q.bound \union {new}
               r == Made(q, d, q.embedded, b)
    <3>1. k \in 1..n /\ k \in Nat \ {0} /\ k + 1 = n /\ Len(rest) = k /\ k \in 1..k
      BY <1>3, <1>11, <2>2
    <3>2. rest # << >> /\ rest[k] = q
      BY <1>11, <3>1, EmptySeq
    <3>3. q \in Call /\ q \in SoundCalls /\ <<q, Top>> \in Asking
      BY <1>3, <3>1 DEF Inv, StackInv
    <3>4. /\ q.todo # << >> /\ q.todo \in Seq(SendSite)
          /\ c = OperandClass(Head(q.todo), owner[q.method]) /\ s = Head(q.todo).sel
          /\ q.embedded \subseteq Literal /\ q.bound \subseteq Bound
          /\ Progress(q)
      BY <3>3 DEF Asking, SoundCalls, Call, c, s
    <3>5. d \in Seq(SendSite) /\ b \subseteq Bound
      BY <1>8, <3>4, HeadTailProperties
    <3>6. lookups' = [rest EXCEPT ![k] = r]
      <4>1. lookups' = [rest EXCEPT ![k].todo = d, ![k].bound = b]
        <5>1. [rest EXCEPT ![k].todo = Tail(rest[k].todo)][k].bound = q.bound
          BY <1>11, <3>1, <3>2, <3>3 DEF Call
        <5> HIDE DEF rest, q, k
        <5> QED
          BY <1>1, <3>1, <3>2, <5>1
      <4> HIDE DEF rest, d, b, k
      <4>2. lookups' = Answered(rest, k, d, b)
        BY <4>1 DEF Answered
      <4>3. Answered(rest, k, d, b) = Replaced(rest, k, Made(q, d, q.embedded, b))
        <5> HIDE DEF q
        <5> QED
          BY <1>11, <3>1, <3>2, TwoFields
      <4> QED
        BY <4>2, <4>3 DEF Replaced
    <3> HIDE DEF rest, d, b
    <3>7. /\ r \in Call /\ r.class = q.class /\ r.sel = q.sel /\ r.method = q.method
          /\ r.todo = d /\ r.bound = b
      <4> HIDE DEF q
      <4> QED
        BY <3>3, <3>4, <3>5, MadeCall
    <3> HIDE DEF q, r
    <3>8. Progress(r)
      <4>1. q.bound \subseteq r.bound /\ new \in r.bound
        BY <3>7 DEF b
      <4>2. new.for[1] = OperandClass(Head(q.todo), owner[q.method]) /\ new.for[2] = Head(q.todo).sel
        BY <1>8, <3>4
      <4> QED
        BY <3>3, <3>4, <3>7, <4>1, <4>2, TailProgress DEF d
    <3>9. r \in SoundCalls
      <4>1. \A x \in r.bound : <<x.for, x.code>> \in Right
        BY <1>6, <1>8, <3>3, <3>7 DEF SoundCalls, b
      <4> QED
        BY <3>3, <3>7, <3>8, <4>1 DEF SoundCalls
    <3>10. /\ \A j \in 1..k : rest[j] \in SoundCalls
           /\ \A j \in 1..(k - 1) : <<rest[j], rest[j + 1]>> \in Asking
      <4>1. \A j \in 1..k : rest[j] = lookups[j] /\ j \in 1..n
        BY <1>3, <1>11
      <4>2. \A j \in 1..(k - 1) : j \in 1..k /\ j + 1 \in 1..k /\ j \in 1..(n - 1)
        BY <1>3
      <4> HIDE DEF k
      <4> QED
        BY <4>1, <4>2 DEF Inv, StackInv
    <3> HIDE DEF k
    <3> QED
      BY <1>2, <1>11, <3>1, <3>2, <3>6, <3>7, <3>9, <3>10, CallsStay, SetTopSound
  <2> QED
    BY <2>1, <2>2
<1>13. TypeOK'
  BY <1>1, <1>9, <1>12 DEF Inv, TypeOK
<1> QED
  BY <1>1, <1>2, <1>10, <1>12, <1>13, ProgramStays, CodeStays DEF Inv

(* What is right of a pair: the fields that a step looks at.               *)
LEMMA RightPair ==
  ASSUME NEW for, NEW x, <<for, x>> \in Right
  PROVE  /\ for[1] \in Class /\ for[2] \in Selector /\ for = <<for[1], for[2]>> /\ x \in Code
         /\ addr[for[1]] # Nil /\ addr[for[2]] # Nil /\ Runs(x, for)
BY DEF Right, Exists

LEMMA CellFacts == Cell \subseteq Addr /\ Nil \notin Addr /\ Nil \notin Cell /\ Nil \notin Object
BY LookupAssumption DEF Addr

LEMMA InternStep ==
  ASSUME Inv, NEW s \in Selector, Intern(s)
  PROVE  Inv'
<1>1. /\ lookups = << >> /\ addr[s] = Nil
      /\ survived' = survived /\ active' = active
      /\ parent' = parent /\ dict' = dict /\ owner' = owner
      /\ native' = native /\ bound' = bound /\ literals' = literals /\ cache' = cache /\ lookups' = lookups
  BY DEF Intern, classes, code, Exists
<1>2. PICK a \in FreeCells : addr' = [addr EXCEPT ![s] = a]
  BY DEF Intern
<1>3. a \in Addr /\ a # Nil
  <2>1. a \in Cell
    <3>1. active \in 0..1
      BY DEF Inv, TypeOK
    <3> QED
      BY <3>1 DEF FreeCells, Cell
  <2> QED
    BY <2>1, CellFacts
<1>4. /\ addr' \in [Object -> Addr \union {Nil}]
      /\ \A o \in Object : o # s => addr'[o] = addr[o]
      /\ addr'[s] # Nil
  BY <1>2, <1>3 DEF Inv, TypeOK, Object
<1>5. Keeps
  <2>1. s \notin Class
    BY LookupAssumption
  <2> QED
    BY <1>1, <1>4, <2>1 DEF Keeps, classes, Object
<1>6. EntriesInv'
  <2> SUFFICES ASSUME NEW i \in Index, cache[i] # Nil, ~cache[i].outdated
               PROVE  /\ cache[i].class = addr'[cache[i].for[1]] /\ cache[i].sel = addr'[cache[i].for[2]]
                      /\ Hash[<<cache[i].class, cache[i].sel>>] = i
                      /\ <<cache[i].for, cache[i].code>> \in Right'
    BY <1>1 DEF EntriesInv
  <2>1. /\ cache[i].class = addr[cache[i].for[1]] /\ cache[i].sel = addr[cache[i].for[2]]
        /\ Hash[<<cache[i].class, cache[i].sel>>] = i
        /\ <<cache[i].for, cache[i].code>> \in Right
    BY DEF Inv, EntriesInv
  <2>2. /\ cache[i].for[1] \in Object /\ cache[i].for[2] \in Object
        /\ cache[i].for[1] # s /\ cache[i].for[2] # s
    BY <1>1, <2>1, RightPair DEF Object
  <2> QED
    BY <1>4, <1>5, <2>1, <2>2, RightStays
<1>7. TypeOK'
  BY <1>1, <1>4 DEF Inv, TypeOK
<1> QED
  BY <1>1, <1>5, <1>6, <1>7, ProgramStays, CodeStays, StackStays DEF Inv

(* The calls after a scavenge.                                             *)
Embedding(q, e) == [q EXCEPT !.embedded = e]

LEMMA EmbeddingFacts ==
  ASSUME NEW q \in Call, NEW e, e \subseteq Literal
  PROVE  LET r == Embedding(q, e) IN
         /\ r \in Call /\ r.class = q.class /\ r.sel = q.sel /\ r.method = q.method
         /\ r.todo = q.todo /\ r.embedded = e /\ r.bound = q.bound
         /\ q \in SoundCalls => r \in SoundCalls
<1> DEFINE r == Embedding(q, e)
<1>1. /\ r \in Call /\ r.class = q.class /\ r.sel = q.sel /\ r.method = q.method
      /\ r.todo = q.todo /\ r.embedded = e /\ r.bound = q.bound
  BY DEF Embedding, Call
<1> HIDE DEF r
<1>2. q \in SoundCalls => r \in SoundCalls
  BY <1>1 DEF SoundCalls, Progress
<1> QED
  BY <1>1, <1>2 DEF r

(* A literal in a buffer after a scavenge, and one in finished code.       *)
Flagged(l, moving) == [l EXCEPT !.moved = @ \/ l.sel \in moving]

LEMMA LiteralFacts ==
  ASSUME NEW l \in Literal, NEW moving, NEW to, \A o \in moving : to[o] \in Addr
  PROVE  /\ Flagged(l, moving) \in Literal /\ Flagged(l, moving).sel = l.sel
         /\ Flagged(l, moving).addr = l.addr
         /\ ~Flagged(l, moving).moved => ~l.moved /\ l.sel \notin moving
         /\ Rewritten(l, to, moving) \in Literal /\ Rewritten(l, to, moving).sel = l.sel
         /\ Rewritten(l, to, moving).moved = l.moved
<1>1. /\ Flagged(l, moving) \in Literal /\ Flagged(l, moving).sel = l.sel
      /\ Flagged(l, moving).addr = l.addr
      /\ ~Flagged(l, moving).moved => ~l.moved /\ l.sel \notin moving
  <2> DEFINE v == l.moved \/ l.sel \in moving
             f == Flagged(l, moving)
  <2>1. v \in BOOLEAN /\ (~v => ~l.moved /\ l.sel \notin moving)
    OBVIOUS
  <2>2. f = [l EXCEPT !.moved = v]
    BY DEF Flagged
  <2> HIDE DEF v, f
  <2>3. f \in Literal /\ f.sel = l.sel /\ f.addr = l.addr /\ f.moved = v
    BY <2>1, <2>2 DEF Literal
  <2> QED
    BY <2>1, <2>3 DEF f
<1>2. /\ Rewritten(l, to, moving) \in Literal /\ Rewritten(l, to, moving).sel = l.sel
      /\ Rewritten(l, to, moving).moved = l.moved
  <2>1. CASE \E o \in moving : addr[o] = l.addr
    <3> DEFINE x == to[CHOOSE o \in moving : addr[o] = l.addr]
    <3>1. x \in Addr
      BY <2>1
    <3>2. Rewritten(l, to, moving) = [l EXCEPT !.addr = x]
      BY <2>1 DEF Rewritten
    <3> HIDE DEF x
    <3> QED
      BY <3>1, <3>2 DEF Literal
  <2>2. CASE ~\E o \in moving : addr[o] = l.addr
    BY <2>2 DEF Rewritten
  <2> QED
    BY <2>1, <2>2
<1> QED
  BY <1>1, <1>2

(* Where a scavenge puts what it moves.                                    *)
Placing(to, moving) ==
  /\ \A o \in moving : to[o] \in Cell \/ to[o] = o
  /\ \A o, p \in moving : o # p => to[o] # to[p]
  /\ addr' = [o \in Object |-> IF o \in moving THEN to[o] ELSE addr[o]]
  /\ literals' = [m \in Method |-> { Rewritten(l, to, moving) : l \in literals[m] }]

LEMMA ScavengePlaces ==
  ASSUME TypeOK, Scavenge
  PROVE  \E to : Placing(to, Young)
<1> DEFINE cells == { <<1 - active, i>> : i \in 1..NewCells }
<1>1. PICK to \in [Young -> cells \union Young] :
        /\ \A o \in Young : IF o \in survived THEN to[o] = o ELSE to[o] \in cells
        /\ \A o, p \in Young : o # p => to[o] # to[p]
        /\ addr' = [o \in Object |-> IF o \in Young THEN to[o] ELSE addr[o]]
        /\ literals' = [m \in Method |-> { Rewritten(l, to, Young) : l \in literals[m] }]
  BY DEF Scavenge
<1>2. cells \subseteq Cell
  <2>1. 1 - active \in 0..1
    BY DEF TypeOK
  <2> QED
    BY <2>1 DEF Cell
<1> HIDE DEF cells
<1> QED
  BY <1>1, <1>2 DEF Placing

LEMMA ScavengeStep ==
  ASSUME Inv, Scavenge
  PROVE  Inv'
<1> DEFINE moving == Young
           n == Len(lookups)
           new(q) == { Flagged(l, moving) : l \in q.embedded }
<1>1. /\ survived' = moving \ survived /\ active' = 1 - active
      /\ lookups' = [k \in 1..n |-> Embedding(lookups[k], new(lookups[k]))]
      /\ cache' = [i \in Index |->
                    IF cache[i] # Nil /\ {cache[i].for[1], cache[i].for[2]} \intersect moving # {}
                    THEN [cache[i] EXCEPT !.outdated = TRUE] ELSE cache[i]]
      /\ parent' = parent /\ dict' = dict /\ owner' = owner
      /\ native' = native /\ bound' = bound
  BY DEF Scavenge, classes, Embedding, Flagged
<1>2. PICK to : Placing(to, moving)
  BY ScavengePlaces DEF Inv
<1>3. moving \subseteq Object /\ \A o \in moving : addr[o] # Nil
  BY CellFacts DEF Young
<1>4. \A o \in moving : to[o] \in Addr /\ to[o] # Nil
  BY <1>2, <1>3, CellFacts DEF Placing, Addr
<1>5. /\ addr' \in [Object -> Addr \union {Nil}]
      /\ \A o \in Object : addr'[o] # Nil <=> addr[o] # Nil
      /\ \A o \in Object \ moving : addr'[o] = addr[o]
  <2>1. addr \in [Object -> Addr \union {Nil}]
    BY DEF Inv, TypeOK
  <2> HIDE DEF moving
  <2>2. addr' = [o \in Object |-> IF o \in moving THEN to[o] ELSE addr[o]]
    BY <1>2 DEF Placing
  <2>3. \A o \in Object : addr'[o] \in Addr \union {Nil} /\ (addr'[o] # Nil <=> addr[o] # Nil)
    BY <1>3, <1>4, <2>1, <2>2
  <2> QED
    BY <2>2, <2>3
<1> HIDE DEF moving, n
<1>6. Keeps
  BY <1>1, <1>5 DEF Keeps, classes, Object
<1>7. lookups \in Seq(Call) /\ n \in Nat
  BY DEF Inv, TypeOK, n
<1>8. \A k \in 1..n : lookups[k] \in Call /\ new(lookups[k]) \subseteq Literal
  <2> TAKE k \in 1..n
  <2>1. lookups[k] \in Call
    BY <1>7 DEF n
  <2>2. ASSUME NEW q \in Call PROVE q.embedded \subseteq Literal
    BY DEF Call
  <2>3. lookups[k].embedded \subseteq Literal
    BY <2>1, <2>2
  <2>4. \A l \in lookups[k].embedded : Flagged(l, moving) \in Literal
    BY <1>4, <2>3, LiteralFacts
  <2> QED
    BY <2>1, <2>4
<1> HIDE DEF new
<1>9. \A k \in 1..n :
        /\ lookups'[k] \in Call /\ lookups'[k].class = lookups[k].class
        /\ lookups'[k].sel = lookups[k].sel /\ lookups'[k].method = lookups[k].method
        /\ lookups'[k].todo = lookups[k].todo
        /\ lookups[k] \in SoundCalls => lookups'[k] \in SoundCalls
  <2> TAKE k \in 1..n
  <2>1. lookups'[k] = Embedding(lookups[k], new(lookups[k]))
    BY <1>1
  <2> QED
    BY <1>8, <2>1, EmbeddingFacts
<1>10. lookups' \in Seq(Call) /\ Len(lookups') = n
  <2>1. lookups' = [k \in 1..n |-> lookups'[k]]
    BY <1>1
  <2>2. lookups' \in [1..n -> Call]
    BY <1>9, <2>1
  <2> QED
    BY <1>7, <2>2
<1>11. StackInv'
  <2>1. \A k \in 1..n : lookups'[k] \in SoundCalls'
    BY <1>6, <1>9, CallsStay DEF Inv, StackInv, n
  <2>2. \A k \in 1..(n - 1) : <<lookups'[k], lookups'[k + 1]>> \in Asking
    <3> TAKE k \in 1..(n - 1)
    <3>1. k \in 1..n /\ k + 1 \in 1..n
      BY <1>7
    <3>2. <<lookups[k], lookups[k + 1]>> \in Asking
      BY DEF Inv, StackInv, n
    <3> QED
      BY <1>9, <3>1, <3>2 DEF Asking
  <2> QED
    BY <1>6, <1>10, <2>1, <2>2, AskingStays DEF StackInv
<1>12. \A i \in Index :
         /\ cache'[i] \in Entry \union {Nil}
         /\ cache'[i] # Nil /\ ~cache'[i].outdated =>
              /\ cache'[i] = cache[i] /\ {cache[i].for[1], cache[i].for[2]} \intersect moving = {}
  <2> TAKE i \in Index
  <2>1. cache[i] \in Entry \union {Nil}
    BY DEF Inv, TypeOK
  <2>2. CASE cache[i] # Nil /\ {cache[i].for[1], cache[i].for[2]} \intersect moving # {}
    <3>1. cache[i] \in Entry /\ cache'[i] = [cache[i] EXCEPT !.outdated = TRUE]
      BY <1>1, <2>1, <2>2
    <3>2. cache'[i] \in Entry /\ cache'[i].outdated
      BY <3>1 DEF Entry
    <3> QED
      BY <3>2
  <2>3. CASE ~(cache[i] # Nil /\ {cache[i].for[1], cache[i].for[2]} \intersect moving # {})
    <3>1. cache'[i] = cache[i]
      BY <1>1, <2>3
    <3> QED
      BY <2>1, <2>3, <3>1
  <2> QED
    BY <2>2, <2>3
<1>13. EntriesInv'
  <2> SUFFICES ASSUME NEW i \in Index, cache'[i] # Nil, ~cache'[i].outdated
               PROVE  /\ cache'[i].class = addr'[cache'[i].for[1]] /\ cache'[i].sel = addr'[cache'[i].for[2]]
                      /\ Hash[<<cache'[i].class, cache'[i].sel>>] = i
                      /\ <<cache'[i].for, cache'[i].code>> \in Right'
    BY DEF EntriesInv
  <2>1. cache'[i] = cache[i] /\ cache[i].for[1] \notin moving /\ cache[i].for[2] \notin moving
    BY <1>12
  <2>2. /\ cache[i].class = addr[cache[i].for[1]] /\ cache[i].sel = addr[cache[i].for[2]]
        /\ Hash[<<cache[i].class, cache[i].sel>>] = i
        /\ <<cache[i].for, cache[i].code>> \in Right
    BY <2>1 DEF Inv, EntriesInv
  <2>3. cache[i].for[1] \in Object /\ cache[i].for[2] \in Object
    BY <2>2, RightPair DEF Object
  <2> QED
    BY <1>5, <1>6, <2>1, <2>2, <2>3, RightStays
<1>14. TypeOK'
  <2>1. cache' \in [Index -> Entry \union {Nil}]
    <3>1. cache' = [i \in Index |-> cache'[i]]
      BY <1>1
    <3> QED
      BY <1>12, <3>1
  <2>2. survived' \subseteq Object /\ active' \in 0..1
    BY <1>1, <1>3 DEF Inv, TypeOK
  <2>3. literals' \in [Method -> SUBSET Literal]
    <3>1. literals' = [m \in Method |-> { Rewritten(l, to, moving) : l \in literals[m] }]
      BY <1>2 DEF Placing
    <3>2. \A m \in Method : \A l \in literals[m] : l \in Literal
      BY DEF Inv, TypeOK
    <3>3. \A m \in Method : { Rewritten(l, to, moving) : l \in literals[m] } \subseteq Literal
      BY <1>4, <3>2, LiteralFacts
    <3> QED
      BY <3>1, <3>3
  <2> QED
    BY <1>1, <1>5, <1>10, <2>1, <2>2, <2>3 DEF Inv, TypeOK
<1>15. NativeInv' /\ BoundInv'
  BY <1>1, <1>6, CodeStays DEF Inv
<1> QED
  BY <1>6, <1>11, <1>13, <1>14, <1>15, ProgramStays DEF Inv
-----------------------------------------------------------------------------
(* Classes that are defined, for the first time or again.                  *)

LEMMA AncestorsOfAll ==
  parent \in [Class -> Class \union {Nil}] =>
    \A c \in Class :
      /\ Ancestors(c) \subseteq Class /\ c \in Ancestors(c)
      /\ \A x \in Ancestors(c) : parent[x] # Nil => parent[x] \in Ancestors(c)
      /\ \A S \in SUBSET Class :
           c \in S /\ (\A x \in S : parent[x] # Nil => parent[x] \in S) => Ancestors(c) \subseteq S
<1> SUFFICES ASSUME parent \in [Class -> Class \union {Nil}], NEW c \in Class
             PROVE  /\ Ancestors(c) \subseteq Class /\ c \in Ancestors(c)
                    /\ \A x \in Ancestors(c) : parent[x] # Nil => parent[x] \in Ancestors(c)
                    /\ \A S \in SUBSET Class :
                         c \in S /\ (\A x \in S : parent[x] # Nil => parent[x] \in S)
                         => Ancestors(c) \subseteq S
  OBVIOUS
<1>1. ASSUME NEW S \in SUBSET Class, c \in S, \A x \in S : parent[x] # Nil => parent[x] \in S
      PROVE  Ancestors(c) \subseteq S
  BY <1>1, AncestorsLeast
<1> QED
  BY <1>1, AncestorsFacts

LEMMA AncestorsOfAllNext == (parent \in [Class -> Class \union {Nil}] =>
    \A c \in Class :
      /\ Ancestors(c) \subseteq Class /\ c \in Ancestors(c)
      /\ \A x \in Ancestors(c) : parent[x] # Nil => parent[x] \in Ancestors(c)
      /\ \A S \in SUBSET Class :
           c \in S /\ (\A x \in S : parent[x] # Nil => parent[x] \in S) => Ancestors(c) \subseteq S)'
BY AncestorsOfAll, PTL

(* A class that is not above x may get another superclass.                 *)
LEMMA AncestorsSame ==
  ASSUME parent \in [Class -> Class \union {Nil}], parent' \in [Class -> Class \union {Nil}],
         NEW c, NEW x \in Class, c \notin Ancestors(x),
         \A y \in Class : y # c => parent'[y] = parent[y]
  PROVE  Ancestors(x)' = Ancestors(x)
<1>1. Ancestors(x) \subseteq Class /\ x \in Ancestors(x) /\ Ancestors(x)' \subseteq Class /\ x \in Ancestors(x)'
  BY AncestorsOfAll, AncestorsOfAllNext
<1>2. \A y \in Ancestors(x) : parent'[y] # Nil => parent'[y] \in Ancestors(x)
  BY <1>1, AncestorsOfAll
<1>3. Ancestors(x)' \subseteq Ancestors(x)
  BY <1>1, <1>2, AncestorsOfAllNext
<1>4. \A y \in Ancestors(x)' : parent[y] # Nil => parent[y] \in Ancestors(x)'
  <2> SUFFICES ASSUME NEW y \in Ancestors(x)', parent[y] # Nil PROVE parent[y] \in Ancestors(x)'
    OBVIOUS
  <2>1. y \in Class /\ y # c
    BY <1>1, <1>3
  <2> QED
    BY <2>1, AncestorsOfAllNext
<1>5. Ancestors(x) \subseteq Ancestors(x)'
  BY <1>1, <1>4, AncestorsOfAll
<1> QED
  BY <1>3, <1>5

LEMMA RunsSame ==
  ASSUME parent \in [Class -> Class \union {Nil}], parent' \in [Class -> Class \union {Nil}],
         NEW c, NEW x \in Class, c \notin Ancestors(x),
         \A y \in Class : y # c => parent'[y] = parent[y] /\ dict'[y] = dict[y],
         NEW s, NEW code1, Runs(code1, <<x, s>>)
  PROVE  Runs(code1, <<x, s>>)'
<1>1. Ancestors(x)' = Ancestors(x) /\ Ancestors(x) \subseteq Class
  BY AncestorsSame, AncestorsFacts
<1>2. \A a \in Ancestors(x) : a \in Class /\ a # c
  BY <1>1
<1>3. \A a \in Ancestors(x) : dict'[a] = dict[a]
  BY <1>2
<1>4. \A a \in Ancestors(x) : Ancestors(a)' = Ancestors(a)
  <2> TAKE a \in Ancestors(x)
  <2>1. a \in Class /\ \A y \in Ancestors(x) : parent[y] # Nil => parent[y] \in Ancestors(x)
    BY <1>1, AncestorsOfAll
  <2>2. Ancestors(a) \subseteq Ancestors(x)
    BY <1>1, <2>1, AncestorsOfAll
  <2>3. c \notin Ancestors(a)
    BY <2>2
  <2> QED
    BY <2>1, <2>3, AncestorsSame
<1> DEFINE has == { a \in Ancestors(x) : dict[a][s] # Nil }
<1>5. \/ has = {} /\ code1 = s
      \/ \E a \in has : dict[a][s] = code1 /\ \A b \in has : b \in Ancestors(a)
  BY DEF Runs
<1>6. has = { a \in Ancestors(x)' : dict'[a][s] # Nil }
  BY <1>1, <1>3
<1>7. ASSUME NEW a \in has, dict[a][s] = code1, \A b \in has : b \in Ancestors(a)
      PROVE  dict'[a][s] = code1 /\ \A b \in has : b \in Ancestors(a)'
  BY <1>3, <1>4, <1>7
<1>8. \/ has = {} /\ code1 = s
      \/ \E a \in has : dict'[a][s] = code1 /\ \A b \in has : b \in Ancestors(a)'
  BY <1>5, <1>7
<1> QED
  BY <1>6, <1>8 DEF Runs

(* What an existing class inherits from exists.                            *)
LEMMA AncestorsExist ==
  ASSUME TypeOK, ClassesInv, NEW x \in Class, addr[x] # Nil
  PROVE  \A a \in Ancestors(x) : addr[a] # Nil
<1> DEFINE S == { a \in Class : addr[a] # Nil }
<1>1. S \in SUBSET Class /\ x \in S
  OBVIOUS
<1>2. ASSUME NEW a \in S, parent[a] # Nil PROVE parent[a] \in S
  BY <1>2 DEF TypeOK, ClassesInv, Exists
<1>3. Ancestors(x) \subseteq S
  <2> HIDE DEF S
  <2> QED
    BY <1>1, <1>2, AncestorsLeast
<1> QED
  BY <1>3

LEMMA CompiledStep ==
  ASSUME Inv, NEW c \in Class, NEW p \in Class, NEW ms \in SUBSET Method, Compiled(c, p, ms),
         c # Kernel, addr[p] # Nil, addr' \in [Object -> Addr \union {Nil}], addr'[c] # Nil,
         \A o \in Object : o # c => addr'[o] = addr[o]
  PROVE  /\ parent' \in [Class -> Class \union {Nil}]
         /\ dict' \in [Class -> [Selector -> Method \union {Nil}]]
         /\ owner' \in [Method -> Class \union {Nil}]
         /\ ClassesInv' /\ MethodsInv' /\ DictsInv'
         /\ \A y \in Class : y # c => parent'[y] = parent[y] /\ dict'[y] = dict[y]
         /\ \A m \in Method : owner[m] # Nil => owner'[m] = owner[m]
         /\ \A m \in Method, s \in Selector : owner[m] # Nil => dict'[c][s] # m
<1> DEFINE new == [s \in Selector |-> IF \E m \in ms : SelectorOf[m] = s
                                      THEN CHOOSE m \in ms : SelectorOf[m] = s ELSE Nil]
<1>1. /\ parent' = [parent EXCEPT ![c] = p] /\ dict' = [dict EXCEPT ![c] = new]
      /\ owner' = [m \in Method |-> IF m \in ms THEN c ELSE owner[m]]
      /\ \A m \in ms : owner[m] = Nil
      /\ \A m \in ms : \A i \in 1..Len(Body[m]) : addr[Body[m][i].sel] # Nil /\ addr[Body[m][i].class] # Nil
  BY DEF Compiled, Exists
<1>2. /\ parent \in [Class -> Class \union {Nil}] /\ dict \in [Class -> [Selector -> Method \union {Nil}]]
      /\ owner \in [Method -> Class \union {Nil}]
  BY DEF Inv, TypeOK
<1>3. ASSUME NEW s \in Selector, new[s] # Nil PROVE new[s] \in ms /\ SelectorOf[new[s]] = s
  <2>1. PICK m \in ms : SelectorOf[m] = s
    BY <1>3
  <2> QED
    BY <2>1
<1>4. new \in [Selector -> Method \union {Nil}]
  <2>1. \A s \in Selector : new[s] \in Method \union {Nil}
    BY <1>3
  <2>2. new = [s \in Selector |-> new[s]]
    OBVIOUS
  <2> HIDE DEF new
  <2> QED
    BY <2>1, <2>2
<1> HIDE DEF new
<1>5. /\ parent' \in [Class -> Class \union {Nil}]
      /\ dict' \in [Class -> [Selector -> Method \union {Nil}]]
      /\ owner' \in [Method -> Class \union {Nil}]
      /\ parent'[c] = p /\ dict'[c] = new
      /\ \A y \in Class : y # c => parent'[y] = parent[y] /\ dict'[y] = dict[y]
      /\ \A m \in Method : owner'[m] = IF m \in ms THEN c ELSE owner[m]
  BY <1>1, <1>2, <1>4
<1>6. Nil \notin Method /\ Nil \notin Class /\ Kernel \in Class
  BY LookupAssumption DEF Object
<1>7. \A o \in Object : addr[o] # Nil => addr'[o] # Nil
  OBVIOUS
<1>8. ClassesInv'
  <2>1. \A y \in Class : addr'[y] # Nil => parent'[y] = Nil \/ addr'[parent'[y]] # Nil
    <3> SUFFICES ASSUME NEW y \in Class, addr'[y] # Nil, parent'[y] # Nil PROVE addr'[parent'[y]] # Nil
      OBVIOUS
    <3>1. CASE y = c
      BY <1>5, <1>7, <3>1 DEF Object
    <3>2. CASE y # c
      <4>1. addr[y] # Nil /\ parent'[y] = parent[y] /\ parent[y] \in Class
        BY <1>2, <1>5, <3>2 DEF Object
      <4>2. addr[parent[y]] # Nil
        BY <4>1 DEF Inv, ClassesInv, Exists
      <4> QED
        BY <1>7, <4>1, <4>2 DEF Object
    <3> QED
      BY <3>1, <3>2
  <2>2. addr'[Kernel] # Nil
    BY <1>6, <1>7 DEF Inv, ClassesInv, Exists, Object
  <2>3. \A y \in Class : addr'[y] # Nil /\ y # Kernel => parent'[y] # Nil
    <3> SUFFICES ASSUME NEW y \in Class, addr'[y] # Nil, y # Kernel PROVE parent'[y] # Nil
      OBVIOUS
    <3>1. CASE y = c
      BY <1>5, <1>6, <3>1
    <3>2. CASE y # c
      BY <1>5, <3>2 DEF Inv, ClassesInv, Exists, Object
    <3> QED
      BY <3>1, <3>2
  <2> QED
    BY <2>1, <2>2, <2>3 DEF ClassesInv, Exists
<1>9. MethodsInv'
  <2> SUFFICES ASSUME NEW m \in Method, owner'[m] # Nil
               PROVE  /\ addr'[owner'[m]] # Nil /\ (owner'[m] = Kernel => m = KernelMethod)
                      /\ \A i \in 1..Len(Body[m]) : addr'[Body[m][i].sel] # Nil /\ addr'[Body[m][i].class] # Nil
    BY DEF MethodsInv, Exists
  <2>1. \A i \in 1..Len(Body[m]) : Body[m][i].sel \in Object /\ Body[m][i].class \in Object
    BY SiteType DEF Object
  <2>2. CASE m \in ms
    <3>1. owner'[m] = c /\ \A i \in 1..Len(Body[m]) : addr[Body[m][i].sel] # Nil /\ addr[Body[m][i].class] # Nil
      BY <1>1, <1>5, <2>2
    <3> QED
      BY <1>7, <2>1, <3>1
  <2>3. CASE m \notin ms
    <3>1. owner'[m] = owner[m] /\ owner[m] \in Class
      BY <1>2, <1>5, <2>3
    <3>2. /\ addr[owner[m]] # Nil /\ (owner[m] = Kernel => m = KernelMethod)
          /\ \A i \in 1..Len(Body[m]) : addr[Body[m][i].sel] # Nil /\ addr[Body[m][i].class] # Nil
      BY <3>1 DEF Inv, MethodsInv, Exists
    <3> QED
      BY <1>7, <2>1, <3>1, <3>2 DEF Object
  <2> QED
    BY <2>2, <2>3
<1>10. DictsInv'
  <2> SUFFICES ASSUME NEW y \in Class, NEW s \in Selector, dict'[y][s] # Nil
               PROVE  owner'[dict'[y][s]] = y /\ SelectorOf[dict'[y][s]] = s
    BY DEF DictsInv
  <2>1. CASE y = c
    <3>1. new[s] \in ms /\ SelectorOf[new[s]] = s
      BY <1>3, <1>5, <2>1
    <3> QED
      BY <1>5, <2>1, <3>1
  <2>2. CASE y # c
    <3>1. dict'[y][s] = dict[y][s] /\ dict[y][s] \in Method
      BY <1>2, <1>5, <2>2
    <3>2. owner[dict[y][s]] = y /\ SelectorOf[dict[y][s]] = s
      BY <3>1 DEF Inv, DictsInv
    <3>3. dict[y][s] \notin ms
      BY <1>1, <1>6, <3>2
    <3> QED
      BY <1>5, <3>1, <3>2, <3>3
  <2> QED
    BY <2>1, <2>2
<1>11. \A m \in Method, s \in Selector : owner[m] # Nil => dict'[c][s] # m
  BY <1>1, <1>3, <1>5, <1>6
<1> QED
  BY <1>1, <1>5, <1>8, <1>9, <1>10, <1>11

(* What the classes that c is not above run stays, and with it the sends   *)
(* and entries made for them, whose names exist.                           *)
LEMMA RightUnlessOutdated ==
  ASSUME Inv, NEW c \in Class, parent' \in [Class -> Class \union {Nil}],
         \A o \in Object : addr[o] # Nil => addr'[o] # Nil,
         \A y \in Class : y # c => parent'[y] = parent[y] /\ dict'[y] = dict[y],
         NEW for, NEW x, <<for, x>> \in Right, c \notin Ancestors(for[1])
  PROVE  <<for, x>> \in Right'
<1>1. /\ for[1] \in Class /\ for[2] \in Selector /\ for = <<for[1], for[2]>> /\ x \in Code
      /\ addr[for[1]] # Nil /\ addr[for[2]] # Nil /\ Runs(x, for)
  BY RightPair
<1>2. addr'[for[1]] # Nil /\ addr'[for[2]] # Nil
  BY <1>1 DEF Object
<1>3. parent \in [Class -> Class \union {Nil}]
  BY DEF Inv, TypeOK
<1>4. Runs(x, <<for[1], for[2]>>)'
  <2> DEFINE y == for[1]
             s == for[2]
  <2>1. y \in Class /\ c \notin Ancestors(y) /\ Runs(x, <<y, s>>)
    BY <1>1
  <2> HIDE DEF y, s
  <2>2. Runs(x, <<y, s>>)'
    BY <1>3, <2>1, RunsSame
  <2> QED
    BY <2>2 DEF y, s
<1> DEFINE y == for[1]
           s == for[2]
<1>5. for = <<y, s>> /\ y \in Class /\ s \in Selector /\ addr'[y] # Nil /\ addr'[s] # Nil /\ Runs(x, <<y, s>>)'
  BY <1>1, <1>2, <1>4
<1> HIDE DEF y, s
<1> QED
  BY <1>1, <1>5 DEF Right, Exists

(* The code that is there goes on to cover its sends.                      *)
LEMMA NativeUnderDefinition ==
  ASSUME Inv, NEW c \in Class, native' = native,
         \A y \in Class : y # c => parent'[y] = parent[y] /\ dict'[y] = dict[y],
         \A m \in Method : owner[m] # Nil => owner'[m] = owner[m],
         \A m \in Method, s \in Selector : owner[m] # Nil => dict'[c][s] # m,
         \A m \in Method : \A b \in bound[m] : \E d \in bound'[m] : d.for = b.for
  PROVE  NativeInv'
<1> SUFFICES ASSUME NEW m \in native
             PROVE  /\ owner'[m] # Nil
                    /\ dict'[owner'[m]][SelectorOf[m]] = m =>
                         \A i \in 1..Len(Body[m]) : Covered(m, i, bound[m])'
  BY DEF NativeInv
<1>1. m \in Method /\ owner[m] # Nil /\ owner'[m] = owner[m] /\ owner[m] \in Class /\ SelectorOf[m] \in Selector
  <2>1. m \in Method /\ owner[m] \in Class \union {Nil}
    BY DEF Inv, TypeOK
  <2> QED
    BY <2>1, LookupAssumption DEF Inv, NativeInv
<1>2. ASSUME dict'[owner'[m]][SelectorOf[m]] = m, NEW i \in 1..Len(Body[m]) PROVE Covered(m, i, bound[m])'
  <2>1. owner[m] # c
    BY <1>1, <1>2
  <2>2. dict'[owner[m]] = dict[owner[m]] /\ parent'[owner[m]] = parent[owner[m]]
    BY <1>1, <2>1
  <2>3. Covered(m, i, bound[m])
    BY <1>1, <1>2, <2>2 DEF Inv, NativeInv
  <2>4. OperandClass(Body[m][i], owner[m])' = OperandClass(Body[m][i], owner[m])
    BY <1>1, <2>2 DEF OperandClass
  <2> QED
    BY <1>1, <2>3, <2>4 DEF Covered
<1> QED
  BY <1>1, <1>2

LEMMA DefineClassStep ==
  ASSUME Inv, NEW c \in Class, NEW p \in Class, NEW ms \in SUBSET Method, DefineClass(c, p, ms)
  PROVE  Inv'
<1>1. /\ lookups = << >> /\ addr[c] = Nil /\ addr[p] # Nil /\ Compiled(c, p, ms)
      /\ survived' = survived /\ active' = active
      /\ native' = native /\ bound' = bound /\ literals' = literals /\ cache' = cache /\ lookups' = lookups
  BY DEF DefineClass, code, Exists
<1>2. PICK a \in FreeCells : addr' = [addr EXCEPT ![c] = a]
  BY DEF DefineClass
<1>3. a \in Addr /\ a # Nil
  <2>1. a \in Cell
    <3>1. active \in 0..1
      BY DEF Inv, TypeOK
    <3> QED
      BY <3>1 DEF FreeCells, Cell
  <2> QED
    BY <2>1, CellFacts
<1>4. /\ addr' \in [Object -> Addr \union {Nil}]
      /\ \A o \in Object : o # c => addr'[o] = addr[o]
      /\ addr'[c] # Nil
  BY <1>2, <1>3 DEF Inv, TypeOK, Object
<1>5. \A o \in Object : addr[o] # Nil => addr'[o] # Nil
  BY <1>4
<1>6. c # Kernel
  BY <1>1 DEF Inv, ClassesInv, Exists
<1>7. /\ parent' \in [Class -> Class \union {Nil}]
      /\ dict' \in [Class -> [Selector -> Method \union {Nil}]]
      /\ owner' \in [Method -> Class \union {Nil}]
      /\ ClassesInv' /\ MethodsInv' /\ DictsInv'
      /\ \A y \in Class : y # c => parent'[y] = parent[y] /\ dict'[y] = dict[y]
      /\ \A m \in Method : owner[m] # Nil => owner'[m] = owner[m]
      /\ \A m \in Method, s \in Selector : owner[m] # Nil => dict'[c][s] # m
  BY <1>1, <1>4, <1>6, CompiledStep
<1>8. ASSUME NEW for, NEW x, <<for, x>> \in Right
      PROVE  <<for, x>> \in Right' /\ for[1] \in Object \ {c} /\ for[2] \in Object \ {c}
  <2>1. for[1] \in Class /\ for[2] \in Selector /\ addr[for[1]] # Nil /\ addr[for[2]] # Nil
    BY <1>8, RightPair
  <2>2. c \notin Ancestors(for[1])
    BY <1>1, <2>1, AncestorsExist DEF Inv
  <2> QED
    BY <1>1, <1>5, <1>7, <1>8, <2>1, <2>2, RightUnlessOutdated DEF Object
<1>9. EntriesInv'
  <2> SUFFICES ASSUME NEW i \in Index, cache[i] # Nil, ~cache[i].outdated
               PROVE  /\ cache[i].class = addr'[cache[i].for[1]] /\ cache[i].sel = addr'[cache[i].for[2]]
                      /\ Hash[<<cache[i].class, cache[i].sel>>] = i
                      /\ <<cache[i].for, cache[i].code>> \in Right'
    BY <1>1 DEF EntriesInv
  <2>1. /\ cache[i].class = addr[cache[i].for[1]] /\ cache[i].sel = addr[cache[i].for[2]]
        /\ Hash[<<cache[i].class, cache[i].sel>>] = i
        /\ <<cache[i].for, cache[i].code>> \in Right
    BY DEF Inv, EntriesInv
  <2> QED
    BY <1>4, <1>8, <2>1
<1>10. BoundInv'
  BY <1>1, <1>8 DEF Inv, BoundInv
<1>11. NativeInv'
  BY <1>1, <1>7, NativeUnderDefinition
<1>12. TypeOK'
  BY <1>1, <1>4, <1>7 DEF Inv, TypeOK
<1>13. StackInv'
  BY <1>1 DEF StackInv
<1> QED
  BY <1>7, <1>9, <1>10, <1>11, <1>12, <1>13 DEF Inv

LEMMA RedefineClassStep ==
  ASSUME Inv, NEW c \in Class, NEW p \in Class, NEW ms \in SUBSET Method, RedefineClass(c, p, ms)
  PROVE  Inv'
<1> DEFINE late(b) == [b EXCEPT !.outdated = b.outdated \/ Outdates(b.for, c)]
<1>1. /\ lookups = << >> /\ addr[c] # Nil /\ c # Kernel /\ addr[p] # Nil /\ Compiled(c, p, ms)
      /\ addr' = addr /\ survived' = survived /\ active' = active
      /\ native' = native /\ literals' = literals /\ lookups' = lookups
      /\ cache' = [i \in Index |->
                IF cache[i] # Nil /\ Outdates(cache[i].for, c)
                THEN [cache[i] EXCEPT !.outdated = TRUE] ELSE cache[i]]
      /\ bound' = [m \in Method |-> { late(b) : b \in bound[m] }]
  BY DEF RedefineClass, space, Exists
<1>2. addr \in [Object -> Addr \union {Nil}]
  BY DEF Inv, TypeOK
<1>3. /\ parent' \in [Class -> Class \union {Nil}]
      /\ dict' \in [Class -> [Selector -> Method \union {Nil}]]
      /\ owner' \in [Method -> Class \union {Nil}]
      /\ ClassesInv' /\ MethodsInv' /\ DictsInv'
      /\ \A y \in Class : y # c => parent'[y] = parent[y] /\ dict'[y] = dict[y]
      /\ \A m \in Method : owner[m] # Nil => owner'[m] = owner[m]
      /\ \A m \in Method, s \in Selector : owner[m] # Nil => dict'[c][s] # m
  BY <1>1, <1>2, CompiledStep
<1>4. ASSUME NEW for, NEW x, <<for, x>> \in Right, ~Outdates(for, c)
      PROVE  <<for, x>> \in Right'
  BY <1>1, <1>3, <1>4, RightUnlessOutdated DEF Outdates
<1>5. \A i \in Index :
        /\ cache'[i] \in Entry \union {Nil}
        /\ cache'[i] # Nil /\ ~cache'[i].outdated => cache'[i] = cache[i] /\ ~Outdates(cache[i].for, c)
  <2> TAKE i \in Index
  <2>1. cache[i] \in Entry \union {Nil}
    BY DEF Inv, TypeOK
  <2>2. CASE cache[i] # Nil /\ Outdates(cache[i].for, c)
    <3>1. cache[i] \in Entry /\ cache'[i] = [cache[i] EXCEPT !.outdated = TRUE]
      BY <1>1, <2>1, <2>2
    <3>2. cache'[i] \in Entry /\ cache'[i].outdated
      BY <3>1 DEF Entry
    <3> QED
      BY <3>2
  <2>3. CASE ~(cache[i] # Nil /\ Outdates(cache[i].for, c))
    <3>1. cache'[i] = cache[i]
      BY <1>1, <2>3
    <3> QED
      BY <2>1, <2>3, <3>1
  <2> QED
    BY <2>2, <2>3
<1>6. ASSUME NEW b \in Bound
      PROVE  /\ late(b) \in Bound /\ late(b).for = b.for /\ late(b).code = b.code
             /\ ~late(b).outdated => ~b.outdated /\ ~Outdates(b.for, c)
  <2>1. (b.outdated \/ Outdates(b.for, c)) \in BOOLEAN
    OBVIOUS
  <2> DEFINE o == b.outdated \/ Outdates(b.for, c)
  <2>2. o \in BOOLEAN /\ (~o => ~b.outdated /\ ~Outdates(b.for, c))
    BY <2>1
  <2>3. late(b) = [b EXCEPT !.outdated = o]
    OBVIOUS
  <2> HIDE DEF o, late
  <2>4. late(b) \in Bound /\ late(b).for = b.for /\ late(b).code = b.code /\ late(b).outdated = o
    BY <2>2, <2>3 DEF Bound
  <2> QED
    BY <2>2, <2>4
<1> HIDE DEF late
<1>7. \A m \in Method : bound[m] \subseteq Bound /\ bound'[m] = { late(b) : b \in bound[m] }
  BY <1>1 DEF Inv, TypeOK
<1>8. EntriesInv'
  <2> SUFFICES ASSUME NEW i \in Index, cache'[i] # Nil, ~cache'[i].outdated
               PROVE  /\ cache'[i].class = addr'[cache'[i].for[1]] /\ cache'[i].sel = addr'[cache'[i].for[2]]
                      /\ Hash[<<cache'[i].class, cache'[i].sel>>] = i
                      /\ <<cache'[i].for, cache'[i].code>> \in Right'
    BY DEF EntriesInv
  <2>1. cache'[i] = cache[i] /\ ~Outdates(cache[i].for, c)
    BY <1>5
  <2>2. /\ cache[i].class = addr[cache[i].for[1]] /\ cache[i].sel = addr[cache[i].for[2]]
        /\ Hash[<<cache[i].class, cache[i].sel>>] = i
        /\ <<cache[i].for, cache[i].code>> \in Right
    BY <2>1 DEF Inv, EntriesInv
  <2> QED
    BY <1>1, <1>4, <2>1, <2>2
<1>9. BoundInv'
  <2> SUFFICES ASSUME NEW m \in Method, NEW d \in bound'[m], ~d.outdated PROVE <<d.for, d.code>> \in Right'
    BY DEF BoundInv
  <2>1. PICK b \in bound[m] : d = late(b)
    BY <1>7
  <2>2. b \in Bound
    BY <1>7
  <2>3. d.for = b.for /\ d.code = b.code /\ ~b.outdated /\ ~Outdates(b.for, c)
    BY <1>6, <2>1, <2>2
  <2>4. <<b.for, b.code>> \in Right
    BY <2>3 DEF Inv, BoundInv
  <2> QED
    BY <1>4, <2>3, <2>4
<1>10. \A m \in Method : \A b \in bound[m] : \E d \in bound'[m] : d.for = b.for
  <2> TAKE m \in Method
  <2> TAKE b \in bound[m]
  <2>1. b \in Bound /\ late(b) \in bound'[m]
    BY <1>7
  <2> QED
    BY <1>6, <2>1
<1>11. NativeInv'
  BY <1>1, <1>3, <1>10, NativeUnderDefinition
<1>12. bound' \in [Method -> SUBSET Bound]
  <2>1. \A m \in Method : bound'[m] \subseteq Bound
    <3> SUFFICES ASSUME NEW m \in Method, NEW d \in bound'[m] PROVE d \in Bound
      OBVIOUS
    <3>1. PICK b \in bound[m] : d = late(b)
      BY <1>7
    <3> QED
      BY <1>6, <1>7, <3>1
  <2>2. bound' = [m \in Method |-> bound'[m]]
    BY <1>1
  <2> QED
    BY <2>1, <2>2
<1>13. cache' \in [Index -> Entry \union {Nil}]
  <2>1. cache' = [i \in Index |-> cache'[i]]
    BY <1>1
  <2> QED
    BY <1>5, <2>1
<1>14. TypeOK'
  BY <1>1, <1>3, <1>12, <1>13 DEF Inv, TypeOK
<1>15. StackInv'
  BY <1>1 DEF StackInv
<1> QED
  BY <1>3, <1>8, <1>9, <1>11, <1>14, <1>15 DEF Inv

-----------------------------------------------------------------------------
(* The theorems.                                                           *)

LEMMA InitInv == Init => Inv
<1> SUFFICES ASSUME Init PROVE Inv
  OBVIOUS
<1>1. /\ Kernel \in Class /\ KernelSymbol \in Selector /\ KernelMethod \in Method
      /\ Class \intersect Selector = {} /\ Nil \notin Object /\ Nil \notin Method
      /\ SelectorOf[KernelMethod] = KernelSymbol /\ Body[KernelMethod] = << >>
  BY LookupAssumption
<1>2. /\ addr = [o \in Object |-> IF o \in {Kernel, KernelSymbol} THEN o ELSE Nil]
      /\ survived = {} /\ active = 0
      /\ parent = [c \in Class |-> Nil]
      /\ dict = [c \in Class |-> [s \in Selector |->
                  IF <<c, s>> = <<Kernel, KernelSymbol>> THEN KernelMethod ELSE Nil]]
      /\ owner = [m \in Method |-> IF m = KernelMethod THEN Kernel ELSE Nil]
      /\ native = {} /\ bound = [m \in Method |-> {}] /\ literals = [m \in Method |-> {}]
      /\ cache = [i \in Index |-> Nil] /\ lookups = << >>
  BY DEF Init
<1>3. addr \in [Object -> Addr \union {Nil}]
  BY <1>2 DEF Addr
<1>4. /\ \A c \in Class, s \in Selector :
           dict[c][s] = IF c = Kernel /\ s = KernelSymbol THEN KernelMethod ELSE Nil
      /\ dict \in [Class -> [Selector -> Method \union {Nil}]]
  BY <1>1, <1>2
<1>5. TypeOK
  BY <1>1, <1>2, <1>3, <1>4 DEF TypeOK
<1>6. ClassesInv
  <2>1. addr[Kernel] = Kernel /\ \A c \in Class : addr[c] # Nil => c = Kernel
    BY <1>1, <1>2 DEF Object
  <2> QED
    BY <1>1, <1>2, <2>1 DEF ClassesInv, Exists, Object
<1>7. MethodsInv
  <2> SUFFICES ASSUME NEW m \in Method, owner[m] # Nil
               PROVE  /\ addr[owner[m]] # Nil /\ (owner[m] = Kernel => m = KernelMethod)
                      /\ \A i \in 1..Len(Body[m]) : addr[Body[m][i].sel] # Nil /\ addr[Body[m][i].class] # Nil
    BY DEF MethodsInv, Exists
  <2>1. m = KernelMethod /\ owner[m] = Kernel
    BY <1>2
  <2>2. addr[Kernel] # Nil
    BY <1>6 DEF ClassesInv, Exists
  <2>3. 1..Len(Body[m]) = {}
    BY <1>1, <2>1
  <2> QED
    BY <2>1, <2>2, <2>3
<1>8. DictsInv
  BY <1>1, <1>2, <1>4 DEF DictsInv
<1>9. EntriesInv /\ NativeInv /\ BoundInv
  BY <1>2 DEF EntriesInv, NativeInv, BoundInv
<1>10. StackInv
  BY <1>2 DEF StackInv
<1> QED
  BY <1>5, <1>6, <1>7, <1>8, <1>9, <1>10 DEF Inv

LEMMA NextInv == Inv /\ [Next]_vars => Inv'
<1> SUFFICES ASSUME Inv, [Next]_vars PROVE Inv'
  OBVIOUS
<1>1. CASE GenerateSend
  BY <1>1, GenerateSendStep
<1>2. CASE BindSend
  BY <1>2, BindSendStep
<1>3. CASE Generated
  BY <1>3, GeneratedStep
<1>4. CASE LookupReturns
  BY <1>4, LookupReturnsStep
<1>5. CASE Scavenge
  BY <1>5, ScavengeStep
<1>6. ASSUME NEW s \in Selector, Intern(s) PROVE Inv'
  BY <1>6, InternStep
<1>7. ASSUME NEW c \in Class, NEW s \in Selector, Send(c, s) PROVE Inv'
  BY <1>7, SendStep
<1>8. ASSUME NEW c \in Class, NEW p \in Class, NEW ms \in SUBSET Method, DefineClass(c, p, ms) PROVE Inv'
  BY <1>8, DefineClassStep
<1>9. ASSUME NEW c \in Class, NEW p \in Class, NEW ms \in SUBSET Method, RedefineClass(c, p, ms) PROVE Inv'
  BY <1>9, RedefineClassStep
<1>10. CASE UNCHANGED vars
  <2>1. Keeps /\ UNCHANGED <<addr, survived, active, native, bound, literals, cache, lookups>>
    BY <1>10 DEF vars, Keeps, classes
  <2>2. TypeOK'
    BY <1>10 DEF vars, Inv, TypeOK
  <2> QED
    BY <2>1, <2>2, ProgramStays, CodeStays, EntriesStay, StackStays DEF Inv
<1> QED
  BY <1>1, <1>2, <1>3, <1>4, <1>5, <1>6, <1>7, <1>8, <1>9, <1>10 DEF Next, Step

THEOREM InvHolds == Spec => []Inv
<1> QED
  BY InitInv, NextInv, PTL DEF Spec

(* Every variable of the lookup stays of its type.                         *)
THEOREM TypeCorrect == Spec => []TypeOK
<1>1. Inv => TypeOK
  BY DEF Inv
<1> QED
  BY <1>1, InvHolds, PTL

(* An entry that nothing outdated is found by the send it was made for and *)
(* gives the code that send is to run: generateMethodLookup compares, and  *)
(* lookupNativeCode writes, the addresses that class and selector have.    *)
THEOREM EntriesAnswerHolds == Spec => []EntriesAnswer
<1>1. Inv => EntriesAnswer
  <2> SUFFICES ASSUME Inv, NEW i \in Index, cache[i] # Nil, ~cache[i].outdated
               PROVE  /\ Hits(i, addr[cache[i].for[1]], addr[cache[i].for[2]])
                      /\ Hash[<<cache[i].class, cache[i].sel>>] = i
                      /\ Runs(cache[i].code, cache[i].for)
    BY DEF EntriesAnswer
  <2>1. /\ cache[i].class = addr[cache[i].for[1]] /\ cache[i].sel = addr[cache[i].for[2]]
        /\ Hash[<<cache[i].class, cache[i].sel>>] = i
        /\ <<cache[i].for, cache[i].code>> \in Right
    BY DEF Inv, EntriesInv
  <2> QED
    BY <2>1, RightPair DEF Hits
<1> QED
  BY <1>1, InvHolds, PTL

(* The sends to constants in a method's machine code call what the class   *)
(* of the constant, or the superclass of the method's class, runs: so      *)
(* generateSend bound them, through any nesting of lookups.                *)
THEOREM BoundSendsAnswerHolds == Spec => []BoundSendsAnswer
<1>1. Inv => BoundSendsAnswer
  <2> SUFFICES ASSUME Inv, NEW m \in native, dict[owner[m]][SelectorOf[m]] = m,
                      NEW i \in 1..Len(Body[m]), Body[m][i].to # "variable"
               PROVE  \E b \in bound[m] :
                        /\ b.for[1] = IF Body[m][i].to = "super" THEN parent[owner[m]] ELSE Body[m][i].class
                        /\ b.for[2] = Body[m][i].sel
                        /\ ~b.outdated => Runs(b.code, b.for)
    BY DEF BoundSendsAnswer
  <2>1. Covered(m, i, bound[m])
    BY DEF Inv, NativeInv
  <2>2. PICK b \in bound[m] : b.for[1] = OperandClass(Body[m][i], owner[m]) /\ b.for[2] = Body[m][i].sel
    BY <2>1 DEF Covered
  <2>3. m \in Method
    BY DEF Inv, TypeOK
  <2>4. ~b.outdated => Runs(b.code, b.for)
    BY <2>3, RightPair DEF Inv, BoundInv
  <2> QED
    BY <2>2, <2>4 DEF OperandClass
<1> QED
  BY <1>1, InvHolds, PTL

-----------------------------------------------------------------------------
(* The selectors in machine code.                                          *)

(* No two objects share a cell.                                            *)
CellsInv == \A o, p \in Object : addr[o] = addr[p] /\ addr[o] \in Cell => o = p

Following == { l \in Literal : ~l.moved => l.addr = addr[l.sel] }

LiteralsInv ==
  /\ \A m \in Method : literals[m] \subseteq Following
  /\ \A k \in 1..Len(lookups) : lookups[k].embedded \subseteq Following

(* A new object takes a free cell: no literal is that of a new selector.   *)
LEMMA CreationLiterals ==
  ASSUME Inv, CellsInv, LiteralsInv, NEW x \in Object, addr[x] = Nil, NEW a \in FreeCells,
         addr' = [addr EXCEPT ![x] = a], UNCHANGED <<literals, lookups>>
  PROVE  CellsInv' /\ LiteralsInv'
<1>1. addr \in [Object -> Addr \union {Nil}] /\ a \in Cell /\ \A o \in Young : addr[o] # a
  BY DEF Inv, TypeOK, FreeCells, Cell
<1>2. addr'[x] = a /\ \A o \in Object : o # x => addr'[o] = addr[o] /\ addr[o] # a
  BY <1>1 DEF Young
<1>3. CellsInv'
  BY <1>2 DEF CellsInv
<1>4. Following \subseteq Following'
  <2> SUFFICES ASSUME NEW l \in Following, ~l.moved PROVE l.addr = addr'[l.sel]
    BY DEF Following
  <2>1. l.addr = addr[l.sel] /\ l.addr \in Addr /\ l.sel \in Object
    BY DEF Following, Literal, Object
  <2>2. l.sel # x
    BY <2>1, CellFacts
  <2> QED
    BY <1>2, <2>1, <2>2
<1> QED
  BY <1>3, <1>4 DEF LiteralsInv

(* What the scavenger finds at the address of a selector is the selector.  *)
LEMMA ScavengeLiterals ==
  ASSUME Inv, CellsInv, LiteralsInv, Scavenge
  PROVE  CellsInv' /\ LiteralsInv'
<1> DEFINE moving == Young
           n == Len(lookups)
           new(q) == { Flagged(l, moving) : l \in q.embedded }
<1>1. PICK to : Placing(to, moving)
  BY ScavengePlaces DEF Inv
<1>2. /\ addr' = [o \in Object |-> IF o \in moving THEN to[o] ELSE addr[o]]
      /\ literals' = [m \in Method |-> { Rewritten(l, to, moving) : l \in literals[m] }]
      /\ \A o, p \in moving : o # p => to[o] # to[p]
      /\ \A o \in moving : to[o] \in Addr
  BY <1>1 DEF Placing, Young, Addr
<1>3. lookups' = [k \in 1..n |-> Embedding(lookups[k], new(lookups[k]))]
  BY DEF Scavenge, Embedding, Flagged
<1>4. /\ moving \subseteq Object /\ \A o \in moving : addr[o] \in Cell
      /\ \A o \in Object \ moving : addr[o] \notin Cell
  BY DEF Young
<1>5. lookups \in Seq(Call) /\ n \in Nat
  BY DEF Inv, TypeOK
<1> HIDE DEF moving, n
<1>6. /\ \A o \in moving : addr'[o] = to[o]
      /\ \A o \in Object \ moving : addr'[o] = addr[o]
  BY <1>2, <1>4
<1>7. CellsInv'
  <2> SUFFICES ASSUME NEW o \in Object, NEW p \in Object, addr'[o] = addr'[p], addr'[o] \in Cell
               PROVE  o = p
    BY DEF CellsInv
  <2> QED
    BY <1>2, <1>4, <1>6
<1>8. ASSUME NEW l \in Following PROVE Rewritten(l, to, moving) \in Following'
  <2>1. l \in Literal /\ l.sel \in Object /\ (~l.moved => l.addr = addr[l.sel])
    BY DEF Following, Literal, Object
  <2> DEFINE r == Rewritten(l, to, moving)
  <2>2. r \in Literal /\ r.sel = l.sel /\ r.moved = l.moved
    BY <1>2, <2>1, LiteralFacts
  <2>3. ASSUME ~l.moved PROVE r.addr = addr'[l.sel]
    <3>1. CASE l.sel \in moving
      <4> DEFINE o == CHOOSE p \in moving : addr[p] = l.addr
      <4>1. o \in moving /\ addr[o] = l.addr /\ r = [l EXCEPT !.addr = to[o]]
        BY <2>1, <2>3, <3>1 DEF Rewritten
      <4>2. o = l.sel
        BY <1>4, <2>1, <2>3, <4>1 DEF CellsInv
      <4> HIDE DEF o, r
      <4>3. r.addr = to[o]
        BY <2>1, <4>1 DEF Literal
      <4> QED
        BY <1>6, <3>1, <4>2, <4>3
    <3>2. CASE l.sel \notin moving
      <4>1. ~\E o \in moving : addr[o] = l.addr
        BY <1>4, <2>1, <2>3, <3>2
      <4>2. r = l
        BY <4>1 DEF Rewritten
      <4> QED
        BY <1>6, <2>1, <2>3, <3>2, <4>2
    <3> QED
      BY <3>1, <3>2
  <2> HIDE DEF r
  <2>4. r \in Following'
    BY <2>2, <2>3 DEF Following
  <2> QED
    BY <2>4 DEF r
<1>9. ASSUME NEW l \in Following PROVE Flagged(l, moving) \in Following'
  <2>1. l \in Literal /\ l.sel \in Object /\ (~l.moved => l.addr = addr[l.sel])
    BY DEF Following, Literal, Object
  <2> DEFINE r == Flagged(l, moving)
  <2>2. r \in Literal /\ r.sel = l.sel /\ r.addr = l.addr /\ (~r.moved => ~l.moved /\ l.sel \notin moving)
    BY <1>2, <2>1, LiteralFacts
  <2> HIDE DEF r
  <2>3. r \in Following'
    BY <1>6, <2>1, <2>2 DEF Following
  <2> QED
    BY <2>3 DEF r
<1>10. \A m \in Method : literals'[m] \subseteq Following'
  <2> SUFFICES ASSUME NEW m \in Method, NEW r \in literals'[m] PROVE r \in Following'
    OBVIOUS
  <2>1. PICK l \in literals[m] : r = Rewritten(l, to, moving)
    BY <1>2
  <2>2. l \in Following
    BY DEF LiteralsInv
  <2> QED
    BY <1>8, <2>1, <2>2
<1>11. Len(lookups') = n /\ \A k \in 1..n : lookups'[k].embedded \subseteq Following'
  <2>1. Len(lookups') = n
    BY <1>3, <1>5
  <2>2. ASSUME NEW k \in 1..n PROVE lookups'[k].embedded \subseteq Following'
    <3>1. lookups[k] \in Call /\ lookups[k].embedded \subseteq Following
      BY <1>5 DEF LiteralsInv, n
    <3>2. \A l \in lookups[k].embedded : l \in Literal /\ Flagged(l, moving) \in Literal
      BY <1>2, <3>1, LiteralFacts DEF Following
    <3>3. \A l \in lookups[k].embedded : Flagged(l, moving) \in Following'
      BY <1>9, <3>1
    <3>4. new(lookups[k]) \subseteq Literal /\ new(lookups[k]) \subseteq Following'
      BY <3>2, <3>3
    <3> HIDE DEF new
    <3>5. lookups'[k] = Embedding(lookups[k], new(lookups[k]))
      BY <1>3, <2>2
    <3>6. lookups'[k].embedded = new(lookups[k])
      BY <3>1, <3>4, <3>5, EmbeddingFacts
    <3> QED
      BY <3>4, <3>6
  <2> QED
    BY <2>1, <2>2
<1> QED
  BY <1>7, <1>10, <1>11 DEF LiteralsInv, n

LEMMA LiteralsNext ==
  Inv /\ CellsInv /\ LiteralsInv /\ [Next]_vars => CellsInv' /\ LiteralsInv'
<1> SUFFICES ASSUME Inv, CellsInv, LiteralsInv, [Next]_vars PROVE CellsInv' /\ LiteralsInv'
  OBVIOUS
<1> DEFINE n == Len(lookups)
<1>1. lookups \in Seq(Call) /\ n \in Nat /\ \A k \in 1..n : lookups[k] \in Call
  BY DEF Inv, TypeOK
<1>2. /\ \A m \in Method : literals[m] \subseteq Following
      /\ \A k \in 1..n : lookups[k].embedded \subseteq Following
  BY DEF LiteralsInv
<1>3. lookups # << >> => n \in 1..n /\ Top = lookups[n]
  BY <1>1, EmptySeq DEF Top
<1>4. \A c, s : Looking(c, s).embedded = {}
  BY DEF Looking
<1>5. ASSUME addr' = addr PROVE CellsInv' /\ Following' = Following
  BY <1>5 DEF CellsInv, Following
<1> HIDE DEF n
<1>6. CASE GenerateSend
  <2> DEFINE x == LiteralOf(Head(Top.todo).sel)
  <2>1. lookups # << >> /\ Top.todo # << >> /\ literals' = literals /\ addr' = addr
    BY <1>6 DEF GenerateSend, code, space
  <2>2. lookups' = [lookups EXCEPT ![n].embedded = @ \union {x}, ![n].todo = Tail(@)]
    BY <1>6 DEF GenerateSend, n
  <2>3. x \in Following
    <3>1. Head(Top.todo).sel \in Selector /\ Exists(Head(Top.todo).sel)
      BY <2>1, HeadSite
    <3>2. x \in Literal
      BY <3>1, LiteralType DEF Inv
    <3> QED
      BY <3>2 DEF LiteralOf, Following
  <2> HIDE DEF x
  <2>4. Len(lookups') = n /\ \A k \in 1..n : lookups'[k].embedded \subseteq lookups[k].embedded \union {x}
    BY <1>1, <1>3, <2>1, <2>2 DEF n, Call
  <2> QED
    BY <1>2, <1>5, <2>1, <2>3, <2>4 DEF LiteralsInv
<1>7. CASE BindSend
  <2> DEFINE r == Looking(OperandClass(Head(Top.todo), owner[Top.method]), Head(Top.todo).sel)
  <2>1. lookups' = Append(lookups, r) /\ literals' = literals /\ addr' = addr
    BY <1>7 DEF BindSend, code, space
  <2>2. r.embedded = {}
    BY <1>4
  <2> HIDE DEF r
  <2>3. Len(lookups') = n + 1 /\ \A k \in 1..(n + 1) : lookups'[k] = IF k <= n THEN lookups[k] ELSE r
    BY <1>1, <2>1 DEF n
  <2>4. \A k \in 1..(n + 1) : k <= n => k \in 1..n
    BY <1>1
  <2> QED
    BY <1>2, <1>5, <2>1, <2>2, <2>3, <2>4 DEF LiteralsInv
<1>8. CASE Generated
  <2>1. /\ lookups # << >> /\ literals' = [literals EXCEPT ![Top.method] = Top.embedded]
        /\ addr' = addr
    BY <1>8 DEF Generated, space
  <2>2. lookups' = [lookups EXCEPT ![n].embedded = {}]
    BY <1>8 DEF Generated, n
  <2>3. Len(lookups') = n /\ \A k \in 1..n : lookups'[k].embedded \subseteq lookups[k].embedded
    BY <1>1, <1>3, <2>1, <2>2 DEF n, Call
  <2>4. \A m \in Method : literals'[m] \subseteq Following
    <3>1. literals \in [Method -> SUBSET Literal] /\ Top.embedded \subseteq Following
      BY <1>2, <1>3, <2>1 DEF Inv, TypeOK
    <3> QED
      BY <1>2, <2>1, <3>1
  <2> QED
    BY <1>2, <1>5, <2>1, <2>3, <2>4 DEF LiteralsInv
<1>9. CASE LookupReturns
  <2> DEFINE rest == SubSeq(lookups, 1, n - 1)
             d == {[for |-> <<Top.class, Top.sel>>, code |-> CodeFor(Top.method, Top.sel), outdated |-> FALSE]}
  <2>1. /\ lookups # << >> /\ literals' = literals /\ addr' = addr
        /\ lookups' = IF rest = << >> THEN rest
                      ELSE [rest EXCEPT ![Len(rest)].todo = Tail(@), ![Len(rest)].bound = @ \union d]
    BY <1>9 DEF LookupReturns, code, space, n
  <2>2. rest \in Seq(Call) /\ Len(rest) = n - 1 /\ \A k \in 1..(n - 1) : rest[k] = lookups[k] /\ k \in 1..n
    <3>1. n - 1 \in Nat /\ \A k \in 1..(n - 1) : k \in 1..n
      BY <1>1, <1>3, <2>1
    <3>2. rest = [k \in 1..(n - 1) |-> lookups[k]]
      BY <1>1, <3>1 DEF n
    <3> QED
      BY <1>1, <3>1, <3>2
  <2> HIDE DEF rest, d
  <2>3. CASE rest = << >>
    BY <1>2, <1>5, <2>1, <2>3 DEF LiteralsInv
  <2>4. CASE rest # << >>
    <3> DEFINE j == Len(rest)
    <3>1. j \in Nat /\ j \in 1..j /\ \A k \in 1..j : rest[k] \in Call /\ rest[k].embedded \subseteq Following
      BY <1>2, <2>2, <2>4, EmptySeq
    <3>2. lookups' = [rest EXCEPT ![j].todo = Tail(@), ![j].bound = @ \union d]
      BY <2>1, <2>4
    <3> HIDE DEF j
    <3>3. Len(lookups') = j /\ \A k \in 1..j : lookups'[k].embedded = rest[k].embedded
      BY <2>2, <3>1, <3>2 DEF j, Call
    <3> QED
      BY <1>2, <1>5, <2>1, <3>1, <3>3 DEF LiteralsInv
  <2> QED
    BY <2>3, <2>4
<1>10. CASE Scavenge
  BY <1>10, ScavengeLiterals
<1>11. ASSUME NEW c \in Class, NEW s \in Selector, Send(c, s) PROVE CellsInv' /\ LiteralsInv'
  <2>1. lookups' = << Looking(c, s) >> /\ literals' = literals /\ addr' = addr
    BY <1>11 DEF Send, code, space
  <2> DEFINE r == Looking(c, s)
  <2>2. lookups' = << r >> /\ r.embedded = {}
    BY <1>4, <2>1
  <2> HIDE DEF r
  <2> QED
    BY <1>2, <1>5, <2>1, <2>2 DEF LiteralsInv
<1>12. ASSUME UNCHANGED <<addr, literals, lookups>> PROVE CellsInv' /\ LiteralsInv'
  BY <1>5, <1>12 DEF LiteralsInv
<1>13. ASSUME NEW s \in Selector, Intern(s) PROVE CellsInv' /\ LiteralsInv'
  <2>1. PICK a \in FreeCells : addr' = [addr EXCEPT ![s] = a]
    BY <1>13 DEF Intern
  <2>2. addr[s] = Nil /\ s \in Object /\ UNCHANGED <<literals, lookups>>
    BY <1>13 DEF Intern, Exists, code, Object
  <2> QED
    BY <2>1, <2>2, CreationLiterals
<1>14. ASSUME NEW c \in Class, NEW p \in Class, NEW ms \in SUBSET Method, DefineClass(c, p, ms)
       PROVE  CellsInv' /\ LiteralsInv'
  <2>1. PICK a \in FreeCells : addr' = [addr EXCEPT ![c] = a]
    BY <1>14 DEF DefineClass
  <2>2. addr[c] = Nil /\ c \in Object /\ UNCHANGED <<literals, lookups>>
    BY <1>14 DEF DefineClass, Exists, code, Object
  <2> QED
    BY <2>1, <2>2, CreationLiterals
<1>15. ASSUME NEW c \in Class, NEW p \in Class, NEW ms \in SUBSET Method, RedefineClass(c, p, ms)
       PROVE  CellsInv' /\ LiteralsInv'
  BY <1>12, <1>15 DEF RedefineClass, space
<1>16. CASE UNCHANGED vars
  BY <1>12, <1>16 DEF vars
<1> QED
  BY <1>6, <1>7, <1>8, <1>9, <1>10, <1>11, <1>13, <1>14, <1>15, <1>16 DEF Next, Step

(* Machine code holds the current address of every selector that did not   *)
(* move between generateSend and the end of code generation, wherever the  *)
(* scavenger moves it and whatever comes to its former cells later.        *)
THEOREM LiteralsFollowHolds == Spec => []LiteralsFollow
<1>1. Init => CellsInv /\ LiteralsInv
  <2> SUFFICES ASSUME Init PROVE CellsInv /\ LiteralsInv
    OBVIOUS
  <2>1. \A o \in Object : addr[o] \notin Cell
    BY CellFacts, LookupAssumption DEF Init
  <2> QED
    BY <2>1 DEF Init, CellsInv, LiteralsInv
<1>2. Inv /\ CellsInv /\ LiteralsInv /\ [Next]_vars => CellsInv' /\ LiteralsInv'
  BY LiteralsNext
<1>3. Inv /\ LiteralsInv => LiteralsFollow
  BY DEF Inv, TypeOK, LiteralsInv, Following, LiteralsFollow
<1> QED
  BY <1>1, <1>2, <1>3, InvHolds, PTL DEF Spec

===============================================================================
