----------------------------- MODULE LookupCache -----------------------------
(***************************************************************************)
(* How a message send finds its code: the global cache keyed by the        *)
(* addresses of class and selector (Lookup.h, generateMethodLookup), the   *)
(* lookup behind it (Lookup.c, lookupSelector), the machine code generated *)
(* on the way, in which sends to constants are looked up at once and       *)
(* selectors are embedded as addresses (generateSend), and what happens    *)
(* under it: classes and selectors move, classes are defined and redefined.*)
(*                                                                         *)
(* An old object does not move any more and stands for its own address.  A *)
(* new one is at <<h, i>>, cell i of semispace h; cells are used again     *)
(* after every other scavenge.  A lookup calls the code generator and that *)
(* calls lookups: lookups is the C stack, and each allocation in it may    *)
(* scavenge.                                                               *)
(***************************************************************************)
EXTENDS Naturals, Sequences, FiniteSets, Reachability

CONSTANTS
  Class, Selector,
  Method,        (* compiled methods                                       *)
  SelectorOf,    (* the selector of each method                            *)
  Body,          (* the sends of each method, in the order of its byte code*)
  Kernel,        (* a class of the snapshot                                *)
  KernelSymbol,  (* a selector of the snapshot                             *)
  KernelMethod,  (* its method, which sends nothing                        *)
  Nil,
  NewCells,      (* bound: classes and selectors a semispace holds         *)
  CacheSize,
  Hash,          (* the bits of the exclusive or of two addresses that are *)
                 (* an index of the cache                                  *)
  MaxDepth,      (* bound: lookups in progress, one inside another         *)
  Redefines      (* does the program define classes again?                 *)

Object == Class \union Selector
Cell   == (0..1) \X (1..NewCells)
Addr   == Cell \union Object
Index  == 0..(CacheSize - 1)

(* A send in byte code: to a variable, to a constant of the given class, or*)
(* to super.                                                               *)
SendSite == [to : {"variable", "constant", "super"}, class : Class, sel : Selector]

ASSUME LookupAssumption ==
  /\ Kernel \in Class /\ KernelSymbol \in Selector /\ KernelMethod \in Method
  /\ Nil \notin Object \union Method \union Addr
  /\ Object \intersect Cell = {} /\ Method \intersect Object = {}
  /\ Class \intersect Selector = {}
  /\ NewCells \in Nat \ {0} /\ CacheSize \in Nat \ {0} /\ MaxDepth \in Nat \ {0}
  /\ Hash \in [Addr \X Addr -> Index]
  /\ SelectorOf \in [Method -> Selector] /\ Body \in [Method -> Seq(SendSite)]
  /\ SelectorOf[KernelMethod] = KernelSymbol /\ Body[KernelMethod] = << >>
  /\ Redefines \in BOOLEAN

VARIABLES
  addr,      (* where each class and selector is, Nil before it exists     *)
  survived,  (* the new objects below survivorEnd                          *)
  active,    (* the semispace in use                                       *)
  parent,    (* superclass                                                 *)
  dict,      (* method dictionaries                                        *)
  owner,     (* class a method was compiled for                            *)
  native,    (* methods that have machine code                             *)
  bound,     (* sends to constants in machine code, with the code they call*)
  literals,  (* selectors embedded in machine code                         *)
  cache,     (* LookupCache                                                *)
  lookups    (* calls of lookupNativeCode in progress                      *)

vars == <<addr, survived, active, parent, dict, owner, native, bound, literals, cache,
          lookups>>
space   == <<addr, survived, active>>
classes == <<parent, dict, owner>>
code    == <<native, bound, literals>>

(* Code is that of a method, or the code that sends #doesNotUnderstand:    *)
(* with a selector.                                                        *)
Code  == Method \union Selector

(* For the properties, an entry and a bound send also say what they were   *)
(* made for, and whether that was moved (entries) or redefined since.      *)
Entry == [class : Addr, sel : Addr, code : Code, for : Class \X Selector, outdated : BOOLEAN]
Bound == [for : Class \X Selector, code : Code, outdated : BOOLEAN]

(* A selector's address in code; for the properties, whose it was and      *)
(* whether that moved before the code was finished.                        *)
Literal == [sel : Selector, addr : Addr, moved : BOOLEAN]

(* A lookup in progress, and the state of the code generator it called:    *)
(* sends still to generate, selectors embedded in the buffer, and the      *)
(* constant sends that are bound.                                          *)
Call  == [class : Class, sel : Selector, method : Method \union {Nil}, todo : Seq(SendSite),
          embedded : SUBSET Literal, bound : SUBSET Bound]

Exists(o) == addr[o] # Nil
Young     == { o \in Object : addr[o] \in Cell }
Top       == lookups[Len(lookups)]

TypeOK ==
  /\ addr \in [Object -> Addr \union {Nil}]
  /\ survived \subseteq Object /\ active \in 0..1
  /\ parent \in [Class -> Class \union {Nil}]
  /\ dict \in [Class -> [Selector -> Method \union {Nil}]]
  /\ owner \in [Method -> Class \union {Nil}]
  /\ native \subseteq Method
  /\ bound \in [Method -> SUBSET Bound]
  /\ literals \in [Method -> SUBSET Literal]
  /\ cache \in [Index -> Entry \union {Nil}]
  /\ lookups \in Seq(Call)

Init ==
  /\ addr = [o \in Object |-> IF o \in {Kernel, KernelSymbol} THEN o ELSE Nil]
  /\ survived = {} /\ active = 0
  /\ parent = [c \in Class |-> Nil]
  /\ dict = [c \in Class |-> [s \in Selector |->
              IF <<c, s>> = <<Kernel, KernelSymbol>> THEN KernelMethod ELSE Nil]]
  /\ owner = [m \in Method |-> IF m = KernelMethod THEN Kernel ELSE Nil]
  /\ native = {} /\ bound = [m \in Method |-> {}]
  /\ literals = [m \in Method |-> {}]
  /\ cache = [i \in Index |-> Nil]
  /\ lookups = << >>

-----------------------------------------------------------------------------
(* lookupSelector.                                                         *)

Ancestors(c) == Reach(Class, {c}, [x \in Class |-> {parent[x]} \ {Nil}])

(* Mutant: the superclasses are not searched.                              *)
AnswerOfOwn(c, s) == dict[c][s]

(* The method that instances of c have for s, Nil when they have none.     *)
Answer(c, s) ==
  LET defining == { a \in Ancestors(c) : dict[a][s] # Nil }
  IN  IF defining = {} THEN Nil
      ELSE dict[CHOOSE a \in defining : defining \subseteq Ancestors(a)][s]

(* Mutant: a method that is not found is no case of its own.               *)
CodeForMissing(m, s) == m

(* doesNotUnderstand.                                                      *)
CodeFor(m, s) == IF m = Nil THEN s ELSE m

-----------------------------------------------------------------------------
(* Classes and selectors.                                                  *)

FreeCells == { <<active, i>> : i \in 1..NewCells } \ { addr[o] : o \in Young }

(* asSymbol makes a new symbol.                                            *)
Intern(s) ==
  /\ lookups = << >>
  /\ ~Exists(s)
  /\ \E a \in FreeCells : addr' = [addr EXCEPT ![s] = a]
  /\ UNCHANGED <<survived, active, classes, code, cache, lookups>>

(* Class c gets superclass p and the methods ms, compiled for it.          *)
Compiled(c, p, ms) ==
  /\ \A m \in ms : owner[m] = Nil /\ Exists(SelectorOf[m])
  /\ \A m, n \in ms : SelectorOf[m] = SelectorOf[n] => m = n
  /\ \A m \in ms : \A i \in 1..Len(Body[m]) :
       Exists(Body[m][i].sel) /\ Exists(Body[m][i].class)
  /\ parent' = [parent EXCEPT ![c] = p]
  /\ dict' = [dict EXCEPT ![c] = [s \in Selector |->
               IF \E m \in ms : SelectorOf[m] = s
               THEN CHOOSE m \in ms : SelectorOf[m] = s ELSE Nil]]
  /\ owner' = [m \in Method |-> IF m \in ms THEN c ELSE owner[m]]

(* Mutant: super is looked up where self would be.                         *)
OperandClassOfSelf(site, c) == IF site.to = "super" THEN c ELSE site.class

(* The class a constant operand of a method compiled for c belongs to.     *)
OperandClass(site, c) == IF site.to = "super" THEN parent[c] ELSE site.class

(* The methods whose code is generated in the course of generating m's.    *)
Needs == [m \in Method |->
           { Answer(OperandClass(Body[m][i], owner[m]), Body[m][i].sel) :
               i \in { j \in 1..Len(Body[m]) :
                         owner[m] # Nil /\ Body[m][j].to # "variable" /\
                         OperandClass(Body[m][j], owner[m]) # Nil } } \ {Nil}]

(* No method needs itself.  Where one does the code generator never        *)
(* returns; such programs are left out.  (needs only names the value.)     *)
GenerationEnds ==
  \E needs \in {Needs} : \A m \in Method : m \notin Reach(Method, needs[m], needs)

(* buildClass for a new name.                                              *)
DefineClass(c, p, ms) ==
  /\ lookups = << >>
  /\ ~Exists(c) /\ Exists(p)
  /\ Compiled(c, p, ms)
  /\ GenerationEnds'
  /\ \E a \in FreeCells : addr' = [addr EXCEPT ![c] = a]
  /\ UNCHANGED <<survived, active, code, cache, lookups>>

(* The cache and the machine code say nothing of a class defined again.    *)
Outdates(for, c) == c \in Ancestors(for[1])

(* buildClass for a class that exists: it stays where it is, the code and  *)
(* the cache entries made for its methods stay in use.                     *)
RedefineClass(c, p, ms) ==
  /\ Redefines
  /\ lookups = << >>
  /\ Exists(c) /\ c # Kernel /\ Exists(p) /\ c \notin Ancestors(p)
  /\ Compiled(c, p, ms)
  /\ GenerationEnds'
  /\ cache' = [i \in Index |->
                IF cache[i] # Nil /\ Outdates(cache[i].for, c)
                THEN [cache[i] EXCEPT !.outdated = TRUE] ELSE cache[i]]
  /\ bound' = [m \in Method |->
                { [b EXCEPT !.outdated = @ \/ Outdates(b.for, c)] : b \in bound[m] }]
  /\ UNCHANGED <<space, native, literals, lookups>>

-----------------------------------------------------------------------------
(* Sends.                                                                  *)

(* The arguments are addresses: this is what the code compares.            *)
Hits(i, a, b) == cache[i] # Nil /\ cache[i].class = a /\ cache[i].sel = b

(* lookupNativeCode is called; generateMethodCode follows if the method has*)
(* no machine code yet.                                                    *)
Looking(c, s) ==
  LET m == Answer(c, s) IN
  [class |-> c, sel |-> s, method |-> m,
   todo |-> IF m = Nil \/ m \in native THEN << >> ELSE Body[m],
   embedded |-> {}, bound |-> {}]

(* A send from C (cachedLookupNativeCode) or from machine code.  One that  *)
(* hits runs the code of the entry and changes nothing here.               *)
Send(c, s) ==
  LET i == Hash[<<addr[c], addr[s]>>] IN
  /\ lookups = << >>
  /\ Exists(c) /\ Exists(s)
  /\ ~Hits(i, addr[c], addr[s])
  /\ lookups' = << Looking(c, s) >>
  /\ UNCHANGED <<space, classes, code, cache>>

LiteralOf(s) == [sel |-> s, addr |-> addr[s], moved |-> FALSE]

(* generateSend for a variable: the selector's address goes into the code. *)
GenerateSend ==
  /\ lookups # << >> /\ Top.todo # << >> /\ Head(Top.todo).to = "variable"
  /\ lookups' = [lookups EXCEPT
       ![Len(lookups)].embedded = @ \union {LiteralOf(Head(Top.todo).sel)},
       ![Len(lookups)].todo = Tail(@)]
  /\ UNCHANGED <<space, classes, code, cache>>

(* generateSend for a constant: looked up now, whether cached or not.      *)
BindSend ==
  LET site == Head(Top.todo)
      c    == OperandClass(site, owner[Top.method]) IN
  /\ lookups # << >> /\ Top.todo # << >> /\ site.to # "variable"
  /\ Len(lookups) < MaxDepth
  /\ lookups' = Append(lookups, Looking(c, site.sel))
  /\ UNCHANGED <<space, classes, code, cache>>

(* Mutant: the method does not keep its code.                              *)
CodeNotKept(m) == native

(* compiledMethodSetNativeCode.                                            *)
WithCode(m) == native \union {m}

(* buildNativeCode copies the buffer, and getNativeCode records the code.  *)
Generated ==
  /\ lookups # << >> /\ Top.todo = << >> /\ Top.method \in Method \ native
  /\ native' = WithCode(Top.method)
  /\ bound' = [bound EXCEPT ![Top.method] = Top.bound]
  /\ literals' = [literals EXCEPT ![Top.method] = Top.embedded]
  /\ lookups' = [lookups EXCEPT ![Len(lookups)].embedded = {}]
  /\ UNCHANGED <<space, classes, cache>>

EntryOf(c, s, m) ==
  [class |-> addr[c], sel |-> addr[s], code |-> CodeFor(m, s), for |-> <<c, s>>,
   outdated |-> FALSE]

(* The end of lookupNativeCode: the entry is written with the addresses    *)
(* that class and selector have now, and the code goes to the send that    *)
(* asked for it or to the code generator.                                  *)
LookupReturns ==
  LET c == Top.class
      s == Top.sel
      found == CodeFor(Top.method, s)
      rest  == SubSeq(lookups, 1, Len(lookups) - 1) IN
  /\ lookups # << >> /\ Top.todo = << >> /\ Top.method \in native \union {Nil}
  /\ cache' = [cache EXCEPT ![Hash[<<addr[c], addr[s]>>]] = EntryOf(c, s, Top.method)]
  /\ lookups' = IF rest = << >> THEN rest
                ELSE [rest EXCEPT ![Len(rest)].todo = Tail(@),
                       ![Len(rest)].bound = @ \union
                         {[for |-> <<c, s>>, code |-> found, outdated |-> FALSE]}]
  /\ UNCHANGED <<space, classes, code>>

-----------------------------------------------------------------------------
(* The scavenger.                                                          *)

(* Mutant: the pointers in machine code are not rewritten.                 *)
CodeNotVisited(l, to, moving) == l

(* processTaggedPointer on a pointer in finished code: it follows the      *)
(* object that is at its address, whichever that is.                       *)
Rewritten(l, to, moving) ==
  IF \E o \in moving : addr[o] = l.addr
  THEN [l EXCEPT !.addr = to[CHOOSE o \in moving : addr[o] = l.addr]] ELSE l

(* What was below survivorEnd becomes old, the rest goes to the other      *)
(* semispace.  Roots are the handles of the lookups in progress and the    *)
(* pointers in finished code; cache and assembler buffers are none of them *)
(* and are not rewritten.                                                  *)
Scavenge ==
  LET moving == Young
      cells  == { <<1 - active, i>> : i \in 1..NewCells } IN
  /\ moving # {}
  /\ \E to \in [moving -> cells \union moving] :
       /\ \A o \in moving : IF o \in survived THEN to[o] = o ELSE to[o] \in cells
       /\ \A o, p \in moving : o # p => to[o] # to[p]
       /\ addr' = [o \in Object |-> IF o \in moving THEN to[o] ELSE addr[o]]
       /\ literals' = [m \in Method |-> { Rewritten(l, to, moving) : l \in literals[m] }]
  /\ survived' = moving \ survived
  /\ active' = 1 - active
  /\ lookups' = [i \in 1..Len(lookups) |->
                  [lookups[i] EXCEPT !.embedded =
                    { [l EXCEPT !.moved = @ \/ l.sel \in moving] : l \in lookups[i].embedded }]]
  /\ cache' = [i \in Index |->
                IF cache[i] # Nil /\ {cache[i].for[1], cache[i].for[2]} \intersect moving # {}
                THEN [cache[i] EXCEPT !.outdated = TRUE] ELSE cache[i]]
  /\ UNCHANGED <<classes, native, bound>>

-----------------------------------------------------------------------------
Step == GenerateSend \/ BindSend \/ Generated \/ LookupReturns

Next ==
  \/ Step
  \/ Scavenge
  \/ \E s \in Selector : Intern(s)
  \/ \E c \in Class, s \in Selector : Send(c, s)
  \/ \E c, p \in Class, ms \in SUBSET Method : DefineClass(c, p, ms) \/ RedefineClass(c, p, ms)

(* C code that was called goes on until it returns.                        *)
Spec == Init /\ [][Next]_vars /\ WF_vars(Step)

-----------------------------------------------------------------------------
(* Properties.                                                             *)

(* x is what instances of the class for[1] run for the selector for[2]:    *)
(* the method of the nearest class that has one, or else the code that     *)
(* sends #doesNotUnderstand:.  Stated without lookupSelector's search.     *)
Runs(x, for) ==
  LET has == { a \in Ancestors(for[1]) : dict[a][for[2]] # Nil } IN
  \/ has = {} /\ x = for[2]
  \/ \E a \in has : dict[a][for[2]] = x /\ \A b \in has : b \in Ancestors(a)

(* An entry of the cache, as long as nothing it was made for has moved or  *)
(* was defined again, is found by the send it was made for and gives the   *)
(* code that send is to run, although the entry is written after code      *)
(* generation, which may have moved class and selector and filled the same *)
(* slot for other sends.                                                   *)
EntriesAnswer ==
  \A i \in Index : cache[i] # Nil /\ ~cache[i].outdated =>
    /\ Hits(i, addr[cache[i].for[1]], addr[cache[i].for[2]])
    /\ Hash[<<cache[i].class, cache[i].sel>>] = i
    /\ Runs(cache[i].code, cache[i].for)

(* In the machine code of a method still in its class, each send to super  *)
(* or to another constant is bound to the code that the superclass of that *)
(* class, or the constant's class, runs, unless that was redefined since.  *)
BoundSendsAnswer ==
  \A m \in native : dict[owner[m]][SelectorOf[m]] = m =>
    \A i \in 1..Len(Body[m]) : Body[m][i].to # "variable" =>
      \E b \in bound[m] :
        /\ b.for[1] = IF Body[m][i].to = "super" THEN parent[owner[m]] ELSE Body[m][i].class
        /\ b.for[2] = Body[m][i].sel
        /\ ~b.outdated => Runs(b.code, b.for)

(* Machine code embeds the current address of its selectors, however often *)
(* they move after it was generated and whatever is moved into the cells   *)
(* they leave, unless one moved while the code was in the buffer.          *)
LiteralsFollow ==
  \A m \in native : \A l \in literals[m] : ~l.moved => l.addr = addr[l.sel]

(* What machine code embeds is old or in the semispace in use: what the    *)
(* scavenger asserts of the objects it is led to, forwardObject's          *)
(* "toSpace <= object" and processTaggedPointer's "fromSpace <= class".    *)
LiteralsInSpace ==
  \A m \in native : \A l \in literals[m] : l.addr \in Cell => l.addr[1] = active

(* lookupNativeCode and the code generator it calls return, whatever       *)
(* lookups and scavenges that takes.                                       *)
LookupEnds == lookups # << >> ~> lookups = << >>

(* A send that hits runs what the receiver's class runs: what the comments *)
(* of generateMethodLookup, "check class", "check selector" and "load code *)
(* from cache", say of the two comparisons.                                *)
HitsRunTheMethod ==
  \A c \in Class, s \in Selector : Exists(c) /\ Exists(s) =>
    LET i == Hash[<<addr[c], addr[s]>>]
    IN  Hits(i, addr[c], addr[s]) => Runs(cache[i].code, <<c, s>>)

=============================================================================
