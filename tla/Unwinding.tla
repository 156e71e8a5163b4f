------------------------------ MODULE Unwinding ------------------------------
(***************************************************************************)
(* Activations and the transfers of control between them that are not      *)
(* calls and returns: on:do: and #signal (Exception.c and the primitives   *)
(* of PrimitivesX64.c), ^ out of a block (generateOuterReturn) and the     *)
(* entry frames of Smalltalk code that C code runs (SmalltalkEntry).       *)
(*                                                                         *)
(* A context names an activation.  What the machine reads to learn whether *)
(* the activation is alive is the word of stack memory where the frame     *)
(* kept its context, and that memory is modelled: memory holds the context *)
(* last written for each depth of the stack.  A handler is named by the    *)
(* context of its on:do: frame, which it points to.                        *)
(***************************************************************************)
EXTENDS Naturals, Sequences, Reachability

CONSTANTS
  Ctx,            (* contexts; one is used again when nothing refers to it   *)
  None,           (* no context, no handler (0)                              *)
  Exc,            (* kinds of exceptions                                     *)
  Caught,         (* for each class, the exceptions for which it answers     *)
                  (* true to #handles:                                       *)
  CannotReturn,   (* the kind that #cannotReturn: signals                    *)
  MaxDepth,       (* bound: frames on the stack                              *)
  ScopeFrames,    (* frames whose places the handle scope of #signal covers  *)
  DefaultReturns, (* may #defaultAction return? Exception's terminates the   *)
                  (* process                                                 *)
  LeaveC          (* may exceptions and ^ leave Smalltalk code run by C code?*)

ASSUME UnwindingAssumption ==
  /\ None \notin Ctx
  /\ CannotReturn \in Exc /\ Caught \subseteq SUBSET Exc
  /\ MaxDepth \in Nat \ {0} /\ ScopeFrames \in Nat
  /\ DefaultReturns \in BOOLEAN /\ LeaveC \in BOOLEAN

VARIABLES
  stack,    (* the frames, outermost first                                   *)
  memory,   (* depth -> the context in the context slot of the frame there   *)
  object,   (* the contexts and the handlers that something refers to        *)
  current,  (* CurrentExceptionHandler                                       *)
  escaped,  (* homes of the blocks kept in objects                           *)
  entries,  (* depths of the entry frames that thread.stackFramesTail and    *)
            (* prev lead to, innermost last; the first of all is left out    *)
  state     (* "runs", "exited" or "wild": control went to a dead frame      *)

vars == <<stack, memory, object, current, escaped, entries, state>>

(* A method and an on:do: frame hold a context of their own; a block frame *)
(* has a home; an on:do: frame also has the home of its handler block.     *)
Kinds == {"method", "block", "body", "handling", "entry"}
Frame == [kind : Kinds, ctx : Ctx \union {None}, home : Ctx \union {None}]

(* frame is RawContext.frame as a depth, parent RawExceptionHandler.parent,*)
(* and catches what the class given to on:do: handles.                     *)
Object == [frame : 1..MaxDepth, parent : Ctx \union {None}, catches : SUBSET Exc]
Context(d)     == [frame |-> d, parent |-> None, catches |-> {}]
Handler(d, p, e) == [frame |-> d, parent |-> p, catches |-> e]

Method(c)      == [kind |-> "method", ctx |-> c, home |-> c]
BlockOf(h)     == [kind |-> "block", ctx |-> None, home |-> h]
OnDoFrame(c, h) == [kind |-> "body", ctx |-> c, home |-> h]
EntryFrame     == [kind |-> "entry", ctx |-> None, home |-> None]

Depth  == Len(stack)
TopFrame == stack[Depth]

Init ==
  /\ \E c \in Ctx :
       /\ stack = <<Method(c)>>
       /\ memory = [d \in 1..MaxDepth |-> IF d = 1 THEN c ELSE None]
       /\ object = [x \in {c} |-> Context(1)]
  /\ current = None
  /\ escaped = {}
  /\ entries = << >>
  /\ state = "runs"

(* contextHasValidFrame, the memory being m.                               *)
ValidFrame(m, c) == m[object[c].frame] = c

(* Those of S and what they lead to by parent in the objects obj.          *)
Reached(obj, S) ==
  LET parents == [c \in DOMAIN obj |-> {obj[c].parent} \intersect DOMAIN obj]
  IN  Reach(DOMAIN obj, S \intersect DOMAIN obj, parents)

(* The handlers from h on.                                                 *)
ChainFrom(h) == Reached(object, {h})

Chain == ChainFrom(current)

(* The handler of S that who follows the chain meets first.                *)
Innermost(S) == CHOOSE c \in S : S \subseteq ChainFrom(c)

(* The contexts that the frames of s refer to.                             *)
InFrames(s) == (UNION { {s[d].ctx, s[d].home} : d \in DOMAIN s }) \ {None}

(* CurrentExceptionHandler is a root of the scavenger, the one collector   *)
(* here; mark and sweep does not visit it (gcMarkRoots) and is left out.   *)
HandlerRoot == {current'} \ {None}

(* The program has made the objects obj, and those nothing refers to any   *)
(* more are gone: neither a frame, nor a kept block, nor the chain of a    *)
(* handler that is current or that an on:do: frame holds.                  *)
SetObjects(obj) ==
  object' = [c \in Reached(obj, InFrames(stack') \union escaped' \union HandlerRoot) |-> obj[c]]

(* Homes of the blocks the running code may have been passed.              *)
Homes == (escaped \union { stack[d].home : d \in 1..Depth }) \ {None}

(* The memory, m until then, once frames have been pushed or popped and s  *)
(* is the stack: the words of popped frames stay.                          *)
Written(m, s) == [d \in 1..MaxDepth |-> IF d <= Len(s) THEN s[d].ctx ELSE m[d]]

SetStack(s) == stack' = s /\ memory' = Written(memory, s)

(* c becomes a new object o.                                               *)
New(c, o) == SetObjects([x \in DOMAIN object \union {c} |-> IF x = c THEN o ELSE object[x]])

Unused == Ctx \ DOMAIN object

Cut(d) == SubSeq(stack, 1, d)

-----------------------------------------------------------------------------
(* Calls and returns.                                                      *)

CallMethod ==
  /\ state = "runs" /\ Depth < MaxDepth
  /\ UNCHANGED <<current, escaped, entries, state>>
  /\ \E c \in Unused :
       /\ SetStack(Append(stack, Method(c)))
       /\ New(c, Context(Depth + 1))

(* generateBlockValuePrimitive.                                            *)
CallBlock ==
  /\ state = "runs" /\ Depth < MaxDepth
  /\ \E h \in Homes : SetStack(Append(stack, BlockOf(h)))
  /\ UNCHANGED <<object, current, escaped, entries, state>>

(* C code, such as gcSweep for a finalizer, runs a method.                 *)
CallFromC ==
  /\ state = "runs" /\ Depth + 1 < MaxDepth
  /\ entries' = Append(entries, Depth + 1)
  /\ UNCHANGED <<current, escaped, state>>
  /\ \E c \in Unused :
       /\ SetStack(stack \o <<EntryFrame, Method(c)>>)
       /\ New(c, Context(Depth + 2))

(* generateBlockOnExceptionPrimitive: the handler is pushed on the chain   *)
(* and the receiver, a block of home b, runs.  The handler block is a      *)
(* block of the sender; one passed in from elsewhere would be called in it.*)
OnDo ==
  /\ state = "runs" /\ Depth + 1 < MaxDepth
  /\ UNCHANGED <<escaped, entries, state>>
  /\ \E c \in Unused, b \in Homes, e \in Caught :
       /\ SetStack(stack \o <<OnDoFrame(c, TopFrame.home), BlockOf(b)>>)
       /\ current' = c
       /\ New(c, Handler(Depth + 1, current, e))

(* The kind of the frame at depth d; the first method returns to the C     *)
(* code that runs the file.                                                *)
KindAt(d) == IF d = 0 THEN "none" ELSE stack[d].kind

(* The handler after the return to depth d: an on:do: frame whose body has *)
(* returned unregisters its handler.                                       *)
HandlerAfter(d) == IF KindAt(d) = "body" THEN object[stack[d].ctx].parent ELSE current

(* Mutant: the entry frame is not taken off.                               *)
EntriesStay(d) == entries

(* The entry frames after the return to depth d: SmalltalkEntry takes its  *)
(* own off, or rather whichever is the last.                               *)
EntriesAfter(d) ==
  IF KindAt(d) = "entry" THEN SubSeq(entries, 1, Len(entries) - 1) ELSE entries

(* The frame that goes on when the frame above depth d has returned: an    *)
(* on:do: frame returns in its turn, and an entry frame to the C code.     *)
Continues(d) == IF KindAt(d) \in {"body", "handling", "entry"} THEN d - 1 ELSE d

(* The frame above depth d returns.                                        *)
ReturnTo(d) ==
  /\ SetStack(Cut(Continues(d)))
  /\ current' = HandlerAfter(d)
  /\ entries' = EntriesAfter(d)
  /\ state' = IF Continues(d) = 0 THEN "exited" ELSE "runs"

(* A block that the returning code leaves in an object can be called after *)
(* the return of its home; until then it is one of Homes anyway.           *)
Return ==
  /\ state = "runs"
  /\ ReturnTo(Depth - 1)
  /\ escaped' \in {escaped, {TopFrame.home}}
  /\ SetObjects(object)

-----------------------------------------------------------------------------
(* Exceptions.                                                             *)

(* Memory as unwindExceptionHandler reads it: openHandleScope has cleared  *)
(* the scope, 8 KB of stack below the frame of #signal.  The code then     *)
(* called, for #handles: and for a backtrace, returns before control goes  *)
(* to the handler; what it leaves on the stack farther down is left out.   *)
MemoryInSignal ==
  [d \in 1..MaxDepth |-> IF d \in (Depth + 1)..(Depth + ScopeFrames) THEN None ELSE memory[d]]

(* Mutant: #handles: is not sent.                                          *)
MatchesAny(e) == { c \in Chain : ValidFrame(MemoryInSignal, c) }

(* The handlers of the chain that take an exception of kind e when         *)
(* unwindExceptionHandler offers it to them.                               *)
Matches(e) == { c \in Chain : ValidFrame(MemoryInSignal, c) /\ e \in object[c].catches }

(* Mutant: a handler stays installed while its block runs.                 *)
HandlerInstalled(c) == c

(* CurrentExceptionHandler while the block of handler c runs.              *)
Outer(c) == object[c].parent

(* Is the on:do: frame of handler c alive?                                 *)
Alive(c) == \E d \in 1..Depth : stack[d].ctx = c

(* The frame of handler c takes over: its handler block runs on top of it. *)
HandlerBlock(c) ==
  LET d == object[c].frame
  IN  Append([Cut(d) EXCEPT ![d].kind = "handling"], BlockOf(stack[d].home))

(* #signal of an exception of kind e.                                      *)
Signals(e) ==
  LET found == Matches(e) IN
  IF found # {}
  THEN LET c == Innermost(found) IN
       /\ LeaveC \/ \A d \in object[c].frame..Depth : stack[d].kind # "entry"
       /\ current' = Outer(c)
       /\ stack' = IF Alive(c) THEN HandlerBlock(c) ELSE stack
       /\ memory' = Written(MemoryInSignal, stack')
       /\ state' = IF Alive(c) THEN "runs" ELSE "wild"
  ELSE /\ current' = None
       /\ state' = IF DefaultReturns THEN "runs" ELSE "exited"
       /\ stack' = stack /\ memory' = MemoryInSignal

Signal(e) ==
  /\ state = "runs"
  /\ Signals(e)
  /\ UNCHANGED <<escaped, entries>>
  /\ SetObjects(object)

-----------------------------------------------------------------------------
(* The check of generateOuterReturn.                                       *)
HomeLive(h) == ValidFrame(memory, h)

(* ^ in a block: return from its home method, or #cannotReturn:.           *)
OuterReturn ==
  /\ state = "runs" /\ TopFrame.kind = "block"
  /\ LET h == TopFrame.home IN
     IF ~HomeLive(h) THEN Signals(CannotReturn) /\ UNCHANGED entries
     ELSE IF Alive(h)
          THEN /\ LeaveC \/ \A d \in object[h].frame..Depth : stack[d].kind # "entry"
               /\ ReturnTo(object[h].frame - 1)
          ELSE state' = "wild" /\ SetStack(stack) /\ UNCHANGED <<current, entries>>
  /\ UNCHANGED escaped
  /\ SetObjects(object)

(* A scavenge: iterateExceptionHandlers drops the handlers at the head of  *)
(* the chain whose frame is gone, unless all are.  The collector updates   *)
(* no dead frame, so that the word there no longer names a context that    *)
(* has moved.                                                              *)
Scavenge ==
  /\ state = "runs"
  /\ LET valid == { c \in Chain : ValidFrame(memory, c) }
     IN  current' = IF valid = {} THEN current ELSE Innermost(valid)
  /\ \E moved \in SUBSET ({ memory[d] : d \in (Depth + 1)..MaxDepth } \ {None}) :
       memory' = [d \in 1..MaxDepth |->
                    IF d > Depth /\ memory[d] \in moved THEN None ELSE memory[d]]
  /\ UNCHANGED <<stack, escaped, entries, state>>
  /\ SetObjects(object)

Next ==
  \/ CallMethod \/ CallBlock \/ CallFromC \/ OnDo
  \/ Return \/ OuterReturn \/ Scavenge
  \/ \E e \in Exc : Signal(e)

Spec == Init /\ [][Next]_vars

-----------------------------------------------------------------------------
(* Properties.                                                             *)

TypeOK ==
  /\ stack \in Seq(Frame) /\ Depth <= MaxDepth
  /\ memory \in [1..MaxDepth -> Ctx \union {None}]
  /\ object \in [DOMAIN object -> Object] /\ DOMAIN object \subseteq Ctx
  /\ current \in DOMAIN object \union {None}
  /\ escaped \subseteq Ctx
  /\ entries \in Seq(1..MaxDepth)
  /\ state \in {"runs", "exited", "wild"}

(* The on:do: frames up to depth d whose receiver is running.              *)
Guards(d) == { stack[i].ctx : i \in { j \in 1..d : stack[j].kind = "body" } }

Live(chain) == { c \in chain : Alive(c) }

(* The handlers of the chain that have a frame are those of the on:do:     *)
(* frames whose receiver still runs, and from the handler of such a frame  *)
(* on they are those of the frames around it: neither a return, a ^, an    *)
(* exception nor a scavenge loses one or leaves one active.                *)
HandlersInstalled ==
  state = "runs" =>
    /\ Live(Chain) = Guards(Depth)
    /\ \A d \in 1..Depth :
         stack[d].kind = "body" => Live(ChainFrom(stack[d].ctx)) = Guards(d)

(* An exception goes to the innermost on:do: whose receiver is running and *)
(* whose class handles it, and is left to #defaultAction only when there   *)
(* is none; unless the machine takes a handler whose frame is gone for a   *)
(* live one.                                                               *)
InnermostCatches ==
  [][\A e \in Exc : Signal(e) /\ state' # "wild" =>
       LET takers == { d \in 1..Depth : stack[d].kind = "body" /\ e \in object[stack[d].ctx].catches }
       IN  IF takers = {} THEN stack' = stack
           ELSE LET d == CHOOSE d \in takers : \A o \in takers : o <= d
                IN  Len(stack') = d + 1 /\ stack'[d].kind = "handling"]_vars

(* Control is given to frames that are alive only: neither a handler nor   *)
(* the home of a block is taken for live once it has returned.  Not so in  *)
(* the code: the word of a frame that has returned stays until a frame is  *)
(* pushed over it (contextHasValidFrame).                                  *)
TransfersToLiveFrames == state # "wild"

(* The entry frames that the machine walks the stack with, and whose exit  *)
(* frame it sets, are those on the stack.                                  *)
EntriesOnStack ==
  state = "runs" =>
    /\ { entries[i] : i \in DOMAIN entries } = { d \in 1..Depth : stack[d].kind = "entry" }
    /\ \A i, j \in DOMAIN entries : i < j => entries[i] < entries[j]

=============================================================================
