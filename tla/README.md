# A verification project for yet-another-smalltalk-vm

The repository is a Smalltalk virtual machine in C for x86-64: a generational
heap, a compiler from source to byte code and from byte code to machine code,
and a Smalltalk library it runs. One thread of control runs everything, but it
runs through many hands: machine code calls C, C (the collector, the exception
code, the evaluator) calls Smalltalk, Smalltalk jumps over both, and each of
them holds addresses that the collector may change. That is where this code is
hard to get right and hard to test, and where the models are.

Contents: [inventory](#1-inventory), [modules](#2-modules),
[runs](#3-runs-and-what-they-show), [disagreements](#4-where-the-code-disagrees-with-itself),
[proofs](#5-proofs), [bounds, assumptions, fairness](#6-bounds-assumptions-fairness),
[plan](#7-plan), [not modelled](#8-not-modelled-and-why).

## 1. Inventory

### Memory

| component | state | operations | used by |
|---|---|---|---|
| `Heap.c` | two spaces, remembered set, native code space | `allocateObject`, `allocate` (scavenge, then mark and sweep, then old space), `tryAllocateOld`, `collectGarbage`, `verifyHeap` | everything |
| `Scavenger.c` | two semispaces, `top`, `survivorEnd`, `hasPromotionFailure` | `scavengerScavenge`: stack, handles, exception handlers, remembered set, native code, then the copies | `Heap.c`, the collection primitives |
| `RememberedSet.h` | a chain of blocks of 1024 objects | `rememberedSetAdd`, `...Grow`, `...Reset`, an iterator | barrier in C (`Thread.h`), barrier in machine code (`generateStoreCheck`), both collectors |
| `GarbageCollector.c` | mark bits, a marking queue, `finalize[]` | `gcMarkRoots`, `gcSweep`, which sends `#finalize` before it returns | `Heap.c` |
| `FreeList.c`, `HeapPage.c` | a list of chunks for each small size, one for large chunks, a bit map of the non-empty ones; pages | `freeListTryAllocate`, `splitFreeSpace`, `freeListAddFreeSpace`, `expandFreeList`, the space iterator | old space, native code space |
| `Handle.c/.h` | persistent handles (a list), scopes of at most 256 handles (a stack in C frames) | open, close, `scopeHandle`, `handle`, `freeHandle` | all C code |
| `Smalltalk.c` | the globals, the symbol table | `asSymbol`, `objectBecome` | compiler, primitives |
| `Snapshot.c` | a table from objects to numbers while it writes or reads | `snapshotWrite`, `snapshotRead` | `main.c` |

What makes them correct: no reachable object is freed and no pointer the
program can see is left behind by a move; an old object that refers to a new
one is in the remembered set; tags that cache a fact (`TAG_REMEMBERED`,
`TAG_MARKED`, `TAG_FINALIZED`, a bit of the free map) agree with the fact; a
page is tiled by its objects and chunks; a snapshot reads back as what was
written.

What is hard: a collection can start at any allocation, so every raw pointer
held across one is stale; finalizers run Smalltalk code in the middle of a
sweep; the scavenger extends the set it is reading; a promotion may have to
grow the old space in the middle of an allocation that is itself a fallback.

### Execution

| component | state | operations |
|---|---|---|
| machine code (`CodeGeneratorX64.c`, `StubCodeX64.c`, `PrimitivesX64.c`) | the stack of frames; in each its code, its context | method and block prologues, sends, store check, allocation, `^` out of a block (`generateOuterReturn`), `SmalltalkEntry` |
| `Exception.c` | `CurrentExceptionHandler`, the head of a chain of handler objects | `on:do:` installs and unregisters, `#signal` calls `unwindExceptionHandler` and jumps |
| `StackFrame.c` | contexts, entry frames (`thread.stackFramesTail`) | `contextHasValidFrame`, the parent of a frame or context |
| `Lookup.c/.h`, `Class.c` | a global cache from (class, selector) to code; type feedback of a method; the class table | `cachedLookupNativeCode`, `lookupNativeCode`, `getNativeCode`, `buildClass`, `installClass` |
| `Entry.c` | an entry frame per call from C | `invokeMethod`, `sendMessage`, `evalCode`, `parseFile...` |

What makes them correct: the handler an exception reaches is the innermost one
that is running and takes it; control only goes to frames that exist; the
entry frames the collectors walk are those on the stack; a send runs the method
that the class of the receiver has now.

What is hard: `^` and exceptions leave frames without running their epilogues;
liveness of a frame is decided by a word of stack memory; the lookup cache and
the generated code hold addresses.

### Compilation

`Tokenizer.c`, `Parser.c` (source to nodes), `Scope.c` (which variables live in
registers, temporaries, contexts or copies of contexts), `Compiler.c` and
`Bytecodes.h` (byte code and descriptors), `RegisterAllocator.c` (a linear
scan), `CodeGeneratorX64.c` (which keeps, while it generates, flags for what each
register and frame slot will hold), `Assembler*.h` (encoding). `Optimizer.c` has no
caller. Correct means: a variable name denotes the same variable at each use,
two variables alive together never share a register, and indices fit their
bytes.

### Library

`smalltalk/Collections`, `Streams`, `Magnitudes`, `Parser`, `Compiler`,
`Processes` and the kernel classes. The collections and the buffered streams
keep redundant state (a tally, a first and a last index, a buffer and a file
position) that must agree; the C code has a second copy of the hashed and
ordered collections (`Dictionary.c`, `Collection.c`) over the same objects.

### How the parts interact

    Smalltalk code --send--> Lookup --compile--> code in native code space
        | store            | allocate        | on:do:, #signal, ^
        v                  v                 v
     barrier ----> RememberedSet <---- Scavenger, GarbageCollector <-- Heap.allocate
                                            |        ^                    |
                                   #finalize v        | roots              v
                                      Smalltalk    stack, handles,      FreeList
                                                   handlers

The collectors read the state of every other component (stack maps, handles,
handler chain, literals in machine code); finalizers and `#handles:` call back
into Smalltalk from C.

## 2. Modules

| module | of | what |
|---|---|---|
| `Reachability` | | the least set that contains the sources and is closed under the edges; used by the collectors and by the properties |
| `MutatorHeap` | | what the heap promises the program: assign, store, copy one object over another, allocate on the graph of reachable objects, nothing else |
| `ObjectHeap` | `Heap.c`, `Thread.h`, `Scavenger.c`, `GarbageCollector.c`, `StubCodeX64.c` | the heap |
| `MCObjectHeap` | | `ObjectHeap` for TLC: symmetry, the refinement mapping to `MutatorHeap` |
| `Foundations` | | lemmas the proofs share: `Reach`, numbers, recursively defined functions |
| `ObjectHeapProofs` | | theorems about `ObjectHeap`, and that it implements `MutatorHeap` |
| `FreeList` | `FreeList.c`, `HeapPage.c` | the free list of the old space |
| `RememberedSet` | `RememberedSet.h`, `generateStoreCheck` | the blocks, the iterator, the adds of C and machine code |
| `OldSpaceProofs` | | theorems about `FreeList` and `RememberedSet` |
| `LookupCache` | `Lookup.c`, `Lookup.h`, `Class.c`, the sends of `CodeGeneratorX64.c` | method lookup, its cache, code generation, moving classes |
| `MCLookupCache` | | `LookupCache` with its methods and hash |
| `LookupCacheProofs` | | theorems about `LookupCache` |
| `Unwinding` | `Exception.c`, parts of `PrimitivesX64.c`, `CodeGeneratorX64.c`, `StubCodeX64.c`, `StackFrame.c` | frames, handlers, `^`, entry frames |
| `MCUnwinding` | | `Unwinding` with symmetric contexts |
| `UnwindingProofs` | | theorems about `Unwinding` |
| `Syntax` | `Ast.h` | the trees the parser builds and the compiler walks |
| `TokenCursor` | | what the parser takes the tokenizer for: a sequence of tokens and a place in it |
| `Tokenizer`, `MCTokenizer` | `Tokenizer.c` | `readToken` and the ring of tokens; the texts it is checked on |
| `TokenizerProofs` | | theorems about `Tokenizer`: its ring implements `TokenCursor`, and its tokens read back |
| `Grammar` | | what is to be read, said by precedence |
| `Parser`, `MCParser` | `Parser.c`, `parseFile` and `evalCode` of `Entry.c` | recursive descent; the token sequences it is checked on |
| `Bytecodes` | `Bytecodes.h` | byte codes as records |
| `Compiler` | `Scope.c`, `Compiler.c` | from a tree to units of byte code |
| `SourceSemantics` | | what a method means, told from its tree |
| `ByteCode` | `CodeGeneratorX64.c`, block primitives | what byte code does: contexts, blocks, returns |
| `Compilation`, `MCCompilation` | `compileMethod` | compile a method, run it, compare; the methods |
| `LinearScan` | `RegisterAllocator.c` | registers for the variables of a unit |
| `Activation` | | what one activation of a unit does, without registers |
| `CodeGenerator`, `MCCodeGenerator` | `CodeGeneratorX64.c` | the machine code of a unit, with its registers, frame slots and stack maps; the units |
| `CodeGeneratorProofs` | | theorems about the registers that `LinearScan` gives to the units of `CodeGenerator`, and that their machine code does what the byte code means |
| `KeyedMap` | | what a dictionary promises |
| `HashedCollection`, `MCHashedCollection` | `Dictionary.c`, `HashedCollection.st`, `Dictionary.st`, `Scope.c` | one dictionary under C, library and compiled code |
| `HashedCollectionProofs` | | theorems about `HashedCollection` |

**ObjectHeap.** An object is an identity with a *place* (`eden`: allocated since
the last scavenge; `survivor`: below `survivorEnd`; `old`; `none`) and a
function from fields, the class pointer among them, to values. Addresses are
abstracted to what the collectors do to a pointer: one they visit follows its
target, one they do not becomes `Stale` when the target moves and `Swept` when
it is freed. The program's roots (stack slots, scope handles, literals of
machine code) are `root`; `Kernel` stands for the classes held by persistent
handles. A collection runs with the program stopped, so a scavenge is one
action and a mark and sweep up to its first finalizer is another. A finalizer
is Smalltalk code: `phase` becomes `program` again while `calls` holds the
suspended collection with the class it was allocating for (a handle) and the
rest of `finalize[]` (raw pointers, not rewritten by anything: one to an object that a
nested collection has freed is `Swept`, and `RunFinalizer` sends to it all the
same). Whether an object has a finalizer is asked of its class, which the same
sweep may have freed: then `Keeps` allows either answer. Actions and
code: `SetRoot` a copy between variables; `Store` the store with its barrier
(`rawObjectStorePtr`, `generateStoreCheck`); `CopyOver` the copy of one object
over another by `objectBecome` and `installClass`, restricted to the copies that
need no barrier unless `Unbarriered` says otherwise; `Allocate` the bump allocation;
`AllocateCollects`, `MarkAndSweep`, `Retry` the slow path of `allocate`;
`CollectGarbage` the primitive; `RunFinalizer`, `FinalizerReturns` the loop at
the end of `gcSweep`. `GrowOldSpace` asks the free list for a page only when
there is no room.

**FreeList.** Sizes are counted in units of the alignment (16 bytes). The map
has `ByteBits` bits per byte; the code masks the first byte with
`0xff << index` where `index` may exceed 7; the shift count matters modulo the
width of the shift, `ShiftBits`. `AllocateFree` is `tryAllocateOld`,
`AllocateGrows` is `pageSpaceAllocate` when a new page is needed, `FreeObject`
what the sweep does. The failed ASSERTs are states (`failed`), not blocked
actions.

**RememberedSet.** `Add` is `rememberedSetAdd`; `StoreCheckAdds` is the machine
code that does the same in line, where the words it compares to see whether
the block is full are arbitrary, as they are in the code; `StartScan`,
`ScanNext`, `EndScan` the iterator, with `Add` between any two of them, as
`iterateObject` does. `Reset` empties the blocks; the tags are cleared as the
objects are traversed, so an object kept for its finalizer (`Finalizable`) may keep its
tag.

**LookupCache.** A new class or selector is at a cell of the semispace in use
(`addr`), an old one at an address of its own; a scavenge picks the cells
anew. `dict` and `parent` are the classes, `Body` the sends of each method in
the order of its byte code. `lookups` is the C stack: `lookupNativeCode` calls
the code generator, and that calls `lookupNativeCode` for each send to a
constant or to `super` (`BindSend`), while a send to a variable embeds the
selector's address (`GenerateSend`) in the assembler buffer; `Generated` is `buildNativeCode` and
`compiledMethodSetNativeCode`, `LookupReturns` the write of the cache. A
scavenge may come between any two of them: it rewrites the addresses in finished
code (`Rewritten`) and none in the buffers. `for` and `outdated` of entries and
bound sends are there for the properties only. The shadow class that
`buildClass` compiles a redefined class's methods for is not told apart from
the class it is copied over: it has the same superclass.

**Unwinding.** `stack` is the stack of frames, `memory` the word at each depth
where a frame keeps its context, and it is this word that decides whether a
context is alive (`contextHasValidFrame`, `generateOuterReturn`). The words of
frames that have been popped stay until a frame is pushed over them, or the handle
scope of `#signal` clears them (`ScopeFrames`). A handler is
named by the context of its `on:do:` frame. `Signal` is the whole primitive:
the walk along the chain, the choice, the new head of the chain and the jump;
`OuterReturn` is `^` in a block with its fallback to `#cannotReturn:`;
`Scavenge` is what `iterateExceptionHandlers` does to the chain. There is no mark and
sweep, whose roots `CurrentExceptionHandler` is not one of (`gcMarkRoots`). When control
is given to a frame that does not exist `state` becomes `wild`.

The path from a text to machine code is cut where the code hands a finished
thing on (tokens, a tree, byte code), and each part is compared with a second
account of what it should do, written from the other side: that account never
uses the functions of the part it judges.

**Tokenizer.** A text is a sequence of characters, a token its type, its
content and whether a space stands before it. `readToken` is an operator on a
text and a place. `PeekToken`, `PeekNthToken`, `PeekForToken`, `PrevToken`, `SkipForward` and `SkipBack`
are the calls of the parser, in any order; `tokens`, `tokenIndex` and
`tokenized` are the fields of the C structure. `TokenCursor` has no ring.

**Parser.** Each function of `Parser.c` is an operator on the state of a
parser; a method is read in one step, a file class by class and block by block
(`ReadClass`, `ReadBlock`). `Grammar` does not descend: it cuts a
whole text at its dots, semicolons, keywords and binary selectors by the depth
of brackets, and gives the set of readings.

**Compiler.** `Analyze...` is the walk of `Scope.c`, which decides where a
variable lives and copies arguments into contexts; `Compile...` the walk of
`Compiler.c`. Both are operators on trees, with the tables of the code
(scopes, literals, temporaries in use) as their state, and
indices that wrap at a byte. `Compilation` takes a method through
`compileMethod` and then runs it once. `SourceSemantics` runs the tree with
names and activations; `ByteCode` runs the units with frames' temporaries,
context objects and levels. They meet only in what can be observed: the sends,
the variables left behind and the answer.

**CodeGenerator.** `LinearScan` places one variable per step
(`scanRegisters`); then each byte code is generated and run in one step, which
is right because generated code has no jumps. `machine` holds the generator's
flags (what is in a register, what is on the stack) next to the real contents
of registers and slots; a send empties the registers and every slot its stack
map leaves out, as a collection and the callee may. `Activation` says what the
byte code means with no registers at all, and is implemented by it. The context is found as
the code finds it, also where it is given back to the caller (`AnswerWith`). Store
checks, inline sends and allocation are in `ObjectHeap`, `RememberedSet` and
`LookupCache`.

**HashedCollection.** An array with linear probing as two programs work on it.
`DictAtPut` is `dictAtPut` with `growDictionary` of `Dictionary.c`;
`AtPut` and `RemoveKey` the library's; `AnalyzeGlobalVar` binds an association
into compiled code and `AssignGlobal` is compiled code that stores into it.
Associations are named by their slot, and by their key once the
table has lost them.

## 3. Runs and what they show

Passing runs:

| run | bounds | shows |
|---|---|---|
| `heap` | 3 identities (the kernel class among them), 2 roots, 2 fields, a semispace of 2 objects, 2 pages of 1 object, collections not nested | the safety invariants below, and that the heap implements `MutatorHeap`: collections are invisible to the program |
| `finalizers` | the kernel class and 3 finalizable objects with their class pointer only, 2 roots, 3 pages of 1 object, two collections one inside the other | no object is put on a list of finalizers twice, and none waits on two lists, whatever an inner collection frees |
| `free_list` | sizes 1 to 7 with lists up to 3, bytes of 2 bits, 2 pages of 6 units | the lists, the map and the tiling of the pages agree; exact fits first; a page only when needed |
| `remembered_set` | 4 objects, blocks of 2 | each object once; a scan returns all that was there, once |
| `unwinding` | 4 contexts, 6 frames, an exception that an `on:do:` takes or not, a handle scope over one frame | handlers and entry frames are right and exceptions reach the right handler, though words of dead frames survive |
| `lookup` | the kernel class and one that is defined and redefined, 2 selectors, 3 methods, 2 cells in a semispace, a cache of 2 | cache entries and bound sends are right until something moves or is redefined, selectors in finished code follow the moves, lookups return |
| `compile` | methods of every shape up to blocks in blocks (a variable in the method, in a block, in a block of a block; hidden, an argument, assigned in a later block), methods to refuse, two orders of walking a dictionary, indices of a byte | a method is refused exactly when it should be, and running its byte code does what its source means |
| `codegen` | the units of those methods and byte code written to make variables overlap, with nine registers and with three | the machine code implements what the byte code means, with a collection possible at every send |
| `tokenizer` | texts of up to 3 to 5 characters of every kind and two long ones, the ring of 6 | the ring is a cursor; a text written from its tokens reads as the same tokens |
| `parse` | all sequences of up to 4 tokens of several alphabets in a method, headers, every text one token away from a long method and a class file | what is accepted is what the grammar reads, with its tree; reading goes on or ends |
| `dictionaries` | 4 keys with hashes 7, 7, 0, 2, two values, tables of 2 to 16, one removal, one global in compiled code | searches end; each operation is that of a map; compiled code and dictionary share a global |

Properties, by what could go wrong:

- `NoDangling`, `ProgramSpec`: an object is lost or a pointer of the program is
  left behind. `ProgramSpec` is the refinement: each step of the heap is a step
  of `MutatorHeap` on the reachable graph or leaves it alone.
- `RememberedComplete`, `TagsAgree`: the barrier, promotion or the rebuild after
  a mark and sweep forgets an old object, or one keeps a tag that makes every
  later barrier skip it.
- `HeapVerified`: `verifyHeap` as an invariant, garbage included.
- `MarksClear`, `SweepFreesGarbage`: a mark bit survives the collection that
  set it; garbage survives a mark and sweep.
- `FinalizedOnce`: a collection inside a finalizer finds an object again that waits
  on a list further out, or one that has been on a list.
- `PagesTiled`, `MapAgrees`, `ListsBySize`, `ExactFitFirst`, `GrowsForNeed`.
  The last one names its exception: chunks whose bit shares a byte with the
  next larger size, which `freeMapNext` may overlook.
- `EachOnce`, `ScanComplete`: an object added during a scan is returned twice,
  or pushes another out. A tag without a place in the blocks is allowed of objects
  whose class has a finalizer, as the code leaves it there.
- `HandlersInstalled`: a return, a `^`, an exception or a scavenge loses a handler
  or leaves one active. The handlers of the chain that have a frame are exactly
  those of the `on:do:` frames whose receiver is running, and from the handler of
  such a frame on they are those of the frames around it.
- `InnermostCatches`: an exception goes to the innermost of them that takes it.
- `EntriesOnStack`: a call from C or a return to it leaves an entry frame too many or
  too few on the list the collectors walk.
- `EntriesAnswer`, `BoundSendsAnswer`: an entry or a bound send is made with
  what was true before the code generation in its middle, for the wrong class,
  or in the wrong slot. What is right is stated without `lookupSelector`'s
  search (`Runs`).
- `LiteralsFollow`: finished machine code sends a selector from where it once was, save
  one that moved while the code was in the assembler buffer (section 4).
- `LookupEnds`: a lookup does not come back.
- `ErrorsReported`: an unknown, doubled or unassignable name gets through, or a
  good method is refused.
- `CodeWellFormed`: an index is beyond the sizes in the header of its unit, a
  block names a context nobody made, or a temporary is copied to itself.
- `ComputesSource`: a name is another variable than the innermost of its
  scopes, a copy of an argument in a context is out of date, a level is one off,
  a temporary is in use twice, `^` returns from the wrong place.
- `NoSharedRegister`: two variables alive together have one register.
- `StackmapsInitialized`: the collector is shown a slot that was never written.
- `ImplementsByteCode`: a value is read from a register that a send spoilt, a
  slot is not saved, a class is cached for a variable that changed.
- `ImplementsCursor`: the ring, after any looking ahead and stepping back,
  answers a token other than the one at that place.
- `ReadsBack`: comments, quotes or spaces are taken for more or less than they are.
- `AcceptsGrammar`, `ReadsOn`: precedence, a cascade, a bracket or the recovery
  after an error is wrong; `parseFile` goes round without reading.
- `SearchEnds`: a probe for an absent key never ends, because the tally is
  less than the elements and the table fills up.
- `OperationsOfMap`: an element is not found any more, found twice or answers
  another's value, after collisions, wrapping around and growth by either side.
- `BindingsShared`: compiled code and `Smalltalk` have two values for a global.

Where the code does break one of these in a known way, the property says so by
name: `ErrorLost`, `OperandOverwritten`, `AssignsAcrossContexts` (`Compilation`);
`KeepsClass`, `WritesCallersFrame`, `UsesSpilled` (`CodeGenerator`);
`LosesBracket`, `BareCascade`, `NegativeInArray`, `CharThenNumber` (`Parser`);
`InTheWay`, `GrowsOverNil`, `GrownByC` (`HashedCollection`). Each is a condition
on the input or on the step and none on what came of it; everything outside of
them has to be right. Section 4 tells what they are.

`ObjectHeap` and `CodeGenerator` have a type invariant in their runs (that of
`CodeGenerator` also says that no assertion of the code fails); the other
modules state theirs as `TypeOK` where they have one.

## 4. Where the code disagrees with itself

### The heap and execution

`lookup_moves` (`HitsRunTheMethod`) is a run that TLC ends with a violation:
`flushLookupCache` has no caller. A class defined where another was when it was
looked up takes its cache entries. On the machine, after fourteen classes were
defined with a collection between them, an instance of the last runs a method of
an earlier one. The same property fails with `Redefines = TRUE` and no move at
all: a redefined class keeps its address, and what was cached for it.

Seven more configurations are kept to be run by hand
(`tlc -config X.cfg M`); in each of them TLC finds the property violated:

- `HeapCopy.cfg` of `MCObjectHeap` (`HeapVerified`): a class that is redefined is
  copied over the old one as memory (`Class.c:279`; `objectBecome` does so too,
  `Smalltalk.c:115`), its tags with it and past the barrier. The machine stops
  in an ASSERT after a file redefines `Symbol`, allocates and uses symbols. The
  same property fails with `Unbarriered = {"fill"}`: an object that had to be
  allocated in the old space is initialised without the barrier (`Heap.c:57`,
  `Heap.c:138`).
- `HeapFinalizers.cfg` of `MCObjectHeap` (`HeapVerified`): an object kept for its
  finalizer is not traversed, loses its place in the remembered set and keeps
  its tag. The machine, built with `VERIFY_HEAP_AFTER_GC`, stops in
  `verifyPointer` when a finalizer stores its receiver.
- `FinalizersFreed.cfg` of `MCObjectHeap` (`FinalizedBeforeFreed`): objects on the list of a
  suspended sweep have lost their mark and are on no handle, so that a collection
  inside the first finalizer frees the next ones: `#finalize` is then sent to free
  memory (`GarbageCollector.c:252-258`).
- `FreeListSplit.cfg` of `FreeList` (`SplitHasRoom`): the mask of `freeMapNext` lets
  a request be served from the list of large chunks without asking their size.
- `RememberedSetRoom.cfg` of `RememberedSet` (`RoomToAdd`): the store check never
  sees a full block.
- `LookupLiterals.cfg` of `MCLookupCache` (`LiteralsInSpace`): the selector that a send
  embeds in the assembler buffer (`generateLoadObject`, `CodeGeneratorX64.c:499`) moves when a
  send to a constant further on is looked up and that scavenges: the buffer is
  no root. The finished code has an address in the semispace that is no longer used; the
  next scavenge follows it, and `forwardObject` is with an object that is not where its
  assertion says (`Scavenger.c:270`). The machine with a small new space stops in such
  an assertion.
- `UnwindingDeadFrame.cfg` of `MCUnwinding` (`TransfersToLiveFrames`): the word by
  which a frame is known to be alive outlives it. The machine ends in a
  segmentation fault for a `^` out of an `on:do:` several hundred frames deep
  followed by a signal, and for a block with `^` created twenty frames deep in a
  method that has returned.

The switches of the models keep each of these apart, so that the other
properties are not drowned by them: `Unbarriered` and `Finalizable` are set one at a
time. Two switches of `Unwinding` are FALSE everywhere, because the library as it is seldom gets there:
`DefaultReturns` (a `#defaultAction` that returns: `CurrentExceptionHandler`
stays 0 and the handlers around the sender are lost) and `LeaveC` (an exception
or `^` that leaves Smalltalk code run by C: the entry frame stays in
`thread.stackFramesTail`). `HandlersInstalled` and `EntriesOnStack` fail with
them on. With `LeaveC` FALSE the latter says no more than that calls from C and
returns are paired; no theorem is stated of it.

### Compilation

The deviations named in the properties; dropping one from its property makes
TLC show it. Most were seen on the machine too.

| deviation | the code | what happens |
|---|---|---|
| `ErrorLost` | an assigned name is checked before the value, whose analysis overwrites the error when it begins with a block; `thisContext` is not checked | `foo := [ 3 ]` with `foo` unknown is accepted; `a := [ 3 ]` for an argument, and `thisContext := 3`, abort at `Bytecodes.h:86` |
| `OperandOverwritten` | operands that are variables are read when the send runs | `x + (x := 3)` reads `x` after the assignment |
| `AssignsAcrossContexts` | `compareOperands` ignores the level (`Compiler.c:330-334`) | `x := y` between variables in contexts at different distances is dropped when their slots have the same number |
| `KeepsClass` | `generateCopy` to a temporary keeps the cached class (`CodeGeneratorX64.c:279-289`) | the next send is looked up in the class of the old value |
| `WritesCallersFrame` | a method without sends has no frame, but its temporaries have slots (`CodeGeneratorX64.c:283`, `1041-1047`) | it writes into its caller's |
| `UsesSpilled` | a spilled variable is filled into its register, which is -1; for associations an ASSERT says so (`1023`) | wrong machine code, with many variables |
| `LosesBracket` | an expression in brackets without messages gives way to what is in it (`Parser.c:468-470`) | `(x := 3).` and `y := (x := 3)` lose the inner assignment |
| `BareCascade` | a cascade may follow an expression without a message; one that ends in a bracket goes to its receiver | `(a foo); bar` sends `bar` to `a` |
| `NegativeInArray` | the comment of literal arrays promises negative numbers, the set of first tokens has none | `#(-1 2)` is refused |
| `CharThenNumber` | `$<` before a number begins a character by number | `#(1 $< 2)` without the space is refused |

Not in the models, and seen while they were written: `m1 [ ^thisContext ]`
answers nil; `<primitive: >` with nothing behind it crashes, as does `$` at the
end of a text by reading past it; `||` for no temporaries is refused; `2r-` is 0; a
radix above 36 is read for ever; the check of steps back in the tokenizer is off
by one (`Tokenizer.c:206`); bytes above 127 index its tables with negative
numbers; an unclosed comment is copied whole into a buffer of 64 (`358`); text
behind the closing bracket of an evaluated method is not read; `Parser.c:122`
says `subclass:` where the code wants `:=`; blocks without a frame do not
restore the context register; `evalCode` (`Entry.c:93`) and
`parseFileAndInitialize` (`139-141`) return without closing their handle scope;
160 classes in one file stop the machine at `Handle.h:156`.

### Dictionaries and collections

| deviation | the code | what happens |
|---|---|---|
| `InTheWay` | removal empties a slot and leaves what was put behind it (`HashedCollection.st:82`, `Dictionary.st:110`) | `d at: 1 put: ..; at: 9 put: ..; removeKey: 1`: 9 is gone, may be put again, and the old one comes back later |
| `GrownByC` | growth in C puts each key once more, into a new association, and counts it again (`Dictionary.c:107`) | with 255 globals, one more met by the compiler: `Smalltalk size` is 768 with 256 elements; code compiled before and `Smalltalk at:` no longer share a global |
| `GrowsOverNil` | the library believes the tally and walks a table it takes for full (`HashedCollection.st:72`) | after the above, its next growth stops at an empty slot with `nil did not understand #key`, and the rest of the globals is lost |

Not in the models: `OrderedCollection` makes room at its front only when it is
full, and inserting then ends out of range; `5 * -3` overflows, `4 \\ -2` is -2,
`7 // -2` is -3 where `Number.st` says truncation towards negative infinity,
`1 bitShift: 256` is 1, `3 / 0` ends the machine; `at:` and `at:put:` add the
number of instance variables to the low byte of the index only, so that the
256th element of a subclass of `Array` with variables is one of these.

## 5. Proofs

TLAPS checks everything in this section for all values of the constants: any
number of objects, classes, keys, frames, any page, cache or table size, any
unit of byte code, any text. What is assumed of the constants are the named assumptions of
the modules, which TLC evaluates in the runs. A theorem with a hypothesis on a
constant names the switch by which the model leaves out a way in which the code
breaks the property (section 4); the runs with a violation turn it on.

In each module the argument is the same: the property is not inductive alone, an
invariant that implies it is; one lemma per action shows that it is kept; the
temporal theorem is a few lines at the end.

| module | theorem | hypothesis |
|---|---|---|
| `ObjectHeapProofs` | `TypeCorrect` | |
| | `FinalizedOnceHolds` | `"copy" \notin Unbarriered` |
| | `NoDanglingHolds`, `HeapVerifiedHolds`, `RememberedCompleteHolds`, `TagsAgreeHolds`, `MarksClearHolds`, `SweepFreesGarbageHolds`, `ImplementsMutatorHeap` | `Finalizable = {}`, `Unbarriered = {}` |
| `OldSpaceProofs` | `TypeCorrect`, `PagesTiledHolds`, `MapAgreesHolds`, `ListsBySizeHolds`, `GrowsForNeedHolds`, `ExactFitFirstHolds` | |
| | `RememberedTypeCorrect`, `EachOnceHolds`, `ScanCompleteHolds` | |
| `LookupCacheProofs` | `TypeCorrect`, `EntriesAnswerHolds`, `BoundSendsAnswerHolds`, `LiteralsFollowHolds` | |
| `UnwindingProofs` | `TypeCorrect` | |
| | `HandlersInstalledHolds`, `InnermostCatchesHolds` | `DefaultReturns = FALSE` |
| `CodeGeneratorProofs` | `NoSharedRegisterHolds`, `ScanInvHolds`, `GenInvHolds`, `TypeOKHolds`, `StackmapsInitializedHolds`, `ImplementsByteCodeHolds` | |
| `HashedCollectionProofs` | `SearchEndsHolds`, `OperationsOfMapHolds`, `BindingsSharedHolds` | |
| `TokenizerProofs` | `RingHoldsAlways`, `ImplementsCursorHolds`, `ReadsBackHolds` | |

**ObjectHeapProofs.** The invariant `HeapInv` says of every object the old space
or a root leads to (the *anchored* objects, a larger set than the reachable ones:
old garbage is traversed by a scavenge as long as it is remembered) that it is
allocated and that its fields are good, and ties together remembered set, tags,
marks and phase. Three facts carry the steps: what `Reach` returns; that the
anchored objects refer to anchored objects only, and that to show the next state
sound it is enough to exhibit any closed set that holds its old space and roots
(`AnchoredFacts`, `AnchoredFields`, `AnchoredStep`); and that a scavenge visits
every field that refers to the new space (`ForwardedFacts`, `ScavengeSound`),
which is where `RememberedComplete` is needed: `NoDangling` cannot be proved
without it, nor it without `TagsAgree`. `SweepSound` does the same for mark and
sweep. `CopyOver` keeps `RememberedComplete` only because a copy into an old
object that brings pointers to new ones comes from an old object with the same tag.

The refinement adds to `HeapInv` that the class which a suspended collection will
instantiate is named by the program that waits (`HandlesNamed`). Each step of the
program is then the step of `MutatorHeap` of the same name on the graph of
reachable objects, and each step of a collection leaves that graph exactly as it is:
objects are identities, so a moved object needs no renaming.

`FinalizedOnce` rests on `PendingInv`: what waits for its finalizer is old, has
been tagged, and waits in one suspended collection only; what a nested collection
frees waits nowhere any more, and its tag goes with its memory. Finalizers may run
anything, collections included.

**OldSpaceProofs.** (The module extends both `FreeList` and `RememberedSet`, which is why
the latter's behaviours are named `SetInit`, `SetNext` and `SetSpec`.) `Sound` says of the lists that each holds chunks of its size,
inside the pages, none twice, and of the map that it agrees with them;
`Inv` adds that objects and chunks tile the pages, unless the ASSERT of the split
has failed. Each operation is a removal from a list, an insertion, or a split, and
the tiling is kept since the pieces of a chunk cover it.

Of the remembered set `ChainInv` says: the objects in the blocks have a tag, the only
other ones with a tag are finalizable, and the objects are there once each, and only the newest block may be empty. `ScanInv`: what was in the set
when a scan began has been returned or lies ahead of the iterator, and nothing that
lies ahead has been returned; an object that is added goes behind the end that the
iterator took note of.

**LookupCacheProofs.** `Inv` says of entries and bound sends that nothing outdated
that they are right (`Right`: the class runs that code for that selector, and all three
exist), of each method with machine code that its sends are bound, and of each lookup
on the C stack what it is in the middle of and that the one above it is what the
code generator of the one below is waiting for (`Asking`). The facts about the
search along superclasses need the classes that exist to be closed under
superclass. A scavenge, or a class that is defined, outdates what it would break.
For `LiteralsFollow` no switch is needed: an address in finished code or in a buffer is that
of its selector unless the selector moved while it was in the buffer (`LiteralsInv`).
Rewriting the addresses is right because two objects are never at one address
(`CellsInv`), so that an old address tells whose it was.

**UnwindingProofs.** `FramesInv`: which kinds of frames lie next to which;
`ObjectsInv`: the context a frame holds says where the frame is; `ChainsInv`: no
handler is outside itself, so that the chain ends (`HandlersInstalled` is about
a walk along it); `MemoryInv`: the context words of the frames there are. A word of a dead
frame may make a stale handler look alive; `InnermostCatches` is then about the jumps
that do find a frame.

**CodeGeneratorProofs.** First the scan (`ScanInv`). For every unit: variables are placed in the order of
their first use; the list of active variables and the pool of registers hold each
register once and nothing in common; whoever left the list with a register has
ended before the last variable placed begins; and those placed that overlap have
different registers (`Apart`). That the order is that of first uses, and that the
list is cut at the right place, is proved through the recursive functions `OrderOf`
and `RemoveDead`. Since an interval covers each use (`UsedAlive`), the variables
that are used again at one place have registers of their own there (`Located`).

Then the generator (`GenInv`), one byte code at a time. `Holds` says that a
register or slot flagged for a variable that is used again holds what the
variable stands for (`Right`); of the others nothing is said, since their
registers are given away while their flags stay. `Ready` and `Takes` say which
operands can be read and stored into. Each helper of the generator has a lemma on
what it moves, and on these rest `CopyHolds`, `SendHolds` and
`ReturnHolds`: what is read is what the byte code names, and afterwards the flags
are right again. A send is where this is hard: it forgets all registers, and the
slots left out of its stack map are those of variables not used again. The class
kept for a variable needs more: after a copy from no variable it is the class
of an earlier value (`Stale`), the send that would use it is `KeepsClass`, and
any other write forgets it. `CopyRuns` and `SendRuns` lead from one place in
the unit to the next; `GenInvNext` shows that each byte code is the step of
`Activation` and that all else is a stutter. What is assumed of units
(`UnitsAssumption`) is what `CodeWellFormed` says of the compiler's output, and that
only blocks return from an outer context; units of the named deviations
are left out by the guard of `Begin`.

**HashedCollectionProofs.** A table is *sound* when every element is where its key is
looked for. First the search: probing meets every slot (`ProbeOnto`, from
remainders), so that there is a first place to stop if there is any
(`SearchFacts`), and it is still the first after a change that empties no slot and
takes none on the way with that key (`StillFound`). Then each operation on a table:
`StoredSound`, `RemovedSound` (which needs that the element is not in the way of
another), and growth, along the array slot by slot: `Rebuilt(t, n, u)` says what u
has of the first n slots of t, and `PutOnceMoreFacts` and
`AddOnceMoreFacts` take the next. What a sound table answers depends on its set of
elements alone (`AnswersFacts`), so growth does not change the answers. The
invariant between operations is that elements are not more than the tally and the
tally is below the size: C counts elements twice, never not at all, and after its
growth, or the second that may follow at once, the table is at most three quarters
full by its own count (`GrownFacts`).

**TokenizerProofs.** That the ring is a cursor over the tokens of a text is only half
about the ring: the ring reads on from where it stopped, and reading so must
give, token by token, what reading the text as a whole gives. A function that
reads (`EndOf`, `Quoted`, `AfterSeparators`, `Scan`, `Read`, `TokensFrom`) looks at what it
answers for a place further on; each is shown to be defined for every place, to obey
its equation, and to go forward (`ScanFacts` goes through the kinds of tokens), so that
the next rests on it. Then the ring: `RingInv` says that the last `MAX_TOKENS` tokens
that were read are in their slots and that the next is to be read at `at`. Reading
`count` more is a recursive function too (`ReadingFacts`); slots of the tokens that stay are
not overwritten (`SlotsDiffer`), also when more than a whole ring is read. Each call of
the parser is then a step of `TokenCursor`, or reads ahead and is a stutter.

That a text written anew reads as the same tokens (`ReadsBackHolds`) compares two texts at
places a distance apart (`Copied`): the characters of a token are the same in both,
and behind it there is the same character, or a space where there were separators or a
comment. What readToken asks of the character behind a token, it cannot
tell those two apart (`SameClass`, `NoClassSeparates`), with one exception: a
colon is part of a keyword unless `=` follows, so that `Follows` speaks of
two characters. `EndOfCopied`, `QuotedCopied`, `WordCopied`, `NumberCopied` and `ScanCopied`
then say that each kind of token is read from the copy with the same type,
content and length. A token is spelled as it stands in the text (`SpelledIs`;
`QuotedSpelled` for doubled quotes), no separators are left before it but one space
(`AfterIs`), and what is written behind it follows it as the copy requires
(`FollowsRest`), so the first token is read again and the rest stands behind it
(`ReadCopied`); down from the last place of the text, so are all (`ReadAgain`). Texts
with an unclosed string or comment are no part of the claim, here as in the run: their
last token cannot be written so that it closes.

**Foundations.** What the above share: the least set that is closed under edges
(`ReachSources`, `ReachClosed`, `ReachLeast`, `ReachHasFirst`); the
least member of a set of numbers, from the well-foundedness of inclusion of finite
sets, and with it induction stated about a *set* of numbers (`LeastNatural`, `UpTo`);
that a recursive function along the numbers exists and follows its equations
(`Recursion`, `RecursionAlong`), and one downwards from an end
(`RecursionDown`), with the induction that goes with it (`DownFrom`). The induction theorems of the library, which
take a predicate as a parameter, are not used.

Only model-checked:

- `LookupEnds`: liveness.
- `EntriesOnStack`: pairs pushes and pops only.
- `ProgramSpec`, `NoDangling` and the others of that row with finalizers or with
  copies past the barrier: the code breaks `HeapVerified` then (section 4), and
  what holds nevertheless is not stated.
- `CodeWellFormed`, `ErrorsReported`, `ComputesSource` (`Compilation`),
  `AcceptsGrammar`, `ReadsOn` (`Parser`): these walk trees or token sequences with
  recursive operators.

## 6. Bounds, assumptions, fairness

- `NewCells = 2` is the smallest new space in which a copy and a promotion can
  happen in the same scavenge; `PageCells = 1` makes each promotion a question
  of growth; two identities besides the kernel class give old-to-new, new-to-old
  and cyclic references, and identities are used again once freed.
- `MaxPages` stands for the memory the operating system gives; a step that
  needs more is not taken (the machine stops there).
- `MaxNesting` bounds collections inside finalizers. In `finalizers` it is 2, and three
  finalizable objects make that enough: one sweep puts two of them on its list, and while the
  first is being finalized a second sweep frees the other or puts the third on a list
  of its own.
- In `FreeList`, `ListSize 4`, `ByteBits 2`: two bytes of map, so that an index
  whose byte is not the first exists; 7 is larger than a page. 
- `BlockSize = 2`: four objects fill two blocks; a scan meets an empty newest
  block, a full one, and one that grows under it.
- Six frames: an `on:do:` inside the handler block of another inside a call
  from C. One kind of exception, which a handler takes or does not: the walk along the
  chain asks no more than that. `ScopeFrames = 1`: the words of dead frames below the
  handle scope stay.

`CHECK_DEADLOCK FALSE` appears wherever the bounds (memory, frames, the end of
the program) stop the system.

- In `LookupCache` two cells and two semispaces are enough for a class and a
  selector to move, to become old and to leave their cells to others; the
  cache has two slots, so that entries displace one another. `lookup_moves` has
  a third class, which takes the place of the second. `MaxDepth` is larger than
  any nesting of lookups these methods cause and stops none.

- In `Compilation` a method is a few statements around the one that varies, with
  blocks two deep: what `Scope.c` and `Compiler.c` tell apart is whether a variable is used where it is
  defined, one unit in or two, read or assigned there, and as what operand.
  The number of variables never comes near a byte; that indices
  wrap (`IndexRange`) is in the model, and what follows from it is not checked.
- In `CodeGenerator` three registers make the same units spill that nine do not;
  the units that need spilled variables in ways the generator cannot handle are
  `UsesSpilled`.
- `TokenizerAssumption`: a text has no NUL in it, and `MAX_TOKENS` is at least 2, since the
  parser looks at the token after the current one.
- In `Tokenizer` texts with a radix above 36 are left out: reading one never ends.
- In `Parser` four tokens are enough for each pair of neighbouring constructs;
  nesting and recovery are in the long texts, each changed at every place.
- In `HashedCollection` two keys with one hash, at the last slot of a table of
  8, wrap around onto the key with hash 0; from 2 the table grows twice or three times within 4 keys;
  `MaxSize` 16 is beyond what four keys reach without the double counting of C.

`parse` is the one run of these that checks deadlock: the reading of a file has a next
step until it is over.

One liveness property is stated, `LookupEnds`, under `WF_vars(Step)`: the C code
of a lookup, once called, goes on until it returns, whatever scavenges its own
allocations cause; nothing else is assumed to happen. Nothing else in the code
schedules anything: one thread runs, and what it runs next is the program's
choice. The other loops that must end are the collectors' own; they are single
steps here.

## 7. Plan

Done: `ObjectHeap`, `FreeList`, `RememberedSet`, `Unwinding`, `LookupCache`;
`Tokenizer`, `Parser`, `Compiler`, `LinearScan` and `CodeGenerator`, each against its
reference; `HashedCollection`. Left, in this order:

1. `HandleScopes`: scopes, early returns in `Entry.c`, the limit of 256, freed
   persistent handles; composed with `Unwinding` for jumps over C frames.
2. `OrderedCollection` and `Collection.c` as state machines that implement a
   sequence.
3. `Snapshot`: writer and reader, isomorphism of what is read.
4. `Streams`: the buffered stream against an unbuffered one; `Integers`: the
   arithmetic and indexing primitives on tagged words.
5. `become:` on top of `ObjectHeap`.

Proofs: done for the safety properties of `ObjectHeap` (with the refinement of
`MutatorHeap`), `FreeList`, `RememberedSet`, `LookupCache`, `Unwinding`, `LinearScan`,
`CodeGenerator` (with the refinement of `Activation`), `HashedCollection` and `Tokenizer`
(with the refinement of `TokenCursor`). What is left of the properties walks trees
(section 5).

## 8. Not modelled, and why

Still to come (section 7): handles, snapshots, `become:` beyond its copy, the ordered
collections, streams and the arithmetic primitives.

Left out for good: instruction encoding (`Assembler*.h`), formatting and
printing, the operating system (`OsLinux.c`, `Socket.c`, terminal), vendored code
(`cityhash`, `linenoise`), the one-time `Bootstrap.c`, `Optimizer.c` (never
called), the processes of the library (there is one) and the library's own
parser and node classes, which no part of the machine uses. Of `Lookup.c`,
`feedbackType` is left out: only `Optimizer.c` reads what it records. Of the
compiler, source positions, descriptors for the debugger and the packing of
byte code into bytes. Of the code generator, moves of values through scratch
registers and blocks without a frame. Of the dictionaries, the symbol table,
which is a set that never grows.

Out of the reach of the prover and left to TLC: liveness (`LookupEnds`), and
what RECURSIVE operators compute for every input. Recursive functions along the
numbers are within it (`Foundations`).
