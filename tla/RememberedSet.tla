---------------------------- MODULE RememberedSet ----------------------------
(***************************************************************************)
(* The remembered set (RememberedSet.h): a chain of blocks of old objects  *)
(* that the scavenger reads with an iterator while it adds to the set the  *)
(* objects it promotes.  Objects are added by the write barrier in C and   *)
(* by the store check of native code, which decides for itself whether the *)
(* block is full (generateStoreCheck in CodeGeneratorX64.c).  SetInit,     *)
(* SetNext and SetSpec are named so that a module can extend this one and  *)
(* that of the other part of the old space, FreeList.                      *)
(***************************************************************************)
EXTENDS Naturals, Sequences, FiniteSets

CONSTANTS
  Obj,          (* old objects                                               *)
  Finalizable,  (* those whose class understands #finalize                   *)
  BlockSize     (* REMEMBERED_SET_BLOCK_SIZE, 1024                           *)

ASSUME RememberedSetAssumption == Finalizable \subseteq Obj /\ BlockSize \in Nat \ {0}

VARIABLES
  blocks,   (* the objects of each block, the newest block last              *)
  tagged,   (* objects with TAG_REMEMBERED                                   *)
  scan,     (* the iterator of a scavenge, or NoScan                         *)
  asserted  (* the ASSERT of rememberedSetAdd failed                         *)

setVars == <<blocks, tagged, scan, asserted>>

(* block and next are where the iterator stands, next is 0 when it has     *)
(* ended; end is its blockEnd; start holds what was in the set when the    *)
(* scan started and seen what it has returned.                             *)
Scan   == [block : Nat, next : Nat, end : Nat, start : SUBSET Obj, seen : Seq(Obj)]
NoScan == << >>

Newest    == blocks[Len(blocks)]
InBlocks(bs) == UNION { { bs[b][i] : i \in DOMAIN bs[b] } : b \in DOMAIN bs }
Scanning  == scan # NoScan

(* More objects in a block than it has room for: memory past its end was   *)
(* written, and nothing is said of what happens next.                      *)
Overrun == \E b \in DOMAIN blocks : Len(blocks[b]) > BlockSize

SetInit ==
  /\ blocks = << << >> >>
  /\ tagged = {}
  /\ scan = NoScan
  /\ asserted = FALSE

(* The newest block of bs takes o.                                         *)
Stored(bs, o) == [bs EXCEPT ![Len(bs)] = Append(@, o)]

(* Mutant: the chain starts again with the new block.                      *)
GrownAlone(bs) == << >>

(* rememberedSetGrow.                                                      *)
Grown(bs) == Append(bs, << >>)

(* Mutant: TAG_REMEMBERED is not tested.                                   *)
MayRememberAgain(o) == ~asserted /\ ~Overrun

(* The barriers and the collectors add an object without the tag.          *)
MayRemember(o) == o \notin tagged /\ ~asserted /\ ~Overrun

(* rememberedSetAdd.                                                       *)
Add(o) ==
  /\ MayRemember(o)
  /\ IF Len(Newest) < BlockSize
     THEN /\ blocks' = IF Len(Newest) + 1 = BlockSize THEN Grown(Stored(blocks, o))
                       ELSE Stored(blocks, o)
          /\ tagged' = tagged \union {o}
          /\ UNCHANGED asserted
     ELSE /\ asserted' = TRUE
          /\ UNCHANGED <<blocks, tagged>>
  /\ UNCHANGED scan

(* The store check of native code.  It compares two words found at offsets *)
(* of the place where the next object goes, not the block's current and    *)
(* end: whatever malloc left there decides whether a block is added.       *)
StoreCheckAdds(o) ==
  /\ MayRemember(o) /\ ~Scanning
  /\ \E grow \in BOOLEAN :
       blocks' = IF grow THEN Grown(Stored(blocks, o)) ELSE Stored(blocks, o)
  /\ tagged' = tagged \union {o}
  /\ UNCHANGED <<scan, asserted>>

(* rememberedSetReset at the start of markAndSweep, and the tags as the    *)
(* collection leaves them: iterateObject clears that of every object it    *)
(* traverses, before it adds the object again if it still refers to a new  *)
(* one, and a freed object loses it with its memory; one that is kept for  *)
(* its finalizer alone is not traversed, and the tag stays.                *)
Reset ==
  /\ ~Scanning /\ ~asserted /\ ~Overrun
  /\ blocks' = << << >> >>
  /\ \E kept \in SUBSET (tagged \intersect Finalizable) : tagged' = kept
  /\ UNCHANGED <<scan, asserted>>

(* rememberedSetIteratorSetBlock: where the iterator stands in block b.    *)
AtBlock(b) == [block |-> b, next |-> IF blocks[b] = << >> THEN 0 ELSE 1,
               end |-> Len(blocks[b])]

(* Mutant: the first block tried is kept even when it is empty.            *)
FirstBlockNewest == Len(blocks)

(* initRememberedSetIterator: the newest block, or the one before it when  *)
(* it is empty.                                                            *)
FirstBlock ==
  IF Newest = << >> /\ Len(blocks) > 1 THEN Len(blocks) - 1 ELSE Len(blocks)

StartScan ==
  /\ ~Scanning /\ ~asserted /\ ~Overrun
  /\ LET at == AtBlock(FirstBlock)
     IN  scan' = [block |-> at.block, next |-> at.next, end |-> at.end,
                  start |-> InBlocks(blocks), seen |-> << >>]
  /\ UNCHANGED <<blocks, tagged, asserted>>

(* rememberedSetIteratorNext, after it has read an object.                 *)
Advanced(s) ==
  IF s.next < s.end THEN [s EXCEPT !.next = @ + 1]
  ELSE IF s.block > 1
       THEN LET at == AtBlock(s.block - 1)
            IN  [s EXCEPT !.block = at.block, !.next = at.next, !.end = at.end]
       ELSE [s EXCEPT !.next = 0]

(* The scavenger takes the next object; iterateObject adds what it finds.  *)
ScanNext ==
  /\ Scanning /\ scan.next # 0
  /\ scan' = [Advanced(scan) EXCEPT !.seen = Append(@, blocks[scan.block][scan.next])]
  /\ UNCHANGED <<blocks, tagged, asserted>>

EndScan ==
  /\ Scanning /\ scan.next = 0
  /\ scan' = NoScan
  /\ UNCHANGED <<blocks, tagged, asserted>>

SetNext ==
  \/ \E o \in Obj : Add(o) \/ StoreCheckAdds(o)
  \/ Reset \/ StartScan \/ ScanNext \/ EndScan

SetSpec == SetInit /\ [][SetNext]_setVars

-----------------------------------------------------------------------------
(* Properties.                                                             *)

SetTypeOK ==
  /\ blocks \in Seq(Seq(Obj)) /\ blocks # << >>
  /\ tagged \subseteq Obj
  /\ scan \in Scan \union {NoScan}
  /\ asserted \in BOOLEAN

(* An object in the blocks is there once and has the tag; the tag tells    *)
(* that an object is there, unless its class has a finalizer: one that was *)
(* kept for it may still have the tag of a set that is gone.               *)
EachOnce ==
  /\ InBlocks(blocks) \subseteq tagged
  /\ tagged \ InBlocks(blocks) \subseteq Finalizable
  /\ \A b, c \in DOMAIN blocks : \A i \in DOMAIN blocks[b], j \in DOMAIN blocks[c] :
       blocks[b][i] = blocks[c][j] => b = c /\ i = j

(* A scan that has ended has returned every object that was in the set     *)
(* when it started, each of them once, whatever was added meanwhile.       *)
ScanComplete ==
  Scanning /\ scan.next = 0 =>
    /\ scan.start \subseteq { scan.seen[i] : i \in DOMAIN scan.seen }
    /\ \A i, j \in DOMAIN scan.seen : i # j => scan.seen[i] # scan.seen[j]

(* ASSERT(block->current < block->end) of rememberedSetAdd.                *)
RoomToAdd == Len(Newest) < BlockSize

=============================================================================
