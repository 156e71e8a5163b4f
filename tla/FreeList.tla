------------------------------- MODULE FreeList -------------------------------
(***************************************************************************)
(* A page space (HeapPage.c) and its free list (FreeList.c): segregated    *)
(* lists of free chunks with a bit map of the lists that are not empty,    *)
(* and a last list of large chunks of any size.  Sizes are in units of     *)
(* HEAP_OBJECT_ALIGN.  The old space and the executable space are one each.*)
(***************************************************************************)
EXTENDS Naturals, Integers, Sequences, FiniteSets

CONSTANTS
  ListSize,   (* FREE_LIST_SIZE, 128: the index of the list of large chunks  *)
  ByteBits,   (* bits of an element of freeMap, 8                            *)
  ShiftBits,  (* bits of the int that freeMapNext shifts, 32: x86 shifts by  *)
              (* the count modulo this number                                *)
  PageSize,   (* units of a page                                             *)
  MaxPages,   (* bound: pages mapped                                         *)
  Request     (* sizes asked for                                             *)

ASSUME FreeListAssumption ==
  /\ ByteBits \in Nat \ {0} /\ ShiftBits \in Nat \ {0}
  /\ ListSize \in Nat \ {0} /\ ListSize % ByteBits = 0
  /\ PageSize \in Nat /\ PageSize >= ListSize
  /\ MaxPages \in Nat \ {0}
  /\ Request \subseteq Nat \ {0}

VARIABLES
  free,    (* freeSpaces: a sequence of chunks per index                     *)
  map,     (* the indices whose bit is set in freeMap                        *)
  used,    (* chunks handed out as objects                                   *)
  pages,   (* pages of the space                                             *)
  failed   (* the ASSERT that stopped the machine: "no", "split" or "page"   *)

vars == <<free, map, used, pages, failed>>

Index == 0..ListSize
Chunk == [page : 1..MaxPages, at : 0..(PageSize - 1), size : 1..PageSize]

(* indexForSize.                                                           *)
IndexForSize(n) == IF n > ListSize THEN ListSize ELSE n

(* Mutant: the header of the page is not taken off.                        *)
PageAndHeader(p) == [page |-> p, at |-> 0, size |-> PageSize + 1]

(* createInitialFreeSpace: a page is one chunk.                            *)
WholePage(p) == [page |-> p, at |-> 0, size |-> PageSize]

Init ==
  /\ free = [i \in Index |-> IF i = ListSize THEN <<WholePage(1)>> ELSE << >>]
  /\ map = {}
  /\ used = {}
  /\ pages = 1
  /\ failed = "no"

-----------------------------------------------------------------------------
(* Mutant: an index counts from size 1.                                    *)
PushedBelow(l, c) ==
  [l EXCEPT ![IF c.size < ListSize THEN c.size - 1 ELSE ListSize] = <<c>> \o @]

(* freeListAddFreeSpace, on the lists and on the bit map.                  *)
Pushed(l, c)    == [l EXCEPT ![IndexForSize(c.size)] = <<c>> \o @]
PushedMap(m, c) == m \union {IndexForSize(c.size)}

(* popFreeSpace, on the lists and on the bit map.                          *)
Popped(l, i)       == [l EXCEPT ![i] = Tail(@)]
(* Mutant: the bit outlives the last chunk.                                *)
BitStays(l, m, i)  == m
PoppedMap(l, m, i) == IF Len(l[i]) = 1 THEN m \ {i} ELSE m

Least(S) == CHOOSE i \in S : \A j \in S : i <= j

(* freeMapNext: the first index from i on whose bit is set, or -1.  The    *)
(* first byte is masked with i itself, not with i % ByteBits.              *)
FreeMapNext(m, i) ==
  LET here  == { j \in m : j \div ByteBits = i \div ByteBits /\ j % ByteBits >= i % ShiftBits }
      later == { j \in m : j \div ByteBits > i \div ByteBits }
  IN  IF here # {} THEN Least(here)
      ELSE IF later \ {ListSize} # {} THEN Least(later)
      ELSE -1

(* Mutant: the list of chunks of the very size is not tried first.         *)
SourceNotExact(l, m, n) ==
  LET i    == IndexForSize(n)
      next == IF i + 1 < ListSize THEN FreeMapNext(m, i + 1) ELSE -1
  IN  IF next # -1 THEN next
      ELSE IF \E k \in DOMAIN l[ListSize] : l[ListSize][k].size >= n THEN ListSize
      ELSE IF i # ListSize /\ i \in m THEN i
      ELSE -1

(* Mutant: only the first large chunk is looked at.                        *)
SourceHeadOnly(l, m, n) ==
  LET i    == IndexForSize(n)
      next == IF i + 1 < ListSize THEN FreeMapNext(m, i + 1) ELSE -1
  IN  IF i # ListSize /\ i \in m THEN i
      ELSE IF next # -1 THEN next
      ELSE IF l[ListSize] # << >> /\ Head(l[ListSize]).size > n THEN ListSize
      ELSE -1

(* freeListTryAllocate: the list whose first chunk serves a request for n  *)
(* units, or -1.  Large chunks are searched for one that is large enough.  *)
Source(l, m, n) ==
  LET i    == IndexForSize(n)
      next == IF i + 1 < ListSize THEN FreeMapNext(m, i + 1) ELSE -1
  IN  IF i # ListSize /\ i \in m THEN i
      ELSE IF next # -1 THEN next
      ELSE IF \E k \in DOMAIN l[ListSize] : l[ListSize][k].size >= n THEN ListSize
      ELSE -1

(* Mutant: the rest of a chunk overlaps what was taken from it.            *)
RestOverlaps(c, n) == [c EXCEPT !.at = @ + n - 1, !.size = @ - n]

(* What splitFreeSpace gives back of chunk c.                              *)
Rest(c, n) == [c EXCEPT !.at = @ + n, !.size = @ - n]

(* The request for n units is served from index i of the lists l and map m.*)
Serve(l, m, n, i) ==
  LET c     == Head(l[i])
      exact == i = IndexForSize(n) /\ i # ListSize
      taken == [c EXCEPT !.size = IF exact THEN @ ELSE n]
  IN
  IF ~exact /\ c.size <= n                       (* ASSERT in splitFreeSpace *)
  THEN /\ failed' = "split"
       /\ UNCHANGED <<free, map, used>>
  ELSE /\ used' = used \union {taken}
       /\ free' = IF exact THEN Popped(l, i) ELSE Pushed(Popped(l, i), Rest(c, n))
       /\ map'  = IF exact THEN PoppedMap(l, m, i)
                  ELSE PushedMap(PoppedMap(l, m, i), Rest(c, n))
       /\ UNCHANGED failed

(* pageSpaceAllocate out of the chunks there are: tryAllocateOld.          *)
AllocateFree(n) ==
  /\ failed = "no"
  /\ Source(free, map, n) # -1
  /\ Serve(free, map, n, Source(free, map, n))
  /\ UNCHANGED pages

(* pageSpaceAllocate with a new page.                                      *)
AllocateGrows(n) ==
  LET l == Pushed(free, WholePage(pages + 1))
      m == PushedMap(map, WholePage(pages + 1))
  IN
  /\ failed = "no"
  /\ Source(free, map, n) = -1
  /\ pages < MaxPages
  /\ pages' = pages + 1
  /\ IF Source(l, m, n) # -1 THEN Serve(l, m, n, Source(l, m, n))
     ELSE /\ failed' = "page"                   (* ASSERT(p != NULL)         *)
          /\ free' = l /\ map' = m
          /\ UNCHANGED used

(* freeObject: the sweep gives a chunk back; neighbours are not joined.    *)
FreeObject(c) ==
  /\ failed = "no"
  /\ used' = used \ {c}
  /\ free' = Pushed(free, c)
  /\ map' = PushedMap(map, c)
  /\ UNCHANGED <<pages, failed>>

Next ==
  \/ \E n \in Request : AllocateFree(n) \/ AllocateGrows(n)
  \/ \E c \in used : FreeObject(c)

Spec == Init /\ [][Next]_vars

-----------------------------------------------------------------------------
(* Properties.                                                             *)

TypeOK ==
  /\ free \in [Index -> Seq(Chunk)]
  /\ map \subseteq Index
  /\ used \subseteq Chunk
  /\ pages \in 1..MaxPages
  /\ failed \in {"no", "split", "page"}

Covers(c, p, u) == c.page = p /\ c.at <= u /\ u < c.at + c.size

(* Every unit of every page belongs to exactly one object or free chunk:   *)
(* no allocation overlaps another, no memory is lost, and the iterator of  *)
(* the space (pageSpaceIteratorNext) can walk from chunk to chunk.         *)
PagesTiled ==
  failed # "split" =>
    \A p \in 1..pages, u \in 0..(PageSize - 1) :
      Cardinality({ c \in used : Covers(c, p, u) }) +
      Cardinality(UNION { { <<i, k>> : k \in { k \in DOMAIN free[i] : Covers(free[i][k], p, u) } }
                          : i \in Index }) = 1

(* A bit of freeMap is set exactly when its list has a chunk.  (The list   *)
(* of large chunks starts with a chunk and a clear bit.)                   *)
MapAgrees ==
  /\ \A i \in Index \ {ListSize} : i \in map <=> free[i] # << >>
  /\ ListSize \in map => free[ListSize] # << >>

(* A list holds chunks of its size only, so the first chunk of a list that *)
(* is large enough serves a request.                                       *)
ListsBySize ==
  \A i \in Index : \A k \in DOMAIN free[i] : IndexForSize(free[i][k].size) = i

FreeChunks == UNION { { free[i][k] : k \in DOMAIN free[i] } : i \in Index }

(* A page is mapped only for a request that no free chunk can hold, save   *)
(* for the chunks that freeMapNext overlooks: those whose bit is in the    *)
(* same byte as that of the next larger size.                              *)
GrowsForNeed ==
  [][\A c \in used' \ used : pages' > pages =>
       \A d \in FreeChunks : d.size >= c.size =>
         d.size < ListSize /\ d.size \div ByteBits = (c.size + 1) \div ByteBits]_vars

(* A chunk of exactly the size asked for is taken before any is split.     *)
ExactFitFirst ==
  [][\A c \in used' \ used : c.size < ListSize /\ (\E d \in FreeChunks : d.size = c.size)
       => c \in FreeChunks]_vars

(* ASSERT(freeSpace->size > size) of splitFreeSpace.                       *)
SplitHasRoom == failed # "split"

=============================================================================
