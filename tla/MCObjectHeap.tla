---------------------------- MODULE MCObjectHeap ----------------------------
(* ObjectHeap on a small heap, checked against MutatorHeap.                *)
EXTENDS ObjectHeap, TLC

(* Identities other than the kernel class are alike, and so are the roots. *)
RootSymmetry == Permutations(Root)
Symmetry     == RootSymmetry \union Permutations(Obj \ {Kernel})

(* The heap as the program sees it: the reachable objects.                 *)
Program == INSTANCE MutatorHeap WITH graph <- [o \in Reachable |-> slot[o]]
ProgramSpec == Program!Spec

=============================================================================
