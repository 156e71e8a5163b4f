----------------------------- MODULE MCUnwinding -----------------------------
(* Unwinding with interchangeable contexts.                                *)
EXTENDS Unwinding, TLC

Symmetry == Permutations(Ctx)

=============================================================================
