------------------------- MODULE MCHashedCollection -------------------------
(* Four globals, one of them named by compiled code. Two have the same hash,  *)
(* and it is the last slot of every size up to 8: searches go around the end. *)
EXTENDS HashedCollection, TLC

CONSTANTS a, b, c, d

MCHash == (a :> 7) @@ (b :> 7) @@ (c :> 0) @@ (d :> 2)
=============================================================================
