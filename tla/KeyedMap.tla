------------------------------ MODULE KeyedMap ------------------------------
(* What a dictionary promises: a partial function from keys to values that   *)
(* changes at the key that is put or removed and nowhere else.               *)
CONSTANTS Keys, Values,
          Absent      \* no value: what a key maps to that is not there

VARIABLE map

Init == map = [k \in Keys |-> Absent]

Put(k, v) == map' = [map EXCEPT ![k] = v]

Remove(k) == map[k] # Absent /\ map' = [map EXCEPT ![k] = Absent]

Next == \E k \in Keys : Remove(k) \/ \E v \in Values : Put(k, v)

Spec == Init /\ [][Next]_map
=============================================================================
