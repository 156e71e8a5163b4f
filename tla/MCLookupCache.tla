--------------------------- MODULE MCLookupCache ---------------------------
(* LookupCache with two selectors, three methods and the few classes of a  *)
(* configuration.                                                          *)
EXTENDS LookupCache

CONSTANTS sender, superSender, other

(* The least bit of the exclusive or, with the addresses of old objects    *)
(* even.                                                                   *)
Bit(a) == IF a \in Object THEN 0 ELSE a[2] % 2
MCHash == [p \in Addr \X Addr |-> (Bit(p[1]) + Bit(p[2])) % CacheSize]

(* A method that sends nothing, one that sends to a variable and then to a *)
(* constant, and one that sends to super; this one has the other selector. *)
MCBody ==
  [m \in Method |->
    CASE m = sender -> << [to |-> "variable", class |-> Kernel, sel |-> other],
                          [to |-> "constant", class |-> Kernel, sel |-> KernelSymbol] >>
      [] m = superSender -> << [to |-> "super", class |-> Kernel, sel |-> KernelSymbol] >>
      [] OTHER -> << >>]

MCSelectorOf == [m \in Method |-> IF m = superSender THEN other ELSE KernelSymbol]

=============================================================================
