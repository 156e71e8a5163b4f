----------------------------- MODULE MutatorHeap -----------------------------
(***************************************************************************)
(* What the memory manager promises the running Smalltalk program: a heap  *)
(* that holds exactly the objects the program can reach, in which an       *)
(* object keeps its identity and its fields until the program stores into  *)
(* it.  No collection, no moving and no address reuse is visible.          *)
(* ObjectHeap implements this specification.                               *)
(***************************************************************************)
EXTENDS Reachability

CONSTANTS
  Obj,         (* object identities                                        *)
  Field,       (* fields of an object, its class pointer included          *)
  ClassField,  (* the class pointer                                        *)
  Root,        (* variables of the running program: stack slots, handles   *)
  Kernel,      (* a class of the kernel, always named by a global handle   *)
  Nil

VARIABLES
  root,   (* value of each program variable                                *)
  graph   (* the reachable objects and their fields                        *)

vars == <<root, graph>>

(* The fields of the objects reached from the program variables when the   *)
(* variables hold rt and the objects' fields are fl.                       *)
Trim(rt, fl) ==
  LET succ == [o \in DOMAIN fl |-> { fl[o][f] : f \in Field } \ {Nil}]
      src  == ({ rt[r] : r \in Root } \union {Kernel}) \ {Nil}
  IN  [o \in Reach(DOMAIN fl, src, succ) |-> fl[o]]

(* What the program can name in one step, and what it can read in graph g. *)
Visible   == { root[r] : r \in Root } \union {Kernel, Nil}
Fields(g) ==
  UNION { { g[o][f] : f \in Field } : o \in { root[r] : r \in Root } \intersect DOMAIN g }

Init ==
  /\ root  = [r \in Root |-> Nil]
  /\ graph = [o \in {Kernel} |-> [f \in Field |-> IF f = ClassField THEN Kernel ELSE Nil]]

(* Variable r alone changes.                                               *)
Assigns(r) == root' = [root EXCEPT ![r] = root'[r]]

(* The actions.  g is the graph before the step and h the one after it.    *)

(* Assign a variable, from another one or from a field.                    *)
SetRoot(r, g, h) ==
  /\ Assigns(r)
  /\ root'[r] \in Visible \union Fields(g)
  /\ h = Trim(root', g)

(* Store in field f of the object named by variable s.                     *)
Store(s, f, g, h) ==
  /\ UNCHANGED root
  /\ root[s] \in DOMAIN g
  /\ h[root[s]][f] \in Visible
  /\ h = Trim(root, [g EXCEPT ![root[s]][f] = h[root[s]][f]])

(* Copy the object named by s, its class included, over the one named t.   *)
CopyOver(t, s, g, h) ==
  /\ UNCHANGED root
  /\ {root[t], root[s]} \subseteq DOMAIN g /\ root[t] # root[s]
  /\ h = Trim(root, [g EXCEPT ![root[t]] = g[root[s]]])

(* Create an instance of class c whose other fields hold v.                *)
New(r, g, h) ==
  /\ Assigns(r)
  /\ root'[r] \in Obj \ DOMAIN g
  /\ \E c \in Visible \ {Nil}, v \in Visible :
       h = Trim(root', [x \in DOMAIN g \union {root'[r]} |->
                         IF x = root'[r]
                         THEN [f \in Field |-> IF f = ClassField THEN c ELSE v]
                         ELSE g[x]])

Next ==
  \E g \in {graph}, h \in {graph'} :
    \/ \E r \in Root : SetRoot(r, g, h) \/ New(r, g, h)
    \/ \E s \in Root, f \in Field \ {ClassField} : Store(s, f, g, h)
    \/ \E t, s \in Root : CopyOver(t, s, g, h)

Spec == Init /\ [][Next]_vars

=============================================================================
