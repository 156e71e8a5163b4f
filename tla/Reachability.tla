---------------------------- MODULE Reachability ----------------------------
(***************************************************************************)
(* The part of a directed graph that can be reached from a set of sources. *)
(* The collectors compute it with a recursive walk (Scavenger.c) or with   *)
(* an explicit queue (GarbageCollector.c); both visit exactly the least    *)
(* set that holds the sources and is closed under the successor function,  *)
(* and that is how it is defined here, without recursion, so that the same *)
(* definition can be evaluated by TLC and reasoned about by TLAPS.         *)
(***************************************************************************)

(* S holds every successor of its members. *)
ClosedUnder(S, succ) == \A x \in S : succ[x] \subseteq S

(* The sets of nodes that hold the sources and are closed. *)
ClosedSets(Node, src, succ) ==
  { S \in { src \union T : T \in SUBSET (Node \ src) } : ClosedUnder(S, succ) }

(* The nodes reached from src: the intersection of all the closed sets. *)
Reach(Node, src, succ) ==
  LET closed == ClosedSets(Node, src, succ)
  IN  { n \in Node : \A S \in closed : n \in S }

=============================================================================
