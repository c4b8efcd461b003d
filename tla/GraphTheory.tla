---------------------------- MODULE GraphTheory ----------------------------
(***************************************************************************)
(* Directed graphs as relations: V is the set of nodes, E a set of pairs   *)
(* <<parent, child>>.  Reachability is stated with closed sets and         *)
(* acyclicity with sinks, so that neither needs paths or recursion.        *)
(***************************************************************************)

Closed(E, R) == \A e \in E : e[1] \in R => e[2] \in R

(* b is a descendant of a, or a itself.                                    *)
Reaches(V, E, a, b) == \A R \in SUBSET V : a \in R /\ Closed(E, R) => b \in R

(* In every non-empty set of nodes, some node has no edge into the set.    *)
Acyclic(V, E) ==
  \A S \in SUBSET V : S # {} => \E n \in S : \A m \in S : <<n, m>> \notin E
=============================================================================
