--------------------------- MODULE GraphSnapshot ---------------------------
(***************************************************************************)
(* The part of a published snapshot that both searches of                  *)
(* GraphValidationService read: the sorted children of every node.         *)
(***************************************************************************)
EXTENDS GraphTheory, Integers, Sequences

CONSTANTS
  Node,         \* node ids, nodes_by_id
  Graphs        \* snapshots to start from

ASSUME GraphsAssumption == Graphs \subseteq [Node -> Seq(Node)]

(* edges_by_parent_id as a relation, for the children of every node.       *)
EdgesOf(children) ==
  UNION {{<<n, children[n][i]>> : i \in DOMAIN children[n]} : n \in Node}
=============================================================================
