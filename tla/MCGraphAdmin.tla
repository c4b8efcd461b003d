---------------------------- MODULE MCGraphAdmin ----------------------------
(***************************************************************************)
(* Instances of GraphAdmin.  Every node is there at the start for the runs *)
(* about edges and renames; one node, and a second to be created, for the  *)
(* runs about creation and about what is attached to a node.               *)
(***************************************************************************)
EXTENDS GraphAdmin, TLC

CONSTANTS w1, n1, n2, n3, s1, s2, s3

OneWorker == [t \in Task |-> w1]

FirstSlug == [n \in NodeId |-> CASE n = n1 -> s1 [] n = n2 -> s2 [] n = n3 -> s3]
OneSlug   == [FirstSlug EXCEPT ![n2] = NoSlug]

HandlerSymmetry == Permutations(Task)
=============================================================================
