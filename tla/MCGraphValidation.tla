------------------------- MODULE MCGraphValidation -------------------------
(***************************************************************************)
(* GraphValidation from every graph of three nodes with at most two edges  *)
(* out of each: cycles, self-loops and parallel edges included.            *)
(***************************************************************************)
EXTENDS GraphValidation

CONSTANTS n1, n2, n3

UpToTwoChildren ==
  [Node -> {<<>>} \cup {<<a>> : a \in Node}
             \cup {<<a, b>> : a \in Node, b \in Node}]
=============================================================================
