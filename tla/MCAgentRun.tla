----------------------------- MODULE MCAgentRun -----------------------------
EXTENDS AgentRun

CONSTANTS a, b, c, d

Nodes == {a, b, c, d}

(* A diamond with a tail deeper than MaxDepth; a cycle on top of it; and a *)
(* graph from which a node and its edges are gone.                         *)
Chain == {<<a, b>>, <<a, c>>, <<b, c>>, <<c, d>>}
Graphs ==
  {[nodes |-> Nodes, edges |-> Chain],
   [nodes |-> Nodes, edges |-> Chain \cup {<<c, a>>, <<b, b>>}],
   [nodes |-> {a, b}, edges |-> {<<a, b>>}]}

Limits == [n \in Nodes |-> IF n = a THEN 2 ELSE 1]
=============================================================================
