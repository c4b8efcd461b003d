---------------------------- MODULE CycleSearch ----------------------------
(***************************************************************************)
(* GraphValidationService.validate_no_cycle_from: before an edge           *)
(* parent -> child is created, an iterative depth-first search from child  *)
(* looks for parent.  The code is synchronous: it runs on one published    *)
(* snapshot of the graph, which does not change under it.                  *)
(***************************************************************************)
EXTENDS GraphSnapshot

VARIABLES
  children,     \* edges_by_parent_id
  parent, child,
  stack,
  visited,
  node,         \* the node whose children are being pushed, node_id
  next,         \* and the position among them
  verdict       \* "searching", "accepted", or how the edge is rejected

graph == <<children, parent, child>>
vars  == <<graph, stack, visited, node, next, verdict>>

Verdicts == {"searching", "accepted", "self_reference", "cycle"}

TypeOK ==
  /\ children \in [Node -> Seq(Node)]
  /\ parent \in Node /\ child \in Node
  /\ stack \in Seq(Node)
  /\ visited \subseteq Node
  /\ node \in Node /\ next \in Nat \ {0}
  /\ verdict \in Verdicts

Init ==
  /\ children \in Graphs
  /\ parent \in Node /\ child \in Node
  /\ stack = <<child>>
  /\ visited = {}
  /\ node = child /\ next = Len(children[child]) + 1
  /\ verdict = IF parent = child THEN "self_reference" ELSE "searching"

(* The inner loop is over: every child of node has been looked at.         *)
Expanded == next > Len(children[node])

Top == stack[Len(stack)]

Popping == verdict = "searching" /\ Expanded /\ stack # <<>>

Pop == stack' = SubSeq(stack, 1, Len(stack) - 1)

(* Mutant: looks at the top of the stack without popping it.               *)
PopVisitedPeek ==
  /\ Popping
  /\ Top \in visited
  /\ UNCHANGED vars

PopVisited ==
  /\ Popping
  /\ Top \in visited
  /\ Pop
  /\ UNCHANGED <<graph, visited, node, next, verdict>>

PopParent ==
  /\ Popping
  /\ Top \notin visited /\ Top = parent
  /\ Pop
  /\ visited' = visited \cup {Top}
  /\ verdict' = "cycle"
  /\ UNCHANGED <<graph, node, next>>

(* Mutant: the children are counted from zero.                             *)
PopNewZero ==
  /\ Popping
  /\ Top \notin visited /\ Top # parent
  /\ Pop
  /\ visited' = visited \cup {Top}
  /\ node' = Top /\ next' = 0
  /\ UNCHANGED <<graph, verdict>>

PopNew ==
  /\ Popping
  /\ Top \notin visited /\ Top # parent
  /\ Pop
  /\ visited' = visited \cup {Top}
  /\ node' = Top /\ next' = 1
  /\ UNCHANGED <<graph, verdict>>

(* Mutant: the loop over the children stops after the first one pushed.    *)
PushChildOnly ==
  /\ verdict = "searching" /\ ~Expanded
  /\ children[node][next] \notin visited
  /\ stack' = Append(stack, children[node][next])
  /\ next' = Len(children[node]) + 1
  /\ UNCHANGED <<graph, visited, node, verdict>>

PushChild ==
  /\ verdict = "searching" /\ ~Expanded
  /\ children[node][next] \notin visited
  /\ stack' = Append(stack, children[node][next])
  /\ next' = next + 1
  /\ UNCHANGED <<graph, visited, node, verdict>>

SkipChild ==
  /\ verdict = "searching" /\ ~Expanded
  /\ children[node][next] \in visited
  /\ next' = next + 1
  /\ UNCHANGED <<graph, stack, visited, node, verdict>>

Accept ==
  /\ verdict = "searching" /\ Expanded /\ stack = <<>>
  /\ verdict' = "accepted"
  /\ UNCHANGED <<graph, stack, visited, node, next>>

Next == PopVisited \/ PopParent \/ PopNew \/ PushChild \/ SkipChild \/ Accept

(* A synchronous loop runs until it returns or raises.                     *)
Spec == Init /\ [][Next]_vars /\ WF_vars(Next)

-----------------------------------------------------------------------------
Edges == EdgesOf(children)

WithEdge == Edges \cup {<<parent, child>>}

(* An edge is rejected exactly if it would be on a cycle, whether or not   *)
(* there are cycles elsewhere ("Reject self-loops and any edge whose       *)
(* addition would close a cycle"); so what is accepted leaves an acyclic   *)
(* graph acyclic.                                                          *)
VerdictCorrect ==
  /\ verdict = "accepted" =>
       /\ ~Reaches(Node, Edges, child, parent)
       /\ Acyclic(Node, Edges) => Acyclic(Node, WithEdge)
  /\ verdict \in {"self_reference", "cycle"} =>
       /\ Reaches(Node, Edges, child, parent)
       /\ ~Acyclic(Node, WithEdge)

-----------------------------------------------------------------------------
(* The inductive invariant.  Every node seen is a descendant of child, and *)
(* the children of a visited node are seen, but for those still to push.   *)
Seen == visited \cup {stack[i] : i \in DOMAIN stack}

SeenInv ==
  /\ \A n \in Seen : Reaches(Node, Edges, child, n)
  /\ verdict = "self_reference" => parent = child
  /\ verdict = "cycle" => parent \in visited
  /\ verdict \in {"searching", "accepted"} =>
       /\ child \in Seen /\ parent \notin visited /\ parent # child
       /\ node \in visited \/ Expanded
       /\ \A n \in visited : \A i \in DOMAIN children[n] :
            n # node \/ i < next => children[n][i] \in Seen
  /\ verdict = "accepted" => stack = <<>> /\ Expanded

IInv == TypeOK /\ SeenInv
=============================================================================
