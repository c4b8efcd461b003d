--------------------------- MODULE GraphColoring ---------------------------
(***************************************************************************)
(* GraphValidationService.validate_existing_graph: an iterative depth-     *)
(* first search in three colours over every node of the published          *)
(* snapshot, before an agent run.  One action per turn of the two loops.   *)
(***************************************************************************)
EXTENDS GraphSnapshot

VARIABLES
  served,       \* edges_by_parent_id of the snapshot that is validated
  starts,       \* nodes the outer loop has still to come to
  color,
  path,         \* nodes on the current path, each with its iterator's position
  outcome       \* "searching", "acyclic", or "cycle" when it raises

coloringVars == <<served, starts, color, path, outcome>>

Colors == {"white", "gray", "black"}
Frame  == [node : Node, next : Nat \ {0}]

ColoringTypeOK ==
  /\ served \in [Node -> Seq(Node)]
  /\ starts \subseteq Node
  /\ color \in [Node -> Colors]
  /\ path \in Seq(Frame)
  /\ outcome \in {"searching", "acyclic", "cycle"}

ColoringInit ==
  /\ served \in Graphs
  /\ starts = Node
  /\ color = [n \in Node |-> "white"]
  /\ path = <<>>
  /\ outcome = "searching"

TopFrame == path[Len(path)]

(* The child that next(it) yields, if the iterator is not exhausted.       *)
Exhausted == TopFrame.next > Len(served[TopFrame.node])
Child     == served[TopFrame.node][TopFrame.next]

Walking == outcome = "searching" /\ path # <<>>

(* next(it) moves the iterator of the top frame.                           *)
Advance(s) == [s EXCEPT ![Len(s)].next = @ + 1]

(* The outer loop, in any order of the nodes.                              *)
SkipStart(s) ==
  /\ outcome = "searching" /\ path = <<>>
  /\ s \in starts /\ color[s] # "white"
  /\ starts' = starts \ {s}
  /\ UNCHANGED <<served, color, path, outcome>>

StartFrom(s) ==
  /\ outcome = "searching" /\ path = <<>>
  /\ s \in starts /\ color[s] = "white"
  /\ starts' = starts \ {s}
  /\ color' = [color EXCEPT ![s] = "gray"]
  /\ path' = <<[node |-> s, next |-> 1]>>
  /\ UNCHANGED <<served, outcome>>

(* Mutant: an exhausted node keeps its colour.                             *)
BlackenNot ==
  /\ Walking /\ Exhausted
  /\ path' = SubSeq(path, 1, Len(path) - 1)
  /\ UNCHANGED <<served, starts, color, outcome>>

Blacken ==
  /\ Walking /\ Exhausted
  /\ color' = [color EXCEPT ![TopFrame.node] = "black"]
  /\ path' = SubSeq(path, 1, Len(path) - 1)
  /\ UNCHANGED <<served, starts, outcome>>

(* Mutant: a child that has been explored counts as a cycle.               *)
FindCycleBlack ==
  /\ Walking /\ ~Exhausted
  /\ color[Child] # "white"
  /\ outcome' = "cycle"
  /\ UNCHANGED <<served, starts, color, path>>

FindCycle ==
  /\ Walking /\ ~Exhausted
  /\ color[Child] = "gray"
  /\ outcome' = "cycle"
  /\ UNCHANGED <<served, starts, color, path>>

(* Mutant: the iterator is not moved past a black child.                   *)
SkipBlackStay ==
  /\ Walking /\ ~Exhausted
  /\ color[Child] = "black"
  /\ UNCHANGED coloringVars

SkipBlack ==
  /\ Walking /\ ~Exhausted
  /\ color[Child] = "black"
  /\ path' = Advance(path)
  /\ UNCHANGED <<served, starts, color, outcome>>

(* Mutant: a node counts as explored when it is pushed.                    *)
DescendBlack ==
  /\ Walking /\ ~Exhausted
  /\ color[Child] = "white"
  /\ color' = [color EXCEPT ![Child] = "black"]
  /\ path' = Append(Advance(path), [node |-> Child, next |-> 1])
  /\ UNCHANGED <<served, starts, outcome>>

Descend ==
  /\ Walking /\ ~Exhausted
  /\ color[Child] = "white"
  /\ color' = [color EXCEPT ![Child] = "gray"]
  /\ path' = Append(Advance(path), [node |-> Child, next |-> 1])
  /\ UNCHANGED <<served, starts, outcome>>

Finish ==
  /\ outcome = "searching" /\ path = <<>> /\ starts = {}
  /\ outcome' = "acyclic"
  /\ UNCHANGED <<served, starts, color, path>>

ColoringNext ==
  \/ \E s \in Node : SkipStart(s) \/ StartFrom(s)
  \/ Blacken \/ FindCycle \/ SkipBlack \/ Descend \/ Finish

(* A synchronous loop runs until it returns or raises.                     *)
ColoringSpec ==
  /\ ColoringInit /\ [][ColoringNext]_coloringVars
  /\ WF_coloringVars(ColoringNext)

-----------------------------------------------------------------------------
ServedEdges == EdgesOf(served)

(* A run is refused exactly on a snapshot that has a cycle, wherever it    *)
(* lies.                                                                   *)
OutcomeCorrect ==
  /\ outcome = "acyclic" => Acyclic(Node, ServedEdges)
  /\ outcome = "cycle" => ~Acyclic(Node, ServedEdges)

-----------------------------------------------------------------------------
(* The inductive invariant.                                                *)

Black == {n \in Node : color[n] = "black"}

(* The gray nodes are those on the path, each there once, and each        *)
(* reaches those above it.                                                 *)
PathInv ==
  /\ \A n \in Node :
       color[n] = "gray" <=> \E i \in DOMAIN path : path[i].node = n
  /\ \A i \in DOMAIN path, j \in DOMAIN path :
       /\ path[i].node = path[j].node => i = j
       /\ i <= j => Reaches(Node, ServedEdges, path[i].node, path[j].node)

(* The served of a black node are black; so are those that a node on the *)
(* path has passed, except for the one above it.                          *)
BlackInv ==
  /\ \A n \in Black : \A i \in DOMAIN served[n] : served[n][i] \in Black
  /\ \A j \in DOMAIN path : \A i \in DOMAIN served[path[j].node] :
       i < path[j].next =>
         \/ served[path[j].node][i] \in Black
         \/ j < Len(path) /\ path[j + 1].node = served[path[j].node][i]
  /\ Acyclic(Black, ServedEdges)

DoneInv ==
  /\ \A n \in Node \ starts : color[n] # "white"
  /\ outcome = "acyclic" => path = <<>> /\ starts = {}
  /\ outcome = "cycle" => path # <<>> /\ ~Exhausted /\ color[Child] = "gray"

ColoringIInv == ColoringTypeOK /\ PathInv /\ BlackInv /\ DoneInv
=============================================================================
