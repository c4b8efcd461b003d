-------------------------- MODULE GraphValidation --------------------------
(***************************************************************************)
(* The two searches of GraphValidationService as the platform uses them:   *)
(* validate_no_cycle_from looks at the snapshot before an edge is created; *)
(* if it accepts the edge, the edge is inserted and a new snapshot         *)
(* published; and the next run of an agent has validate_existing_graph     *)
(* look at that snapshot.                                                  *)
(***************************************************************************)
EXTENDS CycleSearch, GraphColoring

VARIABLE phase  \* "edge": before the INSERT; "run": after the publish

ValidationInit ==
  /\ Init
  /\ ColoringInit
  /\ served = children
  /\ phase = "edge"

Search == phase = "edge" /\ Next /\ UNCHANGED <<coloringVars, phase>>

(* The edge takes the place among its siblings that its order gives it.    *)
Insert ==
  /\ phase = "edge" /\ verdict = "accepted"
  /\ \E i \in 0..Len(children[parent]) :
       served' = [children EXCEPT ![parent] =
                    SubSeq(@, 1, i) \o <<child>> \o SubSeq(@, i + 1, Len(@))]
  /\ phase' = "run"
  /\ UNCHANGED <<vars, starts, color, path, outcome>>

Validate == phase = "run" /\ ColoringNext /\ UNCHANGED <<vars, phase>>

ValidationNext == Search \/ Insert \/ Validate

ValidationSpec ==
  /\ ValidationInit
  /\ [][ValidationNext]_<<vars, coloringVars, phase>>
  /\ WF_<<vars, coloringVars, phase>>(ValidationNext)

-----------------------------------------------------------------------------
(* What one search lets pass the other does not complain about: as long as *)
(* edges are checked one by one, no run is ever refused for a cycle.       *)
RunsStayPossible == Acyclic(Node, Edges) => outcome # "cycle"

(* Both searches end on every graph, cyclic or not, and with parallel      *)
(* edges, although nodes can be pushed many times.                         *)
SearchesEnd ==
  /\ <>(verdict # "searching")
  /\ (phase = "run") ~> (outcome # "searching")

(* The inductive invariants of both, as the proofs use them.               *)
ValidationInv == SeenInv /\ ColoringIInv
=============================================================================
