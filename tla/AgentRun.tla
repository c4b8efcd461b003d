------------------------------ MODULE AgentRun ------------------------------
(***************************************************************************)
(* A run of an agent: PlatformRunService validates the worker's snapshot,  *)
(* resolves the node and builds its agent; the model of an agent asks for  *)
(* calls, and NodeRuntimeBuilder builds and runs the agent of a child node *)
(* for each call of one.  Other requests of the worker may replace the     *)
(* snapshot whenever the run waits for a model.                            *)
(*                                                                         *)
(* The calls that one answer of a model asks for run concurrently.  Calls  *)
(* of tools, MCP servers and skills start no agent and are left out: they  *)
(* only use up the limit on calls, and the model may ask for fewer.        *)
(***************************************************************************)
EXTENDS GraphTheory, Integers, Sequences, FiniteSets

CONSTANTS
  Node,         \* node ids
  Snapshots,    \* what the cache may publish: [nodes, edges]
  CallLimit,    \* tool_call_limit of each node's agent
  MaxDepth      \* PLATFORM_MAX_GRAPH_DEPTH

ASSUME SnapshotsAssumption ==
  \A g \in Snapshots :
    /\ g.nodes \subseteq Node
    /\ g.edges \subseteq g.nodes \X g.nodes
ASSUME LimitsAssumption ==
  CallLimit \in [Node -> Nat] /\ MaxDepth \in Nat

VARIABLES
  snapshot,     \* the worker's published snapshot
  run,          \* the state of the run, or how the last one ended
  agents,       \* the agents that run, by the path of calls that leads to each
  replaced      \* history: the snapshot was replaced since the run began

vars == <<snapshot, run, agents, replaced>>

Outcomes == {"answered", "failed", "refused", "not_found"}
Pending == {"asked", "running"}
CallStates == Pending \cup {"content", "missing", "too_deep", "cycle"}

Children(n) == {m \in Node : <<n, m>> \in snapshot.edges}

(* The agent built for node n: `path' holds the nodes of its callers.  Its *)
(* tools, one per child, are those of the snapshot it is built from.       *)
Agent(n, depth, path) ==
  [node |-> n, depth |-> depth, path |-> path,
   children |-> Children(n), calls |-> <<>>]

Root == <<>>

(* The agent that call k of agent i runs.                                  *)
Callee(i, k) == Append(i, k)

(* Mutants of the next two definitions.                                    *)
NextPathForgotten(i) == agents[i].path
NextDepthKept(i) == agents[i].depth

NextPath(i) == agents[i].path \cup {agents[i].node}
NextDepth(i) == agents[i].depth + 1
TooDeep(depth) == depth > MaxDepth

Init ==
  /\ snapshot \in Snapshots
  /\ run = "none"
  /\ agents = <<>>
  /\ replaced = FALSE

-----------------------------------------------------------------------------
(* The request.  With a loaded cache nothing suspends between validation   *)
(* and the end of the build.  What validate_existing_graph finds is        *)
(* Acyclic, by the theorem OutcomeIsCorrect of GraphValidationProofs.      *)

Idle == run # "running"

ValidationSkipped == TRUE    \* mutant

Validated == Acyclic(Node, snapshot.edges)

Start(n) ==
  /\ Idle /\ Validated
  /\ n \in snapshot.nodes
  /\ run' = "running"
  /\ agents' = [i \in {Root} |-> Agent(n, 0, {})]
  /\ replaced' = FALSE
  /\ UNCHANGED snapshot

Refuse ==
  /\ Idle /\ ~Validated
  /\ run' = "refused"
  /\ UNCHANGED <<snapshot, agents, replaced>>

NotFound(n) ==
  /\ Idle /\ Validated
  /\ n \notin snapshot.nodes
  /\ run' = "not_found"
  /\ UNCHANGED <<snapshot, agents, replaced>>

-----------------------------------------------------------------------------
(* The agents.                                                             *)

WaitsForTheAskedOnly(i) ==    \* mutant
  \E k \in DOMAIN agents[i].calls : agents[i].calls[k].state = "asked"

Waits(i) ==
  \E k \in DOMAIN agents[i].calls : agents[i].calls[k].state \in Pending

NewCalls(targets) ==
  [k \in DOMAIN targets |-> [target |-> targets[k], state |-> "asked"]]

Asks(agent, targets) == [agent EXCEPT !.calls = @ \o NewCalls(targets)]

(* An answer of the model asks for calls of children, as far as the limit  *)
(* goes; the same child may be asked for several times.                    *)
Turn(i, targets) ==
  /\ ~Waits(i)
  /\ Len(agents[i].calls) + Len(targets) <= CallLimit[agents[i].node]
  /\ agents' = [agents EXCEPT ![i] = Asks(@, targets)]
  /\ UNCHANGED <<snapshot, run, replaced>>

Asked(i, k) ==
  k \in DOMAIN agents[i].calls /\ agents[i].calls[k].state = "asked"

Target(i, k) == agents[i].calls[k].target

(* The entrypoint raises: the model gets the error as the call's result.   *)
Raise(i, k, error) ==
  /\ agents' = [agents EXCEPT ![i].calls[k].state = error]
  /\ UNCHANGED <<snapshot, run, replaced>>

ChildMissingUnnoticed(i, k) == FALSE    \* mutant: the call gets no result

(* The child is looked up again, in the snapshot of now.                   *)
ChildMissing(i, k) ==
  /\ Asked(i, k)
  /\ Target(i, k) \notin snapshot.nodes
  /\ Raise(i, k, "missing")

ChildTooDeep(i, k) ==
  /\ Asked(i, k)
  /\ Target(i, k) \in snapshot.nodes
  /\ TooDeep(NextDepth(i))
  /\ Raise(i, k, "too_deep")

ChildOnPath(i, k) ==
  /\ Asked(i, k)
  /\ Target(i, k) \in snapshot.nodes
  /\ ~TooDeep(NextDepth(i))
  /\ Target(i, k) \in NextPath(i)
  /\ Raise(i, k, "cycle")

ChildBuilt(i, k) ==
  /\ Asked(i, k)
  /\ Target(i, k) \in snapshot.nodes
  /\ ~TooDeep(NextDepth(i))
  /\ Target(i, k) \notin NextPath(i)
  /\ agents' =
       [j \in DOMAIN agents \cup {Callee(i, k)} |->
          IF j = Callee(i, k)
          THEN Agent(Target(i, k), NextDepth(i), NextPath(i))
          ELSE IF j = i
          THEN [agents[i] EXCEPT !.calls[k].state = "running"]
          ELSE agents[j]]
  /\ UNCHANGED <<snapshot, run, replaced>>

(* The agent of call k of agent i ends, with an answer or with an error of *)
(* its own: its content is the result of the call in either case.          *)
ChildEnds(i, k) ==
  /\ Callee(i, k) \in DOMAIN agents
  /\ ~Waits(Callee(i, k))
  /\ agents' =
       [j \in DOMAIN agents \ {Callee(i, k)} |->
          IF j = i
          THEN [agents[i] EXCEPT !.calls[k].state = "content"]
          ELSE agents[j]]
  /\ UNCHANGED <<snapshot, run, replaced>>

(* Only the status of the entry agent decides about the run.               *)
RunEnds(outcome) ==
  /\ Root \in DOMAIN agents
  /\ ~Waits(Root)
  /\ run' = outcome
  /\ agents' = <<>>
  /\ UNCHANGED <<snapshot, replaced>>

-----------------------------------------------------------------------------
(* refresh() on behalf of another request.                                 *)
Publish(g) ==
  /\ snapshot' = g
  /\ replaced' = (replaced \/ g # snapshot)
  /\ UNCHANGED <<run, agents>>

Request == Refuse \/ \E n \in Node : Start(n) \/ NotFound(n)

(* Answers to model i may ask for.                                         *)
Answers(i) ==
  UNION {[1..m -> agents[i].children] : m \in 1..CallLimit[agents[i].node]}

Call(i, k) ==
  \/ ChildMissing(i, k)
  \/ ChildTooDeep(i, k)
  \/ ChildOnPath(i, k)
  \/ ChildBuilt(i, k)
  \/ ChildEnds(i, k)

Proceed ==
  \/ \E i \in DOMAIN agents :
       \/ \E targets \in Answers(i) : Turn(i, targets)
       \/ \E k \in DOMAIN agents[i].calls : Call(i, k)
  \/ \E outcome \in {"answered", "failed"} : RunEnds(outcome)

Next == Request \/ Proceed \/ \E g \in Snapshots : Publish(g)

Spec == Init /\ [][Next]_vars

(* Model providers answer or time out, and the event loop resumes the run. *)
FairSpec == Spec /\ WF_vars(Proceed)

-----------------------------------------------------------------------------
(* Types, and: the depth of an agent and its calls stay within the limits. *)
AgentRecords ==
  [node : Node, depth : 0..MaxDepth, path : SUBSET Node,
   children : SUBSET Node, calls : Seq([target : Node, state : CallStates])]

TypeOK ==
  /\ snapshot \in Snapshots
  /\ run \in Outcomes \cup {"none", "running"}
  /\ replaced \in BOOLEAN
  /\ \A i \in DOMAIN agents :
       /\ i \in Seq(Nat)
       /\ agents[i] \in AgentRecords
       /\ Len(agents[i].calls) <= CallLimit[agents[i].node]

(* The calls on whose behalf agent i runs.                                 *)
Callers(i) == {SubSeq(i, 1, n) : n \in 0..(Len(i) - 1)}

(* No agent outlives its caller: every agent but the first runs for a call *)
(* that waits for it, and every call that waits has its agent.             *)
Awaited ==
  /\ run = "running" <=> Root \in DOMAIN agents
  /\ \A i \in DOMAIN agents \ {Root} :
       \E j \in DOMAIN agents : \E k \in DOMAIN agents[j].calls :
         i = Callee(j, k) /\ agents[j].calls[k].state = "running"
  /\ \A i \in DOMAIN agents : \A k \in DOMAIN agents[i].calls :
       agents[i].calls[k].state = "running" => Callee(i, k) \in DOMAIN agents

(* A node's agent is never run, however indirectly, by an agent of the     *)
(* same node, whatever graphs are published while they run.                *)
NoReentry ==
  \A i \in DOMAIN agents : \A j \in Callers(i) :
    j \in DOMAIN agents /\ agents[j].node # agents[i].node

(* The limit on depth, counted call by call, is a limit on the number of   *)
(* different nodes that wait for each other: never more than MaxDepth wait *)
(* for an agent, and a call is refused for it only if so many do.          *)
CutAtLimit(i) ==
  \A k \in DOMAIN agents[i].calls :
    agents[i].calls[k].state = "too_deep" => Cardinality(agents[i].path) = MaxDepth

DepthIsPath ==
  \A i \in DOMAIN agents :
    /\ agents[i].depth = Len(i)
    /\ agents[i].path = {agents[j].node : j \in Callers(i)}
    /\ Cardinality(agents[i].path) = agents[i].depth
    /\ Cardinality(agents[i].path) <= MaxDepth
    /\ CutAtLimit(i)

(* The validation at the start is enough as long as the snapshot stays: a  *)
(* call is refused for a cycle or for a missing child only if the snapshot *)
(* was replaced during the run.                                            *)
RefusedMeansReplaced ==
  \A i \in DOMAIN agents : \A k \in DOMAIN agents[i].calls :
    agents[i].calls[k].state \in {"missing", "cycle"} => replaced

(* Every run ends, even if other requests publish for ever, cyclic graphs  *)
(* included.                                                               *)
EveryRunEnds == run = "running" ~> run # "running"
=============================================================================
