----------------------------- MODULE GraphAdmin -----------------------------
(***************************************************************************)
(* The admin operations on the agent graph: nodes with slugs, edges from a *)
(* parent agent to a child agent, and what is attached to a node (tool,    *)
(* MCP and skill bindings, channels).  Every statement commits by itself,  *)
(* so an operation is a sequence of reads and writes that operations of    *)
(* other handlers interleave with and that any failure cuts short.  Each   *)
(* operation ends with a rebuild of the worker's graph cache, and the      *)
(* search for cycles before a new edge looks at that cache, not at the     *)
(* database.                                                               *)
(*                                                                         *)
(* The cache is the one of module GraphCache reduced to the two tables     *)
(* that matter here, with their contents.                                  *)
(***************************************************************************)
EXTENDS GraphTheory, Integers, Sequences

CONSTANTS
  Worker, Task, Home, NoTask,   \* as in GraphCache
  NodeId, Slug, NoSlug,         \* NoSlug: the row does not exist yet
  InitSlug,                     \* the slugs of the nodes there at the start
  InitActive,                   \* those of them that are active
  MaxEdges, MaxRows,            \* bounds: edges and attachments ever created
  CanFail                       \* may statements raise and workers restart?

ASSUME HomeAssumption == Home \in [Task -> Worker]
ASSUME NoTaskAssumption == NoTask \notin Task
ASSUME SlugAssumption ==
  /\ NoSlug \notin Slug
  /\ InitSlug \in [NodeId -> Slug \cup {NoSlug}]
  /\ InitActive \subseteq {n \in NodeId : InitSlug[n] # NoSlug}
  /\ \A m, n \in InitActive : InitSlug[m] = InitSlug[n] => m = n
ASSUME BoundAssumption == MaxEdges \in Nat /\ MaxRows \in Nat /\ CanFail \in BOOLEAN

EdgeId == 1..MaxEdges
RowId  == 1..MaxRows
Kind   == {"tool", "mcp", "skill", "channel"}

(* The tables deactivate_node goes through after the edges, in its order.  *)
Cascade == <<"tool", "mcp", "skill", "channel">>

VARIABLES
  slugOf,     \* agent_nodes.slug
  active,     \* agent_nodes.is_active
  edges,      \* active rows of agent_node_edges: <<id, parent, child>>
  nextEdge,   \* the serial of agent_node_edges
  rows,       \* enabled bindings and channels: <<id, kind, node>>
  disabled,   \* disabled channels, which an update can enable again
  nextRow,    \* the serial of both
  loaded,     \* _cache_loaded, per worker
  cNodes,     \* nodes_by_id of the snapshot
  cEdges,     \* edges_by_parent_id of the snapshot, as pairs
  lock,       \* _rebuild_lock
  rawNodes,   \* raw["nodes"] and raw["edges"] of the build that has the lock
  rawEdges,
  pc,
  req,        \* the request a handler serves
  todo,       \* the ids it still has to visit in a loop
  part,       \* the table of Cascade it is at
  patched,    \* history: nodes last made inactive by update_node
  reenabled   \* history: channels enabled while their node was inactive

nodeVars  == <<slugOf, active, patched>>
edgeVars  == <<edges, nextEdge>>
rowVars   == <<rows, disabled, reenabled, nextRow>>
dbVars    == <<nodeVars, edgeVars, rowVars>>
cacheVars == <<loaded, cNodes, cEdges, lock, rawNodes, rawEdges>>
loopVars  == <<todo, part>>
vars == <<dbVars, cacheVars, pc, req, loopVars>>

NoRequest == [op |-> "none"]

Request ==
  {NoRequest}
    \cup [op : {"createEdge"}, parent : NodeId, child : NodeId]
    \cup [op : {"deactivateEdge"}, id : EdgeId]
    \cup [op : {"createNode"}, slug : Slug]
    \cup [op : {"updateNode"}, node : NodeId, slug : Slug \cup {NoSlug},
          flag : {"on", "off", "keep"}]
    \cup [op : {"deactivateNode"}, node : NodeId]
    \cup [op : {"bind"}, kind : Kind \ {"channel"}, node : NodeId]
    \cup [op : {"unbind"}, id : RowId]
    \cup [op : {"createChannel"}, node : NodeId, on : BOOLEAN]
    \cup [op : {"updateChannel"}, id : RowId, on : BOOLEAN]

Pcs == {"idle",
        "child", "check", "load", "loadEdges", "loadPublish", "insertEdge",
        "dropEdge", "insertNode", "slug", "writeNode",
        "parents", "children", "edges", "list", "rows", "node",
        "insertRow", "dropRow", "insertChannel", "writeChannel",
        "refresh", "readEdges", "publish"}

TypeOK ==
  /\ slugOf \in [NodeId -> Slug \cup {NoSlug}]
  /\ active \subseteq NodeId
  /\ edges \subseteq EdgeId \X NodeId \X NodeId
  /\ nextEdge \in 1..(MaxEdges + 1)
  /\ rows \subseteq RowId \X Kind \X NodeId
  /\ disabled \subseteq RowId \X Kind \X NodeId
  /\ nextRow \in 1..(MaxRows + 1)
  /\ loaded \in [Worker -> BOOLEAN]
  /\ cNodes \in [Worker -> SUBSET NodeId]
  /\ cEdges \in [Worker -> SUBSET (NodeId \X NodeId)]
  /\ lock \in [Worker -> Task \cup {NoTask}]
  /\ rawNodes \in [Worker -> SUBSET NodeId]
  /\ rawEdges \in [Worker -> SUBSET (NodeId \X NodeId)]
  /\ pc \in [Task -> Pcs]
  /\ req \in [Task -> Request]
  /\ todo \in [Task -> SUBSET (EdgeId \cup RowId)]
  /\ part \in [Task -> 1..5]
  /\ patched \subseteq NodeId
  /\ reenabled \subseteq RowId

Init ==
  /\ slugOf = InitSlug
  /\ active = InitActive
  /\ edges = {} /\ nextEdge = 1
  /\ rows = {} /\ disabled = {} /\ nextRow = 1
  /\ loaded = [w \in Worker |-> FALSE]
  /\ cNodes = [w \in Worker |-> {}]
  /\ cEdges = [w \in Worker |-> {}]
  /\ lock = [w \in Worker |-> NoTask]
  /\ rawNodes = [w \in Worker |-> {}]
  /\ rawEdges = [w \in Worker |-> {}]
  /\ pc = [t \in Task |-> "idle"]
  /\ req = [t \in Task |-> NoRequest]
  /\ todo = [t \in Task |-> {}]
  /\ part = [t \in Task |-> 1]
  /\ patched = {} /\ reenabled = {}

Step(t, from, to) == pc[t] = from /\ pc' = [pc EXCEPT ![t] = to]

Begin(t, r, to) ==
  /\ Step(t, "idle", to)
  /\ req' = [req EXCEPT ![t] = r]
  /\ UNCHANGED <<dbVars, cacheVars, loopVars>>

(* The handler answers, with the result or with an error.                  *)
Return(t, from) ==
  /\ Step(t, from, "idle")
  /\ req' = [req EXCEPT ![t] = NoRequest]

Pairs(E) == {<<e[2], e[3]>> : e \in E}

(* The edges a rebuild keeps (_filter_edges): both ends are active.        *)
Filtered(N, E) == {e \in E : e[1] \in N /\ e[2] \in N}

-----------------------------------------------------------------------------
(* PlatformCacheManager, on two of its tables.                             *)

BuildNodes(t, from, to) ==
  LET w == Home[t] IN
  /\ Step(t, from, to)
  /\ lock[w] = NoTask
  /\ lock' = [lock EXCEPT ![w] = t]
  /\ rawNodes' = [rawNodes EXCEPT ![w] = active]
  /\ UNCHANGED <<dbVars, loaded, cNodes, cEdges, rawEdges, req, loopVars>>

BuildEdges(t, from, to) ==
  LET w == Home[t] IN
  /\ Step(t, from, to)
  /\ rawEdges' = [rawEdges EXCEPT ![w] = Pairs(edges)]
  /\ UNCHANGED <<dbVars, loaded, cNodes, cEdges, lock, rawNodes, req, loopVars>>

(* Mutant: dangling edges are published.                                   *)
PublishUnfiltered(w) ==
  /\ cNodes' = [cNodes EXCEPT ![w] = rawNodes[w]]
  /\ cEdges' = [cEdges EXCEPT ![w] = rawEdges[w]]
  /\ loaded' = [loaded EXCEPT ![w] = TRUE]
  /\ lock' = [lock EXCEPT ![w] = NoTask]
  /\ UNCHANGED <<rawNodes, rawEdges>>

(* Mutant: the maps of the snapshot before are not emptied first.          *)
PublishMerged(w) ==
  /\ cNodes' = [cNodes EXCEPT ![w] = rawNodes[w]]
  /\ cEdges' = [cEdges EXCEPT ![w] = Filtered(rawNodes[w], @ \cup rawEdges[w])]
  /\ loaded' = [loaded EXCEPT ![w] = TRUE]
  /\ lock' = [lock EXCEPT ![w] = NoTask]
  /\ UNCHANGED <<rawNodes, rawEdges>>

Publish(w) ==
  /\ cNodes' = [cNodes EXCEPT ![w] = rawNodes[w]]
  /\ cEdges' = [cEdges EXCEPT ![w] = Filtered(rawNodes[w], rawEdges[w])]
  /\ loaded' = [loaded EXCEPT ![w] = TRUE]
  /\ lock' = [lock EXCEPT ![w] = NoTask]
  /\ UNCHANGED <<rawNodes, rawEdges>>

RefreshNodes(t) == BuildNodes(t, "refresh", "readEdges")
RefreshEdges(t) == BuildEdges(t, "readEdges", "publish")
RefreshPublish(t) ==
  /\ Return(t, "publish")
  /\ Publish(Home[t])
  /\ UNCHANGED <<dbVars, loopVars>>

LoadSkip(t) ==
  /\ loaded[Home[t]] /\ lock[Home[t]] = NoTask
  /\ Step(t, "load", "check")
  /\ UNCHANGED <<dbVars, cacheVars, req, loopVars>>
LoadNodes(t) == ~loaded[Home[t]] /\ BuildNodes(t, "load", "loadEdges")
LoadEdges(t) == BuildEdges(t, "loadEdges", "loadPublish")
LoadPublish(t) ==
  /\ Step(t, "loadPublish", "check")
  /\ Publish(Home[t])
  /\ UNCHANGED <<dbVars, req, loopVars>>

-----------------------------------------------------------------------------
(* EdgeAdminService                                                        *)

(* Mutant: the parent need not be active.                                  *)
FindParentAny(t, p, c) ==
  /\ slugOf[p] # NoSlug
  /\ Begin(t, [op |-> "createEdge", parent |-> p, child |-> c], "child")

FindParent(t, p, c) ==
  /\ p \in active
  /\ Begin(t, [op |-> "createEdge", parent |-> p, child |-> c], "child")

FindChild(t) ==
  /\ Step(t, "child", "check")
  /\ req[t].child \in active
  /\ UNCHANGED <<dbVars, cacheVars, req, loopVars>>

NoChild(t) ==
  /\ pc[t] = "child" /\ req[t].child \notin active
  /\ Return(t, "child")
  /\ UNCHANGED <<dbVars, cacheVars, loopVars>>

(* load() returns at once when the worker has a snapshot.                  *)
LoadCall(t) ==
  /\ ~loaded[Home[t]]
  /\ Step(t, "check", "load")
  /\ UNCHANGED <<dbVars, cacheVars, req, loopVars>>

(* Mutant: the search goes from the parent to the child.                   *)
ClosesCycleSwapped(w, p, c) == p = c \/ Reaches(NodeId, cEdges[w], p, c)

(* The verdict of validate_no_cycle_from, as GraphValidationProofs has it: *)
(* the parent is the child or one of its descendants in the snapshot.      *)
ClosesCycle(w, p, c) == p = c \/ Reaches(NodeId, cEdges[w], c, p)

ValidateEdge(t) ==
  /\ pc[t] = "check" /\ loaded[Home[t]]
  /\ ~ClosesCycle(Home[t], req[t].parent, req[t].child)
  /\ Step(t, "check", "insertEdge")
  /\ UNCHANGED <<dbVars, cacheVars, req, loopVars>>

RejectEdge(t) ==
  /\ pc[t] = "check" /\ loaded[Home[t]]
  /\ ClosesCycle(Home[t], req[t].parent, req[t].child)
  /\ Return(t, "check")
  /\ UNCHANGED <<dbVars, cacheVars, loopVars>>

InsertEdge(t) ==
  /\ nextEdge \in EdgeId
  /\ Step(t, "insertEdge", "refresh")
  /\ edges' = edges \cup {<<nextEdge, req[t].parent, req[t].child>>}
  /\ nextEdge' = nextEdge + 1
  /\ UNCHANGED <<nodeVars, rowVars, cacheVars, req, loopVars>>

FindEdge(t, id) ==
  /\ \E e \in edges : e[1] = id
  /\ Begin(t, [op |-> "deactivateEdge", id |-> id], "dropEdge")

DropEdge(t) ==
  /\ Step(t, "dropEdge", "refresh")
  /\ edges' = {e \in edges : e[1] # req[t].id}
  /\ UNCHANGED <<nodeVars, nextEdge, rowVars, cacheVars, req, loopVars>>

-----------------------------------------------------------------------------
(* NodeAdminService                                                        *)

HasSlug(s) == {n \in active : slugOf[n] = s}

(* Mutant: a new node may take any slug.                                   *)
CheckSlugNever(t, s) == Begin(t, [op |-> "createNode", slug |-> s], "insertNode")

CheckSlug(t, s) ==
  /\ HasSlug(s) = {}
  /\ Begin(t, [op |-> "createNode", slug |-> s], "insertNode")

InsertNode(t) ==
  /\ Step(t, "insertNode", "refresh")
  /\ \E n \in NodeId :
       /\ slugOf[n] = NoSlug
       /\ slugOf' = [slugOf EXCEPT ![n] = req[t].slug]
       /\ active' = active \cup {n}
  /\ UNCHANGED <<patched, edgeVars, rowVars, cacheVars, req, loopVars>>

(* A PATCH with a new slug, a new is_active flag, both or neither.         *)
FindForUpdate(t, n, s, f) ==
  /\ n \in active
  /\ Begin(t, [op |-> "updateNode", node |-> n, slug |-> s, flag |-> f],
           IF s = NoSlug THEN "writeNode" ELSE "slug")

(* Mutant: a renamed node may take any slug.                               *)
SlugFreeAlways(t) ==
  /\ Step(t, "slug", "writeNode")
  /\ UNCHANGED <<dbVars, cacheVars, req, loopVars>>

(* find_active_by_slug returns one of the nodes that have the slug.        *)
SlugFree(t) ==
  /\ pc[t] = "slug"
  /\ HasSlug(req[t].slug) = {} \/ req[t].node \in HasSlug(req[t].slug)
  /\ Step(t, "slug", "writeNode")
  /\ UNCHANGED <<dbVars, cacheVars, req, loopVars>>

SlugTaken(t) ==
  /\ pc[t] = "slug"
  /\ HasSlug(req[t].slug) \ {req[t].node} # {}
  /\ Return(t, "slug")
  /\ UNCHANGED <<dbVars, cacheVars, loopVars>>

(* The UPDATE goes by id: it also writes to a node that another handler    *)
(* has deactivated since.                                                  *)
WriteNode(t) ==
  LET r == req[t] IN
  /\ Step(t, "writeNode", "refresh")
  /\ slugOf' = [slugOf EXCEPT ![r.node] = IF r.slug = NoSlug THEN @ ELSE r.slug]
  /\ active' = CASE r.flag = "on"   -> active \cup {r.node}
                 [] r.flag = "off"  -> active \ {r.node}
                 [] r.flag = "keep" -> active
  /\ patched' = IF r.flag = "off" THEN patched \cup {r.node}
                ELSE IF r.flag = "on" THEN patched \ {r.node} ELSE patched
  /\ UNCHANGED <<edgeVars, rowVars, cacheVars, req, loopVars>>

FindForDeactivation(t, n) ==
  /\ n \in active
  /\ Begin(t, [op |-> "deactivateNode", node |-> n], "parents")

EdgesAsParent(t) ==
  /\ Step(t, "parents", "children")
  /\ todo' = [todo EXCEPT ![t] = {e[1] : e \in {x \in edges : x[2] = req[t].node}}]
  /\ UNCHANGED <<dbVars, cacheVars, req, part>>

(* Mutant: the edges in which the node is the parent are forgotten.        *)
EdgesAsChildOnly(t) ==
  /\ Step(t, "children", "edges")
  /\ todo' = [todo EXCEPT ![t] = {e[1] : e \in {x \in edges : x[3] = req[t].node}}]
  /\ UNCHANGED <<dbVars, cacheVars, req, part>>

EdgesAsChild(t) ==
  /\ Step(t, "children", "edges")
  /\ todo' = [todo EXCEPT ![t] =
                @ \cup {e[1] : e \in {x \in edges : x[3] = req[t].node}}]
  /\ UNCHANGED <<dbVars, cacheVars, req, part>>

CascadeEdge(t) ==
  /\ Step(t, "edges", "edges")
  /\ \E id \in todo[t] :
       /\ edges' = {e \in edges : e[1] # id}
       /\ todo' = [todo EXCEPT ![t] = @ \ {id}]
  /\ UNCHANGED <<nodeVars, nextEdge, rowVars, cacheVars, req, part>>

EdgesDone(t) ==
  /\ todo[t] = {}
  /\ Step(t, "edges", "list")
  /\ part' = [part EXCEPT ![t] = 1]
  /\ UNCHANGED <<dbVars, cacheVars, req, todo>>

(* find_active_by_node_id of a binding, and list_by_node_id with the test  *)
(* of is_enabled for the channels.                                         *)
ListRows(t) ==
  /\ Step(t, "list", "rows")
  /\ todo' = [todo EXCEPT ![t] =
                {r[1] : r \in {x \in rows : x[2] = Cascade[part[t]]
                                         /\ x[3] = req[t].node}}]
  /\ UNCHANGED <<dbVars, cacheVars, req, part>>

(* A binding gets is_active = FALSE, a column no query filters on: the row *)
(* stays enabled.                                                          *)
CascadeBinding(t) ==
  /\ Step(t, "rows", "rows")
  /\ Cascade[part[t]] # "channel"
  /\ \E id \in todo[t] : todo' = [todo EXCEPT ![t] = @ \ {id}]
  /\ UNCHANGED <<dbVars, cacheVars, req, part>>

(* The UPDATEs of is_enabled of a channel.  Nothing ends the row.          *)
Row(id) == {r \in rows \cup disabled : r[1] = id}

SetEnabled(id) ==
  /\ rows' = rows \cup Row(id)
  /\ disabled' = disabled \ Row(id)
  /\ reenabled' = reenabled \cup {r[1] : r \in {x \in Row(id) : x[3] \notin active}}
  /\ UNCHANGED nextRow

SetDisabled(id) ==
  /\ rows' = rows \ Row(id)
  /\ disabled' = disabled \cup Row(id)
  /\ reenabled' = reenabled \ {id}
  /\ UNCHANGED nextRow

(* A channel gets is_enabled = FALSE.                                      *)
CascadeChannel(t) ==
  /\ Step(t, "rows", "rows")
  /\ Cascade[part[t]] = "channel"
  /\ \E id \in todo[t] :
       /\ SetDisabled(id)
       /\ todo' = [todo EXCEPT ![t] = @ \ {id}]
  /\ UNCHANGED <<nodeVars, edgeVars, cacheVars, req, part>>

RowsDone(t) ==
  /\ todo[t] = {}
  /\ Step(t, "rows", IF part[t] < Len(Cascade) THEN "list" ELSE "node")
  /\ part' = [part EXCEPT ![t] = @ + 1]
  /\ UNCHANGED <<dbVars, cacheVars, req, todo>>

DeactivateNode(t) ==
  /\ Step(t, "node", "refresh")
  /\ active' = active \ {req[t].node}
  /\ patched' = patched \ {req[t].node}
  /\ part' = [part EXCEPT ![t] = 1]
  /\ UNCHANGED <<slugOf, edgeVars, rowVars, cacheVars, req, todo>>

-----------------------------------------------------------------------------
(* bind_tool, bind_mcp, bind_skill; unbind.  A binding that is disabled is *)
(* not enabled again, so its row is left out.                              *)

FindForBind(t, k, n) ==
  /\ n \in active
  /\ Begin(t, [op |-> "bind", kind |-> k, node |-> n], "insertRow")

InsertRow(t) ==
  /\ nextRow \in RowId
  /\ Step(t, "insertRow", "refresh")
  /\ rows' = rows \cup {<<nextRow, req[t].kind, req[t].node>>}
  /\ nextRow' = nextRow + 1
  /\ UNCHANGED <<nodeVars, edgeVars, disabled, reenabled, cacheVars, req, loopVars>>

FindBinding(t, id) ==
  /\ \E r \in rows : r[1] = id /\ r[2] # "channel"
  /\ Begin(t, [op |-> "unbind", id |-> id], "dropRow")

DropRow(t) ==
  /\ Step(t, "dropRow", "refresh")
  /\ rows' = {r \in rows : r[1] # req[t].id}
  /\ UNCHANGED <<nodeVars, edgeVars, disabled, reenabled, nextRow, cacheVars,
                 req, loopVars>>

-----------------------------------------------------------------------------
(* ChannelAdminService, as far as it writes is_enabled; the rest of it is  *)
(* in module ChannelAdmin.  None of its operations rebuilds the cache, and *)
(* only create looks at the node.                                          *)

FindForChannel(t, n, on) ==
  /\ n \in active
  /\ Begin(t, [op |-> "createChannel", node |-> n, on |-> on], "insertChannel")

InsertChannel(t) ==
  LET new == <<nextRow, "channel", req[t].node>> IN
  /\ nextRow \in RowId
  /\ Return(t, "insertChannel")
  /\ \/ req[t].on /\ rows' = rows \cup {new} /\ UNCHANGED disabled
     \/ ~req[t].on /\ disabled' = disabled \cup {new} /\ UNCHANGED rows
  /\ nextRow' = nextRow + 1
  /\ UNCHANGED <<nodeVars, edgeVars, reenabled, cacheVars, loopVars>>

(* update and deactivate find the channel by its id, enabled or not.       *)
FindChannel(t, id, on) ==
  /\ \E r \in Row(id) : r[2] = "channel"
  /\ Begin(t, [op |-> "updateChannel", id |-> id, on |-> on], "writeChannel")

WriteChannel(t) ==
  /\ Return(t, "writeChannel")
  /\ \/ req[t].on /\ SetEnabled(req[t].id)
     \/ ~req[t].on /\ SetDisabled(req[t].id)
  /\ UNCHANGED <<nodeVars, edgeVars, cacheVars, loopVars>>

-----------------------------------------------------------------------------
(* Failures: the statement a handler waits for raises, and nothing catches *)
(* it; or the worker dies and is replaced.                                 *)

Fail(t) ==
  LET w == Home[t] IN
  /\ CanFail
  /\ pc[t] # "idle"
  /\ Return(t, pc[t])
  /\ lock' = [lock EXCEPT ![w] = IF @ = t THEN NoTask ELSE @]
  /\ todo' = [todo EXCEPT ![t] = {}]
  /\ part' = [part EXCEPT ![t] = 1]
  /\ UNCHANGED <<dbVars, loaded, cNodes, cEdges, rawNodes, rawEdges>>

WorkerRestart(w) ==
  LET Here == {t \in Task : Home[t] = w} IN
  /\ CanFail
  /\ loaded' = [loaded EXCEPT ![w] = FALSE]
  /\ cNodes' = [cNodes EXCEPT ![w] = {}]
  /\ cEdges' = [cEdges EXCEPT ![w] = {}]
  /\ lock' = [lock EXCEPT ![w] = NoTask]
  /\ rawNodes' = [rawNodes EXCEPT ![w] = {}]
  /\ rawEdges' = [rawEdges EXCEPT ![w] = {}]
  /\ pc' = [t \in Task |-> IF t \in Here THEN "idle" ELSE pc[t]]
  /\ req' = [t \in Task |-> IF t \in Here THEN NoRequest ELSE req[t]]
  /\ todo' = [t \in Task |-> IF t \in Here THEN {} ELSE todo[t]]
  /\ part' = [t \in Task |-> IF t \in Here THEN 1 ELSE part[t]]
  /\ UNCHANGED dbVars

-----------------------------------------------------------------------------
CreateEdge(t) ==
  \/ \E p, c \in NodeId : FindParent(t, p, c)
  \/ FindChild(t) \/ NoChild(t) \/ LoadCall(t)
  \/ ValidateEdge(t) \/ RejectEdge(t) \/ InsertEdge(t)

DeactivateEdge(t) == (\E id \in EdgeId : FindEdge(t, id)) \/ DropEdge(t)

CreateNode(t) == (\E s \in Slug : CheckSlug(t, s)) \/ InsertNode(t)

UpdateNode(t) ==
  \/ \E n \in NodeId, s \in Slug \cup {NoSlug}, f \in {"on", "off", "keep"} :
       FindForUpdate(t, n, s, f)
  \/ SlugFree(t) \/ SlugTaken(t) \/ WriteNode(t)

Deactivation(t) ==
  \/ \E n \in NodeId : FindForDeactivation(t, n)
  \/ EdgesAsParent(t) \/ EdgesAsChild(t) \/ CascadeEdge(t) \/ EdgesDone(t)
  \/ ListRows(t) \/ CascadeBinding(t) \/ CascadeChannel(t) \/ RowsDone(t)
  \/ DeactivateNode(t)

Bind(t) ==
  \/ \E k \in Kind \ {"channel"}, n \in NodeId : FindForBind(t, k, n)
  \/ \E id \in RowId : FindBinding(t, id)
  \/ InsertRow(t) \/ DropRow(t)

Channels(t) ==
  \/ \E n \in NodeId, on \in BOOLEAN : FindForChannel(t, n, on)
  \/ \E id \in RowId, on \in BOOLEAN : FindChannel(t, id, on)
  \/ InsertChannel(t) \/ WriteChannel(t)

Rebuild(t) ==
  \/ RefreshNodes(t) \/ RefreshEdges(t) \/ RefreshPublish(t)
  \/ LoadSkip(t) \/ LoadNodes(t) \/ LoadEdges(t) \/ LoadPublish(t)

Next ==
  \/ \E t \in Task :
       \/ CreateEdge(t) \/ DeactivateEdge(t)
       \/ CreateNode(t) \/ UpdateNode(t) \/ Deactivation(t)
       \/ Bind(t) \/ Channels(t) \/ Rebuild(t) \/ Fail(t)
  \/ \E w \in Worker : WorkerRestart(w)

Spec == Init /\ [][Next]_vars

-----------------------------------------------------------------------------
(* What the operations keep.  Several of these only hold as long as one    *)
(* handler works at a time (Serial): nothing in the database or the code   *)
(* orders two admin requests.                                              *)

Serial == \A t, u \in Task : t = u

(* The edges an up-to-date snapshot serves.                                *)
VisibleEdges == Filtered(active, Pairs(edges))

(* The active agents and the edges between them never form a cycle, so     *)
(* that an agent cannot delegate to itself through its children.  It needs *)
(* Serial and ~CanFail: the cycle search sees a snapshot, not the database.*)
VisibleAcyclic == Acyclic(NodeId, VisibleEdges)

(* No two active nodes have the same slug (the database has no constraint  *)
(* for it), whatever statements fail.  It needs Serial.                   *)
UniqueSlugs == \A m, n \in active : slugOf[m] = slugOf[n] => m = n

(* A node taken out of service by deactivate_node has no active edge left, *)
(* and no enabled channel but those that a later update of the channel has *)
(* enabled again, even after an attempt that failed half-way and was       *)
(* repeated.  It needs Serial: an edge created meanwhile would stay.       *)
Deactivated == {n \in NodeId : slugOf[n] # NoSlug} \ (active \cup patched)
Detached ==
  \A n \in Deactivated :
    /\ \A e \in edges : n \notin {e[2], e[3]}
    /\ \A r \in rows : r[2] = "channel" /\ r[3] = n => r[1] \in reenabled

(* The same for bindings, as the loops of deactivate_node over them mean:  *)
(* a deactivated node has no active binding.                               *)
BindingsDetached ==
  \A n \in Deactivated : \A r \in rows : r[2] = "channel" \/ r[3] # n

(* Handlers that have not written since they started.                      *)
Clean(t) ==
  pc[t] \in {"idle", "child", "check", "load", "loadEdges", "loadPublish",
            "insertEdge", "dropEdge", "insertNode", "slug", "writeNode",
            "parents", "children", "insertRow", "dropRow",
            "insertChannel", "writeChannel"}

(* When no handler is between a write and the end of its refresh, a loaded *)
(* worker serves exactly the active nodes and the edges between them, in   *)
(* whatever order handlers of the worker wrote and rebuilt.  It needs one  *)
(* worker and ~CanFail.                                                    *)
CacheMatchesDatabase ==
  (\A t \in Task : Clean(t)) =>
     \A w \in Worker :
       loaded[w] => cNodes[w] = active /\ cEdges[w] = VisibleEdges

PublishedAsIs ==
  \A t \in Task : RefreshPublish(t) =>
    /\ cNodes'[Home[t]] = active
    /\ cEdges'[Home[t]] = VisibleEdges

(* A request that wrote and whose refresh failed leaves the snapshot stale *)
(* and nothing tries again.  The next request of the worker that is        *)
(* answered with its result makes up for it: what it publishes is the      *)
(* database as it is, whatever was lost before.  It needs Serial.          *)
PublishesDatabase == [][PublishedAsIs]_vars

-----------------------------------------------------------------------------
(* The inductive invariants behind UniqueSlugs and VisibleAcyclic, for one *)
(* handler at a time.                                                      *)

RowsExist == \A n \in active : slugOf[n] # NoSlug
EndsExist == \A e \in edges : slugOf[e[2]] # NoSlug /\ slugOf[e[3]] # NoSlug

(* Who writes serves a request that has the fields it writes, and who goes *)
(* through the attachments is at one of their tables.                      *)
EdgePcs == {"child", "check", "load", "loadEdges", "loadPublish", "insertEdge"}

RequestMatches ==
  \A t \in Task :
    /\ pc[t] \in EdgePcs => req[t].op = "createEdge"
    /\ pc[t] = "insertNode" => req[t].op = "createNode"
    /\ pc[t] \in {"slug", "writeNode"} => req[t].op = "updateNode"
    /\ pc[t] = "insertRow" => req[t].op = "bind"
    /\ pc[t] = "insertChannel" => req[t].op = "createChannel"
    /\ pc[t] = "writeChannel" => req[t].op = "updateChannel"
    /\ pc[t] \in {"list", "rows"} => part[t] \in DOMAIN Cascade

TypeInv == TypeOK /\ RequestMatches

(* What a handler has checked is still so when it writes.                  *)
SlugChecked ==
  \A t \in Task :
    /\ pc[t] = "insertNode" => HasSlug(req[t].slug) = {}
    /\ pc[t] \in {"slug", "writeNode"} => req[t].node \in active
    /\ pc[t] = "writeNode" /\ req[t].slug # NoSlug =>
         HasSlug(req[t].slug) \subseteq {req[t].node}

SlugInv == TypeInv /\ RowsExist /\ UniqueSlugs /\ SlugChecked

EdgeChecked ==
  \A t \in Task :
    /\ pc[t] \in EdgePcs => req[t].parent \in active
    /\ pc[t] \in EdgePcs \ {"child"} => req[t].child \in active
    /\ pc[t] = "insertEdge" =>
         /\ req[t].parent # req[t].child
         /\ ~Reaches(NodeId, VisibleEdges, req[t].child, req[t].parent)

(* The build a handler is in has read the database as it is.               *)
BuildRead ==
  \A t \in Task :
    LET w == Home[t] IN
    /\ pc[t] \in {"loadEdges", "loadPublish", "readEdges", "publish"} =>
         rawNodes[w] = active
    /\ pc[t] \in {"loadPublish", "publish"} => rawEdges[w] = Pairs(edges)

(* Who has not written works with a snapshot that is the database.         *)
BuildCurrent ==
  /\ BuildRead
  /\ \A t \in Task : Clean(t) /\ loaded[Home[t]] => cEdges[Home[t]] = VisibleEdges

GraphInv == SlugInv /\ EndsExist /\ VisibleAcyclic /\ EdgeChecked /\ BuildCurrent

(* The inductive invariant behind PublishesDatabase.                       *)
PublishInv == TypeInv /\ BuildRead

-----------------------------------------------------------------------------
(* The inductive invariant behind Detached, for one handler at a time.     *)

(* Who attaches something attaches it to active nodes.                     *)
EndsActive ==
  \A t \in Task :
    /\ pc[t] \in EdgePcs => req[t].parent \in active
    /\ pc[t] \in EdgePcs \ {"child"} => req[t].child \in active
    /\ pc[t] \in {"insertRow", "insertChannel"} => req[t].node \in active

(* What is left of a node at each point of its deactivation: the loops     *)
(* have listed all they must still visit.                                  *)
EdgesLeft(n) == {e \in edges : n \in {e[2], e[3]}}
ChannelsLeft(n) == {r \in rows : r[2] = "channel" /\ r[3] = n}

CascadeInv ==
  \A t \in Task :
    LET n == req[t].node IN
    /\ pc[t] = "children" =>
         \A e \in edges : e[2] = n => e[1] \in todo[t]
    /\ pc[t] = "edges" => \A e \in EdgesLeft(n) : e[1] \in todo[t]
    /\ pc[t] \in {"list", "rows", "node"} => EdgesLeft(n) = {}
    /\ pc[t] = "rows" /\ Cascade[part[t]] = "channel" =>
         \A r \in ChannelsLeft(n) : r[1] \in todo[t]
    /\ pc[t] = "node" => ChannelsLeft(n) = {}

DetachInv == SlugInv /\ EndsActive /\ CascadeInv /\ Detached

-----------------------------------------------------------------------------
(* The inductive invariant behind CacheMatchesDatabase, for any number of  *)
(* handlers of one worker and no failures.                                 *)

OneWorkerOnly == \A v, w \in Worker : v = w

(* Handlers that have written, or are in the midst of their writes, and    *)
(* have yet to begin their rebuild.                                        *)
Pending(t) == pc[t] \in {"edges", "list", "rows", "node", "refresh"}

LoadPcs  == {"loadEdges", "loadPublish"}
BuildPcs == LoadPcs \cup {"readEdges", "publish"}

(* A build and the lock go together, and load builds only a first snapshot.*)
BuildLocked ==
  \A t \in Task :
    /\ pc[t] \in BuildPcs <=> lock[Home[t]] = t
    /\ pc[t] \in LoadPcs => ~loaded[Home[t]]

(* When nobody is yet to rebuild, the snapshot is the database; or it will *)
(* be, once the build in progress is published.                            *)
SnapshotCurrent ==
  (\A t \in Task : ~Pending(t)) =>
     \A w \in Worker :
       /\ lock[w] = NoTask /\ loaded[w] =>
            cNodes[w] = active /\ cEdges[w] = VisibleEdges
       /\ \A t \in Task : lock[w] = t =>
            /\ rawNodes[w] = active
            /\ pc[t] \in {"loadPublish", "publish"} => rawEdges[w] = Pairs(edges)

CacheInv == TypeInv /\ BuildLocked /\ SnapshotCurrent
=============================================================================
