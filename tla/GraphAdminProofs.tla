-------------------------- MODULE GraphAdminProofs --------------------------
(***************************************************************************)
(* Proofs about GraphAdmin, for any number of nodes, edges and workers:    *)
(* its state is well typed; with one handler at a time slugs are unique    *)
(* and deactivated nodes detached, whatever fails; with one handler at a   *)
(* time and no failures the visible graph is acyclic; with any number of   *)
(* handlers of one worker and no failures its snapshot is the database     *)
(* whenever nobody is about to rebuild it.                                 *)
(*                                                                         *)
(* Each step lemma has one step per operation and, under it, one per       *)
(* action.                                                                 *)
(***************************************************************************)
EXTENDS GraphAdmin, GraphTheoryProofs, TLAPS

(* The pieces every action is made of are expanded in all proofs.          *)
USE DEF Step, Begin, Return,
        dbVars, nodeVars, edgeVars, rowVars, cacheVars, loopVars

-----------------------------------------------------------------------------
(* The fields of a request are of the types its operation gives them.      *)
LEMMA RequestFields ==
  ASSUME NEW r \in Request
  PROVE  /\ r.op = "createEdge" => r.parent \in NodeId /\ r.child \in NodeId
         /\ r.op = "createNode" => r.slug \in Slug
         /\ r.op = "updateNode" =>
              /\ r.node \in NodeId /\ r.slug \in Slug \cup {NoSlug}
              /\ r.flag \in {"on", "off", "keep"}
         /\ r.op = "bind" => r.kind \in Kind /\ r.node \in NodeId
         /\ r.op = "createChannel" => r.node \in NodeId /\ r.on \in BOOLEAN
         /\ r.op = "updateChannel" => r.id \in RowId /\ r.on \in BOOLEAN
  BY DEF Request, NoRequest

(* The types are right at the start.                                       *)
LEMMA TypeInit ==
  ASSUME Init
  PROVE  TypeInv
  BY SlugAssumption, BoundAssumption, NoTaskAssumption
     DEF Init, TypeInv, TypeOK, RequestMatches, EdgePcs, Pcs, Request

(* Every step keeps them.                                                  *)
LEMMA TypeStep ==
  ASSUME TypeInv, [Next]_vars
  PROVE  TypeInv'
<1> DOMAIN Cascade = 1..4 /\ Len(Cascade) = 4
  BY DEF Cascade
<1> USE HomeAssumption, NoTaskAssumption, SlugAssumption, BoundAssumption
<1> USE DEF TypeInv, TypeOK, RequestMatches, EdgePcs, Pcs
<1>1. ASSUME NEW t \in Task, CreateEdge(t)
      PROVE  TypeInv'
  <2>1. ASSUME NEW p \in NodeId, NEW c \in NodeId,
               FindParent(t, p, c)
        PROVE  TypeInv'
    BY <2>1 DEF FindParent, Request, NoRequest
  <2>2. CASE FindChild(t)
    BY <2>2 DEF FindChild
  <2>3. CASE NoChild(t)
    BY <2>3 DEF NoChild, Request
  <2>4. CASE LoadCall(t)
    BY <2>4 DEF LoadCall
  <2>5. CASE ValidateEdge(t)
    BY <2>5 DEF ValidateEdge
  <2>6. CASE RejectEdge(t)
    BY <2>6 DEF RejectEdge, Request
  <2>7. CASE InsertEdge(t)

    <3>1. <<nextEdge, req[t].parent, req[t].child>>
            \in EdgeId \X NodeId \X NodeId
      BY <2>7, RequestFields DEF InsertEdge
    <3>2. nextEdge + 1 \in 1..(MaxEdges + 1)
      BY <2>7 DEF InsertEdge, EdgeId
    <3>3. edges' \subseteq EdgeId \X NodeId \X NodeId
      BY <2>7, <3>1 DEF InsertEdge
    <3> QED
      BY <2>7, <3>2, <3>3 DEF InsertEdge
  <2> QED
    BY <1>1, <2>1, <2>2, <2>3, <2>4, <2>5, <2>6, <2>7 DEF CreateEdge
<1>2. ASSUME NEW t \in Task, DeactivateEdge(t)
      PROVE  TypeInv'
  <2>1. ASSUME NEW id \in EdgeId,
               FindEdge(t, id)
        PROVE  TypeInv'
    BY <2>1 DEF FindEdge, Request, NoRequest
  <2>2. CASE DropEdge(t)
    BY <2>2 DEF DropEdge
  <2> QED
    BY <1>2, <2>1, <2>2 DEF DeactivateEdge
<1>3. ASSUME NEW t \in Task, CreateNode(t)
      PROVE  TypeInv'
  <2>1. ASSUME NEW s \in Slug,
               CheckSlug(t, s)
        PROVE  TypeInv'
    BY <2>1 DEF CheckSlug, Request, NoRequest
  <2>2. CASE InsertNode(t)
    BY <2>2, RequestFields DEF InsertNode
  <2> QED
    BY <1>3, <2>1, <2>2 DEF CreateNode
<1>4. ASSUME NEW t \in Task, UpdateNode(t)
      PROVE  TypeInv'
  <2>1. ASSUME NEW n \in NodeId, NEW s \in Slug \cup {NoSlug}, NEW f \in {"on", "off", "keep"},
               FindForUpdate(t, n, s, f)
        PROVE  TypeInv'
    BY <2>1 DEF FindForUpdate, Request, NoRequest
  <2>2. CASE SlugFree(t)
    BY <2>2 DEF SlugFree
  <2>3. CASE SlugTaken(t)
    BY <2>3 DEF SlugTaken, Request
  <2>4. CASE WriteNode(t)
    BY <2>4, RequestFields DEF WriteNode
  <2> QED
    BY <1>4, <2>1, <2>2, <2>3, <2>4 DEF UpdateNode
<1>5. ASSUME NEW t \in Task, Deactivation(t)
      PROVE  TypeInv'
  <2>1. ASSUME NEW n \in NodeId,
               FindForDeactivation(t, n)
        PROVE  TypeInv'
    BY <2>1 DEF FindForDeactivation, Request, NoRequest
  <2>2. CASE EdgesAsParent(t)
    BY <2>2 DEF EdgesAsParent
  <2>3. CASE EdgesAsChild(t)
    BY <2>3 DEF EdgesAsChild
  <2>4. CASE CascadeEdge(t)
    BY <2>4 DEF CascadeEdge
  <2>5. CASE EdgesDone(t)
    BY <2>5 DEF EdgesDone
  <2>6. CASE ListRows(t)
    BY <2>6 DEF ListRows
  <2>7. CASE CascadeBinding(t)
    BY <2>7 DEF CascadeBinding
  <2>8. CASE CascadeChannel(t)
    BY <2>8 DEF CascadeChannel, SetDisabled, Row
  <2>9. CASE RowsDone(t)
    BY <2>9 DEF RowsDone
  <2>10. CASE DeactivateNode(t)
    BY <2>10 DEF DeactivateNode
  <2> QED
    BY <1>5, <2>1, <2>2, <2>3, <2>4, <2>5, <2>6, <2>7, <2>8, <2>9, <2>10 DEF Deactivation
<1>6. ASSUME NEW t \in Task, Bind(t)
      PROVE  TypeInv'
  <2>1. ASSUME NEW k \in Kind \ {"channel"}, NEW n \in NodeId,
               FindForBind(t, k, n)
        PROVE  TypeInv'
    BY <2>1 DEF FindForBind, Request, NoRequest
  <2>2. ASSUME NEW id \in RowId,
               FindBinding(t, id)
        PROVE  TypeInv'
    BY <2>2 DEF FindBinding, Request, NoRequest
  <2>3. CASE InsertRow(t)

    <3>1. <<nextRow, req[t].kind, req[t].node>> \in RowId \X Kind \X NodeId
      BY <2>3, RequestFields DEF InsertRow
    <3>2. nextRow + 1 \in 1..(MaxRows + 1)
      BY <2>3 DEF InsertRow, RowId
    <3>3. rows' \subseteq RowId \X Kind \X NodeId
      BY <2>3, <3>1 DEF InsertRow
    <3> QED
      BY <2>3, <3>2, <3>3 DEF InsertRow
  <2>4. CASE DropRow(t)
    BY <2>4 DEF DropRow
  <2> QED
    BY <1>6, <2>1, <2>2, <2>3, <2>4 DEF Bind
<1>7. ASSUME NEW t \in Task, Rebuild(t)
      PROVE  TypeInv'
  <2>1. CASE RefreshNodes(t)
    BY <2>1 DEF RefreshNodes, BuildNodes
  <2>2. CASE RefreshEdges(t)
    BY <2>2 DEF RefreshEdges, BuildEdges, Pairs
  <2>3. CASE RefreshPublish(t)
    BY <2>3 DEF RefreshPublish, Publish, Filtered, Request
  <2>4. CASE LoadSkip(t)
    BY <2>4 DEF LoadSkip
  <2>5. CASE LoadNodes(t)
    BY <2>5 DEF LoadNodes, BuildNodes
  <2>6. CASE LoadEdges(t)
    BY <2>6 DEF LoadEdges, BuildEdges, Pairs
  <2>7. CASE LoadPublish(t)
    BY <2>7 DEF LoadPublish, Publish, Filtered
  <2> QED
    BY <1>7, <2>1, <2>2, <2>3, <2>4, <2>5, <2>6, <2>7 DEF Rebuild
<1>8. ASSUME NEW t \in Task, Fail(t)
      PROVE  TypeInv'

  <2>1. lock' \in [Worker -> Task \cup {NoTask}]
    BY <1>8 DEF Fail
  <2>2. req' \in [Task -> Request] /\ pc' \in [Task -> Pcs]
    BY <1>8 DEF Fail, Request
  <2>3. todo' \in [Task -> SUBSET (EdgeId \cup RowId)] /\ part' \in [Task -> 1..5]
    BY <1>8 DEF Fail
  <2>4. RequestMatches'
    BY <1>8 DEF Fail
  <2> QED
    BY <1>8, <2>1, <2>2, <2>3, <2>4 DEF Fail
<1>9. ASSUME NEW w \in Worker, WorkerRestart(w)
      PROVE  TypeInv'
  BY <1>9 DEF WorkerRestart, Request
<1>10. CASE UNCHANGED vars
  BY <1>10 DEF vars
<1>11. ASSUME NEW t \in Task, Channels(t)
       PROVE  TypeInv'
  <2>1. ASSUME NEW n \in NodeId, NEW on \in BOOLEAN,
               FindForChannel(t, n, on)
        PROVE  TypeInv'
    BY <2>1 DEF FindForChannel, Request, NoRequest
  <2>2. ASSUME NEW id \in RowId, NEW on \in BOOLEAN,
               FindChannel(t, id, on)
        PROVE  TypeInv'
    BY <2>2 DEF FindChannel, Request, NoRequest
  <2>3. CASE InsertChannel(t)
    <3> DEFINE new == <<nextRow, "channel", req[t].node>>
    <3>1. new \in RowId \X Kind \X NodeId
      BY <2>3, RequestFields DEF InsertChannel, Kind
    <3>2. nextRow + 1 \in 1..(MaxRows + 1)
      BY <2>3 DEF InsertChannel, RowId
    <3>3. /\ rows' \subseteq RowId \X Kind \X NodeId
          /\ disabled' \subseteq RowId \X Kind \X NodeId
      BY <2>3, <3>1 DEF InsertChannel
    <3>4. /\ pc' \in [Task -> Pcs] /\ req' \in [Task -> Request]
          /\ RequestMatches'
      BY <2>3 DEF InsertChannel, Request
    <3> QED
      BY <2>3, <3>2, <3>3, <3>4 DEF InsertChannel
  <2>4. CASE WriteChannel(t)
    BY <2>4, RequestFields DEF WriteChannel, SetEnabled, SetDisabled, Row, Request
  <2> QED
    BY <1>11, <2>1, <2>2, <2>3, <2>4 DEF Channels
<1> QED
  BY <1>1, <1>2, <1>3, <1>4, <1>5, <1>6, <1>7, <1>8, <1>9, <1>10, <1>11
     DEF Next

(* The state of the admin operations is of its type, and every handler     *)
(* serves a request that fits the point it is at.                          *)
THEOREM TypeCorrect == Spec => []TypeOK
<1>1. Init => TypeInv
  BY TypeInit
<1>2. TypeInv /\ [Next]_vars => TypeInv'
  BY TypeStep
<1>3. TypeInv => TypeOK
  BY DEF TypeInv
<1> QED
  BY <1>1, <1>2, <1>3, PTL DEF Spec

-----------------------------------------------------------------------------
(* One handler at a time: what it has checked about slugs is still so when *)
(* it writes.                                                              *)
LEMMA SlugInit ==
  ASSUME Init
  PROVE  SlugInv
<1>1. TypeInv
  BY TypeInit
<1> QED
  BY <1>1, SlugAssumption
     DEF Init, SlugInv, RowsExist, UniqueSlugs, SlugChecked

(* With one handler, every step keeps slugs unique: nothing comes between  *)
(* the check of a slug and its write.                                      *)
LEMMA SlugStep ==
  ASSUME Serial, SlugInv, [Next]_vars
  PROVE  SlugInv'
<1> DEFINE Good == RowsExist /\ UniqueSlugs /\ SlugChecked
<1> TypeInv'
  BY TypeStep DEF SlugInv
<1> USE DEF SlugInv, TypeInv, TypeOK, RequestMatches, Serial,
            RowsExist, UniqueSlugs, SlugChecked, HasSlug
<1> USE SlugAssumption
<1>1. ASSUME NEW t \in Task, CreateEdge(t)
      PROVE  Good'
  <2>1. ASSUME NEW p \in NodeId, NEW c \in NodeId,
               FindParent(t, p, c)
        PROVE  Good'
    BY <2>1 DEF FindParent
  <2>2. CASE FindChild(t)
    BY <2>2 DEF FindChild
  <2>3. CASE NoChild(t)
    BY <2>3 DEF NoChild
  <2>4. CASE LoadCall(t)
    BY <2>4 DEF LoadCall
  <2>5. CASE ValidateEdge(t)
    BY <2>5 DEF ValidateEdge
  <2>6. CASE RejectEdge(t)
    BY <2>6 DEF RejectEdge
  <2>7. CASE InsertEdge(t)
    BY <2>7 DEF InsertEdge
  <2> QED
    BY <1>1, <2>1, <2>2, <2>3, <2>4, <2>5, <2>6, <2>7 DEF CreateEdge
<1>2. ASSUME NEW t \in Task, DeactivateEdge(t)
      PROVE  Good'
  <2>1. ASSUME NEW id \in EdgeId,
               FindEdge(t, id)
        PROVE  Good'
    BY <2>1 DEF FindEdge
  <2>2. CASE DropEdge(t)
    BY <2>2 DEF DropEdge
  <2> QED
    BY <1>2, <2>1, <2>2 DEF DeactivateEdge
<1>3. ASSUME NEW t \in Task, CreateNode(t)
      PROVE  Good'
  <2>1. ASSUME NEW s \in Slug,
               CheckSlug(t, s)
        PROVE  Good'
    BY <2>1 DEF CheckSlug
  <2>2. CASE InsertNode(t)
    BY <2>2, RequestFields DEF InsertNode
  <2> QED
    BY <1>3, <2>1, <2>2 DEF CreateNode
<1>4. ASSUME NEW t \in Task, UpdateNode(t)
      PROVE  Good'
  <2>1. ASSUME NEW n \in NodeId, NEW s \in Slug \cup {NoSlug}, NEW f \in {"on", "off", "keep"},
               FindForUpdate(t, n, s, f)
        PROVE  Good'
    BY <2>1 DEF FindForUpdate
  <2>2. CASE SlugFree(t)
    BY <2>2 DEF SlugFree
  <2>3. CASE SlugTaken(t)
    BY <2>3 DEF SlugTaken
  <2>4. CASE WriteNode(t)
    BY <2>4, RequestFields DEF WriteNode
  <2> QED
    BY <1>4, <2>1, <2>2, <2>3, <2>4 DEF UpdateNode
<1>5. ASSUME NEW t \in Task, Deactivation(t)
      PROVE  Good'
  <2>1. ASSUME NEW n \in NodeId,
               FindForDeactivation(t, n)
        PROVE  Good'
    BY <2>1 DEF FindForDeactivation
  <2>2. CASE EdgesAsParent(t)
    BY <2>2 DEF EdgesAsParent
  <2>3. CASE EdgesAsChild(t)
    BY <2>3 DEF EdgesAsChild
  <2>4. CASE CascadeEdge(t)
    BY <2>4 DEF CascadeEdge
  <2>5. CASE EdgesDone(t)
    BY <2>5 DEF EdgesDone
  <2>6. CASE ListRows(t)
    BY <2>6 DEF ListRows
  <2>7. CASE CascadeBinding(t)
    BY <2>7 DEF CascadeBinding
  <2>8. CASE CascadeChannel(t)
    BY <2>8 DEF CascadeChannel, SetDisabled
  <2>9. CASE RowsDone(t)
    BY <2>9 DEF RowsDone
  <2>10. CASE DeactivateNode(t)
    BY <2>10 DEF DeactivateNode
  <2> QED
    BY <1>5, <2>1, <2>2, <2>3, <2>4, <2>5, <2>6, <2>7, <2>8, <2>9, <2>10 DEF Deactivation
<1>6. ASSUME NEW t \in Task, Bind(t)
      PROVE  Good'
  <2>1. ASSUME NEW k \in Kind \ {"channel"}, NEW n \in NodeId,
               FindForBind(t, k, n)
        PROVE  Good'
    BY <2>1 DEF FindForBind
  <2>2. ASSUME NEW id \in RowId,
               FindBinding(t, id)
        PROVE  Good'
    BY <2>2 DEF FindBinding
  <2>3. CASE InsertRow(t)
    BY <2>3 DEF InsertRow
  <2>4. CASE DropRow(t)
    BY <2>4 DEF DropRow
  <2> QED
    BY <1>6, <2>1, <2>2, <2>3, <2>4 DEF Bind
<1>7. ASSUME NEW t \in Task, Rebuild(t)
      PROVE  Good'
  <2>1. CASE RefreshNodes(t)
    BY <2>1 DEF RefreshNodes, BuildNodes
  <2>2. CASE RefreshEdges(t)
    BY <2>2 DEF RefreshEdges, BuildEdges
  <2>3. CASE RefreshPublish(t)
    BY <2>3 DEF RefreshPublish, Publish
  <2>4. CASE LoadSkip(t)
    BY <2>4 DEF LoadSkip
  <2>5. CASE LoadNodes(t)
    BY <2>5 DEF LoadNodes, BuildNodes
  <2>6. CASE LoadEdges(t)
    BY <2>6 DEF LoadEdges, BuildEdges
  <2>7. CASE LoadPublish(t)
    BY <2>7 DEF LoadPublish, Publish
  <2> QED
    BY <1>7, <2>1, <2>2, <2>3, <2>4, <2>5, <2>6, <2>7 DEF Rebuild
<1>8. ASSUME NEW t \in Task, Fail(t)
      PROVE  Good'
  BY <1>8 DEF Fail
<1>9. ASSUME NEW w \in Worker, WorkerRestart(w)
      PROVE  Good'
  BY <1>9 DEF WorkerRestart
<1>10. CASE UNCHANGED vars
  BY <1>10 DEF vars
<1>11. ASSUME NEW t \in Task, Channels(t)
       PROVE  Good'
  <2>1. ASSUME NEW n \in NodeId, NEW on \in BOOLEAN,
               FindForChannel(t, n, on)
        PROVE  Good'
    BY <2>1 DEF FindForChannel
  <2>2. ASSUME NEW id \in RowId, NEW on \in BOOLEAN,
               FindChannel(t, id, on)
        PROVE  Good'
    BY <2>2 DEF FindChannel
  <2>3. CASE InsertChannel(t)
    BY <2>3, RequestFields DEF InsertChannel
  <2>4. CASE WriteChannel(t)
    BY <2>4, RequestFields DEF WriteChannel, SetEnabled, SetDisabled
  <2> QED
    BY <1>11, <2>1, <2>2, <2>3, <2>4 DEF Channels
<1> QED
  BY <1>1, <1>2, <1>3, <1>4, <1>5, <1>6, <1>7, <1>8, <1>9, <1>10, <1>11
     DEF Next

(* Two active nodes never have the same slug when admin requests come one  *)
(* after the other, even when their statements fail and workers restart.   *)
THEOREM SlugsAreUnique ==
  ASSUME Serial
  PROVE  Spec => []UniqueSlugs
<1>1. Init => SlugInv
  BY SlugInit
<1>2. SlugInv /\ [Next]_vars => SlugInv'
  BY SlugStep
<1>3. SlugInv => UniqueSlugs
  BY DEF SlugInv
<1> QED
  BY <1>1, <1>2, <1>3, PTL DEF Spec

-----------------------------------------------------------------------------
(* The visible graph.                                                      *)

(* What touches neither nodes nor edges leaves the visible graph alone.    *)
LEMMA VisibleSame ==
  ASSUME active' = active, edges' = edges
  PROVE  VisibleEdges' = VisibleEdges
  BY DEF VisibleEdges, Filtered, Pairs

(* What only deactivates nodes and edges adds nothing to it.               *)
LEMMA VisibleShrinks ==
  ASSUME active' \subseteq active, edges' \subseteq edges
  PROVE  VisibleEdges' \subseteq VisibleEdges
  BY DEF VisibleEdges, Filtered, Pairs

(* A new node has no edges, so that it adds nothing to the graph.          *)
LEMMA VisibleNewNode ==
  ASSUME NEW n, active' = active \cup {n}, edges' = edges,
         \A e \in edges : e[2] # n /\ e[3] # n
  PROVE  VisibleEdges' = VisibleEdges
  BY DEF VisibleEdges, Filtered, Pairs

(* A new edge between active nodes adds one pair to it.                    *)
LEMMA VisibleNewEdge ==
  ASSUME NEW id, NEW p \in active, NEW c \in active,
         active' = active, edges' = edges \cup {<<id, p, c>>}
  PROVE  VisibleEdges' = VisibleEdges \cup {<<p, c>>}
<1> DEFINE e == <<id, p, c>>
<1>1. Pairs(edges') = Pairs(edges) \cup {<<p, c>>}
  <2>1. <<e[2], e[3]>> = <<p, c>>
    OBVIOUS
  <2>2. ASSUME NEW x
        PROVE  x \in Pairs(edges') <=> x \in Pairs(edges) \cup {<<e[2], e[3]>>}
    <3> HIDE DEF e
    <3>1. edges' = edges \cup {e}
      BY DEF e
    <3> QED
      BY <3>1 DEF Pairs
  <2> QED
    BY <2>1, <2>2
<1>2. Filtered(active, Pairs(edges) \cup {<<p, c>>})
        = Filtered(active, Pairs(edges)) \cup {<<p, c>>}
  BY DEF Filtered
<1> QED
  BY <1>1, <1>2 DEF VisibleEdges

(* What the search for cycles has passed can be added.                     *)
LEMMA UnreachedEdgeAcyclic ==
  ASSUME NEW V, NEW E, NEW p, NEW c, Acyclic(V, E), ~Reaches(V, E, c, p)
  PROVE  Acyclic(V, E \cup {<<p, c>>})
<1>1. PICK R \in SUBSET V : c \in R /\ Closed(E, R) /\ p \notin R
  BY DEF Reaches
<1> QED
  BY <1>1, AddEdgeAcyclic

-----------------------------------------------------------------------------
(* One handler at a time and no failures: a snapshot that is looked at is  *)
(* the database, and what the search has found is still so at the insert.  *)
LEMMA GraphInit ==
  ASSUME Init
  PROVE  GraphInv
<1>1. SlugInv
  BY SlugInit
<1>2. VisibleEdges = {}
  BY DEF Init, VisibleEdges, Filtered, Pairs
<1>3. VisibleAcyclic
  BY <1>2 DEF VisibleAcyclic, Acyclic
<1> QED
  BY <1>1, <1>3, HomeAssumption
     DEF Init, GraphInv, EndsExist, EdgeChecked, BuildCurrent, BuildRead, EdgePcs

(* With one handler and no failures, every step keeps the graph acyclic.   *)
LEMMA GraphStep ==
  ASSUME Serial, ~CanFail, GraphInv, [Next]_vars
  PROVE  GraphInv'
<1> DEFINE Good == EndsExist /\ VisibleAcyclic /\ EdgeChecked /\ BuildCurrent
<1> SlugInv'
  BY SlugStep DEF GraphInv
<1> USE DEF GraphInv, SlugInv, TypeInv, TypeOK, RequestMatches, Serial,
            RowsExist, EndsExist, VisibleAcyclic, EdgeChecked, BuildCurrent, BuildRead,
            EdgePcs, Clean, ClosesCycle
<1> USE HomeAssumption
<1>1. ASSUME NEW t \in Task, CreateEdge(t)
      PROVE  Good'
  <2>1. ASSUME NEW p \in NodeId, NEW c \in NodeId,
               FindParent(t, p, c)
        PROVE  Good'
    BY <2>1, VisibleSame DEF FindParent
  <2>2. CASE FindChild(t)
    BY <2>2, VisibleSame DEF FindChild
  <2>3. CASE NoChild(t)
    BY <2>3, VisibleSame DEF NoChild
  <2>4. CASE LoadCall(t)
    BY <2>4, VisibleSame DEF LoadCall
  <2>5. CASE ValidateEdge(t)
    BY <2>5, VisibleSame DEF ValidateEdge
  <2>6. CASE RejectEdge(t)
    BY <2>6, VisibleSame DEF RejectEdge
  <2>7. CASE InsertEdge(t)

    <3> DEFINE p == req[t].parent
               c == req[t].child
    <3>1. p \in active /\ c \in active
      BY <2>7 DEF InsertEdge
    <3>2. VisibleEdges' = VisibleEdges \cup {<<p, c>>}
      <4>1. active' = active /\ edges' = edges \cup {<<nextEdge, p, c>>}
        BY <2>7 DEF InsertEdge
      <4> HIDE DEF p, c
      <4> QED
        BY ONLY <3>1, <4>1, VisibleNewEdge
    <3>3. ~Reaches(NodeId, VisibleEdges, c, p)
      BY <2>7 DEF InsertEdge
    <3>4. VisibleAcyclic'
      BY <3>2, <3>3, UnreachedEdgeAcyclic
    <3>5. EndsExist'
      BY <2>7, <3>1 DEF InsertEdge
    <3> QED
      BY <2>7, <3>4, <3>5 DEF InsertEdge
  <2> QED
    BY <1>1, <2>1, <2>2, <2>3, <2>4, <2>5, <2>6, <2>7 DEF CreateEdge
<1>2. ASSUME NEW t \in Task, DeactivateEdge(t)
      PROVE  Good'
  <2>1. ASSUME NEW id \in EdgeId,
               FindEdge(t, id)
        PROVE  Good'
    BY <2>1, VisibleSame DEF FindEdge
  <2>2. CASE DropEdge(t)

    <3>1. edges' \subseteq edges /\ active' = active
      BY <2>2 DEF DropEdge
    <3>2. VisibleAcyclic'
      BY <3>1, VisibleShrinks, AcyclicSubgraph
    <3> QED
      BY <2>2, <3>1, <3>2 DEF DropEdge
  <2> QED
    BY <1>2, <2>1, <2>2 DEF DeactivateEdge
<1>3. ASSUME NEW t \in Task, CreateNode(t)
      PROVE  Good'
  <2>1. ASSUME NEW s \in Slug,
               CheckSlug(t, s)
        PROVE  Good'
    BY <2>1, VisibleSame DEF CheckSlug
  <2>2. CASE InsertNode(t)

    <3>1. PICK n \in NodeId :
            /\ slugOf[n] = NoSlug
            /\ slugOf' = [slugOf EXCEPT ![n] = req[t].slug]
            /\ active' = active \cup {n}
      BY <2>2 DEF InsertNode
    <3>2. VisibleEdges' = VisibleEdges
      <4>1. edges' = edges
        BY <2>2 DEF InsertNode
      <4>2. \A e \in edges : e[2] # n /\ e[3] # n
        BY <3>1
      <4> QED
        BY <3>1, <4>1, <4>2, VisibleNewNode
    <3>3. EndsExist'
      BY <2>2, <3>1, RequestFields, SlugAssumption DEF InsertNode
    <3> QED
      BY <2>2, <3>2, <3>3 DEF InsertNode
  <2> QED
    BY <1>3, <2>1, <2>2 DEF CreateNode
<1>4. ASSUME NEW t \in Task, UpdateNode(t)
      PROVE  Good'
  <2>1. ASSUME NEW n \in NodeId, NEW s \in Slug \cup {NoSlug}, NEW f \in {"on", "off", "keep"},
               FindForUpdate(t, n, s, f)
        PROVE  Good'
    BY <2>1, VisibleSame DEF FindForUpdate
  <2>2. CASE SlugFree(t)
    BY <2>2, VisibleSame DEF SlugFree
  <2>3. CASE SlugTaken(t)
    BY <2>3, VisibleSame DEF SlugTaken
  <2>4. CASE WriteNode(t)

    <3>1. edges' = edges /\ active' \subseteq active
      BY <2>4, RequestFields DEF WriteNode, SlugChecked
    <3>2. VisibleAcyclic'
      BY <3>1, VisibleShrinks, AcyclicSubgraph
    <3>3. EndsExist'
      BY <2>4, RequestFields, SlugAssumption DEF WriteNode
    <3> QED
      BY <2>4, <3>2, <3>3 DEF WriteNode
  <2> QED
    BY <1>4, <2>1, <2>2, <2>3, <2>4 DEF UpdateNode
<1>5. ASSUME NEW t \in Task, Deactivation(t)
      PROVE  Good'
  <2>1. ASSUME NEW n \in NodeId,
               FindForDeactivation(t, n)
        PROVE  Good'
    BY <2>1, VisibleSame DEF FindForDeactivation
  <2>2. CASE EdgesAsParent(t)
    BY <2>2, VisibleSame DEF EdgesAsParent
  <2>3. CASE EdgesAsChild(t)
    BY <2>3, VisibleSame DEF EdgesAsChild
  <2>4. CASE CascadeEdge(t)

    <3>1. edges' \subseteq edges /\ active' = active
      BY <2>4 DEF CascadeEdge
    <3>2. VisibleAcyclic'
      BY <3>1, VisibleShrinks, AcyclicSubgraph
    <3> QED
      BY <2>4, <3>1, <3>2 DEF CascadeEdge
  <2>5. CASE EdgesDone(t)
    BY <2>5, VisibleSame DEF EdgesDone
  <2>6. CASE ListRows(t)
    BY <2>6, VisibleSame DEF ListRows
  <2>7. CASE CascadeBinding(t)
    BY <2>7, VisibleSame DEF CascadeBinding
  <2>8. CASE CascadeChannel(t)
    BY <2>8, VisibleSame DEF CascadeChannel, SetDisabled
  <2>9. CASE RowsDone(t)
    BY <2>9, VisibleSame DEF RowsDone
  <2>10. CASE DeactivateNode(t)

    <3>1. edges' = edges /\ active' \subseteq active
      BY <2>10 DEF DeactivateNode
    <3>2. VisibleAcyclic'
      BY <3>1, VisibleShrinks, AcyclicSubgraph
    <3> QED
      BY <2>10, <3>1, <3>2 DEF DeactivateNode
  <2> QED
    BY <1>5, <2>1, <2>2, <2>3, <2>4, <2>5, <2>6, <2>7, <2>8, <2>9, <2>10 DEF Deactivation
<1>6. ASSUME NEW t \in Task, Bind(t)
      PROVE  Good'
  <2>1. ASSUME NEW k \in Kind \ {"channel"}, NEW n \in NodeId,
               FindForBind(t, k, n)
        PROVE  Good'
    BY <2>1, VisibleSame DEF FindForBind
  <2>2. ASSUME NEW id \in RowId,
               FindBinding(t, id)
        PROVE  Good'
    BY <2>2, VisibleSame DEF FindBinding
  <2>3. CASE InsertRow(t)
    BY <2>3, VisibleSame DEF InsertRow
  <2>4. CASE DropRow(t)
    BY <2>4, VisibleSame DEF DropRow
  <2> QED
    BY <1>6, <2>1, <2>2, <2>3, <2>4 DEF Bind
<1>7. ASSUME NEW t \in Task, Rebuild(t)
      PROVE  Good'
  <2>1. CASE RefreshNodes(t)
    BY <2>1, VisibleSame DEF RefreshNodes, BuildNodes
  <2>2. CASE RefreshEdges(t)
    BY <2>2, VisibleSame DEF RefreshEdges, BuildEdges
  <2>3. CASE RefreshPublish(t)
    BY <2>3, VisibleSame DEF RefreshPublish, Publish, VisibleEdges
  <2>4. CASE LoadSkip(t)
    BY <2>4, VisibleSame DEF LoadSkip
  <2>5. CASE LoadNodes(t)
    BY <2>5, VisibleSame DEF LoadNodes, BuildNodes
  <2>6. CASE LoadEdges(t)
    BY <2>6, VisibleSame DEF LoadEdges, BuildEdges
  <2>7. CASE LoadPublish(t)
    BY <2>7, VisibleSame DEF LoadPublish, Publish, VisibleEdges
  <2> QED
    BY <1>7, <2>1, <2>2, <2>3, <2>4, <2>5, <2>6, <2>7 DEF Rebuild
<1>8. ASSUME NEW t \in Task, Fail(t)
      PROVE  Good'
  BY <1>8 DEF Fail
<1>9. ASSUME NEW w \in Worker, WorkerRestart(w)
      PROVE  Good'
  BY <1>9 DEF WorkerRestart
<1>10. CASE UNCHANGED vars
  BY <1>10, VisibleSame DEF vars
<1>11. ASSUME NEW t \in Task, Channels(t)
       PROVE  Good'
  <2>1. ASSUME NEW n \in NodeId, NEW on \in BOOLEAN,
               FindForChannel(t, n, on)
        PROVE  Good'
    BY <2>1, VisibleSame DEF FindForChannel
  <2>2. ASSUME NEW id \in RowId, NEW on \in BOOLEAN,
               FindChannel(t, id, on)
        PROVE  Good'
    BY <2>2, VisibleSame DEF FindChannel
  <2>3. CASE InsertChannel(t)
    BY <2>3, VisibleSame, RequestFields DEF InsertChannel
  <2>4. CASE WriteChannel(t)
    BY <2>4, VisibleSame, RequestFields DEF WriteChannel, SetEnabled, SetDisabled
  <2> QED
    BY <1>11, <2>1, <2>2, <2>3, <2>4 DEF Channels
<1> QED
  BY <1>1, <1>2, <1>3, <1>4, <1>5, <1>6, <1>7, <1>8, <1>9, <1>10, <1>11
     DEF Next

(* When admin requests come one after the other and nothing fails, the     *)
(* active nodes and the edges between them never form a cycle.             *)
THEOREM GraphIsAcyclic ==
  ASSUME Serial, ~CanFail
  PROVE  Spec => []VisibleAcyclic
<1>1. Init => GraphInv
  BY GraphInit
<1>2. GraphInv /\ [Next]_vars => GraphInv'
  BY GraphStep
<1>3. GraphInv => VisibleAcyclic
  BY DEF GraphInv
<1> QED
  BY <1>1, <1>2, <1>3, PTL DEF Spec

-----------------------------------------------------------------------------
(* What a refresh publishes, with one handler at a time: between its reads *)
(* and its publish nothing is written.                                     *)
LEMMA PublishStep ==
  ASSUME Serial, PublishInv, [Next]_vars
  PROVE  PublishInv'
<1> TypeInv'
  BY TypeStep DEF PublishInv
<1> USE HomeAssumption
<1> USE DEF PublishInv, TypeInv, TypeOK, Serial, BuildRead
<1>1. ASSUME NEW t \in Task, CreateEdge(t)
      PROVE  BuildRead'
  BY <1>1 DEF CreateEdge, FindParent, FindChild, NoChild, LoadCall, ValidateEdge,
     RejectEdge, InsertEdge
<1>2. ASSUME NEW t \in Task, DeactivateEdge(t)
      PROVE  BuildRead'
  BY <1>2 DEF DeactivateEdge, FindEdge, DropEdge
<1>3. ASSUME NEW t \in Task, CreateNode(t)
      PROVE  BuildRead'
  BY <1>3 DEF CreateNode, CheckSlug, InsertNode
<1>4. ASSUME NEW t \in Task, UpdateNode(t)
      PROVE  BuildRead'
  BY <1>4 DEF UpdateNode, FindForUpdate, SlugFree, SlugTaken, WriteNode
<1>5. ASSUME NEW t \in Task, Deactivation(t)
      PROVE  BuildRead'
  BY <1>5 DEF Deactivation, FindForDeactivation, EdgesAsParent, EdgesAsChild, CascadeEdge, EdgesDone,
     ListRows, CascadeBinding, CascadeChannel, RowsDone, DeactivateNode
<1>6. ASSUME NEW t \in Task, Bind(t)
      PROVE  BuildRead'
  BY <1>6 DEF Bind, FindForBind, FindBinding, InsertRow, DropRow
<1>7. ASSUME NEW t \in Task, Channels(t)
      PROVE  BuildRead'
  BY <1>7 DEF Channels, FindForChannel, FindChannel, InsertChannel, WriteChannel
<1>8. ASSUME NEW t \in Task, Rebuild(t)
      PROVE  BuildRead'
  <2>1. CASE RefreshNodes(t)
    BY <2>1 DEF RefreshNodes, BuildNodes
  <2>2. CASE RefreshEdges(t)
    BY <2>2 DEF RefreshEdges, BuildEdges
  <2>3. CASE RefreshPublish(t)
    BY <2>3 DEF RefreshPublish, Publish
  <2>4. CASE LoadSkip(t)
    BY <2>4 DEF LoadSkip
  <2>5. CASE LoadNodes(t)
    BY <2>5 DEF LoadNodes, BuildNodes
  <2>6. CASE LoadEdges(t)
    BY <2>6 DEF LoadEdges, BuildEdges
  <2>7. CASE LoadPublish(t)
    BY <2>7 DEF LoadPublish, Publish
  <2> QED
    BY <1>8, <2>1, <2>2, <2>3, <2>4, <2>5, <2>6, <2>7 DEF Rebuild
<1>9. ASSUME NEW t \in Task, Fail(t)
      PROVE  BuildRead'
  BY <1>9 DEF Fail
<1>10. ASSUME NEW w \in Worker, WorkerRestart(w)
       PROVE  BuildRead'
  BY <1>10 DEF WorkerRestart
<1>11. CASE UNCHANGED vars
  BY <1>11 DEF vars
<1> QED
  BY <1>1, <1>2, <1>3, <1>4, <1>5, <1>6, <1>7, <1>8, <1>9, <1>10, <1>11
     DEF Next

(* When admin requests come one after the other, what a request publishes  *)
(* before it answers is the database as it is, whatever failed before.     *)
THEOREM PublishesDatabaseHolds ==
  ASSUME Serial
  PROVE  Spec => PublishesDatabase
<1>1. Init => PublishInv
  BY TypeInit DEF Init, PublishInv, BuildRead
<1>2. PublishInv /\ [Next]_vars => PublishInv'
  BY PublishStep
<1>3. PublishInv /\ [Next]_vars => [PublishedAsIs]_vars
  <2> SUFFICES ASSUME PublishInv, NEW t \in Task, RefreshPublish(t)
               PROVE  cNodes'[Home[t]] = active /\ cEdges'[Home[t]] = VisibleEdges
    BY DEF PublishedAsIs
  <2> USE HomeAssumption DEF PublishInv, TypeInv, TypeOK, BuildRead
  <2>1. rawNodes[Home[t]] = active /\ rawEdges[Home[t]] = Pairs(edges)
    BY DEF RefreshPublish
  <2> QED
    BY <2>1 DEF RefreshPublish, Publish, VisibleEdges
<1> QED
  BY <1>1, <1>2, <1>3, PTL DEF Spec, PublishesDatabase

-----------------------------------------------------------------------------
(* What deactivate_node leaves of a node, with one handler at a time.      *)
LEMMA DetachInit ==
  ASSUME Init
  PROVE  DetachInv
<1>1. SlugInv
  BY SlugInit
<1> QED
  BY <1>1 DEF Init, DetachInv, EndsActive, CascadeInv, Detached, Deactivated, EdgePcs

(* Every step keeps it, whatever fails: a node is out of service only once *)
(* all the loops are through, and a handler that fails before that leaves  *)
(* it active.                                                              *)
LEMMA DetachStep ==
  ASSUME Serial, DetachInv, [Next]_vars
  PROVE  DetachInv'
<1> DEFINE Good == EndsActive /\ CascadeInv /\ Detached
<1> DOMAIN Cascade = 1..4 /\ Len(Cascade) = 4 /\ Cascade[4] = "channel"
    /\ \A i \in 1..4 : Cascade[i] = "channel" => i = 4
  BY DEF Cascade
<1> SlugInv'
  BY SlugStep DEF DetachInv
<1> USE DEF DetachInv, SlugInv, TypeInv, TypeOK, RequestMatches, Serial, SlugChecked,
            EndsActive, CascadeInv, EdgesLeft, ChannelsLeft, Detached, Deactivated, EdgePcs
<1>1. ASSUME NEW t \in Task, CreateEdge(t)
      PROVE  Good'
  <2>1. ASSUME NEW p \in NodeId, NEW c \in NodeId,
               FindParent(t, p, c)
        PROVE  Good'
    BY <2>1 DEF FindParent
  <2>2. CASE FindChild(t)
    BY <2>2 DEF FindChild
  <2>3. CASE NoChild(t)
    BY <2>3 DEF NoChild
  <2>4. CASE LoadCall(t)
    BY <2>4 DEF LoadCall
  <2>5. CASE ValidateEdge(t)
    BY <2>5 DEF ValidateEdge
  <2>6. CASE RejectEdge(t)
    BY <2>6 DEF RejectEdge
  <2>7. CASE InsertEdge(t)
    BY <2>7 DEF InsertEdge
  <2> QED
    BY <1>1, <2>1, <2>2, <2>3, <2>4, <2>5, <2>6, <2>7 DEF CreateEdge
<1>2. ASSUME NEW t \in Task, DeactivateEdge(t)
      PROVE  Good'
  <2>1. ASSUME NEW id \in EdgeId,
               FindEdge(t, id)
        PROVE  Good'
    BY <2>1 DEF FindEdge
  <2>2. CASE DropEdge(t)
    BY <2>2 DEF DropEdge
  <2> QED
    BY <1>2, <2>1, <2>2 DEF DeactivateEdge
<1>3. ASSUME NEW t \in Task, CreateNode(t)
      PROVE  Good'
  <2>1. ASSUME NEW s \in Slug,
               CheckSlug(t, s)
        PROVE  Good'
    BY <2>1 DEF CheckSlug
  <2>2. CASE InsertNode(t)
    BY <2>2 DEF InsertNode
  <2> QED
    BY <1>3, <2>1, <2>2 DEF CreateNode
<1>4. ASSUME NEW t \in Task, UpdateNode(t)
      PROVE  Good'
  <2>1. ASSUME NEW n \in NodeId, NEW s \in Slug \cup {NoSlug}, NEW f \in {"on", "off", "keep"},
               FindForUpdate(t, n, s, f)
        PROVE  Good'
    BY <2>1 DEF FindForUpdate
  <2>2. CASE SlugFree(t)
    BY <2>2 DEF SlugFree
  <2>3. CASE SlugTaken(t)
    BY <2>3 DEF SlugTaken
  <2>4. CASE WriteNode(t)
    <3>1. /\ req[t].node \in active /\ req[t].flag \in {"on", "off", "keep"}
          /\ req[t].slug \in Slug \cup {NoSlug}
      BY <2>4, RequestFields DEF WriteNode
    <3>2. /\ active' \subseteq active /\ active \subseteq active' \cup {req[t].node}
          /\ req[t].node \in active' \cup patched'
          /\ \A n \in NodeId \ {req[t].node} :
               /\ slugOf'[n] = slugOf[n]
               /\ n \in active \cup patched => n \in active' \cup patched'
      BY <2>4, <3>1 DEF WriteNode
    <3>3. Deactivated' \subseteq Deactivated
      BY <3>2
    <3>4. Detached'
      BY <2>4, <3>3 DEF WriteNode
    <3>5. \A u \in Task : pc'[u] = "refresh"
      BY <2>4 DEF WriteNode
    <3>6. EndsActive' /\ CascadeInv'
      BY <3>5
    <3> QED
      BY <3>4, <3>6
  <2> QED
    BY <1>4, <2>1, <2>2, <2>3, <2>4 DEF UpdateNode
<1>5. ASSUME NEW t \in Task, Deactivation(t)
      PROVE  Good'
  <2>1. ASSUME NEW n \in NodeId,
               FindForDeactivation(t, n)
        PROVE  Good'
    BY <2>1 DEF FindForDeactivation
  <2>2. CASE EdgesAsParent(t)
    BY <2>2 DEF EdgesAsParent
  <2>3. CASE EdgesAsChild(t)
    BY <2>3 DEF EdgesAsChild
  <2>4. CASE CascadeEdge(t)
    BY <2>4 DEF CascadeEdge
  <2>5. CASE EdgesDone(t)
    BY <2>5 DEF EdgesDone
  <2>6. CASE ListRows(t)
    BY <2>6 DEF ListRows
  <2>7. CASE CascadeBinding(t)
    BY <2>7 DEF CascadeBinding
  <2>8. CASE CascadeChannel(t)
    BY <2>8 DEF CascadeChannel, SetDisabled, Row
  <2>9. CASE RowsDone(t)
    BY <2>9 DEF RowsDone
  <2>10. CASE DeactivateNode(t)
    BY <2>10 DEF DeactivateNode
  <2> QED
    BY <1>5, <2>1, <2>2, <2>3, <2>4, <2>5, <2>6, <2>7, <2>8, <2>9, <2>10 DEF Deactivation
<1>6. ASSUME NEW t \in Task, Bind(t)
      PROVE  Good'
  <2>1. ASSUME NEW k \in Kind \ {"channel"}, NEW n \in NodeId,
               FindForBind(t, k, n)
        PROVE  Good'
    BY <2>1 DEF FindForBind
  <2>2. ASSUME NEW id \in RowId,
               FindBinding(t, id)
        PROVE  Good'
    BY <2>2 DEF FindBinding
  <2>3. CASE InsertRow(t)
    BY <2>3 DEF InsertRow
  <2>4. CASE DropRow(t)
    BY <2>4 DEF DropRow
  <2> QED
    BY <1>6, <2>1, <2>2, <2>3, <2>4 DEF Bind
<1>7. ASSUME NEW t \in Task, Rebuild(t)
      PROVE  Good'
  <2>1. CASE RefreshNodes(t)
    BY <2>1 DEF RefreshNodes, BuildNodes
  <2>2. CASE RefreshEdges(t)
    BY <2>2 DEF RefreshEdges, BuildEdges
  <2>3. CASE RefreshPublish(t)
    BY <2>3 DEF RefreshPublish, Publish
  <2>4. CASE LoadSkip(t)
    BY <2>4 DEF LoadSkip
  <2>5. CASE LoadNodes(t)
    BY <2>5 DEF LoadNodes, BuildNodes
  <2>6. CASE LoadEdges(t)
    BY <2>6 DEF LoadEdges, BuildEdges
  <2>7. CASE LoadPublish(t)
    BY <2>7 DEF LoadPublish, Publish
  <2> QED
    BY <1>7, <2>1, <2>2, <2>3, <2>4, <2>5, <2>6, <2>7 DEF Rebuild
<1>8. ASSUME NEW t \in Task, Fail(t)
      PROVE  Good'
  BY <1>8 DEF Fail
<1>9. ASSUME NEW w \in Worker, WorkerRestart(w)
      PROVE  Good'
  BY <1>9 DEF WorkerRestart
<1>10. CASE UNCHANGED vars
  <2>1. /\ slugOf' = slugOf /\ active' = active /\ patched' = patched
        /\ edges' = edges /\ rows' = rows /\ reenabled' = reenabled
        /\ pc' = pc /\ req' = req
        /\ todo' = todo /\ part' = part
    BY <1>10 DEF vars
  <2>2. EndsActive'
    BY <2>1
  <2>3. CascadeInv'
    BY <2>1
  <2>4. Detached'
    BY <2>1
  <2> QED
    BY <2>2, <2>3, <2>4
<1>11. ASSUME NEW t \in Task, Channels(t)
       PROVE  Good'
  <2>1. ASSUME NEW n \in NodeId, NEW on \in BOOLEAN,
               FindForChannel(t, n, on)
        PROVE  Good'
    BY <2>1 DEF FindForChannel
  <2>2. ASSUME NEW id \in RowId, NEW on \in BOOLEAN,
               FindChannel(t, id, on)
        PROVE  Good'
    BY <2>2 DEF FindChannel
  <2>3. CASE InsertChannel(t)
    BY <2>3, RequestFields DEF InsertChannel
  <2>4. CASE WriteChannel(t)
    BY <2>4, RequestFields DEF WriteChannel, SetEnabled, SetDisabled, Row
  <2> QED
    BY <1>11, <2>1, <2>2, <2>3, <2>4 DEF Channels
<1> QED
  BY <1>1, <1>2, <1>3, <1>4, <1>5, <1>6, <1>7, <1>8, <1>9, <1>10, <1>11
     DEF Next

(* A node that deactivate_node has taken out of service has no active edge *)
(* and no enabled channel but those a later update of the channel enabled  *)
(* again, when admin requests come one after the other, whatever           *)
(* statements fail and however often the request is repeated.              *)
THEOREM DetachedHolds ==
  ASSUME Serial
  PROVE  Spec => []Detached
<1>1. Init => DetachInv
  BY DetachInit
<1>2. DetachInv /\ [Next]_vars => DetachInv'
  BY DetachStep
<1>3. DetachInv => Detached
  BY DEF DetachInv
<1> QED
  BY <1>1, <1>2, <1>3, PTL DEF Spec

-----------------------------------------------------------------------------
(* What a worker serves, with any number of handlers on it.                *)
LEMMA CacheInit ==
  ASSUME Init
  PROVE  CacheInv
<1>1. TypeInv
  BY TypeInit
<1> QED
  BY <1>1, HomeAssumption, NoTaskAssumption
     DEF Init, CacheInv, BuildLocked, SnapshotCurrent, BuildPcs, LoadPcs

(* Every step keeps it: who writes rebuilds later, and the last to take    *)
(* the lock for that reads all that has been written.                      *)
LEMMA CacheStep ==
  ASSUME OneWorkerOnly, ~CanFail, CacheInv, [Next]_vars
  PROVE  CacheInv'
<1> DEFINE Good == BuildLocked /\ SnapshotCurrent
<1> TypeInv'
  BY TypeStep DEF CacheInv
<1> USE HomeAssumption, NoTaskAssumption
<1> USE DEF CacheInv, TypeInv, TypeOK, OneWorkerOnly,
            BuildLocked, SnapshotCurrent, Pending, BuildPcs, LoadPcs
<1>1. ASSUME NEW t \in Task, CreateEdge(t)
      PROVE  Good'
  <2>1. ASSUME NEW p \in NodeId, NEW c \in NodeId,
               FindParent(t, p, c)
        PROVE  Good'
    BY <2>1, VisibleSame DEF FindParent
  <2>2. CASE FindChild(t)
    BY <2>2, VisibleSame DEF FindChild
  <2>3. CASE NoChild(t)
    BY <2>3, VisibleSame DEF NoChild
  <2>4. CASE LoadCall(t)
    BY <2>4, VisibleSame DEF LoadCall
  <2>5. CASE ValidateEdge(t)
    BY <2>5, VisibleSame DEF ValidateEdge
  <2>6. CASE RejectEdge(t)
    BY <2>6, VisibleSame DEF RejectEdge
  <2>7. CASE InsertEdge(t)
    BY <2>7, VisibleSame DEF InsertEdge
  <2> QED
    BY <1>1, <2>1, <2>2, <2>3, <2>4, <2>5, <2>6, <2>7 DEF CreateEdge
<1>2. ASSUME NEW t \in Task, DeactivateEdge(t)
      PROVE  Good'
  <2>1. ASSUME NEW id \in EdgeId,
               FindEdge(t, id)
        PROVE  Good'
    BY <2>1, VisibleSame DEF FindEdge
  <2>2. CASE DropEdge(t)
    BY <2>2, VisibleSame DEF DropEdge
  <2> QED
    BY <1>2, <2>1, <2>2 DEF DeactivateEdge
<1>3. ASSUME NEW t \in Task, CreateNode(t)
      PROVE  Good'
  <2>1. ASSUME NEW s \in Slug,
               CheckSlug(t, s)
        PROVE  Good'
    BY <2>1, VisibleSame DEF CheckSlug
  <2>2. CASE InsertNode(t)
    BY <2>2, VisibleSame DEF InsertNode
  <2> QED
    BY <1>3, <2>1, <2>2 DEF CreateNode
<1>4. ASSUME NEW t \in Task, UpdateNode(t)
      PROVE  Good'
  <2>1. ASSUME NEW n \in NodeId, NEW s \in Slug \cup {NoSlug}, NEW f \in {"on", "off", "keep"},
               FindForUpdate(t, n, s, f)
        PROVE  Good'
    BY <2>1, VisibleSame DEF FindForUpdate
  <2>2. CASE SlugFree(t)
    BY <2>2, VisibleSame DEF SlugFree
  <2>3. CASE SlugTaken(t)
    BY <2>3, VisibleSame DEF SlugTaken
  <2>4. CASE WriteNode(t)
    BY <2>4, VisibleSame DEF WriteNode
  <2> QED
    BY <1>4, <2>1, <2>2, <2>3, <2>4 DEF UpdateNode
<1>5. ASSUME NEW t \in Task, Deactivation(t)
      PROVE  Good'
  <2>1. ASSUME NEW n \in NodeId,
               FindForDeactivation(t, n)
        PROVE  Good'
    BY <2>1, VisibleSame DEF FindForDeactivation
  <2>2. CASE EdgesAsParent(t)
    BY <2>2, VisibleSame DEF EdgesAsParent
  <2>3. CASE EdgesAsChild(t)
    BY <2>3, VisibleSame DEF EdgesAsChild
  <2>4. CASE CascadeEdge(t)
    BY <2>4, VisibleSame DEF CascadeEdge
  <2>5. CASE EdgesDone(t)
    BY <2>5, VisibleSame DEF EdgesDone
  <2>6. CASE ListRows(t)
    BY <2>6, VisibleSame DEF ListRows
  <2>7. CASE CascadeBinding(t)
    BY <2>7, VisibleSame DEF CascadeBinding
  <2>8. CASE CascadeChannel(t)
    BY <2>8, VisibleSame DEF CascadeChannel, SetDisabled
  <2>9. CASE RowsDone(t)
    BY <2>9, VisibleSame DEF RowsDone
  <2>10. CASE DeactivateNode(t)
    BY <2>10, VisibleSame DEF DeactivateNode
  <2> QED
    BY <1>5, <2>1, <2>2, <2>3, <2>4, <2>5, <2>6, <2>7, <2>8, <2>9, <2>10 DEF Deactivation
<1>6. ASSUME NEW t \in Task, Bind(t)
      PROVE  Good'
  <2>1. ASSUME NEW k \in Kind \ {"channel"}, NEW n \in NodeId,
               FindForBind(t, k, n)
        PROVE  Good'
    BY <2>1, VisibleSame DEF FindForBind
  <2>2. ASSUME NEW id \in RowId,
               FindBinding(t, id)
        PROVE  Good'
    BY <2>2, VisibleSame DEF FindBinding
  <2>3. CASE InsertRow(t)
    BY <2>3, VisibleSame DEF InsertRow
  <2>4. CASE DropRow(t)
    BY <2>4, VisibleSame DEF DropRow
  <2> QED
    BY <1>6, <2>1, <2>2, <2>3, <2>4 DEF Bind
<1>7. ASSUME NEW t \in Task, Rebuild(t)
      PROVE  Good'
  <2>1. CASE RefreshNodes(t)
    BY <2>1, VisibleSame DEF RefreshNodes, BuildNodes
  <2>2. CASE RefreshEdges(t)
    BY <2>2, VisibleSame DEF RefreshEdges, BuildEdges
  <2>3. CASE RefreshPublish(t)
    <3> DEFINE w == Home[t]
    <3>1. /\ w \in Worker /\ \A v \in Worker : v = w
          /\ pc[t] \in BuildPcs /\ lock[w] = t
          /\ pc' = [pc EXCEPT ![t] = "idle"]
          /\ active' = active /\ edges' = edges
      BY <2>3 DEF RefreshPublish
    <3>2. /\ loaded' = [loaded EXCEPT ![w] = TRUE]
          /\ lock' = [lock EXCEPT ![w] = NoTask]
          /\ cNodes' = [cNodes EXCEPT ![w] = rawNodes[w]]
          /\ cEdges' = [cEdges EXCEPT ![w] = Filtered(rawNodes[w], rawEdges[w])]
      BY <2>3 DEF RefreshPublish, Publish
    <3>3. \A u \in Task \ {t} : pc[u] \notin BuildPcs
      BY <3>1
    <3>4. BuildLocked'
      BY <3>1, <3>2, <3>3
    <3>5. ASSUME \A u \in Task : ~Pending(u)'
          PROVE  cNodes'[w] = active' /\ cEdges'[w] = VisibleEdges'
      <4>1. \A u \in Task : ~Pending(u)
        BY <3>1, <3>5
      <4>2. rawNodes[w] = active /\ rawEdges[w] = Pairs(edges)
        BY <3>1, <4>1, <2>3 DEF RefreshPublish
      <4>3. cEdges'[w] = VisibleEdges
        BY <3>1, <3>2, <4>2 DEF VisibleEdges
      <4> QED
        BY <3>1, <3>2, <4>2, <4>3, VisibleSame
    <3>6. SnapshotCurrent'
      BY <3>1, <3>2, <3>5
    <3> QED
      BY <3>4, <3>6
  <2>4. CASE LoadSkip(t)
    BY <2>4, VisibleSame DEF LoadSkip
  <2>5. CASE LoadNodes(t)
    BY <2>5, VisibleSame DEF LoadNodes, BuildNodes
  <2>6. CASE LoadEdges(t)
    BY <2>6, VisibleSame DEF LoadEdges, BuildEdges
  <2>7. CASE LoadPublish(t)
    <3> DEFINE w == Home[t]
    <3>1. /\ w \in Worker /\ \A v \in Worker : v = w
          /\ pc[t] \in BuildPcs /\ lock[w] = t
          /\ pc' = [pc EXCEPT ![t] = "check"]
          /\ active' = active /\ edges' = edges
      BY <2>7 DEF LoadPublish
    <3>2. /\ loaded' = [loaded EXCEPT ![w] = TRUE]
          /\ lock' = [lock EXCEPT ![w] = NoTask]
          /\ cNodes' = [cNodes EXCEPT ![w] = rawNodes[w]]
          /\ cEdges' = [cEdges EXCEPT ![w] = Filtered(rawNodes[w], rawEdges[w])]
      BY <2>7 DEF LoadPublish, Publish
    <3>3. \A u \in Task \ {t} : pc[u] \notin BuildPcs
      BY <3>1
    <3>4. BuildLocked'
      BY <3>1, <3>2, <3>3
    <3>5. ASSUME \A u \in Task : ~Pending(u)'
          PROVE  cNodes'[w] = active' /\ cEdges'[w] = VisibleEdges'
      <4>1. \A u \in Task : ~Pending(u)
        BY <3>1, <3>5
      <4>2. rawNodes[w] = active /\ rawEdges[w] = Pairs(edges)
        BY <3>1, <4>1, <2>7 DEF LoadPublish
      <4>3. cEdges'[w] = VisibleEdges
        BY <3>1, <3>2, <4>2 DEF VisibleEdges
      <4> QED
        BY <3>1, <3>2, <4>2, <4>3, VisibleSame
    <3>6. SnapshotCurrent'
      BY <3>1, <3>2, <3>5
    <3> QED
      BY <3>4, <3>6
  <2> QED
    BY <1>7, <2>1, <2>2, <2>3, <2>4, <2>5, <2>6, <2>7 DEF Rebuild
<1>8. ASSUME NEW t \in Task, Fail(t)
      PROVE  Good'
  BY <1>8 DEF Fail
<1>9. ASSUME NEW w \in Worker, WorkerRestart(w)
      PROVE  Good'
  BY <1>9 DEF WorkerRestart
<1>10. CASE UNCHANGED vars
  <2>1. /\ active' = active /\ edges' = edges /\ pc' = pc /\ loaded' = loaded
        /\ cNodes' = cNodes /\ cEdges' = cEdges /\ lock' = lock
        /\ rawNodes' = rawNodes /\ rawEdges' = rawEdges
    BY <1>10 DEF vars
  <2>2. BuildLocked'
    BY <2>1
  <2>3. VisibleEdges' = VisibleEdges /\ Pairs(edges)' = Pairs(edges)
    BY <2>1, VisibleSame
  <2>4. SnapshotCurrent'
    BY <2>1, <2>3
  <2> QED
    BY <2>2, <2>4
<1>11. ASSUME NEW t \in Task, Channels(t)
       PROVE  Good'
  <2>1. ASSUME NEW n \in NodeId, NEW on \in BOOLEAN,
               FindForChannel(t, n, on)
        PROVE  Good'
    BY <2>1, VisibleSame DEF FindForChannel
  <2>2. ASSUME NEW id \in RowId, NEW on \in BOOLEAN,
               FindChannel(t, id, on)
        PROVE  Good'
    BY <2>2, VisibleSame DEF FindChannel
  <2>3. CASE InsertChannel(t)
    BY <2>3, VisibleSame, RequestFields DEF InsertChannel
  <2>4. CASE WriteChannel(t)
    BY <2>4, VisibleSame, RequestFields DEF WriteChannel, SetEnabled, SetDisabled
  <2> QED
    BY <1>11, <2>1, <2>2, <2>3, <2>4 DEF Channels
<1> QED
  BY <1>1, <1>2, <1>3, <1>4, <1>5, <1>6, <1>7, <1>8, <1>9, <1>10, <1>11
     DEF Next

(* However many handlers of a worker write and rebuild at the same time,   *)
(* once none is between its write and the end of its refresh, the worker   *)
(* serves exactly the active nodes and the edges between them.             *)
THEOREM CacheMatchesDatabaseHolds ==
  ASSUME OneWorkerOnly, ~CanFail
  PROVE  Spec => []CacheMatchesDatabase
<1>1. Init => CacheInv
  BY CacheInit
<1>2. CacheInv /\ [Next]_vars => CacheInv'
  BY CacheStep
<1>3. CacheInv => CacheMatchesDatabase
  BY HomeAssumption DEF CacheInv, TypeInv, TypeOK, BuildLocked, SnapshotCurrent, Pending,
     BuildPcs, LoadPcs, OneWorkerOnly, CacheMatchesDatabase, Clean
<1> QED
  BY <1>1, <1>2, <1>3, PTL DEF Spec
=============================================================================
