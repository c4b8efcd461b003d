----------------------- MODULE GraphValidationProofs -----------------------
(***************************************************************************)
(* On every graph: the verdict of validate_no_cycle_from is right (the     *)
(* theorems about Spec); so is the outcome of validate_existing_graph (the *)
(* theorems about ColoringSpec); and together they refuse runs on cyclic   *)
(* snapshots only, which accepted edges never lead to (ValidationSpec).    *)
(***************************************************************************)
EXTENDS GraphValidation, GraphTheoryProofs, SequenceTheorems

(* Every edge joins two nodes.                                             *)
LEMMA EdgesType ==
  ASSUME TypeOK
  PROVE  /\ Edges \subseteq Node \X Node
         /\ \A n \in Node : \A i \in DOMAIN children[n] :
              children[n][i] \in Node /\ <<n, children[n][i]>> \in Edges
         /\ \A e \in Edges : \E n \in Node : \E i \in DOMAIN children[n] :
              e = <<n, children[n][i]>>
  BY DEF TypeOK, Edges, EdgesOf

(* A position among the children of a node is a number from 1.             *)
LEMMA PositionType ==
  ASSUME TypeOK
  PROVE  \A n \in Node : /\ Len(children[n]) \in Nat
                         /\ DOMAIN children[n] = 1..Len(children[n])
                         /\ \A i \in DOMAIN children[n] : i \in Nat
<1> SUFFICES ASSUME NEW n \in Node
             PROVE  /\ Len(children[n]) \in Nat
                    /\ DOMAIN children[n] = 1..Len(children[n])
                    /\ \A i \in DOMAIN children[n] : i \in Nat
  OBVIOUS
<1>1. children[n] \in Seq(Node)
  BY DEF TypeOK
<1>2. QED
  BY <1>1

(* A popped node leaves the others seen.                                   *)
LEMMA PopSeen ==
  ASSUME TypeOK, Pop, stack # <<>>
  PROVE  /\ stack' \in Seq(Node) /\ Top \in Node
         /\ {stack[i] : i \in DOMAIN stack}
              = {stack'[i] : i \in DOMAIN stack'} \cup {Top}
<1>1. /\ Len(stack) \in Nat \ {0} /\ DOMAIN stack = 1..Len(stack)
      /\ \A i \in 1..Len(stack) : stack[i] \in Node
  BY DEF TypeOK
<1>2. /\ stack' \in Seq(Node)
      /\ DOMAIN stack' = 1..(Len(stack) - 1)
      /\ \A i \in 1..(Len(stack) - 1) : stack'[i] = stack[i]
  BY <1>1 DEF TypeOK, Pop
<1>3. 1..Len(stack) = 1..(Len(stack) - 1) \cup {Len(stack)}
  BY <1>1
<1>4. QED
  BY <1>1, <1>2, <1>3 DEF Top

(* Every step keeps the types.                                             *)
LEMMA TypeStep == TypeOK /\ [Next]_vars => TypeOK'
<1> SUFFICES ASSUME TypeOK, [Next]_vars PROVE TypeOK'
  OBVIOUS
<1> USE DEF graph, Verdicts
<1>1. CASE PopVisited
  BY <1>1, PopSeen DEF PopVisited, Popping, TypeOK
<1>2. CASE PopParent
  BY <1>2, PopSeen DEF PopParent, Popping, TypeOK
<1>3. CASE PopNew
  BY <1>3, PopSeen DEF PopNew, Popping, TypeOK
<1>4. CASE PushChild
  <2>1. next \in DOMAIN children[node] /\ children[node][next] \in Node
    BY <1>4 DEF PushChild, Expanded, TypeOK
  <2>2. QED
    BY <1>4, <2>1 DEF PushChild, TypeOK
<1>5. CASE SkipChild
  BY <1>5 DEF SkipChild, TypeOK
<1>6. CASE Accept
  BY <1>6 DEF Accept, TypeOK
<1>7. CASE UNCHANGED vars
  BY <1>7 DEF vars, TypeOK
<1>8. QED
  BY <1>1, <1>2, <1>3, <1>4, <1>5, <1>6, <1>7 DEF Next

(* The search starts with the child on the stack and nothing visited.      *)
LEMMA InitIInv == Init => IInv
<1> SUFFICES ASSUME Init PROVE IInv
  OBVIOUS
<1>1. TypeOK
  BY GraphsAssumption DEF Init, TypeOK, Verdicts
<1>2. Seen = {child}
  BY DEF Init, Seen
<1>3. Reaches(Node, Edges, child, child)
  BY <1>1, ReachesSelf DEF TypeOK
<1>4. SeenInv
  BY <1>2, <1>3 DEF Init, SeenInv, Expanded
<1>5. QED
  BY <1>1, <1>4 DEF IInv

(* One iteration keeps the invariant: what is popped stays seen, what is   *)
(* pushed is a child of a visited node.                                    *)
LEMMA NextIInv == IInv /\ [Next]_vars => IInv'
<1> SUFFICES ASSUME IInv, [Next]_vars PROVE IInv'
  OBVIOUS
<1>a. TypeOK /\ SeenInv /\ TypeOK'
  BY TypeStep DEF IInv
<1> SUFFICES SeenInv'
  BY <1>a DEF IInv
<1>b. ASSUME UNCHANGED graph PROVE Edges' = Edges /\ child' = child
  BY <1>b DEF graph, Edges, EdgesOf
<1>1. CASE PopVisited
  <2>1. Seen' = Seen
    BY <1>a, <1>1, PopSeen DEF PopVisited, Popping, Seen
  <2>2. QED
    BY <1>a, <1>b, <1>1, <2>1 DEF PopVisited, Popping, SeenInv, Expanded, graph
<1>2. CASE PopParent
  <2>1. Seen' = Seen
    BY <1>a, <1>2, PopSeen DEF PopParent, Popping, Seen
  <2>2. QED
    BY <1>a, <1>b, <1>2, <2>1 DEF PopParent, Popping, SeenInv, Expanded, graph
<1>3. CASE PopNew
  <2>1. Seen' = Seen /\ Top \in Node
    BY <1>a, <1>3, PopSeen DEF PopNew, Popping, Seen
  <2>2. /\ verdict = "searching" /\ verdict' = verdict /\ UNCHANGED graph
        /\ visited' = visited \cup {Top} /\ node' = Top /\ next' = 1
        /\ Top # parent /\ Top \notin visited /\ Expanded
    BY <1>3 DEF PopNew, Popping
  <2>3. ASSUME NEW n \in visited', NEW i \in DOMAIN children[n], n # node' \/ i < next'
        PROVE  children[n][i] \in Seen
    <3>0. n \in Node /\ i \in 1..Len(children[n]) /\ Len(children[n]) \in Nat
      <4>1. visited \subseteq Node
        BY <1>a DEF TypeOK
      <4>2. QED
        BY <1>a, <2>1, <2>2, <2>3, <4>1, PositionType
    <3>1. n # Top
      BY <2>2, <2>3, <3>0
    <3>2. n \in visited /\ (n # node \/ i < next)
      <4>1. next \in Nat
        BY <1>a DEF TypeOK
      <4>2. n = node => i < next
        BY <2>2, <3>0, <4>1 DEF Expanded
      <4>3. QED
        BY <2>2, <2>3, <3>1, <4>2
    <3>3. QED
      BY <1>a, <2>2, <3>2 DEF SeenInv
  <2>4. QED
    BY <1>a, <1>b, <2>1, <2>2, <2>3 DEF SeenInv, graph
<1>4. CASE PushChild
  <2> DEFINE m == children[node][next]
  <2>1. /\ verdict = "searching" /\ verdict' = verdict /\ UNCHANGED graph
        /\ visited' = visited /\ node' = node /\ next' = next + 1
        /\ next \in DOMAIN children[node] /\ m \in Node /\ ~Expanded
    BY <1>a, <1>4 DEF PushChild, Expanded, TypeOK
  <2>2. Seen' = Seen \cup {m}
    <3>1. /\ DOMAIN stack' = 1..(Len(stack) + 1) /\ Len(stack) \in Nat
          /\ DOMAIN stack = 1..Len(stack) /\ stack'[Len(stack) + 1] = m
          /\ \A i \in 1..Len(stack) : stack'[i] = stack[i]
      <4>1. stack' = Append(stack, m) /\ stack \in Seq(Node)
        BY <1>a, <1>4 DEF PushChild, TypeOK
      <4> HIDE DEF m
      <4>2. QED
        BY <2>1, <4>1
    <3>2. 1..(Len(stack) + 1) = 1..Len(stack) \cup {Len(stack) + 1}
      BY <3>1
    <3>3. QED
      BY <2>1, <3>1, <3>2 DEF Seen
  <2>3. node \in visited /\ node \in Seen
    BY <1>a, <2>1 DEF SeenInv, Seen
  <2>4. Reaches(Node, Edges, child, m)
    BY <1>a, <2>1, <2>3, EdgesType, ReachesStep DEF SeenInv, TypeOK
  <2>5. \A n \in visited : \A i \in DOMAIN children[n] :
          n # node \/ i < next + 1 => children[n][i] \in Seen \cup {m}
    <3> SUFFICES ASSUME NEW n \in visited, NEW i \in DOMAIN children[n],
                        n # node \/ i < next + 1
                 PROVE  children[n][i] \in Seen \cup {m}
      OBVIOUS
    <3>0. i \in Nat /\ next \in Nat
      <4>1. next \in Nat /\ visited \subseteq Node
        BY <1>a DEF TypeOK
      <4>2. QED
        BY <1>a, <4>1, PositionType
    <3>1. n # node \/ i < next \/ i = next
      BY <3>0
    <3>2. QED
      BY <1>a, <2>1, <3>1 DEF SeenInv
  <2>6. QED
    BY <1>a, <1>b, <2>1, <2>2, <2>3, <2>4, <2>5 DEF SeenInv, graph
<1>5. CASE SkipChild
  <2>1. /\ verdict = "searching" /\ verdict' = verdict /\ UNCHANGED graph
        /\ visited' = visited /\ node' = node /\ next' = next + 1 /\ Seen' = Seen
        /\ children[node][next] \in Seen /\ ~Expanded
    BY <1>5 DEF SkipChild, Seen
  <2>2. \A n \in visited : \A i \in DOMAIN children[n] :
          n # node \/ i < next + 1 => children[n][i] \in Seen
    <3> SUFFICES ASSUME NEW n \in visited, NEW i \in DOMAIN children[n],
                        n # node \/ i < next + 1
                 PROVE  children[n][i] \in Seen
      OBVIOUS
    <3>0. i \in Nat /\ next \in Nat
      <4>1. next \in Nat /\ visited \subseteq Node
        BY <1>a DEF TypeOK
      <4>2. QED
        BY <1>a, <4>1, PositionType
    <3>1. n # node \/ i < next \/ i = next
      BY <3>0
    <3>2. QED
      BY <1>a, <2>1, <3>1 DEF SeenInv
  <2>3. node \in visited
    BY <1>a, <2>1 DEF SeenInv
  <2>4. QED
    BY <1>a, <1>b, <2>1, <2>2, <2>3 DEF SeenInv, graph
<1>6. CASE Accept
  BY <1>a, <1>b, <1>6 DEF Accept, SeenInv, Seen, Expanded, graph
<1>7. CASE UNCHANGED vars
  BY <1>a, <1>b, <1>7 DEF vars, SeenInv, Seen, Expanded, graph
<1>8. QED
  BY <1>1, <1>2, <1>3, <1>4, <1>5, <1>6, <1>7 DEF Next

(* When the search ends with nothing left to pop, the visited nodes are    *)
(* closed, so a new edge into them from outside closes no cycle.           *)
LEMMA IInvVerdict == IInv => VerdictCorrect
<1> SUFFICES ASSUME IInv PROVE VerdictCorrect
  OBVIOUS
<1>a. TypeOK /\ SeenInv /\ Edges \subseteq Node \X Node
  BY EdgesType DEF IInv
<1>1. ASSUME verdict = "accepted"
      PROVE  /\ ~Reaches(Node, Edges, child, parent)
             /\ Acyclic(Node, Edges) => Acyclic(Node, WithEdge)
  <2>1. Seen = visited
    BY <1>a, <1>1 DEF SeenInv, Seen
  <2>2. \A n \in visited : \A i \in DOMAIN children[n] : children[n][i] \in visited
    <3> SUFFICES ASSUME NEW n \in visited, NEW i \in DOMAIN children[n]
                 PROVE  children[n][i] \in visited
      OBVIOUS
    <3>1. n # node \/ i < next
      BY <1>a, <1>1 DEF SeenInv, Expanded, TypeOK
    <3>2. QED
      BY <1>a, <1>1, <2>1, <3>1 DEF SeenInv
  <2>3. Closed(Edges, visited)
    <3> SUFFICES ASSUME NEW e \in Edges, e[1] \in visited PROVE e[2] \in visited
      BY DEF Closed
    <3>1. PICK n \in Node : \E i \in DOMAIN children[n] :
            e = <<n, children[n][i]>>
      BY <1>a, EdgesType
    <3>2. QED
      BY <2>2, <3>1
  <2>4. child \in visited /\ parent \notin visited /\ visited \in SUBSET Node
    BY <1>a, <1>1, <2>1 DEF SeenInv, TypeOK
  <2>5. ~Reaches(Node, Edges, child, parent)
    BY <2>3, <2>4 DEF Reaches
  <2>6. ASSUME Acyclic(Node, Edges) PROVE Acyclic(Node, WithEdge)
    BY <2>3, <2>4, <2>6, AddEdgeAcyclic DEF WithEdge
  <2>7. QED
    BY <2>5, <2>6
<1>2. ASSUME verdict \in {"self_reference", "cycle"}
      PROVE  Reaches(Node, Edges, child, parent) /\ ~Acyclic(Node, WithEdge)
  <2>1. parent \in Node /\ child \in Node /\ <<parent, child>> \in WithEdge
        /\ WithEdge \subseteq Node \X Node
    BY <1>a DEF TypeOK, WithEdge
  <2>2. Reaches(Node, Edges, child, parent)
    <3>1. CASE verdict = "self_reference"
      BY <1>a, <2>1, <3>1, ReachesSelf DEF SeenInv
    <3>2. CASE verdict = "cycle"
      BY <1>a, <3>2 DEF SeenInv, Seen
    <3>3. QED
      BY <1>2, <3>1, <3>2
  <2>3. Reaches(Node, WithEdge, child, parent)
    BY <2>2 DEF Reaches, Closed, WithEdge
  <2>4. QED
    BY <2>1, <2>2, <2>3, BackEdgeCyclic
<1>3. QED
  BY <1>1, <1>2 DEF VerdictCorrect

(* The state of the search is always of its type.                          *)
THEOREM TypeCorrect == Spec => []TypeOK
<1>1. IInv => TypeOK
  BY DEF IInv
<1>2. QED
  BY <1>1, InitIInv, NextIInv, PTL DEF Spec

(* On every graph, cyclic ones included, for every pair of nodes and every *)
(* order of the children: an edge that is accepted closes no cycle, and    *)
(* one that is rejected would have.                                        *)
THEOREM VerdictIsCorrect == Spec => []VerdictCorrect
  BY InitIInv, NextIInv, IInvVerdict, PTL DEF Spec

-----------------------------------------------------------------------------
(* The state in which validate_existing_graph starts, on any snapshot.     *)
Fresh ==
  /\ served \in [Node -> Seq(Node)]
  /\ starts = Node
  /\ color = [n \in Node |-> "white"]
  /\ path = <<>>
  /\ outcome = "searching"

(* Every edge joins two nodes.                                             *)
LEMMA ServedEdgesType ==
  ASSUME ColoringTypeOK
  PROVE  /\ ServedEdges \subseteq Node \X Node
         /\ \A n \in Node : \A i \in DOMAIN served[n] :
              served[n][i] \in Node /\ <<n, served[n][i]>> \in ServedEdges
         /\ \A e \in ServedEdges : \E n \in Node : \E i \in DOMAIN served[n] :
              e = <<n, served[n][i]>>
  BY DEF ColoringTypeOK, ServedEdges, EdgesOf

(* The frames of a path that is not empty.                                *)
LEMMA PathType ==
  ASSUME ColoringTypeOK, path # <<>>
  PROVE  /\ Len(path) \in Nat \ {0} /\ DOMAIN path = 1..Len(path)
         /\ \A i \in DOMAIN path :
              path[i].node \in Node /\ path[i].next \in Nat \ {0}
         /\ TopFrame.node \in Node /\ TopFrame.next \in Nat \ {0}
         /\ ~Exhausted => /\ TopFrame.next \in DOMAIN served[TopFrame.node]
                          /\ Child \in Node
<1>1. /\ Len(path) \in Nat \ {0} /\ DOMAIN path = 1..Len(path)
      /\ \A i \in DOMAIN path : path[i] \in Frame
  BY DEF ColoringTypeOK
<1>2. /\ \A i \in DOMAIN path :
           path[i].node \in Node /\ path[i].next \in Nat \ {0}
      /\ TopFrame.node \in Node /\ TopFrame.next \in Nat \ {0}
  BY <1>1 DEF TopFrame, Frame
<1>3. served[TopFrame.node] \in Seq(Node)
  BY <1>2 DEF ColoringTypeOK
<1>4. ~Exhausted => TopFrame.next \in DOMAIN served[TopFrame.node]
  BY <1>2, <1>3 DEF Exhausted
<1>5. QED
  BY <1>1, <1>2, <1>3, <1>4 DEF Child

(* What the three ways of changing the path leave in it.                  *)
LEMMA AdvanceFrames ==
  ASSUME NEW s \in Seq(Frame), s # <<>>, NEW t, t = Advance(s)
  PROVE  /\ t \in Seq(Frame)
         /\ Len(t) = Len(s) /\ DOMAIN t = DOMAIN s
         /\ \A i \in DOMAIN s :
              /\ t[i].node = s[i].node
              /\ t[i].next = IF i = Len(s) THEN s[i].next + 1 ELSE s[i].next
<1>1. /\ Len(s) \in Nat \ {0} /\ DOMAIN s = 1..Len(s)
      /\ \A i \in DOMAIN s : s[i] \in Frame
  OBVIOUS
<1>2. \A i \in DOMAIN s :
        t[i] = IF i = Len(s) THEN [s[i] EXCEPT !.next = @ + 1] ELSE s[i]
  BY <1>1 DEF Advance
<1>3. /\ \A i \in DOMAIN s : t[i] \in Frame
      /\ \A i \in DOMAIN s :
           /\ t[i].node = s[i].node
           /\ t[i].next = IF i = Len(s) THEN s[i].next + 1 ELSE s[i].next
  <2> SUFFICES ASSUME NEW i \in DOMAIN s
               PROVE  /\ t[i] \in Frame /\ t[i].node = s[i].node
                      /\ t[i].next = IF i = Len(s) THEN s[i].next + 1
                                                   ELSE s[i].next
    OBVIOUS
  <2>1. s[i] \in Frame
    BY <1>1
  <2>2. CASE i = Len(s)
    <3>1. /\ s[i] = [node |-> s[i].node, next |-> s[i].next]
          /\ s[i].node \in Node /\ s[i].next \in Nat \ {0}
      BY <2>1 DEF Frame
    <3>2. t[i] = [s[i] EXCEPT !.next = @ + 1]
      BY <1>2, <2>2
    <3>3. t[i] = [node |-> s[i].node, next |-> s[i].next + 1]
      BY <3>1, <3>2
    <3>4. QED
      BY <2>2, <3>1, <3>3 DEF Frame
  <2>3. CASE i # Len(s)
    BY <1>2, <2>1, <2>3
  <2>4. QED
    BY <2>2, <2>3
<1>4. t = [i \in 1..Len(s) |-> t[i]]
  BY <1>1 DEF Advance
<1>5. t \in Seq(Frame) /\ Len(t) = Len(s)
  BY <1>1, <1>3, <1>4
<1>6. QED
  BY <1>1, <1>3, <1>5

(* What a descent does to the frames of the path.                         *)
LEMMA PushFrames ==
  ASSUME NEW s \in Seq(Frame), s # <<>>, NEW f \in Frame, NEW t,
         t = Append(Advance(s), f)
  PROVE  /\ t \in Seq(Frame)
         /\ Len(t) = Len(s) + 1 /\ DOMAIN t = 1..(Len(s) + 1)
         /\ t[Len(s) + 1] = f
         /\ \A i \in DOMAIN s :
              /\ t[i].node = s[i].node
              /\ t[i].next = IF i = Len(s) THEN s[i].next + 1 ELSE s[i].next
<1>1. PICK r : r = Advance(s)
  OBVIOUS
<1>2. /\ r \in Seq(Frame) /\ Len(r) = Len(s) /\ DOMAIN r = DOMAIN s
      /\ \A i \in DOMAIN s :
           /\ r[i].node = s[i].node
           /\ r[i].next = IF i = Len(s) THEN s[i].next + 1 ELSE s[i].next
  BY <1>1, AdvanceFrames
<1>3. t = Append(r, f)
  BY <1>1
<1>4. /\ t \in Seq(Frame) /\ Len(t) = Len(r) + 1
      /\ t[Len(r) + 1] = f /\ \A i \in 1..Len(r) : t[i] = r[i]
  BY <1>2, <1>3, AppendProperties
<1>5. Len(s) \in Nat /\ DOMAIN s = 1..Len(s) /\ DOMAIN t = 1..Len(t)
  BY <1>4
<1>6. QED
  BY <1>2, <1>4, <1>5

(* What a pop leaves of them.                                              *)
LEMMA PopFrames ==
  ASSUME NEW s \in Seq(Frame), s # <<>>, NEW t, t = SubSeq(s, 1, Len(s) - 1)
  PROVE  /\ t \in Seq(Frame)
         /\ Len(t) = Len(s) - 1 /\ DOMAIN t = 1..(Len(s) - 1)
         /\ \A i \in DOMAIN t : i \in DOMAIN s /\ t[i] = s[i]
<1>1. /\ Len(s) \in Nat \ {0} /\ DOMAIN s = 1..Len(s)
      /\ \A i \in 1..Len(s) : s[i] \in Frame
  OBVIOUS
<1>2. t = [i \in 1..(Len(s) - 1) |-> s[i]]
  BY <1>1
<1>3. t \in Seq(Frame) /\ Len(t) = Len(s) - 1
  BY <1>1, <1>2
<1>4. QED
  BY <1>1, <1>2, <1>3

(* Every step keeps the types.                                             *)
LEMMA ColoringTypeStep ==
  ColoringTypeOK /\ [ColoringNext]_coloringVars => ColoringTypeOK'
<1> SUFFICES ASSUME ColoringTypeOK, [ColoringNext]_coloringVars
             PROVE  ColoringTypeOK'
  OBVIOUS
<1> USE DEF Colors
<1>1. ASSUME NEW s \in Node, SkipStart(s) PROVE ColoringTypeOK'
  BY <1>1 DEF SkipStart, ColoringTypeOK
<1>2. ASSUME NEW s \in Node, StartFrom(s) PROVE ColoringTypeOK'
  <2>1. [node |-> s, next |-> 1] \in Frame
    BY DEF Frame
  <2>2. QED
    BY <1>2, <2>1 DEF StartFrom, ColoringTypeOK
<1>3. CASE Blacken
  BY <1>3, PopFrames DEF Blacken, Walking, ColoringTypeOK
<1>4. CASE FindCycle
  BY <1>4 DEF FindCycle, ColoringTypeOK
<1>5. CASE SkipBlack
  BY <1>5, AdvanceFrames DEF SkipBlack, Walking, ColoringTypeOK
<1>6. CASE Descend
  <2>1. [node |-> Child, next |-> 1] \in Frame
    BY <1>6, PathType DEF Descend, Walking, Frame
  <2>2. path' \in Seq(Frame)
    BY <1>6, <2>1, PushFrames DEF Descend, Walking, ColoringTypeOK
  <2>3. QED
    BY <1>6, <2>2 DEF Descend, ColoringTypeOK
<1>7. CASE Finish
  BY <1>7 DEF Finish, ColoringTypeOK
<1>8. CASE UNCHANGED coloringVars
  BY <1>8 DEF coloringVars, ColoringTypeOK
<1>9. QED
  BY <1>1, <1>2, <1>3, <1>4, <1>5, <1>6, <1>7, <1>8 DEF ColoringNext

(* The inductive invariant holds on a white graph of any form.             *)
LEMMA FreshIInv == Fresh => ColoringIInv
<1> SUFFICES ASSUME Fresh PROVE ColoringIInv
  OBVIOUS
<1>1. ColoringTypeOK
  BY DEF Fresh, ColoringTypeOK, Colors
<1>2. Black = {}
  BY DEF Fresh, Black
<1>3. Acyclic(Black, ServedEdges)
  BY <1>2 DEF Acyclic
<1>4. DOMAIN path = {}
  BY DEF Fresh
<1>5. PathInv /\ BlackInv /\ DoneInv
  BY <1>2, <1>3, <1>4 DEF Fresh, PathInv, BlackInv, DoneInv
<1>6. QED
  BY <1>1, <1>5 DEF ColoringIInv

(* The inductive invariant holds at the start.                             *)
LEMMA ColoringInitIInv == ColoringInit => ColoringIInv
  BY FreshIInv, GraphsAssumption DEF ColoringInit, Fresh

(* The gray nodes stay the path of the search.                             *)
LEMMA PathStep ==
  ASSUME ColoringTypeOK, PathInv, [ColoringNext]_coloringVars
  PROVE  PathInv'
<1>a. ASSUME UNCHANGED served PROVE ServedEdges' = ServedEdges
  BY <1>a DEF ServedEdges, EdgesOf
<1>1. ASSUME NEW s \in Node, SkipStart(s) PROVE PathInv'
  BY <1>a, <1>1 DEF SkipStart, PathInv
<1>2. ASSUME NEW s \in Node, StartFrom(s) PROVE PathInv'
  <2>1. /\ DOMAIN path = {} /\ DOMAIN path' = {1} /\ path'[1].node = s
        /\ UNCHANGED served
    BY <1>2 DEF StartFrom
  <2>2. \A n \in Node : color'[n] = "gray" <=> n = s
    BY <1>2, <2>1 DEF StartFrom, PathInv, ColoringTypeOK
  <2>3. Reaches(Node, ServedEdges, s, s)
    BY ReachesSelf
  <2>4. QED
    BY <1>a, <2>1, <2>2, <2>3 DEF PathInv
<1>3. CASE Blacken
  <2>1. /\ Len(path) \in DOMAIN path /\ DOMAIN path = 1..Len(path)
        /\ DOMAIN path' = DOMAIN path \ {Len(path)}
        /\ \A i \in DOMAIN path' : path'[i] = path[i]
        /\ UNCHANGED served
    BY <1>3, PathType, PopFrames DEF Blacken, Walking, ColoringTypeOK
  <2>2. \A n \in Node :
          color'[n] = IF n = TopFrame.node THEN "black" ELSE color[n]
    BY <1>3 DEF Blacken, ColoringTypeOK
  <2>3. \A n \in Node :
          color'[n] = "gray" <=> \E i \in DOMAIN path' : path'[i].node = n
    BY <2>1, <2>2 DEF PathInv, TopFrame
  <2>4. QED
    BY <1>a, <2>1, <2>3 DEF PathInv
<1>4. CASE FindCycle
  BY <1>a, <1>4 DEF FindCycle, PathInv
<1>5. CASE SkipBlack
  <2>1. /\ DOMAIN path' = DOMAIN path
        /\ \A i \in DOMAIN path : path'[i].node = path[i].node
        /\ UNCHANGED <<served, color>>
    BY <1>5, AdvanceFrames DEF SkipBlack, Walking, ColoringTypeOK
  <2>2. QED
    BY <1>a, <2>1 DEF PathInv
<1>6. CASE Descend
  <2> DEFINE L == Len(path)
  <2>1. /\ L \in DOMAIN path /\ DOMAIN path = 1..L /\ L \in Nat
        /\ TopFrame = path[L] /\ TopFrame.node \in Node /\ Child \in Node
        /\ \A i \in DOMAIN path : path[i].node \in Node
        /\ <<TopFrame.node, Child>> \in ServedEdges
    <3>1. path # <<>> /\ ~Exhausted
      BY <1>6 DEF Descend, Walking
    <3>2. TopFrame.next \in DOMAIN served[TopFrame.node]
      BY <3>1, PathType
    <3>3. <<TopFrame.node, Child>> \in ServedEdges
      BY <3>1, <3>2, PathType, ServedEdgesType DEF Child
    <3>4. QED
      BY <3>1, <3>3, PathType DEF TopFrame
  <2>2. /\ DOMAIN path' = DOMAIN path \cup {L + 1}
        /\ path'[L + 1].node = Child
        /\ \A i \in DOMAIN path : path'[i].node = path[i].node
    <3>1. [node |-> Child, next |-> 1] \in Frame
      BY <2>1 DEF Frame
    <3>2. /\ DOMAIN path' = 1..(L + 1)
          /\ path'[L + 1] = [node |-> Child, next |-> 1]
          /\ \A i \in DOMAIN path : path'[i].node = path[i].node
      <4>1. /\ path \in Seq(Frame) /\ path # <<>>
            /\ path' = Append(Advance(path), [node |-> Child, next |-> 1])
        BY <1>6 DEF Descend, Walking, ColoringTypeOK
      <4>2. QED
        BY <3>1, <4>1, PushFrames
    <3>3. QED
      BY <2>1, <3>2
  <2>3. /\ UNCHANGED served /\ color[Child] = "white"
        /\ \A n \in Node : color'[n] = IF n = Child THEN "gray" ELSE color[n]
    BY <1>6 DEF Descend, ColoringTypeOK
  <2>4. \A i \in DOMAIN path : path[i].node # Child
    BY <2>1, <2>3 DEF PathInv
  <2>5. \A n \in Node :
          color'[n] = "gray" <=> \E i \in DOMAIN path' : path'[i].node = n
    BY <2>1, <2>2, <2>3 DEF PathInv
  <2>6. \A i \in DOMAIN path : Reaches(Node, ServedEdges, path[i].node, Child)
    <3>1. ASSUME NEW i \in DOMAIN path
          PROVE  Reaches(Node, ServedEdges, path[i].node, TopFrame.node)
      BY <2>1, <3>1 DEF PathInv
    <3>2. QED
      BY <2>1, <3>1, ReachesStep
  <2>7. Reaches(Node, ServedEdges, Child, Child)
    BY <2>1, ReachesSelf
  <2>8. ASSUME NEW i \in DOMAIN path', NEW j \in DOMAIN path'
        PROVE  /\ path'[i].node = path'[j].node => i = j
               /\ i <= j =>
                    Reaches(Node, ServedEdges, path'[i].node, path'[j].node)
    <3>1. CASE i \in DOMAIN path /\ j \in DOMAIN path
      BY <2>2, <3>1 DEF PathInv
    <3>2. CASE i = L + 1 /\ j = L + 1
      BY <2>2, <2>7, <3>2
    <3>3. CASE i \in DOMAIN path /\ j = L + 1
      BY <2>2, <2>4, <2>6, <3>3
    <3>4. CASE i = L + 1 /\ j \in DOMAIN path
      BY <2>1, <2>2, <2>4, <3>4
    <3>5. QED
      BY <2>2, <3>1, <3>2, <3>3, <3>4
  <2>9. QED
    BY <1>a, <2>3, <2>5, <2>8 DEF PathInv
<1>7. CASE Finish
  BY <1>a, <1>7 DEF Finish, PathInv
<1>8. CASE UNCHANGED coloringVars
  BY <1>a, <1>8 DEF coloringVars, PathInv
<1>9. QED
  BY <1>1, <1>2, <1>3, <1>4, <1>5, <1>6, <1>7, <1>8 DEF ColoringNext

(* A node with only black served can be blackened: it has no edge into   *)
(* itself or to a node that is not black.                                  *)
LEMMA AcyclicGrows ==
  ASSUME NEW E, NEW B, NEW n, n \notin B, Acyclic(B, E),
         \A m \in B \cup {n} : \A k : <<m, k>> \in E => k \in B
  PROVE  Acyclic(B \cup {n}, E)
<1> SUFFICES ASSUME NEW S \in SUBSET (B \cup {n}), S # {}
             PROVE  \E a \in S : \A b \in S : <<a, b>> \notin E
  BY DEF Acyclic
<1>1. CASE S = {n}
  BY <1>1
<1>2. CASE S # {n}
  <2>1. S \cap B # {}
    BY <1>2
  <2>2. PICK a \in S \cap B : \A b \in S \cap B : <<a, b>> \notin E
    BY <2>1 DEF Acyclic
  <2>3. QED
    BY <2>2
<1>3. QED
  BY <1>1, <1>2

(* The black part of the graph is closed and acyclic.                      *)
LEMMA BlackStep ==
  ASSUME ColoringTypeOK, PathInv, BlackInv, [ColoringNext]_coloringVars
  PROVE  BlackInv'
<1>a. ASSUME UNCHANGED served PROVE ServedEdges' = ServedEdges
  BY <1>a DEF ServedEdges, EdgesOf
<1>1. ASSUME NEW s \in Node, SkipStart(s) PROVE BlackInv'
  BY <1>a, <1>1 DEF SkipStart, BlackInv, Black
<1>2. ASSUME NEW s \in Node, StartFrom(s) PROVE BlackInv'
  <2>1. DOMAIN path' = {1} /\ path'[1].next = 1 /\ path'[1].node = s
        /\ UNCHANGED served
    BY <1>2 DEF StartFrom
  <2>2. Black' = Black
    BY <1>2 DEF StartFrom, Black, ColoringTypeOK
  <2>3. \A i \in DOMAIN served[s] : ~(i < 1)
    BY DEF ColoringTypeOK
  <2>4. QED
    BY <1>a, <2>1, <2>2, <2>3 DEF BlackInv
<1>3. CASE Blacken
  <2> DEFINE L == Len(path)
             n == TopFrame.node
  <2>1. /\ L \in DOMAIN path /\ DOMAIN path = 1..L /\ L \in Nat \ {0}
        /\ TopFrame = path[L] /\ n \in Node /\ TopFrame.next \in Nat
        /\ TopFrame.next > Len(served[n]) /\ UNCHANGED served
    BY <1>3, PathType DEF Blacken, Walking, Exhausted, TopFrame
  <2>2. /\ Len(path') = L - 1 /\ DOMAIN path' = 1..(L - 1)
        /\ \A i \in DOMAIN path' : i \in DOMAIN path /\ path'[i] = path[i]
    <3>1. /\ path \in Seq(Frame) /\ path # <<>>
          /\ path' = SubSeq(path, 1, L - 1)
      BY <1>3 DEF Blacken, Walking, ColoringTypeOK
    <3>2. QED
      BY <3>1, PopFrames
  <2>3. color[n] = "gray"
    BY <2>1 DEF PathInv
  <2>4. Black' = Black \cup {n} /\ n \notin Black
    BY <1>3, <2>1, <2>3 DEF Blacken, Black, ColoringTypeOK
  <2>5. \A i \in DOMAIN served[n] : served[n][i] \in Black
    <3> SUFFICES ASSUME NEW i \in DOMAIN served[n]
                 PROVE  served[n][i] \in Black
      OBVIOUS
    <3>1. i < TopFrame.next
      <4>1. served[n] \in Seq(Node)
        BY <2>1 DEF ColoringTypeOK
      <4> HIDE DEF n
      <4>2. i \in 1..Len(served[n]) /\ Len(served[n]) \in Nat
        BY <4>1
      <4>3. QED
        BY <2>1, <4>2
    <3>2. ~(L < L)
      BY <2>1
    <3>3. QED
      BY <2>1, <3>1, <3>2 DEF BlackInv
  <2>6. \A m \in Black \cup {n} : \A i \in DOMAIN served[m] :
          served[m][i] \in Black
    BY <2>5 DEF BlackInv
  <2>7. Acyclic(Black \cup {n}, ServedEdges)
    <3>1. \A m \in Black \cup {n} : \A k :
            <<m, k>> \in ServedEdges => k \in Black
      BY <2>6, ServedEdgesType
    <3>2. QED
      BY <2>4, <3>1, AcyclicGrows DEF BlackInv
  <2>8. ASSUME NEW j \in DOMAIN path', NEW i \in DOMAIN served[path'[j].node],
               i < path'[j].next
        PROVE  \/ served[path'[j].node][i] \in Black'
               \/ /\ j < Len(path')
                  /\ path'[j + 1].node = served[path'[j].node][i]
    <3>1. /\ j \in DOMAIN path /\ path'[j] = path[j] /\ j < L
      BY <2>1, <2>2
    <3>2. \/ served[path[j].node][i] \in Black
          \/ path[j + 1].node = served[path[j].node][i]
      BY <2>8, <3>1 DEF BlackInv
    <3>3. CASE j + 1 = L
      BY <2>1, <2>4, <3>1, <3>2, <3>3
    <3>4. CASE j + 1 < L
      <4>1. j + 1 \in DOMAIN path' /\ j < Len(path')
        BY <2>1, <2>2, <3>4
      <4>2. QED
        BY <2>2, <2>4, <3>1, <3>2, <4>1
    <3>5. QED
      BY <2>1, <3>1, <3>3, <3>4
  <2>9. QED
    BY <1>a, <2>1, <2>4, <2>6, <2>7, <2>8 DEF BlackInv
<1>4. CASE FindCycle
  BY <1>a, <1>4 DEF FindCycle, BlackInv, Black
<1>5. CASE SkipBlack
  <2> DEFINE L == Len(path)
  <2>1. /\ L \in DOMAIN path /\ DOMAIN path = 1..L /\ L \in Nat \ {0}
        /\ TopFrame = path[L] /\ Child \in Black
        /\ UNCHANGED <<served, color>>
        /\ \A i \in DOMAIN path : path[i].next \in Nat
    BY <1>5, PathType DEF SkipBlack, Walking, Black, TopFrame
  <2>2. /\ Len(path') = L /\ DOMAIN path' = DOMAIN path
        /\ \A i \in DOMAIN path :
             /\ path'[i].node = path[i].node
             /\ path'[i].next = IF i = L THEN path[i].next + 1 ELSE path[i].next
    BY <1>5, AdvanceFrames DEF SkipBlack, Walking, ColoringTypeOK
  <2>3. Black' = Black
    BY <2>1 DEF Black
  <2>4. ASSUME NEW j \in DOMAIN path, NEW i \in DOMAIN served[path[j].node],
               i < path'[j].next
        PROVE  \/ served[path[j].node][i] \in Black
               \/ /\ j < L
                  /\ path[j + 1].node = served[path[j].node][i]
    <3>1. CASE i < path[j].next
      BY <3>1 DEF BlackInv
    <3>2. CASE ~(i < path[j].next)
      <4>1. j = L /\ i = path[L].next
        <5>1. i \in Nat
          BY PathType, <2>1 DEF ColoringTypeOK
        <5>2. QED
          BY <2>1, <2>2, <2>4, <3>2, <5>1
      <4>2. QED
        BY <2>1, <4>1 DEF Child
    <3>3. QED
      BY <3>1, <3>2
  <2>5. \A j \in DOMAIN path : j < L => j + 1 \in DOMAIN path
    BY <2>1
  <2>6. QED
    BY <1>a, <2>1, <2>2, <2>3, <2>4, <2>5 DEF BlackInv
<1>6. CASE Descend
  <2> DEFINE L == Len(path)
  <2>1. /\ L \in DOMAIN path /\ DOMAIN path = 1..L /\ L \in Nat \ {0}
        /\ TopFrame = path[L] /\ Child \in Node /\ color[Child] = "white"
        /\ UNCHANGED served
        /\ \A i \in DOMAIN path : path[i].next \in Nat
    BY <1>6, PathType DEF Descend, Walking, TopFrame
  <2>2. /\ Len(path') = L + 1 /\ DOMAIN path' = 1..(L + 1)
        /\ path'[L + 1] = [node |-> Child, next |-> 1]
        /\ \A i \in DOMAIN path :
             /\ path'[i].node = path[i].node
             /\ path'[i].next = IF i = L THEN path[i].next + 1 ELSE path[i].next
    <3>1. [node |-> Child, next |-> 1] \in Frame
      BY <2>1 DEF Frame
    <3>2. /\ path \in Seq(Frame) /\ path # <<>>
          /\ path' = Append(Advance(path), [node |-> Child, next |-> 1])
      BY <1>6 DEF Descend, Walking, ColoringTypeOK
    <3>3. QED
      BY <3>1, <3>2, PushFrames
  <2>3. Black' = Black
    BY <1>6, <2>1 DEF Descend, Black, ColoringTypeOK
  <2>4. ASSUME NEW j \in DOMAIN path, NEW i \in DOMAIN served[path[j].node],
               i < path'[j].next
        PROVE  \/ served[path[j].node][i] \in Black
               \/ path'[j + 1].node = served[path[j].node][i]
    <3>1. CASE i < path[j].next
      <4>1. \/ served[path[j].node][i] \in Black
            \/ j < L /\ path[j + 1].node = served[path[j].node][i]
        BY <3>1 DEF BlackInv
      <4>2. j < L => j + 1 \in DOMAIN path
        BY <2>1
      <4>3. QED
        BY <2>2, <4>1, <4>2
    <3>2. CASE ~(i < path[j].next)
      <4>1. j = L /\ i = path[L].next
        <5>1. i \in Nat
          BY PathType, <2>1 DEF ColoringTypeOK
        <5>2. QED
          BY <2>1, <2>2, <2>4, <3>2, <5>1
      <4>2. path'[L + 1].node = Child
        BY <2>2
      <4>3. QED
        BY <2>1, <4>1, <4>2 DEF Child
    <3>3. QED
      BY <3>1, <3>2
  <2>5. \A i \in DOMAIN served[Child] : ~(i < 1)
    BY <2>1 DEF ColoringTypeOK
  <2>6. \A j \in DOMAIN path : j < Len(path')
    BY <2>1, <2>2
  <2>7. ASSUME NEW j \in DOMAIN path', NEW i \in DOMAIN served[path'[j].node],
               i < path'[j].next
        PROVE  \/ served[path'[j].node][i] \in Black
               \/ /\ j < Len(path')
                  /\ path'[j + 1].node = served[path'[j].node][i]
    <3>1. CASE j \in DOMAIN path
      BY <2>2, <2>4, <2>6, <2>7, <3>1
    <3>2. CASE j = L + 1
      BY <2>2, <2>5, <2>7, <3>2
    <3>3. QED
      BY <2>1, <2>2, <3>1, <3>2
  <2>8. QED
    BY <1>a, <2>1, <2>3, <2>7 DEF BlackInv
<1>7. CASE Finish
  BY <1>a, <1>7 DEF Finish, BlackInv, Black
<1>8. CASE UNCHANGED coloringVars
  BY <1>a, <1>8 DEF coloringVars, BlackInv, Black
<1>9. QED
  BY <1>1, <1>2, <1>3, <1>4, <1>5, <1>6, <1>7, <1>8 DEF ColoringNext

(* A node the outer loop has passed is not white any more.                 *)
LEMMA DoneStep ==
  ASSUME ColoringTypeOK, DoneInv, [ColoringNext]_coloringVars
  PROVE  DoneInv'
<1> USE DEF DoneInv
<1>1. ASSUME NEW s \in Node, SkipStart(s) PROVE DoneInv'
  BY <1>1 DEF SkipStart
<1>2. ASSUME NEW s \in Node, StartFrom(s) PROVE DoneInv'
  BY <1>2 DEF StartFrom, ColoringTypeOK
<1>3. CASE Blacken
  BY <1>3 DEF Blacken, Walking, ColoringTypeOK
<1>4. CASE FindCycle
  BY <1>4 DEF FindCycle, Walking, Exhausted, Child, TopFrame
<1>5. CASE SkipBlack
  BY <1>5 DEF SkipBlack, Walking
<1>6. CASE Descend
  BY <1>6 DEF Descend, Walking, ColoringTypeOK
<1>7. CASE Finish
  BY <1>7 DEF Finish
<1>8. CASE UNCHANGED coloringVars
  BY <1>8 DEF coloringVars, Exhausted, Child, TopFrame
<1>9. QED
  BY <1>1, <1>2, <1>3, <1>4, <1>5, <1>6, <1>7, <1>8 DEF ColoringNext

(* Every turn of the loops keeps the inductive invariant.                  *)
LEMMA ColoringNextIInv ==
  ColoringIInv /\ [ColoringNext]_coloringVars => ColoringIInv'
  BY ColoringTypeStep, PathStep, BlackStep, DoneStep DEF ColoringIInv

(* The inductive invariant always holds.                                   *)
LEMMA ColoringInvariance == ColoringSpec => []ColoringIInv
  BY ColoringNextIInv, ColoringInitIInv, PTL DEF ColoringSpec

(* The inductive invariant implies that the outcome is right.              *)
LEMMA ColoringOutcome == ColoringIInv => OutcomeCorrect
<1> SUFFICES ASSUME ColoringIInv PROVE OutcomeCorrect
  OBVIOUS
<1>a. ColoringTypeOK /\ PathInv /\ BlackInv /\ DoneInv
  BY DEF ColoringIInv
<1>1. ASSUME outcome = "acyclic" PROVE Acyclic(Node, ServedEdges)
  <2>1. DOMAIN path = {} /\ \A n \in Node : color[n] # "white"
    BY <1>a, <1>1 DEF DoneInv
  <2>2. \A n \in Node : color[n] = "black"
    BY <1>a, <2>1 DEF PathInv, ColoringTypeOK, Colors
  <2>3. Black = Node
    BY <2>2 DEF Black
  <2>4. QED
    BY <1>a, <2>3 DEF BlackInv
<1>2. ASSUME outcome = "cycle" PROVE ~Acyclic(Node, ServedEdges)
  <2>1. path # <<>> /\ ~Exhausted /\ color[Child] = "gray"
    BY <1>a, <1>2 DEF DoneInv
  <2>2. /\ Len(path) \in DOMAIN path /\ DOMAIN path = 1..Len(path)
        /\ TopFrame = path[Len(path)]
        /\ TopFrame.node \in Node /\ Child \in Node
        /\ TopFrame.next \in DOMAIN served[TopFrame.node]
    BY <1>a, <2>1, PathType DEF TopFrame
  <2>3. <<TopFrame.node, Child>> \in ServedEdges
    BY <1>a, <2>2, ServedEdgesType DEF Child
  <2>4. PICK i \in DOMAIN path : path[i].node = Child
    BY <1>a, <2>1, <2>2 DEF PathInv
  <2>5. i <= Len(path)
    BY <2>2
  <2>6. Reaches(Node, ServedEdges, Child, TopFrame.node)
    BY <1>a, <2>2, <2>4, <2>5 DEF PathInv
  <2>7. QED
    BY <1>a, <2>2, <2>3, <2>6, BackEdgeCyclic, ServedEdgesType
<1>3. QED
  BY <1>1, <1>2 DEF OutcomeCorrect

(* The state of the validation is always of its type.                      *)
THEOREM ColoringTypeCorrect == ColoringSpec => []ColoringTypeOK
  BY ColoringInvariance, PTL DEF ColoringIInv

(* On every graph and every order of its nodes: validate_existing_graph    *)
(* lets a run pass exactly if the snapshot has no cycle.                   *)
THEOREM ColoringIsCorrect == ColoringSpec => []OutcomeCorrect
  BY ColoringInvariance, ColoringOutcome, PTL

-----------------------------------------------------------------------------
(* The validation that follows the search has not begun before the edge is *)
(* inserted, and then looks at the graph with that edge.                   *)
RunInv ==
  /\ IInv
  /\ ColoringIInv
  /\ phase \in {"edge", "run"}
  /\ phase = "edge" => Fresh /\ served = children
  /\ phase = "run" => verdict = "accepted" /\ ServedEdges = WithEdge

(* A sequence holds the elements of its two parts and the one between.     *)
LEMMA JoinedRange ==
  ASSUME NEW S, NEW front \in Seq(S), NEW back \in Seq(S), NEW c \in S
  PROVE  /\ front \o <<c>> \o back \in Seq(S)
         /\ Range(front \o <<c>> \o back) = Range(front) \cup Range(back) \cup {c}
<1>1. <<c>> \in Seq(S) /\ Range(<<c>>) = {c}
  BY DEF Range
<1>2. /\ front \o <<c>> \in Seq(S)
      /\ Range(front \o <<c>>) = Range(front) \cup {c}
  <2>1. front \o <<c>> \in Seq(S)
    BY <1>1
  <2>2. Range(front \o <<c>>) = Range(front) \cup Range(<<c>>)
    BY <1>1, RangeConcatenation, Zenon
  <2>3. QED
    BY <1>1, <2>1, <2>2, Zenon
<1>3. /\ (front \o <<c>>) \o back \in Seq(S)
      /\ Range((front \o <<c>>) \o back) = Range(front \o <<c>>) \cup Range(back)
  <2>1. (front \o <<c>>) \o back \in Seq(S)
    BY <1>2
  <2>2. Range((front \o <<c>>) \o back) = Range(front \o <<c>>) \cup Range(back)
    <3>1. front \o <<c>> \in Seq(S)
      BY <1>2
    <3>2. QED
      BY <3>1, RangeConcatenation, Zenon
  <2>3. QED
    BY <2>1, <2>2
<1>4. QED
  BY <1>2, <1>3, Zenon

(* A sequence cut in two holds the elements of its parts.                  *)
LEMMA CutRange ==
  ASSUME NEW S, NEW s \in Seq(S), NEW i \in 0..Len(s)
  PROVE  /\ SubSeq(s, 1, i) \in Seq(S) /\ SubSeq(s, i + 1, Len(s)) \in Seq(S)
         /\ Range(s) = Range(SubSeq(s, 1, i)) \cup Range(SubSeq(s, i + 1, Len(s)))
<1>1. SubSeq(s, 1, i) \in Seq(S) /\ SubSeq(s, i + 1, Len(s)) \in Seq(S)
  OBVIOUS
<1>2. s = SubSeq(s, 1, i) \o SubSeq(s, i + 1, Len(s))
  <2>1. 1 \in 1..(Len(s) + 1) /\ i \in (1 - 1)..Len(s) /\ Len(s) \in i..Len(s)
    OBVIOUS
  <2>2. QED
    BY <2>1, ConcatAdjacentSubSeq, SubSeqFull
<1>3. QED
  BY <1>1, <1>2, RangeConcatenation, Zenon

(* The snapshot after the insert has the old edges and the new one.        *)
LEMMA InsertEdges ==
  ASSUME TypeOK, phase = "edge", Fresh, Insert, served = children
  PROVE  Fresh' /\ ServedEdges' = WithEdge
<1>1. PICK i \in 0..Len(children[parent]) :
        served' = [children EXCEPT ![parent] =
                     SubSeq(children[parent], 1, i) \o <<child>>
                       \o SubSeq(children[parent], i + 1, Len(children[parent]))]
  BY DEF Insert
<1>2. /\ children \in [Node -> Seq(Node)] /\ parent \in Node /\ child \in Node
  BY DEF TypeOK
<1>3. /\ served'[parent] \in Seq(Node)
      /\ Range(served'[parent]) = Range(children[parent]) \cup {child}
  <2>1. served'[parent] = SubSeq(children[parent], 1, i) \o <<child>>
          \o SubSeq(children[parent], i + 1, Len(children[parent]))
    BY <1>1, <1>2
  <2>2. children[parent] \in Seq(Node)
    BY <1>2
  <2> DEFINE front == SubSeq(children[parent], 1, i)
             back == SubSeq(children[parent], i + 1, Len(children[parent]))
  <2>3. /\ front \in Seq(Node) /\ back \in Seq(Node)
        /\ Range(children[parent]) = Range(front) \cup Range(back)
    BY <2>2, CutRange
  <2> HIDE DEF front, back
  <2>4. /\ front \o <<child>> \o back \in Seq(Node)
        /\ Range(front \o <<child>> \o back)
             = Range(front) \cup Range(back) \cup {child}
    <3>1. child \in Node /\ front \in Seq(Node) /\ back \in Seq(Node)
      BY <1>2, <2>3
    <3>2. QED
      BY <3>1, JoinedRange
  <2>5. served'[parent] = front \o <<child>> \o back
    BY <2>1 DEF front, back
  <2>6. QED
    BY <2>3, <2>4, <2>5, Zenon
<1>4. served' \in [Node -> Seq(Node)]
      /\ \A n \in Node : n # parent => served'[n] = children[n]
  BY <1>1, <1>2, <1>3
<1>5. Fresh'
  BY <1>4 DEF Insert, Fresh
<1>6. ServedEdges' = WithEdge
  <2>1. ASSUME NEW n \in Node, NEW j \in DOMAIN served'[n]
        PROVE  <<n, served'[n][j]>> \in WithEdge
    <3>1. CASE n = parent
      <4>1. served'[n][j] \in Range(children[parent]) \cup {child}
        BY <1>3, <2>1, <3>1 DEF Range
      <4>2. QED
        BY <1>2, <3>1, <4>1 DEF Range, WithEdge, Edges, EdgesOf
    <3>2. CASE n # parent
      BY <1>4, <2>1, <3>2 DEF WithEdge, Edges, EdgesOf
    <3>3. QED
      BY <3>1, <3>2
  <2>2. ASSUME NEW n \in Node, NEW j \in DOMAIN children[n]
        PROVE  <<n, children[n][j]>> \in ServedEdges'
    <3>1. CASE n = parent
      <4>1. children[n][j] \in Range(served'[parent])
        BY <1>3, <2>2, <3>1 DEF Range
      <4>2. QED
        BY <1>2, <3>1, <4>1 DEF Range, ServedEdges, EdgesOf
    <3>2. CASE n # parent
      BY <1>4, <2>2, <3>2 DEF ServedEdges, EdgesOf
    <3>3. QED
      BY <3>1, <3>2
  <2>3. <<parent, child>> \in ServedEdges'
    <3>1. child \in Range(served'[parent])
      BY <1>3
    <3>2. QED
      BY <1>2, <3>1 DEF Range, ServedEdges, EdgesOf
  <2>4. QED
    BY <2>1, <2>2, <2>3 DEF ServedEdges, WithEdge, Edges, EdgesOf
<1>7. QED
  BY <1>5, <1>6

(* The invariant of the composition holds at the start.                    *)
LEMMA InitRunInv == ValidationInit => RunInv
<1> SUFFICES ASSUME ValidationInit PROVE RunInv
  OBVIOUS
<1>1. IInv
  BY InitIInv DEF ValidationInit
<1>2. Fresh
  BY <1>1 DEF ValidationInit, ColoringInit, Fresh, IInv, TypeOK
<1>3. ColoringIInv
  BY <1>2, FreshIInv
<1>4. QED
  BY <1>1, <1>2, <1>3 DEF ValidationInit, RunInv

(* Every step of the composition keeps its invariant.                      *)
LEMMA NextRunInv ==
  RunInv /\ [ValidationNext]_<<vars, coloringVars, phase>> => RunInv'
<1>0. Fresh' => ColoringIInv'
  BY FreshIInv, PTL
<1> SUFFICES ASSUME RunInv, [ValidationNext]_<<vars, coloringVars, phase>>
             PROVE  RunInv'
  OBVIOUS
<1>a. IInv /\ ColoringIInv /\ phase \in {"edge", "run"}
  BY DEF RunInv
<1>b. ASSUME UNCHANGED coloringVars
      PROVE  /\ ColoringIInv' /\ ServedEdges' = ServedEdges
             /\ Fresh => Fresh'
  <2>1. ColoringIInv'
    BY <1>a, <1>b, ColoringNextIInv DEF coloringVars
  <2>2. QED
    BY <1>b, <2>1 DEF coloringVars, Fresh, ServedEdges, EdgesOf
<1>c. ASSUME UNCHANGED vars PROVE IInv' /\ WithEdge' = WithEdge
  BY <1>a, <1>c, NextIInv DEF vars, graph, WithEdge, Edges, EdgesOf
<1>1. CASE Search
  <2>1. IInv' /\ children' = children
    <3>1. Next => children' = children
      BY DEF Next, PopVisited, PopParent, PopNew, PushChild, SkipChild, Accept,
        graph
    <3>2. QED
      BY <1>a, <1>1, <3>1, NextIInv DEF Search
  <2>2. phase = "edge" /\ phase' = phase /\ UNCHANGED coloringVars
    BY <1>1 DEF Search
  <2>3. served' = served /\ served = children
    BY <2>2 DEF RunInv, coloringVars
  <2>4. QED
    BY <1>b, <2>1, <2>2, <2>3 DEF RunInv
<1>2. CASE Insert
  <2>1. /\ phase = "edge" /\ phase' = "run" /\ UNCHANGED vars
        /\ verdict = "accepted"
    BY <1>2 DEF Insert
  <2>2. Fresh' /\ ServedEdges' = WithEdge
    BY <1>2, <1>a, <2>1, InsertEdges DEF RunInv, IInv
  <2>3. verdict' = "accepted"
    BY <2>1 DEF vars
  <2>4. QED
    BY <1>0, <1>c, <2>1, <2>2, <2>3 DEF RunInv
<1>3. CASE Validate
  <2>1. phase = "run" /\ phase' = phase /\ UNCHANGED vars /\ ColoringNext
    BY <1>3 DEF Validate
  <2>2. [ColoringNext]_coloringVars
    BY <2>1
  <2>3. ColoringIInv'
    BY <1>a, <2>2, ColoringNextIInv
  <2>4. served' = served /\ ServedEdges' = ServedEdges
    <3>1. served' = served
      BY <2>1 DEF ColoringNext, SkipStart, StartFrom,
        Blacken, FindCycle, SkipBlack,
        Descend, Finish
    <3>2. QED
      BY <3>1 DEF ServedEdges, EdgesOf
  <2>5. verdict' = verdict
    BY <2>1 DEF vars
  <2>6. QED
    BY <1>c, <2>1, <2>3, <2>4, <2>5 DEF RunInv
<1>4. CASE UNCHANGED <<vars, coloringVars, phase>>
  <2>1. verdict' = verdict /\ children' = children /\ served' = served
    BY <1>4 DEF vars, graph, coloringVars
  <2>2. QED
    BY <1>b, <1>c, <1>4, <2>1 DEF RunInv
<1>5. QED
  BY <1>1, <1>2, <1>3, <1>4 DEF ValidationNext

(* A run after an accepted edge is refused only if the graph had a cycle   *)
(* before that edge.                                                       *)
LEMMA RunInvStays == RunInv => RunsStayPossible
<1> SUFFICES ASSUME RunInv, Acyclic(Node, Edges), outcome = "cycle"
             PROVE  FALSE
  BY DEF RunsStayPossible
<1>1. phase = "run"
  BY DEF RunInv, Fresh
<1>2. verdict = "accepted" /\ ServedEdges = WithEdge
  BY <1>1 DEF RunInv
<1>3. Acyclic(Node, WithEdge)
  BY <1>2, IInvVerdict DEF RunInv, VerdictCorrect
<1>4. ~Acyclic(Node, ServedEdges)
  BY ColoringOutcome DEF RunInv, OutcomeCorrect
<1>5. QED
  BY <1>2, <1>3, <1>4

(* On every snapshot, and wherever the new edge takes its place: the       *)
(* validation before a run refuses cyclic snapshots only.                  *)
THEOREM OutcomeIsCorrect == ValidationSpec => []OutcomeCorrect
<1>1. RunInv => OutcomeCorrect
  BY ColoringOutcome DEF RunInv
<1>2. QED
  BY <1>1, InitRunInv, NextRunInv, PTL DEF ValidationSpec

(* On every snapshot: an edge that validate_no_cycle_from accepts makes    *)
(* validate_existing_graph refuse no run.                                  *)
THEOREM RunsStayPossibleHolds == ValidationSpec => []RunsStayPossible
  BY InitRunInv, NextRunInv, RunInvStays, PTL DEF ValidationSpec
=============================================================================
