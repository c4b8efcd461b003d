------------------------- MODULE GraphTheoryProofs -------------------------
(* Facts about graphs that the proofs about the validation of the agent    *)
(* graph and about its administration rest on.                             *)
EXTENDS GraphTheory, TLAPS

(* Every node reaches itself.                                              *)
LEMMA ReachesSelf ==
  ASSUME NEW V, NEW E, NEW a \in V PROVE Reaches(V, E, a, a)
  BY DEF Reaches

(* What a reaches, it also reaches one edge further.                       *)
LEMMA ReachesStep ==
  ASSUME NEW V, NEW E, NEW a, NEW b, NEW c,
         Reaches(V, E, a, b), <<b, c>> \in E
  PROVE  Reaches(V, E, a, c)
  BY DEF Reaches, Closed

(* A subgraph of an acyclic graph is acyclic.                              *)
LEMMA AcyclicSubgraph ==
  ASSUME NEW V, NEW E, NEW F, F \subseteq E, Acyclic(V, E)
  PROVE  Acyclic(V, F)
  BY DEF Acyclic

(* An edge p -> c closes no cycle if some set that is closed under E has c *)
(* in it and p outside.                                                    *)
LEMMA AddEdgeAcyclic ==
  ASSUME NEW V, NEW E, NEW p, NEW c, NEW R,
         Acyclic(V, E), Closed(E, R), c \in R, p \notin R
  PROVE  Acyclic(V, E \cup {<<p, c>>})
<1> SUFFICES ASSUME NEW S \in SUBSET V, S # {}
             PROVE  \E n \in S : \A m \in S : <<n, m>> \notin E \cup {<<p, c>>}
  BY DEF Acyclic
<1>1. CASE S \cap R = {}
  <2>1. PICK n \in S : \A m \in S : <<n, m>> \notin E
    BY DEF Acyclic
  <2>2. \A m \in S : <<n, m>> # <<p, c>>
    BY <1>1
  <2>3. QED
    BY <2>1, <2>2
<1>2. CASE S \cap R # {}
  <2>1. PICK n \in S \cap R : \A m \in S \cap R : <<n, m>> \notin E
    BY <1>2 DEF Acyclic
  <2>2. \A m \in S : <<n, m>> \in E => m \in R
    BY <2>1 DEF Closed
  <2>3. \A m : <<n, m>> # <<p, c>>
    BY <2>1
  <2>4. QED
    BY <2>1, <2>2, <2>3
<1>3. QED
  BY <1>1, <1>2

(* An edge p -> c closes a cycle if c reaches p: every node between c and  *)
(* p has an edge to another of them.                                       *)
LEMMA BackEdgeCyclic ==
  ASSUME NEW V, NEW E, NEW p \in V, NEW c \in V, E \subseteq V \X V,
         Reaches(V, E, c, p), <<p, c>> \in E
  PROVE  ~Acyclic(V, E)
<1> DEFINE S == {n \in V : Reaches(V, E, c, n) /\ Reaches(V, E, n, p)}
<1>1. S # {}
  BY ReachesSelf
<1>2. ASSUME NEW n \in S PROVE \E m \in S : <<n, m>> \in E
  <2>1. CASE n = p
    BY <2>1, ReachesSelf
  <2>2. CASE n # p
    <3> SUFFICES ASSUME \A m \in S : <<n, m>> \notin E PROVE FALSE
      OBVIOUS
    <3> DEFINE R == {x \in V : ~Reaches(V, E, x, p)} \cup {n}
    <3>1. Closed(E, R)
      <4> SUFFICES ASSUME NEW x \in V, NEW y \in V, <<x, y>> \in E, x \in R
                   PROVE  y \in R
        BY DEF Closed
      <4>1. CASE x = n
        <5>1. Reaches(V, E, c, y)
          BY <4>1, ReachesStep
        <5>2. QED
          BY <4>1, <5>1
      <4>2. CASE ~Reaches(V, E, x, p)
        <5> SUFFICES ASSUME Reaches(V, E, y, p) PROVE Reaches(V, E, x, p)
          BY <4>2
        <5>1. QED
          BY DEF Reaches, Closed
      <4>3. QED
        BY <4>1, <4>2
    <3>2. p \notin R
      BY <2>2, ReachesSelf
    <3>3. QED
      BY <3>1, <3>2 DEF Reaches
  <2>3. QED
    BY <2>1, <2>2
<1>3. QED
  BY <1>1, <1>2 DEF Acyclic
=============================================================================
