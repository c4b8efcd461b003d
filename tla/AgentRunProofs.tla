--------------------------- MODULE AgentRunProofs ---------------------------
(***************************************************************************)
(* Proofs about AgentRun, for every set of nodes and of snapshots, cyclic  *)
(* ones included, and all limits: TypeOK, Awaited, NoReentry, DepthIsPath  *)
(* and RefusedMeansReplaced.                                               *)
(***************************************************************************)
EXTENDS AgentRun, GraphTheoryProofs, SequenceTheorems, FiniteSetTheorems

(* Agents form a tree of calls that wait, closed under callers.            *)
TreeInv ==
  /\ run # "running" => DOMAIN agents = {}
  /\ run = "running" => Root \in DOMAIN agents
  /\ \A i \in Seq(Nat), k \in Nat : Callee(i, k) \in DOMAIN agents =>
       /\ i \in DOMAIN agents
       /\ k \in DOMAIN agents[i].calls
       /\ agents[i].calls[k].state = "running"
  /\ \A i \in DOMAIN agents : \A k \in DOMAIN agents[i].calls :
       agents[i].calls[k].state = "running" => Callee(i, k) \in DOMAIN agents
  /\ \A i \in DOMAIN agents : Callers(i) \subseteq DOMAIN agents

(* An agent's path is the set of its callers' nodes, and not of its own.   *)
PathInv ==
  \A i \in DOMAIN agents :
    /\ agents[i].node \notin agents[i].path
    /\ agents[i].depth = Len(i)
    /\ agents[i].path = {agents[j].node : j \in Callers(i)}
    /\ IsFiniteSet(agents[i].path)
    /\ Cardinality(agents[i].path) = agents[i].depth

(* While the snapshot is the validated one, it is acyclic, agents run for  *)
(* nodes it has, with the children it gives them, and every node on a path *)
(* leads to the agent's node.                                              *)
FreshAgent(i) ==
  /\ agents[i].children = Children(agents[i].node)
  /\ \A m \in agents[i].path :
       Reaches(Node, snapshot.edges, m, agents[i].node)

FreshInv ==
  run = "running" /\ ~replaced =>
    /\ Acyclic(Node, snapshot.edges)
    /\ \A i \in DOMAIN agents : FreshAgent(i)

(* Calls are of children that the agent was built with.                    *)
TargetInv ==
  \A i \in DOMAIN agents : \A k \in DOMAIN agents[i].calls :
    agents[i].calls[k].target \in agents[i].children

(* Calls refused as too deep are of agents at the limit.                   *)
CutInv ==
  \A i \in DOMAIN agents : \A k \in DOMAIN agents[i].calls :
    agents[i].calls[k].state = "too_deep" => agents[i].depth = MaxDepth

IInv ==
  /\ TypeOK
  /\ TreeInv
  /\ PathInv
  /\ TargetInv
  /\ FreshInv
  /\ RefusedMeansReplaced
  /\ CutInv

-----------------------------------------------------------------------------
(* Paths of calls.                                                         *)

LEMMA CalleeIsPath ==
  ASSUME NEW i \in Seq(Nat), NEW k \in Nat
  PROVE  Callee(i, k) \in Seq(Nat) /\ Callee(i, k) # Root
<1>1. Append(i, k) \in Seq(Nat) /\ Len(Append(i, k)) = Len(i) + 1
  OBVIOUS
<1>2. Len(i) \in Nat /\ Len(<<>>) = 0
  OBVIOUS
<1>3. QED
  BY <1>1, <1>2 DEF Callee, Root

(* A path of calls has one caller, and is one of its calls.                *)
LEMMA CalleeInjective ==
  ASSUME NEW i \in Seq(Nat), NEW k \in Nat,
         NEW j \in Seq(Nat), NEW l \in Nat, Callee(i, k) = Callee(j, l)
  PROVE  i = j /\ k = l
<1>1. Len(i) = Len(j) /\ k = l
  BY DEF Callee
<1>2. \A n \in 1..Len(i) : i[n] = j[n]
  BY <1>1 DEF Callee
<1>3. QED
  BY <1>1, <1>2, SeqEqual

(* The callers of a callee are those of its caller and the caller.         *)
LEMMA CallersOfCallee ==
  ASSUME NEW i \in Seq(Nat), NEW k \in Nat
  PROVE  /\ Callers(Callee(i, k)) = Callers(i) \cup {i}
         /\ i \notin Callers(i)
<1> DEFINE c == Callee(i, k)
<1>1. c \in Seq(Nat) /\ Len(c) = Len(i) + 1
  BY DEF Callee
<1>2. ASSUME NEW n \in 0..Len(i) PROVE SubSeq(c, 1, n) = SubSeq(i, 1, n)
  BY <1>1, <1>2 DEF Callee
<1>3. SubSeq(i, 1, Len(i)) = i
  BY DEF Callee
<1>4. Len(i) \in Nat
  OBVIOUS
<1>5. Callers(c) = {SubSeq(i, 1, n) : n \in 0..Len(i)}
  BY <1>1, <1>2, <1>4 DEF Callers
<1>6. 0..Len(i) = 0..(Len(i) - 1) \cup {Len(i)}
  BY <1>4
<1>7. \A n \in 0..(Len(i) - 1) : Len(SubSeq(i, 1, n)) = n
  BY <1>4
<1>8. i \notin Callers(i)
  BY <1>4, <1>7 DEF Callers
<1>9. Callers(c) = {SubSeq(i, 1, n) : n \in 0..(Len(i) - 1)} \cup {i}
  BY <1>3, <1>4, <1>5, <1>6
<1>10. QED
  BY <1>8, <1>9 DEF Callers

(* A prefix of a path of calls is the caller of the next longer one.       *)
LEMMA NextCallee ==
  ASSUME NEW i \in Seq(Nat), NEW n \in 0..(Len(i) - 1)
  PROVE  /\ SubSeq(i, 1, n) \in Callers(i) /\ SubSeq(i, 1, n) \in Seq(Nat)
         /\ i[n + 1] \in Nat
         /\ Callee(SubSeq(i, 1, n), i[n + 1]) = SubSeq(i, 1, n + 1)
<1> DEFINE j == SubSeq(i, 1, n)
           x == Callee(j, i[n + 1])
           y == SubSeq(i, 1, n + 1)
<1>1. Len(i) \in Nat /\ n \in Nat /\ n + 1 \in Nat /\ n + 1 <= Len(i)
  OBVIOUS
<1>2. \A m \in 1..(n + 1) : m \in 1..Len(i) /\ i[m] \in Nat
  BY <1>1, ElementOfSeq
<1>3. j \in Seq(Nat) /\ Len(j) = n /\ \A m \in 1..n : j[m] = i[m]
  <2>1. \A m \in 1..n : i[m] \in Nat
    BY <1>1, <1>2
  <2>2. QED
    BY <1>1, <2>1, SubSeqProperties
<1>4. y \in Seq(Nat) /\ Len(y) = n + 1 /\ \A m \in 1..(n + 1) : y[m] = i[m]
  BY <1>1, <1>2, SubSeqProperties
<1>5. i[n + 1] \in Nat
  BY <1>1, <1>2
<1> HIDE DEF j, y
<1>6. x \in Seq(Nat) /\ Len(x) = n + 1
  BY <1>3, <1>5 DEF Callee
<1>7. \A m \in 1..(n + 1) : x[m] = y[m]
  <2>1. \A m \in 1..n : m \in 1..(n + 1) /\ x[m] = j[m]
    BY <1>1, <1>3, <1>5, AppendProperties DEF Callee
  <2>2. x[n + 1] = i[n + 1] /\ y[n + 1] = i[n + 1]
    BY <1>1, <1>3, <1>4, <1>5 DEF Callee
  <2>3. \A m \in 1..(n + 1) : m \in 1..n \/ m = n + 1
    BY <1>1
  <2>4. QED
    BY <1>3, <1>4, <2>1, <2>2, <2>3
<1>8. x = y
  BY <1>4, <1>6, <1>7, SeqEqual
<1>9. QED
  BY <1>3, <1>5, <1>8 DEF Callers, j, y

(* On the way from a caller down to an agent there is a call of the caller. *)
LEMMA CallerHasCallee ==
  ASSUME NEW i \in Seq(Nat), NEW j \in Callers(i)
  PROVE  /\ j \in Seq(Nat)
         /\ \E k \in Nat : Callee(j, k) \in Callers(i) \cup {i}
<1>1. PICK n \in 0..(Len(i) - 1) : j = SubSeq(i, 1, n)
  BY DEF Callers
<1>2. SubSeq(i, 1, n + 1) \in Callers(i) \cup {i}
  <2>1. CASE n + 1 = Len(i)
    BY <2>1
  <2>2. CASE n + 1 # Len(i)
    BY <1>1, <2>2 DEF Callers
  <2>3. QED
    BY <2>1, <2>2
<1>3. QED
  BY <1>1, <1>2, NextCallee

(* Every agent but the first has a caller.                                 *)
LEMMA HasCaller ==
  ASSUME NEW i \in Seq(Nat), i # Root
  PROVE  \E j \in Callers(i) : \E k \in Nat : j \in Seq(Nat) /\ i = Callee(j, k)
<1> DEFINE n == Len(i) - 1
<1>1. n \in 0..(Len(i) - 1) /\ n + 1 = Len(i)
  BY DEF Root
<1>2. SubSeq(i, 1, Len(i)) = i
  OBVIOUS
<1> HIDE DEF n
<1>3. QED
  BY <1>1, <1>2, NextCallee

-----------------------------------------------------------------------------
(* What a step leaves of an agent's record.                                *)

SameAgent(r, s) ==
  /\ s.node = r.node
  /\ s.depth = r.depth
  /\ s.path = r.path
  /\ s.children = r.children

(* Giving a call a state changes nothing else.                             *)
LEMMA CallSettled ==
  ASSUME NEW r \in AgentRecords, NEW k \in DOMAIN r.calls,
         NEW st \in CallStates, NEW s, s = [r EXCEPT !.calls[k].state = st]
  PROVE  /\ s \in AgentRecords
         /\ SameAgent(r, s)
         /\ DOMAIN s.calls = DOMAIN r.calls
         /\ Len(s.calls) = Len(r.calls)
         /\ \A l \in DOMAIN r.calls :
              /\ s.calls[l].target = r.calls[l].target
              /\ s.calls[l].state = IF l = k THEN st ELSE r.calls[l].state
<1> DEFINE C == [target : Node, state : CallStates]
           call == [r.calls[k] EXCEPT !.state = st]
           calls == [r.calls EXCEPT ![k] = call]
<1>1. r.calls \in Seq(C) /\ k \in 1..Len(r.calls)
  BY DEF AgentRecords
<1>2. \A l \in DOMAIN r.calls : r.calls[l] \in C
  <2>1. DOMAIN r.calls = 1..Len(r.calls)
    BY <1>1
  <2>2. QED
    BY <1>1, <2>1, ElementOfSeq
<1>3. call \in C /\ call.target = r.calls[k].target /\ call.state = st
  BY <1>2
<1>4. calls \in Seq(C) /\ Len(calls) = Len(r.calls)
  BY <1>1, <1>3
<1>5. /\ DOMAIN calls = DOMAIN r.calls
      /\ \A l \in DOMAIN r.calls : calls[l] = IF l = k THEN call ELSE r.calls[l]
  OBVIOUS
<1>6. s = [r EXCEPT !.calls = calls]
  OBVIOUS
<1> HIDE DEF calls
<1>7. s.calls = calls /\ SameAgent(r, s) /\ s \in AgentRecords
  BY <1>4, <1>6 DEF AgentRecords, SameAgent
<1>8. QED
  BY <1>3, <1>4, <1>5, <1>7

(* Asking for calls adds them to those the agent has made.                 *)
LEMMA CallsAsked ==
  ASSUME NEW r \in AgentRecords, NEW targets \in Seq(r.children), NEW s,
         s = Asks(r, targets)
  PROVE  /\ s \in AgentRecords
         /\ SameAgent(r, s)
         /\ Len(s.calls) = Len(r.calls) + Len(targets)
         /\ DOMAIN r.calls \subseteq DOMAIN s.calls
         /\ \A l \in DOMAIN r.calls : s.calls[l] = r.calls[l]
         /\ \A l \in DOMAIN s.calls \ DOMAIN r.calls :
              s.calls[l].state = "asked" /\ s.calls[l].target \in r.children
<1> DEFINE C == [target : Node, state : CallStates]
           D == [target : r.children, state : {"asked"}]
           new == NewCalls(targets)
<1>1. r.calls \in Seq(C) /\ r.children \subseteq Node
  BY DEF AgentRecords
<1>2. D \subseteq C
  <2>1. "asked" \in CallStates
    BY DEF CallStates, Pending
  <2>2. QED
    BY <1>1, <2>1
<1>3. new \in Seq(D) /\ new \in Seq(C) /\ Len(new) = Len(targets)
  <2>1. \A k \in 1..Len(targets) : targets[k] \in r.children
    OBVIOUS
  <2>2. new \in [1..Len(targets) -> D] /\ Len(targets) \in Nat
    BY <2>1 DEF NewCalls
  <2>3. new \in [1..Len(targets) -> C]
    BY <1>2, <2>2
  <2>4. DOMAIN new = 1..Len(targets) /\ Len(targets) \in Nat
    BY <2>2
  <2> HIDE DEF D, C
  <2>5. new \in Seq(D) /\ new \in Seq(C)
    BY <2>2, <2>3
  <2>6. Len(new) = Len(targets)
    BY <2>4, <2>5
  <2>7. QED
    BY <2>5, <2>6
<1> HIDE DEF new
<1>4. \A l \in 1..Len(new) : new[l] \in D
  BY <1>3, ElementOfSeq
<1>5. /\ r.calls \o new \in Seq(C)
      /\ Len(r.calls \o new) = Len(r.calls) + Len(new)
      /\ \A l \in 1..(Len(r.calls) + Len(new)) : (r.calls \o new)[l] =
           IF l <= Len(r.calls) THEN r.calls[l] ELSE new[l - Len(r.calls)]
  BY <1>1, <1>3, ConcatProperties
<1>6. s = [r EXCEPT !.calls = r.calls \o new]
  BY DEF new, Asks
<1>7. s.calls = r.calls \o new /\ SameAgent(r, s) /\ s \in AgentRecords
  BY <1>5, <1>6 DEF AgentRecords, SameAgent
<1>8. Len(r.calls) \in Nat /\ Len(new) \in Nat
  BY <1>1, <1>3
<1>9. /\ DOMAIN r.calls = 1..Len(r.calls)
      /\ DOMAIN s.calls = 1..(Len(r.calls) + Len(new))
  BY <1>1, <1>5, <1>7, <1>8
<1>10. \A l \in DOMAIN s.calls \ DOMAIN r.calls :
         s.calls[l] \in D
  <2> SUFFICES ASSUME NEW l \in DOMAIN s.calls \ DOMAIN r.calls
               PROVE  s.calls[l] \in D
    OBVIOUS
  <2>1. /\ l \in 1..(Len(r.calls) + Len(new)) /\ ~(l <= Len(r.calls))
        /\ l - Len(r.calls) \in 1..Len(new)
    BY <1>8, <1>9
  <2>2. s.calls[l] = new[l - Len(r.calls)]
    BY <1>5, <1>7, <2>1
  <2>3. QED
    BY <1>4, <2>1, <2>2
<1>11. QED
  BY <1>3, <1>5, <1>7, <1>8, <1>9, <1>10

-----------------------------------------------------------------------------
(* What each action does to the agents.                                    *)

(* Agents keep all but their calls; what is new in those was only asked.   *)
LEMMA TurnStep ==
  ASSUME TypeOK, NEW i \in DOMAIN agents, NEW targets \in Answers(i),
         Turn(i, targets)
  PROVE  /\ DOMAIN agents' = DOMAIN agents
         /\ \A j \in DOMAIN agents :
              /\ agents'[j] \in AgentRecords
              /\ SameAgent(agents[j], agents'[j])
              /\ Len(agents'[j].calls) <= CallLimit[agents[j].node]
              /\ DOMAIN agents[j].calls \subseteq DOMAIN agents'[j].calls
              /\ \A l \in DOMAIN agents[j].calls :
                   agents'[j].calls[l] = agents[j].calls[l]
              /\ \A l \in DOMAIN agents'[j].calls \ DOMAIN agents[j].calls :
                   /\ agents'[j].calls[l].state = "asked"
                   /\ agents'[j].calls[l].target \in agents[j].children
<1> DEFINE new == Asks(agents[i], targets)
<1>1. agents[i] \in AgentRecords /\ targets \in Seq(agents[i].children)
  <2>1. PICK m \in 1..CallLimit[agents[i].node] :
               targets \in [1..m -> agents[i].children]
    BY DEF Answers
  <2>2. agents[i] \in AgentRecords /\ CallLimit[agents[i].node] \in Nat
    BY LimitsAssumption DEF TypeOK, AgentRecords
  <2>3. m \in Nat
    BY <2>2
  <2>4. QED
    BY <2>1, <2>2, <2>3
<1>2. agents' = [agents EXCEPT ![i] = new]
  BY DEF Turn
<1>3. /\ DOMAIN agents' = DOMAIN agents
      /\ agents'[i] = new
      /\ \A j \in DOMAIN agents \ {i} : agents'[j] = agents[j]
  BY <1>2
<1>4. ASSUME NEW j \in DOMAIN agents \ {i}
      PROVE  /\ agents[j] \in AgentRecords
             /\ SameAgent(agents[j], agents[j])
             /\ Len(agents[j].calls) <= CallLimit[agents[j].node]
  BY DEF TypeOK, SameAgent
<1>5. Len(agents[i].calls) + Len(targets) <= CallLimit[agents[i].node]
  BY DEF Turn
<1>6. new = Asks(agents[i], targets)
  OBVIOUS
<1> HIDE DEF new
<1>7. /\ new \in AgentRecords
      /\ SameAgent(agents[i], new)
      /\ Len(new.calls) = Len(agents[i].calls) + Len(targets)
      /\ DOMAIN agents[i].calls \subseteq DOMAIN new.calls
      /\ \A l \in DOMAIN agents[i].calls : new.calls[l] = agents[i].calls[l]
      /\ \A l \in DOMAIN new.calls \ DOMAIN agents[i].calls :
           /\ new.calls[l].state = "asked"
           /\ new.calls[l].target \in agents[i].children
  BY <1>1, <1>6, CallsAsked
<1>8. QED
  BY <1>3, <1>4, <1>5, <1>7

(* An agent is where it was, but for the state of one of its calls.        *)
OneCall(i, k, st) ==
  /\ agents'[i] \in AgentRecords
  /\ SameAgent(agents[i], agents'[i])
  /\ DOMAIN agents'[i].calls = DOMAIN agents[i].calls
  /\ Len(agents'[i].calls) <= CallLimit[agents[i].node]
  /\ \A l \in DOMAIN agents[i].calls :
       /\ agents'[i].calls[l].target = agents[i].calls[l].target
       /\ agents'[i].calls[l].state =
            IF l = k THEN st ELSE agents[i].calls[l].state

LEMMA OneCallOf ==
  ASSUME TypeOK, NEW i \in DOMAIN agents, NEW k \in DOMAIN agents[i].calls,
         NEW st \in CallStates,
         agents'[i] = [agents[i] EXCEPT !.calls[k].state = st]
  PROVE  OneCall(i, k, st)
<1> DEFINE new == agents'[i]
<1>1. /\ agents[i] \in AgentRecords
      /\ Len(agents[i].calls) <= CallLimit[agents[i].node]
  BY DEF TypeOK
<1>2. new = [agents[i] EXCEPT !.calls[k].state = st]
  OBVIOUS
<1> HIDE DEF new
<1>3. /\ new \in AgentRecords
      /\ SameAgent(agents[i], new)
      /\ DOMAIN new.calls = DOMAIN agents[i].calls
      /\ Len(new.calls) = Len(agents[i].calls)
      /\ \A l \in DOMAIN agents[i].calls :
           /\ new.calls[l].target = agents[i].calls[l].target
           /\ new.calls[l].state =
                IF l = k THEN st ELSE agents[i].calls[l].state
  BY <1>1, <1>2, CallSettled
<1>4. QED
  BY <1>1, <1>3 DEF OneCall, new

LEMMA RaiseStep ==
  ASSUME TypeOK, NEW i \in DOMAIN agents, NEW k \in DOMAIN agents[i].calls,
         NEW st \in CallStates, Raise(i, k, st)
  PROVE  /\ DOMAIN agents' = DOMAIN agents
         /\ \A j \in DOMAIN agents \ {i} : agents'[j] = agents[j]
         /\ OneCall(i, k, st)
<1>1. agents' = [agents EXCEPT ![i] =
                   [agents[i] EXCEPT !.calls[k].state = st]]
  BY DEF Raise
<1>2. QED
  BY <1>1, OneCallOf

LEMMA BuiltStep ==
  ASSUME TypeOK, TreeInv, NEW i \in DOMAIN agents,
         NEW k \in DOMAIN agents[i].calls, ChildBuilt(i, k)
  PROVE  /\ Callee(i, k) \notin DOMAIN agents
         /\ DOMAIN agents' = DOMAIN agents \cup {Callee(i, k)}
         /\ agents'[Callee(i, k)] = Agent(Target(i, k), NextDepth(i), NextPath(i))
         /\ \A j \in DOMAIN agents \ {i} : agents'[j] = agents[j]
         /\ OneCall(i, k, "running")
<1>1. i \in Seq(Nat) /\ k \in Nat
  BY DEF TypeOK, AgentRecords
<1>2. Callee(i, k) \notin DOMAIN agents
  BY <1>1 DEF TreeInv, ChildBuilt, Asked
<1>3. /\ DOMAIN agents' = DOMAIN agents \cup {Callee(i, k)}
      /\ agents'[Callee(i, k)] = Agent(Target(i, k), NextDepth(i), NextPath(i))
      /\ \A j \in DOMAIN agents \ {i} : agents'[j] = agents[j]
      /\ agents'[i] = [agents[i] EXCEPT !.calls[k].state = "running"]
  BY <1>2 DEF ChildBuilt
<1>4. "running" \in CallStates
  BY DEF CallStates, Pending
<1>5. QED
  BY <1>2, <1>3, <1>4, OneCallOf

LEMMA EndStep ==
  ASSUME TypeOK, TreeInv, NEW i \in DOMAIN agents,
         NEW k \in DOMAIN agents[i].calls, ChildEnds(i, k)
  PROVE  /\ i # Callee(i, k)
         /\ DOMAIN agents' = DOMAIN agents \ {Callee(i, k)}
         /\ \A j \in DOMAIN agents' \ {i} : agents'[j] = agents[j]
         /\ OneCall(i, k, "content")
<1>1. i \in Seq(Nat) /\ k \in Nat
  BY DEF TypeOK, AgentRecords
<1>2. i # Callee(i, k)
  BY <1>1, CalleeIsPath DEF Callee
<1>3. /\ DOMAIN agents' = DOMAIN agents \ {Callee(i, k)}
      /\ \A j \in DOMAIN agents' \ {i} : agents'[j] = agents[j]
      /\ agents'[i] = [agents[i] EXCEPT !.calls[k].state = "content"]
  BY <1>2 DEF ChildEnds
<1>4. "content" \in CallStates
  BY DEF CallStates
<1>5. QED
  BY <1>2, <1>3, <1>4, OneCallOf

(* The three ways to refuse a call have one effect.                        *)
LEMMA RefusedStep ==
  ASSUME TypeOK, NEW i \in DOMAIN agents, NEW k \in DOMAIN agents[i].calls,
         ChildMissing(i, k) \/ ChildTooDeep(i, k) \/ ChildOnPath(i, k)
  PROVE  \E st \in {"missing", "too_deep", "cycle"} :
           /\ st \in CallStates
           /\ agents[i].calls[k].state = "asked"
           /\ DOMAIN agents' = DOMAIN agents
           /\ \A j \in DOMAIN agents \ {i} : agents'[j] = agents[j]
           /\ OneCall(i, k, st)
           /\ UNCHANGED <<snapshot, run, replaced>>
<1>1. \A st \in {"missing", "too_deep", "cycle"} : st \in CallStates
  BY DEF CallStates, Pending
<1>2. \E st \in {"missing", "too_deep", "cycle"} :
        Raise(i, k, st) /\ Asked(i, k)
  <2>1. ASSUME ChildMissing(i, k) PROVE Raise(i, k, "missing") /\ Asked(i, k)
    BY <2>1 DEF ChildMissing
  <2>2. ASSUME ChildTooDeep(i, k) PROVE Raise(i, k, "too_deep") /\ Asked(i, k)
    BY <2>2 DEF ChildTooDeep
  <2>3. ASSUME ChildOnPath(i, k) PROVE Raise(i, k, "cycle") /\ Asked(i, k)
    BY <2>3 DEF ChildOnPath
  <2>4. QED
    BY <2>1, <2>2, <2>3
<1>3. PICK st \in {"missing", "too_deep", "cycle"} :
             Raise(i, k, st) /\ Asked(i, k)
  BY <1>2
<1>4. st \in CallStates
  BY <1>1
<1>5. /\ agents[i].calls[k].state = "asked"
      /\ UNCHANGED <<snapshot, run, replaced>>
  BY <1>3 DEF Raise, Asked
<1>6. /\ DOMAIN agents' = DOMAIN agents
      /\ \A j \in DOMAIN agents \ {i} : agents'[j] = agents[j]
      /\ OneCall(i, k, st)
  BY <1>3, <1>4, RaiseStep
<1>7. QED
  BY <1>4, <1>5, <1>6

-----------------------------------------------------------------------------
(* The invariant holds at the start and is kept by every step.             *)

LEMMA InitIInv == Init => IInv
<1> SUFFICES ASSUME Init PROVE IInv
  OBVIOUS
<1>0. DOMAIN agents = {}
  BY DEF Init
<1>1. /\ run = "none" /\ run # "running"
      /\ snapshot \in Snapshots /\ replaced \in BOOLEAN
  BY DEF Init
<1>2. TypeOK
  BY <1>0, <1>1 DEF TypeOK
<1>3. TreeInv
  BY <1>0, <1>1 DEF TreeInv
<1>4. QED
  BY <1>0, <1>1, <1>2, <1>3
     DEF IInv, PathInv, TargetInv, FreshInv, RefusedMeansReplaced, CutInv

(* A new run has one agent, which has made no call.                        *)
LEMMA StartStep ==
  ASSUME TypeOK, NEW n \in Node, Start(n)
  PROVE  /\ DOMAIN agents' = {Root}
         /\ agents'[Root] = Agent(n, 0, {})
         /\ agents'[Root] \in AgentRecords
         /\ agents'[Root].calls = <<>>
<1>1. DOMAIN agents' = {Root} /\ agents'[Root] = Agent(n, 0, {})
  BY DEF Start
<1>2. Agent(n, 0, {}) \in AgentRecords
  BY LimitsAssumption DEF Agent, AgentRecords, Children
<1>3. QED
  BY <1>1, <1>2 DEF Agent

LEMMA NextTypeOK ==
  ASSUME TypeOK, TreeInv, [Next]_vars PROVE TypeOK'
<1> USE SnapshotsAssumption, LimitsAssumption
<1>1. ASSUME NEW n \in Node, Start(n) PROVE TypeOK'
  <2>1. Root \in Seq(Nat) /\ Len(agents'[Root].calls) = 0
    BY <1>1, StartStep DEF Root
  <2>2. agents'[Root].node \in Node
    BY <1>1, StartStep DEF AgentRecords
  <2>3. Len(agents'[Root].calls) <= CallLimit[agents'[Root].node]
    BY <2>1, <2>2
  <2>4. \A i \in DOMAIN agents' :
          /\ i \in Seq(Nat)
          /\ agents'[i] \in AgentRecords
          /\ Len(agents'[i].calls) <= CallLimit[agents'[i].node]
    BY <1>1, <2>1, <2>3, StartStep
  <2>5. snapshot' \in Snapshots /\ run' = "running" /\ replaced' \in BOOLEAN
    BY <1>1 DEF Start, TypeOK
  <2>6. QED
    BY <2>4, <2>5 DEF TypeOK
<1>2. ASSUME Refuse \/ \E n \in Node : NotFound(n) PROVE TypeOK'
  <2>1. /\ run' \in {"refused", "not_found"}
        /\ UNCHANGED <<snapshot, agents, replaced>>
    BY <1>2 DEF Refuse, NotFound
  <2>2. run' \in Outcomes /\ snapshot' = snapshot /\ agents' = agents /\ replaced' = replaced
    BY <2>1 DEF Outcomes
  <2>3. QED
    BY <2>2 DEF TypeOK
<1>3. ASSUME NEW i \in DOMAIN agents, NEW targets \in Answers(i), Turn(i, targets)
      PROVE  TypeOK'
  BY <1>3, TurnStep DEF Turn, TypeOK, SameAgent
<1>4. ASSUME NEW i \in DOMAIN agents, NEW k \in DOMAIN agents[i].calls,
             ChildMissing(i, k) \/ ChildTooDeep(i, k) \/ ChildOnPath(i, k)
      PROVE  TypeOK'
  <2>1. PICK st \in {"missing", "too_deep", "cycle"} :
               /\ DOMAIN agents' = DOMAIN agents
               /\ \A j \in DOMAIN agents \ {i} : agents'[j] = agents[j]
               /\ OneCall(i, k, st)
               /\ UNCHANGED <<snapshot, run, replaced>>
    BY <1>4, RefusedStep
  <2>2. QED
    BY <2>1 DEF TypeOK, OneCall, SameAgent
<1>5. ASSUME NEW i \in DOMAIN agents, NEW k \in DOMAIN agents[i].calls,
             ChildBuilt(i, k)
      PROVE  TypeOK'
  <2> DEFINE c == Callee(i, k)
  <2>1. i \in Seq(Nat) /\ k \in Nat
    BY DEF TypeOK, AgentRecords
  <2> c \in Seq(Nat)
    BY <2>1, CalleeIsPath
  <2>2. /\ Target(i, k) \in Node
        /\ NextDepth(i) \in 0..MaxDepth
        /\ NextPath(i) \in SUBSET Node
    <3> DEFINE C == [target : Node, state : CallStates]
    <3>1. agents[i] \in AgentRecords /\ agents[i].calls \in Seq(C)
      BY DEF TypeOK, AgentRecords
    <3>2. k \in 1..Len(agents[i].calls)
      BY <3>1
    <3>3. agents[i].calls[k] \in C
      BY <3>1, <3>2, ElementOfSeq
    <3>4. QED
      BY <1>5, <3>1, <3>3 DEF ChildBuilt, TooDeep, NextDepth, NextPath, Target,
                              AgentRecords
  <2>3. Agent(Target(i, k), NextDepth(i), NextPath(i)) \in AgentRecords
    BY <2>2 DEF Agent, AgentRecords, Children
  <2>4. /\ DOMAIN agents' = DOMAIN agents \cup {c}
        /\ agents'[c] = Agent(Target(i, k), NextDepth(i), NextPath(i))
        /\ \A j \in DOMAIN agents \ {i} : agents'[j] = agents[j]
        /\ OneCall(i, k, "running")
    BY <1>5, BuiltStep
  <2>5. agents'[c].calls = <<>> /\ agents'[c].node \in Node
    BY <2>2, <2>4 DEF Agent
  <2>6. /\ agents'[c] \in AgentRecords
        /\ Len(agents'[c].calls) <= CallLimit[agents'[c].node]
    BY <2>3, <2>4, <2>5
  <2>7. \A j \in DOMAIN agents :
          /\ j \in Seq(Nat)
          /\ agents'[j] \in AgentRecords
          /\ Len(agents'[j].calls) <= CallLimit[agents'[j].node]
    BY <2>4 DEF TypeOK, OneCall, SameAgent
  <2>8. UNCHANGED <<snapshot, run, replaced>>
    BY <1>5 DEF ChildBuilt
  <2> HIDE DEF c
  <2>9. QED
    BY <2>4, <2>6, <2>7, <2>8 DEF TypeOK
<1>6. ASSUME NEW i \in DOMAIN agents, NEW k \in DOMAIN agents[i].calls,
             ChildEnds(i, k)
      PROVE  TypeOK'
  BY <1>6, EndStep DEF ChildEnds, TypeOK, OneCall, SameAgent
<1>7. ASSUME NEW outcome \in {"answered", "failed"}, RunEnds(outcome) PROVE TypeOK'
  <2>1. /\ run' \in Outcomes /\ DOMAIN agents' = {}
        /\ UNCHANGED <<snapshot, replaced>>
    BY <1>7 DEF RunEnds, Outcomes
  <2>2. QED
    BY <2>1 DEF TypeOK
<1>8. ASSUME NEW g \in Snapshots, Publish(g) PROVE TypeOK'
  BY <1>8 DEF Publish, TypeOK
<1>9. CASE UNCHANGED vars
  BY <1>9 DEF vars, TypeOK
<1>10. QED
  BY <1>1, <1>2, <1>3, <1>4, <1>5, <1>6, <1>7, <1>8, <1>9
     DEF Next, Request, Proceed, Call

LEMMA NextTreeInv ==
  ASSUME TypeOK, TreeInv, [Next]_vars PROVE TreeInv'
<1> DEFINE Tree ==
      /\ \A j \in Seq(Nat), l \in Nat : Callee(j, l) \in DOMAIN agents =>
           /\ j \in DOMAIN agents
           /\ l \in DOMAIN agents[j].calls
           /\ agents[j].calls[l].state = "running"
      /\ \A j \in DOMAIN agents : \A l \in DOMAIN agents[j].calls :
           agents[j].calls[l].state = "running" => Callee(j, l) \in DOMAIN agents
      /\ \A j \in DOMAIN agents : Callers(j) \subseteq DOMAIN agents
<1>a. Tree /\ DOMAIN agents \subseteq Seq(Nat)
  BY DEF TreeInv, TypeOK
<1>b. \A j \in DOMAIN agents : DOMAIN agents[j].calls \subseteq Nat
  BY DEF TypeOK, AgentRecords
<1>c. ASSUME NEW i \in DOMAIN agents PROVE run = "running" /\ Root \in DOMAIN agents
  BY DEF TreeInv
<1>1. ASSUME NEW n \in Node, Start(n) PROVE TreeInv'
  <2>1. /\ DOMAIN agents' = {Root} /\ agents'[Root].calls = <<>>
        /\ run' = "running"
    BY <1>1, StartStep DEF Start
  <2> DOMAIN agents'[Root].calls = {}
    BY <2>1
  <2>2. Callers(Root) = {}
    BY DEF Callers, Root
  <2>3. \A j \in Seq(Nat), l \in Nat : Callee(j, l) # Root
    BY CalleeIsPath
  <2>4. QED
    BY <2>1, <2>2, <2>3 DEF TreeInv
<1>2. ASSUME Refuse \/ \E n \in Node : NotFound(n) PROVE TreeInv'
  <2>1. run # "running" /\ run' \in {"refused", "not_found"} /\ agents' = agents
    BY <1>2 DEF Refuse, NotFound, Idle
  <2>2. QED
    BY <2>1 DEF TreeInv
<1>3. ASSUME NEW i \in DOMAIN agents, NEW targets \in Answers(i), Turn(i, targets)
      PROVE  TreeInv'
  <2>1. run' = run
    BY <1>3 DEF Turn
  <2>2. /\ DOMAIN agents' = DOMAIN agents
        /\ \A j \in DOMAIN agents :
             /\ DOMAIN agents[j].calls \subseteq DOMAIN agents'[j].calls
             /\ \A l \in DOMAIN agents[j].calls :
                  agents'[j].calls[l] = agents[j].calls[l]
             /\ \A l \in DOMAIN agents'[j].calls \ DOMAIN agents[j].calls :
                  agents'[j].calls[l].state = "asked"
    BY <1>3, TurnStep
  <2>3. QED
    BY <2>1, <2>2 DEF TreeInv
<1>4. ASSUME NEW i \in DOMAIN agents, NEW k \in DOMAIN agents[i].calls,
             ChildMissing(i, k) \/ ChildTooDeep(i, k) \/ ChildOnPath(i, k)
      PROVE  TreeInv'
  <2>1. \E st \in {"missing", "too_deep", "cycle"} :
               /\ st # "running"
               /\ agents[i].calls[k].state = "asked"
               /\ DOMAIN agents' = DOMAIN agents
               /\ \A j \in DOMAIN agents \ {i} : agents'[j] = agents[j]
               /\ OneCall(i, k, st)
               /\ UNCHANGED <<snapshot, run, replaced>>
    BY <1>4, RefusedStep
  <2>2. PICK st :
               /\ st # "running"
               /\ agents[i].calls[k].state = "asked"
               /\ DOMAIN agents' = DOMAIN agents
               /\ \A j \in DOMAIN agents \ {i} : agents'[j] = agents[j]
               /\ OneCall(i, k, st)
               /\ run' = run
    BY <2>1
  <2>3. ASSUME NEW j \in DOMAIN agents
        PROVE  /\ DOMAIN agents'[j].calls = DOMAIN agents[j].calls
               /\ \A l \in DOMAIN agents[j].calls :
                    agents'[j].calls[l].state = "running"
                      <=> agents[j].calls[l].state = "running"
    BY <2>2 DEF OneCall
  <2>4. QED
    BY <2>2, <2>3 DEF TreeInv
<1>5. ASSUME NEW i \in DOMAIN agents, NEW k \in DOMAIN agents[i].calls,
             ChildBuilt(i, k)
      PROVE  TreeInv'
  <2> DEFINE c == Callee(i, k)
  <2>1. i \in Seq(Nat) /\ k \in Nat
    BY <1>a, <1>b
  <2>2. /\ c \notin DOMAIN agents
        /\ DOMAIN agents' = DOMAIN agents \cup {c}
        /\ agents'[c] = Agent(Target(i, k), NextDepth(i), NextPath(i))
        /\ \A j \in DOMAIN agents \ {i} : agents'[j] = agents[j]
        /\ OneCall(i, k, "running")
    BY <1>5, BuiltStep
  <2>3. Callers(c) = Callers(i) \cup {i}
    BY <2>1, CallersOfCallee
  <2>4. DOMAIN agents'[c].calls = {}
    BY <2>2 DEF Agent
  <2>5. \A j \in Seq(Nat), l \in Nat : Callee(j, l) = c => j = i /\ l = k
    BY <2>1, CalleeInjective
  <2> HIDE DEF c
  <2>6. ASSUME NEW j \in Seq(Nat), NEW l \in Nat, Callee(j, l) \in DOMAIN agents'
        PROVE  /\ j \in DOMAIN agents'
               /\ l \in DOMAIN agents'[j].calls
               /\ agents'[j].calls[l].state = "running"
    <3>1. CASE Callee(j, l) = c
      BY <2>2, <2>5, <3>1 DEF OneCall
    <3>2. CASE Callee(j, l) # c
      <4>1. /\ j \in DOMAIN agents
            /\ l \in DOMAIN agents[j].calls
            /\ agents[j].calls[l].state = "running"
        BY <1>a, <2>2, <2>6, <3>2
      <4>2. QED
        BY <2>2, <4>1 DEF OneCall
    <3>3. QED
      BY <3>1, <3>2
  <2>7. ASSUME NEW j \in DOMAIN agents', NEW l \in DOMAIN agents'[j].calls,
               agents'[j].calls[l].state = "running"
        PROVE  Callee(j, l) \in DOMAIN agents'
    <3>1. j # c
      BY <2>4
    <3>2. CASE j = i /\ l = k
      BY <2>2, <3>2 DEF c
    <3>3. CASE j # i \/ l # k
      BY <1>a, <2>2, <2>7, <3>1, <3>3 DEF OneCall
    <3>4. QED
      BY <3>2, <3>3
  <2>8. \A j \in DOMAIN agents' : Callers(j) \subseteq DOMAIN agents'
    BY <1>a, <2>2, <2>3
  <2>9. run' = "running" /\ Root \in DOMAIN agents'
    BY <1>5, <1>c, <2>2 DEF ChildBuilt
  <2>10. QED
    BY <2>6, <2>7, <2>8, <2>9 DEF TreeInv
<1>6. ASSUME NEW i \in DOMAIN agents, NEW k \in DOMAIN agents[i].calls,
             ChildEnds(i, k)
      PROVE  TreeInv'
  <2> DEFINE c == Callee(i, k)
  <2>1. i \in Seq(Nat) /\ k \in Nat
    BY <1>a, <1>b
  <2>2. /\ i # c
        /\ DOMAIN agents' = DOMAIN agents \ {c}
        /\ \A j \in DOMAIN agents' \ {i} : agents'[j] = agents[j]
        /\ OneCall(i, k, "content")
    BY <1>6, EndStep
  <2>3. /\ c \in DOMAIN agents /\ c \in Seq(Nat) /\ c # Root
        /\ \A l \in DOMAIN agents[c].calls : agents[c].calls[l].state # "running"
    BY <1>6, <2>1, CalleeIsPath DEF ChildEnds, Waits, Pending
  <2>4. \A l \in Nat : Callee(c, l) \notin DOMAIN agents
    BY <1>a, <2>3
  <2>5. \A j \in Seq(Nat), l \in Nat : Callee(j, l) = c => j = i /\ l = k
    BY <2>1, CalleeInjective
  <2> HIDE DEF c
  <2>6. ASSUME NEW j \in Seq(Nat), NEW l \in Nat, Callee(j, l) \in DOMAIN agents'
        PROVE  /\ j \in DOMAIN agents'
               /\ l \in DOMAIN agents'[j].calls
               /\ agents'[j].calls[l].state = "running"
    <3>1. j # c /\ (j # i \/ l # k)
      BY <2>2, <2>4, <2>6 DEF c
    <3>2. QED
      BY <1>a, <2>2, <2>6, <3>1 DEF OneCall
  <2>7. ASSUME NEW j \in DOMAIN agents', NEW l \in DOMAIN agents'[j].calls,
               agents'[j].calls[l].state = "running"
        PROVE  Callee(j, l) \in DOMAIN agents'
    <3>1. (j # i \/ l # k) /\ j \in Seq(Nat) /\ j \in DOMAIN agents
      BY <1>a, <2>2, <2>7 DEF OneCall
    <3>2. l \in DOMAIN agents[j].calls /\ agents[j].calls[l].state = "running"
      BY <2>2, <2>7, <3>1 DEF OneCall
    <3>3. l \in Nat /\ Callee(j, l) \in DOMAIN agents
      BY <1>a, <1>b, <3>1, <3>2
    <3>4. QED
      BY <2>2, <2>5, <3>1, <3>3
  <2>8. ASSUME NEW j \in DOMAIN agents' PROVE Callers(j) \subseteq DOMAIN agents'
    <3>1. c \notin Callers(j)
      BY <1>a, <2>2, <2>4, CallerHasCallee
    <3>2. QED
      BY <1>a, <2>2, <3>1
  <2>9. run' = "running" /\ Root \in DOMAIN agents'
    BY <1>6, <1>c, <2>2, <2>3 DEF ChildEnds
  <2>10. QED
    BY <2>6, <2>7, <2>8, <2>9 DEF TreeInv
<1>7. ASSUME NEW outcome \in {"answered", "failed"}, RunEnds(outcome) PROVE TreeInv'
  <2>1. run' # "running" /\ DOMAIN agents' = {}
    BY <1>7 DEF RunEnds
  <2>2. QED
    BY <2>1 DEF TreeInv
<1>8. ASSUME NEW g \in Snapshots, Publish(g) PROVE TreeInv'
  BY <1>8 DEF Publish, TreeInv
<1>9. CASE UNCHANGED vars
  BY <1>9 DEF vars, TreeInv
<1>10. QED
  BY <1>1, <1>2, <1>3, <1>4, <1>5, <1>6, <1>7, <1>8, <1>9
     DEF Next, Request, Proceed, Call

(* A refused call leaves the agents and their calls where they are.        *)
LEMMA RefusedKeeps ==
  ASSUME TypeOK, NEW i \in DOMAIN agents, NEW k \in DOMAIN agents[i].calls,
         ChildMissing(i, k) \/ ChildTooDeep(i, k) \/ ChildOnPath(i, k)
  PROVE  /\ DOMAIN agents' = DOMAIN agents
         /\ \A j \in DOMAIN agents :
              /\ SameAgent(agents[j], agents'[j])
              /\ DOMAIN agents'[j].calls = DOMAIN agents[j].calls
              /\ \A l \in DOMAIN agents[j].calls :
                   agents'[j].calls[l].target = agents[j].calls[l].target
<1>1. CASE Raise(i, k, "missing")
  BY <1>1, RaiseStep DEF OneCall, SameAgent, CallStates
<1>2. CASE Raise(i, k, "too_deep")
  BY <1>2, RaiseStep DEF OneCall, SameAgent, CallStates
<1>3. CASE Raise(i, k, "cycle")
  BY <1>3, RaiseStep DEF OneCall, SameAgent, CallStates
<1>4. QED
  BY <1>1, <1>2, <1>3 DEF ChildMissing, ChildTooDeep, ChildOnPath

(* The steps by what they do to the agents.                                *)
LEMMA StepsOfAgents ==
  ASSUME [Next]_vars
  PROVE  \/ \E n \in Node : Start(n)
         \/ agents' = agents
         \/ \E i \in DOMAIN agents : \E targets \in Answers(i) : Turn(i, targets)
         \/ \E i \in DOMAIN agents : \E k \in DOMAIN agents[i].calls : Call(i, k)
         \/ \E outcome : RunEnds(outcome)
<1>1. CASE Request
  <2>1. CASE Refuse
    BY <2>1 DEF Refuse
  <2>2. ASSUME NEW n \in Node, NotFound(n) PROVE agents' = agents
    BY <2>2 DEF NotFound
  <2>3. QED
    BY <1>1, <2>1, <2>2 DEF Request
<1>2. CASE Proceed
  BY <1>2 DEF Proceed
<1>3. CASE \E g \in Snapshots : Publish(g)
  BY <1>3 DEF Publish
<1>4. CASE UNCHANGED vars
  BY <1>4 DEF vars
<1>5. QED
  BY <1>1, <1>2, <1>3, <1>4 DEF Next

(* An agent that goes on keeps its node, depth, path and children.         *)
LEMMA AgentsKept ==
  ASSUME TypeOK, TreeInv, [Next]_vars,
         NEW j \in DOMAIN agents, j \in DOMAIN agents'
  PROVE  SameAgent(agents[j], agents'[j])
<1>1. ASSUME NEW n \in Node, Start(n) PROVE FALSE
  BY <1>1 DEF Start, Idle, TreeInv
<1>2. CASE agents' = agents
  BY <1>2 DEF SameAgent
<1>3. ASSUME NEW i \in DOMAIN agents, NEW targets \in Answers(i), Turn(i, targets)
      PROVE  SameAgent(agents[j], agents'[j])
  BY <1>3, TurnStep
<1>4. ASSUME NEW i \in DOMAIN agents, NEW k \in DOMAIN agents[i].calls, Call(i, k)
      PROVE  SameAgent(agents[j], agents'[j])
  <2>1. CASE ChildMissing(i, k) \/ ChildTooDeep(i, k) \/ ChildOnPath(i, k)
    BY <2>1, RefusedKeeps
  <2>2. CASE ChildBuilt(i, k)
    BY <2>2, BuiltStep DEF OneCall, SameAgent
  <2>3. CASE ChildEnds(i, k)
    BY <2>3, EndStep DEF OneCall, SameAgent
  <2>4. QED
    BY <1>4, <2>1, <2>2, <2>3 DEF Call
<1>5. ASSUME NEW outcome, RunEnds(outcome) PROVE FALSE
  <2>1. DOMAIN agents' = {}
    BY <1>5 DEF RunEnds
  <2>2. QED
    BY <2>1
<1>6. QED
  BY <1>1, <1>2, <1>3, <1>4, <1>5, StepsOfAgents

(* An agent that did not exist is that of a new run or of a child.         *)
LEMMA NewAgents ==
  ASSUME TypeOK, TreeInv, [Next]_vars,
         NEW c \in DOMAIN agents', c \notin DOMAIN agents
  PROVE  \/ /\ c = Root
            /\ \E n \in Node : Start(n) /\ agents'[Root] = Agent(n, 0, {})
         \/ \E i \in DOMAIN agents : \E k \in DOMAIN agents[i].calls :
              /\ ChildBuilt(i, k)
              /\ c = Callee(i, k)
              /\ agents'[c] = Agent(Target(i, k), NextDepth(i), NextPath(i))
<1>1. ASSUME NEW n \in Node, Start(n)
      PROVE  c = Root /\ agents'[Root] = Agent(n, 0, {})
  BY <1>1, StartStep
<1>2. CASE agents' = agents
  BY <1>2
<1>3. ASSUME NEW i \in DOMAIN agents, NEW targets \in Answers(i), Turn(i, targets)
      PROVE  FALSE
  BY <1>3, TurnStep
<1>4. ASSUME NEW i \in DOMAIN agents, NEW k \in DOMAIN agents[i].calls, Call(i, k)
      PROVE  /\ ChildBuilt(i, k)
             /\ c = Callee(i, k)
             /\ agents'[c] = Agent(Target(i, k), NextDepth(i), NextPath(i))
  <2>1. CASE ChildMissing(i, k) \/ ChildTooDeep(i, k) \/ ChildOnPath(i, k)
    BY <2>1, RefusedKeeps
  <2>2. CASE ChildBuilt(i, k)
    BY <2>2, BuiltStep
  <2>3. CASE ChildEnds(i, k)
    BY <2>3, EndStep
  <2>4. QED
    BY <1>4, <2>1, <2>2, <2>3 DEF Call
<1>5. ASSUME NEW outcome, RunEnds(outcome) PROVE FALSE
  <2>1. DOMAIN agents' = {}
    BY <1>5 DEF RunEnds
  <2>2. QED
    BY <2>1
<1>6. QED
  BY <1>1, <1>2, <1>3, <1>4, <1>5, StepsOfAgents

LEMMA NextPathInv ==
  ASSUME TypeOK, TreeInv, PathInv, TreeInv', [Next]_vars PROVE PathInv'
<1> DEFINE Good(j) ==
      /\ agents'[j].node \notin agents'[j].path
      /\ agents'[j].depth = Len(j)
      /\ agents'[j].path = {agents'[m].node : m \in Callers(j)}
      /\ IsFiniteSet(agents'[j].path)
      /\ Cardinality(agents'[j].path) = agents'[j].depth
<1>1. ASSUME NEW j \in DOMAIN agents', j \in DOMAIN agents PROVE Good(j)
  <2>1. SameAgent(agents[j], agents'[j])
    BY <1>1, AgentsKept
  <2>2. Callers(j) \subseteq DOMAIN agents /\ Callers(j) \subseteq DOMAIN agents'
    BY <1>1 DEF TreeInv
  <2>3. \A m \in Callers(j) : agents'[m].node = agents[m].node
    BY <2>2, AgentsKept DEF SameAgent
  <2>4. QED
    BY <1>1, <2>1, <2>3 DEF PathInv, SameAgent
<1>2. ASSUME NEW n \in Node, agents'[Root] = Agent(n, 0, {}) PROVE Good(Root)
  <2>1. Callers(Root) = {} /\ Len(Root) = 0
    BY DEF Callers, Root
  <2>2. IsFiniteSet({}) /\ Cardinality({}) = 0
    BY FS_EmptySet
  <2>3. QED
    BY <1>2, <2>1, <2>2 DEF Agent
<1>3. ASSUME NEW i \in DOMAIN agents, NEW k \in DOMAIN agents[i].calls,
             ChildBuilt(i, k)
      PROVE  Good(Callee(i, k))
  <2> DEFINE c == Callee(i, k)
  <2>1. i \in Seq(Nat) /\ k \in Nat
    BY DEF TypeOK, AgentRecords
  <2>2. /\ DOMAIN agents' = DOMAIN agents \cup {c}
        /\ agents'[c] = Agent(Target(i, k), NextDepth(i), NextPath(i))
    BY <1>3, BuiltStep
  <2>3. Callers(c) = Callers(i) \cup {i} /\ Len(c) = Len(i) + 1
    BY <2>1, CallersOfCallee DEF Callee
  <2>4. /\ Callers(i) \subseteq DOMAIN agents
        /\ \A m \in Callers(c) : agents'[m].node = agents[m].node
    BY <2>2, <2>3, AgentsKept DEF TreeInv, SameAgent
  <2>5. /\ agents[i].node \notin agents[i].path
        /\ agents[i].depth = Len(i)
        /\ agents[i].path = {agents[m].node : m \in Callers(i)}
        /\ IsFiniteSet(agents[i].path)
        /\ Cardinality(agents[i].path) = agents[i].depth
    BY DEF PathInv
  <2> HIDE DEF c
  <2>6. NextPath(i) = {agents'[m].node : m \in Callers(c)}
    BY <2>3, <2>4, <2>5 DEF NextPath
  <2>7. /\ IsFiniteSet(NextPath(i))
        /\ Cardinality(NextPath(i)) = NextDepth(i)
        /\ NextDepth(i) = Len(c)
    BY <2>3, <2>5, FS_AddElement DEF NextPath, NextDepth
  <2>8. Target(i, k) \notin NextPath(i)
    BY <1>3 DEF ChildBuilt
  <2>9. QED
    BY <2>2, <2>6, <2>7, <2>8 DEF Agent, c
<1>4. ASSUME NEW j \in DOMAIN agents', j \notin DOMAIN agents PROVE Good(j)
  BY <1>2, <1>3, <1>4, NewAgents
<1>5. QED
  BY <1>1, <1>4 DEF PathInv

LEMMA NextTargetInv ==
  ASSUME TypeOK, TreeInv, TargetInv, [Next]_vars PROVE TargetInv'
<1>1. ASSUME NEW j \in DOMAIN agents', j \notin DOMAIN agents
      PROVE  DOMAIN agents'[j].calls = {}
  <2>1. \E n, depth, path : agents'[j] = Agent(n, depth, path)
    BY <1>1, NewAgents
  <2> agents'[j].calls = <<>>
    BY <2>1 DEF Agent
  <2>2. QED
    BY <2>1
<1>2. ASSUME NEW j \in DOMAIN agents', j \in DOMAIN agents,
             NEW l \in DOMAIN agents'[j].calls
      PROVE  agents'[j].calls[l].target \in agents[j].children
  <2>1. CASE agents' = agents
    BY <1>2, <2>1 DEF TargetInv
  <2>2. ASSUME NEW i \in DOMAIN agents, NEW targets \in Answers(i),
               Turn(i, targets)
        PROVE  agents'[j].calls[l].target \in agents[j].children
    BY <1>2, <2>2, TurnStep DEF TargetInv
  <2>3. ASSUME NEW i \in DOMAIN agents, NEW k \in DOMAIN agents[i].calls,
               Call(i, k)
        PROVE  agents'[j].calls[l].target \in agents[j].children
    <3>1. CASE ChildMissing(i, k) \/ ChildTooDeep(i, k) \/ ChildOnPath(i, k)
      BY <1>2, <3>1, RefusedKeeps DEF TargetInv
    <3>2. CASE ChildBuilt(i, k)
      BY <1>2, <3>2, BuiltStep DEF OneCall, TargetInv
    <3>3. CASE ChildEnds(i, k)
      BY <1>2, <3>3, EndStep DEF OneCall, TargetInv
    <3>4. QED
      BY <2>3, <3>1, <3>2, <3>3 DEF Call
  <2>4. ASSUME NEW outcome, RunEnds(outcome) PROVE FALSE
    <3>1. DOMAIN agents' = {}
      BY <2>4 DEF RunEnds
    <3>2. QED
      BY <1>2, <3>1
  <2>5. ASSUME NEW n \in Node, Start(n) PROVE FALSE
    BY <1>2, <2>5 DEF Start, Idle, TreeInv
  <2>6. QED
    BY <2>1, <2>2, <2>3, <2>4, <2>5, StepsOfAgents
<1>3. QED
  BY <1>1, <1>2, AgentsKept DEF TargetInv, SameAgent

(* Edges of a published snapshot join nodes it has.                        *)
LEMMA EdgesOfNodes ==
  ASSUME TypeOK
  PROVE  /\ snapshot.nodes \subseteq Node
         /\ snapshot.edges \subseteq snapshot.nodes \X snapshot.nodes
  BY SnapshotsAssumption DEF TypeOK

(* In the validated snapshot, what an agent may call has an edge from the  *)
(* agent's node.                                                           *)
LEMMA FreshTarget ==
  ASSUME TypeOK, TreeInv, TargetInv, FreshInv, ~replaced,
         NEW i \in DOMAIN agents, NEW k \in DOMAIN agents[i].calls
  PROVE  /\ <<agents[i].node, Target(i, k)>> \in snapshot.edges
         /\ agents[i].node \in Node
<1>1. run = "running"
  BY DEF TreeInv
<1>2. Target(i, k) \in Children(agents[i].node)
  BY <1>1 DEF FreshInv, FreshAgent, TargetInv, Target
<1>3. agents[i].node \in Node
  BY DEF TypeOK, AgentRecords
<1>4. QED
  BY <1>2, <1>3 DEF Children

LEMMA NextFreshInv ==
  ASSUME TypeOK, TreeInv, TargetInv, FreshInv, [Next]_vars PROVE FreshInv'
<1> SUFFICES ASSUME run' = "running", ~replaced'
             PROVE  /\ Acyclic(Node, snapshot.edges)'
                    /\ \A j \in DOMAIN agents' : FreshAgent(j)'
  BY DEF FreshInv
<1>1. ASSUME NEW n \in Node, Start(n)
      PROVE  /\ Acyclic(Node, snapshot.edges)'
             /\ \A j \in DOMAIN agents' : FreshAgent(j)'
  <2>1. snapshot' = snapshot /\ Acyclic(Node, snapshot.edges)
    BY <1>1 DEF Start, Validated
  <2>2. DOMAIN agents' = {Root} /\ agents'[Root] = Agent(n, 0, {})
    BY <1>1, StartStep
  <2>3. FreshAgent(Root)'
    BY <2>1, <2>2 DEF FreshAgent, Agent, Children
  <2>4. QED
    BY <2>1, <2>2, <2>3
<1>2. CASE \A n \in Node : ~Start(n)
  <2>1. /\ snapshot' = snapshot /\ run = "running" /\ ~replaced
    <3>1. CASE Request
      BY <1>2, <3>1 DEF Request, Refuse, NotFound
    <3>2. CASE \E i \in DOMAIN agents : \E targets \in Answers(i) : Turn(i, targets)
      BY <3>2 DEF Turn
    <3>3. CASE \E i \in DOMAIN agents : \E k \in DOMAIN agents[i].calls : Call(i, k)
      BY <3>3 DEF Call, ChildMissing, ChildTooDeep, ChildOnPath, Raise,
                  ChildBuilt, ChildEnds
    <3>4. CASE \E outcome \in {"answered", "failed"} : RunEnds(outcome)
      BY <3>4 DEF RunEnds
    <3>5. CASE \E g \in Snapshots : Publish(g)
      BY <3>5 DEF Publish
    <3>6. CASE UNCHANGED vars
      BY <3>6 DEF vars
    <3>7. QED
      BY <3>1, <3>2, <3>3, <3>4, <3>5, <3>6 DEF Next, Proceed
  <2>2. /\ Acyclic(Node, snapshot.edges)
        /\ \A i \in DOMAIN agents : FreshAgent(i)
    BY <2>1 DEF FreshInv
  <2>3. ASSUME NEW j \in DOMAIN agents',
               agents'[j].children = Children(agents'[j].node),
               \A m \in agents'[j].path :
                 Reaches(Node, snapshot.edges, m, agents'[j].node)
        PROVE  FreshAgent(j)'
    BY <2>1, <2>3 DEF FreshAgent, Children
  <2>4. ASSUME NEW j \in DOMAIN agents', j \in DOMAIN agents PROVE FreshAgent(j)'
    BY <2>2, <2>3, <2>4, AgentsKept DEF SameAgent, FreshAgent
  <2>5. ASSUME NEW j \in DOMAIN agents', j \notin DOMAIN agents PROVE FreshAgent(j)'
    <3>a. PICK i \in DOMAIN agents : \E k \in DOMAIN agents[i].calls :
                 agents'[j] = Agent(Target(i, k), NextDepth(i), NextPath(i))
      BY <1>2, <2>5, NewAgents
    <3>1. PICK k \in DOMAIN agents[i].calls :
                 agents'[j] = Agent(Target(i, k), NextDepth(i), NextPath(i))
      BY <3>a
    <3>2. <<agents[i].node, Target(i, k)>> \in snapshot.edges /\ agents[i].node \in Node
      BY <2>1, FreshTarget
    <3>3. ASSUME NEW m \in NextPath(i)
          PROVE  Reaches(Node, snapshot.edges, m, Target(i, k))
      <4>1. Reaches(Node, snapshot.edges, m, agents[i].node)
        BY <2>2, <3>2, <3>3, ReachesSelf DEF NextPath, FreshAgent
      <4>2. QED
        BY <3>2, <4>1, ReachesStep
    <3>4. QED
      BY <2>3, <3>1, <3>3 DEF Agent
  <2>6. QED
    BY <2>1, <2>2, <2>4, <2>5
<1>3. QED
  BY <1>1, <1>2

(* While the snapshot is the validated one, a call finds its child, and    *)
(* finds it off its path.                                                  *)
LEMMA FreshCallSucceeds ==
  ASSUME TypeOK, TreeInv, TargetInv, FreshInv, ~replaced,
         NEW i \in DOMAIN agents, NEW k \in DOMAIN agents[i].calls
  PROVE  ~ChildMissing(i, k) /\ ~ChildOnPath(i, k)
<1> DEFINE n == agents[i].node
           t == Target(i, k)
<1>1. <<n, t>> \in snapshot.edges /\ n \in Node
  BY FreshTarget
<1>2. /\ snapshot.nodes \subseteq Node
      /\ snapshot.edges \subseteq snapshot.nodes \X snapshot.nodes
  BY EdgesOfNodes
<1>3. t \in snapshot.nodes /\ t \in Node /\ snapshot.edges \subseteq Node \X Node
  BY <1>1, <1>2
<1>4. /\ Acyclic(Node, snapshot.edges)
      /\ \A m \in agents[i].path : Reaches(Node, snapshot.edges, m, n)
  BY DEF FreshInv, FreshAgent, TreeInv
<1>5. t \notin NextPath(i)
  <2>1. ~Reaches(Node, snapshot.edges, t, n)
    BY <1>1, <1>3, <1>4, BackEdgeCyclic
  <2>2. QED
    BY <1>1, <1>4, <2>1, ReachesSelf DEF NextPath
<1>6. QED
  BY <1>3, <1>5 DEF ChildMissing, ChildOnPath

LEMMA NextRefused ==
  ASSUME TypeOK, TreeInv, TargetInv, FreshInv, RefusedMeansReplaced, [Next]_vars
  PROVE  RefusedMeansReplaced'
<1> DEFINE Fine(j) == \A l \in DOMAIN agents'[j].calls :
             agents'[j].calls[l].state \in {"missing", "cycle"} => replaced'
<1>1. ASSUME NEW j \in DOMAIN agents', j \notin DOMAIN agents PROVE Fine(j)
  <2>1. \E n, depth, path : agents'[j] = Agent(n, depth, path)
    BY <1>1, NewAgents
  <2>2. agents'[j].calls = <<>>
    BY <2>1 DEF Agent
  <2>3. DOMAIN agents'[j].calls = {}
    BY <2>2
  <2>4. QED
    BY <2>3
<1>2. ASSUME NEW j \in DOMAIN agents', j \in DOMAIN agents PROVE Fine(j)
  <2>1. ASSUME NEW n \in Node, Start(n) PROVE FALSE
    BY <1>2, <2>1 DEF Start, Idle, TreeInv
  <2>2. ASSUME NEW i \in DOMAIN agents, NEW targets \in Answers(i),
               Turn(i, targets)
        PROVE  Fine(j)
    <3> SUFFICES ASSUME NEW l \in DOMAIN agents'[j].calls,
                        agents'[j].calls[l].state \in {"missing", "cycle"}
                 PROVE  replaced'
      OBVIOUS
    <3>1. /\ l \in DOMAIN agents[j].calls
          /\ agents'[j].calls[l] = agents[j].calls[l]
      BY <1>2, <2>2, TurnStep
    <3>2. QED
      BY <1>2, <2>2, <3>1 DEF Turn, RefusedMeansReplaced
  <2>3. ASSUME NEW i \in DOMAIN agents, NEW k \in DOMAIN agents[i].calls,
               Call(i, k)
        PROVE  Fine(j)
    <3>1. CASE ChildMissing(i, k) \/ ChildOnPath(i, k)
      <4>1. replaced
        BY <3>1, FreshCallSucceeds
      <4>2. replaced'
        BY <3>1, <4>1 DEF ChildMissing, ChildOnPath, Raise
      <4>3. QED
        BY <4>2
    <3>2. CASE ChildTooDeep(i, k)
      <4>1. Raise(i, k, "too_deep") /\ replaced' = replaced
        BY <3>2 DEF ChildTooDeep, Raise
      <4>2. QED
        BY <1>2, <4>1, RaiseStep DEF OneCall, RefusedMeansReplaced, CallStates
    <3>3. CASE ChildBuilt(i, k)
      <4>1. replaced' = replaced
        BY <3>3 DEF ChildBuilt
      <4>2. OneCall(i, k, "running") /\ (j # i => agents'[j] = agents[j])
        BY <1>2, <3>3, BuiltStep
      <4>3. CASE j = i
        BY <1>2, <4>1, <4>2, <4>3 DEF OneCall, RefusedMeansReplaced
      <4>4. CASE j # i
        BY <1>2, <4>1, <4>2, <4>4 DEF RefusedMeansReplaced
      <4>5. QED
        BY <4>3, <4>4
    <3>4. CASE ChildEnds(i, k)
      BY <1>2, <3>4, EndStep DEF ChildEnds, OneCall, RefusedMeansReplaced
    <3>5. QED
      BY <2>3, <3>1, <3>2, <3>3, <3>4 DEF Call
  <2>4. ASSUME NEW outcome, RunEnds(outcome) PROVE FALSE
    <3>1. DOMAIN agents' = {}
      BY <2>4 DEF RunEnds
    <3>2. QED
      BY <1>2, <3>1
  <2>5. ASSUME NEW g \in Snapshots, Publish(g) PROVE Fine(j)
    BY <1>2, <2>5 DEF Publish, RefusedMeansReplaced
  <2>6. CASE UNCHANGED vars
    BY <1>2, <2>6 DEF vars, RefusedMeansReplaced
  <2>7. ASSUME Refuse \/ \E n \in Node : NotFound(n) PROVE Fine(j)
    <3>1. agents' = agents /\ replaced' = replaced
      BY <2>7 DEF Refuse, NotFound
    <3>2. QED
      BY <1>2, <3>1 DEF RefusedMeansReplaced
  <2>8. QED
    BY <2>1, <2>2, <2>3, <2>4, <2>5, <2>6, <2>7 DEF Next, Request, Proceed
<1>3. QED
  BY <1>1, <1>2 DEF RefusedMeansReplaced

(* The guard is met by agents at the limit only, since none is beyond it.  *)
LEMMA NextCutInv ==
  ASSUME TypeOK, TreeInv, CutInv, [Next]_vars PROVE CutInv'
<1> DEFINE Cut(j) == \A l \in DOMAIN agents'[j].calls :
             agents'[j].calls[l].state = "too_deep" => agents'[j].depth = MaxDepth
<1>1. ASSUME NEW j \in DOMAIN agents', j \notin DOMAIN agents PROVE Cut(j)
  <2>1. \E n, depth, path : agents'[j] = Agent(n, depth, path)
    BY <1>1, NewAgents
  <2>2. DOMAIN agents'[j].calls = {}
    BY <2>1 DEF Agent
  <2>3. QED
    BY <2>2
<1>2. ASSUME NEW j \in DOMAIN agents', j \in DOMAIN agents PROVE Cut(j)
  <2>0. agents'[j].depth = agents[j].depth
    BY <1>2, AgentsKept DEF SameAgent
  <2>1. ASSUME NEW n \in Node, Start(n) PROVE FALSE
    BY <1>2, <2>1 DEF Start, Idle, TreeInv
  <2>2. CASE agents' = agents
    BY <1>2, <2>2 DEF CutInv
  <2>3. ASSUME NEW i \in DOMAIN agents, NEW targets \in Answers(i),
               Turn(i, targets)
        PROVE  Cut(j)
    <3> SUFFICES ASSUME NEW l \in DOMAIN agents'[j].calls,
                        agents'[j].calls[l].state = "too_deep"
                 PROVE  agents'[j].depth = MaxDepth
      OBVIOUS
    <3>1. /\ l \in DOMAIN agents[j].calls
          /\ agents'[j].calls[l] = agents[j].calls[l]
      BY <1>2, <2>3, TurnStep
    <3>2. QED
      BY <1>2, <2>0, <3>1 DEF CutInv
  <2>4. ASSUME NEW i \in DOMAIN agents, NEW k \in DOMAIN agents[i].calls,
               Call(i, k)
        PROVE  Cut(j)
    <3>1. CASE ChildTooDeep(i, k)
      <4>1. Raise(i, k, "too_deep") /\ agents[i].depth + 1 > MaxDepth
        BY <3>1 DEF ChildTooDeep, TooDeep, NextDepth
      <4>2. agents[i].depth \in 0..MaxDepth /\ MaxDepth \in Nat
        BY LimitsAssumption DEF TypeOK, AgentRecords
      <4>3. agents[i].depth = MaxDepth
        BY <4>1, <4>2
      <4>4. OneCall(i, k, "too_deep") /\ (j # i => agents'[j] = agents[j])
        BY <1>2, <4>1, RaiseStep DEF CallStates
      <4>5. QED
        BY <1>2, <2>0, <4>3, <4>4 DEF OneCall, CutInv
    <3>2. ASSUME NEW st \in CallStates, st # "too_deep", OneCall(i, k, st),
                 j # i => agents'[j] = agents[j]
          PROVE  Cut(j)
      BY <1>2, <2>0, <3>2 DEF OneCall, CutInv
    <3>3. CASE ChildMissing(i, k)
      <4>1. Raise(i, k, "missing")
        BY <3>3 DEF ChildMissing
      <4>2. QED
        BY <1>2, <3>2, <4>1, RaiseStep DEF CallStates
    <3>4. CASE ChildOnPath(i, k)
      <4>1. Raise(i, k, "cycle")
        BY <3>4 DEF ChildOnPath
      <4>2. QED
        BY <1>2, <3>2, <4>1, RaiseStep DEF CallStates
    <3>5. CASE ChildBuilt(i, k)
      BY <1>2, <3>2, <3>5, BuiltStep DEF CallStates, Pending
    <3>6. CASE ChildEnds(i, k)
      BY <1>2, <3>2, <3>6, EndStep DEF CallStates
    <3>7. QED
      BY <2>4, <3>1, <3>3, <3>4, <3>5, <3>6 DEF Call
  <2>5. ASSUME NEW outcome, RunEnds(outcome) PROVE FALSE
    <3>1. DOMAIN agents' = {}
      BY <2>5 DEF RunEnds
    <3>2. QED
      BY <1>2, <3>1
  <2>6. QED
    BY <2>1, <2>2, <2>3, <2>4, <2>5, StepsOfAgents
<1>3. QED
  BY <1>1, <1>2 DEF CutInv

-----------------------------------------------------------------------------
LEMMA IInvStays == Spec => []IInv
<1>1. Init => IInv
  BY InitIInv
<1>2. IInv /\ [Next]_vars => IInv'
  <2> SUFFICES ASSUME IInv, [Next]_vars PROVE IInv'
    OBVIOUS
  <2>1. TypeOK' /\ TreeInv'
    BY NextTypeOK, NextTreeInv DEF IInv
  <2>2. PathInv'
    BY <2>1, NextPathInv DEF IInv
  <2>3. TargetInv' /\ FreshInv' /\ RefusedMeansReplaced'
    BY NextTargetInv, NextFreshInv, NextRefused DEF IInv
  <2>4. CutInv'
    BY NextCutInv DEF IInv
  <2>5. QED
    BY <2>1, <2>2, <2>3, <2>4 DEF IInv
<1>3. QED
  BY <1>1, <1>2, PTL DEF Spec

(* The depth of an agent stays within MaxDepth and its calls within its    *)
(* limit: the guard of build_runtime, for every chain of calls.            *)
THEOREM TypeCorrect == Spec => []TypeOK
<1>1. IInv => TypeOK
  BY DEF IInv
<1>2. QED
  BY <1>1, IInvStays, PTL

(* No agent outlives the call it runs for.                                 *)
THEOREM AwaitedHolds == Spec => []Awaited
<1>1. IInv => Awaited
  <2> SUFFICES ASSUME IInv PROVE Awaited
    OBVIOUS
  <2>1. ASSUME NEW i \in DOMAIN agents \ {Root}
        PROVE  \E j \in DOMAIN agents : \E k \in DOMAIN agents[j].calls :
                 i = Callee(j, k) /\ agents[j].calls[k].state = "running"
    <3>1. PICK j \in Callers(i), k \in Nat : j \in Seq(Nat) /\ i = Callee(j, k)
      BY HasCaller DEF IInv, TypeOK
    <3>2. QED
      BY <3>1 DEF IInv, TreeInv
  <2>2. QED
    BY <2>1 DEF IInv, TreeInv, Awaited
<1>2. QED
  BY <1>1, IInvStays, PTL

(* The active path keeps a node from being entered again below itself, for *)
(* every graph published meanwhile.                                        *)
THEOREM NoReentryHolds == Spec => []NoReentry
<1>1. IInv => NoReentry
  BY DEF IInv, TreeInv, PathInv, NoReentry
<1>2. QED
  BY <1>1, IInvStays, PTL

(* The depth counts the different nodes on the path, of which there are at *)
(* most MaxDepth, and calls are cut at the limit, not before.              *)
THEOREM DepthIsPathHolds == Spec => []DepthIsPath
<1>1. IInv => DepthIsPath
  <2> SUFFICES ASSUME IInv, NEW i \in DOMAIN agents
               PROVE  /\ agents[i].depth = Len(i)
                      /\ agents[i].path = {agents[j].node : j \in Callers(i)}
                      /\ Cardinality(agents[i].path) = agents[i].depth
                      /\ Cardinality(agents[i].path) <= MaxDepth
                      /\ CutAtLimit(i)
    BY DEF DepthIsPath
  <2>1. agents[i].depth \in 0..MaxDepth
    BY DEF IInv, TypeOK, AgentRecords
  <2>2. /\ agents[i].depth = Len(i)
        /\ agents[i].path = {agents[j].node : j \in Callers(i)}
        /\ Cardinality(agents[i].path) = agents[i].depth
    BY DEF IInv, PathInv
  <2>3. agents[i].depth <= MaxDepth
    BY <2>1, LimitsAssumption
  <2>4. CutAtLimit(i)
    BY <2>2 DEF IInv, CutInv, CutAtLimit
  <2>5. QED
    BY <2>2, <2>3, <2>4
<1>2. QED
  BY <1>1, IInvStays, PTL

(* The validation at the start of a run is enough while the snapshot is    *)
(* the validated one.                                                      *)
THEOREM RefusedMeansReplacedHolds == Spec => []RefusedMeansReplaced
<1>1. IInv => RefusedMeansReplaced
  BY DEF IInv
<1>2. QED
  BY <1>1, IInvStays, PTL
=============================================================================
