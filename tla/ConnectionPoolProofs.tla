------------------------ MODULE ConnectionPoolProofs ------------------------
(***************************************************************************)
(* Proofs about ConnectionPool: its types and OneRequestPerConnection for  *)
(* any tasks per request; CurrentPoolKeepsAll and NoHoldAndWait where      *)
(* every request has one task (Serial).                                    *)
(***************************************************************************)
EXTENDS ConnectionPool, TLAPS

(* A stuttering step and the steps of Next, to be split where needed.      *)
LEMMA Steps ==
  ASSUME [Next]_vars
  PROVE  \/ \E t \in Task : \/ Reuse(t) \/ Miss(t) \/ Evict(t) \/ Create(t)
                            \/ Acquire(t) \/ Fail(t) \/ Done(t)
         \/ \E r \in Request : Start(r) \/ End(r) \/ Return(r)
         \/ \E c \in Conn : Break(c)
         \/ UNCHANGED vars
BY DEF Next, Statement, Connect

LEMMA InitHolds == Init => IInv
<1> SUFFICES ASSUME Init PROVE IInv
  OBVIOUS
<1> USE DEF Init
<1>1. TypeOK
  BY SizeAssumption DEF TypeOK
<1>2. HoldInv /\ PoolInv
  BY DEF HoldInv, PoolInv
<1>3. OneRequestPerConnection
  BY NoConnAssumption DEF OneRequestPerConnection, Has, Tasks
<1>4. NoHoldAndWait /\ CurrentPoolKeepsAll
  BY DEF NoHoldAndWait, CurrentPoolKeepsAll
<1>5. QED
  BY <1>1, <1>2, <1>3, <1>4 DEF IInv

-----------------------------------------------------------------------------
(* Types.                                                                  *)

LEMMA TypeStep ==
  ASSUME TypeOK, HoldInv, PoolInv, [Next]_vars
  PROVE  TypeOK'
<1> USE OfAssumption, SizeAssumption, NoConnAssumption DEF TypeOK
<1>1. ASSUME NEW t \in Task, Reuse(t) PROVE TypeOK'
  BY <1>1 DEF Reuse, Entry
<1>2. ASSUME NEW t \in Task, Miss(t) PROVE TypeOK'
  BY <1>2 DEF Miss, Ask
<1>3. ASSUME NEW t \in Task, Evict(t) PROVE TypeOK'
  BY <1>3 DEF Evict, Ask
<1>4. ASSUME NEW t \in Task, Create(t) PROVE TypeOK'
  BY <1>4 DEF Create
<1>5. ASSUME NEW t \in Task, Acquire(t) PROVE TypeOK'
  <2>1. PICK c \in ({from[t]} \X (1..Size)) \ out :
          /\ out' = out \cup {c}
          /\ acquires' = [acquires EXCEPT ![Of[t]] = c]
          /\ hand' = [hand EXCEPT ![t] = c]
    BY <1>5 DEF Acquire
  <2>2. c \in Conn
    <3>1. from[t] \in 1..MaxPools
      BY <1>5 DEF Acquire, PoolInv
    <3>2. QED
      BY <3>1 DEF Conn, Pools
  <2>3. QED
    BY <1>5, <2>1, <2>2 DEF Acquire
<1>6. ASSUME NEW t \in Task, Fail(t) PROVE TypeOK'
  BY <1>6 DEF Fail
<1>7. ASSUME NEW t \in Task, Done(t) PROVE TypeOK'
  BY <1>7 DEF Done
<1>8. ASSUME NEW r \in Request, Start(r) PROVE TypeOK'
  BY <1>8 DEF Start
<1>9. ASSUME NEW r \in Request, End(r) PROVE TypeOK'
  BY <1>9 DEF End, AtRest
<1>10. ASSUME NEW r \in Request, Return(r) PROVE TypeOK'
  BY <1>10 DEF Return
<1>11. ASSUME NEW c \in Conn, Break(c) PROVE TypeOK'
  BY <1>11 DEF Break
<1>12. ASSUME UNCHANGED vars PROVE TypeOK'
  BY <1>12 DEF vars
<1>13. QED
  BY <1>1, <1>2, <1>3, <1>4, <1>5, <1>6, <1>7, <1>8, <1>9, <1>10, <1>11,
     <1>12, Steps

LEMMA PoolStep ==
  ASSUME TypeOK, PoolInv, [Next]_vars
  PROVE  PoolInv'
<1> USE DEF TypeOK, PoolInv
<1>1. ASSUME NEW t \in Task, Reuse(t) PROVE PoolInv'
  BY <1>1 DEF Reuse
<1>2. ASSUME NEW t \in Task, Miss(t) PROVE PoolInv'
  BY <1>2 DEF Miss, Ask
<1>3. ASSUME NEW t \in Task, Evict(t) PROVE PoolInv'
  BY <1>3 DEF Evict, Ask
<1>4. ASSUME NEW t \in Task, Create(t) PROVE PoolInv'
  BY <1>4 DEF Create
<1>5. ASSUME NEW t \in Task, Acquire(t) PROVE PoolInv'
  <2>1. from[t] \in 1..made
    BY <1>5 DEF Acquire
  <2>2. PICK c \in {from[t]} \X (1..Size) : out' = out \cup {c}
    BY <1>5 DEF Acquire
  <2>3. c[1] \in 1..made
    BY <2>1, <2>2
  <2>4. QED
    BY <1>5, <2>2, <2>3 DEF Acquire
<1>6. ASSUME NEW t \in Task, Fail(t) PROVE PoolInv'
  BY <1>6 DEF Fail
<1>7. ASSUME NEW t \in Task, Done(t) PROVE PoolInv'
  BY <1>7 DEF Done
<1>8. ASSUME NEW r \in Request, Start(r) PROVE PoolInv'
  BY <1>8 DEF Start
<1>9. ASSUME NEW r \in Request, End(r) PROVE PoolInv'
  BY <1>9 DEF End
<1>10. ASSUME NEW r \in Request, Return(r) PROVE PoolInv'
  BY <1>10 DEF Return
<1>11. ASSUME NEW c \in Conn, Break(c) PROVE PoolInv'
  BY <1>11 DEF Break
<1>12. ASSUME UNCHANGED vars PROVE PoolInv'
  BY <1>12 DEF vars
<1>13. QED
  BY <1>1, <1>2, <1>3, <1>4, <1>5, <1>6, <1>7, <1>8, <1>9, <1>10, <1>11,
     <1>12, Steps

-----------------------------------------------------------------------------
(* Who has which connection.                                               *)

(* What a request has is checked out.                                      *)
LEMMA HadIsOut ==
  ASSUME HoldInv, NEW r \in Request, NEW c \in Conn, Has(r, c)
  PROVE  c \in out
BY NoConnAssumption DEF HoldInv, Has, Tasks

(* Nobody else has what a request is giving back, and no task uses it.     *)
LEMMA ReturnedIsFree ==
  ASSUME TypeOK, HoldInv, OneRequestPerConnection,
         NEW r \in Request, phase[r] = "releasing",
         NEW q \in Request, Has(q, ret[r])
  PROVE  /\ q = r
         /\ acquires[r] # ret[r]
         /\ \A t \in Task : hand[t] # ret[r]
<1>1. ret[r] \in Conn /\ Has(r, ret[r])
  BY DEF TypeOK, Has
<1>2. q = r
  BY <1>1 DEF OneRequestPerConnection
<1>3. acquires[r] # ret[r]
  BY <1>1, NoConnAssumption DEF HoldInv
<1>4. ASSUME NEW t \in Task, hand[t] = ret[r]
      PROVE  FALSE
  <2>1. Of[t] \in Request /\ Has(Of[t], ret[r])
    BY <1>4, OfAssumption DEF Has, Tasks
  <2>2. Of[t] = r
    BY <1>1, <2>1 DEF OneRequestPerConnection
  <2>3. phase[Of[t]] = "running"
    BY <1>1, <1>4, NoConnAssumption DEF HoldInv
  <2>4. QED
    BY <2>2, <2>3
<1>5. QED
  BY <1>2, <1>3, <1>4

(* The same of an entry that is evicted, but for tasks of its request.     *)
LEMMA EvictedIsFree ==
  ASSUME TypeOK, HoldInv, OneRequestPerConnection,
         NEW t \in Task, Entry(t) \in broken,
         NEW q \in Request, acquires[q] = Entry(t) \/ ret[q] = Entry(t)
  PROVE  q = Of[t] /\ ret[q] # Entry(t)
<1>1. Of[t] \in Request /\ Entry(t) \in Conn /\ Has(Of[t], Entry(t))
  BY OfAssumption DEF TypeOK, Has, Entry
<1>2. Has(q, Entry(t))
  BY DEF Has
<1>3. q = Of[t]
  BY <1>1, <1>2 DEF OneRequestPerConnection
<1>4. ret[Of[t]] = NoConn
  BY <1>1, NoConnAssumption DEF HoldInv, TypeOK, Entry
<1>5. QED
  BY <1>1, <1>3, <1>4, NoConnAssumption

LEMMA HoldStep ==
  ASSUME TypeOK, HoldInv, OneRequestPerConnection, [Next]_vars
  PROVE  HoldInv'
<1> USE OfAssumption, NoConnAssumption DEF TypeOK, HoldInv
<1>1. ASSUME NEW t \in Task, Reuse(t) PROVE HoldInv'
  BY <1>1 DEF Reuse, Entry
<1>2. ASSUME NEW t \in Task, Miss(t) PROVE HoldInv'
  BY <1>2 DEF Miss, Ask
<1>3. ASSUME NEW t \in Task, Evict(t) PROVE HoldInv'
  <2>1. Entry(t) \in broken /\ Entry(t) \in Conn
    BY <1>3 DEF Evict
  <2>2. \A q \in Request :
          /\ acquires[q] = Entry(t) => q = Of[t]
          /\ ret[q] # Entry(t)
    BY <2>1, EvictedIsFree
  <2>3. QED
    BY <1>3, <2>1, <2>2 DEF Evict, Ask, Entry
<1>4. ASSUME NEW t \in Task, Create(t) PROVE HoldInv'
  BY <1>4 DEF Create
<1>5. ASSUME NEW t \in Task, Acquire(t) PROVE HoldInv'
  <2>1. PICK c : /\ out' = out \cup {c}
                 /\ acquires' = [acquires EXCEPT ![Of[t]] = c]
                 /\ hand' = [hand EXCEPT ![t] = c]
    BY <1>5 DEF Acquire
  <2>2. QED
    BY <1>5, <2>1 DEF Acquire
<1>6. ASSUME NEW t \in Task, Fail(t) PROVE HoldInv'
  BY <1>6 DEF Fail
<1>7. ASSUME NEW t \in Task, Done(t) PROVE HoldInv'
  BY <1>7 DEF Done
<1>8. ASSUME NEW r \in Request, Start(r) PROVE HoldInv'
  BY <1>8 DEF Start
<1>9. ASSUME NEW r \in Request, End(r) PROVE HoldInv'
  BY <1>9 DEF End, AtRest, Tasks
<1>10. ASSUME NEW r \in Request, Return(r) PROVE HoldInv'
  <2>1. \A q \in Request :
          /\ acquires[q] # ret[r]
          /\ ret[q] = ret[r] => q = r
    BY <1>10, ReturnedIsFree DEF Return, Has
  <2>2. \A t \in Task : hand[t] # ret[r]
    BY <1>10, ReturnedIsFree DEF Return, Has
  <2>3. phase[r] = "releasing" /\ acquires[r] = NoConn
    BY <1>10 DEF Return
  <2>4. \A t \in Task : pc[t] # "idle" => Of[t] # r
    BY <2>3
  <2>5. QED
    BY <1>10, <2>1, <2>2, <2>3, <2>4 DEF Return
<1>11. ASSUME NEW c \in Conn, Break(c) PROVE HoldInv'
  BY <1>11 DEF Break
<1>12. ASSUME UNCHANGED vars PROVE HoldInv'
  BY <1>12 DEF vars
<1>13. QED
  BY <1>1, <1>2, <1>3, <1>4, <1>5, <1>6, <1>7, <1>8, <1>9, <1>10, <1>11,
     <1>12, Steps

(* Only Acquire gives a request a connection, and one nobody has.          *)
LEMMA NothingGained ==
  ASSUME TypeOK, [Next]_vars, \A t \in Task : ~Acquire(t),
         NEW q \in Request, NEW c \in Conn, Has(q, c)'
  PROVE  Has(q, c)
<1> USE OfAssumption, NoConnAssumption DEF TypeOK, Has, Tasks
<1>1. ASSUME NEW t \in Task, Reuse(t) PROVE Has(q, c)
  BY <1>1 DEF Reuse, Entry
<1>2. ASSUME NEW t \in Task, Miss(t) PROVE Has(q, c)
  BY <1>2 DEF Miss
<1>3. ASSUME NEW t \in Task, Evict(t) PROVE Has(q, c)
  BY <1>3 DEF Evict
<1>4. ASSUME NEW t \in Task, Create(t) \/ Fail(t) PROVE Has(q, c)
  BY <1>4 DEF Create, Fail
<1>5. ASSUME NEW t \in Task, Done(t) PROVE Has(q, c)
  BY <1>5 DEF Done
<1>6. ASSUME NEW r \in Request, Start(r) PROVE Has(q, c)
  BY <1>6 DEF Start
<1>7. ASSUME NEW r \in Request, End(r) PROVE Has(q, c)
  BY <1>7 DEF End
<1>8. ASSUME NEW r \in Request, Return(r) PROVE Has(q, c)
  BY <1>8 DEF Return
<1>9. ASSUME NEW d \in Conn, Break(d) PROVE Has(q, c)
  BY <1>9 DEF Break
<1>10. ASSUME UNCHANGED vars PROVE Has(q, c)
  BY <1>10 DEF vars
<1>11. QED
  BY <1>1, <1>2, <1>3, <1>4, <1>5, <1>6, <1>7, <1>8, <1>9, <1>10, Steps

LEMMA AcquiredIsNew ==
  ASSUME TypeOK, HoldInv, NEW t \in Task, Acquire(t)
  PROVE  \E d : \A q \in Request, c \in Conn :
           Has(q, c)' => \/ c # d /\ Has(q, c)
                         \/ c = d /\ q = Of[t]
<1>1. PICK d \in ({from[t]} \X (1..Size)) \ out :
        /\ acquires' = [acquires EXCEPT ![Of[t]] = d]
        /\ hand' = [hand EXCEPT ![t] = d]
  BY DEF Acquire
<1>2. ASSUME NEW q \in Request, NEW c \in Conn, Has(q, c)'
      PROVE  \/ c # d /\ Has(q, c)
             \/ c = d /\ q = Of[t]
  <2>1. ret' = ret
    BY DEF Acquire
  <2>2. CASE c # d
    BY <1>1, <1>2, <2>1, <2>2, OfAssumption DEF Has, Tasks, TypeOK
  <2>3. CASE c = d
    <3>1. ~Has(q, c)
      BY <1>1, <2>3, HadIsOut
    <3>2. QED
      BY <1>1, <1>2, <2>1, <2>3, <3>1, OfAssumption DEF Has, Tasks, TypeOK
  <2>4. QED
    BY <2>2, <2>3
<1>3. QED
  BY <1>2

LEMMA ExclusiveStep ==
  ASSUME TypeOK, HoldInv, OneRequestPerConnection, [Next]_vars
  PROVE  OneRequestPerConnection'
<1>1. CASE \A t \in Task : ~Acquire(t)
  <2> SUFFICES ASSUME NEW r \in Request, NEW q \in Request, NEW c \in Conn,
                      Has(r, c)', Has(q, c)'
               PROVE  r = q
    BY DEF OneRequestPerConnection
  <2>1. Has(r, c) /\ Has(q, c)
    BY <1>1, NothingGained
  <2>2. QED
    BY <2>1 DEF OneRequestPerConnection
<1>2. ASSUME NEW t \in Task, Acquire(t)
      PROVE  OneRequestPerConnection'
  <2>1. PICK d : \A q \in Request, c \in Conn :
                   Has(q, c)' => \/ c # d /\ Has(q, c)
                                 \/ c = d /\ q = Of[t]
    BY <1>2, AcquiredIsNew
  <2>2. QED
    BY <2>1 DEF OneRequestPerConnection
<1>3. QED
  BY <1>1, <1>2

-----------------------------------------------------------------------------
(* Requests of one task.                                                   *)

LEMMA NoHoldStep ==
  ASSUME TypeOK, HoldInv, Serial, NoHoldAndWait, [Next]_vars
  PROVE  NoHoldAndWait'
<1> USE OfAssumption, NoConnAssumption
    DEF TypeOK, HoldInv, Serial, NoHoldAndWait, Entry
<1>1. ASSUME NEW t \in Task, Reuse(t) PROVE NoHoldAndWait'
  BY <1>1 DEF Reuse
<1>2. ASSUME NEW t \in Task, Miss(t) PROVE NoHoldAndWait'
  <2>1. ret[Of[t]] = NoConn
    BY <1>2 DEF Miss
  <2>2. QED
    BY <1>2, <2>1 DEF Miss, Ask
<1>3. ASSUME NEW t \in Task, Evict(t) PROVE NoHoldAndWait'
  <2>1. ret[Of[t]] = NoConn
    BY <1>3 DEF Evict
  <2>2. QED
    BY <1>3, <2>1 DEF Evict, Ask
<1>4. ASSUME NEW t \in Task, Create(t) PROVE NoHoldAndWait'
  BY <1>4 DEF Create
<1>5. ASSUME NEW t \in Task, Acquire(t) PROVE NoHoldAndWait'
  <2>1. PICK c : acquires' = [acquires EXCEPT ![Of[t]] = c]
    BY <1>5 DEF Acquire
  <2>2. QED
    BY <1>5, <2>1 DEF Acquire
<1>6. ASSUME NEW t \in Task, Fail(t) \/ Done(t) PROVE NoHoldAndWait'
  BY <1>6 DEF Fail, Done
<1>7. ASSUME NEW r \in Request, Start(r) PROVE NoHoldAndWait'
  BY <1>7 DEF Start
<1>8. ASSUME NEW r \in Request, End(r) PROVE NoHoldAndWait'
  BY <1>8 DEF End, AtRest, Tasks
<1>9. ASSUME NEW r \in Request, Return(r) PROVE NoHoldAndWait'
  BY <1>9 DEF Return
<1>10. ASSUME NEW c \in Conn, Break(c) PROVE NoHoldAndWait'
  BY <1>10 DEF Break
<1>11. ASSUME UNCHANGED vars PROVE NoHoldAndWait'
  BY <1>11 DEF vars
<1>12. QED
  BY <1>1, <1>2, <1>3, <1>4, <1>5, <1>6, <1>7, <1>8, <1>9, <1>10, <1>11,
     Steps

LEMMA KeepsStep ==
  ASSUME TypeOK, HoldInv, PoolInv, NoHoldAndWait, CurrentPoolKeepsAll,
         [Next]_vars
  PROVE  CurrentPoolKeepsAll'
<1> USE OfAssumption, NoConnAssumption DEF TypeOK, CurrentPoolKeepsAll
<1>1. ASSUME NEW t \in Task, Reuse(t) PROVE CurrentPoolKeepsAll'
  BY <1>1 DEF Reuse
<1>2. ASSUME NEW t \in Task, Miss(t) PROVE CurrentPoolKeepsAll'
  BY <1>2 DEF Miss
<1>3. ASSUME NEW t \in Task, Evict(t) PROVE CurrentPoolKeepsAll'
  BY <1>3 DEF Evict, Entry
<1>4. ASSUME NEW t \in Task, Create(t) PROVE CurrentPoolKeepsAll'
  <2>1. pool' = made + 1 /\ out' = out
    BY <1>4 DEF Create
  <2>2. \A c \in out : c[1] # made + 1
    BY DEF PoolInv
  <2>3. QED
    BY <2>1, <2>2
<1>5. ASSUME NEW t \in Task, Acquire(t) PROVE CurrentPoolKeepsAll'
  <2>1. PICK d : /\ out' = out \cup {d}
                 /\ acquires' = [acquires EXCEPT ![Of[t]] = d]
    BY <1>5 DEF Acquire
  <2>2. acquires[Of[t]] = NoConn /\ ret' = ret /\ pool' = pool
    BY <1>5 DEF Acquire, NoHoldAndWait, Entry
  <2>3. NoConn \notin out
    OBVIOUS
  <2>4. QED
    BY <2>1, <2>2, <2>3
<1>6. ASSUME NEW t \in Task, Fail(t) \/ Done(t) PROVE CurrentPoolKeepsAll'
  BY <1>6 DEF Fail, Done
<1>7. ASSUME NEW r \in Request, Start(r) PROVE CurrentPoolKeepsAll'
  BY <1>7 DEF Start
<1>8. ASSUME NEW r \in Request, End(r) PROVE CurrentPoolKeepsAll'
  <2>1. ret[r] = NoConn
    BY <1>8 DEF End, AtRest
  <2>2. QED
    BY <1>8, <2>1 DEF End
<1>9. ASSUME NEW r \in Request, Return(r) PROVE CurrentPoolKeepsAll'
  BY <1>9 DEF Return
<1>10. ASSUME NEW c \in Conn, Break(c) PROVE CurrentPoolKeepsAll'
  BY <1>10 DEF Break
<1>11. ASSUME UNCHANGED vars PROVE CurrentPoolKeepsAll'
  BY <1>11 DEF vars
<1>12. QED
  BY <1>1, <1>2, <1>3, <1>4, <1>5, <1>6, <1>7, <1>8, <1>9, <1>10, <1>11,
     Steps

-----------------------------------------------------------------------------
LEMMA IInvStays == Spec => []IInv
<1>1. Init => IInv
  BY InitHolds
<1>2. IInv /\ [Next]_vars => IInv'
  <2> SUFFICES ASSUME IInv, [Next]_vars PROVE IInv'
    OBVIOUS
  <2>1. TypeOK' /\ HoldInv' /\ PoolInv' /\ OneRequestPerConnection'
    BY TypeStep, HoldStep, PoolStep, ExclusiveStep DEF IInv
  <2>2. ASSUME Serial PROVE NoHoldAndWait' /\ CurrentPoolKeepsAll'
    BY <2>2, NoHoldStep, KeepsStep DEF IInv
  <2>3. QED
    BY <2>1, <2>2 DEF IInv, Serial
<1>3. QED
  BY <1>1, <1>2, PTL DEF Spec

(* Variables keep their types; a request has a connection on its way back  *)
(* exactly while it releases.                                              *)
THEOREM TypeCorrect == Spec => []TypeOK
<1>1. IInv => TypeOK
  BY DEF IInv
<1>2. QED
  BY <1>1, IInvStays, PTL

(* No connection serves two requests, however many tool calls run.         *)
THEOREM OneRequestPerConnectionHolds == Spec => []OneRequestPerConnection
<1>1. IInv => OneRequestPerConnection
  BY DEF IInv
<1>2. QED
  BY <1>1, IInvStays, PTL

(* Without concurrent tool calls, the pool in use loses no place.          *)
THEOREM CurrentPoolKeepsAllHolds ==
  ASSUME Serial
  PROVE  Spec => []CurrentPoolKeepsAll
<1>1. IInv => CurrentPoolKeepsAll
  BY Serial DEF IInv
<1>2. QED
  BY <1>1, IInvStays, PTL

(* Without concurrent tool calls, who waits for a connection has none.     *)
THEOREM NoHoldAndWaitHolds ==
  ASSUME Serial
  PROVE  Spec => []NoHoldAndWait
<1>1. IInv => NoHoldAndWait
  BY Serial DEF IInv
<1>2. QED
  BY <1>1, IInvStays, PTL
=============================================================================
