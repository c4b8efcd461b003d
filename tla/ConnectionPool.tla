--------------------------- MODULE ConnectionPool ---------------------------
(***************************************************************************)
(* The connections of one worker.  A request keeps the first connection it *)
(* acquires under its own key, for all its statements, and the middleware  *)
(* gives it back with the last byte of the response; a webhook's           *)
(* background processing does so with a key of its own.  Tool calls of one *)
(* agent turn are tasks that share their request's key.                    *)
(*                                                                         *)
(* The readiness probe releases in the middle of its request: nothing is   *)
(* left under the key, which is as if a new request began.                 *)
(***************************************************************************)
EXTENDS Naturals

CONSTANTS
  Request, NoConn,
  Task, Of,     \* tasks that use the database, and the request of each
  MaxPools,     \* bound: pools a process creates
  Size          \* pool_max_size

ASSUME OfAssumption == Of \in [Task -> Request]
ASSUME SizeAssumption == MaxPools \in Nat \ {0} /\ Size \in Nat \ {0}

Pools == 1..MaxPools
Conn == Pools \X (1..Size)

ASSUME NoConnAssumption == NoConn \notin Conn

VARIABLES
  made,     \* pools created so far
  pool,     \* the one _PoolDriver has, 0 for None
  out,      \* connections checked out of their pools
  broken,   \* those the server has closed
  phase,    \* of a request
  acquires, \* the connection under a request's key
  ret,      \* a connection that is on its way back
  pc,
  from,     \* the pool a task waits at
  hand      \* the connection a task runs a statement on

vars == <<made, pool, out, broken, phase, acquires, ret, pc, from, hand>>

TypeOK ==
  /\ made \in 0..MaxPools /\ pool \in 0..made
  /\ out \subseteq Conn /\ broken \subseteq out
  /\ phase \in [Request -> {"over", "running", "releasing"}]
  /\ acquires \in [Request -> Conn \cup {NoConn}]
  /\ ret \in [Request -> Conn \cup {NoConn}]
  /\ \A r \in Request : phase[r] = "releasing" <=> ret[r] # NoConn
  /\ pc \in [Task -> {"idle", "create", "wait", "use"}]
  /\ from \in [Task -> 0..MaxPools]
  /\ hand \in [Task -> Conn \cup {NoConn}]

Init ==
  /\ made = 0 /\ pool = 0 /\ out = {} /\ broken = {}
  /\ phase = [r \in Request |-> "over"]
  /\ acquires = [r \in Request |-> NoConn]
  /\ ret = [r \in Request |-> NoConn]
  /\ pc = [t \in Task |-> "idle"]
  /\ from = [t \in Task |-> 0]
  /\ hand = [t \in Task |-> NoConn]

Tasks(r) == {t \in Task : Of[t] = r}
Entry(t) == acquires[Of[t]]

-----------------------------------------------------------------------------
(* main_postgres() and _PoolDriver.acquire()                               *)

Start(r) ==
  /\ phase[r] = "over"
  /\ phase' = [phase EXCEPT ![r] = "running"]
  /\ UNCHANGED <<made, pool, out, broken, acquires, ret, pc, from, hand>>

(* A connection under the key that is not broken serves again.             *)
Reuse(t) ==
  /\ pc[t] = "idle" /\ phase[Of[t]] = "running"
  /\ Entry(t) # NoConn /\ Entry(t) \notin broken
  /\ pc' = [pc EXCEPT ![t] = "use"]
  /\ hand' = [hand EXCEPT ![t] = Entry(t)]
  /\ UNCHANGED <<made, pool, out, broken, phase, acquires, ret, from>>

(* No pool yet: create_pool, which awaits its first connections.           *)
Ask(t) ==
  /\ pc' = [pc EXCEPT ![t] = IF pool = 0 THEN "create" ELSE "wait"]
  /\ from' = [from EXCEPT ![t] = pool]

(* Mutant: the map is not looked at before acquiring.                      *)
MissAlways(t) ==
  /\ pc[t] = "idle" /\ phase[Of[t]] = "running"
  /\ Ask(t)
  /\ UNCHANGED <<made, pool, out, broken, phase, acquires, ret, hand>>

Miss(t) ==
  /\ pc[t] = "idle" /\ phase[Of[t]] = "running"
  /\ Entry(t) = NoConn
  /\ Ask(t)
  /\ UNCHANGED <<made, pool, out, broken, phase, acquires, ret, hand>>

(* Mutant: a broken entry is dropped without terminate().                  *)
EvictOnly(t) ==
  /\ pc[t] = "idle" /\ phase[Of[t]] = "running"
  /\ Entry(t) \in broken
  /\ acquires' = [acquires EXCEPT ![Of[t]] = NoConn]
  /\ Ask(t)
  /\ UNCHANGED <<made, pool, out, broken, phase, ret, hand>>

(* A broken one is evicted: terminate() empties its place in the pool and  *)
(* detaches it from every wrapper.                                         *)
Evict(t) ==
  LET c == Entry(t) IN
  /\ pc[t] = "idle" /\ phase[Of[t]] = "running"
  /\ c \in broken
  /\ acquires' = [acquires EXCEPT ![Of[t]] = NoConn]
  /\ out' = out \ {c}
  /\ broken' = broken \ {c}
  /\ hand' = [s \in Task |-> IF hand[s] = c THEN NoConn ELSE hand[s]]
  /\ Ask(t)
  /\ UNCHANGED <<made, pool, phase, ret>>

(* Whoever found no pool installs the one it created, over another's.      *)
Create(t) ==
  /\ pc[t] = "create" /\ made < MaxPools
  /\ made' = made + 1
  /\ pool' = made + 1
  /\ from' = [from EXCEPT ![t] = made + 1]
  /\ pc' = [pc EXCEPT ![t] = "wait"]
  /\ UNCHANGED <<out, broken, phase, acquires, ret, hand>>

(* A free place, or a timeout; the entry is written without another look.  *)
Acquire(t) ==
  /\ pc[t] = "wait"
  /\ \E c \in ({from[t]} \X (1..Size)) \ out :
       /\ out' = out \cup {c}
       /\ acquires' = [acquires EXCEPT ![Of[t]] = c]
       /\ hand' = [hand EXCEPT ![t] = c]
  /\ pc' = [pc EXCEPT ![t] = "use"]
  /\ UNCHANGED <<made, pool, broken, phase, ret, from>>

Fail(t) ==
  /\ pc[t] \in {"create", "wait"}
  /\ pc' = [pc EXCEPT ![t] = "idle"]
  /\ UNCHANGED <<made, pool, out, broken, phase, acquires, ret, from, hand>>

(* The statement returns or raises.                                        *)
Done(t) ==
  /\ pc[t] = "use"
  /\ pc' = [pc EXCEPT ![t] = "idle"]
  /\ hand' = [hand EXCEPT ![t] = NoConn]
  /\ UNCHANGED <<made, pool, out, broken, phase, acquires, ret, from>>

Break(c) ==
  /\ c \in out
  /\ broken' = broken \cup {c}
  /\ UNCHANGED <<made, pool, out, phase, acquires, ret, pc, from, hand>>

-----------------------------------------------------------------------------
(* main_release_postgres() and _PoolDriver.release()                       *)

AtRest(r) == phase[r] = "running" /\ \A t \in Tasks(r) : pc[t] = "idle"

(* Mutant: no look whether there was an entry.                             *)
EndBlindly(r) ==
  /\ AtRest(r)
  /\ ret' = [ret EXCEPT ![r] = acquires[r]]
  /\ acquires' = [acquires EXCEPT ![r] = NoConn]
  /\ phase' = [phase EXCEPT ![r] = "releasing"]
  /\ UNCHANGED <<made, pool, out, broken, pc, from, hand>>

(* Mutant: the entry is read and not popped.                               *)
EndUnpopped(r) ==
  /\ AtRest(r)
  /\ ret' = [ret EXCEPT ![r] = acquires[r]]
  /\ phase' = [phase EXCEPT ![r] =
                 IF acquires[r] = NoConn THEN "over" ELSE "releasing"]
  /\ UNCHANGED <<made, pool, out, broken, acquires, pc, from, hand>>

(* The last byte is sent, or the processing is over, with an error or not. *)
End(r) ==
  /\ AtRest(r)
  /\ ret' = [ret EXCEPT ![r] = acquires[r]]
  /\ acquires' = [acquires EXCEPT ![r] = NoConn]
  /\ phase' = [phase EXCEPT ![r] =
                 IF acquires[r] = NoConn THEN "over" ELSE "releasing"]
  /\ UNCHANGED <<made, pool, out, broken, pc, from, hand>>

(* Mutant: the connection is not given back.                               *)
ReturnForgotten(r) ==
  /\ phase[r] = "releasing"
  /\ ret' = [ret EXCEPT ![r] = NoConn]
  /\ phase' = [phase EXCEPT ![r] = "over"]
  /\ UNCHANGED <<made, pool, out, broken, acquires, pc, from, hand>>

(* A pool refuses another's connection.  The eviction that answers this    *)
(* finds nothing under the key, and the connection stays checked out.      *)
Return(r) ==
  LET back == IF ret[r][1] = pool THEN {ret[r]} ELSE {} IN
  /\ phase[r] = "releasing"
  /\ out' = out \ back
  /\ broken' = broken \ back
  /\ ret' = [ret EXCEPT ![r] = NoConn]
  /\ phase' = [phase EXCEPT ![r] = "over"]
  /\ UNCHANGED <<made, pool, acquires, pc, from, hand>>

-----------------------------------------------------------------------------
Statement(t) == Reuse(t) \/ Miss(t) \/ Evict(t)
Connect(t) == Create(t) \/ Acquire(t)

Next ==
  \/ \E t \in Task : Statement(t) \/ Connect(t) \/ Fail(t) \/ Done(t)
  \/ \E r \in Request : Start(r) \/ End(r) \/ Return(r)
  \/ \E c \in Conn : Break(c)

Spec == Init /\ [][Next]_vars

(* Statements return and connections are given back.  A request executes   *)
(* finitely many statements, hence SF for its end; a pool serves those who *)
(* wait in the order they came, hence SF for each.  No timeout is needed.  *)
Fairness ==
  /\ \A t \in Task : WF_vars(Done(t)) /\ SF_vars(Acquire(t))
  /\ \A r \in Request : SF_vars(End(r)) /\ WF_vars(Return(r))
FairSpec == Spec /\ Fairness

-----------------------------------------------------------------------------
(* What the pool promises.                                                 *)

(* A request has one task.                                                 *)
Serial == \A s, t \in Task : Of[s] = Of[t] => s = t

Has(r, c) ==
  acquires[r] = c \/ ret[r] = c \/ \E t \in Tasks(r) : hand[t] = c

(* A request never works with, or keeps, a connection that another one     *)
(* works with, keeps or is giving back, whatever breaks and times out and  *)
(* however many tool calls share its key.                                  *)
OneRequestPerConnection ==
  \A r, q \in Request, c \in Conn : Has(r, c) /\ Has(q, c) => r = q

(* Every place of the pool that is taken is taken for a request that will  *)
(* give it back.                                                           *)
CurrentPoolKeepsAll ==
  \A c \in out : c[1] = pool =>
    \E r \in Request : acquires[r] = c \/ ret[r] = c

(* A request that waits for a connection has none, so that no two requests *)
(* wait for each other.                                                    *)
NoHoldAndWait ==
  \A t \in Task : pc[t] \in {"create", "wait"} =>
    Entry(t) = NoConn /\ ret[Of[t]] = NoConn

(* Who waits at the pool in use is served without a timeout, although runs *)
(* keep their connection while they wait for a model.                      *)
WaitIsServed ==
  \A t \in Task :
    pc[t] = "wait" /\ from[t] = pool ~> pc[t] # "wait" \/ from[t] # pool

(* A request "explicitly release[s] every connection it acquires"          *)
(* (channel_webhook_service.py): one that works and that nobody is to give *)
(* back is lost.                                                           *)
NothingLost ==
  \A c \in out \ broken : \E r \in Request : acquires[r] = c \/ ret[r] = c

-----------------------------------------------------------------------------
(* The inductive invariant.                                                *)

(* What a request has is checked out, and it has it only while it runs.    *)
HoldInv ==
  /\ \A r \in Request :
       /\ acquires[r] # NoConn => acquires[r] \in out /\ phase[r] = "running"
       /\ ret[r] # NoConn => ret[r] \in out
  /\ \A t \in Task :
       /\ pc[t] # "idle" => phase[Of[t]] = "running"
       /\ hand[t] # NoConn => hand[t] \in out /\ pc[t] = "use"

(* Connections belong to pools that exist.                                 *)
PoolInv ==
  /\ \A c \in out : c[1] \in 1..made
  /\ \A t \in Task : from[t] \in 0..made
  /\ \A t \in Task : pc[t] = "wait" => from[t] # 0

IInv ==
  /\ TypeOK /\ HoldInv /\ PoolInv /\ OneRequestPerConnection
  /\ Serial => NoHoldAndWait /\ CurrentPoolKeepsAll
=============================================================================
