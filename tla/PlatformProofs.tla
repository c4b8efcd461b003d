--------------------------- MODULE PlatformProofs ---------------------------
(***************************************************************************)
(* What holds of the parts of Platform for every number of clerks, rows,   *)
(* callers and so on.  A behaviour of Platform is one of each part         *)
(* (PartsMove); each part has an inductive invariant, which is proved for  *)
(* the part's own specification and then carried over to Platform's.       *)
(***************************************************************************)
EXTENDS Platform, FiniteSetTheorems, SequenceTheorems, TLAPS

(* Of two elements, the set that has both has more than one.               *)
LEMMA TwoElements ==
  ASSUME NEW S, IsFiniteSet(S), NEW a \in S, NEW b \in S, a # b
  PROVE  Cardinality(S) > 1
<1>1. IsFiniteSet(S \ {a}) /\ Cardinality(S \ {a}) = Cardinality(S) - 1
  BY FS_RemoveElement
<1>2. Cardinality(S \ {a}) # 0
  BY <1>1, FS_EmptySet
<1>3. Cardinality(S) \in Nat /\ Cardinality(S \ {a}) \in Nat
  BY <1>1, FS_CardinalityType
<1>4. QED
  BY <1>1, <1>2, <1>3

(* A set with elements of one kind only has at most one.                   *)
LEMMA AtMostOne ==
  ASSUME NEW S, \A a \in S, b \in S : a = b
  PROVE  IsFiniteSet(S) /\ Cardinality(S) <= 1
<1>1. CASE S = {}
  BY <1>1, FS_EmptySet
<1>2. CASE S # {}
  <2>1. PICK a : S = {a}
    BY <1>2
  <2>2. IsFiniteSet({a}) /\ Cardinality({a}) = 1
    BY FS_Singleton
  <2>3. QED
    BY <2>1, <2>2
<1>3. QED
  BY <1>1, <1>2

(* The rows of a table whose ids are given out in order.                   *)
Prefix(S) == \E n \in Nat : S = 1..n

LEMMA PrefixNext ==
  ASSUME NEW S, Prefix(S)
  PROVE  /\ IsFiniteSet(S) /\ Cardinality(S) + 1 \notin S
         /\ Prefix(S \cup {Cardinality(S) + 1})
<1>1. PICK n \in Nat : S = 1..n
  BY DEF Prefix
<1>2. IsFiniteSet(S) /\ Cardinality(S) = n
  BY <1>1, FS_Interval
<1>3. S \cup {n + 1} = 1..n + 1
  BY <1>1
<1>4. QED
  BY <1>1, <1>2, <1>3 DEF Prefix

-----------------------------------------------------------------------------
(* Platform implements its parts                                           *)

(* Every step of Platform is a step, or a stutter, of each part.           *)
LEMMA PartsMove ==
  ASSUME [Next]_platformVars
  PROVE  /\ [ToolAdminNext]_toolAdminVars /\ [McpAdminNext]_mcpAdminVars
         /\ [ChannelAdminNext]_channelAdminVars /\ [ApiKeysNext]_apiKeysVars
         /\ [CatalogueNext]_catalogueVars /\ [StartupNext]_startupVars
         /\ [TokenNext]_tokenVars /\ [McpSessionsNext]_mcpSessionsVars
         /\ [RunContextNext]_runContextVars /\ [ToolCallNext]_toolCallVars
         /\ [ToolParamsNext]_toolParamsVars /\ [PlatformRunNext]_platformRunVars
<1>1. CASE Next
  BY <1>1 DEF Next, Keep, CatalogueNext
<1>2. CASE UNCHANGED platformVars
  BY <1>2 DEF platformVars
<1>3. QED
  BY <1>1, <1>2

(* So a behaviour of Platform is one of every part.                        *)
THEOREM ImplementsParts ==
  Spec => /\ ToolAdminSpec /\ McpAdminSpec /\ ChannelAdminSpec /\ ApiKeysSpec
          /\ CatalogueSpec /\ StartupSpec /\ TokenSpec /\ McpSessionsSpec
          /\ RunContextSpec /\ ToolCallSpec /\ ToolParamsSpec
          /\ PlatformRunSpec
<1>1. Init => /\ ToolAdminInit /\ McpAdminInit /\ ChannelAdminInit
              /\ ApiKeysInit /\ CatalogueInit /\ StartupInit /\ TokenInit
              /\ McpSessionsInit /\ RunContextInit /\ ToolCallInit
              /\ ToolParamsInit /\ PlatformRunInit
  BY DEF Init
<1>2. QED
  BY <1>1, PartsMove, PTL DEF Spec, ToolAdminSpec, McpAdminSpec,
    ChannelAdminSpec, ApiKeysSpec, CatalogueSpec, StartupSpec, TokenSpec,
    McpSessionsSpec, RunContextSpec, ToolCallSpec, ToolParamsSpec,
    PlatformRunSpec

-----------------------------------------------------------------------------
(* TokenProvider                                                           *)

TokenIInv == TokenTypeOK /\ NoNeedlessFetch

LEMMA TokenInitIInv == TokenInit => TokenIInv
  BY TokenProviderAssumption
  DEF TokenInit, TokenIInv, TokenTypeOK, NoNeedlessFetch, CallSteps, NotBuying

(* A call that is sent to sleep or given up does not fetch.                *)
LEMMA RetryStep ==
  ASSUME TokenIInv, NEW b \in Buyer, UNCHANGED left, UNCHANGED since,
         BuyerLeaves(b) \/ \E why \in Transient : RetryOrRaise(b, why)
  PROVE  TokenIInv'
<1> USE TokenProviderAssumption
    DEF TokenIInv, TokenTypeOK, NoNeedlessFetch, CallSteps, NotBuying
<1>1. CASE BuyerLeaves(b)
  BY <1>1 DEF BuyerLeaves
<1>2. ASSUME NEW why \in Transient, RetryOrRaise(b, why) PROVE TokenIInv'
  <2>1. CASE buyer[b].retries < MaxRetries
    <3>1. /\ buyer[b].retries + 1 \in 0..MaxRetries
          /\ buyer' = [buyer EXCEPT ![b] = [at |-> "sleep",
                          retries |-> buyer[b].retries + 1, why |-> why]]
      BY <1>2, <2>1 DEF RetryOrRaise
    <3>2. QED
      BY <3>1
  <2>2. CASE ~(buyer[b].retries < MaxRetries)
    BY <1>2, <2>2 DEF RetryOrRaise, BuyerLeaves
  <2>3. QED
    BY <2>1, <2>2
<1>3. QED
  BY <1>1, <1>2

(* Only a call that holds the lock fetches, and only when nothing is left; *)
(* what is left grows only with its answer.                                *)
LEMMA TokenNextIInv == TokenIInv /\ [TokenNext]_tokenVars => TokenIInv'
<1> SUFFICES ASSUME TokenIInv, [TokenNext]_tokenVars PROVE TokenIInv'
  OBVIOUS
<1> USE TokenProviderAssumption
    DEF TokenIInv, TokenTypeOK, NoNeedlessFetch, CallSteps
<1>1. CASE TokenTick
  BY <1>1 DEF TokenTick
<1>2. ASSUME NEW b \in Buyer, ListOrders(b) PROVE TokenIInv'
  BY <1>2 DEF ListOrders, Go
<1>3. ASSUME NEW b \in Buyer, GetToken(b) PROVE TokenIInv'
  BY <1>3 DEF GetToken, Go
<1>4. ASSUME NEW b \in Buyer, LockToken(b) PROVE TokenIInv'
  BY <1>4 DEF LockToken, Go, LockFree, StillNeeded
<1>5. ASSUME NEW b \in Buyer, TokenFetched(b) PROVE TokenIInv'
  BY <1>5 DEF TokenFetched, Go
<1>6. ASSUME NEW b \in Buyer, TokenFails(b) PROVE TokenIInv'
  BY <1>6, RetryStep DEF TokenFails
<1>7. ASSUME NEW b \in Buyer, OrdersAnswered(b) PROVE TokenIInv'
  BY <1>7, RetryStep DEF OrdersAnswered
<1>8. ASSUME NEW b \in Buyer, Wakes(b) PROVE TokenIInv'
  BY <1>8 DEF Wakes, Go
<1>9. CASE UNCHANGED tokenVars
  BY <1>9 DEF tokenVars
<1>10. QED
  BY <1>1, <1>2, <1>3, <1>4, <1>5, <1>6, <1>7, <1>8, <1>9 DEF TokenNext

LEMMA TokenInvariance == Spec => []TokenIInv
  BY ImplementsParts, TokenInitIInv, TokenNextIInv, PTL DEF TokenSpec

(* For any number of calls of a client, lifetimes of tokens and retries: a *)
(* token is fetched by one call at a time, and only if none can be used.   *)
THEOREM NoNeedlessFetchHolds == Spec => []NoNeedlessFetch
  BY TokenInvariance, PTL DEF TokenIInv

-----------------------------------------------------------------------------
(* Startup                                                                 *)

(* Who makes the tables holds the lock, and the state of the tracing says  *)
(* how many exporters there are and what callers have been told.           *)
TracingInv ==
  /\ \A t \in Task : asking[t] = "tables" <=> lock = t
  /\ lock # NoTask => tracing = "in_progress" /\ exporters = 1
  /\ tracing \in {"not_attempted", "failed"} => exporters = 0
  /\ tracing = "configured" => exporters = 1
  /\ tracing = "in_progress" /\ lock = NoTask => failFast.db /\ exporters = 0
  /\ \A t \in Task : /\ asking[t] = "yes" => tracing = "configured"
                     /\ asking[t] = "no" => tracing = "failed"

StartupIInv == StartupTypeOK /\ TracingInv

LEMMA StartupInitIInv == StartupInit => StartupIInv
  BY StartupAssumption
  DEF StartupInit, StartupIInv, StartupTypeOK, TracingInv, BootSteps, Answers

(* Every step keeps the types.                                             *)
LEMMA StartupTypeStep ==
  StartupTypeOK /\ [StartupNext]_startupVars => StartupTypeOK'
<1> SUFFICES ASSUME StartupTypeOK, [StartupNext]_startupVars
             PROVE  StartupTypeOK'
  OBVIOUS
<1> USE DEF StartupTypeOK, BootSteps, Answers
<1>1. CASE ImportModule
  <2>1. PICK done \in SUBSET Defines[imported + 1] :
          registry' = [s \in Script |-> IF s \in done THEN imported + 1
                                        ELSE registry[s]]
    BY <1>1 DEF ImportModule
  <2>2. imported + 1 \in 1..MaxModules /\ MaxModules \in Nat
    BY <1>1, StartupAssumption DEF ImportModule
  <2>3. registry' \in [Script -> 1..MaxModules \cup {NoTask}]
    BY <2>1, <2>2
  <2>4. QED
    BY <1>1, <2>2, <2>3 DEF ImportModule
<1>2. CASE RegistryLoaded
  BY <1>2 DEF RegistryLoaded
<1>3. CASE BootTraced
  BY <1>3 DEF BootTraced, Booted
<1>4. CASE BootCache
  BY <1>4 DEF BootCache, Booted
<1>5. CASE AskManager
  BY <1>5 DEF AskManager
<1>6. ASSUME NEW t \in Task, AskTracing(t) PROVE StartupTypeOK'
  BY <1>6 DEF AskTracing, Known
<1>7. ASSUME NEW t \in Task, EnterTracing(t) PROVE StartupTypeOK'
  BY <1>7 DEF EnterTracing, Recheck, Known, DbFails
<1>8. ASSUME NEW t \in Task, TracingDone(t) PROVE StartupTypeOK'
  BY <1>8 DEF TracingDone
<1>9. ASSUME NEW t \in Task, TracingAnswered(t) PROVE StartupTypeOK'
  BY <1>9 DEF TracingAnswered
<1>10. CASE UNCHANGED startupVars
  BY <1>10 DEF startupVars
<1>11. QED
  BY <1>1, <1>2, <1>3, <1>4, <1>5, <1>6, <1>7, <1>8, <1>9, <1>10
  DEF StartupNext

(* Only ensure_tracing changes what TracingInv speaks of, and an attempt   *)
(* begins only while none is under way or has come to an end.              *)
LEMMA TracingStep ==
  ASSUME StartupTypeOK, TracingInv, [StartupNext]_startupVars
  PROVE  TracingInv'
<1> USE StartupAssumption DEF StartupTypeOK, TracingInv
<1>1. ASSUME UNCHANGED <<failFast, tracing, exporters, lock, asking>>
      PROVE  TracingInv'
  BY <1>1
<1>2. CASE ImportModule
  BY <1>1, <1>2 DEF ImportModule
<1>3. CASE RegistryLoaded
  BY <1>1, <1>3 DEF RegistryLoaded
<1>4. CASE BootTraced
  BY <1>1, <1>4 DEF BootTraced
<1>5. CASE BootCache
  BY <1>1, <1>5 DEF BootCache
<1>6. CASE AskManager
  BY <1>1, <1>6 DEF AskManager
<1>7. ASSUME NEW t \in Task, AskTracing(t) PROVE TracingInv'
  BY <1>7 DEF AskTracing, MayAsk, Known, Answers
<1>8. ASSUME NEW t \in Task, EnterTracing(t) PROVE TracingInv'
  <2>1. /\ asking[t] = "waiting" /\ lock = NoTask /\ failFast' = failFast
        /\ \A o \in Task : asking[o] # "tables"
    BY <1>8 DEF EnterTracing
  <2>2. CASE Recheck # "waiting"
    BY <1>8, <2>1, <2>2 DEF EnterTracing, Recheck, Known, Answers
  <2>3. CASE Recheck = "waiting"
    <3>1. /\ tracing \in {"not_attempted", "in_progress"} /\ exporters = 0
          /\ \A o \in Task : asking[o] \notin {"yes", "no"}
      BY <2>1, <2>3 DEF Recheck, Known
    <3>2. QED
      BY <1>8, <2>1, <2>3, <3>1 DEF EnterTracing, DbFails, Answers
  <2>4. QED
    BY <2>2, <2>3
<1>9. ASSUME NEW t \in Task, TracingDone(t) PROVE TracingInv'
  BY <1>9 DEF TracingDone, Answers
<1>10. ASSUME NEW t \in Task, TracingAnswered(t) PROVE TracingInv'
  BY <1>10 DEF TracingAnswered, Answers
<1>11. CASE UNCHANGED startupVars
  BY <1>1, <1>11 DEF startupVars
<1>12. QED
  BY <1>2, <1>3, <1>4, <1>5, <1>6, <1>7, <1>8, <1>9, <1>10, <1>11
  DEF StartupNext

LEMMA StartupInvariance == Spec => []StartupIInv
<1>1. StartupIInv /\ [StartupNext]_startupVars => StartupIInv'
  BY StartupTypeStep, TracingStep DEF StartupIInv
<1>2. QED
  BY <1>1, ImplementsParts, StartupInitIInv, PTL DEF StartupSpec

(* However many requests ask for tracing, with whatever failures: it is    *)
(* set up at most once, and who is told that it works has it.              *)
THEOREM TracedOnceHolds == Spec => []TracedOnce
<1>1. StartupIInv => TracedOnce
  BY DEF StartupIInv, StartupTypeOK, TracingInv, TracedOnce
<1>2. QED
  BY <1>1, StartupInvariance, PTL

-----------------------------------------------------------------------------
(* McpSessions                                                             *)

(* Processes that calls have are of those started, and calls are made in a *)
(* run that goes on.                                                       *)
CallsInv ==
  /\ \A c \in ToolCaller : mcpCall[c].at \in {"handshake", "use"} =>
       mcpCall[c].of \in 1..started
  /\ offered # "yes" => \A c \in ToolCaller : CallAt(c, "away")

(* At most one call starts a process, and only while there is no session;  *)
(* what runs is of the session or of that call.                            *)
OneStartInv ==
  ~disturbed =>
    /\ \A c \in ToolCaller, o \in ToolCaller :
         Starting(c) /\ Starting(o) => c = o
    /\ \A c \in ToolCaller : Starting(c) => session = NoProcess
    /\ \A p \in live : p = session \/ \E c \in ToolCaller :
                         CallAt(c, "handshake") /\ mcpCall[c].of = p
    /\ \A c \in ToolCaller :
         CallAt(c, "use") /\ mcpCall[c].of \in live => mcpCall[c].of = session
    /\ offered # "yes" => live = {}

McpSessionsIInv == McpSessionsTypeOK /\ CallsInv /\ OneStartInv

LEMMA McpSessionsInitIInv == McpSessionsInit => McpSessionsIInv
<1> SUFFICES ASSUME McpSessionsInit PROVE McpSessionsIInv
  OBVIOUS
<1>1. \A c \in ToolCaller : mcpCall[c].at = "away"
  BY DEF McpSessionsInit, NotCalling
<1>2. McpSessionsTypeOK
  <2>1. NotCalling \in [at : {"away", "look", "spawn", "handshake", "use"},
                        of : Process \cup {NoProcess}]
    BY DEF NotCalling
  <2>2. started \in 0..MaxProcesses
    BY McpSessionsAssumption DEF McpSessionsInit
  <2>3. QED
    BY <2>1, <2>2 DEF McpSessionsInit, McpSessionsTypeOK
<1>3. CallsInv /\ OneStartInv
  BY <1>1 DEF McpSessionsInit, CallsInv, OneStartInv, CallAt, Starting
<1>4. QED
  BY <1>2, <1>3 DEF McpSessionsIInv

(* Every step keeps the types, and what calls have is started.             *)
LEMMA McpSessionsTypeStep ==
  ASSUME McpSessionsTypeOK, CallsInv, [McpSessionsNext]_mcpSessionsVars
  PROVE  McpSessionsTypeOK' /\ CallsInv'
<1> USE McpSessionsAssumption
    DEF McpSessionsTypeOK, CallsInv, Process, CallAt, SetCall
<1>1. CASE Create
  BY <1>1 DEF Create
<1>2. CASE BuildTools
  BY <1>2 DEF BuildTools
<1>3. CASE CloseStale
  BY <1>3 DEF CloseStale
<1>4. CASE McpRunEnds
  BY <1>4 DEF McpRunEnds
<1>5. ASSUME NEW c \in ToolCaller, CallMcpTool(c)
      PROVE  McpSessionsTypeOK' /\ CallsInv'
  BY <1>5 DEF CallMcpTool
<1>6. ASSUME NEW c \in ToolCaller, UseSession(c)
      PROVE  McpSessionsTypeOK' /\ CallsInv'
  BY <1>6 DEF UseSession, Find
<1>7. ASSUME NEW c \in ToolCaller, StartProcess(c)
      PROVE  McpSessionsTypeOK' /\ CallsInv'
  BY <1>7 DEF StartProcess, Starting
<1>8. ASSUME NEW c \in ToolCaller, ProcessStarted(c)
      PROVE  McpSessionsTypeOK' /\ CallsInv'
  <2>1. CASE started < MaxProcesses /\ started' = started + 1
             /\ live' = live \cup {started + 1}
             /\ SetCall(c, "handshake", started + 1)
    <3>1. started + 1 \in 1..started' /\ started + 1 \in Process
          /\ 1..started \subseteq 1..started' /\ started' \in 0..MaxProcesses
      BY <2>1
    <3>2. QED
      BY <1>8, <2>1, <3>1 DEF ProcessStarted
  <2>2. CASE SetCall(c, "away", NoProcess) /\ UNCHANGED <<started, live>>
    BY <1>8, <2>2 DEF ProcessStarted
  <2>3. QED
    BY <1>8, <2>1, <2>2 DEF ProcessStarted
<1>9. ASSUME NEW c \in ToolCaller, Initialized(c)
      PROVE  McpSessionsTypeOK' /\ CallsInv'
  BY <1>9 DEF Initialized, Registers
<1>10. ASSUME NEW c \in ToolCaller, InitializeFails(c)
       PROVE  McpSessionsTypeOK' /\ CallsInv'
  BY <1>10 DEF InitializeFails
<1>11. ASSUME NEW c \in ToolCaller, ToolAnswered(c)
       PROVE  McpSessionsTypeOK' /\ CallsInv'
  BY <1>11 DEF ToolAnswered
<1>12. CASE UNCHANGED mcpSessionsVars
  BY <1>12 DEF mcpSessionsVars
<1>13. QED
  BY <1>1, <1>2, <1>3, <1>4, <1>5, <1>6, <1>7, <1>8, <1>9, <1>10, <1>11,
    <1>12 DEF McpSessionsNext

LEMMA OneStartStep ==
  ASSUME McpSessionsIInv, [McpSessionsNext]_mcpSessionsVars
  PROVE  OneStartInv'
<1> SUFFICES ASSUME ~disturbed' PROVE OneStartInv'
  BY DEF OneStartInv
<1> USE McpSessionsAssumption
    DEF McpSessionsIInv, McpSessionsTypeOK, CallsInv, OneStartInv, Process,
      CallAt, SetCall, Starting
<1>1. CASE Create
  BY <1>1 DEF Create
<1>2. CASE BuildTools
  BY <1>2 DEF BuildTools
<1>3. CASE CloseStale
  BY <1>3 DEF CloseStale
<1>4. CASE McpRunEnds
  BY <1>4 DEF McpRunEnds
<1>5. ASSUME NEW c \in ToolCaller, CallMcpTool(c) PROVE OneStartInv'
  BY <1>5 DEF CallMcpTool
<1>6. ASSUME NEW c \in ToolCaller, UseSession(c) PROVE OneStartInv'
  BY <1>6 DEF UseSession, Find
<1>7. ASSUME NEW c \in ToolCaller, StartProcess(c) PROVE OneStartInv'
  BY <1>7 DEF StartProcess, Find
<1>8. ASSUME NEW c \in ToolCaller, ProcessStarted(c) PROVE OneStartInv'
  <2>0. /\ CallAt(c, "spawn") /\ offered = "yes" /\ session = NoProcess
        /\ \A o \in ToolCaller : Starting(o) => o = c
        /\ UNCHANGED <<offered, session, disturbed>>
    BY <1>8 DEF ProcessStarted
  <2>1. CASE live' = live \cup {started + 1}
             /\ SetCall(c, "handshake", started + 1)
    <3>1. live = {}
      BY <2>0
    <3>2. /\ mcpCall'[c] = [at |-> "handshake", of |-> started + 1]
          /\ \A o \in ToolCaller \ {c} : mcpCall'[o] = mcpCall[o]
      BY <2>1
    <3>3. \A o \in ToolCaller \ {c} :
            CallAt(o, "use") => mcpCall[o].of # started + 1
      <4>1. ASSUME NEW o \in ToolCaller, CallAt(o, "use")
            PROVE  mcpCall[o].of \in 1..started
        BY <4>1
      <4>2. started \in Nat
        OBVIOUS
      <4>3. QED
        BY <4>1, <4>2
    <3>4. QED
      BY <2>0, <2>1, <3>1, <3>2, <3>3
  <2>2. CASE SetCall(c, "away", NoProcess) /\ UNCHANGED <<started, live>>
    BY <2>0, <2>2
  <2>3. QED
    BY <1>8, <2>1, <2>2 DEF ProcessStarted
<1>9. ASSUME NEW c \in ToolCaller, Initialized(c) PROVE OneStartInv'
  BY <1>9 DEF Initialized, Registers
<1>10. ASSUME NEW c \in ToolCaller, InitializeFails(c) PROVE OneStartInv'
  BY <1>10 DEF InitializeFails
<1>11. ASSUME NEW c \in ToolCaller, ToolAnswered(c) PROVE OneStartInv'
  BY <1>11 DEF ToolAnswered
<1>12. CASE UNCHANGED mcpSessionsVars
  BY <1>12 DEF mcpSessionsVars
<1>13. QED
  BY <1>1, <1>2, <1>3, <1>4, <1>5, <1>6, <1>7, <1>8, <1>9, <1>10, <1>11,
    <1>12 DEF McpSessionsNext

LEMMA McpSessionsInvariance == Spec => []McpSessionsIInv
<1>1. McpSessionsIInv /\ [McpSessionsNext]_mcpSessionsVars => McpSessionsIInv'
  BY McpSessionsTypeStep, OneStartStep DEF McpSessionsIInv
<1>2. QED
  BY <1>1, ImplementsParts, McpSessionsInitIInv, PTL DEF McpSessionsSpec

LEMMA McpSessionsOneServer == McpSessionsIInv => OneServerPerRun
<1> SUFFICES ASSUME McpSessionsIInv, ~disturbed
             PROVE  /\ Cardinality(live) <= 1
                    /\ offered = "over" => live = {}
                    /\ \A c \in ToolCaller :
                         CallAt(c, "use") /\ mcpCall[c].of \in live =>
                           mcpCall[c].of = session
  BY DEF OneServerPerRun
<1>1. \A p \in live, q \in live : p = q
  <2>1. live \subseteq Process
    BY McpSessionsAssumption
    DEF McpSessionsIInv, McpSessionsTypeOK, Process
  <2>2. \A p \in live : p # NoProcess
    BY <2>1, McpSessionsAssumption
  <2>3. QED
    BY <2>2 DEF McpSessionsIInv, OneStartInv, Starting, CallAt
<1>2. Cardinality(live) <= 1
  BY <1>1, AtMostOne
<1>3. QED
  BY <1>2 DEF McpSessionsIInv, OneStartInv

(* For any number of calls and processes: unless two calls start a server  *)
(* at once, or a handshake fails, a run has one process of it at a time,   *)
(* its calls use that one, and none is left when it is over.               *)
THEOREM OneServerPerRunHolds == Spec => []OneServerPerRun
  BY McpSessionsInvariance, McpSessionsOneServer, PTL

-----------------------------------------------------------------------------
(* RunContext                                                              *)

(* What First finds: the first key that is not blank, if there is one.     *)
LEMMA FirstFilled ==
  ASSUME NEW st
  PROVE  /\ (\A k \in KeyNo : st[k] = NoId) => First(st) = NoId
         /\ \A k \in KeyNo : st[k] # NoId /\ (\A l \in 1..(k - 1) : st[l] = NoId)
              => First(st) = st[k]
<1> DEFINE filled == {k \in KeyNo : st[k] # NoId}
           least  == CHOOSE k \in filled : \A l \in filled : k <= l
<1>1. ASSUME NEW k \in KeyNo, st[k] # NoId, \A l \in 1..(k - 1) : st[l] = NoId
      PROVE  First(st) = st[k]
  <2>1. k \in filled /\ \A l \in filled : k <= l
    BY <1>1 DEF KeyNo
  <2>2. least \in filled /\ \A l \in filled : least <= l
    BY <2>1
  <2>3. least = k
    BY <2>1, <2>2 DEF KeyNo
  <2>4. QED
    BY <2>1, <2>3 DEF First
<1>2. QED
  BY <1>1 DEF First

(* And it is one of the values, if they are of their type.                 *)
LEMMA FirstValue ==
  ASSUME NEW st \in [KeyNo -> Value]
  PROVE  First(st) \in Value
<1>1. CASE \A k \in KeyNo : st[k] = NoId
  BY <1>1, FirstFilled DEF Value, Held
<1>2. CASE \E k \in KeyNo : st[k] # NoId
  <2>1. PICK k \in KeyNo : st[k] # NoId /\ \A l \in 1..(k - 1) : st[l] = NoId
    <3>1. /\ 1..(1 - 1) = {} /\ 1..(2 - 1) = {1}
          /\ 1..(3 - 1) = {1, 2} /\ 1..(4 - 1) = {1, 2, 3}
      OBVIOUS
    <3>2. KeyNo = {1, 2, 3, 4}
      BY DEF KeyNo
    <3>3. QED
      BY <1>2, <3>1, <3>2
  <2>2. QED
    BY <2>1, FirstFilled
<1>3. QED
  BY <1>1, <1>2

(* A state in which one value is under the keys of its kind is read as     *)
(* that value by every reader.                                             *)
LEMMA MirroredReads ==
  ASSUME NEW k \in Kinds, NEW id \in Good \cup {Fresh}, NEW st \in [KeyNo -> Value],
         \A n \in Mirrored(k) : st[n] = id
  PROVE  /\ First(st) = id /\ Transport(st) = id
         /\ ToolReads(k, st) = {id}
<1>1. 1 \in Mirrored(k) /\ 1 \in KeyNo /\ st[1] = id /\ id # NoId
  BY RunContextAssumption DEF Mirrored, KeyNo
<1>2. First(st) = id
  BY <1>1, FirstFilled
<1>3. Transport(st) = id
  BY <1>2 DEF Transport, Resolve, GoodOr
<1>4. First([n \in KeyNo |-> GoodOr(st[n])]) = id
  <2> DEFINE good == [n \in KeyNo |-> GoodOr(st[n])]
  <2>1. good[1] = id
    BY <1>1 DEF GoodOr
  <2> HIDE DEF good
  <2>2. First(good) = id
    BY <1>1, <2>1, FirstFilled
  <2>3. QED
    BY <2>2 DEF good
<1>5. QED
  BY <1>1, <1>2, <1>3, <1>4 DEF ToolReads, Kinds

(* What holds of the state once it has been built; of the session in which *)
(* the request's own agent runs; and of the state built once more.         *)
BuiltInv ==
  /\ Transport(state) = Meant
  /\ Meant # NoId /\ given \in Good \cup {NoId} =>
       \A n \in Mirrored(kind) : state[n] = Meant

RunContextIInv ==
  /\ RunContextTypeOK
  /\ ctxStep \in {"asked", "chosen"} => state = context
  /\ ctxStep \in {"built", "running", "rebuilt"} => BuiltInv
  /\ ctxStep \in {"built", "running"} => mcpState = state
  /\ ctxStep \in {"running", "rebuilt"} /\ ~child /\ given \in Good => agnoId = given
  /\ ctxStep = "rebuilt" => Transport(mcpState) = McpMeant

LEMMA RunContextInitIInv == RunContextInit => RunContextIInv
  BY DEF RunContextInit, RunContextIInv, RunContextTypeOK, Kinds, Value, Held, KeyNo

(* Building keeps the type, and puts what it resolves under the keys.      *)
LEMMA BuildFacts ==
  ASSUME NEW k \in Kinds, NEW v \in Value, NEW st \in [KeyNo -> Value]
  PROVE  /\ Build(k, v, st) \in [KeyNo -> Value]
         /\ Resolve(v, st) \in Good \cup {Fresh, NoId}
         /\ Resolve(v, st) = NoId => Build(k, v, st) = st
         /\ Resolve(v, st) # NoId =>
              /\ \A n \in Mirrored(k) : Build(k, v, st)[n] = Resolve(v, st)
              /\ Transport(Build(k, v, st)) = Resolve(v, st)
<1>1. Resolve(v, st) \in Good \cup {Fresh, NoId}
  BY DEF Resolve, GoodOr
<1>2. Build(k, v, st) \in [KeyNo -> Value]
  BY <1>1 DEF Build, Value, Held
<1>3. Resolve(v, st) = NoId => Build(k, v, st) = st
  BY DEF Build
<1>4. ASSUME Resolve(v, st) # NoId
      PROVE  \A n \in Mirrored(k) : Build(k, v, st)[n] = Resolve(v, st)
  BY <1>4 DEF Build, Mirrored, KeyNo
<1>5. QED
  BY <1>1, <1>2, <1>3, <1>4, MirroredReads

LEMMA RunContextNextIInv ==
  RunContextIInv /\ [RunContextNext]_runContextVars => RunContextIInv'
<1> SUFFICES ASSUME RunContextIInv, [RunContextNext]_runContextVars
             PROVE  RunContextIInv'
  OBVIOUS
<1>a. /\ kind \in Kinds /\ given \in Held \cup {Empty} /\ given \in Value
      /\ agnoId \in Value /\ child \in BOOLEAN
      /\ context \in [KeyNo -> Held] /\ context \in [KeyNo -> Value]
      /\ state \in [KeyNo -> Value] /\ mcpState \in [KeyNo -> Value]
  BY DEF RunContextIInv, RunContextTypeOK, Value
<1>1. CASE Ask
  BY <1>1 DEF Ask, RunContextIInv, RunContextTypeOK, Value
<1>2. CASE BuildState
  <2>1. /\ state' = Build(kind, given, context) /\ mcpState' = state'
        /\ ctxStep' = "built"
        /\ UNCHANGED <<kind, given, context, agnoId, child>>
    BY <1>2 DEF BuildState
  <2>2. Meant' = Meant
    BY <2>1 DEF Meant
  <2> DEFINE id == Resolve(given, context)
  <2>3. BuiltInv'
    <3>1. CASE id # NoId
      <4>1. id = Meant
        BY <1>a, <3>1, RunContextAssumption
        DEF Resolve, Meant, GoodOr, Held
      <4>2. QED
        BY <1>a, <2>1, <2>2, <3>1, <4>1, BuildFacts DEF BuiltInv
    <3>2. CASE id = NoId
      <4>1. state' = context
        BY <1>a, <2>1, <3>2, BuildFacts
      <4>2. given \notin Good
        BY <3>2, RunContextAssumption DEF Resolve, GoodOr
      <4>3. Transport(context) = Meant
        BY <4>2 DEF Transport, Resolve, Meant
      <4>4. Meant # NoId => given # NoId
        BY <3>2, <4>2 DEF Resolve, Meant
      <4>5. QED
        BY <2>1, <2>2, <4>1, <4>2, <4>3, <4>4 DEF BuiltInv
    <3>3. QED
      BY <3>1, <3>2
  <2>4. QED
    BY <1>a, <2>1, <2>3, BuildFacts DEF RunContextIInv, RunContextTypeOK
<1>3. CASE AgnoRuns
  <2>1. /\ UNCHANGED <<kind, given, context, state, mcpState>> /\ child' \in BOOLEAN
        /\ agnoId' \in {given, Fresh} /\ ctxStep' = "running"
        /\ ~child' /\ given \in Good => agnoId' = given
        /\ BuiltInv /\ mcpState = state
    BY <1>3, RunContextAssumption DEF AgnoRuns, RunContextIInv
  <2>2. BuiltInv'
    BY <2>1 DEF BuiltInv, Meant
  <2>3. QED
    BY <1>a, <2>1, <2>2 DEF RunContextIInv, RunContextTypeOK, Value
<1>4. CASE RebuildState
  <2> DEFINE v == IF kind = "session" /\ agnoId # Empty THEN agnoId ELSE NoId
             id == Resolve(v, mcpState)
  <2>1. /\ mcpState' = Build(kind, v, mcpState) /\ ctxStep' = "rebuilt"
        /\ UNCHANGED <<kind, given, context, state, agnoId, child>>
        /\ BuiltInv /\ mcpState = state /\ v \in Value
        /\ ~child /\ given \in Good => agnoId = given
    BY <1>a, <1>4 DEF RebuildState, RunContextIInv, Value, Held
  <2>2. BuiltInv' /\ McpMeant' = McpMeant
    BY <2>1 DEF BuiltInv, Meant, McpMeant
  <2>3. id = IF v = NoId THEN Meant ELSE GoodOr(v)
    BY <2>1 DEF Resolve, BuiltInv, Transport
  <2>4. Transport(mcpState') = IF id # NoId THEN id ELSE Meant
    <3>1. CASE id # NoId
      BY <1>a, <2>1, <3>1, BuildFacts
    <3>2. CASE id = NoId
      <4>1. mcpState' = mcpState
        BY <1>a, <2>1, <3>2, BuildFacts
      <4>2. QED
        BY <2>1, <3>2, <4>1 DEF BuiltInv
    <3>3. QED
      BY <3>1, <3>2
  <2>5. Transport(mcpState') = McpMeant
    <3>1. CASE kind = "session" /\ GoodOr(agnoId) # NoId
      <4>1. v = agnoId /\ v # NoId /\ id = agnoId /\ id # NoId
        BY <2>3, <3>1, RunContextAssumption DEF GoodOr
      <4>2. McpMeant = agnoId
        BY <2>1, <3>1 DEF McpMeant, Meant
      <4>3. QED
        BY <2>4, <4>1, <4>2
    <3>2. CASE ~(kind = "session" /\ GoodOr(agnoId) # NoId)
      <4>1. McpMeant = Meant
        BY <3>2 DEF McpMeant
      <4>2. id \in {NoId, Meant}
        BY <2>3, <3>2
      <4>3. QED
        BY <2>4, <4>1, <4>2
    <3>3. QED
      BY <3>1, <3>2
  <2>6. QED
    BY <1>a, <2>1, <2>2, <2>5, BuildFacts DEF RunContextIInv, RunContextTypeOK
<1>5. CASE UNCHANGED runContextVars
  BY <1>5
  DEF runContextVars, RunContextIInv, RunContextTypeOK, BuiltInv, Meant, McpMeant
<1>6. QED
  BY <1>1, <1>2, <1>3, <1>4, <1>5 DEF RunContextNext

LEMMA RunContextInvariance == Spec => []RunContextIInv
  BY ImplementsParts, RunContextInitIInv, RunContextNextIInv, PTL
  DEF RunContextSpec

(* What the invariant means for the readers.                               *)
LEMMA RunContextReaders == RunContextIInv => ReadersAgree
<1> SUFFICES ASSUME RunContextIInv PROVE ReadersAgree
  OBVIOUS
<1>1. /\ kind \in Kinds /\ state \in [KeyNo -> Value]
      /\ ctxStep \in {"built", "running", "rebuilt"} => BuiltInv
      /\ ctxStep = "rebuilt" => Transport(mcpState) = McpMeant
  BY DEF RunContextIInv, RunContextTypeOK
<1>2. Meant \in Good \cup {Fresh, NoId}
  BY DEF Meant, GoodOr
<1>3. ASSUME ctxStep \in {"built", "running", "rebuilt"},
             Meant # NoId, given \in Good \cup {NoId}
      PROVE  /\ ToolReads(kind, state) = {Meant}
             /\ \A k \in Mirrored(kind) : state[k] = Meant
  BY <1>1, <1>2, <1>3, MirroredReads DEF BuiltInv
<1>4. ASSUME ctxStep = "rebuilt", NEW schema \in SUBSET KeyNo
      PROVE  /\ \A n \in DOMAIN Arguments(mcpState, schema) :
                  Arguments(mcpState, schema)[n] = McpMeant
             /\ McpMeant # NoId /\ schema # {} =>
                  Arguments(mcpState, schema) # << >>
  <2> DEFINE keys == {n \in schema : /\ Transport(mcpState) # NoId
                                     /\ n \in {2, 4} => n - 1 \notin schema}
  <2>1. Arguments(mcpState, schema) = [n \in keys |-> Transport(mcpState)]
    BY DEF Arguments
  <2>2. Transport(mcpState) = McpMeant
    BY <1>1, <1>4
  <2>3. ASSUME McpMeant # NoId, schema # {} PROVE keys # {}
    <3>1. PICK n : n \in schema
      BY <2>3
    <3>2. CASE n \in {2, 4} /\ n - 1 \in schema
      <4>1. n - 1 \notin {2, 4}
        BY <3>2
      <4>2. n - 1 \in keys
        BY <2>2, <2>3, <3>2, <4>1
      <4>3. QED
        BY <4>2
    <3>3. CASE ~(n \in {2, 4} /\ n - 1 \in schema)
      BY <2>2, <2>3, <3>1, <3>3
    <3>4. QED
      BY <3>2, <3>3
  <2> HIDE DEF keys
  <2>4. keys # {} => [n \in keys |-> Transport(mcpState)] # << >>
    OBVIOUS
  <2>5. QED
    BY <2>1, <2>2, <2>3, <2>4
<1>5. QED
  BY <1>1, <1>3, <1>4 DEF ReadersAgree, BuiltInv

(* Whatever the request and the caller's context have: a good explicit     *)
(* value, or without one the first of the context, is what Python and API  *)
(* tools get, and MCP servers too, but of the session only in the agent of *)
(* a request that gives it: elsewhere they have the one Agno runs in.      *)
THEOREM ReadersAgreeHolds == Spec => []ReadersAgree
  BY RunContextInvariance, RunContextReaders, PTL

-----------------------------------------------------------------------------
(* ToolCall                                                                *)

Open(c)       == call[c].at \in {"running", "answered"}
EndedOf(t)    == {c \in Ended : call[c].tool = t}
Settled(t)    == EndedOf(t) # {} /\ \A c \in Call : call[c].tool = t => ~Open(c)
GoodResult(c) == ~BadResult(call[c].result)

(* Once the calls of a tool have ended, its flag is what the last of them  *)
(* made it: it stands for a good result, or, taken back, for a bad one.    *)
FlagInv ==
  \A t \in AnyTool : Settled(t) =>
    /\ stopFlag[t] => t \in StopTool /\ \E c \in EndedOf(t) : GoodResult(c)
    /\ ~stopFlag[t] /\ t \in StopTool => \E c \in EndedOf(t) : ~GoodResult(c)

(* Calls have tools from their start on, and none goes on after the turn.  *)
TurnInv ==
  /\ \A c \in Call : call[c].at # "away" => call[c].tool \in AnyTool
  /\ turn # "open" => Ended # {} /\ \A c \in Call : ~Open(c)
  /\ turn = "stop" => \E c \in Ended : stopFlag[call[c].tool]
  /\ turn = "goon" => \A c \in Ended : ~stopFlag[call[c].tool]

ToolCallIInv == ToolCallTypeOK /\ FlagInv /\ TurnInv

LEMMA ToolCallInitIInv == ToolCallInit => ToolCallIInv
<1> SUFFICES ASSUME ToolCallInit PROVE ToolCallIInv
  OBVIOUS
<1>1. NoCall \in [tool : AnyTool \cup {NoTool},
                  at : {"away", "running", "answered", "ended"},
                  action : 0..(MaxSteps - 1), result : Result]
  BY ToolCallAssumption DEF NoCall, Result, Returned
<1>2. ToolCallTypeOK
  <2>1. stopFlag \in [AnyTool -> BOOLEAN]
    <3>1. \A t \in AnyTool : (t \in StopTool) \in BOOLEAN
      OBVIOUS
    <3>2. QED
      BY <3>1, Zenon DEF ToolCallInit
  <2>2. QED
    BY <1>1, <2>1 DEF ToolCallInit, ToolCallTypeOK
<1>3. \A c \in Call : call[c].at = "away"
  BY DEF ToolCallInit, NoCall
<1>4. FlagInv /\ TurnInv
  BY <1>3 DEF ToolCallInit, FlagInv, TurnInv, Settled, EndedOf, Ended
<1>5. QED
  BY <1>2, <1>4 DEF ToolCallIInv

(* What the tools' runs have in common: the call goes on or is answered.   *)
Runs(c) ==
  /\ call[c].at = "running"
  /\ UNCHANGED <<stopFlag, turn>> /\ marked' \in BOOLEAN
  /\ call' \in [Call -> [tool : AnyTool \cup {NoTool},
                         at : {"away", "running", "answered", "ended"},
                         action : 0..(MaxSteps - 1), result : Result]]
  /\ call'[c].tool = call[c].tool /\ call'[c].at \in {"running", "answered"}
  /\ \A o \in Call \ {c} : call'[o] = call[o]

LEMMA AnswerRuns ==
  ASSUME ToolCallTypeOK, NEW c \in Call, call[c].at = "running",
         UNCHANGED <<stopFlag, turn>>, marked' \in BOOLEAN,
         NEW r \in Result, Answer(c, r)
  PROVE  Runs(c)
  BY DEF ToolCallTypeOK, Answer, Runs

LEMMA ToolRuns ==
  ASSUME ToolCallTypeOK, NEW c \in Call,
         RunAction(c) \/ ActionRaises(c) \/ RequestApi(c) \/ ReadKnowledge(c)
  PROVE  Runs(c)
<1>1. CASE RunAction(c)
  <2>1. PICK returned \in Returned :
        \E result \in Attached(call[c].tool, returned) :
          LET last == call[c].action + 1 = MaxSteps
              sofar == IF result = "none" THEN call[c].result
                       ELSE Stringified(result)
          IN /\ IF Failure(result) \/ last THEN Answer(c, sofar)
                ELSE call' = [call EXCEPT ![c].action = @ + 1,
                                          ![c].result = sofar]
             /\ marked' = (marked \/ Failure(result))
    BY <1>1 DEF RunAction
  <2>2. PICK result \in Attached(call[c].tool, returned) :
          LET last == call[c].action + 1 = MaxSteps
              sofar == IF result = "none" THEN call[c].result
                       ELSE Stringified(result)
          IN /\ IF Failure(result) \/ last THEN Answer(c, sofar)
                ELSE call' = [call EXCEPT ![c].action = @ + 1,
                                          ![c].result = sofar]
             /\ marked' = (marked \/ Failure(result))
    BY <2>1
  <2> DEFINE sofar == IF result = "none" THEN call[c].result ELSE Stringified(result)
  <2>3. sofar \in Result
    BY <2>2 DEF Attached, Stringified, Result, Returned, ToolCallTypeOK
  <2>4. /\ call[c].at = "running" /\ UNCHANGED <<stopFlag, turn>>
        /\ marked' \in BOOLEAN
    BY <1>1, <2>2 DEF RunAction, ToolCallTypeOK, Failure
  <2>5. CASE Answer(c, sofar)
    BY <2>3, <2>4, <2>5, AnswerRuns
  <2>6. CASE /\ call[c].action + 1 # MaxSteps
             /\ call' = [call EXCEPT ![c].action = @ + 1, ![c].result = sofar]
    <3>1. call[c].action + 1 \in 0..(MaxSteps - 1)
      BY <2>6, ToolCallAssumption DEF ToolCallTypeOK
    <3>2. QED
      BY <2>3, <2>4, <2>6, <3>1 DEF Runs, ToolCallTypeOK
  <2>7. QED
    BY <2>2, <2>5, <2>6
<1>2. CASE ActionRaises(c)
  BY <1>2, AnswerRuns DEF ActionRaises, Result, Returned, ToolCallTypeOK
<1>3. CASE RequestApi(c)
  BY <1>3, AnswerRuns DEF RequestApi, Result, Returned, ToolCallTypeOK
<1>4. CASE ReadKnowledge(c)
  BY <1>4, AnswerRuns DEF ReadKnowledge, Result, Returned, ToolCallTypeOK
<1>5. QED
  BY <1>1, <1>2, <1>3, <1>4

LEMMA ToolCallNextIInv ==
  ToolCallIInv /\ [ToolCallNext]_toolCallVars => ToolCallIInv'
<1> SUFFICES ASSUME ToolCallIInv, [ToolCallNext]_toolCallVars
             PROVE  ToolCallIInv'
  OBVIOUS
<1>a. ToolCallTypeOK /\ FlagInv /\ TurnInv
  BY DEF ToolCallIInv
<1> USE DEF Ended, EndedOf, Settled, Open, GoodResult
<1>1. CASE TurnEnds
  <2>1. /\ UNCHANGED <<stopFlag, call, marked>> /\ turn = "open"
        /\ \A c \in Call : call[c].at \in {"away", "ended"}
        /\ Ended # {}
        /\ turn' = IF \E c \in Ended : stopFlag[call[c].tool]
                   THEN "stop" ELSE "goon"
    BY <1>1 DEF TurnEnds
  <2>2. FlagInv'
    BY <1>a, <2>1 DEF FlagInv
  <2>3. TurnInv'
    BY <1>a, <2>1 DEF TurnInv
  <2>4. ToolCallTypeOK'
    BY <1>a, <2>1 DEF ToolCallTypeOK
  <2>5. QED
    BY <2>2, <2>3, <2>4 DEF ToolCallIInv
<1>2. ASSUME NEW c \in Call, StartCall(c) PROVE ToolCallIInv'
  <2>1. PICK t \in AnyTool :
          /\ call' = [call EXCEPT ![c] = [NoCall EXCEPT !.tool = t,
                                                        !.at = "running"]]
          /\ stopFlag' = [stopFlag EXCEPT ![t] = t \in StopTool]
    BY <1>2 DEF StartCall
  <2>2. /\ turn = "open" /\ UNCHANGED <<marked, turn>> /\ call[c].at = "away"
    BY <1>2 DEF StartCall
  <2>3. /\ call'[c] = [tool |-> t, at |-> "running", action |-> 0,
                       result |-> "none"]
        /\ \A o \in Call \ {c} : call'[o] = call[o]
    BY <1>a, <2>1 DEF NoCall, ToolCallTypeOK
  <2>4. ToolCallTypeOK'
    <3>1. [tool |-> t, at |-> "running", action |-> 0, result |-> "none"]
            \in [tool : AnyTool \cup {NoTool},
                 at : {"away", "running", "answered", "ended"},
                 action : 0..(MaxSteps - 1), result : Result]
      BY ToolCallAssumption DEF Result, Returned
    <3>2. call' = [call EXCEPT ![c] = call'[c]]
      BY <1>a, <2>1 DEF ToolCallTypeOK
    <3>3. call'[c] \in [tool : AnyTool \cup {NoTool},
                        at : {"away", "running", "answered", "ended"},
                        action : 0..(MaxSteps - 1), result : Result]
      BY <2>3, <3>1
    <3>4. call' \in [Call -> [tool : AnyTool \cup {NoTool},
                              at : {"away", "running", "answered", "ended"},
                              action : 0..(MaxSteps - 1), result : Result]]
      BY <1>a, <3>2, <3>3 DEF ToolCallTypeOK
    <3>5. stopFlag' \in [AnyTool -> BOOLEAN]
      BY <1>a, <2>1 DEF ToolCallTypeOK
    <3>6. QED
      BY <1>a, <2>2, <3>4, <3>5 DEF ToolCallTypeOK
  <2>5. FlagInv'
    <3> SUFFICES ASSUME NEW u \in AnyTool, Settled(u)'
                 PROVE  /\ stopFlag'[u] => /\ u \in StopTool
                                           /\ \E o \in EndedOf(u)' : GoodResult(o)'
                        /\ ~stopFlag'[u] /\ u \in StopTool =>
                             \E o \in EndedOf(u)' : ~GoodResult(o)'
      BY DEF FlagInv
    <3>1. u # t
      BY <2>3
    <3>2. stopFlag'[u] = stopFlag[u]
      BY <1>a, <2>1, <3>1 DEF ToolCallTypeOK
    <3>3. EndedOf(u)' = EndedOf(u) /\ \A o \in EndedOf(u) : call'[o] = call[o]
      BY <2>2, <2>3, <3>1
    <3>4. Settled(u)
      BY <2>2, <2>3, <3>3
    <3>5. QED
      BY <1>a, <3>2, <3>3, <3>4 DEF FlagInv
  <2>6. TurnInv'
    BY <1>a, <2>2, <2>3 DEF TurnInv
  <2>7. QED
    BY <2>4, <2>5, <2>6 DEF ToolCallIInv
<1>3. ASSUME NEW c \in Call, Runs(c) PROVE ToolCallIInv'
  <2>1. ToolCallTypeOK'
    BY <1>a, <1>3 DEF Runs, ToolCallTypeOK
  <2>2. FlagInv'
    <3> SUFFICES ASSUME NEW u \in AnyTool, Settled(u)'
                 PROVE  /\ stopFlag'[u] => /\ u \in StopTool
                                           /\ \E o \in EndedOf(u)' : GoodResult(o)'
                        /\ ~stopFlag'[u] /\ u \in StopTool =>
                             \E o \in EndedOf(u)' : ~GoodResult(o)'
      BY DEF FlagInv
    <3>1. call[c].tool # u
      BY <1>3 DEF Runs
    <3>2. EndedOf(u)' = EndedOf(u) /\ \A o \in EndedOf(u) : call'[o] = call[o]
      BY <1>3, <3>1 DEF Runs
    <3>3. Settled(u) /\ stopFlag' = stopFlag
      BY <1>3, <3>1, <3>2 DEF Runs
    <3>4. QED
      BY <1>a, <3>2, <3>3 DEF FlagInv
  <2>3. TurnInv'
    BY <1>a, <1>3 DEF TurnInv, Runs
  <2>4. QED
    BY <2>1, <2>2, <2>3 DEF ToolCallIInv
<1>4. ASSUME NEW c \in Call, EndCall(c) PROVE ToolCallIInv'
  <2> DEFINE t == call[c].tool
             good == t \in StopTool /\ ~BadResult(call[c].result)
  <2>1. /\ call[c].at = "answered" /\ t \in AnyTool
        /\ call' = [call EXCEPT ![c].at = "ended"]
        /\ stopFlag' = [stopFlag EXCEPT ![t] = good]
        /\ UNCHANGED <<marked, turn>> /\ turn = "open"
    BY <1>a, <1>4 DEF EndCall, TurnInv, ToolCallTypeOK
  <2>2. /\ call'[c].at = "ended" /\ call'[c].tool = t
        /\ call'[c].result = call[c].result
        /\ \A o \in Call \ {c} : call'[o] = call[o]
        /\ stopFlag'[t] = good
        /\ \A u \in AnyTool \ {t} : stopFlag'[u] = stopFlag[u]
    BY <1>a, <2>1 DEF ToolCallTypeOK
  <2>3. ToolCallTypeOK'
    BY <1>a, <2>1 DEF ToolCallTypeOK, BadResult, Failure
  <2>4. FlagInv'
    <3> SUFFICES ASSUME NEW u \in AnyTool, Settled(u)'
                 PROVE  /\ stopFlag'[u] => /\ u \in StopTool
                                           /\ \E o \in EndedOf(u)' : GoodResult(o)'
                        /\ ~stopFlag'[u] /\ u \in StopTool =>
                             \E o \in EndedOf(u)' : ~GoodResult(o)'
      BY DEF FlagInv
    <3>1. CASE u = t
      <4>1. c \in EndedOf(u)' /\ (GoodResult(c)' <=> GoodResult(c))
        BY <2>2, <3>1 DEF BadResult, Failure
      <4>2. QED
        BY <2>2, <3>1, <4>1
    <3>2. CASE u # t
      <4>1. EndedOf(u)' = EndedOf(u) /\ \A o \in EndedOf(u) : call'[o] = call[o]
        BY <2>1, <2>2, <3>2
      <4>2. Settled(u) /\ stopFlag'[u] = stopFlag[u]
        BY <2>1, <2>2, <3>2, <4>1
      <4>3. QED
        BY <1>a, <4>1, <4>2 DEF FlagInv
    <3>3. QED
      BY <3>1, <3>2
  <2>5. TurnInv'
    BY <1>a, <2>1, <2>2 DEF TurnInv
  <2>6. QED
    BY <2>3, <2>4, <2>5 DEF ToolCallIInv
<1>5. CASE UNCHANGED toolCallVars
  BY <1>a, <1>5 DEF toolCallVars, ToolCallIInv, ToolCallTypeOK, FlagInv, TurnInv
<1>6. QED
  BY <1>a, <1>1, <1>2, <1>3, <1>4, <1>5, ToolRuns DEF ToolCallNext

LEMMA ToolCallInvariance == Spec => []ToolCallIInv
  BY ImplementsParts, ToolCallInitIInv, ToolCallNextIInv, PTL DEF ToolCallSpec

(* When the turn is over every tool that was called is settled.            *)
LEMMA ToolCallStops == ToolCallIInv => StopMeetsCalls
<1> SUFFICES ASSUME ToolCallIInv PROVE StopMeetsCalls
  OBVIOUS
<1>a. ToolCallTypeOK /\ FlagInv /\ TurnInv
  BY DEF ToolCallIInv
<1>1. ASSUME turn # "open", NEW c \in Ended
      PROVE  call[c].tool \in AnyTool /\ Settled(call[c].tool)
  BY <1>a, <1>1 DEF TurnInv, Settled, EndedOf, Ended
<1>2. ASSUME NEW c \in Call
      PROVE  GoodResult(c) <=> Succeeded(c) \/ Disguised(c)
  BY <1>a, <1>2
  DEF ToolCallTypeOK, Result, Returned, GoodResult, BadResult, Failure, Succeeded,
    Disguised
<1>3. ASSUME turn = "stop"
      PROVE  \E c \in Ended : /\ call[c].tool \in StopTool
                              /\ Succeeded(c) \/ Disguised(c)
  <2>1. PICK c \in Ended : stopFlag[call[c].tool]
    BY <1>a, <1>3 DEF TurnInv
  <2>2. PICK o \in EndedOf(call[c].tool) : GoodResult(o)
    BY <1>a, <1>1, <1>3, <2>1 DEF FlagInv
  <2>3. call[c].tool \in StopTool
    BY <1>a, <1>1, <1>3, <2>1 DEF FlagInv
  <2>4. QED
    BY <1>2, <2>2, <2>3 DEF EndedOf, Ended
<1>4. ASSUME turn = "goon", NEW c \in Ended, call[c].tool \in StopTool, Succeeded(c)
      PROVE  \E o \in Ended \ {c} :
               call[o].tool = call[c].tool /\ ~Succeeded(o) /\ ~Disguised(o)
  <2>1. ~stopFlag[call[c].tool]
    BY <1>a, <1>4 DEF TurnInv
  <2>2. PICK o \in EndedOf(call[c].tool) : ~GoodResult(o)
    BY <1>a, <1>1, <1>4, <2>1 DEF FlagInv
  <2>3. QED
    BY <1>2, <1>4, <2>2 DEF EndedOf, Ended
<1>5. QED
  BY <1>3, <1>4 DEF StopMeetsCalls

(* For any number of calls and tools: a run stops only after a call that   *)
(* succeeded, or whose failure the post_hook cannot read, of a tool that   *)
(* is to stop it, and goes on after a success only if another call of the  *)
(* tool has failed.                                                        *)
THEOREM StopMeetsCallsHolds == Spec => []StopMeetsCalls
  BY ToolCallInvariance, ToolCallStops, PTL

-----------------------------------------------------------------------------
(* ApiKeys                                                                 *)

(* Every node that has a slug, in the database or in the worker's          *)
(* snapshot, is among those that have had it.                              *)
HoldersInv ==
  \A n \in Agent :
    /\ agent[n].active => n \in holders[agent[n].slug]
    /\ known[n] # NoOne => n \in holders[known[n]]

(* What a request for a run has found out about its key and its node: by   *)
(* the time it is known both had the slug it asks for.                     *)
CallerInv(c) ==
  /\ c.step # "away" => c.key \in Key /\ key[c.key] \in KeyRow /\ c.for # NoOne
  /\ c.step \in {"authorized", "running"} =>
       /\ c.for \in Agent => key[c.key].of = c.for
       /\ c.for \in Name => key[c.key].of \in holders[c.for]
  /\ c.step = "running" =>
       /\ c.node \in Agent
       /\ c.for \in Agent => c.node = c.for
       /\ c.for \in Name => c.node \in holders[c.for]

ApiKeysIInv ==
  ApiKeysTypeOK /\ HoldersInv /\ \A r \in Caller : CallerInv(caller[r])

LEMMA ApiKeysInitIInv == ApiKeysInit => ApiKeysIInv
<1> SUFFICES ASSUME ApiKeysInit PROVE ApiKeysIInv
  OBVIOUS
<1>1. ApiKeysTypeOK
  BY DEF ApiKeysInit, ApiKeysTypeOK, ActiveNames, Holding, Nobody
<1>2. HoldersInv
  BY DEF ApiKeysInit, HoldersInv, ActiveNames, Holding
<1>3. \A r \in Caller : CallerInv(caller[r])
  BY DEF ApiKeysInit, CallerInv, Nobody
<1>4. QED
  BY <1>1, <1>2, <1>3 DEF ApiKeysIInv

(* What requests know stays true when keys keep their nodes and slugs only *)
(* gain holders.                                                           *)
LEMMA CallersUndisturbed ==
  ASSUME ApiKeysIInv, UNCHANGED caller,
         \A k \in Key : key[k] \in KeyRow =>
           key'[k] \in KeyRow /\ key'[k].of = key[k].of,
         \A s \in Name : holders[s] \subseteq holders'[s]
  PROVE  \A r \in Caller : CallerInv(caller[r])'
  BY DEF ApiKeysIInv, ApiKeysTypeOK, CallerInv

LEMMA ApiKeysNextIInv == ApiKeysIInv /\ [ApiKeysNext]_apiKeysVars => ApiKeysIInv'
<1> SUFFICES ASSUME ApiKeysIInv, [ApiKeysNext]_apiKeysVars PROVE ApiKeysIInv'
  OBVIOUS
<1>a. ApiKeysTypeOK /\ HoldersInv /\ \A r \in Caller : CallerInv(caller[r])
  BY DEF ApiKeysIInv
<1>1. CASE ChangeAgent
  <2>1. /\ agent' \in [Agent -> [slug : Name, active : BOOLEAN]]
        /\ holders' = [s \in Name |-> holders[s] \cup Holding(agent', s)]
        /\ UNCHANGED <<known, key, caller>>
    BY <1>a, <1>1 DEF ChangeAgent, ApiKeysTypeOK
  <2>2. ApiKeysTypeOK'
    BY <1>a, <2>1 DEF ApiKeysTypeOK, Holding
  <2>3. HoldersInv'
    BY <1>a, <2>1 DEF ApiKeysTypeOK, HoldersInv, Holding
  <2>4. \A r \in Caller : CallerInv(caller[r])'
    BY <2>1, CallersUndisturbed
  <2>5. QED
    BY <2>2, <2>3, <2>4 DEF ApiKeysIInv
<1>2. CASE RefreshAgents
  <2>1. ApiKeysTypeOK' /\ HoldersInv'
    BY <1>a, <1>2 DEF RefreshAgents, ApiKeysTypeOK, HoldersInv, ActiveNames
  <2>2. \A r \in Caller : CallerInv(caller[r])'
    BY <1>2, CallersUndisturbed DEF RefreshAgents
  <2>3. QED
    BY <2>1, <2>2 DEF ApiKeysIInv
<1>3. CASE CreateKey \/ RevokeKey \/ TimePasses
  <2>1. /\ key' \in [Key -> KeyRow \cup {NoOne}]
        /\ \A k \in Key : key[k] \in KeyRow =>
             key'[k] \in KeyRow /\ key'[k].of = key[k].of
        /\ UNCHANGED <<agent, known, caller, holders>>
    <3>1. CASE CreateKey
      BY <1>a, <3>1, ApiKeysAssumption DEF CreateKey, ApiKeysTypeOK, KeyRow
    <3>2. CASE RevokeKey
      <4>1. PICK k \in Key : /\ key[k] # NoOne
                             /\ key' = [key EXCEPT ![k].active = FALSE]
        BY <3>2 DEF RevokeKey
      <4>2. key[k] \in KeyRow
        BY <1>a, <4>1 DEF ApiKeysTypeOK
      <4>3. /\ [key[k] EXCEPT !.active = FALSE] \in KeyRow
            /\ [key[k] EXCEPT !.active = FALSE].of = key[k].of
        BY <4>2 DEF KeyRow
      <4>4. QED
        BY <1>a, <3>2, <4>1, <4>3 DEF RevokeKey, ApiKeysTypeOK
    <3>3. CASE TimePasses
      <4>1. PICK k \in Key : /\ key[k] # NoOne
                             /\ key' = [key EXCEPT ![k].expired = TRUE]
        BY <3>3 DEF TimePasses
      <4>2. key[k] \in KeyRow
        BY <1>a, <4>1 DEF ApiKeysTypeOK
      <4>3. /\ [key[k] EXCEPT !.expired = TRUE] \in KeyRow
            /\ [key[k] EXCEPT !.expired = TRUE].of = key[k].of
        BY <4>2 DEF KeyRow
      <4>4. QED
        BY <1>a, <3>3, <4>1, <4>3 DEF TimePasses, ApiKeysTypeOK
    <3>4. QED
      BY <1>3, <3>1, <3>2, <3>3
  <2>2. ApiKeysTypeOK' /\ HoldersInv'
    BY <1>a, <2>1 DEF ApiKeysTypeOK, HoldersInv
  <2>3. \A r \in Caller : CallerInv(caller[r])'
    BY <2>1, CallersUndisturbed
  <2>4. QED
    BY <2>2, <2>3 DEF ApiKeysIInv
<1>4. ASSUME NEW r \in Caller,
             Authenticate(r) \/ AuthorizeForNode(r) \/ ResolveAndRun(r)
               \/ CallerLeaves(r)
      PROVE  ApiKeysIInv'
  <2>1. UNCHANGED <<agent, known, key, holders>>
    BY <1>4 DEF Authenticate, AuthorizeForNode, ResolveAndRun, CallerLeaves
  <2>2. /\ caller' \in [Caller ->
             [step : {"away", "authenticated", "authorized", "running"},
              key : Key \cup {NoOne}, for : Agent \cup Name \cup {NoOne},
              node : Agent \cup {NoOne}]]
        /\ \A o \in Caller \ {r} : caller'[o] = caller[o]
    BY <1>a, <1>4 DEF Authenticate, AuthorizeForNode, ResolveAndRun,
      CallerLeaves, ApiKeysTypeOK, Nobody
  <2>3. CallerInv(caller'[r])
    <3>1. CASE Authenticate(r)
      BY <1>a, <3>1, ApiKeysAssumption
      DEF Authenticate, Usable, ApiKeysTypeOK, CallerInv
    <3>2. CASE AuthorizeForNode(r)
      <4>1. PICK n \in Agent : /\ agent[n].active /\ n = key[caller[r].key].of
                               /\ caller[r].for \in {n, agent[n].slug}
        BY <3>2 DEF AuthorizeForNode, Allowed
      <4>2. /\ caller'[r].step = "authorized" /\ caller'[r].key = caller[r].key
            /\ caller'[r].for = caller[r].for /\ caller[r].step = "authenticated"
        BY <1>a, <3>2 DEF AuthorizeForNode, ApiKeysTypeOK
      <4>3. CallerInv(caller[r]) /\ agent[n].slug \in Name
        BY <1>a DEF ApiKeysTypeOK
      <4>4. /\ caller[r].for \in Agent => n = caller[r].for
            /\ caller[r].for \in Name => n \in holders[caller[r].for]
        BY <1>a, <4>1, <4>3, ApiKeysAssumption DEF HoldersInv
      <4>5. QED
        BY <4>1, <4>2, <4>3, <4>4 DEF CallerInv
    <3>3. CASE ResolveAndRun(r)
      <4>1. PICK n \in Agent :
              /\ known[n] # NoOne /\ caller[r].for \in {n, known[n]}
              /\ caller' = [caller EXCEPT ![r].step = "running", ![r].node = n]
        BY <3>3 DEF ResolveAndRun
      <4>2. /\ caller'[r].step = "running" /\ caller'[r].key = caller[r].key
            /\ caller'[r].for = caller[r].for /\ caller[r].step = "authorized"
            /\ caller'[r].node = n
        BY <1>a, <3>3, <4>1 DEF ResolveAndRun, ApiKeysTypeOK
      <4>3. CallerInv(caller[r]) /\ known[n] \in Name
        BY <1>a, <4>1 DEF ApiKeysTypeOK
      <4>4. /\ caller[r].for \in Agent => n = caller[r].for
            /\ caller[r].for \in Name => n \in holders[caller[r].for]
        BY <1>a, <4>1, <4>3, ApiKeysAssumption DEF HoldersInv
      <4>5. QED
        BY <4>2, <4>3, <4>4 DEF CallerInv
    <3>4. CASE CallerLeaves(r)
      BY <1>a, <3>4 DEF CallerLeaves, ApiKeysTypeOK, CallerInv, Nobody
    <3>5. QED
      BY <1>4, <3>1, <3>2, <3>3, <3>4
  <2>4. \A o \in Caller : CallerInv(caller[o])'
    BY <1>a, <2>1, <2>2, <2>3 DEF CallerInv
  <2>5. ApiKeysTypeOK' /\ HoldersInv'
    BY <1>a, <2>1, <2>2 DEF ApiKeysTypeOK, HoldersInv
  <2>6. QED
    BY <2>4, <2>5 DEF ApiKeysIInv
<1>5. CASE UNCHANGED apiKeysVars
  BY <1>a, <1>5 DEF apiKeysVars, ApiKeysIInv, ApiKeysTypeOK, HoldersInv, CallerInv
<1>6. QED
  BY <1>1, <1>2, <1>3, <1>4, <1>5 DEF ApiKeysNext

LEMMA ApiKeysInvariance == Spec => []ApiKeysIInv
  BY ImplementsParts, ApiKeysInitIInv, ApiKeysNextIInv, PTL DEF ApiKeysSpec

LEMMA ApiKeysAuthority == ApiKeysIInv => KeyAuthority
<1> SUFFICES ASSUME ApiKeysIInv, NEW r \in Caller, caller[r].step = "running",
                    caller[r].node # key[caller[r].key].of
             PROVE  /\ caller[r].for \in Name
                    /\ Cardinality(holders[caller[r].for]) > 1
  BY DEF KeyAuthority
<1>1. CallerInv(caller[r]) /\ ApiKeysTypeOK
  BY DEF ApiKeysIInv
<1>2. caller[r].for \in Name
  BY <1>1 DEF CallerInv, ApiKeysTypeOK
<1>3. /\ caller[r].node \in holders[caller[r].for]
      /\ key[caller[r].key].of \in holders[caller[r].for]
  BY <1>1, <1>2 DEF CallerInv
<1>4. IsFiniteSet(holders[caller[r].for])
  BY <1>1, <1>2, ApiKeysAssumption, FS_Subset DEF ApiKeysTypeOK
<1>5. QED
  BY <1>2, <1>3, <1>4, TwoElements

(* For any numbers of nodes, slugs, keys and requests: a run is of its     *)
(* key's node, or was asked for by a slug that has changed hands.          *)
THEOREM KeyAuthorityHolds == Spec => []KeyAuthority
  BY ApiKeysInvariance, ApiKeysAuthority, PTL

-----------------------------------------------------------------------------
(* Catalogue                                                               *)

SkillTypes ==
  /\ skill \in [SkillId -> SkillRow \cup {NoItem}]
  /\ bound \in [SkillId -> 0..MaxBound]
  /\ folders \subseteq Folder
  /\ offer \subseteq SkillId /\ revived \subseteq SkillId

NoteTypes ==
  /\ toolRow \in [NoteTool -> [slug : NoteSlug, active : BOOLEAN]]
  /\ note \in [NoteId -> NoteRow \cup {NoItem}]
  /\ everHad \in [NoteSlug -> SUBSET NoteTool]

(* What is offered has been written, and so has its directory.             *)
OfferInv ==
  /\ \A s \in Used(skill) : skill[s].source \in folders
  /\ offer \subseteq Used(skill)

TwinsInv ==
  \A s, o \in InUse(skill) : s # o /\ skill[s].slug = skill[o].slug =>
    {s, o} \cap revived # {}

(* An active tool is among those that have had its slug, and so are the    *)
(* tools that a note was written for; of a slug that is no script's there  *)
(* was at least one.                                                       *)
NotesInv ==
  /\ \A t \in NoteTool : toolRow[t].active => t \in everHad[toolRow[t].slug]
  /\ \A n \in Used(note) :
       /\ note[n].of \subseteq everHad[note[n].slug]
       /\ note[n].slug \notin ScriptSlug => note[n].of # {}

CatalogueIInv == SkillTypes /\ NoteTypes /\ OfferInv /\ TwinsInv /\ NotesInv

LEMMA CatalogueInitIInv == CatalogueInit => CatalogueIInv
<1> SUFFICES ASSUME CatalogueInit PROVE CatalogueIInv
  OBVIOUS
<1>1. SkillTypes
  BY CatalogueAssumption DEF CatalogueInit, SkillTypes
<1>2. NoteTypes
  <2>1. NoteTool # {} => (CHOOSE s \in NoteSlug : TRUE) \in NoteSlug
    BY CatalogueAssumption
  <2>2. QED
    BY <2>1 DEF CatalogueInit, NoteTypes
<1>3. Used(skill) = {} /\ Used(note) = {}
  BY DEF CatalogueInit, Used
<1>4. OfferInv /\ TwinsInv
  BY <1>3 DEF CatalogueInit, OfferInv, TwinsInv, InUse
<1>5. NotesInv
  BY <1>3 DEF CatalogueInit, NotesInv
<1>6. QED
  BY <1>1, <1>2, <1>4, <1>5 DEF CatalogueIInv

(* A request for a skill leaves directories in place and rows written.     *)
LEMMA OfferKept ==
  ASSUME OfferInv, skill' \in [SkillId -> SkillRow \cup {NoItem}],
         Used(skill) \subseteq Used(skill'), RefreshOffer,
         \A s \in Used(skill') : skill'[s].source \in folders'
  PROVE  OfferInv' /\ offer' \subseteq Used(skill')
  BY DEF OfferInv, RefreshOffer, InUse

LEMMA SkillNextIInv ==
  ASSUME SkillTypes, OfferInv, TwinsInv, SkillNext
  PROVE  SkillTypes' /\ OfferInv' /\ TwinsInv'
<1>1. CASE CreateSkill
  <2>1. PICK s \in SkillId, slug \in SkillSlug, folder \in Folder :
          /\ SkillSlugFree(slug, NoItem)
          /\ folders' = folders \cup {folder}
          /\ skill' \in {skill, [skill EXCEPT ![s] =
               [slug |-> slug, source |-> folder, active |-> TRUE]]}
    BY <1>1 DEF CreateSkill
  <2>2. RefreshOffer /\ UNCHANGED <<bound, revived>>
    BY <1>1 DEF CreateSkill
  <2> DEFINE row == [slug |-> slug, source |-> folder, active |-> TRUE]
  <2>3. row \in SkillRow /\ row # NoItem
    <3>1. row \in SkillRow
      BY DEF SkillRow
    <3>2. QED
      BY <3>1, CatalogueAssumption
  <2>4. CASE skill' = skill
    <3>1. OfferInv' /\ offer' \subseteq Used(skill')
      BY <2>1, <2>2, <2>4, OfferKept DEF OfferInv, SkillTypes
    <3>2. QED
      BY <2>1, <2>2, <2>4, <3>1 DEF SkillTypes, TwinsInv, Used
  <2>5. CASE skill' = [skill EXCEPT ![s] = row]
    <3>1. skill' \in [SkillId -> SkillRow \cup {NoItem}]
      BY <2>3, <2>5 DEF SkillTypes
    <3>2. /\ skill'[s] = row
          /\ \A o \in SkillId \ {s} : skill'[o] = skill[o]
      BY <2>5 DEF SkillTypes
    <3>3. Used(skill) \subseteq Used(skill')
      BY <2>3, <3>1, <3>2 DEF Used, SkillTypes
    <3>4. \A o \in Used(skill') : skill'[o].source \in folders'
      BY <2>1, <3>1, <3>2 DEF Used, SkillTypes, OfferInv
    <3>5. OfferInv' /\ offer' \subseteq Used(skill')
      BY <2>2, <3>1, <3>3, <3>4, OfferKept
    <3>6. \A o \in InUse(skill) : skill[o].slug # slug
      BY <2>1, CatalogueAssumption
      DEF SkillSlugFree, InUse, Used, SkillTypes, SkillId
    <3>7. TwinsInv'
      BY <2>2, <3>1, <3>2, <3>6 DEF TwinsInv, InUse, Used, SkillTypes
    <3>8. QED
      BY <2>1, <2>2, <3>1, <3>5, <3>7 DEF SkillTypes, Used
  <2>6. QED
    BY <2>1, <2>4, <2>5
<1>2. CASE UpdateSkill
  <2>1. PICK s \in Used(skill), slug \in SkillSlug \cup {NoItem},
             folder \in Folder \cup {NoItem}, on \in BOOLEAN :
          /\ slug # NoItem => SkillSlugFree(slug, s)
          /\ folders' = folders \cup ({folder} \cap Folder)
          /\ skill' = [skill EXCEPT
               ![s].slug = IF slug = NoItem THEN @ ELSE slug,
               ![s].source = IF folder = NoItem THEN @ ELSE folder,
               ![s].active = on]
          /\ revived' = IF slug = NoItem /\ on /\ ~skill[s].active
                        THEN revived \cup {s} ELSE revived
    BY <1>2 DEF UpdateSkill
  <2>2. RefreshOffer /\ UNCHANGED bound
    BY <1>2 DEF UpdateSkill
  <2>3. s \in SkillId /\ skill[s] \in SkillRow
    BY <2>1 DEF Used, SkillTypes
  <2>4. /\ skill' \in [SkillId -> SkillRow \cup {NoItem}]
        /\ \A o \in SkillId \ {s} : skill'[o] = skill[o]
        /\ skill'[s] \in SkillRow /\ skill'[s].active = on
        /\ skill'[s].slug = IF slug = NoItem THEN skill[s].slug ELSE slug
        /\ skill'[s].source = IF folder = NoItem THEN skill[s].source ELSE folder
    <3> DEFINE row == [skill[s] EXCEPT
                 !.slug = IF slug = NoItem THEN skill[s].slug ELSE slug,
                 !.source = IF folder = NoItem THEN skill[s].source ELSE folder,
                 !.active = on]
    <3>1. /\ skill'[s] = row /\ skill' = [skill EXCEPT ![s] = skill'[s]]
          /\ \A o \in SkillId \ {s} : skill'[o] = skill[o]
      BY <2>1, <2>3 DEF SkillTypes
    <3>2. /\ row \in SkillRow /\ row.active = on
          /\ row.slug = IF slug = NoItem THEN skill[s].slug ELSE slug
          /\ row.source = IF folder = NoItem THEN skill[s].source ELSE folder
      BY <2>1, <2>3 DEF SkillRow
    <3>3. QED
      BY <2>3, <3>1, <3>2 DEF SkillTypes
  <2>5. skill'[s] # NoItem
    BY <2>4, CatalogueAssumption
  <2>6. Used(skill') = Used(skill)
    BY <2>1, <2>3, <2>4, <2>5 DEF Used, SkillTypes
  <2>7. \A o \in Used(skill') : skill'[o].source \in folders'
    BY <2>1, <2>3, <2>4, <2>6 DEF OfferInv, Used, SkillTypes
  <2>8. OfferInv' /\ offer' \subseteq Used(skill')
    BY <2>2, <2>4, <2>6, <2>7, OfferKept
  <2>9. ASSUME NEW o \in InUse(skill) \ {s}, on, skill[o].slug = skill'[s].slug
        PROVE  {s, o} \cap revived' # {}
    <3>1. CASE slug = NoItem
      BY <2>1, <2>3, <2>4, <2>9, <3>1 DEF TwinsInv, InUse
    <3>2. CASE slug # NoItem
      <4>1. s \in InUse(skill) /\ skill[s].slug = slug
        BY <2>1, <2>4, <2>9, <3>2 DEF SkillSlugFree
      <4>2. {s, o} \cap revived # {}
        BY <2>4, <2>9, <3>2, <4>1 DEF TwinsInv
      <4>3. QED
        BY <2>1, <3>2, <4>2
    <3>3. QED
      BY <3>1, <3>2
  <2>10. TwinsInv'
    <3> SUFFICES ASSUME NEW a \in InUse(skill'), NEW b \in InUse(skill'), a # b,
                        skill'[a].slug = skill'[b].slug
                 PROVE  {a, b} \cap revived' # {}
      BY DEF TwinsInv
    <3>1. /\ a \in SkillId /\ (a # s => a \in InUse(skill)) /\ (a = s => on)
          /\ b \in SkillId /\ (b # s => b \in InUse(skill)) /\ (b = s => on)
      BY <2>4, <2>6 DEF InUse, Used, SkillTypes
    <3>2. revived \subseteq revived'
      BY <2>1
    <3>3. CASE a = s
      BY <2>4, <2>9, <3>1, <3>3
    <3>4. CASE b = s
      BY <2>4, <2>9, <3>1, <3>4
    <3>5. CASE a # s /\ b # s
      BY <2>4, <3>1, <3>2, <3>5 DEF TwinsInv
    <3>6. QED
      BY <3>3, <3>4, <3>5
  <2>11. QED
    BY <2>1, <2>2, <2>3, <2>4, <2>8, <2>10 DEF SkillTypes, Used
<1>3. CASE DeactivateSkill
  <2>1. PICK s \in InUse(skill) : skill' = [skill EXCEPT ![s].active = FALSE]
    BY <1>3 DEF DeactivateSkill
  <2>2. RefreshOffer /\ UNCHANGED <<bound, folders, revived>>
    BY <1>3 DEF DeactivateSkill
  <2>3. s \in SkillId /\ skill[s] \in SkillRow
    BY <2>1 DEF InUse, Used, SkillTypes
  <2> DEFINE row == [skill[s] EXCEPT !.active = FALSE]
  <2>4. /\ row \in SkillRow /\ row # NoItem /\ ~row.active
        /\ row.source = skill[s].source
    BY <2>3, CatalogueAssumption DEF SkillRow
  <2>5. /\ skill'[s] = row
        /\ skill' \in [SkillId -> SkillRow \cup {NoItem}]
        /\ \A o \in SkillId \ {s} : skill'[o] = skill[o]
    BY <2>1, <2>3, <2>4 DEF SkillTypes
  <2>6. Used(skill') = Used(skill)
    BY <2>1, <2>3, <2>4, <2>5 DEF InUse, Used, SkillTypes
  <2>7. \A o \in Used(skill') : skill'[o].source \in folders'
    BY <2>2, <2>3, <2>4, <2>5, <2>6 DEF OfferInv, Used, SkillTypes
  <2>8. OfferInv' /\ offer' \subseteq Used(skill')
    BY <2>2, <2>5, <2>6, <2>7, OfferKept
  <2>9. TwinsInv'
    <3>1. InUse(skill') \subseteq InUse(skill) \ {s}
      BY <2>4, <2>5, <2>6 DEF InUse, Used
    <3>2. \A o \in InUse(skill) \ {s} : skill'[o] = skill[o]
      BY <2>5 DEF InUse, Used, SkillTypes
    <3>3. QED
      BY <2>2, <3>1, <3>2 DEF TwinsInv
  <2>10. QED
    BY <2>2, <2>5, <2>8, <2>9 DEF SkillTypes, Used
<1>4. CASE BindSkill \/ UnbindSkill
  <2>1. UNCHANGED <<skill, folders, revived>> /\ RefreshOffer
    BY <1>4 DEF BindSkill, UnbindSkill
  <2>2. bound' \in [SkillId -> 0..MaxBound]
    BY <1>4, CatalogueAssumption
    DEF BindSkill, UnbindSkill, SkillTypes, InUse, Used
  <2>3. OfferInv' /\ offer' \subseteq Used(skill')
    BY <2>1, OfferKept DEF OfferInv, SkillTypes
  <2>4. QED
    BY <2>1, <2>2, <2>3 DEF SkillTypes, TwinsInv, Used
<1>5. QED
  BY <1>1, <1>2, <1>3, <1>4 DEF SkillNext

(* A note that is written keeps the slug and the tools of the one before,  *)
(* or gets a slug that passed _validate_tool_slug.                         *)
LEMMA NoteWritten ==
  ASSUME NoteTypes, NotesInv, NEW n \in NoteId, NEW slug \in NoteSlug,
         NEW on \in BOOLEAN, NEW of \in SUBSET everHad[slug],
         slug \notin ScriptSlug => of # {}, WriteNote(n, slug, on, of)
  PROVE  NoteTypes' /\ NotesInv'
<1> DEFINE row == [slug |-> slug, active |-> on, of |-> of]
<1>1. /\ note' = [note EXCEPT ![n] = row]
      /\ UNCHANGED <<toolRow, everHad>>
  BY DEF WriteNote
<1>2. row \in NoteRow
  BY DEF NoteRow, NoteTypes
<1>3. NoteTypes'
  BY <1>1, <1>2 DEF NoteTypes
<1>4. NotesInv'
  BY <1>1 DEF NoteTypes, NotesInv, Used
<1>5. QED
  BY <1>3, <1>4

LEMMA NoteNextIInv ==
  ASSUME NoteTypes, NotesInv, NoteNext
  PROVE  NoteTypes' /\ NotesInv'
<1>1. CASE ChangeTool
  <2>1. /\ toolRow' \in [NoteTool -> [slug : NoteSlug, active : BOOLEAN]]
        /\ everHad' = [slug \in NoteSlug |-> everHad[slug] \cup Having(toolRow', slug)]
        /\ note' = note
    BY <1>1 DEF ChangeTool, NoteTypes
  <2>2. NoteTypes'
    BY <2>1 DEF NoteTypes, Having
  <2>3. NotesInv'
    <3>1. \A slug \in NoteSlug : everHad[slug] \subseteq everHad'[slug]
      BY <2>1
    <3>2. \A t \in NoteTool : toolRow'[t].active => t \in everHad'[toolRow'[t].slug]
      BY <2>1 DEF Having
    <3>3. \A n \in Used(note) : note[n].slug \in NoteSlug
      BY DEF NoteTypes, NoteRow, Used
    <3>4. QED
      BY <2>1, <3>1, <3>2, <3>3 DEF NotesInv
  <2>4. QED
    BY <2>2, <2>3
<1>2. ASSUME NEW slug \in NoteSlug, KnownSlug(slug)
      PROVE  /\ Having(toolRow, slug) \in SUBSET everHad[slug]
             /\ slug \notin ScriptSlug => Having(toolRow, slug) # {}
  BY <1>2 DEF NotesInv, Having, KnownSlug
<1>3. ASSUME NEW n \in Used(note)
      PROVE  /\ n \in NoteId /\ note[n].slug \in NoteSlug
             /\ note[n].of \in SUBSET everHad[note[n].slug]
             /\ note[n].slug \notin ScriptSlug => note[n].of # {}
  BY <1>3 DEF NoteTypes, NoteRow, NotesInv, Used
<1>4. CASE CreateNote
  BY <1>2, <1>4, NoteWritten DEF CreateNote
<1>5. CASE UpdateNote
  BY <1>2, <1>3, <1>5, NoteWritten DEF UpdateNote
<1>6. CASE DeactivateNote
  BY <1>3, <1>6, NoteWritten DEF DeactivateNote, InUse
<1>7. QED
  BY <1>1, <1>4, <1>5, <1>6 DEF NoteNext

LEMMA CatalogueNextIInv ==
  CatalogueIInv /\ [CatalogueNext]_catalogueVars => CatalogueIInv'
<1> SUFFICES ASSUME CatalogueIInv, [CatalogueNext]_catalogueVars
             PROVE  CatalogueIInv'
  OBVIOUS
<1>a. SkillTypes /\ NoteTypes /\ OfferInv /\ TwinsInv /\ NotesInv
  BY DEF CatalogueIInv
<1>1. CASE SkillNext
  <2>1. UNCHANGED noteVars
    BY <1>1 DEF SkillNext, CreateSkill, UpdateSkill, DeactivateSkill, BindSkill,
      UnbindSkill
  <2>2. NoteTypes' /\ NotesInv'
    BY <1>a, <2>1 DEF noteVars, NoteTypes, NotesInv, Used
  <2>3. QED
    BY <1>a, <1>1, <2>2, SkillNextIInv DEF CatalogueIInv
<1>2. CASE NoteNext
  <2>1. UNCHANGED skillVars
    BY <1>2 DEF NoteNext, ChangeTool, CreateNote, UpdateNote, DeactivateNote,
      WriteNote
  <2>2. SkillTypes' /\ OfferInv' /\ TwinsInv'
    BY <1>a, <2>1 DEF skillVars, SkillTypes, OfferInv, TwinsInv, InUse, Used
  <2>3. QED
    BY <1>a, <1>2, <2>2, NoteNextIInv DEF CatalogueIInv
<1>3. CASE UNCHANGED catalogueVars
  BY <1>a, <1>3 DEF catalogueVars, CatalogueIInv, SkillTypes, NoteTypes,
    OfferInv, TwinsInv, NotesInv, InUse, Used
<1>4. QED
  BY <1>1, <1>2, <1>3 DEF CatalogueNext

LEMMA CatalogueInvariance == Spec => []CatalogueIInv
  BY ImplementsParts, CatalogueInitIInv, CatalogueNextIInv, PTL DEF CatalogueSpec

LEMMA CatalogueSlugs == CatalogueIInv => SlugsMeanOne
<1> SUFFICES ASSUME CatalogueIInv PROVE SlugsMeanOne
  OBVIOUS
<1>a. NoteTypes /\ OfferInv /\ TwinsInv /\ NotesInv
  BY DEF CatalogueIInv
<1>1. ASSUME NEW t \in NoteTool, NEW n \in InUse(note), toolRow[t].active,
             note[n].slug = toolRow[t].slug, t \notin note[n].of,
             note[n].slug \notin ScriptSlug
      PROVE  Cardinality(everHad[note[n].slug]) > 1
  <2>1. PICK u : u \in note[n].of /\ u \in everHad[note[n].slug]
    BY <1>a, <1>1 DEF NotesInv, InUse
  <2>2. t \in everHad[note[n].slug]
    BY <1>a, <1>1 DEF NotesInv
  <2>3. IsFiniteSet(everHad[note[n].slug])
    <3>1. everHad[note[n].slug] \subseteq NoteTool
      BY <1>a, <1>1 DEF NoteTypes
    <3>2. QED
      BY <3>1, CatalogueAssumption, FS_Subset
  <2>4. QED
    BY <1>1, <2>1, <2>2, <2>3, TwoElements
<1>2. QED
  BY <1>a, <1>1 DEF SlugsMeanOne, OfferInv, TwinsInv

(* For any numbers of skills, tools and notes: active skills that share a  *)
(* slug came to it by a request without the slug, an offered skill has its *)
(* directory, and a call gets what was written for its tool.               *)
THEOREM SlugsMeanOneHolds == Spec => []SlugsMeanOne
  BY CatalogueInvariance, CatalogueSlugs, PTL

-----------------------------------------------------------------------------
(* ChannelAdmin                                                            *)

Busy(h) == clerk[h].step # "idle"

(* What a clerk has read, and how far it still holds: the row is there     *)
(* unless it is to be inserted; if no other request on the channel or with *)
(* its token has been under way, none is, the row is as it was read, and   *)
(* the provider has what it was given.                                     *)
ClerkInv(h) ==
  /\ Busy(h) =>
       /\ clerk[h].on \in Channel
       /\ IF At(h, "insert")
          THEN clerk[h].new \in Token /\ clerk[h].token = NoValue
          ELSE /\ Exists(clerk[h].on)
               /\ clerk[h].token \in Token /\ clerk[h].secret \in Secret
  /\ clerk[h].step \in {"register", "confirm"} /\ clerk[h].alone =>
       /\ channel[clerk[h].on].enabled
       /\ channel[clerk[h].on].token = clerk[h].token
       /\ channel[clerk[h].on].secret = clerk[h].secret
       /\ \A o \in Clerk \ {h} : Busy(o) =>
            clerk[o].on # clerk[h].on /\ clerk[o].token # clerk[h].token
  /\ At(h, "confirm") /\ clerk[h].alone => hook[clerk[h].token] = HookOf(h)

TokensInv ==
  \A c, d \in Channel :
    Exists(c) /\ Exists(d) /\ channel[c].token = channel[d].token => c = d

(* No request under way has to do with a channel that is sure, and none    *)
(* has read a token that is now this channel's.                            *)
SureInv ==
  \A c \in sure :
    /\ Exists(c) /\ Delivers(c)
    /\ \A h \in Clerk : Busy(h) =>
         clerk[h].on # c /\ clerk[h].token # channel[c].token

ChannelAdminIInv ==
  ChannelAdminTypeOK /\ TokensInv /\ SureInv /\ \A h \in Clerk : ClerkInv(h)

LEMMA ChannelAdminInitIInv == ChannelAdminInit => ChannelAdminIInv
<1> SUFFICES ASSUME ChannelAdminInit PROVE ChannelAdminIInv
  OBVIOUS
<1>1. ChannelAdminTypeOK
  BY ChannelAdminAssumption
  DEF ChannelAdminInit, ChannelAdminTypeOK, Idle, ChannelSteps
<1>2. TokensInv /\ SureInv
  BY DEF ChannelAdminInit, TokensInv, SureInv, Exists
<1>3. \A h \in Clerk : ClerkInv(h)
  BY DEF ChannelAdminInit, ClerkInv, Busy, At, Idle
<1>4. QED
  BY <1>1, <1>2, <1>3 DEF ChannelAdminIInv

(* What the first step of every request has in common.                     *)
LEMMA BeginIInv ==
  ASSUME ChannelAdminIInv, NEW h \in Clerk, NEW c \in Channel,
         NEW stage \in ChannelSteps \ {"idle", "confirm"},
         NEW new \in Token \cup {NoValue}, NEW enabled \in BOOLEAN,
         Begin(h, c, stage, new, enabled),
         IF stage = "insert" THEN ~Exists(c) /\ new \in Token ELSE Exists(c),
         stage = "register" => channel[c].enabled
  PROVE  ChannelAdminIInv'
<1>a. /\ ChannelAdminTypeOK /\ TokensInv /\ SureInv
      /\ \A k \in Clerk : ClerkInv(k)
  BY DEF ChannelAdminIInv
<1>1. /\ clerk[h].step = "idle"
      /\ sure' = sure \ {c} /\ UNCHANGED <<channel, hook, issued>>
  BY DEF Begin
<1>2. Exists(c) => channel[c].token \in Token /\ channel[c].secret \in Secret
  BY <1>a DEF ChannelAdminTypeOK, Exists, ChannelRow
<1> DEFINE read == [step |-> stage, on |-> c, token |-> TokenRead(c),
                    secret |-> IF Exists(c) THEN channel[c].secret ELSE NoValue,
                    new |-> new, enabled |-> enabled,
                    alone |-> stage = "register" /\ \A o \in Clerk : ~Concerns(o, c)]
<1>3. /\ clerk' \in [Clerk -> [step : ChannelSteps, on : Channel \cup {NoValue},
                          token : Token \cup {NoValue},
                          secret : Secret \cup {NoValue},
                          new : Token \cup {NoValue}, enabled : BOOLEAN,
                          alone : BOOLEAN]]
      /\ clerk'[h] = read
      /\ \A k \in Clerk \ {h} :
           clerk'[k] = [clerk[k] EXCEPT !.alone = @ /\ ~Concerns(k, c)]
  <2>1. \A k \in Clerk :
          clerk'[k] = IF k = h THEN read
                      ELSE [clerk[k] EXCEPT !.alone = @ /\ ~Concerns(k, c)]
    BY DEF Begin
  <2>2. read \in [step : ChannelSteps, on : Channel \cup {NoValue},
                  token : Token \cup {NoValue}, secret : Secret \cup {NoValue},
                  new : Token \cup {NoValue}, enabled : BOOLEAN, alone : BOOLEAN]
    <3>1. read.alone \in BOOLEAN
      OBVIOUS
    <3>2. QED
      BY <1>2, <3>1 DEF TokenRead
  <2>3. ASSUME NEW k \in Clerk
        PROVE  [clerk[k] EXCEPT !.alone = @ /\ ~Concerns(k, c)]
                 \in [step : ChannelSteps, on : Channel \cup {NoValue},
                      token : Token \cup {NoValue}, secret : Secret \cup {NoValue},
                      new : Token \cup {NoValue}, enabled : BOOLEAN,
                      alone : BOOLEAN]
    BY <1>a, <2>3 DEF ChannelAdminTypeOK
  <2> DEFINE Next1(k) ==
        IF k = h THEN read
        ELSE [clerk[k] EXCEPT !.alone = @ /\ ~Concerns(k, c)]
  <2>4. clerk' = [k \in Clerk |-> Next1(k)]
    BY DEF Begin
  <2>5. \A k \in Clerk :
          Next1(k) \in [step : ChannelSteps, on : Channel \cup {NoValue},
                       token : Token \cup {NoValue}, secret : Secret \cup {NoValue},
                       new : Token \cup {NoValue}, enabled : BOOLEAN,
                       alone : BOOLEAN]
    BY <2>2, <2>3
  <2>6. /\ Next1(h) = read
        /\ \A k \in Clerk \ {h} :
             Next1(k) = [clerk[k] EXCEPT !.alone = @ /\ ~Concerns(k, c)]
    OBVIOUS
  <2> HIDE DEF Next1, read
  <2>7. QED
    BY <2>4, <2>5, <2>6
<1>4. \A k \in Clerk \ {h} :
        /\ clerk'[k].step = clerk[k].step /\ clerk'[k].on = clerk[k].on
        /\ clerk'[k].token = clerk[k].token /\ clerk'[k].secret = clerk[k].secret
        /\ clerk'[k].new = clerk[k].new
        /\ clerk'[k].alone => clerk[k].alone /\ ~Concerns(k, c)
  BY <1>a, <1>3 DEF ChannelAdminTypeOK
<1>5. ChannelAdminTypeOK'
  BY <1>a, <1>1, <1>3 DEF ChannelAdminTypeOK
<1>6. TokensInv'
  BY <1>a, <1>1 DEF TokensInv, Exists
<1>7. ASSUME NEW k \in Clerk \ {h} PROVE ClerkInv(k)'
  <2>1. k # h /\ k \in Clerk /\ ClerkInv(k)
    BY <1>a
  <2>2. \A o \in Clerk \ {h, k} : (Busy(o)' <=> Busy(o))
          /\ clerk'[o].on = clerk[o].on /\ clerk'[o].token = clerk[o].token
    BY <1>4 DEF Busy
  <2>3. Busy(k) /\ clerk'[k].alone =>
          clerk[k].on # clerk'[h].on /\ clerk[k].token # clerk'[h].token
    BY <1>3, <1>4 DEF Concerns, Busy
  <2>4. HookOf(k)' = HookOf(k)
    BY <1>4 DEF HookOf
  <2>5. QED
    BY <1>1, <1>4, <2>1, <2>2, <2>3, <2>4 DEF ClerkInv, Busy, At, Exists
<1>8. ClerkInv(h)'
  <2>1. /\ clerk'[h].step = stage /\ clerk'[h].on = c /\ clerk'[h].new = new
        /\ clerk'[h].token = TokenRead(c)
        /\ clerk'[h].secret = IF Exists(c) THEN channel[c].secret ELSE NoValue
        /\ clerk'[h].alone => \A o \in Clerk : ~Concerns(o, c)
    BY <1>3
  <2>2. clerk'[h].alone => \A o \in Clerk \ {h} : Busy(o)' =>
          clerk'[o].on # c /\ clerk'[o].token # TokenRead(c)
    BY <1>4, <2>1 DEF Busy, Concerns
  <2>3. QED
    BY <1>1, <1>2, <2>1, <2>2 DEF ClerkInv, Busy, At, Exists, TokenRead
<1>9. SureInv'
  <2> SUFFICES ASSUME NEW d \in sure, d # c
               PROVE  /\ Exists(d)' /\ Delivers(d)'
                      /\ \A k \in Clerk : Busy(k)' =>
                           clerk'[k].on # d /\ clerk'[k].token # channel[d].token
    BY <1>1 DEF SureInv
  <2>1. /\ Exists(d) /\ Delivers(d) /\ d \in Channel
        /\ channel[d].token \in Token
    BY <1>a DEF SureInv, ChannelAdminTypeOK, Exists, ChannelRow
  <2>2. Exists(d)' /\ Delivers(d)'
    BY <1>1, <2>1 DEF Exists, Delivers
  <2>3. clerk'[h].on # d /\ clerk'[h].token # channel[d].token
    BY <1>a, <1>3, <2>1, ChannelAdminAssumption DEF TokensInv, TokenRead
  <2>4. \A k \in Clerk \ {h} : Busy(k)' =>
          clerk'[k].on # d /\ clerk'[k].token # channel[d].token
    BY <1>a, <1>4 DEF SureInv, Busy
  <2>5. QED
    BY <2>2, <2>3, <2>4
<1>10. QED
  BY <1>5, <1>6, <1>7, <1>8, <1>9 DEF ChannelAdminIInv

(* A later step touches only the clerk's own channel and the webhook of    *)
(* the token it has read: other clerks that still think themselves alone   *)
(* with theirs, and channels that are sure, do not notice.                 *)
LEMMA OthersUnmoved ==
  ASSUME ChannelAdminIInv, NEW h \in Clerk, Busy(h), UNCHANGED sure,
         \A o \in Clerk \ {h} : clerk'[o] = clerk[o],
         Busy(h)' => clerk'[h].on = clerk[h].on /\ clerk'[h].token = clerk[h].token,
         \A c \in Channel \ {clerk[h].on} : channel'[c] = channel[c],
         Exists(clerk[h].on) => channel'[clerk[h].on] # NoValue,
         \A t \in Token \ {clerk[h].token} : hook'[t] = hook[t]
  PROVE  SureInv' /\ \A o \in Clerk \ {h} : ClerkInv(o)'
<1>a. /\ ChannelAdminTypeOK /\ TokensInv /\ SureInv
      /\ \A k \in Clerk : ClerkInv(k)
  BY DEF ChannelAdminIInv
<1>1. ASSUME NEW o \in Clerk \ {h} PROVE ClerkInv(o)'
  <2>1. clerk[o].step \in {"register", "confirm"} /\ clerk[o].alone =>
          /\ channel'[clerk[o].on] = channel[clerk[o].on]
          /\ hook'[clerk[o].token] = hook[clerk[o].token]
          /\ \A k \in Clerk \ {o} : Busy(k)' =>
               clerk'[k].on # clerk[o].on /\ clerk'[k].token # clerk[o].token
    BY <1>a DEF ClerkInv, Busy, At
  <2>2. Busy(o) /\ ~At(o, "insert") => channel'[clerk[o].on] # NoValue
    BY <1>a DEF ClerkInv, Exists
  <2>3. HookOf(o)' = HookOf(o)
    BY DEF HookOf
  <2>4. QED
    BY <1>a, <2>1, <2>2, <2>3 DEF ClerkInv, Busy, At, Exists
<1>2. SureInv'
  <2> SUFFICES ASSUME NEW c \in sure
               PROVE  /\ Exists(c)' /\ Delivers(c)'
                      /\ \A k \in Clerk : Busy(k)' =>
                           clerk'[k].on # c /\ clerk'[k].token # channel'[c].token
    BY DEF SureInv
  <2>1. /\ Exists(c) /\ Delivers(c) /\ c \in Channel
        /\ channel[c].token \in Token
        /\ clerk[h].on # c /\ clerk[h].token # channel[c].token
    BY <1>a DEF SureInv, ChannelAdminTypeOK, Exists, ChannelRow
  <2>2. channel'[c] = channel[c] /\ hook'[channel[c].token] = hook[channel[c].token]
    BY <2>1
  <2>3. QED
    BY <1>a, <2>1, <2>2 DEF SureInv, Exists, Delivers, Busy
<1>3. QED
  BY <1>1, <1>2

(* Steps that end the request, other than Confirm.                         *)
LEMMA EndsIInv ==
  ASSUME ChannelAdminIInv, NEW h \in Clerk, Busy(h), Ends(h), UNCHANGED sure,
         channel' \in [Channel -> ChannelRow \cup {NoValue}],
         hook' \in [Token -> [channel : Channel, secret : Secret \cup {NoValue}]
                               \cup {NoValue}],
         issued' \in 0..MaxSecrets,
         \A c \in Channel \ {clerk[h].on} : channel'[c] = channel[c],
         Exists(clerk[h].on) => channel'[clerk[h].on] # NoValue,
         \A t \in Token \ {clerk[h].token} : hook'[t] = hook[t],
         TokensInv'
  PROVE  ChannelAdminIInv'
<1>1. ChannelAdminTypeOK
  BY DEF ChannelAdminIInv
<1>2. Idle \in [step : ChannelSteps, on : Channel \cup {NoValue},
                token : Token \cup {NoValue}, secret : Secret \cup {NoValue},
                new : Token \cup {NoValue}, enabled : BOOLEAN, alone : BOOLEAN]
  BY DEF Idle, ChannelSteps
<1>3. clerk'[h] = Idle /\ \A o \in Clerk \ {h} : clerk'[o] = clerk[o]
  BY <1>1 DEF Ends, ChannelAdminTypeOK
<1>4. ChannelAdminTypeOK'
  BY <1>1, <1>2 DEF Ends, ChannelAdminTypeOK
<1>5. ClerkInv(h)' /\ ~Busy(h)'
  BY <1>3 DEF ClerkInv, Busy, At, Idle
<1>6. SureInv' /\ \A o \in Clerk \ {h} : ClerkInv(o)'
  BY <1>3, <1>5, OthersUnmoved
<1>7. QED
  BY <1>4, <1>5, <1>6 DEF ChannelAdminIInv

(* The row of a request that is not an insert changes, but not its token   *)
(* unless no other channel has the new one.                                *)
LEMMA RowIInv ==
  ASSUME ChannelAdminIInv, NEW h \in Clerk, Busy(h), ~At(h, "insert"), Ends(h),
         UNCHANGED <<hook, sure>>, issued' \in 0..MaxSecrets,
         NEW row \in ChannelRow,
         channel' = [channel EXCEPT ![clerk[h].on] = row],
         \/ row.token = channel[clerk[h].on].token
         \/ HoldsToken(row.token) \subseteq {clerk[h].on}
  PROVE  ChannelAdminIInv'
<1>a. ChannelAdminTypeOK /\ TokensInv /\ ClerkInv(h)
  BY DEF ChannelAdminIInv
<1>1. clerk[h].on \in Channel /\ Exists(clerk[h].on) /\ row # NoValue
  BY <1>a, ChannelAdminAssumption DEF ClerkInv
<1>2. /\ channel' \in [Channel -> ChannelRow \cup {NoValue}]
      /\ channel'[clerk[h].on] = row
      /\ \A c \in Channel \ {clerk[h].on} : channel'[c] = channel[c]
      /\ hook' \in [Token -> [channel : Channel, secret : Secret \cup {NoValue}]
                               \cup {NoValue}]
  BY <1>a, <1>1 DEF ChannelAdminTypeOK
<1>3. TokensInv'
  BY <1>a, <1>1, <1>2 DEF TokensInv, Exists, HoldsToken
<1>4. channel'[clerk[h].on] # NoValue
  BY <1>1, <1>2 DEF Exists
<1>5. QED
  BY <1>2, <1>3, <1>4, EndsIInv

(* A step of the clerk that leaves the rows alone and goes on.             *)
LEMMA GoesOnIInv ==
  ASSUME ChannelAdminIInv, NEW h \in Clerk, Busy(h), ~At(h, "insert"),
         UNCHANGED <<channel, issued, sure>>,
         hook' \in [Token -> [channel : Channel, secret : Secret \cup {NoValue}]
                               \cup {NoValue}],
         \A t \in Token \ {clerk[h].token} : hook'[t] = hook[t],
         \/ GoTo(h, "disable")
         \/ GoTo(h, "confirm") /\ At(h, "register")
              /\ hook'[clerk[h].token] = HookOf(h)
  PROVE  ChannelAdminIInv'
<1>a. ChannelAdminTypeOK /\ TokensInv /\ ClerkInv(h)
  BY DEF ChannelAdminIInv
<1>1. PICK stage \in {"disable", "confirm"} :
        /\ GoTo(h, stage)
        /\ stage = "confirm" =>
             At(h, "register") /\ hook'[clerk[h].token] = HookOf(h)
  OBVIOUS
<1>2. /\ \A o \in Clerk \ {h} : clerk'[o] = clerk[o]
      /\ clerk'[h] = [clerk[h] EXCEPT !.step = stage]
      /\ clerk' \in [Clerk -> [step : ChannelSteps, on : Channel \cup {NoValue},
                          token : Token \cup {NoValue},
                          secret : Secret \cup {NoValue},
                          new : Token \cup {NoValue}, enabled : BOOLEAN,
                          alone : BOOLEAN]]
  BY <1>a, <1>1 DEF GoTo, ChannelAdminTypeOK, ChannelSteps
<1>3. /\ clerk'[h].step = stage /\ clerk'[h].on = clerk[h].on
      /\ clerk'[h].token = clerk[h].token /\ clerk'[h].secret = clerk[h].secret
      /\ clerk'[h].alone = clerk[h].alone
  BY <1>a, <1>2 DEF ChannelAdminTypeOK
<1>4. ChannelAdminTypeOK' /\ TokensInv'
  BY <1>a, <1>2 DEF ChannelAdminTypeOK, TokensInv, Exists
<1>5. SureInv' /\ \A o \in Clerk \ {h} : ClerkInv(o)'
  BY <1>2, <1>3, OthersUnmoved DEF Exists
<1>6. ClerkInv(h)'
  <2>1. \A o \in Clerk \ {h} :
          (Busy(o)' <=> Busy(o)) /\ clerk'[o].on = clerk[o].on
            /\ clerk'[o].token = clerk[o].token
    BY <1>2 DEF Busy
  <2>2. HookOf(h)' = HookOf(h)
    BY <1>3 DEF HookOf
  <2>3. QED
    BY <1>a, <1>1, <1>3, <2>1, <2>2 DEF ClerkInv, Busy, At, Exists
<1>7. QED
  BY <1>4, <1>5, <1>6 DEF ChannelAdminIInv

LEMMA ChannelAdminNextIInv ==
  ChannelAdminIInv /\ [ChannelAdminNext]_channelAdminVars => ChannelAdminIInv'
<1> SUFFICES ASSUME ChannelAdminIInv, [ChannelAdminNext]_channelAdminVars
             PROVE  ChannelAdminIInv'
  OBVIOUS
<1>a. /\ ChannelAdminTypeOK /\ TokensInv /\ SureInv
      /\ \A k \in Clerk : ClerkInv(k)
  BY DEF ChannelAdminIInv
<1>1. ASSUME NEW h \in Clerk,
             BeginCreate(h) \/ BeginUpdate(h) \/ BeginDeactivate(h)
               \/ BeginCascade(h) \/ BeginRotate(h) \/ BeginSetWebhook(h)
               \/ BeginDeleteWebhook(h)
      PROVE  ChannelAdminIInv'
  BY <1>1, BeginIInv DEF BeginCreate, BeginUpdate, BeginDeactivate, BeginCascade,
    BeginRotate, BeginSetWebhook, BeginDeleteWebhook, ChannelSteps
<1>2. ASSUME NEW h \in Clerk, Busy(h), ~At(h, "insert")
      PROVE  /\ clerk[h].on \in Channel /\ channel[clerk[h].on] \in ChannelRow
             /\ clerk[h].token \in Token /\ clerk[h].secret \in Secret
  BY <1>a, <1>2 DEF ClerkInv, Exists, ChannelAdminTypeOK
<1>3. ASSUME NEW h \in Clerk, InsertChannel(h) PROVE ChannelAdminIInv'
  <2> DEFINE row == [token |-> clerk[h].new, secret |-> issued + 1,
                     enabled |-> clerk[h].enabled, linked |-> FALSE]
  <2>1. /\ At(h, "insert") /\ Busy(h) /\ HoldsToken(clerk[h].new) = {}
        /\ NewSecret /\ Ends(h) /\ UNCHANGED <<hook, sure>>
        /\ channel' = [channel EXCEPT ![clerk[h].on] = row]
        /\ clerk[h].on \in Channel /\ clerk[h].new \in Token
        /\ clerk[h].enabled \in BOOLEAN
    BY <1>a, <1>3
    DEF InsertChannel, At, Busy, ClerkInv, ChannelAdminTypeOK
  <2>2. issued + 1 \in Secret /\ issued' \in 0..MaxSecrets
    BY <1>a, <2>1, ChannelAdminAssumption
    DEF NewSecret, Secret, ChannelAdminTypeOK
  <2>3. row \in ChannelRow
    BY <2>1, <2>2 DEF ChannelRow
  <2>4. row # NoValue
    BY <2>3, ChannelAdminAssumption
  <2>5. /\ channel' \in [Channel -> ChannelRow \cup {NoValue}]
        /\ channel'[clerk[h].on] = row
        /\ \A c \in Channel \ {clerk[h].on} : channel'[c] = channel[c]
    BY <1>a, <2>1, <2>3 DEF ChannelAdminTypeOK
  <2>6. TokensInv'
    BY <1>a, <2>1, <2>5 DEF TokensInv, Exists, HoldsToken
  <2>7. channel'[clerk[h].on] # NoValue
    BY <2>1, <2>4, <2>5 DEF Exists
  <2>8. hook' \in [Token -> [channel : Channel, secret : Secret \cup {NoValue}]
                               \cup {NoValue}]
    BY <1>a, <2>1 DEF ChannelAdminTypeOK
  <2>9. QED
    BY <2>1, <2>2, <2>5, <2>6, <2>7, <2>8, EndsIInv
<1>4. ASSUME NEW h \in Clerk, UpdateChannel(h) PROVE ChannelAdminIInv'
  <2> DEFINE old == channel[clerk[h].on]
             t == clerk[h].new
             row == [old EXCEPT !.enabled = clerk[h].enabled,
                                !.token = IF t = NoValue THEN @ ELSE t]
  <2>1. /\ Busy(h) /\ ~At(h, "insert") /\ Ends(h) /\ UNCHANGED <<hook, issued, sure>>
        /\ t # NoValue => HoldsToken(t) \subseteq {clerk[h].on}
        /\ channel' = [channel EXCEPT ![clerk[h].on].enabled = clerk[h].enabled,
                             ![clerk[h].on].token = IF t = NoValue THEN @ ELSE t]
        /\ t \in Token \cup {NoValue} /\ clerk[h].enabled \in BOOLEAN
        /\ issued \in 0..MaxSecrets
    BY <1>a, <1>4 DEF UpdateChannel, Busy, At, ChannelAdminTypeOK
  <2>2. clerk[h].on \in Channel /\ old \in ChannelRow
    BY <1>2, <2>1
  <2>3. channel' = [channel EXCEPT ![clerk[h].on] = row]
    BY <1>a, <2>1, <2>2 DEF ChannelAdminTypeOK, ChannelRow
  <2>4. /\ row \in ChannelRow
        /\ row.token = IF t = NoValue THEN old.token ELSE t
    BY <2>1, <2>2 DEF ChannelRow
  <2>5. QED
    BY <2>1, <2>3, <2>4, RowIInv
<1>5. ASSUME NEW h \in Clerk, Unhook(h) PROVE ChannelAdminIInv'
  <2>1. /\ Busy(h) /\ ~At(h, "insert") /\ GoTo(h, "disable")
        /\ UNCHANGED <<channel, issued, sure>>
        /\ hook' \in {hook, [hook EXCEPT ![clerk[h].token] = NoValue]}
    BY <1>5 DEF Unhook, Busy, At
  <2>2. /\ hook' \in [Token -> [channel : Channel, secret : Secret \cup {NoValue}]
                                 \cup {NoValue}]
        /\ \A t \in Token \ {clerk[h].token} : hook'[t] = hook[t]
    BY <1>a, <2>1 DEF ChannelAdminTypeOK
  <2>3. QED
    BY <2>1, <2>2, GoesOnIInv
<1>6. ASSUME NEW h \in Clerk, Disable(h) PROVE ChannelAdminIInv'
  <2> DEFINE old == channel[clerk[h].on]
             row == [old EXCEPT !.enabled = FALSE]
  <2>1. /\ Busy(h) /\ ~At(h, "insert") /\ Ends(h) /\ UNCHANGED <<hook, issued, sure>>
        /\ channel' = [channel EXCEPT ![clerk[h].on].enabled = FALSE]
        /\ issued \in 0..MaxSecrets
    BY <1>a, <1>6 DEF Disable, Busy, At, ChannelAdminTypeOK
  <2>2. clerk[h].on \in Channel /\ old \in ChannelRow
    BY <1>2, <2>1
  <2>3. channel' = [channel EXCEPT ![clerk[h].on] = row]
    BY <1>a, <2>1, <2>2 DEF ChannelAdminTypeOK
  <2>4. row \in ChannelRow /\ row.token = old.token
    BY <2>2 DEF ChannelRow
  <2>5. QED
    BY <2>1, <2>3, <2>4, RowIInv
<1>7. ASSUME NEW h \in Clerk, Rotate(h) PROVE ChannelAdminIInv'
  <2> DEFINE old == channel[clerk[h].on]
             row == [old EXCEPT !.secret = issued + 1]
  <2>1. /\ Busy(h) /\ ~At(h, "insert") /\ Ends(h) /\ UNCHANGED <<hook, sure>>
        /\ channel' = [channel EXCEPT ![clerk[h].on].secret = issued + 1]
        /\ NewSecret
    BY <1>7 DEF Rotate, Busy, At
  <2>2. issued + 1 \in Secret /\ issued' \in 0..MaxSecrets
    BY <1>a, <2>1, ChannelAdminAssumption
    DEF NewSecret, Secret, ChannelAdminTypeOK
  <2>3. clerk[h].on \in Channel /\ old \in ChannelRow
    BY <1>2, <2>1
  <2>4. channel' = [channel EXCEPT ![clerk[h].on] = row]
    BY <1>a, <2>1, <2>3 DEF ChannelAdminTypeOK
  <2>5. row \in ChannelRow /\ row.token = old.token
    BY <2>2, <2>3 DEF ChannelRow
  <2>6. QED
    BY <2>1, <2>2, <2>4, <2>5, RowIInv
<1>8. ASSUME NEW h \in Clerk, Register(h) \/ Remove(h) \/ ClerkFails(h)
      PROVE  ChannelAdminIInv'
  <2>1. /\ Busy(h) /\ UNCHANGED <<channel, issued, sure>>
        /\ hook' = hook \/ ~At(h, "insert")
    BY <1>8 DEF Register, Remove, ClerkFails, Busy, At
  <2>2. /\ hook' \in [Token -> [channel : Channel, secret : Secret \cup {NoValue}]
                                 \cup {NoValue}]
        /\ \A t \in Token \ {clerk[h].token} : hook'[t] = hook[t]
        /\ Register(h) => hook'[clerk[h].token] = HookOf(h)
    <3>1. CASE Register(h)
      <4>1. /\ hook' = [hook EXCEPT ![clerk[h].token] = HookOf(h)]
            /\ clerk[h].token \in Token
            /\ HookOf(h) \in [channel : Channel, secret : Secret \cup {NoValue}]
        BY <1>2, <3>1 DEF Register, Busy, At, HookOf
      <4>2. QED
        BY <1>a, <4>1 DEF ChannelAdminTypeOK
    <3>2. CASE ~Register(h)
      BY <1>a, <1>8, <3>2 DEF Remove, ClerkFails, ChannelAdminTypeOK
    <3>3. QED
      BY <3>1, <3>2
  <2>3. CASE Ends(h)
    <3>1. /\ channel' \in [Channel -> ChannelRow \cup {NoValue}]
          /\ issued' \in 0..MaxSecrets
          /\ Exists(clerk[h].on) => channel'[clerk[h].on] # NoValue
          /\ \A c \in Channel \ {clerk[h].on} : channel'[c] = channel[c]
      BY <1>a, <2>1 DEF ChannelAdminTypeOK, Exists
    <3>2. TokensInv'
      BY <1>a, <2>1 DEF TokensInv, Exists
    <3>3. QED
      BY <2>1, <2>2, <2>3, <3>1, <3>2, EndsIInv
  <2>4. CASE GoTo(h, "confirm") /\ Register(h)
    BY <2>1, <2>2, <2>4, GoesOnIInv DEF Register, At
  <2>5. QED
    BY <1>8, <2>3, <2>4 DEF Register, Remove, ClerkFails
<1>9. ASSUME NEW h \in Clerk, Confirm(h) PROVE ChannelAdminIInv'
  <2>0. PICK c : c = clerk[h].on
    OBVIOUS
  <2> DEFINE old == channel[c]
             row == [old EXCEPT !.linked = TRUE]
  <2>1. /\ Busy(h) /\ ~At(h, "insert") /\ At(h, "confirm") /\ Ends(h)
        /\ UNCHANGED <<hook, issued>>
        /\ channel' = [channel EXCEPT ![c].linked = TRUE]
        /\ sure' = IF clerk[h].alone THEN sure \cup {c} ELSE sure
    BY <1>9, <2>0 DEF Confirm, Busy, At
  <2>2. c \in Channel /\ old \in ChannelRow /\ Exists(c)
    BY <1>2, <1>a, <2>0, <2>1 DEF ClerkInv
  <2>3. /\ row \in ChannelRow /\ row.token = old.token /\ row.secret = old.secret
        /\ row.enabled = old.enabled /\ row.linked /\ row # NoValue
    <3>1. /\ row \in ChannelRow /\ row.token = old.token /\ row.secret = old.secret
          /\ row.enabled = old.enabled /\ row.linked
      BY <2>2 DEF ChannelRow
    <3>2. QED
      BY <3>1, ChannelAdminAssumption
  <2>4. /\ channel'[c] = row /\ channel' \in [Channel -> ChannelRow \cup {NoValue}]
        /\ \A d \in Channel \ {c} : channel'[d] = channel[d]
    BY <1>a, <2>1, <2>2, <2>3 DEF ChannelAdminTypeOK
  <2>5. clerk'[h] = Idle /\ \A o \in Clerk \ {h} : clerk'[o] = clerk[o]
    BY <1>a, <2>1 DEF Ends, ChannelAdminTypeOK
  <2>6. ChannelAdminTypeOK'
    <3>1. Idle \in [step : ChannelSteps, on : Channel \cup {NoValue},
                token : Token \cup {NoValue}, secret : Secret \cup {NoValue},
                new : Token \cup {NoValue}, enabled : BOOLEAN, alone : BOOLEAN]
      BY DEF Idle, ChannelSteps
    <3>2. QED
      BY <1>a, <2>1, <2>2, <2>4, <3>1 DEF ChannelAdminTypeOK, Ends
  <2>7. TokensInv'
    <3>1. \A d \in Channel : /\ channel'[d] # NoValue => channel[d] # NoValue
                             /\ channel'[d].token = channel[d].token
      BY <2>2, <2>3, <2>4 DEF Exists
    <3>2. QED
      BY <1>a, <3>1 DEF TokensInv, Exists
  <2>8. ~Busy(h)' /\ ClerkInv(h)'
    BY <2>5 DEF Busy, At, ClerkInv, Idle
  <2>9. ASSUME NEW o \in Clerk \ {h} PROVE ClerkInv(o)'
    <3>1. clerk[o].step \in {"register", "confirm"} /\ clerk[o].alone =>
            /\ channel'[clerk[o].on] = channel[clerk[o].on]
            /\ \A k \in Clerk \ {o} : Busy(k)' =>
                 clerk'[k].on # clerk[o].on /\ clerk'[k].token # clerk[o].token
      BY <1>a, <2>0, <2>1, <2>4, <2>5, <2>8 DEF ClerkInv, Busy, At
    <3>2. Busy(o) /\ ~At(o, "insert") => channel'[clerk[o].on] # NoValue
      <4>1. \A d \in Channel : channel[d] # NoValue => channel'[d] # NoValue
        BY <2>3, <2>4
      <4>2. QED
        BY <1>a, <4>1 DEF ClerkInv, Exists
    <3>3. HookOf(o)' = HookOf(o)
      BY <2>5 DEF HookOf
    <3>4. QED
      BY <1>a, <2>1, <2>5, <3>1, <3>2, <3>3 DEF ClerkInv, Busy, At, Exists
  <2>10. ASSUME NEW d \in sure
         PROVE  /\ Exists(d)' /\ Delivers(d)'
                /\ \A k \in Clerk : Busy(k)' =>
                     clerk'[k].on # d /\ clerk'[k].token # channel'[d].token
    <3>1. d # c /\ d \in Channel /\ channel'[d] = channel[d]
      BY <1>a, <2>0, <2>1, <2>4 DEF SureInv, ChannelAdminTypeOK
    <3>2. QED
      BY <1>a, <2>1, <2>5, <2>8, <3>1 DEF SureInv, Exists, Delivers, Busy
  <2>11. ASSUME clerk[h].alone
         PROVE  /\ Exists(c)' /\ Delivers(c)'
                /\ \A k \in Clerk : Busy(k)' =>
                     clerk'[k].on # c /\ clerk'[k].token # channel'[c].token
    <3>1. /\ old.enabled /\ old.token = clerk[h].token
          /\ old.secret = clerk[h].secret /\ hook[clerk[h].token] = HookOf(h)
          /\ \A o \in Clerk \ {h} : Busy(o) =>
               clerk[o].on # c /\ clerk[o].token # old.token
      BY <1>a, <2>0, <2>1, <2>11 DEF ClerkInv, At
    <3>2. Exists(c)' /\ Delivers(c)'
      BY <2>0, <2>1, <2>3, <2>4, <3>1 DEF Exists, Delivers, HookOf
    <3>3. QED
      BY <2>3, <2>4, <2>5, <2>8, <3>1, <3>2 DEF Busy
  <2>12. SureInv'
    BY <2>1, <2>10, <2>11 DEF SureInv
  <2>13. QED
    BY <2>6, <2>7, <2>8, <2>9, <2>12 DEF ChannelAdminIInv
<1>10. CASE UNCHANGED channelAdminVars
  BY <1>a, <1>10 DEF channelAdminVars, ChannelAdminIInv, ChannelAdminTypeOK,
    TokensInv, SureInv, ClerkInv, Busy, At, Exists, Delivers, HookOf
<1>11. QED
  BY <1>1, <1>3, <1>4, <1>5, <1>6, <1>7, <1>8, <1>9, <1>10 DEF ChannelAdminNext

LEMMA ChannelAdminInvariance == Spec => []ChannelAdminIInv
  BY ImplementsParts, ChannelAdminInitIInv, ChannelAdminNextIInv, PTL
  DEF ChannelAdminSpec

(* For any numbers of clerks, channels, tokens and secrets: a webhook that *)
(* was set with no other request on its channel or with its token under    *)
(* way works until a request on its channel, or the deactivation of its    *)
(* node, begins.                                                           *)
THEOREM ConfirmedHookWorksHolds == Spec => []ConfirmedHookWorks
<1>1. ChannelAdminIInv => ConfirmedHookWorks
  BY DEF ChannelAdminIInv, SureInv, ConfirmedHookWorks
<1>2. QED
  BY <1>1, ChannelAdminInvariance, PTL

-----------------------------------------------------------------------------
(* ToolAdmin                                                               *)

(* Ids of actions and bindings have no gaps, and a binding's action is     *)
(* there.                                                                  *)
TablesInv ==
  /\ Prefix(Rows(action)) /\ Prefix(Rows(binding))
  /\ \A b \in Rows(binding) : binding[b].action \in Rows(action)

Fits(a, e)   == a = e.id \/ action[a].slug = e.slug
Done         == {e \in request.asked \ request.left : e.on}
Covered(es)  == \A e \in es : \E b \in NewBindings : Meets(b, e)
OldBindings  == Enabled(request.tool) \cap request.before

(* How far a request is: its old bindings go first, and from then on the   *)
(* tool's bindings are as many as the entries done, each with an entry and *)
(* each entry with one; the entry that is being bound has its action.      *)
RequestInv ==
  /\ request.before \subseteq Rows(binding)
  /\ request.left \subseteq request.asked /\ IsFiniteSet(request.asked)
  /\ NewBindings = {} \/ OldBindings = {}
  /\ \A b \in NewBindings : \E e \in request.asked : e.on /\ Meets(b, e)
  /\ step \in {"disable", "retire", "attach", "bind"} => request.tool \in ToolId
  /\ step \in {"disable", "retire"} =>
       request.left = request.asked /\ NewBindings = {}
  /\ step \in {"retire", "attach", "bind", "refresh", "ok"} => OldBindings = {}
  /\ step \in {"attach", "refresh", "ok"} =>
       Cardinality(Enabled(request.tool)) = Cardinality(Done) /\ Covered(Done)
  /\ step = "bind" =>
       /\ request.act \in Rows(action)
       /\ \E e \in request.asked \ request.left :
            /\ e.on = request.on /\ Fits(request.act, e)
            /\ Cardinality(Enabled(request.tool)) = Cardinality(Done \ {e})
            /\ Covered(Done \ {e})
  /\ step \in {"refresh", "ok"} => request.left = {}
  /\ step = "ok" => served

ToolAdminIInv == ToolAdminTypeOK /\ TablesInv /\ RequestInv

LEMMA NoRequestType == NoRequest \in RequestRow
  BY DEF NoRequest, RequestRow

(* A request that replaces no actions, or has yet to begin, has no         *)
(* bindings.                                                               *)
LEMMA NoRequestInv ==
  ASSUME ToolAdminTypeOK, request = NoRequest, step \in {"idle", "refresh"}
  PROVE  RequestInv
<1>1. request.tool = NoRow /\ request.asked = {} /\ request.left = {}
      /\ request.before = {}
  BY DEF NoRequest
<1>2. Enabled(request.tool) = {}
  <2>1. \A b \in Rows(binding) : binding[b].tool \in ToolId
    BY DEF ToolAdminTypeOK, Rows, BindingRow
  <2>2. QED
    BY <1>1, <2>1, ToolAdminAssumption DEF Enabled
<1>3. NewBindings = {} /\ OldBindings = {} /\ Done = {} /\ IsFiniteSet({})
  BY <1>1, <1>2, FS_EmptySet DEF NewBindings, OldBindings, Done
<1>4. QED
  BY <1>1, <1>2, <1>3 DEF RequestInv, Covered

LEMMA ToolAdminInitIInv == ToolAdminInit => ToolAdminIInv
<1> SUFFICES ASSUME ToolAdminInit PROVE ToolAdminIInv
  OBVIOUS
<1>1. PICK legacy \in BOOLEAN :
        action = [a \in ActionId |->
                    IF legacy /\ a = 1
                    THEN [slug |-> CHOOSE s \in Registered : TRUE,
                          active |-> TRUE, of |-> 1]
                    ELSE NoRow]
  BY DEF ToolAdminInit
<1> DEFINE row == [slug |-> CHOOSE s \in Registered : TRUE,
                   active |-> TRUE, of |-> 1]
<1>2. row \in ActionRow
  <2>1. (CHOOSE s \in Registered : TRUE) \in ActionSlug /\ 1 \in ToolId
    BY ToolAdminAssumption DEF ToolId
  <2>2. QED
    BY <2>1 DEF ActionRow
<1>3. row # NoRow
  BY <1>2, ToolAdminAssumption
<1>4. action \in [ActionId -> ActionRow \cup {NoRow}]
  BY <1>1, <1>2
<1>5. ToolAdminTypeOK
  BY <1>4, NoRequestType DEF ToolAdminInit, ToolAdminTypeOK, Steps
<1>6. Rows(binding) = {}
  BY DEF ToolAdminInit, Rows
<1>7. Rows(action) \in {{}, {1}}
  BY <1>1, <1>3 DEF Rows
<1>8. Prefix({}) /\ Prefix({1})
  <2>1. 1..0 = {} /\ 1..1 = {1}
    OBVIOUS
  <2>2. QED
    BY <2>1 DEF Prefix
<1>9. TablesInv
  BY <1>6, <1>7, <1>8 DEF TablesInv
<1>10. RequestInv
  BY <1>5, NoRequestInv DEF ToolAdminInit
<1>11. QED
  BY <1>5, <1>9, <1>10 DEF ToolAdminIInv

(* The first step of a request writes one row, and the replacement of      *)
(* actions is yet to come.                                                 *)
LEMMA RequestBegins ==
  ASSUME ToolAdminIInv, TablesInv', served' \in BOOLEAN,
         tool' \in [ToolId -> ToolRow \cup {NoRow}],
         action' \in [ActionId -> ActionRow \cup {NoRow}],
         binding' \in [BindingId -> BindingRow \cup {NoRow}],
         \/ NotReplacing("refresh")
         \/ /\ binding' = binding
            /\ \E t \in ToolId, es \in Payloads : Replacing(t, es)
  PROVE  ToolAdminIInv'
<1>1. CASE NotReplacing("refresh")
  <2>1. ToolAdminTypeOK'
    BY <1>1, NoRequestType DEF NotReplacing, ToolAdminTypeOK, Steps
  <2>2. request' = NoRequest /\ step' = "refresh"
    BY <1>1 DEF NotReplacing
  <2>3. RequestInv'
    <3>1. (ToolAdminTypeOK /\ request = NoRequest /\ step \in {"idle", "refresh"}
             => RequestInv)'
      BY NoRequestInv, PTL
    <3>2. QED
      BY <2>1, <2>2, <3>1 DEF NoRequest
  <2>4. QED
    BY <2>1, <2>3 DEF ToolAdminIInv
<1>2. ASSUME binding' = binding, NEW t \in ToolId, NEW es \in Payloads,
             Replacing(t, es)
      PROVE  ToolAdminIInv'
  <2>1. /\ step' = "disable"
        /\ request' = [NoRequest EXCEPT !.tool = t, !.asked = es, !.left = es,
                                        !.before = Enabled(t)]
        /\ Enabled(t) \subseteq Rows(binding) /\ Rows(binding) \subseteq BindingId
    BY <1>2 DEF Replacing, Enabled, Rows, ToolAdminIInv, ToolAdminTypeOK
  <2>2. es \in SUBSET Entry /\ IsFiniteSet(es)
    BY ToolAdminAssumption
  <2>3. /\ request'.tool = t /\ request'.asked = es /\ request'.left = es
        /\ request'.before = Enabled(t) /\ request' \in RequestRow
    BY <2>1, <2>2 DEF NoRequest, RequestRow
  <2>4. ToolAdminTypeOK'
    BY <2>1, <2>3 DEF ToolAdminTypeOK, Steps
  <2>5. NewBindings' = {} /\ Rows(binding)' = Rows(binding)
    BY <1>2, <2>3 DEF NewBindings, Enabled, Rows
  <2>6. RequestInv'
    BY <2>1, <2>2, <2>3, <2>5 DEF RequestInv
  <2>7. QED
    BY <2>4, <2>6 DEF ToolAdminIInv
<1>3. QED
  BY <1>1, <1>2

(* An action is written in a fresh row, or changes and stays.              *)
LEMMA ActionWritten ==
  ASSUME ToolAdminTypeOK, TablesInv, binding' = binding,
         NEW a \in ActionId, NEW row \in ActionRow,
         action' = Put(action, a, row), NewId(action, a) \/ a \in Rows(action)
  PROVE  /\ action' \in [ActionId -> ActionRow \cup {NoRow}]
         /\ action'[a] = row /\ \A o \in ActionId \ {a} : action'[o] = action[o]
         /\ Rows(action)' = Rows(action) \cup {a}
         /\ TablesInv'
<1>1. /\ action' \in [ActionId -> ActionRow \cup {NoRow}]
      /\ action'[a] = row /\ \A o \in ActionId \ {a} : action'[o] = action[o]
      /\ Rows(action)' = Rows(action) \cup {a}
  <2>1. row # NoRow
    BY ToolAdminAssumption
  <2>2. /\ action' \in [ActionId -> ActionRow \cup {NoRow}]
        /\ action'[a] = row /\ \A o \in ActionId \ {a} : action'[o] = action[o]
    BY DEF ToolAdminTypeOK, Put
  <2>3. QED
    BY <2>1, <2>2 DEF Rows, ToolAdminTypeOK
<1>2. Prefix(Rows(action) \cup {a})
  <2>1. CASE NewId(action, a)
    BY <2>1, PrefixNext DEF NewId, TablesInv
  <2>2. CASE a \in Rows(action)
    <3>1. Rows(action) \cup {a} = Rows(action)
      BY <2>2
    <3>2. QED
      BY <3>1 DEF TablesInv
  <2>3. QED
    BY <2>1, <2>2
<1>3. Rows(binding)' = Rows(binding)
  BY DEF Rows
<1>4. TablesInv'
  BY <1>1, <1>2, <1>3 DEF TablesInv
<1>5. QED
  BY <1>1, <1>4

LEMMA BindingPut ==
  ASSUME ToolAdminTypeOK, NEW b \in BindingId, NEW row \in BindingRow,
         binding' = Put(binding, b, row)
  PROVE  /\ binding' \in [BindingId -> BindingRow \cup {NoRow}]
         /\ binding'[b] = row
         /\ \A o \in BindingId \ {b} : binding'[o] = binding[o]
         /\ Rows(binding)' = Rows(binding) \cup {b}
<1>1. row # NoRow
  BY ToolAdminAssumption
<1>2. /\ binding' \in [BindingId -> BindingRow \cup {NoRow}]
      /\ binding'[b] = row
      /\ \A o \in BindingId \ {b} : binding'[o] = binding[o]
  BY DEF ToolAdminTypeOK, Put
<1>3. Rows(binding)' = Rows(binding) \cup {b}
  BY <1>1, <1>2 DEF Rows, ToolAdminTypeOK
<1>4. QED
  BY <1>2, <1>3

(* A binding is written in a fresh row.                                    *)
LEMMA BindingWritten ==
  ASSUME ToolAdminTypeOK, TablesInv, action' = action,
         NEW t \in ToolId, NEW a \in Rows(action), NEW on \in BOOLEAN,
         NewBinding(t, a, on)
  PROVE  \E b \in BindingId \ Rows(binding) :
           /\ binding' \in [BindingId -> BindingRow \cup {NoRow}]
           /\ binding'[b] = [tool |-> t, action |-> a, enabled |-> on]
           /\ \A o \in BindingId \ {b} : binding'[o] = binding[o]
           /\ Rows(binding)' = Rows(binding) \cup {b}
           /\ TablesInv'
<1>1. PICK b \in BindingId :
        /\ b = Cardinality(Rows(binding)) + 1
        /\ binding' = Put(binding, b, [tool |-> t, action |-> a, enabled |-> on])
  BY DEF NewBinding, NewId
<1>2. [tool |-> t, action |-> a, enabled |-> on] \in BindingRow
  BY DEF BindingRow, Rows, ToolAdminTypeOK
<1>3. /\ binding' \in [BindingId -> BindingRow \cup {NoRow}]
      /\ binding'[b] = [tool |-> t, action |-> a, enabled |-> on]
      /\ \A o \in BindingId \ {b} : binding'[o] = binding[o]
      /\ Rows(binding)' = Rows(binding) \cup {b}
  BY <1>1, <1>2, BindingPut
<1>4. b \notin Rows(binding) /\ Prefix(Rows(binding) \cup {b})
  BY <1>1, PrefixNext DEF TablesInv
<1>5. Rows(action)' = Rows(action) /\ Rows(binding) \subseteq BindingId
  BY DEF Rows, ToolAdminTypeOK
<1>6. TablesInv'
  BY <1>3, <1>4, <1>5 DEF TablesInv
<1>7. QED
  BY <1>3, <1>4, <1>6

(* Disabling a binding leaves its row.                                     *)
LEMMA BindingDisabled ==
  ASSUME ToolAdminTypeOK, TablesInv, action' = action,
         NEW b \in Rows(binding), binding' = [binding EXCEPT ![b].enabled = FALSE]
  PROVE  /\ binding' \in [BindingId -> BindingRow \cup {NoRow}]
         /\ ~binding'[b].enabled
         /\ \A o \in BindingId : /\ o # b => binding'[o] = binding[o]
                                 /\ binding'[o].action = binding[o].action
         /\ Rows(binding)' = Rows(binding)
         /\ TablesInv'
<1> DEFINE row == [binding[b] EXCEPT !.enabled = FALSE]
<1>1. b \in BindingId /\ binding[b] \in BindingRow
  BY DEF Rows, ToolAdminTypeOK
<1>2. row \in BindingRow /\ ~row.enabled /\ row.action = binding[b].action
  BY <1>1 DEF BindingRow
<1>3. binding' = Put(binding, b, row)
  BY <1>1 DEF Put, ToolAdminTypeOK
<1>4. /\ binding' \in [BindingId -> BindingRow \cup {NoRow}]
      /\ binding'[b] = row /\ \A o \in BindingId \ {b} : binding'[o] = binding[o]
      /\ Rows(binding)' = Rows(binding) \cup {b}
  BY <1>1, <1>2, <1>3, BindingPut
<1>5. Rows(binding)' = Rows(binding) /\ Rows(action)' = Rows(action)
  BY <1>4 DEF Rows
<1>6. \A o \in BindingId : binding'[o].action = binding[o].action
  BY <1>2, <1>4
<1>7. TablesInv'
  BY <1>5, <1>6 DEF TablesInv, Rows, ToolAdminTypeOK
<1>8. QED
  BY <1>2, <1>4, <1>5, <1>6, <1>7

(* A step that leaves bindings and entries in place leaves what holds of   *)
(* them in place.                                                          *)
LEMMA BindingsStay ==
  ASSUME ToolAdminTypeOK, TablesInv, UNCHANGED <<binding, request>>,
         \A a \in Rows(action) : action'[a].slug = action[a].slug
  PROVE  /\ Enabled(request.tool)' = Enabled(request.tool)
         /\ Rows(binding)' = Rows(binding)
         /\ NewBindings' = NewBindings /\ OldBindings' = OldBindings
         /\ Done' = Done
         /\ \A b \in NewBindings : \A e : Meets(b, e)' <=> Meets(b, e)
         /\ \A es : Covered(es)' <=> Covered(es)
<1>1. /\ Enabled(request.tool)' = Enabled(request.tool)
      /\ Rows(binding)' = Rows(binding)
      /\ NewBindings' = NewBindings /\ OldBindings' = OldBindings /\ Done' = Done
  BY DEF Enabled, Rows, NewBindings, OldBindings, Done
<1>2. \A b \in NewBindings : binding[b].action \in Rows(action)
  BY DEF TablesInv, NewBindings, Enabled
<1>3. \A b \in NewBindings : \A e : Meets(b, e)' <=> Meets(b, e)
  BY <1>2 DEF Meets
<1>4. \A es : Covered(es)' <=> Covered(es)
  BY <1>1, <1>3 DEF Covered
<1>5. QED
  BY <1>1, <1>3, <1>4

(* The first steps of requests.                                            *)
LEMMA FirstSteps ==
  ASSUME ToolAdminIInv,
         \/ CreateTool \/ UpdateTool \/ DeactivateTool \/ CreateAction
         \/ UpdateAction \/ DeactivateAction \/ BindAction \/ UnbindAction
  PROVE  ToolAdminIInv'
<1>a. ToolAdminTypeOK /\ TablesInv /\ RequestInv
  BY DEF ToolAdminIInv
<1>1. CASE CreateTool \/ UpdateTool \/ DeactivateTool
  <2>1. UNCHANGED <<action, binding>> /\ served' = FALSE
    BY <1>1 DEF CreateTool, UpdateTool, DeactivateTool
  <2>2. \/ NotReplacing("refresh")
        \/ \E t \in ToolId, es \in Payloads : Replacing(t, es)
    BY <1>a, <1>1 DEF CreateTool, UpdateTool, DeactivateTool, ActiveTools, Rows,
      ToolAdminTypeOK
  <2>3. tool' \in [ToolId -> ToolRow \cup {NoRow}]
    <3>1. CASE CreateTool \/ UpdateTool
      <4>1. PICK t \in ToolId, s \in ToolSlug, on \in BOOLEAN :
              tool' = Put(tool, t, [slug |-> s, active |-> on])
        BY <1>a, <3>1 DEF CreateTool, UpdateTool, ActiveTools, Rows, ToolAdminTypeOK
      <4>2. [slug |-> s, active |-> on] \in ToolRow
        BY DEF ToolRow
      <4>3. QED
        BY <1>a, <4>1, <4>2 DEF Put, ToolAdminTypeOK
    <3>2. CASE DeactivateTool
      <4>1. PICK t \in ActiveTools : tool' = [tool EXCEPT ![t].active = FALSE]
        BY <3>2 DEF DeactivateTool
      <4>2. t \in ToolId /\ tool[t] \in ToolRow
        BY <1>a DEF ActiveTools, Rows, ToolAdminTypeOK
      <4>3. [tool[t] EXCEPT !.active = FALSE] \in ToolRow
        BY <4>2 DEF ToolRow
      <4>4. QED
        BY <1>a, <4>1, <4>3 DEF ToolAdminTypeOK
    <3>3. QED
      BY <1>1, <3>1, <3>2
  <2>4. TablesInv'
    BY <1>a, <2>1 DEF TablesInv, Rows
  <2>5. QED
    BY <1>a, <2>1, <2>2, <2>3, <2>4, RequestBegins DEF ToolAdminTypeOK
<1>2. CASE CreateAction \/ UpdateAction \/ DeactivateAction
  <2>1. UNCHANGED <<tool, binding>> /\ served' = FALSE /\ NotReplacing("refresh")
    BY <1>2 DEF CreateAction, UpdateAction, DeactivateAction
  <2>2. \E a \in ActionId, row \in ActionRow :
          /\ action' = Put(action, a, row)
          /\ NewId(action, a) \/ a \in Rows(action)
    <3>1. CASE CreateAction
      <4>1. PICK a \in ActionId, s \in Registered, on \in BOOLEAN :
              /\ NewId(action, a)
              /\ action' = Put(action, a, [slug |-> s, active |-> on, of |-> NoRow])
        BY <3>1 DEF CreateAction
      <4>2. [slug |-> s, active |-> on, of |-> NoRow] \in ActionRow
        BY ToolAdminAssumption DEF ActionRow
      <4>3. QED
        BY <4>1, <4>2
    <3>2. CASE UpdateAction
      <4>1. PICK a \in Rows(action), s \in ActionSlug, on \in BOOLEAN :
              action' = [action EXCEPT ![a].slug = s, ![a].active = on]
        BY <3>2 DEF UpdateAction
      <4> DEFINE row == [action[a] EXCEPT !.slug = s, !.active = on]
      <4>2. a \in ActionId /\ action[a] \in ActionRow
        BY <1>a DEF Rows, ToolAdminTypeOK
      <4>3. row \in ActionRow
        BY <4>2 DEF ActionRow
      <4>4. action' = Put(action, a, row)
        BY <1>a, <4>1, <4>2 DEF Put, ToolAdminTypeOK
      <4>5. QED
        BY <4>2, <4>3, <4>4
    <3>3. CASE DeactivateAction
      <4>1. PICK a \in ActiveActions : action' = [action EXCEPT ![a].active = FALSE]
        BY <3>3 DEF DeactivateAction
      <4> DEFINE row == [action[a] EXCEPT !.active = FALSE]
      <4>2. a \in ActionId /\ a \in Rows(action) /\ action[a] \in ActionRow
        BY <1>a DEF ActiveActions, Rows, ToolAdminTypeOK
      <4>3. row \in ActionRow
        BY <4>2 DEF ActionRow
      <4>4. action' = Put(action, a, row)
        BY <1>a, <4>1, <4>2 DEF Put, ToolAdminTypeOK
      <4>5. QED
        BY <4>2, <4>3, <4>4
    <3>4. QED
      BY <1>2, <3>1, <3>2, <3>3
  <2>3. action' \in [ActionId -> ActionRow \cup {NoRow}] /\ TablesInv'
    BY <1>a, <2>1, <2>2, ActionWritten
  <2>4. QED
    BY <1>a, <2>1, <2>3, RequestBegins DEF ToolAdminTypeOK
<1>3. CASE BindAction \/ UnbindAction
  <2>1. UNCHANGED <<tool, action>> /\ served' = FALSE /\ NotReplacing("refresh")
    BY <1>3 DEF BindAction, UnbindAction
  <2>2. binding' \in [BindingId -> BindingRow \cup {NoRow}] /\ TablesInv'
    <3>1. CASE BindAction
      <4>1. PICK t \in ActiveTools, a \in ActiveActions, on \in BOOLEAN :
              NewBinding(t, a, on)
        BY <3>1 DEF BindAction
      <4>2. t \in ToolId /\ a \in Rows(action)
        BY <1>a DEF ActiveTools, ActiveActions, Rows, ToolAdminTypeOK
      <4>3. QED
        BY <1>a, <2>1, <4>1, <4>2, BindingWritten
    <3>2. CASE UnbindAction
      BY <1>a, <2>1, <3>2, BindingDisabled DEF UnbindAction
    <3>3. QED
      BY <1>3, <3>1, <3>2
  <2>3. QED
    BY <1>a, <2>1, <2>2, RequestBegins DEF ToolAdminTypeOK
<1>4. QED
  BY <1>1, <1>2, <1>3

LEMMA DisableOldIInv ==
  ASSUME ToolAdminIInv, DisableOld
  PROVE  ToolAdminIInv'
<1>a. ToolAdminTypeOK /\ TablesInv /\ RequestInv
  BY DEF ToolAdminIInv
<1>1. step = "disable" /\ UNCHANGED <<tool, action, served, request>>
  BY DEF DisableOld
<1>2. CASE OldBindings = {}
  <2>1. step' = "retire" /\ binding' = binding
    BY <1>2 DEF DisableOld, OldBindings
  <2>2. ToolAdminTypeOK' /\ TablesInv'
    BY <1>a, <1>1, <2>1 DEF ToolAdminTypeOK, Steps, TablesInv, Rows
  <2>3. /\ Rows(binding)' = Rows(binding)
        /\ NewBindings' = NewBindings /\ OldBindings' = OldBindings
    BY <1>a, <1>1, <2>1, BindingsStay
  <2>4. RequestInv'
    BY <1>a, <1>1, <1>2, <2>1, <2>3 DEF RequestInv
  <2>5. QED
    BY <2>2, <2>4 DEF ToolAdminIInv
<1>3. CASE OldBindings # {}
  <2>1. PICK b \in OldBindings : binding' = [binding EXCEPT ![b].enabled = FALSE]
    BY <1>3 DEF DisableOld, OldBindings
  <2>2. b \in Rows(binding) /\ step' = step
    BY <1>3 DEF DisableOld, OldBindings, Enabled
  <2>3. /\ binding' \in [BindingId -> BindingRow \cup {NoRow}]
        /\ ~binding'[b].enabled
        /\ \A o \in BindingId \ {b} : binding'[o] = binding[o]
        /\ Rows(binding)' = Rows(binding) /\ TablesInv'
    BY <1>a, <1>1, <2>1, <2>2, BindingDisabled
  <2>4. Enabled(request.tool)' \subseteq Enabled(request.tool)
    BY <1>1, <2>3 DEF Enabled, Rows
  <2>5. NewBindings' = {}
    BY <1>a, <1>1, <2>4 DEF RequestInv, NewBindings
  <2>6. RequestInv'
    BY <1>a, <1>1, <2>2, <2>3, <2>5 DEF RequestInv
  <2>7. ToolAdminTypeOK'
    BY <1>a, <1>1, <2>2, <2>3 DEF ToolAdminTypeOK
  <2>8. QED
    BY <2>3, <2>6, <2>7 DEF ToolAdminIInv
<1>4. QED
  BY <1>2, <1>3

LEMMA RetireLegacyIInv ==
  ASSUME ToolAdminIInv, RetireLegacy
  PROVE  ToolAdminIInv'
<1>a. ToolAdminTypeOK /\ TablesInv /\ RequestInv
  BY DEF ToolAdminIInv
<1>1. step = "retire" /\ UNCHANGED <<tool, binding, served, request>>
  BY DEF RetireLegacy
<1>2. /\ action' \in [ActionId -> ActionRow \cup {NoRow}]
      /\ \A o \in Rows(action) : action'[o].slug = action[o].slug
      /\ TablesInv' /\ step' \in {"retire", "attach"}
  <2>1. CASE action' = action /\ step' = "attach"
    BY <1>a, <1>1, <2>1 DEF ToolAdminTypeOK, TablesInv, Rows
  <2>2. ASSUME NEW a \in ActiveActions, step' = step,
               action' = [action EXCEPT ![a].active = FALSE]
        PROVE  /\ action' \in [ActionId -> ActionRow \cup {NoRow}]
               /\ \A o \in Rows(action) : action'[o].slug = action[o].slug
               /\ TablesInv' /\ step' = "retire"
    <3> DEFINE row == [action[a] EXCEPT !.active = FALSE]
    <3>1. a \in ActionId /\ a \in Rows(action) /\ action[a] \in ActionRow
      BY <1>a DEF ActiveActions, Rows, ToolAdminTypeOK
    <3>2. row \in ActionRow /\ row.slug = action[a].slug
      BY <3>1 DEF ActionRow
    <3>3. action' = Put(action, a, row)
      BY <1>a, <2>2, <3>1 DEF Put, ToolAdminTypeOK
    <3> HIDE DEF row
    <3>4. /\ action' \in [ActionId -> ActionRow \cup {NoRow}]
          /\ action'[a] = row /\ \A o \in ActionId \ {a} : action'[o] = action[o]
          /\ TablesInv'
      BY <1>a, <1>1, <3>1, <3>2, <3>3, ActionWritten
    <3>5. Rows(action) \subseteq ActionId
      BY <1>a DEF Rows, ToolAdminTypeOK
    <3>6. QED
      BY <1>1, <2>2, <3>2, <3>4, <3>5
  <2>3. QED
    BY <2>1, <2>2 DEF RetireLegacy, Legacy
<1>3. ToolAdminTypeOK'
  BY <1>a, <1>1, <1>2 DEF ToolAdminTypeOK, Steps
<1>4. /\ Enabled(request.tool)' = Enabled(request.tool)
      /\ Rows(binding)' = Rows(binding)
      /\ NewBindings' = NewBindings /\ OldBindings' = OldBindings
  BY <1>a, <1>1, <1>2, BindingsStay
<1>5. RequestInv'
  <2>1. Enabled(request.tool) = {} /\ Done = {}
    BY <1>a, <1>1 DEF RequestInv, NewBindings, OldBindings, Done
  <2>2. Done' = Done
    BY <1>1 DEF Done
  <2>3. QED
    BY <1>a, <1>1, <1>2, <1>4, <2>1, <2>2 DEF RequestInv, Covered
<1>6. QED
  BY <1>2, <1>3, <1>5 DEF ToolAdminIInv

(* An entry's action is found or made: it is among those done, and is the  *)
(* only one of them that may have no binding yet.                          *)
LEMMA EntryTaken ==
  ASSUME ToolAdminIInv, step = "attach", NEW e \in request.left,
         NEW a \in ActionId, Binding(e, a), UNCHANGED <<tool, binding, served>>,
         action' \in [ActionId -> ActionRow \cup {NoRow}], TablesInv',
         \A o \in Rows(action) : action'[o].slug = action[o].slug,
         a \in Rows(action)', Fits(a, e)'
  PROVE  ToolAdminIInv'
<1>a. ToolAdminTypeOK /\ TablesInv /\ RequestInv
  BY DEF ToolAdminIInv
<1>1. /\ step' = "bind"
      /\ request' = [request EXCEPT !.left = @ \ {e}, !.act = a, !.on = e.on]
  BY DEF Binding
<1>2. e \in Entry /\ e.on \in BOOLEAN /\ request \in RequestRow
  BY <1>a DEF ToolAdminTypeOK, RequestInv, RequestRow, Entry
<1>3. /\ request'.tool = request.tool /\ request'.asked = request.asked
      /\ request'.left = request.left \ {e} /\ request'.before = request.before
      /\ request'.act = a /\ request'.on = e.on /\ request' \in RequestRow
  BY <1>1, <1>2 DEF RequestRow
<1>4. ToolAdminTypeOK'
  BY <1>a, <1>1, <1>3 DEF ToolAdminTypeOK, Steps
<1>5. /\ Enabled(request.tool)' = Enabled(request.tool)
      /\ Rows(binding)' = Rows(binding)
      /\ NewBindings' = NewBindings /\ OldBindings' = OldBindings
  BY <1>3 DEF Enabled, Rows, NewBindings, OldBindings
<1>6. \A b \in NewBindings : \A d : Meets(b, d) => Meets(b, d)'
  <2>1. \A b \in NewBindings : binding[b].action \in Rows(action)
    BY <1>a DEF TablesInv, NewBindings, Enabled
  <2>2. QED
    BY <2>1 DEF Meets
<1>7. e \in request'.asked \ request'.left /\ Done' \ {e} = Done
  BY <1>a, <1>3 DEF RequestInv, Done
<1>8. /\ Fits(request.act, e)'
      /\ Cardinality(Enabled(request.tool)') = Cardinality(Done' \ {e})
      /\ \A d \in Done' \ {e} : \E b \in NewBindings' : Meets(b, d)'
  <2>1. Fits(request.act, e)'
    BY <1>3 DEF Fits
  <2>2. \A d \in Done : \E b \in NewBindings : Meets(b, d)'
    BY <1>a, <1>6 DEF RequestInv, Covered
  <2>3. QED
    BY <1>a, <1>5, <1>7, <2>1, <2>2 DEF RequestInv
<1>9. RequestInv'
  <2>1. /\ request'.before \subseteq Rows(binding)'
        /\ request'.left \subseteq request'.asked /\ IsFiniteSet(request'.asked)
        /\ OldBindings' = {} /\ request'.tool \in ToolId
    BY <1>a, <1>3, <1>5 DEF RequestInv
  <2>2. \A b \in NewBindings' : \E d \in request'.asked : d.on /\ Meets(b, d)'
    BY <1>a, <1>3, <1>5, <1>6 DEF RequestInv
  <2>3. QED
    BY <1>1, <1>3, <1>7, <1>8, <2>1, <2>2 DEF RequestInv, Covered
<1>10. QED
  BY <1>4, <1>9 DEF ToolAdminIInv

LEMMA AttachIInv ==
  ASSUME ToolAdminIInv, AttachById \/ AttachBySlug
  PROVE  ToolAdminIInv'
<1>a. ToolAdminTypeOK /\ TablesInv /\ RequestInv
  BY DEF ToolAdminIInv
<1>1. step = "attach" /\ UNCHANGED <<tool, binding, served>>
  BY DEF AttachById, AttachBySlug
<1>2. ASSUME action' = action, NEW e \in request.left, NEW a \in ActiveActions,
             Fits(a, e), Binding(e, a)
      PROVE  ToolAdminIInv'
  <2>1. a \in ActionId /\ a \in Rows(action)'
    BY <1>a, <1>2 DEF ActiveActions, Rows, ToolAdminTypeOK
  <2>2. /\ action' \in [ActionId -> ActionRow \cup {NoRow}] /\ TablesInv'
        /\ \A o \in Rows(action) : action'[o].slug = action[o].slug
        /\ Fits(a, e)'
    BY <1>a, <1>1, <1>2 DEF ToolAdminTypeOK, TablesInv, Rows, Fits
  <2>3. QED
    BY <1>1, <1>2, <2>1, <2>2, EntryTaken
<1>3. ASSUME NEW e \in request.left, e.slug \in Registered, NEW a \in ActionId,
             NewId(action, a), Binding(e, a),
             action' = Put(action, a, [slug |-> e.slug, active |-> e.on,
                                       of |-> NoRow])
      PROVE  ToolAdminIInv'
  <2>1. e.on \in BOOLEAN /\ e.slug \in ActionSlug
    BY <1>a, <1>3, ToolAdminAssumption
    DEF RequestInv, ToolAdminTypeOK, RequestRow, Entry
  <2>2. PICK row \in ActionRow : /\ action' = Put(action, a, row)
                                 /\ row.slug = e.slug
    <3>1. [slug |-> e.slug, active |-> e.on, of |-> NoRow] \in ActionRow
      BY <2>1 DEF ActionRow
    <3>2. QED
      BY <1>3, <3>1
  <2>3. /\ action' \in [ActionId -> ActionRow \cup {NoRow}] /\ TablesInv'
        /\ action'[a] = row /\ \A o \in ActionId \ {a} : action'[o] = action[o]
        /\ Rows(action)' = Rows(action) \cup {a}
    BY <1>a, <1>1, <1>3, <2>2, ActionWritten
  <2>4. a \notin Rows(action) /\ Rows(action) \subseteq ActionId
    BY <1>a, <1>3, PrefixNext DEF NewId, TablesInv, Rows, ToolAdminTypeOK
  <2>5. /\ \A o \in Rows(action) : action'[o].slug = action[o].slug
        /\ a \in Rows(action)' /\ Fits(a, e)'
    BY <2>2, <2>3, <2>4 DEF Fits
  <2>6. QED
    BY <1>1, <1>3, <2>3, <2>5, EntryTaken
<1>4. CASE AttachById
  BY <1>2, <1>4 DEF AttachById, Fits
<1>5. CASE AttachBySlug
  <2>1. PICK e \in request.left :
          /\ e.slug \in Registered
          /\ \/ \E a \in ActiveActions :
                  action[a].slug = e.slug /\ Binding(e, a) /\ UNCHANGED action
             \/ \E a \in ActionId :
                  /\ NewId(action, a)
                  /\ action' = Put(action, a, [slug |-> e.slug, active |-> e.on,
                                               of |-> NoRow])
                  /\ Binding(e, a)
    BY <1>5 DEF AttachBySlug
  <2>2. CASE \E a \in ActiveActions :
               action[a].slug = e.slug /\ Binding(e, a) /\ UNCHANGED action
    BY <1>2, <2>2 DEF Fits
  <2>3. CASE \E a \in ActionId :
               /\ NewId(action, a)
               /\ action' = Put(action, a, [slug |-> e.slug, active |-> e.on,
                                            of |-> NoRow])
               /\ Binding(e, a)
    BY <1>3, <2>1, <2>3
  <2>4. QED
    BY <2>1, <2>2, <2>3
<1>6. QED
  BY <1>4, <1>5

(* The binding of the entry that was taken is enabled if the entry is: the *)
(* bindings are again as many as the entries done.                         *)
LEMMA BindEntryIInv ==
  ASSUME ToolAdminIInv, BindEntry
  PROVE  ToolAdminIInv'
<1>a. ToolAdminTypeOK /\ TablesInv /\ RequestInv
  BY DEF ToolAdminIInv
<1>1. /\ step = "bind" /\ step' = "attach" /\ served' = FALSE
      /\ UNCHANGED <<tool, action, request>>
      /\ NewBinding(request.tool, request.act, request.on)
  BY DEF BindEntry
<1>2. /\ request.tool \in ToolId /\ request.act \in Rows(action)
      /\ request.on \in BOOLEAN
  BY <1>a, <1>1 DEF RequestInv, ToolAdminTypeOK, RequestRow
<1>3. PICK b \in BindingId \ Rows(binding) :
        /\ binding' \in [BindingId -> BindingRow \cup {NoRow}]
        /\ binding'[b] = [tool |-> request.tool, action |-> request.act,
                          enabled |-> request.on]
        /\ \A o \in BindingId \ {b} : binding'[o] = binding[o]
        /\ Rows(binding)' = Rows(binding) \cup {b}
        /\ TablesInv'
  BY <1>a, <1>1, <1>2, BindingWritten
<1>4. PICK e \in request.asked \ request.left :
        /\ e.on = request.on /\ Fits(request.act, e)
        /\ Cardinality(Enabled(request.tool)) = Cardinality(Done \ {e})
        /\ Covered(Done \ {e})
  BY <1>a, <1>1 DEF RequestInv
<1>5. /\ Rows(binding) \subseteq BindingId /\ b \notin request.before
      /\ request.before \subseteq Rows(binding) /\ OldBindings = {}
  BY <1>a, <1>1, <1>3 DEF RequestInv, Rows, ToolAdminTypeOK
<1>6. /\ binding'[b].tool = request.tool /\ binding'[b].action = request.act
      /\ binding'[b].enabled = request.on
  BY <1>3
<1>7. Enabled(request.tool)' =
        Enabled(request.tool) \cup {o \in {b} : request.on}
  BY <1>1, <1>3, <1>5, <1>6 DEF Enabled
<1>8. /\ NewBindings' = NewBindings \cup {o \in {b} : request.on}
      /\ OldBindings' = {}
  BY <1>1, <1>5, <1>7 DEF NewBindings, OldBindings
<1>9. \A o \in NewBindings : \A d : Meets(o, d) => Meets(o, d)'
  BY <1>1, <1>3, <1>5 DEF NewBindings, Enabled, Meets
<1>10. Meets(b, e)'
  BY <1>1, <1>4, <1>6 DEF Meets, Fits
<1>11. Done' = Done /\ (e \in Done <=> request.on)
  BY <1>1, <1>4 DEF Done
<1>12. Cardinality(Enabled(request.tool)') = Cardinality(Done')
  <2>1. IsFiniteSet(Enabled(request.tool)) /\ b \notin Enabled(request.tool)
    <3>1. IsFiniteSet(Rows(binding)) /\ Enabled(request.tool) \subseteq Rows(binding)
      BY <1>a, PrefixNext DEF TablesInv, Enabled
    <3>2. QED
      BY <1>3, <3>1, FS_Subset
  <2>2. IsFiniteSet(Done \ {e})
    BY <1>a, FS_Subset DEF RequestInv, Done
  <2>3. CASE request.on
    <3>1. /\ Enabled(request.tool)' = Enabled(request.tool) \cup {b}
          /\ Done' = (Done \ {e}) \cup {e}
      BY <1>7, <1>11, <2>3
    <3>2. /\ Cardinality(Enabled(request.tool) \cup {b})
               = Cardinality(Enabled(request.tool)) + 1
          /\ Cardinality((Done \ {e}) \cup {e}) = Cardinality(Done \ {e}) + 1
      BY <2>1, <2>2, FS_AddElement
    <3>3. QED
      BY <1>4, <3>1, <3>2
  <2>4. CASE ~request.on
    <3>1. Enabled(request.tool)' = Enabled(request.tool) /\ Done' = Done \ {e}
      BY <1>7, <1>11, <2>4
    <3>2. QED
      BY <1>4, <3>1
  <2>5. QED
    BY <1>2, <2>3, <2>4
<1>13. \A d \in Done' : \E o \in NewBindings' : Meets(o, d)'
  <2>1. \A d \in Done \ {e} : \E o \in NewBindings : Meets(o, d)'
    BY <1>4, <1>9 DEF Covered
  <2>2. e \in Done => b \in NewBindings'
    BY <1>8, <1>11
  <2>3. QED
    BY <1>8, <1>10, <1>11, <2>1, <2>2
<1>14. \A o \in NewBindings' : \E d \in request'.asked : d.on /\ Meets(o, d)'
  <2>1. \A o \in NewBindings : \E d \in request.asked : d.on /\ Meets(o, d)'
    BY <1>a, <1>9 DEF RequestInv
  <2>2. QED
    BY <1>1, <1>4, <1>8, <1>10, <2>1
<1>15. RequestInv'
  <2>1. Cardinality(Enabled(request.tool))' = Cardinality(Done)'
    BY <1>12
  <2>2. /\ request'.before \subseteq Rows(binding)'
        /\ request'.left \subseteq request'.asked /\ IsFiniteSet(request'.asked)
        /\ request'.tool \in ToolId
    BY <1>a, <1>1, <1>2, <1>3 DEF RequestInv
  <2>3. QED
    BY <1>1, <1>8, <1>12, <1>13, <1>14, <2>2 DEF RequestInv, Covered
<1>16. ToolAdminTypeOK'
  BY <1>a, <1>1, <1>3 DEF ToolAdminTypeOK, Steps
<1>17. QED
  BY <1>3, <1>15, <1>16 DEF ToolAdminIInv

LEMMA ToolAdminNextIInv ==
  ToolAdminIInv /\ [ToolAdminNext]_toolAdminVars => ToolAdminIInv'
<1> SUFFICES ASSUME ToolAdminIInv, [ToolAdminNext]_toolAdminVars
             PROVE  ToolAdminIInv'
  OBVIOUS
<1>a. ToolAdminTypeOK /\ TablesInv /\ RequestInv
  BY DEF ToolAdminIInv
<1>1. CASE RequestFails \/ AllAttached \/ Refresh \/ UNCHANGED toolAdminVars
  <2>1. /\ UNCHANGED <<tool, action, binding, request>>
        /\ served' \in BOOLEAN /\ step' \in Steps
        /\ step' = "ok" => served'
        /\ \/ step' = "idle" \/ step' = step
           \/ step = "attach" /\ step' = "refresh" /\ request.left = {}
           \/ step = "refresh" /\ step' = "ok"
    BY <1>a, <1>1 DEF RequestFails, AllAttached, Refresh, toolAdminVars,
      ToolAdminTypeOK, Steps, RequestInv
  <2>2. ToolAdminTypeOK' /\ TablesInv'
    BY <1>a, <2>1 DEF ToolAdminTypeOK, TablesInv, Rows
  <2>3. /\ Enabled(request.tool)' = Enabled(request.tool)
        /\ Rows(binding)' = Rows(binding)
        /\ NewBindings' = NewBindings /\ OldBindings' = OldBindings
        /\ Done' = Done /\ Rows(action)' = Rows(action)
        /\ \A b \in NewBindings : \A e : Meets(b, e)' <=> Meets(b, e)
        /\ \A es : Covered(es)' <=> Covered(es)
        /\ \A e : Fits(request.act, e)' <=> Fits(request.act, e)
    BY <1>a, <2>1, BindingsStay DEF Rows, Fits
  <2>4. /\ step' \in {"attach", "refresh", "ok"} =>
             Cardinality(Enabled(request.tool)') = Cardinality(Done')
               /\ Covered(Done)'
        /\ step' = "bind" => step = "bind"
        /\ step' \in {"disable", "retire", "attach", "bind"} => step' = step
        /\ step' \in {"refresh", "ok"} => request.left = {} /\ OldBindings = {}
    <3>1. Covered(Done)' <=> Covered(Done)
      BY <2>3 DEF Covered
    <3>2. QED
      BY <1>a, <2>1, <2>3, <3>1 DEF RequestInv
  <2>5. step = "bind" =>
          \E e \in request.asked \ request.left :
            /\ e.on = request.on /\ Fits(request.act, e)'
            /\ Cardinality(Enabled(request.tool)') = Cardinality(Done' \ {e})
            /\ \A d \in Done' \ {e} : \E b \in NewBindings' : Meets(b, d)'
    <3> SUFFICES ASSUME step = "bind"
                 PROVE  \E e \in request.asked \ request.left :
            /\ e.on = request.on /\ Fits(request.act, e)'
            /\ Cardinality(Enabled(request.tool)') = Cardinality(Done' \ {e})
            /\ \A d \in Done' \ {e} : \E b \in NewBindings' : Meets(b, d)'
      OBVIOUS
    <3>1. PICK e \in request.asked \ request.left :
            /\ e.on = request.on /\ Fits(request.act, e)
            /\ Cardinality(Enabled(request.tool)) = Cardinality(Done \ {e})
            /\ Covered(Done \ {e})
      BY <1>a DEF RequestInv
    <3>2. \A d \in Done \ {e} : \E b \in NewBindings : Meets(b, d)'
      BY <2>3, <3>1 DEF Covered
    <3>3. Fits(request.act, e)'
      BY <2>3, <3>1
    <3>4. QED
      BY <2>3, <3>1, <3>2, <3>3
  <2>6. RequestInv'
    BY <1>a, <2>1, <2>3, <2>4, <2>5 DEF RequestInv, Covered
  <2>7. QED
    BY <2>2, <2>6 DEF ToolAdminIInv
<1>2. QED
  BY <1>1, FirstSteps, DisableOldIInv, RetireLegacyIInv, AttachIInv, BindEntryIInv
  DEF ToolAdminNext

LEMMA ToolAdminInvariance == Spec => []ToolAdminIInv
  BY ImplementsParts, ToolAdminInitIInv, ToolAdminNextIInv, PTL DEF ToolAdminSpec

LEMMA ToolAdminClean == ToolAdminIInv => ReplaceIsClean
<1> SUFFICES ASSUME ToolAdminIInv PROVE ReplaceIsClean
  OBVIOUS
<1>1. RequestInv
  BY DEF ToolAdminIInv
<1>2. ASSUME step = "ok"
      PROVE  /\ Cardinality(Enabled(request.tool)) =
                  Cardinality({e \in request.asked : e.on})
             /\ \A e \in request.asked : e.on => \E b \in NewBindings : Meets(b, e)
             /\ served
  <2>1. Done = {e \in request.asked : e.on}
    BY <1>1, <1>2 DEF RequestInv, Done
  <2>2. QED
    BY <1>1, <1>2, <2>1 DEF RequestInv, Covered
<1>3. QED
  BY <1>1, <1>2 DEF ReplaceIsClean, RequestInv, OldBindings

(* For any numbers of rows and any payloads: old and new actions never run *)
(* together, and a replacement that succeeded leaves those asked for.      *)
THEOREM ReplaceIsCleanHolds == Spec => []ReplaceIsClean
  BY ToolAdminInvariance, ToolAdminClean, PTL

-----------------------------------------------------------------------------
(* ToolParams                                                              *)

ToolParamsIInv ==
  /\ ToolParamsTypeOK
  /\ argStep = "called" => script \in ScriptTools /\ DOMAIN args = Param

LEMMA ToolParamsInvariance == Spec => []ToolParamsIInv
<1>1. ToolParamsInit => ToolParamsIInv
  BY ToolParamsAssumption DEF ToolParamsInit, ToolParamsIInv, ToolParamsTypeOK,
    AnyScript
<1>2. ToolParamsIInv /\ [ToolParamsNext]_toolParamsVars => ToolParamsIInv'
  BY ToolParamsAssumption DEF ToolParamsNext, CallScript, toolParamsVars,
    ToolParamsIInv, ToolParamsTypeOK
<1>3. QED
  BY <1>1, <1>2, ImplementsParts, PTL DEF ToolParamsSpec

(* Of the three spellings of a parameter its own comes first.              *)
LEMMA OwnSpellingFirst ==
  ASSUME NEW from, NEW p, from[p] # NoArg
  PROVE  Find3(p, from, {NoArg}) = from[p]
<1> DEFINE s == <<p, Snake[p], Camel[p]>>
           found == {n \in 1..3 : from[s[n]] \notin {NoArg}}
<1>1. s[1] = p /\ 1 \in found
  OBVIOUS
<1>2. (CHOOSE n \in found : \A m \in found : n <= m) = 1
  <2>1. \A m \in found : 1 <= m /\ m \in Int
    OBVIOUS
  <2> HIDE DEF found
  <2>2. \E n \in found : \A m \in found : n <= m
    BY <1>1, <2>1
  <2> DEFINE least == CHOOSE n \in found : \A m \in found : n <= m
  <2>3. least \in found /\ \A m \in found : least <= m
    BY <2>2
  <2> HIDE DEF least
  <2>4. least = 1
    BY <1>1, <2>1, <2>3
  <2>5. QED
    BY <2>4 DEF least
<1>3. found # {}
  BY <1>1
<1> HIDE DEF found
<1>4. Find3(p, from, {NoArg}) =
        IF found = {} THEN NoArg
        ELSE from[s[CHOOSE n \in found : \A m \in found : n <= m]]
  BY Zenon DEF Find3, Spelled, found
<1>5. QED
  BY <1>1, <1>2, <1>3, <1>4

(* Where no value is blank it does not matter that blanks are left out.    *)
LEMMA NoBlanks ==
  ASSUME NEW from, NEW p \in Param, \A q \in Param : from[q] # Blank
  PROVE  Find3(p, from, {NoArg, Blank}) = Find3(p, from, {NoArg})
<1> DEFINE s == <<p, Snake[p], Camel[p]>>
           found(blank) == {n \in 1..3 : from[s[n]] \notin blank}
<1>1. \A n \in 1..3 : s[n] \in Param
  BY ToolParamsAssumption
<1>2. found({NoArg, Blank}) = found({NoArg})
  BY <1>1
<1>3. \A blank : Find3(p, from, blank) =
        IF found(blank) = {} THEN NoArg
        ELSE from[s[CHOOSE n \in found(blank) : \A m \in found(blank) : n <= m]]
  BY Zenon DEF Find3, Spelled
<1> HIDE DEF found, s
<1>4. QED
  BY <1>2, <1>3

LEMMA ScriptTypes ==
  ASSUME script \in ScriptTools, NEW i \in 1..2
  PROVE  /\ script.fields[i] \subseteq Param
         /\ DOMAIN script.explicit[i] \subseteq Param
         /\ script.column \subseteq Param
<1>1. script.explicit[i] \in Mappings
  BY DEF ScriptTools
<1>2. PICK names \in SUBSET Param : script.explicit[i] \in [names -> Param]
  BY <1>1 DEF Mappings
<1>3. QED
  BY <1>2 DEF ScriptTools

(* Where a value comes from is a parameter, if fields and parameters are.  *)
LEMMA SourceIsParam ==
  ASSUME script \in ScriptTools, NEW i \in 1..2, NEW names,
         NEW f \in DOMAIN Sources(script, i, names)
  PROVE  Sources(script, i, names)[f] \in Param
<1>1. CASE f \in Named(script, i)
  <2>1. \E p \in DOMAIN script.explicit[i] : script.explicit[i][p] = f
    BY <1>1 DEF Named
  <2>2. (CHOOSE p \in DOMAIN script.explicit[i] : script.explicit[i][p] = f)
          \in DOMAIN script.explicit[i]
    BY <2>1
  <2>3. QED
    BY <1>1, <2>2, ScriptTypes DEF Sources
<1>2. CASE f \notin Named(script, i)
  <2>1. /\ f \in script.fields[i] /\ AliasFor(f, names) # NoArg
        /\ Sources(script, i, names)[f] = AliasFor(f, names)
    BY <1>2 DEF Sources, Inferred
  <2>2. f \in Param /\ Camel[f] \in Param
    BY <2>1, ScriptTypes, ToolParamsAssumption
  <2>3. QED
    BY <2>1, <2>2 DEF AliasFor
<1>3. QED
  BY <1>1, <1>2

LEMMA GivenValuesArrive == ToolParamsIInv => ValuesArrive
<1> SUFFICES ASSUME ToolParamsIInv, argStep = "called", NEW i \in 1..2,
                    NEW p \in Effective(script), args[p] # NoArg,
                    p \in script.fields[i], p \notin DOMAIN script.explicit[i],
                    p \notin Named(script, i)
             PROVE  /\ p \in DOMAIN RunArgs(script, i)
                    /\ RunArgs(script, i)[p] = args[p]
  BY DEF ValuesArrive
<1> DEFINE names == Effective(script)
<1>1. script \in ScriptTools /\ p \in Param
  BY ScriptTypes DEF ToolParamsIInv
<1>2. AliasFor(p, names) = p /\ p # NoArg
  BY <1>1, ToolParamsAssumption DEF AliasFor
<1>3. p \in Inferred(script, i, names)
  BY <1>2 DEF Inferred
<1>4. p \in DOMAIN Sources(script, i, names) /\ Sources(script, i, names)[p] = p
  BY <1>2, <1>3 DEF Sources
<1>5. /\ p \in DOMAIN RunArgs(script, i)
      /\ RunArgs(script, i)[p] = ResolveParam(p, Declared(script))
  BY <1>4 DEF RunArgs
<1>6. ResolveParam(p, Declared(script)) = args[p]
  <2>1. Find3(p, args, {NoArg}) = args[p]
    BY OwnSpellingFirst
  <2>2. QED
    BY <2>1 DEF ResolveParam, Or
<1>7. QED
  BY <1>5, <1>6

(* The test's column of parameters leads each field to the same parameter. *)
LEMMA SameSources ==
  ASSUME script \in ScriptTools, NEW i \in 1..2,
         \/ script.column = Effective(script)
         \/ script.column = {} /\ script.fields[2] \subseteq script.fields[1]
  PROVE  Sources(script, i, script.column) = Sources(script, i, Effective(script))
<1>1. CASE script.column = Effective(script)
  BY <1>1
<1>2. CASE script.column = {} /\ script.fields[2] \subseteq script.fields[1]
  <2>1. script.fields[i] \subseteq Effective(script)
    BY <1>2 DEF Effective
  <2>2. \A f \in script.fields[i] :
          AliasFor(f, script.column) = f /\ AliasFor(f, Effective(script)) = f
    BY <1>2, <2>1 DEF AliasFor
  <2>3. Inferred(script, i, script.column) = Inferred(script, i, Effective(script))
    BY <2>2 DEF Inferred
  <2>4. \A f \in Inferred(script, i, script.column) :
          AliasFor(f, script.column) = AliasFor(f, Effective(script))
    BY <2>2 DEF Inferred
  <2>5. QED
    BY <2>3, <2>4 DEF Sources
<1>3. QED
  BY <1>1, <1>2

LEMMA TestsMirrorRuns == ToolParamsIInv => TestMirrorsRun
<1> SUFFICES ASSUME ToolParamsIInv, argStep = "called", NEW i \in 1..2,
                    \/ script.column = Effective(script)
                    \/ /\ script.column = {}
                       /\ script.fields[2] \subseteq script.fields[1],
                    \A p \in Param : Blank \notin {args[p], argState[p]}
             PROVE  LET run == RunArgs(script, i)  test == TestArgs(script, i) IN
                    /\ DOMAIN run = DOMAIN test
                    /\ \A f \in DOMAIN run : test[f] \in {NoArg, run[f]}
                    /\ \A f \in DOMAIN run : test[f] = NoArg =>
                         run[f] = NoArg \/ \E n \in IdNames :
                           run[f] \in {args[Id], args[NumberOf[n]],
                                       argState[NumberOf[n]]}
  BY DEF TestMirrorsRun
<1> DEFINE sources == Sources(script, i, Effective(script))
<1>1. script \in ScriptTools
  BY DEF ToolParamsIInv
<1>2. Sources(script, i, script.column) = sources
  BY <1>1, SameSources
<1>3. /\ DOMAIN RunArgs(script, i) = DOMAIN sources
      /\ DOMAIN TestArgs(script, i) = DOMAIN sources
      /\ \A f \in DOMAIN sources :
           /\ RunArgs(script, i)[f] = ResolveParam(sources[f], Declared(script))
           /\ TestArgs(script, i)[f] = ReadParam(sources[f])
  BY <1>2 DEF RunArgs, TestArgs
<1>4. ASSUME NEW p \in Param
      PROVE  /\ ReadParam(p) \in {NoArg, ResolveParam(p, Declared(script))}
             /\ ReadParam(p) = NoArg =>
                  \/ ResolveParam(p, Declared(script)) = NoArg
                  \/ \E n \in IdNames :
                       ResolveParam(p, Declared(script)) \in
                         {args[Id], args[NumberOf[n]], argState[NumberOf[n]]}
  <2>1. /\ Find3(p, args, {NoArg, Blank}) = Find3(p, args, {NoArg})
        /\ Find3(p, argState, {NoArg, Blank}) = Find3(p, argState, {NoArg})
    BY NoBlanks
  <2>2. ReadParam(p) = Or(Find3(p, args, {NoArg}), Find3(p, argState, {NoArg}))
    BY <2>1 DEF ReadParam
  <2> DEFINE s == Snake[p]
             ids == IdNames \cap {Snake[d] : d \in Declared(script)}
             generic == IF /\ s \in IdNames /\ ids = {s}
                           /\ Id \notin {Snake[d] : d \in Declared(script)}
                        THEN args[Id] ELSE NoArg
             number == IF s \in IdNames
                       THEN Or(args[NumberOf[s]], argState[NumberOf[s]])
                       ELSE NoArg
  <2>3. ResolveParam(p, Declared(script)) =
          Or(Find3(p, args, {NoArg}),
             Or(Find3(p, argState, {NoArg}), Or(generic, number)))
    BY DEF ResolveParam
  <2>4. \/ Or(generic, number) = NoArg
        \/ \E n \in IdNames : Or(generic, number) \in
             {args[Id], args[NumberOf[n]], argState[NumberOf[n]]}
    BY DEF Or
  <2> HIDE DEF generic, number
  <2>5. QED
    BY <2>2, <2>3, <2>4 DEF Or
<1>5. \A f \in DOMAIN sources : sources[f] \in Param
  BY <1>1, SourceIsParam
<1>6. QED
  BY <1>3, <1>4, <1>5

(* For any names, spellings and configurations: a value that is given for  *)
(* a field arrives, and the test of a tool gives its actions what a run    *)
(* gives them.                                                             *)
THEOREM ActionsGetTheirValuesHolds == Spec => []ActionsGetTheirValues
<1>1. ToolParamsIInv => ActionsGetTheirValues
  BY GivenValuesArrive, TestsMirrorRuns DEF ActionsGetTheirValues
<1>2. QED
  BY <1>1, ToolParamsInvariance, PTL


-----------------------------------------------------------------------------
(* McpAdmin                                                                *)

(* What a synchronisation writes into a row for the directory d.           *)
Refreshed(d, row) == Persist(LocalRow(d, row.metadata_json), row)

(* The rows read at the start and not yet retired are as they were read,   *)
(* or refreshed for their directory, whose turn has been; a retired one is *)
(* inactive.                                                               *)
FoundRowInv ==
  /\ Found \subseteq Servers
  /\ \A s \in Found : sync.found[s].is_active
  /\ \A s \in Found \ sync.gone :
       \/ server[s] = sync.found[s]
       \/ /\ LocalSource(sync.found[s]) \in sync.listed \ sync.todo
          /\ server[s] = Persist(LocalRow(LocalSource(sync.found[s]),
                                   sync.found[s].metadata_json), sync.found[s])
  /\ \A s \in sync.gone : ~server[s].is_active

(* Every directory whose turn has been has its server, or it had none and  *)
(* one with its slug was there.                                            *)
ServedInv ==
  \A d \in sync.listed \ sync.todo :
    \/ Managed(d) = {} /\ \E s \in Found : sync.found[s].slug = SlugOf[d]
    \/ /\ Managed(d) = {}
       /\ \E s \in ActiveServers \ Found : server[s].slug = SlugOf[d]
    \/ \E s \in Found \ sync.gone :
         /\ LocalSource(sync.found[s]) = d
         /\ server[s] = Refreshed(d, server[s])

(* The rows it has created are as it creates them.                         *)
CreatedInv ==
  \A s \in ActiveServers \ Found :
    /\ LocalSource(server[s]) \in sync.listed
    /\ server[s] = Refreshed(LocalSource(server[s]), server[s])

(* The course of a synchronisation.                                        *)
SyncInv ==
  /\ sync.was =>
       /\ sync.listed = onDisk
       /\ FoundRowInv /\ ServedInv /\ CreatedInv
  /\ sync.gone # {} => sync.todo = {}
  /\ sStep = "idle" => ~sync.was
  /\ sStep = "sync" => sync.was
  /\ sStep \in {"refresh", "ok"} /\ sync.was => sync.todo = {} /\ ToRetire = {}
  /\ sStep = "ok" /\ sync.was /\ sync.changed => current

McpAdminIInv == McpAdminTypeOK /\ Prefix(Servers) /\ RowsRunnable /\ SyncInv

Runnable(row) ==
  /\ row.transport = "stdio" => row.command \notin {Null, ""}
  /\ row.transport = "remote" => row.url \notin {Null, ""}

(* A row of the table is what has its columns.                             *)
LEMMA RowOfColumns ==
  ASSUME NEW row, row = [k \in Column |-> row[k]],
         row["slug"] \in ServerSlug, row["transport"] \in {"stdio", "remote"},
         row["command"] \in {Null, "npx", Local},
         row["url"] \in {Null, "", "url"},
         row["working_directory"] \in Source \cup {Null},
         row["metadata_json"] \in Meta \cup {Null},
         row["is_active"] \in BOOLEAN
  PROVE  row \in ServerRow
BY DEF ServerRow, Column

(* What a prepared payload gives for each column.                          *)
LEMMA PreparedColumns ==
  ASSUME NEW p \in ServerEdits, NEW row \in ServerRow \cup {BlankRow}, NEW q,
         q = PrepareServer(p, row)
  PROVE  /\ Given(q, row, "slug") = Given(p, row, "slug")
         /\ Given(q, row, "is_active") = Given(p, row, "is_active")
         /\ Given(q, row, "command") \in {Null, "", "npx", Local}
         /\ Given(q, row, "url") \in {Null, "", "url"}
         /\ Given(q, row, "working_directory") \in Source \cup {Null, Outside}
         /\ Given(q, row, "metadata_json") \in Meta \cup {Null}
         /\ \/ Given(q, row, "transport") = Given(p, row, "transport")
            \/ Given(q, row, "transport") = "stdio"
         /\ Given(q, row, "transport") = "remote" =>
              /\ Given(q, row, "command") = Null
              /\ Given(q, row, "working_directory") = Null
<1> DEFINE meta == Given(p, row, "metadata_json")
<1> USE DEF Given
<1>1. /\ row = BlankRow =>
           /\ row["command"] = Null /\ row["url"] = Null
           /\ row["working_directory"] = Null /\ row["metadata_json"] = Null
      /\ row # BlankRow =>
           /\ row["command"] \in {Null, "npx", Local}
           /\ row["url"] \in {Null, "", "url"}
           /\ row["working_directory"] \in Source \cup {Null}
           /\ row["metadata_json"] \in Meta \cup {Null}
  BY DEF BlankRow, Column, ServerRow
<1>2. /\ "command" \in DOMAIN p => p["command"] \in {Null, "", "npx", Local}
      /\ "url" \in DOMAIN p => p["url"] \in {Null, "", "url"}
      /\ "working_directory" \in DOMAIN p =>
           p["working_directory"] \in Source \cup {Null, Outside}
      /\ "metadata_json" \in DOMAIN p => p["metadata_json"] \in Meta \cup {Null}
      /\ "local_source_path" \in DOMAIN p => p["local_source_path"] \in Source
  BY McpAdminAssumption DEF ServerPayload
<1>3. meta \in Meta \cup {Null}
  BY <1>1, <1>2
<1>4. Strip(meta) \in Meta \cup {Null}
  BY <1>3 DEF Strip, Meta
<1>5. \A d \in Source : Merge(meta, d) \in Meta
  BY <1>3 DEF Merge, Meta
<1>6. CASE "local_source_path" \in DOMAIN p
  <2>1. q = Over([transport |-> "stdio", command |-> Local, url |-> Null,
                  working_directory |-> p["local_source_path"],
                  metadata_json |-> Merge(meta, p["local_source_path"])], p)
    BY <1>6 DEF PrepareServer
  <2>2. Merge(meta, p["local_source_path"]) \in Meta
    BY <1>2, <1>5, <1>6
  <2> HIDE DEF meta
  <2>3. QED
    BY <1>1, <1>2, <1>6, <2>1, <2>2 DEF Over
<1>7. CASE /\ "local_source_path" \notin DOMAIN p
           /\ Given(p, row, "transport") = "remote"
  <2>1. PICK u : u = IF Given(p, row, "url") = "" THEN Null
                     ELSE Given(p, row, "url")
    OBVIOUS
  <2>2. q = Over([command |-> Null, working_directory |-> Null, url |-> u,
                  metadata_json |-> Strip(meta)], p)
    BY <1>7, <2>1 DEF PrepareServer
  <2>3. u \in {Null, "", "url"}
    BY <1>1, <1>2, <2>1
  <2> HIDE DEF meta
  <2>4. QED
    BY <1>1, <1>2, <1>4, <1>7, <2>2, <2>3 DEF Over
<1>8. CASE /\ "local_source_path" \notin DOMAIN p
           /\ Given(p, row, "transport") # "remote"
  <2>1. q = Over([metadata_json |-> Strip(meta)], p) \/ q = p
    BY <1>8 DEF PrepareServer
  <2>2. CASE q = p
    BY <1>1, <1>2, <1>8, <2>2
  <2>3. CASE q = Over([metadata_json |-> Strip(meta)], p)
    <3> HIDE DEF meta
    <3>1. QED
      BY <1>1, <1>2, <1>4, <1>8, <2>3 DEF Over
  <2>4. QED
    BY <2>1, <2>2, <2>3
<1>9. QED
  BY <1>6, <1>7, <1>8

(* A row that Write leaves is a row of the table, and can be connected to. *)
LEMMA WrittenRow ==
  ASSUME NEW p \in ServerEdits, NEW row \in ServerRow \cup {BlankRow}, NEW q,
         q = PrepareServer(p, row), Valid(q, row),
         row \notin ServerRow =>
           /\ {"slug", "transport"} \subseteq DOMAIN p
           /\ p.slug # Null
  PROVE  Persist(q, row) \in ServerRow /\ Runnable(Persist(q, row))
<1>0. PICK g : g = [k \in Column |-> Given(q, row, k)]
  OBVIOUS
<1> DEFINE new == Persist(q, row)
<1>1. /\ new = [k \in Column |-> new[k]]
      /\ \A k \in Column : new[k] = IF g[k] = Null THEN row[k] ELSE g[k]
  BY <1>0 DEF Persist
<1>2. /\ g["slug"] = Given(p, row, "slug")
      /\ g["is_active"] = Given(p, row, "is_active")
      /\ g["command"] \in {Null, "", "npx", Local}
      /\ g["url"] \in {Null, "", "url"}
      /\ g["working_directory"] \in Source \cup {Null, Outside}
      /\ g["metadata_json"] \in Meta \cup {Null}
      /\ g["transport"] = "remote" =>
           g["command"] = Null /\ g["working_directory"] = Null
  BY <1>0, PreparedColumns DEF Column
<1>3. \/ /\ g["transport"] = "stdio" /\ g["command"] \notin {Null, ""}
         /\ g["working_directory"] # Outside
      \/ g["transport"] = "remote" /\ g["url"] \notin {Null, ""}
  BY <1>0 DEF Valid, Column
<1>4. Null \notin {"", "stdio", "remote", "npx", "url", Local, Outside}
  BY McpAdminAssumption
<1>5. g["slug"] = Null \/ g["slug"] \in ServerSlug \/ g["slug"] = row["slug"]
  BY <1>0, <1>2, McpAdminAssumption DEF Given, ServerPayload
<1>6. \/ g["is_active"] \in BOOLEAN \cup {Null}
      \/ g["is_active"] = row["is_active"]
  BY <1>0, <1>2, McpAdminAssumption DEF Given, ServerPayload
<1>7. CASE row \in ServerRow
  <2>1. /\ row["slug"] \in ServerSlug /\ row["transport"] \in {"stdio", "remote"}
        /\ row["command"] \in {Null, "npx", Local}
        /\ row["url"] \in {Null, "", "url"}
        /\ row["working_directory"] \in Source \cup {Null}
        /\ row["metadata_json"] \in Meta \cup {Null}
        /\ row["is_active"] \in BOOLEAN
    BY <1>7 DEF ServerRow
  <2> HIDE DEF new
  <2>2. /\ new["slug"] \in ServerSlug /\ new["transport"] \in {"stdio", "remote"}
        /\ new["command"] \in {Null, "npx", Local}
        /\ new["url"] \in {Null, "", "url"}
        /\ new["working_directory"] \in Source \cup {Null}
        /\ new["metadata_json"] \in Meta \cup {Null}
        /\ new["is_active"] \in BOOLEAN
        /\ new["transport"] = "stdio" => new["command"] \notin {Null, ""}
        /\ new["transport"] = "remote" => new["url"] \notin {Null, ""}
    BY <1>1, <1>2, <1>3, <1>4, <1>5, <1>6, <2>1 DEF Column
  <2>3. QED
    BY <1>1, <2>2, RowOfColumns DEF Runnable, new
<1>8. CASE row \notin ServerRow
  <2>1. /\ row["transport"] = Null /\ row["command"] = Null /\ row["url"] = Null
        /\ row["working_directory"] = Null /\ row["metadata_json"] = Null
        /\ row["is_active"] = TRUE
    BY <1>8 DEF BlankRow, Column
  <2>2. g["slug"] \in ServerSlug
    BY <1>2, <1>8, McpAdminAssumption DEF Given, ServerPayload
  <2> HIDE DEF new
  <2>3. /\ new["slug"] \in ServerSlug /\ new["transport"] \in {"stdio", "remote"}
        /\ new["command"] \in {Null, "npx", Local}
        /\ new["url"] \in {Null, "", "url"}
        /\ new["working_directory"] \in Source \cup {Null}
        /\ new["metadata_json"] \in Meta \cup {Null}
        /\ new["is_active"] \in BOOLEAN
        /\ new["transport"] = "stdio" => new["command"] \notin {Null, ""}
        /\ new["transport"] = "remote" => new["url"] \notin {Null, ""}
    BY <1>1, <1>2, <1>3, <1>4, <1>6, <2>1, <2>2, McpAdminAssumption DEF Column
  <2>4. QED
    BY <1>1, <2>3, RowOfColumns DEF Runnable, new
<1>9. QED
  BY <1>7, <1>8

(* A row refreshed for a directory is that directory's, and refreshing it  *)
(* again leaves it.                                                        *)
LEMMA RefreshedRow ==
  ASSUME NEW d \in Source, NEW row \in ServerRow, NEW m \in Meta \cup {Null},
         NEW new, new = Persist(LocalRow(d, m), row)
  PROVE  /\ new \in ServerRow /\ Runnable(new)
         /\ new.slug = row.slug /\ new.is_active = row.is_active
         /\ LocalSource(new) = d
         /\ new = Refreshed(d, new)
<1>1. Merge(m, d) \in Meta /\ Merge(m, d).source = d
  BY DEF Merge, Meta
<1>2. Merge(Merge(m, d), d) = Merge(m, d)
  BY <1>1, McpAdminAssumption DEF Merge
<1>3. /\ Null \notin {"", "stdio", "remote", "npx", "url", Local, Outside}
      /\ d # Null /\ Merge(m, d) # Null
  BY <1>1, McpAdminAssumption
<1>4. PICK g : g = [k \in Column |-> Given(LocalRow(d, m), row, k)]
  OBVIOUS
<1>5. /\ g["transport"] = "stdio" /\ g["command"] = Local
      /\ g["working_directory"] = d /\ g["metadata_json"] = Merge(m, d)
      /\ g["slug"] = row["slug"] /\ g["url"] = row["url"]
      /\ g["is_active"] = row["is_active"]
  BY <1>4 DEF Given, LocalRow, Column
<1>6. new = [k \in Column |-> IF g[k] = Null THEN row[k] ELSE g[k]]
  BY <1>4 DEF Persist
<1>7. /\ row["slug"] \in ServerSlug /\ row["url"] \in {Null, "", "url"}
      /\ row["is_active"] \in BOOLEAN
  BY DEF ServerRow
<1>8. /\ new["transport"] = "stdio" /\ new["command"] = Local
      /\ new["working_directory"] = d /\ new["metadata_json"] = Merge(m, d)
      /\ new["slug"] = row["slug"] /\ new["url"] = row["url"]
      /\ new["is_active"] = row["is_active"]
  BY <1>3, <1>5, <1>6 DEF Column
<1>9. new = [k \in Column |-> new[k]]
  BY <1>6
<1>10. new \in ServerRow
  BY <1>1, <1>7, <1>8, <1>9, RowOfColumns
<1>11. PICK h : h = [k \in Column |-> Given(LocalRow(d, Merge(m, d)), new, k)]
  OBVIOUS
<1>12. /\ h["transport"] = "stdio" /\ h["command"] = Local
       /\ h["working_directory"] = d /\ h["metadata_json"] = Merge(m, d)
       /\ h["slug"] = new["slug"] /\ h["url"] = new["url"]
       /\ h["is_active"] = new["is_active"]
  BY <1>2, <1>11 DEF Given, LocalRow, Column
<1>13. /\ \A k \in Column : h[k] = new[k]
       /\ Refreshed(d, new) = [k \in Column |-> IF h[k] = Null THEN new[k] ELSE h[k]]
  BY <1>8, <1>11, <1>12 DEF Refreshed, Persist, Column
<1>14. new = Refreshed(d, new)
  BY <1>9, <1>13
<1>15. LocalSource(new) = d
  BY <1>1, <1>3, <1>8 DEF LocalSource
<1>16. QED
  BY <1>3, <1>8, <1>10, <1>14, <1>15 DEF Runnable, Local

(* The row that a synchronisation creates.                                 *)
LEMMA CreatedRow ==
  ASSUME NEW d \in Source, NEW new,
         new = Persist(Over(LocalRow(d, Null), [slug |-> SlugOf[d]]), BlankRow)
  PROVE  /\ new \in ServerRow /\ Runnable(new)
         /\ new.slug = SlugOf[d] /\ new.is_active
         /\ LocalSource(new) = d
         /\ new = Refreshed(d, new)
<1>1. Merge(Null, d) \in Meta /\ Merge(Null, d).source = d
  BY DEF Merge, Meta
<1>2. /\ Null \notin {"", "stdio", "remote", "npx", "url", Local, Outside}
      /\ d # Null /\ Merge(Null, d) # Null /\ SlugOf[d] \in ServerSlug
      /\ SlugOf[d] # Null /\ TRUE # Null
  BY <1>1, McpAdminAssumption
<1>3. PICK p : p = Over(LocalRow(d, Null), [slug |-> SlugOf[d]])
  OBVIOUS
<1>4. /\ DOMAIN p = {"transport", "command", "working_directory",
                     "metadata_json", "slug"}
      /\ p["transport"] = "stdio" /\ p["command"] = Local
      /\ p["working_directory"] = d /\ p["metadata_json"] = Merge(Null, d)
      /\ p["slug"] = SlugOf[d]
  BY <1>3 DEF Over, LocalRow
<1>5. PICK g : g = [k \in Column |-> Given(p, BlankRow, k)]
  OBVIOUS
<1>6. /\ g["transport"] = "stdio" /\ g["command"] = Local
      /\ g["working_directory"] = d /\ g["metadata_json"] = Merge(Null, d)
      /\ g["slug"] = SlugOf[d] /\ g["url"] = Null /\ BlankRow["url"] = Null
      /\ g["is_active"] = TRUE
  BY <1>4, <1>5 DEF Given, BlankRow, Column
<1>7. new = [k \in Column |-> IF g[k] = Null THEN BlankRow[k] ELSE g[k]]
  BY <1>3, <1>5 DEF Persist
<1>8. /\ new["transport"] = "stdio" /\ new["command"] = Local
      /\ new["working_directory"] = d /\ new["metadata_json"] = Merge(Null, d)
      /\ new["slug"] = SlugOf[d] /\ new["url"] = Null
      /\ new["is_active"] = TRUE
  BY <1>2, <1>6, <1>7 DEF Column
<1>9. new = [k \in Column |-> new[k]]
  BY <1>7
<1>10. new \in ServerRow
  BY <1>1, <1>2, <1>8, <1>9, RowOfColumns
<1>11. LocalSource(new) = d
  BY <1>1, <1>2, <1>8 DEF LocalSource
<1>12. Merge(Merge(Null, d), d) = Merge(Null, d)
  BY <1>1, <1>2 DEF Merge
<1>13. PICK h : h = [k \in Column |-> Given(LocalRow(d, Merge(Null, d)), new, k)]
  OBVIOUS
<1>14. /\ h["transport"] = "stdio" /\ h["command"] = Local
       /\ h["working_directory"] = d /\ h["metadata_json"] = Merge(Null, d)
       /\ h["slug"] = new["slug"] /\ h["url"] = new["url"]
       /\ h["is_active"] = new["is_active"]
  BY <1>12, <1>13 DEF Given, LocalRow, Column
<1>15. /\ \A k \in Column : h[k] = new[k]
       /\ Refreshed(d, new) = [k \in Column |-> IF h[k] = Null THEN new[k] ELSE h[k]]
  BY <1>8, <1>13, <1>14 DEF Refreshed, Persist, Column
<1>16. new = Refreshed(d, new)
  BY <1>9, <1>15
<1>17. QED
  BY <1>2, <1>8, <1>10, <1>11, <1>16 DEF Runnable, Local

(* What Servers, Found and LocalSource read.                               *)
LEMMA ServerRows ==
  ASSUME McpAdminTypeOK
  PROVE  /\ \A s \in ServerId : s \in Servers <=> server[s] \in ServerRow
         /\ \A s \in ServerId : s \in Found <=> sync.found[s] \in ServerRow
         /\ Servers \subseteq ServerId /\ Found \subseteq ServerId
<1>1. Null \notin ServerRow
  BY McpAdminAssumption
<1>2. sync.found \in [ServerId -> ServerRow \cup {Null}]
  BY DEF McpAdminTypeOK, SyncRow
<1>3. QED
  BY <1>1, <1>2 DEF McpAdminTypeOK, Servers, Found

(* A request that is none of a synchronisation forgets the last one.       *)
LEMMA NoSyncInv ==
  ASSUME sync' = NoSync, sStep' \in {"idle", "refresh"}
  PROVE  /\ SyncInv'
         /\ sync' \in SyncRow /\ sync'.todo \subseteq sync'.listed
         /\ sync'.gone \subseteq Found'
<1>1. ~sync'.was /\ sync'.gone = {} /\ sync'.todo = {} /\ sync'.listed = {}
  BY DEF NoSync
<1>2. sync' \in SyncRow
  BY DEF NoSync, SyncRow
<1>3. QED
  BY <1>1, <1>2 DEF SyncInv

(* Writing the next free id.                                               *)
LEMMA FreshRow ==
  ASSUME McpAdminTypeOK, Prefix(Servers), RowsRunnable,
         NEW s \in ServerId, s = Cardinality(Servers) + 1,
         NEW row \in ServerRow, Runnable(row),
         server' = [server EXCEPT ![s] = row]
  PROVE  /\ server' \in [ServerId -> ServerRow \cup {Null}]
         /\ s \notin Servers /\ Servers' = Servers \cup {s}
         /\ Prefix(Servers') /\ RowsRunnable'
<1>1. s \notin Servers /\ Prefix(Servers \cup {s})
  BY PrefixNext
<1>2. server' \in [ServerId -> ServerRow \cup {Null}]
  BY DEF McpAdminTypeOK
<1>3. Servers' = Servers \cup {s}
  BY McpAdminAssumption DEF Servers, McpAdminTypeOK
<1>4. \A o \in Servers : o # s /\ server'[o] = server[o]
  BY <1>1 DEF Servers, McpAdminTypeOK
<1>5. server'[s] = row
  BY DEF McpAdminTypeOK
<1>6. RowsRunnable'
  BY <1>3, <1>4, <1>5 DEF RowsRunnable, Runnable
<1>7. QED
  BY <1>1, <1>2, <1>3, <1>6

(* Writing a row that is there.                                            *)
LEMMA ChangedRow ==
  ASSUME McpAdminTypeOK, Prefix(Servers), RowsRunnable,
         NEW s \in Servers, NEW row \in ServerRow, Runnable(row),
         server' = [server EXCEPT ![s] = row]
  PROVE  /\ server' \in [ServerId -> ServerRow \cup {Null}]
         /\ Servers' = Servers /\ Prefix(Servers') /\ RowsRunnable'
<1>1. s \in ServerId
  BY DEF Servers
<1>2. server' \in [ServerId -> ServerRow \cup {Null}]
  BY <1>1 DEF McpAdminTypeOK
<1>3. Servers' = Servers
  BY <1>1, McpAdminAssumption DEF Servers, McpAdminTypeOK
<1>4. \A o \in Servers : server'[o] = IF o = s THEN row ELSE server[o]
  BY <1>1 DEF Servers, McpAdminTypeOK
<1>5. RowsRunnable'
  BY <1>3, <1>4 DEF RowsRunnable, Runnable
<1>6. QED
  BY <1>2, <1>3, <1>5

(* A row that is deactivated stays one of the table.                       *)
LEMMA DeactivatedRow ==
  ASSUME McpAdminTypeOK, RowsRunnable, NEW s \in Servers, NEW row,
         row = [server[s] EXCEPT !.is_active = FALSE]
  PROVE  /\ row \in ServerRow /\ Runnable(row) /\ ~row.is_active
         /\ (server' = [server EXCEPT ![s].is_active = FALSE]
               => server' = [server EXCEPT ![s] = row])
<1>1. server[s] \in ServerRow /\ Runnable(server[s])
  BY ServerRows DEF RowsRunnable, Runnable, Servers
<1>2. row \in ServerRow /\ ~row.is_active
  BY <1>1 DEF ServerRow
<1>3. row.transport = server[s].transport /\ row.command = server[s].command
      /\ row.url = server[s].url
  BY <1>1 DEF ServerRow
<1>4. QED
  BY <1>1, <1>2, <1>3 DEF Runnable

(* Requests, and what ends them.                                           *)
LEMMA ServerRequestsKeep ==
  ASSUME McpAdminIInv,
         \/ CreateServer \/ UpdateServer \/ DeactivateServer \/ DiskChanges
         \/ RefreshServers \/ ServerRequestFails
  PROVE  McpAdminIInv'
<1> USE DEF McpAdminIInv
<1>1. Null \notin ServerRow
  BY McpAdminAssumption
<1>2. CASE CreateServer
  <2>1. PICK s \in ServerId, p \in ServerEdits :
             /\ s = Cardinality(Servers) + 1
             /\ {"slug", "transport"} \subseteq DOMAIN p /\ p.slug # Null
             /\ Write(s, PrepareServer(p, BlankRow), BlankRow)
    BY <1>2 DEF CreateServer
  <2>2. PICK new : new = Persist(PrepareServer(p, BlankRow), BlankRow)
    OBVIOUS
  <2>3. new \in ServerRow /\ Runnable(new) /\ server' = [server EXCEPT ![s] = new]
    BY <2>1, <2>2, WrittenRow DEF Write
  <2>4. /\ sStep' = "refresh" /\ sync' = NoSync /\ onDisk' = onDisk
        /\ current' = FALSE
    BY <2>1 DEF Write
  <2>5. QED
    BY <2>1, <2>3, <2>4, FreshRow, NoSyncInv DEF McpAdminTypeOK
<1>3. CASE UpdateServer
  <2>1. PICK s \in ActiveServers, p \in ServerEdits :
             Write(s, PrepareServer(p, server[s]), server[s])
    BY <1>3 DEF UpdateServer
  <2>2. s \in Servers /\ server[s] \in ServerRow
    BY ServerRows DEF ActiveServers, Servers
  <2>3. PICK new : new = Persist(PrepareServer(p, server[s]), server[s])
    OBVIOUS
  <2>4. new \in ServerRow /\ Runnable(new) /\ server' = [server EXCEPT ![s] = new]
    BY <2>1, <2>2, <2>3, WrittenRow DEF Write
  <2>5. /\ sStep' = "refresh" /\ sync' = NoSync /\ onDisk' = onDisk
        /\ current' = FALSE
    BY <2>1 DEF Write
  <2>6. QED
    BY <2>2, <2>4, <2>5, ChangedRow, NoSyncInv DEF McpAdminTypeOK
<1>4. CASE DeactivateServer
  <2>1. PICK s \in ActiveServers :
             server' = [server EXCEPT ![s].is_active = FALSE]
    BY <1>4 DEF DeactivateServer
  <2>2. PICK new : new = [server[s] EXCEPT !.is_active = FALSE]
    OBVIOUS
  <2>3. s \in Servers
    BY DEF ActiveServers
  <2>4. new \in ServerRow /\ Runnable(new) /\ server' = [server EXCEPT ![s] = new]
    BY <2>1, <2>2, <2>3, DeactivatedRow
  <2>5. /\ sStep' = "refresh" /\ sync' = NoSync /\ onDisk' = onDisk
        /\ current' = FALSE
    BY <1>4 DEF DeactivateServer
  <2>6. QED
    BY <2>3, <2>4, <2>5, ChangedRow, NoSyncInv DEF McpAdminTypeOK
<1>5. CASE DiskChanges
  <2>1. /\ sStep' = "idle" /\ sync' = NoSync /\ server' = server
        /\ current' = current
    BY <1>5 DEF DiskChanges
  <2>2. onDisk' \subseteq Source
    BY <1>5 DEF DiskChanges, McpAdminTypeOK
  <2>3. Servers' = Servers /\ (RowsRunnable <=> RowsRunnable')
    BY <2>1 DEF Servers, RowsRunnable
  <2>4. QED
    BY <2>1, <2>2, <2>3, NoSyncInv DEF McpAdminTypeOK
<1>6. CASE ServerRequestFails
  <2>1. /\ sStep' = "idle" /\ sync' = NoSync /\ server' = server
        /\ current' = current /\ onDisk' = onDisk
    BY <1>6 DEF ServerRequestFails
  <2>2. Servers' = Servers /\ (RowsRunnable <=> RowsRunnable')
    BY <2>1 DEF Servers, RowsRunnable
  <2>3. QED
    BY <2>1, <2>2, NoSyncInv DEF McpAdminTypeOK
<1>7. CASE RefreshServers
  <2>1. /\ sStep = "refresh" /\ sStep' = "ok" /\ current'
        /\ server' = server /\ onDisk' = onDisk /\ sync' = sync
    BY <1>7 DEF RefreshServers
  <2>2. /\ Servers' = Servers /\ (RowsRunnable <=> RowsRunnable')
        /\ Found' = Found /\ ActiveServers' = ActiveServers
    BY <2>1 DEF Servers, RowsRunnable, Found, ActiveServers
  <2>4. ToRetire' = ToRetire
    BY <2>1, <2>2 DEF ToRetire, LocalSource
  <2>5. FoundRowInv => FoundRowInv'
    BY <2>1, <2>2 DEF FoundRowInv, LocalSource
  <2>6. ServedInv => ServedInv'
    BY <2>1, <2>2 DEF ServedInv, LocalSource, Managed
  <2>7. CreatedInv => CreatedInv'
    BY <2>1, <2>2 DEF CreatedInv, LocalSource, Refreshed
  <2>8. QED
    BY <2>1, <2>2, <2>4, <2>5, <2>6, <2>7 DEF McpAdminTypeOK, SyncInv, LocalSource
<1>8. QED
  BY <1>2, <1>3, <1>4, <1>5, <1>6, <1>7

(* A synchronisation that starts has read every active row.                *)
LEMMA SyncStartKeeps ==
  ASSUME McpAdminIInv, SyncStart
  PROVE  McpAdminIInv'
<1> USE DEF McpAdminIInv
<1>1. Null \notin ServerRow
  BY McpAdminAssumption
<1>2. /\ sStep' = "sync" /\ server' = server /\ onDisk' = onDisk
      /\ current' = current
  BY DEF SyncStart
<1>3. PICK f : f = [s \in ServerId |-> IF s \in ActiveServers THEN server[s] ELSE Null]
  OBVIOUS
<1>4. sync' = [todo |-> onDisk, listed |-> onDisk, found |-> f, gone |-> {},
               changed |-> FALSE, was |-> TRUE]
  BY <1>3 DEF SyncStart, NoSync
<1>5. f \in [ServerId -> ServerRow \cup {Null}]
  BY <1>3, ServerRows DEF ActiveServers, Servers
<1>6. sync' \in SyncRow /\ sync'.todo \subseteq sync'.listed
  BY <1>4, <1>5 DEF SyncRow, McpAdminTypeOK
<1>7. Servers' = Servers /\ (RowsRunnable <=> RowsRunnable')
      /\ ActiveServers' = ActiveServers
  BY <1>2 DEF Servers, RowsRunnable, ActiveServers
<1>8. Found' = ActiveServers
  BY <1>3, <1>4, ServerRows, <1>1 DEF Found, ActiveServers, Servers
<1>9. /\ \A s \in Found' : sync'.found[s] = server'[s] /\ s \in Servers'
      /\ \A s \in Found' : sync'.found[s].is_active
  BY <1>2, <1>3, <1>4, <1>7, <1>8 DEF ActiveServers, Servers
<1>10. FoundRowInv'
  BY <1>4, <1>9 DEF FoundRowInv
<1>11. ServedInv' /\ CreatedInv'
  BY <1>4, <1>7, <1>8 DEF ServedInv, CreatedInv
<1>12. SyncInv'
  BY <1>2, <1>4, <1>7, <1>8, <1>10, <1>11 DEF SyncInv
<1>13. McpAdminTypeOK'
  BY <1>2, <1>4, <1>6 DEF McpAdminTypeOK
<1>14. QED
  BY <1>7, <1>12, <1>13

(* The rows read at the start, as long as none is retired.                 *)
LEMMA FoundRows ==
  ASSUME McpAdminTypeOK, FoundRowInv, NEW s \in Found \ sync.gone
  PROVE  /\ sync.found[s] \in ServerRow /\ server[s] \in ServerRow
         /\ sync.found[s].metadata_json \in Meta \cup {Null}
         /\ server[s].slug = sync.found[s].slug /\ server[s].is_active
         /\ s \in Servers /\ s \in ServerId
<1>1. sync.found[s] \in ServerRow /\ server[s] \in ServerRow /\ s \in Servers
      /\ s \in ServerId
  BY ServerRows DEF FoundRowInv
<1>2. sync.found[s].metadata_json \in Meta \cup {Null}
  BY <1>1 DEF ServerRow
<1>3. CASE server[s] = sync.found[s]
  BY <1>1, <1>2, <1>3 DEF FoundRowInv
<1>4. CASE server[s] # sync.found[s]
  <2>1. /\ LocalSource(sync.found[s]) \in Source
        /\ server[s] = Persist(LocalRow(LocalSource(sync.found[s]),
                               sync.found[s].metadata_json), sync.found[s])
    BY <1>4 DEF FoundRowInv, McpAdminTypeOK, SyncRow
  <2>2. PICK d \in Source : d = LocalSource(sync.found[s])
    BY <2>1
  <2>3. /\ server[s].slug = sync.found[s].slug
        /\ server[s].is_active = sync.found[s].is_active
    BY <1>1, <1>2, <2>1, <2>2, RefreshedRow
  <2>4. QED
    BY <1>1, <1>2, <2>3 DEF FoundRowInv
<1>5. QED
  BY <1>3, <1>4

(* A directory without a row gets one, unless its slug is taken.           *)
LEMMA SyncCreateKeeps ==
  ASSUME McpAdminIInv, SyncCreate
  PROVE  McpAdminIInv'
<1> USE DEF McpAdminIInv
<1>1. PICK d \in sync.todo :
           /\ Managed(d) = {}
           /\ \/ /\ ~Free(SlugOf[d], Null)
                 /\ Synced(d, FALSE) /\ server' = server
              \/ /\ \E s \in ServerId :
                      /\ s = Cardinality(Servers) + 1
                      /\ server' = [server EXCEPT ![s] =
                           Persist(Over(LocalRow(d, Null), [slug |-> SlugOf[d]]), BlankRow)]
                 /\ Synced(d, TRUE)
  BY DEF SyncCreate
<1>2. /\ sStep = "sync" /\ sStep' = "sync" /\ onDisk' = onDisk
      /\ d \in Source /\ d \in sync.listed /\ sync.was /\ sync.gone = {}
  BY <1>1 DEF SyncCreate, Synced, McpAdminTypeOK, SyncRow, SyncInv
<1>3. PICK c \in BOOLEAN :
           /\ sync' = [sync EXCEPT !.todo = @ \ {d}, !.changed = @ \/ c]
           /\ current' = (current /\ ~c)
  BY <1>1 DEF Synced
<1>4. /\ sync'.todo = sync.todo \ {d} /\ sync'.listed = sync.listed
      /\ sync'.found = sync.found /\ sync'.gone = sync.gone
      /\ sync'.was = sync.was /\ sync' \in SyncRow
  BY <1>3 DEF McpAdminTypeOK, SyncRow
<1>5. current' \in BOOLEAN
  BY <1>3 DEF McpAdminTypeOK
<1>6. Found' = Found
  BY <1>4 DEF Found
<1>7. /\ server' \in [ServerId -> ServerRow \cup {Null}]
      /\ Prefix(Servers') /\ RowsRunnable' /\ Servers \subseteq Servers'
      /\ \A o \in Servers : server'[o] = server[o]
      /\ \A o \in ActiveServers' \ ActiveServers :
           /\ o \notin Servers /\ LocalSource(server'[o]) = d
           /\ server'[o] = Refreshed(d, server'[o])
      /\ \E o \in ActiveServers' : server'[o].slug = SlugOf[d]
  <2>1. CASE ~Free(SlugOf[d], Null) /\ server' = server
    <3>1. Servers' = Servers /\ ActiveServers' = ActiveServers
          /\ (RowsRunnable <=> RowsRunnable')
      BY <2>1 DEF Servers, ActiveServers, RowsRunnable
    <3>2. QED
      BY <2>1, <3>1 DEF Free, McpAdminTypeOK
  <2>2. CASE \E s \in ServerId :
               /\ s = Cardinality(Servers) + 1
               /\ server' = [server EXCEPT ![s] =
                    Persist(Over(LocalRow(d, Null), [slug |-> SlugOf[d]]), BlankRow)]
    <3>1. PICK s \in ServerId :
               /\ s = Cardinality(Servers) + 1
               /\ server' = [server EXCEPT ![s] =
                    Persist(Over(LocalRow(d, Null), [slug |-> SlugOf[d]]), BlankRow)]
      BY <2>2
    <3>2. PICK new : new = Persist(Over(LocalRow(d, Null), [slug |-> SlugOf[d]]), BlankRow)
      OBVIOUS
    <3>3. /\ new \in ServerRow /\ Runnable(new) /\ new.slug = SlugOf[d]
          /\ new.is_active /\ LocalSource(new) = d /\ new = Refreshed(d, new)
      BY <1>2, <3>2, CreatedRow
    <3>4. server' = [server EXCEPT ![s] = new]
      BY <3>1, <3>2
    <3>5. /\ server' \in [ServerId -> ServerRow \cup {Null}]
          /\ s \notin Servers /\ Servers' = Servers \cup {s}
          /\ Prefix(Servers') /\ RowsRunnable'
      BY <3>1, <3>3, <3>4, FreshRow
    <3>6. /\ server'[s] = new
          /\ \A o \in Servers : server'[o] = server[o]
      BY <3>4, <3>5 DEF McpAdminTypeOK, Servers
    <3>7. s \in ActiveServers' /\ ActiveServers' \ ActiveServers \subseteq {s}
      BY <3>3, <3>5, <3>6 DEF ActiveServers
    <3>8. QED
      BY <3>3, <3>5, <3>6, <3>7
  <2>3. QED
    BY <1>1, <2>1, <2>2
<1>8. /\ Found \subseteq Servers
      /\ \A s \in Found : server'[s] = server[s] /\ server[s].is_active
      /\ \A s \in Found : server[s].slug = sync.found[s].slug
  BY <1>2, <1>7, FoundRows DEF SyncInv, FoundRowInv
<1>9. ActiveServers \subseteq ActiveServers'
  BY <1>7 DEF ActiveServers
<1>10. FoundRowInv'
  BY <1>2, <1>4, <1>6, <1>7, <1>8 DEF SyncInv, FoundRowInv, LocalSource
<1>11. ServedInv'
  <2> SUFFICES ASSUME NEW e \in sync'.listed \ sync'.todo
               PROVE  \/ /\ Managed(e) = {}
                         /\ \E s \in Found : sync.found[s].slug = SlugOf[e]
                      \/ /\ Managed(e) = {}
                         /\ \E s \in ActiveServers' \ Found : server'[s].slug = SlugOf[e]
                      \/ \E s \in Found \ sync.gone :
                           /\ LocalSource(sync.found[s]) = e
                           /\ server'[s] = Refreshed(e, server'[s])
    BY <1>2, <1>4, <1>6 DEF ServedInv, LocalSource, Managed
  <2>1. CASE e = d
    BY <1>1, <1>7, <1>8, <2>1
  <2>2. CASE e # d
    <3>1. e \in sync.listed \ sync.todo
      BY <1>4, <2>2
    <3>2. ServedInv
      BY <1>2 DEF SyncInv
    <3>3. \A s \in ActiveServers : server'[s] = server[s]
      BY <1>7 DEF ActiveServers
    <3>4. QED
      BY <1>8, <1>9, <3>1, <3>2, <3>3 DEF ServedInv
  <2>3. QED
    BY <2>1, <2>2
<1>12. CreatedInv'
  <2> SUFFICES ASSUME NEW s \in ActiveServers' \ Found
               PROVE  /\ LocalSource(server'[s]) \in sync.listed
                      /\ server'[s] = Refreshed(LocalSource(server'[s]), server'[s])
    BY <1>2, <1>4, <1>6 DEF CreatedInv, LocalSource, Refreshed
  <2>1. CASE s \in ActiveServers
    <3>1. server'[s] = server[s]
      BY <1>7, <2>1 DEF ActiveServers
    <3>2. CreatedInv
      BY <1>2 DEF SyncInv
    <3>3. QED
      BY <2>1, <3>1, <3>2 DEF CreatedInv
  <2>2. CASE s \notin ActiveServers
    BY <1>2, <1>7, <2>2
  <2>3. QED
    BY <2>1, <2>2
<1>13. SyncInv'
  BY <1>2, <1>4, <1>10, <1>11, <1>12 DEF SyncInv, LocalSource
<1>14. McpAdminTypeOK'
  BY <1>2, <1>4, <1>5, <1>6, <1>7 DEF McpAdminTypeOK
<1>15. QED
  BY <1>7, <1>13, <1>14

(* A directory's row is refreshed.                                         *)
LEMMA SyncUpdateKeeps ==
  ASSUME McpAdminIInv, SyncUpdate
  PROVE  McpAdminIInv'
<1> USE DEF McpAdminIInv
<1> DEFINE Row(d, s) == Persist(LocalRow(d, sync.found[s].metadata_json), server[s])
<1>0. PICK d \in sync.todo, s \in ServerId :
           /\ s \in Managed(d)
           /\ server' = IF Differs(server[s], Row(d, s))
                        THEN [server EXCEPT ![s] = Row(d, s)] ELSE server
           /\ Synced(d, Differs(server[s], Row(d, s)))
  BY DEF SyncUpdate, Managed, Found
<1>1. PICK new :
           /\ s \in Managed(d)
           /\ new = Persist(LocalRow(d, sync.found[s].metadata_json), server[s])
           /\ server' = IF Differs(server[s], new)
                        THEN [server EXCEPT ![s] = new] ELSE server
           /\ Synced(d, Differs(server[s], new))
  BY <1>0
<1> HIDE DEF Row
<1>2. /\ sStep = "sync" /\ sStep' = "sync" /\ onDisk' = onDisk
      /\ d \in Source /\ d \in sync.listed /\ sync.was /\ sync.gone = {}
      /\ FoundRowInv /\ ServedInv /\ CreatedInv
  BY <1>1 DEF SyncUpdate, Synced, McpAdminTypeOK, SyncRow, SyncInv
<1>3. PICK c \in BOOLEAN :
           /\ sync' = [sync EXCEPT !.todo = @ \ {d}, !.changed = @ \/ c]
           /\ current' = (current /\ ~c)
  BY <1>1 DEF Synced, Differs
<1>4. /\ sync'.todo = sync.todo \ {d} /\ sync'.listed = sync.listed
      /\ sync'.found = sync.found /\ sync'.gone = sync.gone
      /\ sync'.was = sync.was /\ sync' \in SyncRow
  BY <1>3 DEF McpAdminTypeOK, SyncRow
<1>5. current' \in BOOLEAN
  BY <1>3 DEF McpAdminTypeOK
<1>6. Found' = Found
  BY <1>4 DEF Found
<1>7. /\ s \in Found \ sync.gone /\ LocalSource(sync.found[s]) = d
  BY <1>1, <1>2 DEF Managed
<1>8. /\ sync.found[s] \in ServerRow /\ server[s] \in ServerRow
      /\ sync.found[s].metadata_json \in Meta \cup {Null}
      /\ server[s].slug = sync.found[s].slug /\ server[s].is_active
      /\ s \in Servers /\ s \in ServerId
  BY <1>2, <1>7, FoundRows
<1>9. /\ new \in ServerRow /\ Runnable(new)
      /\ new.slug = server[s].slug /\ new.is_active = server[s].is_active
      /\ LocalSource(new) = d /\ new = Refreshed(d, new)
  <2>1. PICK m \in Meta \cup {Null} : m = sync.found[s].metadata_json
    BY <1>8
  <2>2. PICK row \in ServerRow : row = server[s]
    BY <1>8
  <2>3. new = Persist(LocalRow(d, m), row) /\ d \in Source
    BY <1>1, <1>2, <2>1, <2>2
  <2>4. /\ new \in ServerRow /\ Runnable(new)
        /\ new.slug = row.slug /\ new.is_active = row.is_active
        /\ LocalSource(new) = d /\ new = Refreshed(d, new)
    BY <2>3, RefreshedRow
  <2>5. QED
    BY <2>2, <2>4
<1>10. server' = [server EXCEPT ![s] = new]
  BY <1>1, <1>8 DEF Differs, McpAdminTypeOK
<1>11. /\ server' \in [ServerId -> ServerRow \cup {Null}]
       /\ Servers' = Servers /\ Prefix(Servers') /\ RowsRunnable'
  BY <1>8, <1>9, <1>10, ChangedRow
<1>12. \A o \in ServerId : server'[o] = IF o = s THEN new ELSE server[o]
  BY <1>10 DEF McpAdminTypeOK
<1>13. ActiveServers' = ActiveServers
  BY <1>8, <1>9, <1>11, <1>12 DEF ActiveServers, Servers
<1>14. new = Persist(LocalRow(d, sync.found[s].metadata_json), sync.found[s])
  <2>1. server[s] = sync.found[s]
    BY <1>1, <1>2, <1>7 DEF FoundRowInv
  <2>2. QED
    BY <1>1, <2>1
<1>15. FoundRowInv'
  <2>1. \A o \in Found : sync.found[o].is_active /\ o \in Servers /\ o \in ServerId
    BY <1>2 DEF FoundRowInv, Servers
  <2>2. ASSUME NEW o \in Found \ sync.gone
        PROVE  \/ server'[o] = sync.found[o]
               \/ /\ LocalSource(sync.found[o]) \in sync'.listed \ sync'.todo
                  /\ server'[o] = Persist(LocalRow(LocalSource(sync.found[o]),
                                    sync.found[o].metadata_json), sync.found[o])
    <3>1. CASE o = s
      BY <1>2, <1>4, <1>7, <1>8, <1>12, <1>14, <3>1
    <3>2. CASE o # s
      BY <1>2, <1>4, <1>12, <2>1, <3>2 DEF FoundRowInv
    <3>3. QED
      BY <3>1, <3>2
  <2>3. QED
    BY <1>2, <1>4, <1>6, <1>11, <2>1, <2>2 DEF FoundRowInv, LocalSource
<1>16. ServedInv'
  <2> SUFFICES ASSUME NEW e \in sync'.listed \ sync'.todo
               PROVE  \/ Managed(e) = {} /\ \E o \in Found : sync.found[o].slug = SlugOf[e]
                      \/ /\ Managed(e) = {}
                         /\ \E o \in ActiveServers \ Found : server'[o].slug = SlugOf[e]
                      \/ \E o \in Found \ sync.gone :
                           /\ LocalSource(sync.found[o]) = e
                           /\ server'[o] = Refreshed(e, server'[o])
    BY <1>2, <1>4, <1>6, <1>13 DEF ServedInv, LocalSource, Managed
  <2>1. CASE e = d
    BY <1>7, <1>8, <1>9, <1>12, <2>1
  <2>2. CASE e # d
    <3>1. e \in sync.listed \ sync.todo
      BY <1>4, <2>2
    <3>2. \A o \in ActiveServers \ Found : server'[o] = server[o]
      BY <1>7, <1>12 DEF ActiveServers, Servers
    <3>3. \A o \in Found : LocalSource(sync.found[o]) = e => server'[o] = server[o]
      BY <1>7, <1>12, <2>2 DEF Found
    <3>4. QED
      BY <1>2, <3>1, <3>2, <3>3 DEF ServedInv
  <2>3. QED
    BY <2>1, <2>2
<1>17. CreatedInv'
  <2>1. \A o \in ActiveServers \ Found : server'[o] = server[o]
    BY <1>7, <1>12 DEF ActiveServers, Servers
  <2>2. QED
    BY <1>2, <1>4, <1>6, <1>13, <2>1 DEF CreatedInv, LocalSource, Refreshed
<1>18. SyncInv'
  BY <1>2, <1>4, <1>15, <1>16, <1>17 DEF SyncInv, LocalSource
<1>19. McpAdminTypeOK'
  BY <1>2, <1>4, <1>5, <1>6, <1>11 DEF McpAdminTypeOK
<1>20. QED
  BY <1>11, <1>18, <1>19

(* A row whose directory is gone is retired.                               *)
LEMMA SyncRetireKeeps ==
  ASSUME McpAdminIInv, SyncRetire
  PROVE  McpAdminIInv'
<1> USE DEF McpAdminIInv
<1>1. PICK s \in ToRetire :
           /\ server' = [server EXCEPT ![s].is_active = FALSE]
           /\ sync' = [sync EXCEPT !.changed = TRUE, !.gone = @ \cup {s}]
  BY DEF SyncRetire
<1>2. /\ sStep = "sync" /\ sStep' = "sync" /\ onDisk' = onDisk
      /\ sync.todo = {} /\ sync.was /\ current' = FALSE
      /\ FoundRowInv /\ ServedInv /\ CreatedInv
  BY DEF SyncRetire, SyncInv
<1>3. /\ s \in Found \ sync.gone
      /\ LocalSource(sync.found[s]) \notin sync.listed
  BY DEF ToRetire
<1>4. /\ sync'.todo = sync.todo /\ sync'.listed = sync.listed
      /\ sync'.found = sync.found /\ sync'.gone = sync.gone \cup {s}
      /\ sync'.was = sync.was /\ sync' \in SyncRow
  BY <1>1, <1>3 DEF McpAdminTypeOK, SyncRow, Found
<1>5. Found' = Found
  BY <1>4 DEF Found
<1>6. s \in Servers /\ s \in ServerId
  BY <1>2, <1>3, FoundRows
<1>7. PICK new : new = [server[s] EXCEPT !.is_active = FALSE]
  OBVIOUS
<1>8. /\ new \in ServerRow /\ Runnable(new) /\ ~new.is_active
      /\ server' = [server EXCEPT ![s] = new]
  BY <1>1, <1>6, <1>7, DeactivatedRow
<1>9. /\ server' \in [ServerId -> ServerRow \cup {Null}]
      /\ Servers' = Servers /\ Prefix(Servers') /\ RowsRunnable'
  BY <1>6, <1>8, ChangedRow
<1>10. \A o \in ServerId : server'[o] = IF o = s THEN new ELSE server[o]
  BY <1>8 DEF McpAdminTypeOK
<1>11. ActiveServers' = ActiveServers \ {s}
  BY <1>6, <1>8, <1>9, <1>10 DEF ActiveServers, Servers
<1>12. FoundRowInv'
  <2>1. \A o \in Found : o \in Servers /\ o \in ServerId
    BY <1>2 DEF FoundRowInv, Servers
  <2>2. \A o \in Found \ sync'.gone : server'[o] = server[o] /\ o \notin sync.gone
    BY <1>4, <1>10, <2>1
  <2>3. \A o \in sync'.gone : ~server'[o].is_active
    <3>1. \A o \in sync.gone : o \in ServerId /\ ~server[o].is_active
      BY <1>2, <2>1 DEF FoundRowInv, McpAdminTypeOK
    <3>2. QED
      BY <1>4, <1>6, <1>8, <1>10, <3>1
  <2>4. QED
    BY <1>2, <1>4, <1>5, <1>9, <2>2, <2>3 DEF FoundRowInv, LocalSource
<1>13. ServedInv'
  <2>1. \A o \in ActiveServers \ Found : server'[o] = server[o] /\ o # s
    BY <1>3, <1>10 DEF ActiveServers, Servers
  <2>2. \A o \in Found, e \in sync.listed :
           LocalSource(sync.found[o]) = e => server'[o] = server[o] /\ o # s
    BY <1>3, <1>10 DEF Found
  <2>3. QED
    BY <1>2, <1>4, <1>5, <1>11, <2>1, <2>2 DEF ServedInv, LocalSource, Managed
<1>14. CreatedInv'
  <2>1. \A o \in ActiveServers \ Found : server'[o] = server[o]
    BY <1>3, <1>10 DEF ActiveServers, Servers
  <2>2. QED
    BY <1>2, <1>4, <1>5, <1>11, <2>1 DEF CreatedInv, LocalSource, Refreshed
<1>15. SyncInv'
  BY <1>2, <1>4, <1>12, <1>13, <1>14 DEF SyncInv, LocalSource
<1>16. McpAdminTypeOK'
  BY <1>2, <1>3, <1>4, <1>5, <1>9 DEF McpAdminTypeOK
<1>17. QED
  BY <1>9, <1>15, <1>16

LEMMA SyncEndKeeps ==
  ASSUME McpAdminIInv, SyncEnd
  PROVE  McpAdminIInv'
<1>1. /\ sStep = "sync" /\ sync.todo = {} /\ ToRetire = {} /\ sync.was
      /\ sStep' = IF sync.changed THEN "refresh" ELSE "ok"
      /\ server' = server /\ onDisk' = onDisk /\ current' = current
      /\ sync' = sync
  BY DEF SyncEnd, McpAdminIInv, SyncInv
<1>2. /\ Servers' = Servers /\ (RowsRunnable <=> RowsRunnable')
      /\ Found' = Found /\ ActiveServers' = ActiveServers
  BY <1>1 DEF Servers, RowsRunnable, Found, ActiveServers
<1>3. ToRetire' = ToRetire
  BY <1>1, <1>2 DEF ToRetire, LocalSource
<1>4. FoundRowInv => FoundRowInv'
  BY <1>1, <1>2 DEF FoundRowInv, LocalSource
<1>5. ServedInv => ServedInv'
  BY <1>1, <1>2 DEF ServedInv, LocalSource, Managed
<1>6. CreatedInv => CreatedInv'
  BY <1>1, <1>2 DEF CreatedInv, LocalSource, Refreshed
<1>7. QED
  BY <1>1, <1>2, <1>3, <1>4, <1>5, <1>6
    DEF McpAdminIInv, McpAdminTypeOK, SyncInv, LocalSource

LEMMA McpAdminInvariance == Spec => []McpAdminIInv
<1>1. McpAdminInit => McpAdminIInv
  <2> SUFFICES ASSUME McpAdminInit PROVE McpAdminIInv
    OBVIOUS
  <2>1. /\ ~sync.was /\ sync.gone = {} /\ sync.todo = {} /\ sync.listed = {}
        /\ sync \in SyncRow /\ sStep = "idle"
    BY DEF McpAdminInit, NoSync, SyncRow
  <2>2. Servers = {} /\ server \in [ServerId -> ServerRow \cup {Null}]
    BY DEF McpAdminInit, Servers
  <2>3. Prefix(Servers)
    BY <2>2 DEF Prefix
  <2>4. QED
    BY <2>1, <2>2, <2>3
      DEF McpAdminIInv, McpAdminTypeOK, RowsRunnable, SyncInv, McpAdminInit
<1>2. McpAdminIInv /\ [McpAdminNext]_mcpAdminVars => McpAdminIInv'
  <2> SUFFICES ASSUME McpAdminIInv, [McpAdminNext]_mcpAdminVars
               PROVE  McpAdminIInv'
    OBVIOUS
  <2>1. CASE McpAdminNext
    BY <2>1, ServerRequestsKeep, SyncStartKeeps, SyncCreateKeeps,
      SyncUpdateKeeps, SyncRetireKeeps, SyncEndKeeps DEF McpAdminNext
  <2>2. CASE UNCHANGED mcpAdminVars
    <3>1. /\ server' = server /\ onDisk' = onDisk /\ current' = current
          /\ sStep' = sStep /\ sync' = sync
      BY <2>2 DEF mcpAdminVars
    <3>2. /\ Servers' = Servers /\ (RowsRunnable <=> RowsRunnable')
          /\ Found' = Found /\ ActiveServers' = ActiveServers
      BY <3>1 DEF Servers, RowsRunnable, Found, ActiveServers
    <3>3. ToRetire' = ToRetire
      BY <3>1, <3>2 DEF ToRetire, LocalSource
    <3>4. FoundRowInv => FoundRowInv'
      BY <3>1, <3>2 DEF FoundRowInv, LocalSource
    <3>5. ServedInv => ServedInv'
      BY <3>1, <3>2 DEF ServedInv, LocalSource, Managed
    <3>6. CreatedInv => CreatedInv'
      BY <3>1, <3>2 DEF CreatedInv, LocalSource, Refreshed
    <3>7. QED
      BY <3>1, <3>2, <3>3, <3>4, <3>5, <3>6
        DEF McpAdminIInv, McpAdminTypeOK, SyncInv, LocalSource
  <2>3. QED
    BY <2>1, <2>2
<1>3. QED
  BY <1>1, <1>2, ImplementsParts, PTL DEF McpAdminSpec

(* Whatever partial payloads came in which order, every MCP server of the  *)
(* table has what its transport needs to be connected to.                  *)
THEOREM RowsRunnableHolds == Spec => []RowsRunnable
<1>1. McpAdminIInv => RowsRunnable
  BY DEF McpAdminIInv
<1>2. QED
  BY <1>1, McpAdminInvariance, PTL

(* A synchronisation that ends leaves every source an active server with   *)
(* the transport, command, directory and marker of the source, except one  *)
(* that had no server and whose slug is another's; no server for a         *)
(* directory that is gone; and a snapshot with its changes, whatever       *)
(* requests, failures and changes of the disk came before it.              *)
THEOREM SyncMatchesDiskHolds == Spec => []SyncMatchesDisk
<1>1. McpAdminIInv => SyncMatchesDisk
  <2> SUFFICES ASSUME McpAdminIInv, sStep = "ok", sync.was
               PROVE  /\ \A s \in ActiveServers : LocalSource(server[s]) \in onDisk \cup {Null}
                      /\ \A d \in onDisk :
                           \/ TakenByAnother(d)
                           \/ \E s \in ActiveServers :
                                /\ LocalSource(server[s]) = d
                                /\ server[s] = Refreshed(d, server[s])
                      /\ sync.changed => current
    BY DEF SyncMatchesDisk, Refreshed
  <2> USE DEF McpAdminIInv
  <2>1. /\ sync.listed = onDisk /\ sync.todo = {} /\ ToRetire = {}
        /\ FoundRowInv /\ ServedInv /\ CreatedInv /\ (sync.changed => current)
        /\ \A s \in ActiveServers \ Found :
             /\ LocalSource(server[s]) \in onDisk
             /\ server[s] = Refreshed(LocalSource(server[s]), server[s])
    BY DEF SyncInv, CreatedInv
  <2>2. /\ \A s \in Found \ sync.gone :
             /\ LocalSource(server[s]) = LocalSource(sync.found[s])
             /\ LocalSource(server[s]) \in onDisk \cup {Null}
             /\ s \in ActiveServers
    <3> SUFFICES ASSUME NEW s \in Found \ sync.gone
                 PROVE  /\ LocalSource(server[s]) = LocalSource(sync.found[s])
                        /\ LocalSource(sync.found[s]) \in onDisk \cup {Null}
                        /\ s \in ActiveServers
      OBVIOUS
    <3>1. LocalSource(sync.found[s]) \in onDisk \cup {Null}
      BY <2>1 DEF ToRetire
    <3>2. /\ sync.found[s] \in ServerRow /\ server[s].is_active /\ s \in Servers
          /\ sync.found[s].metadata_json \in Meta \cup {Null}
      BY <2>1, FoundRows
    <3>3. CASE server[s] # sync.found[s]
      <4>1. PICK d \in Source : d = LocalSource(sync.found[s])
        BY <2>1, <3>3 DEF FoundRowInv, McpAdminTypeOK, SyncRow
      <4>2. server[s] = Persist(LocalRow(d, sync.found[s].metadata_json), sync.found[s])
        BY <2>1, <3>3, <4>1 DEF FoundRowInv
      <4>3. LocalSource(server[s]) = d
        BY <3>2, <4>2, RefreshedRow
      <4>4. QED
        BY <3>1, <3>2, <4>1, <4>3 DEF ActiveServers
    <3>4. QED
      BY <3>1, <3>2, <3>3 DEF ActiveServers
  <2>3. \A s \in sync.gone : s \notin ActiveServers
    BY <2>1 DEF FoundRowInv, ActiveServers
  <2>4. \A s \in ActiveServers : LocalSource(server[s]) \in onDisk \cup {Null}
    BY <2>1, <2>2, <2>3
  <2>5. ASSUME NEW d \in onDisk
        PROVE  \/ TakenByAnother(d)
               \/ \E s \in ActiveServers :
                    /\ LocalSource(server[s]) = d
                    /\ server[s] = Refreshed(d, server[s])
    <3>1. CASE Managed(d) = {} /\ \E s \in Found : sync.found[s].slug = SlugOf[d]
      BY <3>1 DEF TakenByAnother
    <3>2. CASE /\ Managed(d) = {}
               /\ \E s \in ActiveServers \ Found : server[s].slug = SlugOf[d]
      BY <2>1, <3>2 DEF TakenByAnother
    <3>3. CASE \E s \in Found \ sync.gone :
                 /\ LocalSource(sync.found[s]) = d
                 /\ server[s] = Refreshed(d, server[s])
      BY <2>2, <3>3
    <3>4. QED
      BY <2>1, <3>1, <3>2, <3>3 DEF ServedInv
  <2>6. QED
    BY <2>1, <2>4, <2>5
<1>2. QED
  BY <1>1, McpAdminInvariance, PTL

-----------------------------------------------------------------------------
(* PlatformRun                                                             *)

(* What a subscriber has heard and what its tasks will tell it.            *)
Line(s) == IF s \in Async THEN heard[s] \o scheduled[s] ELSE heard[s]

(* A run is in the line with its start, once it has started, and after     *)
(* that with its end, once it has ended.                                   *)
Paired(h) ==
  /\ \A m, n \in DOMAIN h :
       m < n /\ h[m].job = h[n].job =>
         h[m].type = "started" /\ h[n].type = "completed"
  /\ \A n \in DOMAIN h : h[n].type = "completed" =>
       /\ \E m \in 1..n-1 : h[m].job = h[n].job
       /\ h[n].success = (job[h[n].job].end \in {"completed", "cancelled"})
Told(h, j, type) == \E n \in DOMAIN h : h[n].job = j /\ h[n].type = type
Complete(h) ==
  \A j \in Job : /\ Told(h, j, "started") <=> RunBegan(j)
                 /\ Told(h, j, "completed") <=> RunEnded(j)

PlatformRunIInv ==
  /\ PlatformRunTypeOK
  /\ \A j \in Job : job[j].at # "over" => job[j].end = "none"
  /\ \A s \in Subscriber : Paired(Line(s)) /\ Complete(Line(s))

LEMMA LineType ==
  ASSUME PlatformRunTypeOK, NEW s \in Subscriber
  PROVE  Line(s) \in Seq(Event)
<1>1. heard[s] \in Seq(Event)
  BY DEF PlatformRunTypeOK
<1>2. CASE s \in Async
  <2>1. scheduled[s] \in Seq(Event)
    BY <1>2 DEF PlatformRunTypeOK
  <2>2. QED
    BY <1>1, <1>2, <2>1 DEF Line
<1>3. QED
  BY <1>1, <1>2 DEF Line

(* An event is told to everyone, after all that went before.               *)
LEMMA PublishLines ==
  ASSUME PlatformRunTypeOK, NEW event \in Event, Publish(event)
  PROVE  /\ heard' \in [Subscriber -> Seq(Event)]
         /\ scheduled' \in [Async -> Seq(Event)]
         /\ \A s \in Subscriber : Line(s)' = Append(Line(s), event)
<1>1. Called = Subscriber
  <2>1. \A n \in DOMAIN Order : Order[n] \in Subscriber
    BY PlatformRunAssumption
  <2>2. QED
    BY <2>1, PlatformRunAssumption DEF Called
<1>2. heard' = [s \in Subscriber |->
                 IF s \in Async THEN heard[s] ELSE Append(heard[s], event)]
  BY <1>1 DEF Publish
<1>3. scheduled' = [s \in Async |-> Append(scheduled[s], event)]
  BY <1>1 DEF Publish, Subscriber
<1>4. /\ \A s \in Subscriber : heard[s] \in Seq(Event)
      /\ \A s \in Async : scheduled[s] \in Seq(Event)
  BY DEF PlatformRunTypeOK
<1>5. /\ \A s \in Subscriber : Append(heard[s], event) \in Seq(Event)
      /\ \A s \in Async : Append(scheduled[s], event) \in Seq(Event)
  BY <1>4
<1>6. ASSUME NEW s \in Subscriber PROVE Line(s)' = Append(Line(s), event)
  <2>1. CASE s \notin Async
    BY <1>2, <2>1 DEF Line
  <2>2. CASE s \in Async
    <3>1. PICK h \in Seq(Event), q \in Seq(Event) : h = heard[s] /\ q = scheduled[s]
      BY <1>4, <2>2
    <3>2. h \o Append(q, event) = Append(h \o q, event)
      OBVIOUS
    <3>3. QED
      BY <1>2, <1>3, <2>2, <3>1, <3>2 DEF Line
  <2>3. QED
    BY <2>1, <2>2
<1>7. QED
  BY <1>2, <1>3, <1>4, <1>5, <1>6

(* The start of a run, told once.                                          *)
LEMMA StartTold ==
  ASSUME PlatformRunIInv, NEW j \in Job, job[j].at = "prepared",
         job' = [job EXCEPT ![j].at = "started"],
         NEW h \in Seq(Event), Paired(h), Complete(h),
         NEW event \in Event, event.job = j, event.type = "started"
  PROVE  Paired(Append(h, event))' /\ Complete(Append(h, event))'
<1>1. PICK g : g = Append(h, event)
  OBVIOUS
<1>2. /\ DOMAIN g = 1..Len(h) + 1 /\ DOMAIN h = 1..Len(h) /\ Len(h) \in Nat
      /\ \A n \in DOMAIN h : g[n] = h[n]
      /\ g[Len(h) + 1] = event
  BY <1>1
<1>3. ~RunBegan(j) /\ ~RunEnded(j)
  BY DEF RunBegan, RunEnded
<1>4. \A n \in DOMAIN h : h[n] \in Event
  BY <1>2
<1>5. \A n \in DOMAIN h : h[n].job # j
  BY <1>3, <1>4 DEF Complete, Told, Event
<1>6. \A i \in Job : /\ job'[i].end = job[i].end
                     /\ i # j => job'[i] = job[i]
                     /\ i = j => job'[i].at = "started"
  BY DEF PlatformRunIInv, PlatformRunTypeOK
<1>7. job[j].end = "none" /\ job'[j].end = "none"
  BY <1>6 DEF PlatformRunIInv
<1>8. Paired(g)'
  <2>1. ASSUME NEW m \in DOMAIN g, NEW n \in DOMAIN g, m < n, g[m].job = g[n].job
        PROVE  g[m].type = "started" /\ g[n].type = "completed"
    BY <1>2, <1>5, <2>1 DEF Paired
  <2>2. ASSUME NEW n \in DOMAIN g, g[n].type = "completed"
        PROVE  /\ \E m \in 1..n-1 : g[m].job = g[n].job
               /\ g[n].success = (job'[g[n].job].end \in {"completed", "cancelled"})
    <3>1. n \in DOMAIN h
      BY <1>2, <2>2
    <3>2. PICK m \in 1..n-1 : h[m].job = h[n].job
      BY <1>2, <2>2, <3>1 DEF Paired
    <3>3. g[m] = h[m] /\ g[n] = h[n]
      BY <1>2, <3>1
    <3>4. h[n].job \in Job
      BY <1>4, <3>1 DEF Event
    <3>5. h[n].success = (job[h[n].job].end \in {"completed", "cancelled"})
      BY <2>2, <3>1, <3>3 DEF Paired
    <3>6. QED
      BY <1>6, <3>2, <3>3, <3>4, <3>5
  <2>3. QED
    BY <2>1, <2>2 DEF Paired
<1>9. Complete(g)'
  <2> SUFFICES ASSUME NEW i \in Job
               PROVE  /\ Told(g, i, "started") <=> RunBegan(i)'
                      /\ Told(g, i, "completed") <=> RunEnded(i)'
    BY DEF Complete, Told
  <2>1. /\ Told(g, i, "started") <=> Told(h, i, "started") \/ i = j
        /\ Told(g, i, "completed") <=> Told(h, i, "completed")
    BY <1>2 DEF Told
  <2>2. /\ RunBegan(i)' <=> RunBegan(i) \/ i = j
        /\ RunEnded(i)' <=> RunEnded(i)
    BY <1>3, <1>6, <1>7 DEF RunBegan, RunEnded
  <2>3. QED
    BY <2>1, <2>2 DEF Complete
<1>10. QED
  BY <1>1, <1>8, <1>9

(* The end of a run, told once and after its start.                        *)
LEMMA EndTold ==
  ASSUME PlatformRunIInv, NEW j \in Job, job[j].at = "started", NEW way \in Ways,
         job' = [job EXCEPT ![j] = [at |-> "over", end |-> way]],
         NEW h \in Seq(Event), Paired(h), Complete(h),
         NEW event \in Event, event.job = j, event.type = "completed",
         event.success = Success(way)
  PROVE  Paired(Append(h, event))' /\ Complete(Append(h, event))'
<1>1. PICK g : g = Append(h, event)
  OBVIOUS
<1>2. /\ DOMAIN g = 1..Len(h) + 1 /\ DOMAIN h = 1..Len(h) /\ Len(h) \in Nat
      /\ \A n \in DOMAIN h : g[n] = h[n]
      /\ g[Len(h) + 1] = event
  BY <1>1
<1>3. RunBegan(j) /\ ~RunEnded(j)
  BY DEF RunBegan, RunEnded
<1>4. \A n \in DOMAIN h : h[n] \in Event
  BY <1>2
<1>5. \A n \in DOMAIN h : h[n].job = j => h[n].type = "started"
  BY <1>3, <1>4 DEF Complete, Told, Event
<1>6. /\ \A i \in Job : i # j => job'[i] = job[i]
      /\ job'[j].at = "over" /\ job'[j].end = way
  BY DEF PlatformRunIInv, PlatformRunTypeOK
<1>7. way # "none" /\ (Success(way) = (way \in {"completed", "cancelled"}))
  BY PlatformRunAssumption DEF Success
<1>8. PICK k \in DOMAIN h : h[k].job = j
  BY <1>3 DEF Complete, Told
<1>9. Paired(g)'
  <2>1. ASSUME NEW m \in DOMAIN g, NEW n \in DOMAIN g, m < n, g[m].job = g[n].job
        PROVE  g[m].type = "started" /\ g[n].type = "completed"
    BY <1>2, <1>5, <2>1 DEF Paired
  <2>2. ASSUME NEW n \in DOMAIN g, g[n].type = "completed"
        PROVE  /\ \E m \in 1..n-1 : g[m].job = g[n].job
               /\ g[n].success = (job'[g[n].job].end \in {"completed", "cancelled"})
    <3>1. CASE n \in DOMAIN h
      <4>1. PICK m \in 1..n-1 : h[m].job = h[n].job
        BY <1>2, <2>2, <3>1 DEF Paired
      <4>2. g[m] = h[m] /\ g[n] = h[n]
        BY <1>2, <3>1
      <4>3. h[n].job \in Job /\ h[n].job # j
        BY <1>4, <1>5, <2>2, <3>1, <4>2 DEF Event
      <4>4. h[n].success = (job[h[n].job].end \in {"completed", "cancelled"})
        BY <2>2, <3>1, <4>2 DEF Paired
      <4>5. QED
        BY <1>6, <4>1, <4>2, <4>3, <4>4
    <3>2. CASE n = Len(h) + 1
      <4>1. k \in 1..n-1 /\ g[k].job = j /\ g[n] = event
        BY <1>2, <1>8, <3>2
      <4>2. QED
        BY <1>6, <1>7, <4>1
    <3>3. QED
      BY <1>2, <3>1, <3>2
  <2>3. QED
    BY <2>1, <2>2 DEF Paired
<1>10. Complete(g)'
  <2> SUFFICES ASSUME NEW i \in Job
               PROVE  /\ Told(g, i, "started") <=> RunBegan(i)'
                      /\ Told(g, i, "completed") <=> RunEnded(i)'
    BY DEF Complete, Told
  <2>1. /\ Told(g, i, "started") <=> Told(h, i, "started")
        /\ Told(g, i, "completed") <=> Told(h, i, "completed") \/ i = j
    BY <1>2 DEF Told
  <2>2. /\ RunBegan(i)' <=> RunBegan(i)
        /\ RunEnded(i)' <=> RunEnded(i) \/ i = j
    BY <1>3, <1>6, <1>7 DEF RunBegan, RunEnded
  <2>3. QED
    BY <2>1, <2>2 DEF Complete
<1>11. QED
  BY <1>1, <1>9, <1>10

(* A run that is given up or goes on unheard of changes no line.           *)
LEMMA PrepareKeeps ==
  ASSUME PlatformRunIInv, NEW j \in Job, Prepare(j)
  PROVE  PlatformRunIInv'
<1>1. PICK at \in {"prepared", "over"} : job' = [job EXCEPT ![j].at = at]
  BY DEF Prepare
<1>2. job[j].at = "new" /\ heard' = heard /\ scheduled' = scheduled
  BY DEF Prepare
<1>3. \A i \in Job : /\ job'[i].end = job[i].end
                     /\ i # j => job'[i] = job[i]
                     /\ i = j => job'[i].at = at
  BY <1>1 DEF PlatformRunIInv, PlatformRunTypeOK
<1>4. PlatformRunTypeOK'
  BY <1>1, <1>2 DEF PlatformRunIInv, PlatformRunTypeOK
<1>5. \A i \in Job : /\ RunBegan(i)' <=> RunBegan(i)
                     /\ RunEnded(i)' <=> RunEnded(i)
  BY <1>2, <1>3 DEF RunBegan, RunEnded, PlatformRunIInv
<1>6. ASSUME NEW s \in Subscriber PROVE (Paired(Line(s)) /\ Complete(Line(s)))'
  <2>1. PICK h \in Seq(Event) : h = Line(s)
    BY LineType DEF PlatformRunIInv
  <2>2. Line(s)' = h
    BY <1>2, <2>1 DEF Line
  <2>3. \A n \in DOMAIN h : h[n].job \in Job
    <3>1. \A n \in DOMAIN h : h[n] \in Event
      OBVIOUS
    <3>2. QED
      BY <3>1 DEF Event
  <2>4. Paired(h)'
    BY <1>3, <2>1, <2>3 DEF Paired, PlatformRunIInv
  <2>5. Complete(h)'
    BY <1>5, <2>1 DEF Complete, PlatformRunIInv, Told
  <2>6. QED
    BY <2>2, <2>4, <2>5
<1>7. \A i \in Job : job'[i].at # "over" => job'[i].end = "none"
  BY <1>2, <1>3 DEF PlatformRunIInv
<1>8. QED
  BY <1>4, <1>6, <1>7 DEF PlatformRunIInv

LEMMA StartRunKeeps ==
  ASSUME PlatformRunIInv, NEW j \in Job, StartRun(j)
  PROVE  PlatformRunIInv'
<1>1. PICK event : event = [job |-> j, type |-> "started", success |-> TRUE]
  OBVIOUS
<1>2. event \in Event /\ event.job = j /\ event.type = "started"
  BY <1>1 DEF Event
<1>3. /\ job[j].at = "prepared" /\ job' = [job EXCEPT ![j].at = "started"]
      /\ Publish(event)
  BY <1>1 DEF StartRun
<1>4. /\ heard' \in [Subscriber -> Seq(Event)]
      /\ scheduled' \in [Async -> Seq(Event)]
      /\ \A s \in Subscriber : Line(s)' = Append(Line(s), event)
  BY <1>2, <1>3, PublishLines DEF PlatformRunIInv
<1>5. ASSUME NEW s \in Subscriber PROVE (Paired(Line(s)) /\ Complete(Line(s)))'
  <2>1. PICK h \in Seq(Event) : h = Line(s)
    BY LineType DEF PlatformRunIInv
  <2>2. Paired(h) /\ Complete(h)
    BY <2>1 DEF PlatformRunIInv
  <2>3. Paired(Append(h, event))' /\ Complete(Append(h, event))'
    BY <1>2, <1>3, <2>2, StartTold
  <2>4. QED
    BY <1>4, <2>1, <2>3
<1>6. /\ job' \in [Job -> [at : {"new", "prepared", "started", "over"},
                           end : Ways \cup {"none"}]]
      /\ \A i \in Job : job'[i].at # "over" => job'[i].end = "none"
  BY <1>3 DEF PlatformRunIInv, PlatformRunTypeOK
<1>7. QED
  BY <1>4, <1>5, <1>6 DEF PlatformRunIInv, PlatformRunTypeOK

LEMMA EndRunKeeps ==
  ASSUME PlatformRunIInv, NEW j \in Job, EndRun(j)
  PROVE  PlatformRunIInv'
<1>1. PICK way \in Ways :
           /\ job' = [job EXCEPT ![j] = [at |-> "over", end |-> way]]
           /\ Publish([job |-> j, type |-> "completed", success |-> Success(way)])
  BY DEF EndRun
<1>2. PICK event : event = [job |-> j, type |-> "completed", success |-> Success(way)]
  OBVIOUS
<1>3. /\ event \in Event /\ event.job = j /\ event.type = "completed"
      /\ event.success = Success(way)
  BY <1>2 DEF Event, Success
<1>4. job[j].at = "started" /\ Publish(event)
  BY <1>1, <1>2 DEF EndRun
<1>5. /\ heard' \in [Subscriber -> Seq(Event)]
      /\ scheduled' \in [Async -> Seq(Event)]
      /\ \A s \in Subscriber : Line(s)' = Append(Line(s), event)
  BY <1>3, <1>4, PublishLines DEF PlatformRunIInv
<1>6. ASSUME NEW s \in Subscriber PROVE (Paired(Line(s)) /\ Complete(Line(s)))'
  <2>1. PICK h \in Seq(Event) : h = Line(s)
    BY LineType DEF PlatformRunIInv
  <2>2. Paired(h) /\ Complete(h)
    BY <2>1 DEF PlatformRunIInv
  <2>3. Paired(Append(h, event))' /\ Complete(Append(h, event))'
    BY <1>1, <1>3, <1>4, <2>2, EndTold
  <2>4. QED
    BY <1>5, <2>1, <2>3
<1>7. /\ job' \in [Job -> [at : {"new", "prepared", "started", "over"},
                           end : Ways \cup {"none"}]]
      /\ \A i \in Job : job'[i].at # "over" => job'[i].end = "none"
  BY <1>1 DEF PlatformRunIInv, PlatformRunTypeOK
<1>8. QED
  BY <1>5, <1>6, <1>7 DEF PlatformRunIInv, PlatformRunTypeOK

(* A task that begins moves its event along the line.                      *)
LEMMA RunTaskKeeps ==
  ASSUME PlatformRunIInv, RunTask
  PROVE  PlatformRunIInv'
<1>1. PICK s \in Async :
           /\ scheduled[s] # << >>
           /\ heard' = [heard EXCEPT ![s] = Append(@, Head(scheduled[s]))]
           /\ scheduled' = [scheduled EXCEPT ![s] = Tail(@)]
  BY DEF RunTask
<1>2. job' = job /\ s \in Subscriber
  BY DEF RunTask, Subscriber
<1>3. PICK h \in Seq(Event), q \in Seq(Event) : h = heard[s] /\ q = scheduled[s]
  BY <1>2 DEF PlatformRunIInv, PlatformRunTypeOK
<1>4. /\ Head(q) \in Event /\ Tail(q) \in Seq(Event)
      /\ Append(h, Head(q)) \in Seq(Event)
      /\ Append(h, Head(q)) \o Tail(q) = h \o q
  <2>1. /\ q # << >> /\ Head(q) \in Event /\ Tail(q) \in Seq(Event)
        /\ Len(Tail(q)) = Len(q) - 1 /\ Len(q) \in Nat \ {0}
        /\ \A i \in 1..Len(Tail(q)) : Tail(q)[i] = q[i+1]
    BY <1>1, <1>3, HeadTailProperties, EmptySeq
  <2>2. PICK e \in Event, t \in Seq(Event) : e = Head(q) /\ t = Tail(q)
    BY <2>1
  <2>3. q[1] = e
    BY <2>1, <2>2
  <2>4. PICK g : g = Append(h, e)
    OBVIOUS
  <2>5. /\ g \in Seq(Event) /\ Len(g) = Len(h) + 1 /\ Len(h) \in Nat
        /\ \A i \in 1..Len(h) : g[i] = h[i]
        /\ g[Len(h) + 1] = e
    BY <2>4
  <2>6. /\ g \o t \in Seq(Event) /\ Len(g \o t) = Len(g) + Len(t)
        /\ \A i \in 1..Len(g) + Len(t) :
             (g \o t)[i] = IF i <= Len(g) THEN g[i] ELSE t[i - Len(g)]
    BY <2>5, ConcatProperties
  <2>7. /\ h \o q \in Seq(Event) /\ Len(h \o q) = Len(h) + Len(q)
        /\ \A i \in 1..Len(h) + Len(q) :
             (h \o q)[i] = IF i <= Len(h) THEN h[i] ELSE q[i - Len(h)]
    BY ConcatProperties
  <2>8. Len(g \o t) = Len(h \o q)
    BY <2>1, <2>2, <2>5, <2>6, <2>7
  <2>9. ASSUME NEW i \in 1..Len(g \o t) PROVE (g \o t)[i] = (h \o q)[i]
    BY <2>1, <2>2, <2>3, <2>5, <2>6, <2>7
  <2>10. g \o t = h \o q
    BY <2>6, <2>7, <2>8, <2>9, SeqEqual
  <2>11. QED
    BY <2>1, <2>2, <2>4, <2>5, <2>10
<1>5. PlatformRunTypeOK'
  BY <1>1, <1>2, <1>3, <1>4 DEF PlatformRunIInv, PlatformRunTypeOK
<1>6. \A o \in Subscriber : Line(o)' = Line(o)
  BY <1>1, <1>2, <1>3, <1>4 DEF Line, PlatformRunIInv, PlatformRunTypeOK
<1>7. ASSUME NEW o \in Subscriber PROVE (Paired(Line(o)) /\ Complete(Line(o)))'
  <2>1. PICK g : g = Line(o)
    OBVIOUS
  <2>2. Paired(g)' /\ Complete(g)'
    BY <1>2, <2>1 DEF PlatformRunIInv, Paired, Complete, Told, RunBegan, RunEnded
  <2>3. QED
    BY <1>6, <2>1, <2>2
<1>8. QED
  BY <1>2, <1>5, <1>7 DEF PlatformRunIInv

LEMMA PlatformRunInvariance == Spec => []PlatformRunIInv
<1>1. PlatformRunInit => PlatformRunIInv
  <2> SUFFICES ASSUME PlatformRunInit PROVE PlatformRunIInv
    OBVIOUS
  <2>1. /\ PlatformRunTypeOK
        /\ \A j \in Job : job[j].at = "new" /\ job[j].end = "none"
    BY DEF PlatformRunInit, PlatformRunTypeOK
  <2>2. \A s \in Subscriber : Line(s) = << >>
    BY DEF PlatformRunInit, Line
  <2>3. Paired(<< >>) /\ Complete(<< >>)
    BY <2>1 DEF Paired, Complete, Told, RunBegan, RunEnded
  <2>4. QED
    BY <2>1, <2>2, <2>3 DEF PlatformRunIInv
<1>2. PlatformRunIInv /\ [PlatformRunNext]_platformRunVars => PlatformRunIInv'
  <2> SUFFICES ASSUME PlatformRunIInv, [PlatformRunNext]_platformRunVars
               PROVE  PlatformRunIInv'
    OBVIOUS
  <2>1. CASE PlatformRunNext
    BY <2>1, PrepareKeeps, StartRunKeeps, EndRunKeeps, RunTaskKeeps
      DEF PlatformRunNext
  <2>2. CASE UNCHANGED platformRunVars
    <3>1. job' = job /\ heard' = heard /\ scheduled' = scheduled
      BY <2>2 DEF platformRunVars
    <3>2. \A s \in Subscriber : Line(s)' = Line(s)
      BY <3>1 DEF Line
    <3>3. ASSUME NEW s \in Subscriber PROVE (Paired(Line(s)) /\ Complete(Line(s)))'
      <4>1. PICK g : g = Line(s)
        OBVIOUS
      <4>2. Paired(g)' /\ Complete(g)'
        BY <3>1, <4>1
          DEF PlatformRunIInv, Paired, Complete, Told, RunBegan, RunEnded
      <4>3. QED
        BY <3>2, <4>1, <4>2
    <3>4. QED
      BY <3>1, <3>3 DEF PlatformRunIInv, PlatformRunTypeOK
  <2>3. QED
    BY <2>1, <2>2
<1>3. QED
  BY <1>1, <1>2, ImplementsParts, PTL DEF PlatformRunSpec

(* Every subscriber of the event bus hears once of the start of a run and  *)
(* after it once of its end, whichever of the others raise.                *)
THEOREM EventsPairedHolds == Spec => []EventsPaired
<1>1. PlatformRunIInv => EventsPaired
  <2> SUFFICES ASSUME PlatformRunIInv, NEW s \in Subscriber
               PROVE  /\ Paired(heard[s])
                      /\ s \notin Async \/ scheduled[s] = << >> => Complete(heard[s])
    BY DEF EventsPaired, Paired, Complete, Told, Hears
  <2>1. PICK h \in Seq(Event), g \in Seq(Event) : h = heard[s] /\ g = Line(s)
    BY LineType DEF PlatformRunIInv, PlatformRunTypeOK
  <2>2. Paired(g) /\ Complete(g)
    BY <2>1 DEF PlatformRunIInv
  <2>3. s \notin Async \/ scheduled[s] = << >> => h = g
    BY <2>1, ConcatEmptySeq DEF Line
  <2>4. \A n \in DOMAIN h : n \in DOMAIN g /\ h[n] = g[n] /\ n \in Nat
    <3>1. CASE s \in Async
      <4>1. PICK q \in Seq(Event) : q = scheduled[s]
        BY <3>1 DEF PlatformRunIInv, PlatformRunTypeOK
      <4>2. g = h \o q
        BY <2>1, <3>1, <4>1 DEF Line
      <4>3. QED
        BY <4>2, ConcatProperties, LenProperties
    <3>2. CASE s \notin Async
      BY <2>3, <3>2
    <3>3. QED
      BY <3>1, <3>2
  <2>5. \A n \in DOMAIN h : 1..n-1 \subseteq DOMAIN h
    BY <2>1
  <2>6. Paired(h)
    BY <2>2, <2>4, <2>5 DEF Paired
  <2>7. QED
    BY <2>1, <2>2, <2>3, <2>6
<1>2. QED
  BY <1>1, PlatformRunInvariance, PTL

-----------------------------------------------------------------------------
(* Every part keeps its types, whichever part a behaviour exercises.       *)
THEOREM TypeCorrect == Spec => []TypeOK
<1>1. Spec => [](part \in Parts)
  <2>1. Init => part \in Parts
    BY DEF Init
  <2>2. part \in Parts /\ [Next]_platformVars => (part \in Parts)'
    BY DEF Next, platformVars
  <2>3. QED
    BY <2>1, <2>2, PTL DEF Spec
<1>2. ASSUME part \in Parts, ToolAdminTypeOK, McpAdminTypeOK, ChannelAdminTypeOK,
             ApiKeysTypeOK, CatalogueTypeOK, StartupTypeOK, TokenTypeOK,
             McpSessionsTypeOK, RunContextTypeOK, ToolCallTypeOK,
             ToolParamsTypeOK, PlatformRunTypeOK
      PROVE  TypeOK
  BY <1>2 DEF TypeOK, Parts
<1>3. /\ ToolAdminIInv => ToolAdminTypeOK
      /\ McpAdminIInv => McpAdminTypeOK
      /\ ChannelAdminIInv => ChannelAdminTypeOK
      /\ ApiKeysIInv => ApiKeysTypeOK
      /\ CatalogueIInv => CatalogueTypeOK
      /\ StartupIInv => StartupTypeOK
      /\ TokenIInv => TokenTypeOK
      /\ McpSessionsIInv => McpSessionsTypeOK
      /\ RunContextIInv => RunContextTypeOK
      /\ ToolCallIInv => ToolCallTypeOK
      /\ ToolParamsIInv => ToolParamsTypeOK
      /\ PlatformRunIInv => PlatformRunTypeOK
  BY DEF ToolAdminIInv, McpAdminIInv, ChannelAdminIInv, ApiKeysIInv,
    CatalogueIInv, SkillTypes, NoteTypes, CatalogueTypeOK, StartupIInv,
    TokenIInv, McpSessionsIInv, RunContextIInv, ToolCallIInv, ToolParamsIInv,
    PlatformRunIInv
<1>4. QED
  BY <1>1, <1>2, <1>3, ToolAdminInvariance, McpAdminInvariance,
    ChannelAdminInvariance, ApiKeysInvariance, CatalogueInvariance,
    StartupInvariance, TokenInvariance, McpSessionsInvariance,
    RunContextInvariance, ToolCallInvariance, ToolParamsInvariance,
    PlatformRunInvariance, PTL
=============================================================================
