---------------------------- MODULE McpSessions ----------------------------
(***************************************************************************)
(* The processes of one stdio MCP server in one run of an agent.  The      *)
(* run's calls of its tools share one session: the first starts a process, *)
(* the others find it.  Starting awaits twice before the session is        *)
(* registered.  What Agno does is external: stale sessions are closed      *)
(* before a call looks for one, and the run's own when the run ends.       *)
(***************************************************************************)
EXTENDS Naturals, FiniteSets

CONSTANTS
  ToolCaller,    \* calls of the run
  MaxProcesses,  \* bound: processes started
  NoProcess

Process == 1..MaxProcesses

ASSUME McpSessionsAssumption == MaxProcesses \in Nat /\ NoProcess \notin Process

VARIABLES
  offered,    \* "no", "made": there is an instance for the binding, "yes": the
              \* server's tools are known, "over"
  started,    \* processes started so far
  live,       \* those that are running
  session,    \* the process in _run_sessions, or NoProcess
  mcpCall,    \* call -> where it is, and its process
  disturbed   \* two calls were starting at once, or one could not finish

mcpSessionsVars == <<offered, started, live, session, mcpCall, disturbed>>

McpSessionsTypeOK ==
  /\ offered \in {"no", "made", "yes", "over"}
  /\ started \in 0..MaxProcesses
  /\ live \subseteq 1..started
  /\ session \in 1..started \cup {NoProcess}
  /\ mcpCall \in [ToolCaller -> [at : {"away", "look", "spawn", "handshake", "use"},
                                 of : Process \cup {NoProcess}]]
  /\ disturbed \in BOOLEAN

NotCalling == [at |-> "away", of |-> NoProcess]

McpSessionsInit ==
  /\ offered = "no"
  /\ started = 0
  /\ live = {}
  /\ session = NoProcess
  /\ mcpCall = [c \in ToolCaller |-> NotCalling]
  /\ disturbed = FALSE

CallAt(c, at) == mcpCall[c].at = at
SetCall(c, at, p) == mcpCall' = [mcpCall EXCEPT ![c] = [at |-> at, of |-> p]]

(* A command or a directory that is refused ends the run before it begins. *)
Create ==
  /\ offered = "no" /\ offered' \in {"made", "over"}
  /\ UNCHANGED <<started, live, session, mcpCall, disturbed>>

(* build_tools, on a process of its own that Agno connects to (external);  *)
(* if that or any tool's registration raises, the run has none of them.    *)
BuildTools ==
  /\ offered = "made" /\ offered' \in {"yes", "over"}
  /\ UNCHANGED <<started, live, session, mcpCall, disturbed>>

CallMcpTool(c) ==
  /\ offered = "yes"
  /\ CallAt(c, "away") /\ SetCall(c, "look", NoProcess)
  /\ UNCHANGED <<offered, started, live, session, disturbed>>

(* _cleanup_stale_sessions (external): the session may be too old, and a   *)
(* call may still be using it.                                             *)
CloseStale ==
  /\ \E c \in ToolCaller : CallAt(c, "look")
  /\ session # NoProcess
  /\ live' = live \ {session}
  /\ session' = NoProcess
  /\ UNCHANGED <<offered, started, mcpCall, disturbed>>

FindNever == FALSE  \* mutant: the run's session is not looked for
Find == session # NoProcess

UseSession(c) ==
  /\ CallAt(c, "look") /\ Find
  /\ SetCall(c, "use", session)
  /\ UNCHANGED <<offered, started, live, session, disturbed>>

Starting(c) == mcpCall[c].at \in {"spawn", "handshake"}

StartProcess(c) ==
  /\ CallAt(c, "look") /\ ~Find
  /\ SetCall(c, "spawn", NoProcess)
  /\ disturbed' = (disturbed \/ \E o \in ToolCaller : Starting(o))
  /\ UNCHANGED <<offered, started, live, session>>

(* stdio_client: the process runs, or the command cannot be started.       *)
ProcessStarted(c) ==
  /\ CallAt(c, "spawn")
  /\ \/ /\ started < MaxProcesses
        /\ started' = started + 1
        /\ live' = live \cup {started + 1}
        /\ SetCall(c, "handshake", started + 1)
     \/ SetCall(c, "away", NoProcess) /\ UNCHANGED <<started, live>>
  /\ UNCHANGED <<offered, session, disturbed>>

(* The second of two takes the place of the first.                         *)
Registers(c) == mcpCall[c].of

Initialized(c) ==
  /\ CallAt(c, "handshake")
  /\ SetCall(c, "use", mcpCall[c].of)
  /\ session' = Registers(c)
  /\ UNCHANGED <<offered, started, live, disturbed>>

(* Nothing closes the contexts that were entered.                          *)
InitializeFails(c) ==
  /\ CallAt(c, "handshake")
  /\ SetCall(c, "away", NoProcess)
  /\ disturbed' = TRUE
  /\ UNCHANGED <<offered, started, live, session>>

ToolAnswered(c) ==
  /\ CallAt(c, "use")
  /\ SetCall(c, "away", NoProcess)
  /\ UNCHANGED <<offered, started, live, session, disturbed>>

(* External: the run ends when its calls have, and its session is closed.  *)
McpRunEnds ==
  /\ offered = "yes" /\ \A c \in ToolCaller : CallAt(c, "away")
  /\ offered' = "over"
  /\ live' = live \ {session}
  /\ session' = NoProcess
  /\ UNCHANGED <<started, mcpCall, disturbed>>

McpSessionsNext ==
  \/ Create \/ BuildTools \/ CloseStale \/ McpRunEnds
  \/ \E c \in ToolCaller :
       \/ CallMcpTool(c) \/ UseSession(c) \/ StartProcess(c) \/ ProcessStarted(c)
       \/ Initialized(c) \/ InitializeFails(c) \/ ToolAnswered(c)

McpSessionsSpec == McpSessionsInit /\ [][McpSessionsNext]_mcpSessionsVars

-----------------------------------------------------------------------------
(* A run has one process of the server at a time, every call uses that one *)
(* and none outlives the run: unless two calls were starting at once, or   *)
(* the handshake of one failed.  (get_session_for_run takes no lock and    *)
(* cleans up after nothing.)                                               *)
OneServerPerRun ==
  ~disturbed =>
    /\ Cardinality(live) <= 1
    /\ offered = "over" => live = {}
    /\ \A c \in ToolCaller :
         CallAt(c, "use") /\ mcpCall[c].of \in live => mcpCall[c].of = session
=============================================================================
