----------------------------- MODULE RunContext -----------------------------
(***************************************************************************)
(* Who a run is for: the caller's context and the request's explicit       *)
(* values become the session state of an agent, which its Python and API   *)
(* tools read back, each in its own way; for headers and environment of    *)
(* MCP servers and arguments of their tools it is built once more, with    *)
(* the session in which Agno runs the agent.  One identifier at a time.    *)
(***************************************************************************)
EXTENDS Naturals, FiniteSets

CONSTANTS
  Good, Bad,  \* values: positive numbers or texts; 0, a word, blanks
  NoId,       \* None; of a key also "", or that it is absent
  Empty,      \* "" as an explicit value
  Fresh       \* a session's id that Agno has made up

ASSUME RunContextAssumption ==
  /\ Good \cap Bad = {} /\ Fresh \notin Bad
  /\ {NoId, Empty} \cap (Good \cup Bad \cup {Fresh}) = {} /\ NoId # Empty

VARIABLES
  kind,      \* "vendor", "principal" or "session"
  given,     \* the request's explicit value
  context,   \* what the caller's context has under each key
  state,     \* session_state of the agent
  agnoId,    \* session_id of the run_context Agno gives to MCP tools
  child,     \* the agent is not the one of the request, but called by another
  mcpState,  \* what the state becomes for MCP servers
  ctxStep    \* "asked", "chosen", "built", "running" or "rebuilt"

runContextVars == <<kind, given, context, state, agnoId, child, mcpState, ctxStep>>

(* The keys of an identifier, in the order in which they are read:         *)
(* vendor_id, vendorId, current_vendor_id, currentVendorId and so on, but  *)
(* current_session_id, currentSessionId, session_id, sessionId.            *)
KeyNo == 1..4
Mirrored(k) == IF k = "session" THEN {1, 2} ELSE KeyNo

Held == Good \cup Bad \cup {NoId}
Value == Held \cup {Empty, Fresh}
Kinds == {"vendor", "principal", "session"}

RunContextTypeOK ==
  /\ kind \in Kinds
  /\ given \in Held \cup {Empty} /\ agnoId \in Value
  /\ child \in BOOLEAN
  /\ context \in [KeyNo -> Held]
  /\ state \in [KeyNo -> Value] /\ mcpState \in [KeyNo -> Value]
  /\ ctxStep \in {"asked", "chosen", "built", "running", "rebuilt"}

RunContextInit ==
  /\ kind = "vendor"
  /\ given = NoId
  /\ context = [k \in KeyNo |-> NoId]
  /\ state = context /\ mcpState = context
  /\ agnoId = NoId /\ child = FALSE
  /\ ctxStep = "asked"

-----------------------------------------------------------------------------
(* The first key that is not blank, though what it has may be no good.     *)
First(st) == LET filled == {k \in KeyNo : st[k] # NoId}
             IN IF filled = {} THEN NoId
                ELSE st[CHOOSE k \in filled : \A l \in filled : k <= l]

GoodOr(v) == IF v \in Good \cup {Fresh} THEN v ELSE NoId

(* The mutant lets the context go before the request.                      *)
ResolveStateFirst(v, st) == GoodOr(IF First(st) = NoId THEN v ELSE First(st))
Resolve(v, st) == GoodOr(IF v = NoId THEN First(st) ELSE v)

Build(k, v, st) ==
  LET id == Resolve(v, st)
  IN [n \in KeyNo |-> IF id # NoId /\ n \in Mirrored(k) THEN id ELSE st[n]]

Transport(st) == Resolve(NoId, st)  \* headers of any request, environment

(* An MCP tool's schema names keys; of two that differ in case one is      *)
(* filled.  Arguments the model has given stay.                            *)
Arguments(st, schema) ==
  [n \in {n \in schema : /\ Transport(st) # NoId
                         /\ n \in {2, 4} => n - 1 \notin schema}
     |-> Transport(st)]

(* base_tool: _session_id takes the first text as it is, _principal_id the  *)
(* one of principal_id; _user_id (a principal that is a number) and other   *)
(* readers of numbers go on to the next key after one that is no good.      *)
ToolReads(k, st) ==
  CASE k = "session" -> {First(st)}
    [] k = "principal" -> {st[1], First([n \in KeyNo |-> GoodOr(st[n])])}
    [] k = "vendor" -> {First([n \in KeyNo |-> GoodOr(st[n])])}

-----------------------------------------------------------------------------
Ask ==
  /\ ctxStep = "asked" /\ ctxStep' = "chosen"
  /\ kind' \in Kinds /\ given' \in Held \cup {Empty} /\ context' \in [KeyNo -> Held]
  /\ state' = context' /\ mcpState' = context'
  /\ UNCHANGED <<agnoId, child>>

BuildState ==
  /\ ctxStep = "chosen" /\ ctxStep' = "built"
  /\ state' = Build(kind, given, context) /\ mcpState' = state'
  /\ UNCHANGED <<kind, given, context, agnoId, child>>

(* External: without a session Agno makes one up, and "" may count as      *)
(* none.  A child has its parent's state and is called with the session on *)
(* the parent's Agno object, which need not be the one the parent runs in. *)
AgnoRuns ==
  /\ ctxStep = "built" /\ ctxStep' = "running"
  /\ child' \in BOOLEAN
  /\ agnoId' \in IF given = NoId THEN {Fresh}
                 ELSE IF child' \/ given = Empty THEN {given, Fresh} ELSE {given}
  /\ UNCHANGED <<kind, given, context, state, mcpState>>

(* The providers of headers and environment and the wrapper of MCP tools;  *)
(* "" is passed over for the Agno object's session, which is None then.    *)
RebuildState ==
  /\ ctxStep = "running" /\ ctxStep' = "rebuilt"
  /\ mcpState' = Build(kind, IF kind = "session" /\ agnoId # Empty
                             THEN agnoId ELSE NoId, mcpState)
  /\ UNCHANGED <<kind, given, context, state, agnoId, child>>

RunContextNext == Ask \/ BuildState \/ AgnoRuns \/ RebuildState

RunContextSpec == RunContextInit /\ [][RunContextNext]_runContextVars

-----------------------------------------------------------------------------
(* A good explicit value wins over whatever the context says under any of  *)
(* its names, and so does, without one, the first value of the context if  *)
(* it is good: Python and API tools agree on it in every agent, headers,   *)
(* environment and arguments of MCP servers too, and building the state    *)
(* again keeps it.  All but the session: MCP servers have the one Agno     *)
(* runs in, which is the request's in its agent, but one made up, where    *)
(* tools have the context's, if the request gives none, and may be one     *)
(* made up in a child.  A first value that is no good hides those behind   *)
(* it; an explicit one that is no good leaves the keys as they are, which  *)
(* tools may tell apart.                                                   *)
Meant == IF given \in Good THEN given ELSE GoodOr(First(context))

McpMeant == IF /\ kind = "session" /\ GoodOr(agnoId) # NoId
               /\ child \/ given \notin Good
            THEN agnoId ELSE Meant

ReadersAgree ==
  /\ ctxStep \in {"built", "running", "rebuilt"} =>
       /\ Transport(state) = Meant
       /\ Meant # NoId /\ given \in Good \cup {NoId} =>
            /\ ToolReads(kind, state) = {Meant}
            /\ \A k \in Mirrored(kind) : state[k] = Meant
  /\ ctxStep = "rebuilt" =>
       /\ Transport(mcpState) = McpMeant
       /\ \A schema \in SUBSET KeyNo :
            LET args == Arguments(mcpState, schema) IN
            /\ \A n \in DOMAIN args : args[n] = McpMeant
            /\ McpMeant # NoId /\ schema # {} => args # << >>
=============================================================================
