------------------------------ MODULE Platform ------------------------------
(***************************************************************************)
(* The rest of the platform in one specification: its administration, but  *)
(* for nodes and edges (GraphAdmin), and what a worker does besides its    *)
(* cache (GraphCache), the runs of agents (AgentRun) and channels          *)
(* (ChannelWebhook).  The parts share no state, and no property speaks of  *)
(* two of them; for each property a behaviour of all of them together is   *)
(* one of the part that the property is about.  So a behaviour exercises   *)
(* one part, chosen at the start, while the others keep the only initial   *)
(* state that they then have.                                              *)
(***************************************************************************)
EXTENDS ToolAdmin, McpAdmin, ChannelAdmin, ApiKeys, Catalogue,
        Startup, TokenProvider, McpSessions, RunContext, ToolCall, ToolParams,
        PlatformRun

VARIABLE part

platformVars == <<part, toolAdminVars, mcpAdminVars, channelAdminVars, apiKeysVars,
                  catalogueVars, startupVars, tokenVars, mcpSessionsVars,
                  runContextVars, toolCallVars, toolParamsVars, platformRunVars>>

Parts == {"tools", "servers", "channels", "keys", "skills", "notes", "startup",
          "token", "sessions", "context", "calls", "params", "events"}

TypeOK ==
  CASE part = "tools" -> ToolAdminTypeOK [] part = "servers" -> McpAdminTypeOK
    [] part = "channels" -> ChannelAdminTypeOK [] part = "keys" -> ApiKeysTypeOK
    [] part \in {"skills", "notes"} -> CatalogueTypeOK
    [] part = "startup" -> StartupTypeOK [] part = "token" -> TokenTypeOK
    [] part = "sessions" -> McpSessionsTypeOK [] part = "context" -> RunContextTypeOK
    [] part = "calls" -> ToolCallTypeOK [] part = "params" -> ToolParamsTypeOK
    [] part = "events" -> PlatformRunTypeOK

Init ==
  /\ part \in Parts
  /\ ToolAdminInit /\ McpAdminInit /\ ChannelAdminInit /\ ApiKeysInit
  /\ CatalogueInit /\ StartupInit /\ TokenInit /\ McpSessionsInit
  /\ RunContextInit /\ ToolCallInit /\ ToolParamsInit /\ PlatformRunInit
  /\ part = "tools" \/ Rows(action) = {}
  /\ part = "keys" \/ agent = [n \in Agent |-> [slug |-> CHOOSE s \in Name : TRUE,
                                                active |-> FALSE]]
  /\ part = "startup" \/ failFast = [boot |-> FALSE, db |-> FALSE]

Keep(ps, vars) == IF part \in ps THEN TRUE ELSE UNCHANGED vars

Next ==
  /\ \/ part = "tools" /\ ToolAdminNext
     \/ part = "servers" /\ McpAdminNext
     \/ part = "channels" /\ ChannelAdminNext
     \/ part = "keys" /\ ApiKeysNext
     \/ part = "skills" /\ SkillNext
     \/ part = "notes" /\ NoteNext
     \/ part = "startup" /\ StartupNext
     \/ part = "token" /\ TokenNext
     \/ part = "sessions" /\ McpSessionsNext
     \/ part = "context" /\ RunContextNext
     \/ part = "calls" /\ ToolCallNext
     \/ part = "params" /\ ToolParamsNext
     \/ part = "events" /\ PlatformRunNext
  /\ UNCHANGED part
  /\ Keep({"tools"}, toolAdminVars) /\ Keep({"servers"}, mcpAdminVars)
  /\ Keep({"channels"}, channelAdminVars) /\ Keep({"keys"}, apiKeysVars)
  /\ Keep({"skills", "notes"}, catalogueVars) /\ Keep({"startup"}, startupVars)
  /\ Keep({"token"}, tokenVars) /\ Keep({"sessions"}, mcpSessionsVars)
  /\ Keep({"context"}, runContextVars) /\ Keep({"calls"}, toolCallVars)
  /\ Keep({"params"}, toolParamsVars) /\ Keep({"events"}, platformRunVars)

Spec == Init /\ [][Next]_platformVars
=============================================================================
