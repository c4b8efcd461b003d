------------------------------ MODULE ToolCall ------------------------------
(***************************************************************************)
(* The tool calls of one turn of an agent.  They run in parallel, and all  *)
(* calls of a tool share its Function object: the hooks of each set the    *)
(* flag on it by which Agno (external) tells, when all calls have ended,   *)
(* whether the run stops with their results or goes back to the model.     *)
(***************************************************************************)
EXTENDS Naturals, FiniteSets

CONSTANTS
  Call,         \* tool calls of the turn
  ScriptTool, ApiTool, KnowledgeTool,  \* the agent's tools
  StopTool,     \* tools with stop_after_tool_call in metadata_json
  MaxSteps,     \* actions of a script tool, in the order of their priorities
  NodeTool,     \* tools with active knowledge nodes
  NoTool

AnyTool == ScriptTool \cup ApiTool \cup KnowledgeTool

ASSUME ToolCallAssumption ==
  /\ MaxSteps \in Nat \ {0} /\ NoTool \notin AnyTool
  /\ StopTool \subseteq AnyTool /\ NodeTool \subseteq AnyTool

VARIABLES
  stopFlag,   \* tool -> stop_after_tool_call of its Function
  call,       \* call -> its tool, where it is, the action it is at, its result
  marked,     \* session_state has tool_execution_failed
  turn        \* "open", "stop" or "goon"

toolCallVars == <<stopFlag, call, marked, turn>>

(* What a tool's run, or the whole call, comes to: "failure" is a payload  *)
(* that says so, "text" one that says so as JSON text, "object" one held   *)
(* by an object, a model or a dict that JSON cannot hold, "opaque" the     *)
(* str() of that; "wrapped" is a text or an object below "tool_output".    *)
Returned == {"none", "clean", "failure", "text", "object"}
Result == Returned \cup {"opaque", "wrapped", "error"}
NoCall == [tool |-> NoTool, at |-> "away", action |-> 0, result |-> "none"]

ToolCallTypeOK ==
  /\ stopFlag \in [AnyTool -> BOOLEAN]
  /\ call \in [Call -> [tool : AnyTool \cup {NoTool},
                        at : {"away", "running", "answered", "ended"},
                        action : 0..(MaxSteps - 1), result : Result]]
  /\ marked \in BOOLEAN
  /\ turn \in {"open", "stop", "goon"}

ToolCallInit ==
  /\ stopFlag = [t \in AnyTool |-> t \in StopTool]
  /\ call = [c \in Call |-> NoCall]
  /\ marked = FALSE
  /\ turn = "open"

-----------------------------------------------------------------------------
(* extract_tool_failure_message on what a tool or an action returned       *)
Failure(result) == result \in {"failure", "text", "object"}

(* stringify_tool_result: what is no text, dict or list becomes its str(). *)
Stringified(result) == IF result = "object" THEN "opaque" ELSE result

(* _attach_knowledge_nodes, around the run of every action: payloads that  *)
(* _is_error_result knows stay as they are, but it does not look into a    *)
(* text, nor into an object that is no model.  If the nodes cannot be      *)
(* read, nothing is attached.                                              *)
Attached(t, result) ==
  {result} \cup (IF t \in NodeTool /\ result \in {"none", "text", "object"}
                THEN {IF result = "none" THEN "clean" ELSE "wrapped"} ELSE {})

Answer(c, result) ==
  call' = [call EXCEPT ![c].at = "answered", ![c].result = result]

(* pre_hook                                                                *)
StartCall(c) ==
  /\ turn = "open" /\ call[c].at = "away"
  /\ \E t \in AnyTool :
       /\ call' = [call EXCEPT ![c] = [NoCall EXCEPT !.tool = t, !.at = "running"]]
       /\ stopFlag' = [stopFlag EXCEPT ![t] = t \in StopTool]
  /\ UNCHANGED <<marked, turn>>

(* One action of a script tool: a failure ends the call, and the actions   *)
(* after it do not run.                                                    *)
RunAction(c) ==
  /\ call[c].at = "running" /\ call[c].tool \in ScriptTool
  /\ \E returned \in Returned :
     \E result \in Attached(call[c].tool, returned) :
       LET last == call[c].action + 1 = MaxSteps
           sofar == IF result = "none" THEN call[c].result
                    ELSE Stringified(result)
       IN /\ IF Failure(result) \/ last THEN Answer(c, sofar)
             ELSE call' = [call EXCEPT ![c].action = @ + 1, ![c].result = sofar]
          /\ marked' = (marked \/ Failure(result))
  /\ UNCHANGED <<stopFlag, turn>>

(* The constructor or run of an action raises: AgentRuntimeError.          *)
ActionRaises(c) ==
  /\ call[c].at = "running" /\ call[c].tool \in ScriptTool
  /\ Answer(c, "error")
  /\ UNCHANGED <<stopFlag, marked, turn>>

(* An API answers 2xx with any body, or an error is marked and raised.     *)
RequestApi(c) ==
  /\ call[c].at = "running" /\ call[c].tool \in ApiTool
  /\ \/ \E result \in {"clean", "text"} : Answer(c, result) /\ UNCHANGED marked
     \/ Answer(c, "error") /\ marked' = TRUE
  /\ UNCHANGED <<stopFlag, turn>>

ReadKnowledge(c) ==
  /\ call[c].at = "running" /\ call[c].tool \in KnowledgeTool
  /\ \E result \in {"clean", "error"} : Answer(c, result)
  /\ UNCHANGED <<stopFlag, marked, turn>>

(* post_hook; the mutant looks for an error alone                          *)
BadErrorOnly(result) == result = "error"
BadResult(result) == result = "error" \/ Failure(result)

EndCall(c) ==
  /\ call[c].at = "answered"
  /\ call' = [call EXCEPT ![c].at = "ended"]
  /\ stopFlag' = [stopFlag EXCEPT ![call[c].tool] =
       call[c].tool \in StopTool /\ ~BadResult(call[c].result)]
  /\ UNCHANGED <<marked, turn>>

Ended == {c \in Call : call[c].at = "ended"}

(* External: Agno reads the flags when all calls have ended.               *)
TurnEnds ==
  /\ turn = "open"
  /\ Ended # {} /\ \A c \in Call : call[c].at \in {"away", "ended"}
  /\ turn' = IF \E c \in Ended : stopFlag[call[c].tool] THEN "stop" ELSE "goon"
  /\ UNCHANGED <<stopFlag, call, marked>>

ToolCallNext ==
  \/ TurnEnds
  \/ \E c \in Call : \/ StartCall(c) \/ RunAction(c) \/ ActionRaises(c)
                     \/ RequestApi(c) \/ ReadKnowledge(c) \/ EndCall(c)

ToolCallSpec == ToolCallInit /\ [][ToolCallNext]_toolCallVars

-----------------------------------------------------------------------------
Succeeded(c) == call[c].result \in {"none", "clean"}
Disguised(c) == call[c].result \in {"wrapped", "opaque"}

(* A run never stops on failures alone that the post_hook can read, and    *)
(* stops if a tool that is to stop it has succeeded, unless a failed call  *)
(* of the same tool ends after it and takes the flag back.  Two kinds of   *)
(* failure pass for a success: one told in a text or an object that is     *)
(* wrapped with knowledge nodes, and one held by an object or a model,     *)
(* which is marked as a failure but returned as its str().                 *)
StopMeetsCalls ==
  /\ turn = "stop" => \E c \in Ended :
       call[c].tool \in StopTool /\ (Succeeded(c) \/ Disguised(c))
  /\ turn = "goon" => \A c \in Ended :
       call[c].tool \in StopTool /\ Succeeded(c) =>
         \E o \in Ended \ {c} :
           call[o].tool = call[c].tool /\ ~Succeeded(o) /\ ~Disguised(o)
=============================================================================
