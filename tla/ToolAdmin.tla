----------------------------- MODULE ToolAdmin -----------------------------
(***************************************************************************)
(* Administration of tools, actions and the bindings between them, one     *)
(* request at a time.  Every statement commits on its own: a request that  *)
(* fails leaves what it has done, and the worker goes on serving the rows  *)
(* of its last refresh.                                                    *)
(***************************************************************************)
EXTENDS Naturals, FiniteSets

CONSTANTS
  MaxTools, MaxActions, MaxBindings,  \* bounds: rows of each table
  ToolSlug, ActionSlug,
  Registered,  \* slugs of scripts in the registry; requests may name others
  Payloads,    \* what "actions" in a payload may come to, see Entry
  NoRow        \* no row with this id; no slug; no tool

ToolId == 1..MaxTools
ActionId == 1..MaxActions
BindingId == 1..MaxBindings

ToolRow == [slug : ToolSlug, active : BOOLEAN]
ActionRow == [slug : ActionSlug, active : BOOLEAN, of : ToolId \cup {NoRow}]
BindingRow == [tool : ToolId, action : ActionId, enabled : BOOLEAN]

(* An entry of "actions" in a payload: an action by id, or by slug.        *)
Entry == [id : ActionId, slug : {NoRow}, on : BOOLEAN]
           \cup [id : {NoRow}, slug : ActionSlug, on : BOOLEAN]

ASSUME ToolAdminAssumption ==
  /\ MaxTools \in Nat \ {0} /\ MaxActions \in Nat \ {0} /\ MaxBindings \in Nat
  /\ NoRow \notin ToolId \cup ActionId \cup BindingId \cup ToolSlug \cup ActionSlug
  /\ NoRow \notin ToolRow \cup ActionRow \cup BindingRow
  /\ Registered \subseteq ActionSlug /\ Registered # {}
  /\ Payloads \subseteq SUBSET Entry /\ \A es \in Payloads : IsFiniteSet(es)

VARIABLES
  tool,     \* tools: slug and is_active
  action,   \* tool_actions: slug, is_active and the legacy column tool_id
  binding,  \* tool_action_bindings: tool, action and is_enabled
  served,   \* the worker's snapshot was built after the last write
  step,     \* where the request is
  request   \* what the last request was about

toolAdminVars == <<tool, action, binding, served, step, request>>

(* Ids are given out in order (BIGSERIAL), and rows are never deleted.      *)
Rows(table) == {i \in DOMAIN table : table[i] # NoRow}
NewId(table, i) == i \in DOMAIN table /\ i = Cardinality(Rows(table)) + 1
ActiveTools == {t \in Rows(tool) : tool[t].active}
ActiveActions == {a \in Rows(action) : action[a].active}
Enabled(t) == {b \in Rows(binding) : binding[b].enabled /\ binding[b].tool = t}

(* tool: whose actions are replaced, or NoRow.  asked: all entries; left:  *)
(* those to come.  before: bindings enabled when the request began.  act,  *)
(* on: the action found for the entry being bound, and its is_enabled.     *)
RequestRow == [tool : ToolId \cup {NoRow}, asked : SUBSET Entry,
               left : SUBSET Entry, before : SUBSET BindingId,
               act : ActionId \cup {NoRow}, on : BOOLEAN]
NoRequest == [tool |-> NoRow, asked |-> {}, left |-> {}, before |-> {},
              act |-> NoRow, on |-> FALSE]

Steps == {"idle", "disable", "retire", "attach", "bind", "refresh", "ok"}

ToolAdminTypeOK ==
  /\ tool \in [ToolId -> ToolRow \cup {NoRow}]
  /\ action \in [ActionId -> ActionRow \cup {NoRow}]
  /\ binding \in [BindingId -> BindingRow \cup {NoRow}]
  /\ served \in BOOLEAN
  /\ step \in Steps
  /\ request \in RequestRow

(* An action of the time before bindings may name its tool itself.         *)
ToolAdminInit ==
  /\ tool = [t \in ToolId |-> NoRow]
  /\ \E legacy \in BOOLEAN :
       action = [a \in ActionId |->
                   IF legacy /\ a = 1
                   THEN [slug |-> CHOOSE s \in Registered : TRUE,
                         active |-> TRUE, of |-> 1]
                   ELSE NoRow]
  /\ binding = [b \in BindingId |-> NoRow]
  /\ served = TRUE
  /\ step = "idle"
  /\ request = NoRequest

-----------------------------------------------------------------------------
(* Requests.  A check that raises changes nothing and is no step.          *)

Ready == step \in {"idle", "ok"}
Put(table, i, row) == [table EXCEPT ![i] = row]

SlugFree(s, t) == \A o \in ActiveTools \ {t} : tool[o].slug # s

(* es: what resolve_tool_actions_payload returns, a list of entries that   *)
(* is empty for a tool that is no script.                                  *)
Replacing(t, es) ==
  /\ step' = "disable"
  /\ request' = [NoRequest EXCEPT !.tool = t, !.asked = es, !.left = es,
                                  !.before = Enabled(t)]

NotReplacing(next) == step' = next /\ request' = NoRequest

CreateTool ==
  /\ Ready
  /\ \E t \in ToolId, s \in ToolSlug, on \in BOOLEAN, es \in Payloads :
       /\ NewId(tool, t) /\ SlugFree(s, t)
       /\ tool' = Put(tool, t, [slug |-> s, active |-> on])
       /\ Replacing(t, es)
  /\ served' = FALSE
  /\ UNCHANGED <<action, binding>>

(* "actions" (or tool_type) absent from the payload: bindings stay.        *)
UpdateTool ==
  /\ Ready
  /\ \E t \in ActiveTools, s \in ToolSlug, on \in BOOLEAN :
       /\ SlugFree(s, t)
       /\ tool' = Put(tool, t, [slug |-> s, active |-> on])
       /\ \/ \E es \in Payloads : Replacing(t, es)
          \/ NotReplacing("refresh")
  /\ served' = FALSE
  /\ UNCHANGED <<action, binding>>

DeactivateTool ==
  /\ Ready
  /\ \E t \in ActiveTools : tool' = [tool EXCEPT ![t].active = FALSE]
  /\ NotReplacing("refresh")
  /\ served' = FALSE
  /\ UNCHANGED <<action, binding>>

CreateAction ==
  /\ Ready
  /\ \E a \in ActionId, s \in Registered, on \in BOOLEAN :
       /\ NewId(action, a)
       /\ \A o \in ActiveActions : action[o].slug # s
       /\ action' = Put(action, a, [slug |-> s, active |-> on, of |-> NoRow])
  /\ NotReplacing("refresh")
  /\ served' = FALSE
  /\ UNCHANGED <<tool, binding>>

(* The row is not looked up first: one that is inactive is updated, too.   *)
UpdateAction ==
  /\ Ready
  /\ \E a \in Rows(action), s \in ActionSlug, on \in BOOLEAN :
       /\ s # action[a].slug => \A o \in ActiveActions \ {a} : action[o].slug # s
       /\ action' = [action EXCEPT ![a].slug = s, ![a].active = on]
  /\ NotReplacing("refresh")
  /\ served' = FALSE
  /\ UNCHANGED <<tool, binding>>

DeactivateAction ==
  /\ Ready
  /\ \E a \in ActiveActions : action' = [action EXCEPT ![a].active = FALSE]
  /\ NotReplacing("refresh")
  /\ served' = FALSE
  /\ UNCHANGED <<tool, binding>>

NewBinding(t, a, on) == \E b \in BindingId :
  /\ NewId(binding, b)
  /\ binding' = Put(binding, b, [tool |-> t, action |-> a, enabled |-> on])

BindAction ==
  /\ Ready
  /\ \E t \in ActiveTools, a \in ActiveActions, on \in BOOLEAN :
       NewBinding(t, a, on)
  /\ NotReplacing("refresh")
  /\ served' = FALSE
  /\ UNCHANGED <<tool, action>>

UnbindAction ==
  /\ Ready
  /\ \E b \in Rows(binding) : binding' = [binding EXCEPT ![b].enabled = FALSE]
  /\ NotReplacing("refresh")
  /\ served' = FALSE
  /\ UNCHANGED <<tool, action>>

-----------------------------------------------------------------------------
(* _replace_tool_actions, statement by statement                           *)

(* Mutant: the old bindings are left alone.                                *)
DisableNone ==
  /\ step = "disable" /\ step' = "retire"
  /\ UNCHANGED <<tool, action, binding, served, request>>

DisableOld ==
  /\ step = "disable"
  /\ IF Enabled(request.tool) \cap request.before = {}
     THEN step' = "retire" /\ UNCHANGED binding
     ELSE /\ \E b \in Enabled(request.tool) \cap request.before :
               binding' = [binding EXCEPT ![b].enabled = FALSE]
          /\ UNCHANGED step
  /\ UNCHANGED <<tool, action, served, request>>

Legacy(t) == {a \in ActiveActions : action[a].of = t}

RetireLegacy ==
  /\ step = "retire"
  /\ IF Legacy(request.tool) = {}
     THEN step' = "attach" /\ UNCHANGED action
     ELSE /\ \E a \in Legacy(request.tool) :
               action' = [action EXCEPT ![a].active = FALSE]
          /\ UNCHANGED step
  /\ UNCHANGED <<tool, binding, served, request>>

Binding(e, a) ==
  /\ step' = "bind"
  /\ request' = [request EXCEPT !.left = @ \ {e}, !.act = a, !.on = e.on]

AttachById ==
  /\ step = "attach"
  /\ \E e \in request.left : e.id \in ActiveActions /\ Binding(e, e.id)
  /\ UNCHANGED <<tool, action, binding, served>>

(* An active action with the slug, or a new one.                           *)
AttachBySlug ==
  /\ step = "attach"
  /\ \E e \in request.left :
       /\ e.slug \in Registered
       /\ \/ \E a \in ActiveActions :
               action[a].slug = e.slug /\ Binding(e, a) /\ UNCHANGED action
          \/ /\ \A o \in ActiveActions : action[o].slug # e.slug
             /\ \E a \in ActionId :
                  /\ NewId(action, a)
                  /\ action' = Put(action, a, [slug |-> e.slug, active |-> e.on,
                                               of |-> NoRow])
                  /\ Binding(e, a)
  /\ UNCHANGED <<tool, binding, served>>

BindEntry ==
  /\ step = "bind" /\ step' = "attach"
  /\ NewBinding(request.tool, request.act, request.on)
  /\ served' = FALSE
  /\ UNCHANGED <<tool, action, request>>

(* An unknown action or slug, or a statement that fails: the rest of the   *)
(* request is not done, and neither is the refresh.                        *)
RequestFails ==
  /\ ~Ready
  /\ step' = "idle"
  /\ UNCHANGED <<tool, action, binding, served, request>>

AllAttached ==
  /\ step = "attach" /\ request.left = {}
  /\ step' = "refresh"
  /\ UNCHANGED <<tool, action, binding, served, request>>

Refresh ==
  /\ step = "refresh" /\ step' = "ok"
  /\ served' = TRUE
  /\ UNCHANGED <<tool, action, binding, request>>

ToolAdminNext ==
  \/ CreateTool \/ UpdateTool \/ DeactivateTool
  \/ CreateAction \/ UpdateAction \/ DeactivateAction
  \/ BindAction \/ UnbindAction
  \/ DisableOld \/ RetireLegacy \/ AttachById \/ AttachBySlug \/ BindEntry
  \/ AllAttached \/ RequestFails \/ Refresh

ToolAdminSpec == ToolAdminInit /\ [][ToolAdminNext]_toolAdminVars

-----------------------------------------------------------------------------
(* Properties                                                              *)

(* The bindings of the tool that the last request has made.                *)
NewBindings == Enabled(request.tool) \ request.before

Meets(b, e) ==
  \/ binding[b].action = e.id
  \/ action[binding[b].action].slug = e.slug

(* However far a replacement got, failed or not, a tool never runs old and *)
(* new actions together; one that succeeded left exactly the actions asked *)
(* for, and the worker serves them.                                        *)
ReplaceIsClean ==
  /\ NewBindings = {} \/ Enabled(request.tool) \cap request.before = {}
  /\ \A b \in NewBindings : \E e \in request.asked : e.on /\ Meets(b, e)
  /\ step = "ok" /\ request.tool # NoRow =>
       /\ Cardinality(Enabled(request.tool)) =
            Cardinality({e \in request.asked : e.on})
       /\ \A e \in request.asked : e.on => \E b \in NewBindings : Meets(b, e)
  /\ step = "ok" => served
=============================================================================
