# Verification of the agent platform

TLA+ models of the platform in `src/`: an administration API that keeps a graph of
agents in PostgreSQL, worker processes that serve runs of those agents from a cached
snapshot of the graph, and webhooks that let bots of chat providers talk to an agent.
TLC checks the models on small instances; TLAPS proves the central invariants for
every size.

Paths below are relative to the repository's own `src/` directory
(`src/services/...` of the repository), or to `basalam/backbone_orm` where it says ORM.

## 1. The system

### Components

| Component | State it keeps | Operations | What makes it correct |
|---|---|---|---|
| **Platform cache** `services/platform/graph/platform_cache_manager.py`, `graph_snapshot.py` | per worker process: `_snapshot`, `_cache_loaded`, `_rebuild_lock` | `load`, `refresh`, the table-by-table build, the publish, the index methods | a handler whose refresh has returned sees its own writes; a worker never goes back to older rows; nobody hangs on the locks |
| **Tools cache** `.../admin/tools/tool_cache_service.py` | per worker: rows, expiry, lock | `list_tools` (double-checked, TTL), `invalidate` | a rebuild never publishes tools older than the write that asked for it |
| **Graph validation** `.../graph/graph_validation_service.py` | none; two iterative searches over one snapshot | `validate_no_cycle_from`, `validate_existing_graph` | the verdict is "does the edge close a cycle", "is the snapshot acyclic"; both end on every graph |
| **Edge administration** `.../admin/nodes/edge_admin_service.py` | rows of `agent_node_edges` | `create_edge`, `deactivate_edge` | the active graph has no cycle |
| **Node administration** `.../admin/nodes/node_admin_service.py` | rows of `agent_nodes`, and what hangs on a node | `create_node`, `update_node`, `deactivate_node` with its cascade | active slugs are unique; a deactivated node keeps no edge and no channel |
| **Tool administration** `.../admin/tools/` | tools, tool actions, their bindings | create, update (replacing action bindings), deactivate, bind, unbind | an update that fails half-way never mixes old and new actions |
| **Tool knowledge nodes** `.../admin/tools/tool_knowledge_node_admin.py` | `tool_knowledge_nodes`, by slug of a tool | create, update, deactivate | a call is given what was written for its tool |
| **Tool test service** `.../admin/tools/tool_test_service.py` | none | run a tool for an administrator | a test calls the actions as a run does |
| **MCP and skill administration**, **discovery** `.../admin/mcp/` | servers, skill packages, bindings, servers found on disk | create, update (transports), deactivate, bind, sync with the disk | a row can be connected to; the disk and the table agree after a sync |
| **Channel administration** `.../channels/channel_admin_service.py` | `agent_channels`, and the webhook registered at the provider | create, update, verify, rotate secret, set and delete webhook, deactivate | a webhook that was set delivers what the channel accepts |
| **Channel webhooks** `.../channels/channel_webhook_service.py`, `api/routes/v1/public/channel_routes.py` | `agent_channel_updates.status`, background tasks | `accept` (claim by `INSERT ... ON CONFLICT DO NOTHING`), `process` | an update is processed at most once; a completed row was answered; an acknowledged update is on record |
| **Repositories and ORM** ORM `__init__.py`, `database/repositories/` | none | one autocommitted statement per call | filters see active rows; `None` in an update is left out of the statement |
| **Connection pool** ORM `postgres_manager.py`, `setup/dbs/postgres/`, `setup/request_context.py`, `api/middlewares.py` | connections by request key, broken pools | acquire, release, evict, isolate | every connection is released once; no two requests share one |
| **Agent runs** `.../runtime/execution/`, `.../runtime/orchestration/`, `.../runtime/nodes/`, `node_registry_service.py` | per run: the snapshot, the path of active nodes, the depth | load, validate, resolve, build, run, delegate to a child | a run ends; it never enters a node that is already on its path; it uses nodes that its snapshot has |
| **Dynamic tools** `.../runtime/tools/` | per agent: function objects, hooks | resolve parameters, run actions in order, report failures, stop after a call | parallel calls of a tool do not decide for each other; values reach the actions |
| **MCP bindings** `.../runtime/mcp/` | sessions per run | start, look up, close | one process per run and server, and none left over |
| **Agno adapter** `.../runtime/agno/` | state of tracing, database handles; the session state of a run | `ensure_tracing`, `get_db`, build the session state and read it back | one exporter per process; everybody reads the same identifiers |
| **Agent API keys** `.../auth/`, `.../admin/api_keys/` | keys, prefixes, hashes, expiry | issue, revoke, authenticate, authorise for a node | a run is of the node of its key |
| **Event bus** `.../runtime/observability/` | subscribers, tasks of coroutines | publish | every run that started is reported once as started and once as ended |
| **Set-up, tool registry** `setup/bootstrap.py`, `tools/registry.py` | registry, what the process has set up | import tool modules, boot, fail fast or go on | the worker serves with what it says it has |
| **External services' clients** `setup/sdks/` | the token of a client | fetch a token, call, retry | a token is fetched once however many need it |
| **Queries, HTTP layer, templating, configuration** | none that lasts, or set up once | substitute, read, reshape | (not protocols) |

### How they interact

* An admin handler writes rows one autocommitted statement at a time, and then calls
  `PlatformCacheManager.refresh()` of its own worker. There is no transaction around
  the statements and no message to other workers.
* `refresh()` holds the rebuild lock for the whole build, drops the tools cache
  (second lock), reads the tables one after another and publishes by one assignment.
  `load()` builds only if the worker has nothing yet.
* `create_edge` asks `GraphValidationService` about the snapshot, not about the tables;
  agent runs validate and resolve on the snapshot as well.
* A webhook route answers the provider after the claim; the same worker then processes
  the update in a background task, in which the agent runs over the snapshot and the
  result goes out part by part through the provider's API.
* Every statement asks `main_postgres()` for a connection. A request keeps the first it gets, under
  its own key, until the middleware has sent the last byte; background processing has a key of its own.

### What is hard

Interleavings of handlers of one worker at every `await`, and of workers at every
statement; writes that commit and refreshes that then fail; a lock taken under another
lock; cascades cut short; updates delivered again while or after they are processed;
workers that die between the claim and the settling; a pool created twice, and connections that
break while a request keeps them; searches over graphs with
diamonds, parallel edges or cycles; requests that fail between two statements; partial payloads that
lead over many requests to rows nobody meant; what a provider or the disk holds drifting from the
rows; parallel calls that share one object; a process or a lock used by calls that started before it
was there. Each of these, at its line, is an entry of
`hazards` in `PROJECT.json`, with the properties that cover it.

## 2. The modules

```
MonotoneView  <-refines-  GraphCache  <-- MCGraphCache, GraphCacheProofs

GraphTheory <-- GraphSnapshot <-- CycleSearch, GraphColoring <-- GraphValidation
                                    <-- MCGraphValidation, GraphValidationProofs
GraphTheory <-- GraphAdmin <-- MCGraphAdmin, GraphAdminProofs
GraphTheory <-- AgentRun   <-- MCAgentRun, AgentRunProofs
GraphTheoryProofs <-- GraphValidationProofs, GraphAdminProofs, AgentRunProofs

ChannelReply  <-refines-  ChannelWebhook  <-- MCChannelWebhook, ChannelWebhookProofs

ConnectionPool <-- MCConnectionPool, ConnectionPoolProofs

ToolAdmin, McpAdmin, ChannelAdmin, ApiKeys, Catalogue      (administration)
Startup, TokenProvider                                     (a process)      <-- Platform <-- MCPlatform,
McpSessions, RunContext, ToolCall, ToolParams, PlatformRun (a run)                           PlatformProofs
```

The models meet at what they prove of each other: GraphAdmin uses of the search, and
AgentRun of the validation, only the verdict that GraphValidation shows to be right;
GraphAdmin's and AgentRun's publish is the one step `Publish` of GraphCache; the
run that ChannelWebhook starts is the run of AgentRun. Every statement of the other models runs on a
connection that ConnectionPool hands out; one that raises there is one that may raise in them. ToolCall refines the calls that AgentRun leaves
out of a `Turn`; PlatformRun is what others hear of AgentRun's runs.

### GraphCache, MonotoneView

`PlatformCacheManager` and `ToolCacheService` in every worker over one database. A table
is the number of writes committed to it, so a snapshot maps each table to the version it
was read at; that is all that "stale" and "current" need. What the rows are is the
business of GraphAdmin.

| Code | Model |
|---|---|
| an admin service's statement, and its decision to write more or to refresh | `AdminWrite(t, k, next)`, `AdminAbort` |
| `load()`: the check outside, the lock, the check inside | `LoadCall`, `LoadSkip`, `LoadBegin` |
| `refresh()`: lock, `invalidate_tools_cache()`, maybe waiting for the tool lock | `RefreshBegin`, `RefreshBlocked`, `InvalidateTools` |
| one `await` of `_fetch_raw_data` | `FetchTable`, or for the tools `ToolsCached`, `ToolsQueue`/`ToolsLock`, `ToolsFilled`, `ToolsAnswer`, `ToolsStore` |
| the publish in `_build_cache`; the return to the handler | `Publish`, `Respond` |
| a query that raises, inside or outside the tools cache | `BuildFails`, `ToolsFail`, `ListFails` |
| `list_tools()` for a listing of the API | `ListTools`, `ListFilled`, `ListStore` |
| the TTL; a worker replaced by gunicorn | `ToolsExpire`, `WorkerRestart` |

`goal`, `local` and `lapsed` are history variables: what a handler has written, what was
written through a worker, and whether a refresh that was owed got lost. `MonotoneView` is
the abstract promise: per worker, an unloaded view or a map of versions that only grows.

### GraphTheory, GraphSnapshot, CycleSearch, GraphColoring, GraphValidation

`GraphTheory` defines reachability by closed sets and acyclicity by sinks, without
recursion, so that provers can use it; `GraphSnapshot` says what a snapshot is and what its edges
are (`EdgesOf`). `CycleSearch` is `validate_no_cycle_from`, one action per turn of its loops (pop, push
a child, skip a child). `GraphColoring` is `validate_existing_graph` with its colours and its
stack of iterators; the outer loop takes the nodes in any order. `Graphs` is the set of
snapshots a run starts from. `GraphValidation` puts them in sequence: the search answers for a
new edge; if it accepts, the edge is inserted at any place among its parent's children (they are
sorted by priority) and the next run of an agent validates the new snapshot.

### GraphAdmin

The statements of the node, edge, binding and channel operations over the tables'
contents, with the cache of GraphCache reduced to nodes and edges, and the search of
CycleSearch replaced by what is proved of it (`ClosesCycle`). One program point per
`await`; `Begin` reads the row an operation starts from, and `Return` is the answer or
the error.

| Code | Model |
|---|---|
| `create_edge` | `FindParent`, `FindChild`/`NoChild`, `LoadCall` and `Load...`, `ValidateEdge`/`RejectEdge`, `InsertEdge`, refresh |
| `deactivate_edge` | `FindEdge`, `DropEdge`, refresh |
| `create_node`, `update_node` | `CheckSlug`, `InsertNode`; `FindForUpdate`, `SlugFree`/`SlugTaken`, `WriteNode`; refresh |
| `deactivate_node` | `FindForDeactivation`, `EdgesAsParent`, `EdgesAsChild`, `CascadeEdge`, `EdgesDone`, then for each table `ListRows`, `CascadeBinding`/`CascadeChannel`, `RowsDone`, at the end `DeactivateNode`; refresh |
| bindings made and removed | `FindForBind`, `InsertRow`, `FindBinding`, `DropRow`, refresh |
| channels: `create`, `update` (PATCH) and `deactivate`, as far as `is_enabled` goes; none of them rebuilds the cache | `FindForChannel`, `InsertChannel`; `FindChannel`, `WriteChannel` |
| `refresh`, `load`, `_filter_edges` | `RefreshNodes/Edges/Publish`, `LoadSkip/Nodes/Edges/Publish`, `Filtered` |
| a statement that raises; a worker that dies | `Fail`, `WorkerRestart`, both only if `CanFail` |

`rows` are the enabled bindings and channels, `disabled` the channels that an update can enable again.
`ChannelAdminService.update` finds a channel by its id and does not look at its node
(`channel_admin_service.py:174`): it enables a channel of a deactivated node as well. `reenabled` is the
history of such channels, and `patched` that of nodes which `update_node` made inactive.

### ChannelWebhook, ChannelReply

Deliveries of one channel's updates to handlers of several workers. `Claim`/`ClaimLost`/
`ClaimFails` are the INSERT, `Respond` the 200 (which the provider sees or not), and from
`Begin` on the background task: silence, a notice, or a run of the agent whose answer is
sent part by part, with the UPDATE that settles the row and what follows when that UPDATE
raises in each `try`. A call that raises may have had its effect. `content` is what an update
holds (text, photo, no message), chosen among `Inputs`; `dropped` records the updates whose handler
died or could not write the row's last status. `ChannelReply` is what the chat may see of one
update: at most one run, its parts, at most one error message with nothing after it, or at most
one notice.

### AgentRun

One run of an agent. `agents` holds the agents that run at the moment, each at the path of
calls that leads to it (the entry agent at the empty path; call 2 of the agent at `i` runs the
agent at `Append(i, 2)`), with the depth and the path of nodes it was given, the children its
snapshot gave it and its calls so far.

| Code | Model |
|---|---|
| `_prepare`: load, validate, resolve, build, with no suspension in between once the cache is loaded | `Start`, `Refuse`, `NotFound` |
| an answer of the model that asks for calls; Agno runs them concurrently and awaits them all | `Turn`, `Waits` |
| `_ChildNodeEntrypoint.__call__`: fresh look-up, then the guards of `build_runtime` | `ChildMissing`, `ChildTooDeep`, `ChildOnPath`, `ChildBuilt` |
| the exception that Agno turns into the call's result | `Raise` |
| the child's content becomes the call's result, whatever its status; the entry agent's status decides the run (`_ensure_successful_run`) | `ChildEnds`, `RunEnds` |
| `refresh()` for another request of the worker | `Publish` |

Agno is outside of the repository; what is modelled of it is how `src/` uses it: it awaits the
calls of one answer, an exception of a call becomes its result, and `tool_call_limit` bounds the
calls of an agent. Calls that start no agent (tools, MCP servers, skills) are left out.
`replaced` is a history variable: the snapshot has changed since the run's validation.

### ConnectionPool

The connections of one worker. A connection is a place of an asyncpg pool (external: it hands out
free places, takes back its own and refuses those of another pool); `acquires` is the map of
`_PoolDriver`, keyed by request. `Of` gives each task its request, so that one request may have several
concurrent tool calls.

| Code | Model |
|---|---|
| `main_postgres()`: a usable entry, none, or a broken one | `Reuse`, `Miss`, `Evict` |
| `_pool()` and `acquire()` after their awaits; either raising | `Create`, `Acquire`, `Fail` |
| a statement; a connection that the server closes | `Done`, `Break` |
| the middleware and `process_isolated`, around a request | `Start`, `End` |
| `release()` of what `End` has popped, accepted or refused | `Return` |

`main_release_postgres` evicts when a release raises; since the entry has been popped by then, there is
nothing to do, and `Return` has no step for it. asyncpg shields a release from cancellation.
`_SingleDriver` (start-up and tests, one statement at a time) is left out.

### Platform and its parts

Twelve modules for the rest of the administration, for what a process sets up, and for what happens
inside a run. They share no state with each other, so `Platform` lets a behaviour exercise one
of them, named by `part`, and leaves the others alone; a property of one part holds of all parts
running together exactly if it holds of the part. That a behaviour of Platform is one of every
part is `ImplementsParts`. (Where parts meet in the code, the meeting is
inside one module: ToolAdmin's tools are in Catalogue as slug and `is_active`, which is all that
knowledge nodes look at.)

| Module | Code | Property |
|---|---|---|
| ToolAdmin | `tool_admin.py`, `tool_actions_resolver.py`: one request at a time; `_replace_tool_actions` statement by statement (`DisableOld`, `RetireLegacy`, `AttachById`, `AttachBySlug`, `BindEntry`), any of which may fail (`RequestFails`) | `ReplaceIsClean`: a tool never has enabled bindings of its old and its new actions at once; after a success exactly those asked for, and the worker serves them |
| McpAdmin | `mcp_server_admin.py`, `mcp_payload_validator.py`, `local_mcp_discovery.py`: partial payloads over rows from whose UPDATE `None` is left out (`Persist`); the sync's reads and statements one by one while the disk changes | `RowsRunnable`: a row of a transport has what the transport needs. `SyncMatchesDisk`: after a sync that ends, every directory has a server that runs what it holds, unless it had none and its slug is another's, no server is of a directory that is gone, and the snapshot has the changes |
| ChannelAdmin | `channel_admin_service.py`: handlers interleave between the read, the provider's answer and the write; a call may act although it raised; the UPDATE of `deactivate_node`'s cascade (`BeginCascade`) | `ConfirmedHookWorks`: a webhook whose setting succeeded, with no other request on its channel or with its token under way, is delivered and accepted until a request on its channel, or the deactivation of its node, begins |
| ApiKeys | `agent_api_key_auth_service.py`, the admin service, `api/dependencies/auth.py`, `NodeRegistryService.resolve`: authenticate, authorise on the database, resolve on the worker's snapshot | `KeyAuthority`: the run is of the key's node, unless a slug has changed hands |
| Catalogue | `skill_package_admin.py`, `skill_loader_service.py`, `tool_knowledge_node_admin.py` | `SlugsMeanOne`: no two active skills with a slug, unless one was revived without naming it; offered skills have their directory; knowledge reaches the tool it was written for |
| Startup | `setup/bootstrap.py`, `tools/registry.py`, `agno_runtime.py`: import of tool modules, boot steps that fail or are let pass, then callers of `ensure_tracing` around its lock | `TracedOnce`: one exporter, and everybody is told the truth about it |
| TokenProvider | `numberland_sdk.py`, `base_sdk.py`: the cached token, the lock, the check before and inside it, the retry | `NoNeedlessFetch`: no fetch while a token is good, nor two at once |
| McpSessions | `mcp_binding_factory.py`: tools of a binding, and calls that look for the run's session, start a process, do its handshake and register it; Agno's closing of sessions is external | `OneServerPerRun`: at most one process at a time, none after the run, unless two calls started at once or a handshake failed (`disturbed`) |
| RunContext | `runtime_context.py`, `base_tool.py`: one identifier under all its keys, from a caller's context to headers, environment, MCP arguments and Python tools | `ReadersAgree`: all read what the request meant, also when the state is built again; for a session, MCP servers read the one Agno runs in |
| ToolCall | `dynamic_*_tool_builder.py`, the hooks of `dynamic_tool_helpers.py`, `tool_failure_handling.py`: parallel calls, actions in order, failures as payload, as text, in an object or raised, and the flag they share | `StopMeetsCalls`: a turn never stops on failures alone that the post-hook can read; it stops on a success, unless a failed call of the same tool took it back |
| ToolParams | `parameter_resolver.py`, `dynamic_tool_helpers.py`, `tool_test_service.py`: pure functions | `ActionsGetTheirValues`: given values arrive (`ValuesArrive`), and the test of a tool calls actions as a run does (`TestMirrorsRun`) |
| PlatformRun | `platform_run_service.py`, `event_bus.py`: the events around a run, handlers that raise (`Order` is the order of the subscriptions), coroutines as tasks of which each subscriber's begin in their order | `EventsPaired`: each subscriber hears once of the start and once of the end |

`current`, `served`, `sure`, `revived`, `everHad`, `of` of a note, `disturbed` and `holders` are history
variables: what a snapshot has, what was done undisturbed, who has ever had a name.

The conditions in these properties are what the code leaves open:

* `disturbed`: `get_session_for_run` takes no lock, so two first calls of a run start two processes
  and the first is never closed; nor is one whose `initialize` raises (`mcp_binding_factory.py:129-156`).
* A failed call of a tool takes back the `stop_after_tool_call` that a parallel, successful one has set,
  and a failure that a script tells as text is wrapped with knowledge nodes before it is
  looked at, and passes for a success (`dynamic_tool_helpers.py:417`, `base_tool.py:178`).
* A failure held by a model or another object is recognised and marked, but returned as its `str()`
  (`tool_failure_handling.py:95`), in which the post-hook does not find it again, although
  `dynamic_script_tool_builder.py:236-239` counts on that: a stopping tool stops with it.
* A `set_webhook` that another request on its channel overlaps may leave the provider and the row apart;
  `alone` in the handler's record says that none does, and none with its token either.
* A run without a session gets one from Agno. `run_context.session_id` is then set
  (`mcp_binding_factory.py:187`, `:269`, `:287`), so MCP servers have it in headers, environment and arguments
  where other tools have the session of the caller's context, if that has one. An explicit `""`
  keeps the context from being asked (`runtime_context.py:217`, `:243`). That Agno hands the session state on
  as it was given is an assumption of the model.
* A task that is cancelled while it awaits the tracing tables leaves `in_progress` with the exporter
  installed, and the next one installs another (`agno_runtime.py:231-260`). Cancellation there is not modelled.
* An inactive skill is made active again without a check of its slug (`skill_package_admin.py:36`).
* Knowledge belongs to a slug: whichever tool takes it next is given it.
* `sync_local_mcp_servers` creates before it retires, so that a renamed directory gets its server
  only with the next sync; and one that finds nothing to change does not refresh, although an earlier one may
  have failed after its statements.
* `update_mcp_server` announces that the columns of the other transport are cleared
  (`mcp_server_admin.py:51-53`, `:64-67`), but `None` is left out of the UPDATE. The row stays valid.
* `delete_webhook`, `rotate_webhook_secret` and `deactivate` do not clear `webhook_url`, for the same reason.
* A run that is cancelled is reported as a success: `CancelledError` is no `Exception`
  (`platform_run_service.py:83`).
* The test of a tool neither takes `id` or a number for an identifier nor keeps blank values, and
  goes on after an action that failed, where a run stops.
* `build_runtime_session_state` and `build_mcp_runtime_arguments` keep more aliases than their
  docstrings say (`runtime_context.py:45-48`, `:178-180`); an explicit identifier that is no good leaves
  the context's keys as they are.
* In `src/` nothing calls `sync_local_mcp_servers`, the client that uses the token provider,
  `register_default_subscribers`, `create_action_only_tool` or `to_session_state_adapter`, and nothing reads
  `tool_execution_failed`; they are modelled, where they are, for what they promise to callers.

## 3. The runs

Definitions that a comment calls a *mutant* are plausible bugs of the definition after
them (a dropped guard, a forgotten reset, an off-by-one). No specification uses them;
replacing the definition by its mutant makes TLC find the property violated, which shows
that the property depends on that piece of code.

| Run | Instance | Shows |
|---|---|---|
| `cache` | 2 interchangeable handlers of one worker, 3 tables with the tools in the middle, one write per table; failures, TTL, restarts; `FairSpec` | `ReadYourWrites`, `QuietWorkerCurrent`; `ServesMonotoneView`: refinement of `MonotoneView`; `RefreshEnds`: no deadlock or starvation on the two locks |
| `graph_validation` | every graph of 3 nodes with up to 2 edges out of each, cyclic ones included, every new edge, every place it may be inserted | `VerdictCorrect`: an edge is rejected exactly if it would be on a cycle; `OutcomeCorrect`: a snapshot is refused exactly if it has one; `SearchesEnd` |
| `admin_serial` | one handler, 3 nodes, 3 slugs, 3 edges, no failures | `VisibleAcyclic`, `UniqueSlugs` |
| `admin_failures` | one handler, 2 nodes (one to be created), 2 edges, one binding or channel; failures and restarts anywhere | `Detached`: a deactivated node has no edge, and no enabled channel but a re-enabled one; `PublishesDatabase`: what a request publishes before it answers is the database, whatever was lost before |
| `admin_concurrent` | 2 handlers of one worker, 2 nodes, one edge | `CacheMatchesDatabase` |
| `admin_race` | 2 handlers of one worker, 2 nodes, 2 edges | `VisibleAcyclic` **violated**, see below |
| `admin_bindings` | one handler, one attachment | `BindingsDetached` **violated**, see below |
| `webhook` | 2 handlers in 2 workers; one update with a text, one with any content; answers of up to 2 parts; failures, deaths and restarts; `FairSpec` | `AtMostOnce` (refinement of `ChannelReply`), `CompletedIsAnswered`, `AckedIsClaimed`; `ClaimedIsSettled`: a claimed update is settled in the end, unless it was `dropped` |
| `agent_run` | 4 nodes; snapshots with a chain deeper than `MaxDepth` = 2, with cycles, and without some nodes, published in any order; 2 calls of the first node's agent, one of each other; `FairSpec` | `NoReentry`, `RefusedMeansReplaced`; `DepthIsPath`: the limit counts the nodes that wait for each other, and cuts nothing shorter; `EveryRunEnds`, even if publishing goes on for ever |
| `pool` | 3 requests of one task, a pool of one place, which may be created three times; connections break at any time; `FairSpec` | `OneRequestPerConnection`, `CurrentPoolKeepsAll`; `WaitIsServed`: without any timeout, whoever waits at the pool in use gets a connection |
| `pool_race` | 2 requests of one task | `NothingLost` **violated**, see below |
| `platform` | each part of Platform from all its initial states, see the bounds below | one property for each module: the table in section 2 |

**Bounds.** `MaxWrites` = 1: what matters is whether a read was before or after *the*
write; one write for each of two handlers' tables gives every order of two writes and a
read on different tables. Three tables give one before, one after and the tools
themselves. Two handlers give a writer with another builder or a listing. The theorems of
GraphCache hold for any number of handlers, workers and tables. Three nodes with two edges out of each contain
self-loops, parallel edges, two- and three-node cycles and diamonds' merging ends (two
paths to one node). `MaxEdges` and `MaxRows` bound rows ever created; deactivated ids are
not reused. Two updates and two parts let a handler fail between parts and two handlers
hold different updates. In `agent_run` the chain of four nodes exceeds the depth, one cycle returns
to the first node and one is a node's edge to itself, and two concurrent calls let agents be built
from different snapshots; `CallLimit` is the code's own limit. The proofs remove all of these bounds
for the safety properties listed in section 4.

In `pool`, three
requests make one hold, one wait and one create another pool; a pool can be created at most as
often as there are tasks, so `MaxPools` cuts nothing off.

In `platform`, two of a kind are what a conflict needs (tools' actions, servers, channels and bot
tokens, agents and their names, skills, notes and tools, directories of one slug), and three calls let one
finish, one wait and one begin (token, MCP session, tool calls). `MaxBindings` = 3 gives an old binding and
two new ones; `MaxSecrets` = 2 one rotation. `MaxRetries` is the code's own limit, `MaxLife` = 2 distinguishes a
token that may be used once more from a fresh one. `MaxProcesses` = 3 gives every caller one. Payloads of tools and servers
(`ActionLists`, `McpPayloads`) hold each form the validators tell apart: by id, by slug, unknown,
disabled; either transport with and without what it needs, blank values, markers of the
discovery and directories outside of the root. A context has the four keys of an identifier with
two good values, a bad one or none, an explicit value may also be `""` (`Empty`), and `Fresh` is a session
that Agno has made up; ToolParams an identifier in both spellings, its number, `id` and another
parameter, for two actions with or without `constructor_params`.

**Deadlock** is not checked, except in the runs of ConnectionPool: elsewhere, a system in which nobody starts a request may stop, the
searches end, bounds stop the writers, and the parts of `platform` come to the end of a run, a start or
their bounds. That nobody waits for ever on a lock is
`RefreshEnds`.

**Fairness.** GraphCache: the event loop resumes every handler, and a query answers or
times out, so `Proceed` is weakly fair; `asyncio.Lock` wakes waiters in order, so taking a
lock (`Enter`, `TakeToolLock`) is strongly fair. No handler must start a request, abort,
or fail. The searches are synchronous loops, `WF(Next)`. ChannelWebhook: each handler's
next step is weakly fair; calls of the provider and of the agent return or time out, with
whatever outcome. AgentRun: `Proceed` is weakly fair, since models and calls return or time out;
requests and publishing are not forced, and publishing is not bounded. ConnectionPool: statements
and releases are weakly fair; a request runs finitely many statements, hence strong fairness for
`End`; an asyncpg pool serves those who wait in order, hence strong fairness for `Acquire`. Timeouts
(`Fail`) are possible and not forced. Platform states no fairness and checks safety only.

**Why two properties come with conditions.** Without failures and with one admin request at a
time (`admin_serial`) the graph is acyclic. Both conditions are needed. Two requests:
`admin_race`. A failure: an insert commits, its refresh raises, and the next request is
checked against a snapshot without the new edge. The next request
of the worker that publishes ends that window: `PublishesDatabase`. `Detached` needs one request at a time (an
edge created during the cascade stays) but no absence of failures, because
the cascade deactivates the node last and can be repeated until then. A node made inactive by
a PATCH of `is_active` (`patched`) keeps everything: that operation has no cascade. A channel that a PATCH
enables on a deactivated node (`reenabled`) stays enabled; `Detached` says that this is the only way to get one.
`CacheMatchesDatabase` speaks of one worker; another worker's snapshot
is as old as its last rebuild (`QuietWorkerCurrent` states what does hold for every worker).

### Findings

* **`admin_race`** — `graph_validation_service.py:18` promises to "Reject self-loops and any
  edge whose addition would close a cycle". The check reads the worker's snapshot, and
  nothing is held between the check and the insert with its refresh
  (`edge_admin_service.py:23`). Two requests for opposite edges, the second checked before
  the first one's publish, are both accepted. From then on
  `validate_existing_graph` refuses every run.
* **`admin_bindings`** — `deactivate_node` sets `is_active = False` on the bindings it goes
  over (`node_admin_service.py:60-67`), but the bindings are filtered by `is_enabled` and
  nothing reads `is_active`: they stay enabled. While the node is inactive the rebuild hides
  them.

* **`pool_race`** — `_pool()` looks whether there is a pool before it awaits `create_pool`
  (`postgres_manager.py:58` of the ORM), so the first requests of a process create one each and the last
  replaces the others. A connection of a replaced pool is refused when it is released;
  `main_release_postgres` announces "force-evicting entry" (`setup/dbs/postgres/main.py:203`), but `release()`
  has popped the entry already, and the connection stays open. `process_isolated` says
  that it will "explicitly release every connection it acquires" (`channel_webhook_service.py:39`).
  `CurrentPoolKeepsAll` shows that this is the only loss where requests have one task. Concurrent
  tool calls of one request that both find no entry (`postgres_manager.py:77`) lose one as well.

## 4. The proofs

`tlapm` checks every proof; nothing is assumed except the named `ASSUME`s on constants and,
where a theorem says so, `Serial` (one handler, or one task per request), `OneWorkerOnly` or `~CanFail`.

| Module | Theorems | Argument |
|---|---|---|
| GraphCacheProofs | `TypeCorrect`, `ReadYourWritesHolds`, `QuietWorkerCurrentHolds`, `CacheImplementsView` | see below |
| GraphTheoryProofs | lemmas: reachability is reflexive and closed under edges; adding `p -> c` keeps acyclicity if `p` is outside a closed set with `c`; a path back to the start of an edge is a cycle | instantiate the quantified set |
| GraphValidationProofs | `TypeCorrect`, `VerdictIsCorrect` about the search; `ColoringTypeCorrect`, `ColoringIsCorrect` about the validation; `OutcomeIsCorrect`, `RunsStayPossibleHolds` about the sequence | `SeenInv`: all that is seen descends from the child, and the children of a visited node are seen, but for those still to push. When the stack is empty, `visited` is a closed set with the child and without the parent. `PathInv`: gray nodes are the stack, each once, each reaching those above it. `BlackInv`: black nodes have black children only and are acyclic among themselves. `DoneInv`: nodes the outer loop has passed are not white. `RunInv` carries them over the insertion |
| GraphAdminProofs | `TypeCorrect` (any interleaving, failures); `SlugsAreUnique`, `DetachedHolds`, `PublishesDatabaseHolds` (`Serial`); `GraphIsAcyclic` (`Serial`, `~CanFail`); `CacheMatchesDatabaseHolds` (any number of handlers; `OneWorkerOnly`, `~CanFail`) | `SlugInv`, `GraphInv`: what a handler has checked is still so when it writes; a build has read the database as it is; a clean handler's loaded snapshot is the visible graph. `DetachInv`: each loop of a deactivation has listed all that is left, and who attaches something does so to an active node, but for an update of a channel, which makes it `reenabled`. `PublishInv`: what a build has read is still in the database. `CacheInv`: while nobody is `Pending` (has written and is yet to rebuild) the snapshot is the database, or the build in progress has read the database; the last to stop being pending takes the lock and reads everything |
| ChannelWebhookProofs | `TypeCorrect`, `CompletedIsAnsweredHolds`, `AckedIsClaimedHolds`, `ProcessingIsOwnedHolds`, `ProcessedAtMostOnce` | `OwnerInv`: from the claim on, one handler owns an update and its row is "processing" ("failed" while it tells). `RepeatInv`: who lost a claim lost it to a row. `ProgressInv`: how far the owner has come, in terms of what the chat has seen |
| AgentRunProofs | `TypeCorrect`, `AwaitedHolds`, `NoReentryHolds`, `DepthIsPathHolds`, `RefusedMeansReplacedHolds` | `TreeInv`: the agents are closed under callers, and an agent is there exactly while its call waits. `PathInv`: its path is the set of its callers' nodes, without its own, and as large as its depth. `CutInv`: calls refused as too deep are of agents at the limit. `FreshInv`: while the snapshot is the validated one, every node on a path reaches the agent's node in an acyclic graph, so that an edge back would be a cycle. Nothing is assumed of the graphs that are published, but that their edges join their nodes |
| ConnectionPoolProofs | `TypeCorrect`, `OneRequestPerConnectionHolds` (any tasks per request); `CurrentPoolKeepsAllHolds`, `NoHoldAndWaitHolds` (`Serial`: one task each) | `HoldInv`: what a request has is checked out, entries exist while it runs, and a request at rest uses nothing; so whatever leaves `out` has one owner, who lets go of it in the same step. `PoolInv`: connections are of pools that exist, so a new pool has none |
| PlatformProofs | `ImplementsParts`; `TypeCorrect`; for each part its property: `ReplaceIsCleanHolds`, `RowsRunnableHolds`, `SyncMatchesDiskHolds`, `ConfirmedHookWorksHolds`, `KeyAuthorityHolds`, `SlugsMeanOneHolds`, `TracedOnceHolds`, `NoNeedlessFetchHolds`, `OneServerPerRunHolds`, `ReadersAgreeHolds`, `StopMeetsCallsHolds`, `ActionsGetTheirValuesHolds`, `EventsPairedHolds` | see below |

**The parts of Platform.** Every step of Platform is a step or a stutter of each part (`PartsMove`), so
a part's inductive invariant is proved for the part's own next-state relation and carried over:

* ToolAdmin: `TablesInv` (ids of actions and bindings have no gaps, and a binding's action is there) and
  `RequestInv`: old bindings go first; from then on the tool's enabled bindings are as many as the entries that
  are done, each made from one of them and every one of them with one.
* McpAdmin: `RowsRunnable` is inductive, since what is written is a row that was validated as a whole
  (`WrittenRow`, for every payload that the request models let through). `SyncInv`: a row read at the start is
  as it was, or refreshed for its directory, whose turn has been (`FoundRowInv`), a server that was not there at the
  start is one the synchronisation has made for its directory (`CreatedInv`), and a directory whose turn
  has been is served (`ServedInv`). It rests on `RefreshedRow`: refreshing a row twice is refreshing it once,
  so that nothing a synchronisation does to one directory's row undoes another's.
* ChannelAdmin: `TokensInv` (no two channels share a token), `SureInv` (a channel that is sure exists and
  delivers, and no request under way is on it or has read its token) and `ClerkInv` (what a handler has read and
  how far it still holds: if a `set_webhook` has been alone, row and provider are as it read them). The cascade of
  `deactivate_node` is a request on the channel like any other, and ends `sure`.
* ApiKeys: `HoldersInv` (every node that has a slug, in the database or the snapshot, is among those that have
  had it) and `CallerInv` (how far the authority of a caller has been established).
* Catalogue: `OfferInv` (what is offered has been written, with its directory), `TwinsInv` (of two active skills
  with a slug one was revived), `NotesInv` (the tool a note was written for has had the note's slug).
* Startup: `TracingInv`: who makes the tables holds the lock, and the status says how many exporters there are
  and what callers were told. TokenProvider: `NoNeedlessFetch` is inductive with the types.
* McpSessions: `CallsInv` (the processes that calls have are of those started, and calls go on only while the
  run does) and `OneStartInv` (undisturbed, at most one call starts a process and only while there is no session;
  what runs is the session's or that call's).
* RunContext: `BuiltInv` (a state that was built gives every transport what was meant), from lemmas about
  `Resolve`: which key an identifier is found under does not depend on how many it is stored under; and the state that is
  built again has Agno's session in place of the request's.
  ToolCall: `FlagInv` (once a tool's calls have ended, its flag stands for a good result or, taken back, for
  a bad one) and `TurnInv` (no call goes on after the turn).
* ToolParams: the invariant is that of the types; the argument is in lemmas about the operators
  (`OwnSpellingFirst`, `NoBlanks`, `SameSources`, `SourceIsParam`).
* PlatformRun: for each subscriber `Line` is what it has heard and what its tasks will tell it. A task that begins
  does not change the line, and the line is always `Paired` and `Complete`, while what has been heard is a part of
  it from the start.

**GraphCache's inductive invariant.** Its parts that speak of a build in progress are
`BuildInv`. `ReadYourWrites` is not inductive: it says nothing of a
build in progress. `LockInv` says who may move the cursor and fill the tools cache, and that a
filler found nothing fresh. `BoundInv`: nothing is newer than the database, so whatever is read
now is newest. `CoverInv` is the heart: for each worker, the rows read so far, the cached tools
and the tools rows in a listing's hand are all at least as new as the snapshot that is being
replaced, and, while a handler refreshes, as what it wrote. This needs the tool lock in
`invalidate`: a listing that read the table before the write cannot store its rows after
the cache has been dropped. `ToolOrderInv` orders the tools a build has read before those
cached later. `CacheImplementsView` follows since `Publish` replaces a snapshot by rows
that cover it.

**Only model-checked**: `RefreshEnds`, `SearchesEnd`, `ClaimedIsSettled`, `EveryRunEnds`,
`WaitIsServed`: liveness under fairness is outside what the prover does. Every invariant and every action
property that a passing run checks is a theorem.

**Proved, not run.** `ProcessingIsOwned`, `NoHoldAndWait`, `Awaited`, `RunsStayPossible` and the type invariants of
GraphAdmin, AgentRun and the two searches are
theorems that follow for every instance, as are the inductive invariants; no run repeats them.

## 5. What is not modelled, and the plan

Not modelled because there is nothing to say at this level: routes, response models and exception
handlers; queries for display and the listing of sessions; templating of text, names of tools; schemas for the model;
configuration, translation and documentation; the requests of each external service and of the
language models, whose outcomes are choices in the models. Of modelled components: `verify` and the columns
that only describe a bot; `get_graph`, which renders a tree; the test of API tools; the reading of Python
files for tools and servers, whose result is data; encryption and hashing. `PROJECT.json` says so for each component.

What is left is to prove more: that GraphAdmin's cache steps are those of GraphCache on two tables.
