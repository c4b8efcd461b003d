------------------------------ MODULE McpAdmin ------------------------------
(***************************************************************************)
(* Administration of MCP servers, one request at a time, and the           *)
(* synchronisation of the servers found on disk, which keeps a marker      *)
(* (the key local_mcp of metadata_json) on the rows it manages.            *)
(* A payload is a function from the keys that are present to values.       *)
(***************************************************************************)
EXTENDS Naturals, FiniteSets

CONSTANTS
  MaxServers,   \* bound: rows of mcp_servers
  ServerSlug, Source, SlugOf,  \* directories with a server.py, and their slugs
  ServerEdits,  \* payloads of create (with a slug) and update requests
  Null,         \* NULL or None: no value, no row, no directory
  Outside       \* a working_directory that is not below mcp_root_dir

ServerId == 1..MaxServers

Local == "python_server"  \* the command of every server found on disk

Meta == [source : Source \cup {Null}, other : BOOLEAN]
Column == {"slug", "transport", "command", "url", "working_directory",
           "metadata_json", "is_active"}
ServerRow ==
  [slug : ServerSlug, transport : {"stdio", "remote"},
   command : {Null, "npx", Local}, url : {Null, "", "url"},
   working_directory : Source \cup {Null}, metadata_json : Meta \cup {Null},
   is_active : BOOLEAN]
BlankRow == [k \in Column |-> IF k = "is_active" THEN TRUE ELSE Null]

(* What the request models let through.                                    *)
ServerPayload(p) ==
  /\ DOMAIN p \subseteq Column \cup {"local_source_path"}
  /\ "slug" \in DOMAIN p => p.slug \in ServerSlug \cup {Null}
  /\ "command" \in DOMAIN p => p.command \in {Null, "", "npx", Local}
  /\ "url" \in DOMAIN p => p.url \in {Null, "", "url"}
  /\ "working_directory" \in DOMAIN p =>
       p.working_directory \in Source \cup {Null, Outside}
  /\ "metadata_json" \in DOMAIN p => p.metadata_json \in Meta \cup {Null}
  /\ "is_active" \in DOMAIN p => p.is_active \in BOOLEAN \cup {Null}
  /\ "local_source_path" \in DOMAIN p => p.local_source_path \in Source

ASSUME McpAdminAssumption ==
  /\ MaxServers \in Nat \ {0}
  /\ SlugOf \in [Source -> ServerSlug]
  /\ \A p \in ServerEdits : ServerPayload(p)
  /\ Null \notin ServerId /\ Null \notin Source \cup ServerSlug
  /\ Null \notin BOOLEAN /\ Null \notin Meta /\ Null \notin ServerRow
  /\ Null \notin {"", "stdio", "remote", "npx", "url", Local, Outside}
  /\ Outside \notin Source \cup {""}

VARIABLES
  server,   \* mcp_servers
  onDisk,   \* sources there are now
  current,  \* the snapshot is the table
  sStep,    \* where the request is
  sync      \* todo, listed: sources; found: active rows read at its start;
            \* gone: those of them it has deactivated

mcpAdminVars == <<server, onDisk, current, sStep, sync>>

NoSync == [todo |-> {}, listed |-> {}, found |-> [s \in ServerId |-> Null],
           gone |-> {}, changed |-> FALSE, was |-> FALSE]

SyncRow ==
  [todo : SUBSET Source, listed : SUBSET Source,
   found : [ServerId -> ServerRow \cup {Null}],
   gone : SUBSET ServerId, changed : BOOLEAN, was : BOOLEAN]

Servers == {s \in ServerId : server[s] # Null}
ActiveServers == {s \in Servers : server[s].is_active}
Found == {s \in ServerId : sync.found[s] # Null}

McpAdminTypeOK ==
  /\ server \in [ServerId -> ServerRow \cup {Null}]
  /\ onDisk \subseteq Source
  /\ current \in BOOLEAN
  /\ sStep \in {"idle", "sync", "refresh", "ok"}
  /\ sync \in SyncRow
  /\ sync.todo \subseteq sync.listed /\ sync.gone \subseteq Found

McpAdminInit ==
  /\ server = [s \in ServerId |-> Null]
  /\ onDisk = {}
  /\ current = TRUE
  /\ sStep = "idle"
  /\ sync = NoSync

-----------------------------------------------------------------------------
(* Payloads and rows                                                       *)

Given(p, row, k) == IF k \in DOMAIN p THEN p[k] ELSE row[k]

(* The values of p, and of q where p has none.                             *)
Over(p, q) ==
  [k \in DOMAIN p \cup DOMAIN q |-> IF k \in DOMAIN p THEN p[k] ELSE q[k]]

(* What the ORM writes: None stays out of INSERT and UPDATE.               *)
Persist(p, row) ==
  [k \in Column |-> IF Given(p, row, k) = Null THEN row[k] ELSE Given(p, row, k)]

Strip(m) == IF m = Null \/ ~m.other THEN Null ELSE [m EXCEPT !.source = Null]
Merge(m, d) == [source |-> d, other |-> m # Null /\ m.other]

(* get_local_mcp_metadata: the marker, or a row that looks like a local    *)
(* server of a directory that is there.                                    *)
LocalSource(row) ==
  CASE row.metadata_json # Null /\ row.metadata_json.source # Null ->
         row.metadata_json.source
    [] OTHER -> IF /\ row.transport = "stdio" /\ row.command = Local
                   /\ row.working_directory \in onDisk
                THEN row.working_directory ELSE Null

PrepareServer(p, row) ==
  LET meta == Given(p, row, "metadata_json")
  IN CASE "local_source_path" \in DOMAIN p ->
            Over([transport |-> "stdio", command |-> Local, url |-> Null,
                  working_directory |-> p.local_source_path,
                  metadata_json |-> Merge(meta, p.local_source_path)], p)
       [] "local_source_path" \notin DOMAIN p
          /\ Given(p, row, "transport") = "remote" ->
            Over([command |-> Null, working_directory |-> Null,
                  url |-> IF Given(p, row, "url") = "" THEN Null
                          ELSE Given(p, row, "url"),
                  metadata_json |-> Strip(meta)], p)
       [] OTHER ->
            IF \/ {"command", "working_directory"} \cap DOMAIN p # {}
               \/ LocalSource(row) # Null
            THEN Over([metadata_json |-> Strip(meta)], p)
            ELSE p

(* validate_mcp_payload, on payload and row together.  The mutant looks    *)
(* at what the payload has.                                                *)
ValidPayload(q, row) ==
  CASE Given(q, row, "transport") = "stdio" ->
         /\ "command" \in DOMAIN q => q.command \notin {Null, ""}
         /\ Given(q, row, "working_directory") # Outside
    [] OTHER -> "url" \in DOMAIN q => q.url \notin {Null, ""}
Valid(q, row) ==
  CASE Given(q, row, "transport") = "stdio" ->
         /\ Given(q, row, "command") \notin {Null, ""}
         /\ Given(q, row, "working_directory") # Outside
    [] Given(q, row, "transport") = "remote" ->
         Given(q, row, "url") \notin {Null, ""}
    [] OTHER -> FALSE

-----------------------------------------------------------------------------
(* Requests                                                                *)

Rest == sStep \in {"idle", "ok"}
Free(slug, s) == \A o \in ActiveServers \ {s} : server[o].slug # slug

(* Prepared payload q is validated, written and followed by a refresh.     *)
Write(s, q, row) ==
  /\ Valid(q, row)
  /\ server' = [server EXCEPT ![s] = Persist(q, row)]
  /\ current' = FALSE
  /\ sStep' = "refresh" /\ sync' = NoSync
  /\ UNCHANGED onDisk

Sourced(p) == "local_source_path" \in DOMAIN p => p.local_source_path \in onDisk

CreateServer ==
  /\ Rest
  /\ \E s \in ServerId, p \in ServerEdits :
       /\ s = Cardinality(Servers) + 1
       /\ {"slug", "transport"} \subseteq DOMAIN p /\ p.slug # Null
       /\ Free(p.slug, s) /\ Sourced(p)
       /\ Write(s, PrepareServer(p, BlankRow), BlankRow)

UpdateServer ==
  /\ Rest
  /\ \E s \in ActiveServers, p \in ServerEdits :
       /\ "slug" \in DOMAIN p => Free(p.slug, s)
       /\ Sourced(p)
       /\ Write(s, PrepareServer(p, server[s]), server[s])

DeactivateServer ==
  /\ Rest
  /\ \E s \in ActiveServers :
       server' = [server EXCEPT ![s].is_active = FALSE]
  /\ current' = FALSE
  /\ sStep' = "refresh" /\ sync' = NoSync
  /\ UNCHANGED onDisk

RefreshServers ==
  /\ sStep = "refresh"
  /\ sStep' = "ok"
  /\ current' = TRUE
  /\ UNCHANGED <<server, onDisk, sync>>

(* A statement or the refresh raises; what is written stays.               *)
ServerRequestFails ==
  /\ sStep \in {"sync", "refresh"}
  /\ sStep' = "idle"
  /\ sync' = NoSync
  /\ UNCHANGED <<server, onDisk, current>>

DiskChanges ==
  /\ Rest
  /\ \E d \in Source : onDisk' = (onDisk \ {d}) \cup ({d} \ onDisk)
  /\ sStep' = "idle"
  /\ sync' = NoSync
  /\ UNCHANGED <<server, current>>

-----------------------------------------------------------------------------
(* sync_local_mcp_servers, an item at a time                               *)

SyncStart ==
  /\ Rest
  /\ sStep' = "sync"
  /\ sync' = [NoSync EXCEPT
       !.todo = onDisk, !.listed = onDisk, !.was = TRUE,
       !.found = [s \in ServerId |->
                    IF s \in ActiveServers THEN server[s] ELSE Null]]
  /\ UNCHANGED <<server, onDisk, current>>

Managed(d) == {s \in Found : LocalSource(sync.found[s]) = d}

LocalRow(d, m) ==
  [transport |-> "stdio", command |-> Local, working_directory |-> d,
   metadata_json |-> Merge(m, d)]

Synced(d, changes) ==
  /\ sync' = [sync EXCEPT !.todo = @ \ {d}, !.changed = @ \/ changes]
  /\ current' = (current /\ ~changes)
  /\ UNCHANGED <<onDisk, sStep>>

(* No active server for the source: one is created, unless its slug is     *)
(* another's.                                                              *)
SyncCreate ==
  /\ sStep = "sync"
  /\ \E d \in sync.todo :
       /\ Managed(d) = {}
       /\ \/ /\ ~Free(SlugOf[d], Null)
             /\ Synced(d, FALSE) /\ UNCHANGED server
          \/ /\ Free(SlugOf[d], Null)
             /\ \E s \in ServerId :
                  /\ s = Cardinality(Servers) + 1
                  /\ server' = [server EXCEPT ![s] =
                       Persist(Over(LocalRow(d, Null), [slug |-> SlugOf[d]]), BlankRow)]
             /\ Synced(d, TRUE)

(* Of several, the one read last: the query has no order.  The mutant      *)
(* looks for a change of the transport alone.                              *)
DiffersTransport(row, new) == row.transport # new.transport
Differs(row, new) == row # new

SyncUpdate ==
  /\ sStep = "sync"
  /\ \E d \in sync.todo : \E s \in Managed(d) :
       LET new == Persist(LocalRow(d, sync.found[s].metadata_json), server[s])
       IN /\ server' = IF Differs(server[s], new)
                       THEN [server EXCEPT ![s] = new] ELSE server
          /\ Synced(d, Differs(server[s], new))

ToRetire == {s \in Found \ sync.gone :
               LocalSource(sync.found[s]) \notin sync.listed \cup {Null}}

SyncRetire ==
  /\ sStep = "sync" /\ sync.todo = {}
  /\ \E s \in ToRetire :
       /\ server' = [server EXCEPT ![s].is_active = FALSE]
       /\ sync' = [sync EXCEPT !.changed = TRUE, !.gone = @ \cup {s}]
  /\ current' = FALSE
  /\ UNCHANGED <<onDisk, sStep>>

(* Nothing changed: no refresh, even if the snapshot is an older one's.    *)
SyncEnd ==
  /\ sStep = "sync" /\ sync.todo = {} /\ ToRetire = {}
  /\ sStep' = IF sync.changed THEN "refresh" ELSE "ok"
  /\ UNCHANGED <<server, onDisk, current, sync>>

McpAdminNext ==
  \/ CreateServer \/ UpdateServer \/ DeactivateServer
  \/ RefreshServers \/ ServerRequestFails \/ DiskChanges
  \/ SyncStart \/ SyncCreate \/ SyncUpdate \/ SyncRetire \/ SyncEnd

McpAdminSpec == McpAdminInit /\ [][McpAdminNext]_mcpAdminVars

-----------------------------------------------------------------------------
(* Properties                                                              *)

(* Whatever partial payloads came in which order, and whatever the ORM     *)
(* left out of a statement, a row can be connected to: update_mcp_server   *)
(* validates the row it will leave, not the payload it was given.          *)
RowsRunnable ==
  \A s \in Servers : LET row == server[s] IN
    /\ row.transport = "stdio" => row.command \notin {Null, ""}
    /\ row.transport = "remote" => row.url \notin {Null, ""}

(* The source has no server, and there is one of another source, or of     *)
(* none, that has its slug or had it at the start (the one of a renamed    *)
(* directory, which is retired only afterwards).                           *)
TakenByAnother(d) ==
  /\ Managed(d) = {}
  /\ \/ \E s \in Found : sync.found[s].slug = SlugOf[d]
     \/ \E s \in ActiveServers :
          server[s].slug = SlugOf[d] /\ LocalSource(server[s]) # d

(* A synchronisation that ends leaves, for every source, an active server  *)
(* with the transport, command, directory and marker of the source,        *)
(* whatever had been changed by hand in the one there was; only a source   *)
(* that had none may stay without, if its slug is another's.  It leaves no *)
(* server for a directory that is gone, and a snapshot with its changes;   *)
(* after any of its steps fails, the next one that ends does the rest.     *)
SyncMatchesDisk ==
  sStep = "ok" /\ sync.was =>
    /\ \A s \in ActiveServers : LocalSource(server[s]) \in onDisk \cup {Null}
    /\ \A d \in onDisk :
         \/ TakenByAnother(d)
         \/ \E s \in ActiveServers :
              /\ LocalSource(server[s]) = d
              /\ server[s] = Persist(LocalRow(d, server[s].metadata_json), server[s])
    /\ sync.changed => current
=============================================================================
