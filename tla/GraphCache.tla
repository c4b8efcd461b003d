----------------------------- MODULE GraphCache -----------------------------
(***************************************************************************)
(* The process-local graph cache of the platform: every worker process     *)
(* keeps a snapshot of the configuration tables (nodes, edges, bindings,   *)
(* tools, ...), rebuilds it table by table under an asyncio lock           *)
(* (PlatformCacheManager.load / refresh), and reads the tools table        *)
(* through a second, TTL-bound cache with its own lock (ToolCacheService). *)
(*                                                                         *)
(* A table is abstracted to the number of writes committed to it, so what  *)
(* a snapshot holds of a table is the version it was read at.  The         *)
(* contents of the tables are the business of module GraphAdmin.           *)
(***************************************************************************)
EXTENDS Integers

CONSTANTS
  Worker,       \* gunicorn worker processes
  Task,         \* request handlers (asyncio tasks)
  Home,         \* the worker each task runs in
  NoTask,       \* "the lock is free"
  TableCount,   \* tables read by _fetch_raw_data, in this order: 1..TableCount
  Tools,        \* the table that is read through ToolCacheService
  MaxWrites     \* bound: commits per table

ASSUME HomeAssumption == Home \in [Task -> Worker]
ASSUME NoTaskAssumption == NoTask \notin Task
ASSUME TableAssumption == TableCount \in Nat \ {0} /\ Tools \in 1..TableCount
ASSUME MaxWritesAssumption == MaxWrites \in Nat

Table == 1..TableCount

NoVersion == -1                        \* never read / None
Version   == Nat \cup {NoVersion}
Empty     == [k \in Table |-> NoVersion]

VARIABLES
  db,          \* db[k]: writes committed to table k
  loaded,      \* _cache_loaded, per worker
  snapshot,    \* _snapshot, per worker
  lock,        \* _rebuild_lock, per worker
  raw,         \* the result of _fetch_raw_data built so far, per worker
  cursor,      \* the next table _fetch_raw_data reads
  toolCache,   \* ToolCacheService._cache
  toolFresh,   \* now < ToolCacheService._expires_at
  toolLock,    \* ToolCacheService._lock
  toolRaw,     \* rows the list_tools call holding the lock has received
  pc,          \* where each handler is
  mode,        \* what for: load(), refresh(), or a listing of the tools
  goal,        \* history: db right after the handler's last commit
  local,       \* history: db right after the last commit made on a worker
  lapsed       \* history: a write of this worker lost its refresh, and no
               \* refresh has started since

dbVars    == <<db, goal, local>>
cacheVars == <<loaded, snapshot>>
buildVars == <<lock, raw, cursor>>
toolVars  == <<toolCache, toolFresh, toolLock, toolRaw>>
vars == <<dbVars, cacheVars, buildVars, toolVars, pc, mode, lapsed>>

(* Program points.  "enter": queued on the rebuild lock.  "invalidate":    *)
(* holds it, queued on the tool lock to invalidate the tools.  "build":    *)
(* between two queries of _fetch_raw_data.  "wait", "fetch", "store":      *)
(* inside list_tools, queued on its lock, holding it with the query out,   *)
(* and with the rows received.                                             *)
Pcs == {"idle", "writing", "enter", "invalidate", "build",
        "wait", "fetch", "store", "done"}
Modes == {"load", "refresh", "list"}

(* Handlers that hold the rebuild lock.                                    *)
Building(t) ==
  \/ pc[t] \in {"invalidate", "build"}
  \/ pc[t] \in {"wait", "fetch", "store"} /\ mode[t] # "list"

TypeOK ==
  /\ db \in [Table -> Nat]
  /\ loaded \in [Worker -> BOOLEAN]
  /\ snapshot \in [Worker -> [Table -> Version]]
  /\ lock \in [Worker -> Task \cup {NoTask}]
  /\ raw \in [Worker -> [Table -> Version]]
  /\ cursor \in [Worker -> 1..(TableCount + 1)]
  /\ toolCache \in [Worker -> Version]
  /\ toolFresh \in [Worker -> BOOLEAN]
  /\ toolLock \in [Worker -> Task \cup {NoTask}]
  /\ toolRaw \in [Worker -> Version]
  /\ pc \in [Task -> Pcs]
  /\ mode \in [Task -> Modes]
  /\ goal \in [Task -> [Table -> Version]]
  /\ local \in [Worker -> [Table -> Version]]
  /\ lapsed \in [Worker -> BOOLEAN]

Init ==
  /\ db = [k \in Table |-> 0]
  /\ loaded = [w \in Worker |-> FALSE]
  /\ snapshot = [w \in Worker |-> Empty]
  /\ lock = [w \in Worker |-> NoTask]
  /\ raw = [w \in Worker |-> Empty]
  /\ cursor = [w \in Worker |-> 1]
  /\ toolCache = [w \in Worker |-> NoVersion]
  /\ toolFresh = [w \in Worker |-> FALSE]
  /\ toolLock = [w \in Worker |-> NoTask]
  /\ toolRaw = [w \in Worker |-> NoVersion]
  /\ pc = [t \in Task |-> "idle"]
  /\ mode = [t \in Task |-> "load"]
  /\ goal = [t \in Task |-> Empty]
  /\ local = [w \in Worker |-> Empty]
  /\ lapsed = [w \in Worker |-> FALSE]

Goto(t, p) == pc' = [pc EXCEPT ![t] = p]
For(t, m)  == mode' = [mode EXCEPT ![t] = m]

-----------------------------------------------------------------------------
(* Admin handlers: one autocommitted statement after another, then one     *)
(* refresh.  A handler may also raise between its statements.              *)

AdminWrite(t, k, next) ==
  /\ pc[t] \in {"idle", "writing"}
  /\ db[k] < MaxWrites
  /\ db' = [db EXCEPT ![k] = @ + 1]
  /\ goal' = [goal EXCEPT ![t] = db']
  /\ local' = [local EXCEPT ![Home[t]] = db']
  /\ Goto(t, next) /\ For(t, "refresh")
  /\ UNCHANGED <<cacheVars, buildVars, toolVars, lapsed>>

AdminAbort(t) ==
  /\ pc[t] = "writing"
  /\ Goto(t, "idle")
  /\ lapsed' = [lapsed EXCEPT ![Home[t]] = TRUE]
  /\ UNCHANGED <<dbVars, cacheVars, buildVars, toolVars, mode>>

-----------------------------------------------------------------------------
(* PlatformCacheManager                                                    *)

(* load() returns at once when the cache is loaded; otherwise it queues.   *)
LoadCall(t) ==
  /\ pc[t] = "idle"
  /\ ~loaded[Home[t]]
  /\ Goto(t, "enter") /\ For(t, "load")
  /\ UNCHANGED <<dbVars, cacheVars, buildVars, toolVars, lapsed>>

(* It has the lock and finds that another handler has loaded meanwhile.    *)
LoadSkip(t) ==
  /\ pc[t] = "enter" /\ mode[t] = "load"
  /\ lock[Home[t]] = NoTask
  /\ loaded[Home[t]]
  /\ Goto(t, "idle")
  /\ UNCHANGED <<dbVars, cacheVars, buildVars, toolVars, mode, lapsed>>

(* Mutant: a build goes on from where the last one stopped.                *)
StartBuildResumed(t) ==
  /\ lock' = [lock EXCEPT ![Home[t]] = t]
  /\ raw' = [raw EXCEPT ![Home[t]] = Empty]
  /\ UNCHANGED cursor

StartBuild(t) ==
  /\ lock' = [lock EXCEPT ![Home[t]] = t]
  /\ raw' = [raw EXCEPT ![Home[t]] = Empty]
  /\ cursor' = [cursor EXCEPT ![Home[t]] = 1]

LoadBegin(t) ==
  /\ pc[t] = "enter" /\ mode[t] = "load"
  /\ lock[Home[t]] = NoTask
  /\ ~loaded[Home[t]]
  /\ StartBuild(t)
  /\ Goto(t, "build")
  /\ UNCHANGED <<dbVars, cacheVars, toolVars, mode, lapsed>>

(* Mutants: invalidate() without its lock, and refresh() without it.       *)
DropToolsUnlocked(w) ==
  /\ toolCache' = [toolCache EXCEPT ![w] = NoVersion]
  /\ toolFresh' = [toolFresh EXCEPT ![w] = FALSE]
  /\ UNCHANGED <<toolLock, toolRaw>>

DropToolsNever(w) == toolLock[w] = NoTask /\ UNCHANGED toolVars

(* refresh() first drops the tools cache, under the tool lock as well, for *)
(* which it may have to wait.                                              *)
DropTools(w) ==
  /\ toolLock[w] = NoTask
  /\ toolCache' = [toolCache EXCEPT ![w] = NoVersion]
  /\ toolFresh' = [toolFresh EXCEPT ![w] = FALSE]
  /\ UNCHANGED <<toolLock, toolRaw>>

RefreshBegin(t) ==
  /\ pc[t] = "enter" /\ mode[t] = "refresh"
  /\ lock[Home[t]] = NoTask
  /\ StartBuild(t)
  /\ DropTools(Home[t])
  /\ Goto(t, "build")
  /\ lapsed' = [lapsed EXCEPT ![Home[t]] = FALSE]
  /\ UNCHANGED <<dbVars, cacheVars, mode>>

RefreshBlocked(t) ==
  /\ pc[t] = "enter" /\ mode[t] = "refresh"
  /\ lock[Home[t]] = NoTask
  /\ toolLock[Home[t]] # NoTask
  /\ StartBuild(t)
  /\ Goto(t, "invalidate")
  /\ lapsed' = [lapsed EXCEPT ![Home[t]] = FALSE]
  /\ UNCHANGED <<dbVars, cacheVars, toolVars, mode>>

InvalidateTools(t) ==
  /\ pc[t] = "invalidate"
  /\ DropTools(Home[t])
  /\ Goto(t, "build")
  /\ UNCHANGED <<dbVars, cacheVars, buildVars, mode, lapsed>>

(* Mutant: the cursor skips a table.                                       *)
TakeRowSkip(w, k, v) ==
  /\ raw' = [raw EXCEPT ![w][k] = v]
  /\ cursor' = [cursor EXCEPT ![w] = k + 2]
  /\ UNCHANGED lock

TakeRow(w, k, v) ==
  /\ raw' = [raw EXCEPT ![w][k] = v]
  /\ cursor' = [cursor EXCEPT ![w] = k + 1]
  /\ UNCHANGED lock

(* Mutant: a query that fails counts as an empty table.                    *)
FetchTableLossy(t) ==
  LET w == Home[t] IN
  /\ pc[t] = "build"
  /\ cursor[w] \in Table \ {Tools}
  /\ \E v \in {db[cursor[w]], NoVersion} : TakeRow(w, cursor[w], v)
  /\ UNCHANGED <<dbVars, cacheVars, toolVars, pc, mode, lapsed>>

(* One awaited SELECT of _fetch_raw_data.                                  *)
FetchTable(t) ==
  LET w == Home[t] IN
  /\ pc[t] = "build"
  /\ cursor[w] \in Table \ {Tools}
  /\ TakeRow(w, cursor[w], db[cursor[w]])
  /\ UNCHANGED <<dbVars, cacheVars, toolVars, pc, mode, lapsed>>

(* The publish at the end of _build_cache, without an await.  A refresh    *)
(* ends with the handler about to answer.                                  *)
Publish(t) ==
  LET w == Home[t] IN
  /\ pc[t] = "build"
  /\ cursor[w] = TableCount + 1
  /\ snapshot' = [snapshot EXCEPT ![w] = raw[w]]
  /\ loaded' = [loaded EXCEPT ![w] = TRUE]
  /\ lock' = [lock EXCEPT ![w] = NoTask]
  /\ Goto(t, IF mode[t] = "refresh" THEN "done" ELSE "idle")
  /\ UNCHANGED <<dbVars, toolVars, raw, cursor, mode, lapsed>>

Respond(t) ==
  /\ pc[t] = "done"
  /\ Goto(t, "idle")
  /\ UNCHANGED <<dbVars, cacheVars, buildVars, toolVars, mode, lapsed>>

(* Mutant: a failed query that leaves the lock taken.                      *)
BuildFailsLocked(t) ==
  LET w == Home[t] IN
  /\ pc[t] = "build" /\ cursor[w] \in Table \ {Tools}
  /\ lapsed' = [lapsed EXCEPT ![w] = @ \/ mode[t] = "refresh"]
  /\ Goto(t, "idle")
  /\ UNCHANGED <<dbVars, cacheVars, raw, cursor, toolVars, mode, lock>>

(* A query of the build fails: `async with` releases the lock, the old     *)
(* snapshot stays, the exception reaches the handler.                      *)
BuildFails(t) ==
  LET w == Home[t] IN
  /\ pc[t] = "build" /\ cursor[w] \in Table \ {Tools}
  /\ lock' = [lock EXCEPT ![w] = NoTask]
  /\ lapsed' = [lapsed EXCEPT ![w] = @ \/ mode[t] = "refresh"]
  /\ Goto(t, "idle")
  /\ UNCHANGED <<dbVars, cacheVars, raw, cursor, toolVars, mode>>

-----------------------------------------------------------------------------
(* ToolCacheService.list_tools(), called by a build when it comes to the   *)
(* tools, or by an idle handler for a listing.                             *)

ToolHit(w) == toolCache[w] # NoVersion /\ toolFresh[w]

AtTools(t) == pc[t] = "build" /\ cursor[Home[t]] = Tools

(* A fresh cache is returned without the lock.                             *)
ToolsCached(t) ==
  /\ AtTools(t)
  /\ ToolHit(Home[t])
  /\ TakeRow(Home[t], Tools, toolCache[Home[t]])
  /\ UNCHANGED <<dbVars, cacheVars, toolVars, pc, mode, lapsed>>

ToolsQueue(t, m) ==
  /\ ~ToolHit(Home[t])
  /\ toolLock[Home[t]] # NoTask
  /\ Goto(t, "wait") /\ For(t, m)
  /\ UNCHANGED <<dbVars, cacheVars, buildVars, toolVars, lapsed>>

(* With the lock, the cache is looked at again before the table is read.   *)
ToolsLock(t, m) ==
  /\ ~ToolHit(Home[t])
  /\ toolLock[Home[t]] = NoTask
  /\ toolLock' = [toolLock EXCEPT ![Home[t]] = t]
  /\ Goto(t, "fetch") /\ For(t, m)
  /\ UNCHANGED <<dbVars, cacheVars, buildVars, toolCache, toolFresh, toolRaw,
                 lapsed>>

ToolsFilled(t) ==
  /\ pc[t] = "wait" /\ mode[t] # "list"
  /\ toolLock[Home[t]] = NoTask
  /\ ToolHit(Home[t])
  /\ TakeRow(Home[t], Tools, toolCache[Home[t]])
  /\ Goto(t, "build")
  /\ UNCHANGED <<dbVars, cacheVars, toolVars, mode, lapsed>>

ListFilled(t) ==
  /\ pc[t] = "wait" /\ mode[t] = "list"
  /\ toolLock[Home[t]] = NoTask
  /\ ToolHit(Home[t])
  /\ Goto(t, "idle")
  /\ UNCHANGED <<dbVars, cacheVars, buildVars, toolVars, mode, lapsed>>

(* The database answers; later the handler resumes and stores the rows.    *)
ToolsAnswer(t) ==
  /\ pc[t] = "fetch"
  /\ toolRaw' = [toolRaw EXCEPT ![Home[t]] = db[Tools]]
  /\ Goto(t, "store")
  /\ UNCHANGED <<dbVars, cacheVars, buildVars, toolCache, toolFresh, toolLock,
                 mode, lapsed>>

StoreTools(w) ==
  /\ toolCache' = [toolCache EXCEPT ![w] = toolRaw[w]]
  /\ toolFresh' = [toolFresh EXCEPT ![w] = TRUE]
  /\ toolLock' = [toolLock EXCEPT ![w] = NoTask]
  /\ UNCHANGED toolRaw

ToolsStore(t) ==
  /\ pc[t] = "store" /\ mode[t] # "list"
  /\ StoreTools(Home[t])
  /\ TakeRow(Home[t], Tools, toolRaw[Home[t]])
  /\ Goto(t, "build")
  /\ UNCHANGED <<dbVars, cacheVars, mode, lapsed>>

ListStore(t) ==
  /\ pc[t] = "store" /\ mode[t] = "list"
  /\ StoreTools(Home[t])
  /\ Goto(t, "idle")
  /\ UNCHANGED <<dbVars, cacheVars, buildVars, mode, lapsed>>

(* The query fails: the tool lock is released, and for a build the rebuild *)
(* lock too.                                                               *)
ToolsFail(t) ==
  LET w == Home[t] IN
  /\ pc[t] = "fetch" /\ mode[t] # "list"
  /\ toolLock' = [toolLock EXCEPT ![w] = NoTask]
  /\ lock' = [lock EXCEPT ![w] = NoTask]
  /\ lapsed' = [lapsed EXCEPT ![w] = @ \/ mode[t] = "refresh"]
  /\ Goto(t, "idle")
  /\ UNCHANGED <<dbVars, cacheVars, raw, cursor, toolCache, toolFresh, toolRaw,
                 mode>>

ListFails(t) ==
  /\ pc[t] = "fetch" /\ mode[t] = "list"
  /\ toolLock' = [toolLock EXCEPT ![Home[t]] = NoTask]
  /\ Goto(t, "idle")
  /\ UNCHANGED <<dbVars, cacheVars, buildVars, toolCache, toolFresh, toolRaw,
                 mode, lapsed>>

(* The TTL of the tools cache elapses.                                     *)
ToolsExpire(w) ==
  /\ toolFresh[w]
  /\ toolFresh' = [toolFresh EXCEPT ![w] = FALSE]
  /\ UNCHANGED <<dbVars, cacheVars, buildVars, toolCache, toolLock, toolRaw,
                 pc, mode, lapsed>>

-----------------------------------------------------------------------------
(* A worker process dies and gunicorn starts another in its place: every   *)
(* class attribute is back to its initial value, its handlers are gone.    *)
WorkerRestart(w) ==
  /\ loaded' = [loaded EXCEPT ![w] = FALSE]
  /\ snapshot' = [snapshot EXCEPT ![w] = Empty]
  /\ lock' = [lock EXCEPT ![w] = NoTask]
  /\ raw' = [raw EXCEPT ![w] = Empty]
  /\ cursor' = [cursor EXCEPT ![w] = 1]
  /\ toolCache' = [toolCache EXCEPT ![w] = NoVersion]
  /\ toolFresh' = [toolFresh EXCEPT ![w] = FALSE]
  /\ toolLock' = [toolLock EXCEPT ![w] = NoTask]
  /\ toolRaw' = [toolRaw EXCEPT ![w] = NoVersion]
  /\ pc' = [t \in Task |-> IF Home[t] = w THEN "idle" ELSE pc[t]]
  /\ goal' = [t \in Task |-> IF Home[t] = w THEN Empty ELSE goal[t]]
  /\ local' = [local EXCEPT ![w] = Empty]
  /\ lapsed' = [lapsed EXCEPT ![w] = FALSE]
  /\ UNCHANGED <<db, mode>>

-----------------------------------------------------------------------------
Write(t) ==
  \E k \in Table, next \in {"writing", "enter"} : AdminWrite(t, k, next)

LockTools(t) ==
  \/ AtTools(t) /\ ToolsLock(t, mode[t])
  \/ AtTools(t) /\ ToolsQueue(t, mode[t])
  \/ pc[t] = "wait" /\ ToolsLock(t, mode[t])

ListTools(t) == pc[t] = "idle" /\ (ToolsLock(t, "list") \/ ToolsQueue(t, "list"))

Enter(t) == LoadSkip(t) \/ LoadBegin(t) \/ RefreshBegin(t) \/ RefreshBlocked(t)

Proceed(t) ==
  \/ FetchTable(t) \/ Publish(t) \/ Respond(t)
  \/ ToolsCached(t) \/ ToolsAnswer(t) \/ ToolsStore(t) \/ ListStore(t)

TakeToolLock(t) ==
  \/ LockTools(t) \/ InvalidateTools(t) \/ ToolsFilled(t) \/ ListFilled(t)

TaskNext(t) ==
  \/ Write(t) \/ AdminAbort(t) \/ LoadCall(t) \/ ListTools(t)
  \/ Enter(t) \/ TakeToolLock(t) \/ Proceed(t)
  \/ BuildFails(t) \/ ToolsFail(t) \/ ListFails(t)

Next ==
  \/ \E t \in Task : TaskNext(t)
  \/ \E w \in Worker : ToolsExpire(w) \/ WorkerRestart(w)

Spec == Init /\ [][Next]_vars

(* The event loop keeps running every handler, the database answers or     *)
(* raises (connection and pool timeouts), and asyncio.Lock wakes waiters   *)
(* first-in first-out, hence strong fairness on taking a lock.  Nobody has *)
(* to start a request, and a process need not die.                         *)
Fairness ==
  \A t \in Task :
    WF_vars(Proceed(t)) /\ SF_vars(Enter(t)) /\ SF_vars(TakeToolLock(t))

FairSpec == Spec /\ Fairness

-----------------------------------------------------------------------------
(* What the cache promises.                                                *)

AtLeast(f, g) == \A k \in Table : f[k] >= g[k]

(* Between a write and the end of the refresh it is owed.                  *)
Pending(t) ==
  \/ pc[t] = "writing"
  \/ mode[t] = "refresh" /\ (pc[t] = "enter" \/ Building(t))

(* When an admin handler's refresh has returned and it is about to answer, *)
(* the snapshot of its worker holds everything that handler wrote, tools   *)
(* included, whatever other handlers and listings did meanwhile.           *)
ReadYourWrites ==
  \A t \in Task : pc[t] = "done" => AtLeast(snapshot[Home[t]], goal[t])

(* A worker none of whose handlers is between a write and its refresh, and *)
(* whose last refresh was not lost to a failure, serves a snapshot at      *)
(* least as new as the last write made through it.                         *)
QuietWorkerCurrent ==
  \A w \in Worker :
    ~lapsed[w] /\ (\A t \in Task : Home[t] = w => ~Pending(t))
      => AtLeast(snapshot[w], local[w])

(* A rebuilt snapshot never takes a worker back to older rows of a table:  *)
(* the cache implements the abstract view of module MonotoneView.          *)
View == INSTANCE MonotoneView WITH view <- snapshot
ServesMonotoneView == View!Spec

(* A handler that has written gets its refresh done or sees it fail; it    *)
(* does not hang on the locks.                                             *)
RefreshEnds ==
  \A t \in Task :
    (pc[t] = "enter" /\ mode[t] = "refresh") ~> pc[t] \in {"done", "idle"}

-----------------------------------------------------------------------------
(* The inductive invariant behind the safety properties.                   *)

(* Whoever builds holds the rebuild lock, whoever fills the tools cache    *)
(* holds the tool lock, and it took it because nothing fresh was cached.   *)
(* No other handler moves the cursor of a build.                           *)
LockInv ==
  \A t \in Task :
    /\ Building(t) => lock[Home[t]] = t
    /\ pc[t] \in {"fetch", "store"} =>
         toolLock[Home[t]] = t /\ ~ToolHit(Home[t])
    /\ pc[t] = "invalidate" => mode[t] = "refresh" /\ cursor[Home[t]] = 1
    /\ pc[t] \in {"wait", "fetch", "store"} /\ mode[t] # "list" =>
         cursor[Home[t]] = Tools
    /\ pc[t] = "build" => mode[t] # "list"

(* Nothing is newer than the database.                                     *)
BoundInv ==
  /\ \A w \in Worker :
       /\ AtLeast(db, snapshot[w]) /\ AtLeast(db, raw[w])
       /\ toolCache[w] <= db[Tools] /\ toolRaw[w] <= db[Tools]
       /\ AtLeast(db, local[w])
  /\ \A t \in Task : AtLeast(db, goal[t])

(* On a worker, rows g[k] of every table k are covered by what a build has *)
(* read so far, and g[Tools] by every way the build may still get tools.   *)
Covers(w, g) ==
  /\ \A k \in Table : k < cursor[w] => raw[w][k] >= g[k]
  /\ toolCache[w] # NoVersion => toolCache[w] >= g[Tools]
  /\ \A s \in Task : Home[s] = w /\ pc[s] = "store" => toolRaw[w] >= g[Tools]

(* A handler that rebuilds for a refresh, once the tools are dropped.      *)
Refreshing(t) == mode[t] = "refresh" /\ Building(t) /\ pc[t] # "invalidate"

(* Some other handler of the worker has written and not refreshed yet.     *)
OtherPending(t) ==
  \E u \in Task \ {t} : Home[u] = Home[t] /\ Pending(u)

(* The tools a build has read are not newer than those cached or in hand.  *)
ToolOrderInv ==
  \A w \in Worker : cursor[w] > Tools =>
    /\ toolCache[w] # NoVersion => toolCache[w] >= raw[w][Tools]
    /\ \A s \in Task :
         Home[s] = w /\ pc[s] = "store" => toolRaw[w] >= raw[w][Tools]

CoverInv ==
  /\ \A w \in Worker : Covers(w, snapshot[w])
  /\ \A t \in Task : Refreshing(t) =>
       /\ Covers(Home[t], goal[t])
       /\ lapsed[Home[t]] \/ OtherPending(t) \/ Covers(Home[t], local[Home[t]])

BuildInv == LockInv /\ BoundInv /\ ToolOrderInv /\ CoverInv

IInv == TypeOK /\ BuildInv /\ ReadYourWrites /\ QuietWorkerCurrent
=============================================================================
