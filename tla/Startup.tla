------------------------------ MODULE Startup ------------------------------
(***************************************************************************)
(* Start of a worker: the registry of tools, Agno's tracing, an eager load *)
(* of the cache; then requests, which may ask for tracing again and for    *)
(* the memory manager.  Tracing is set up under an asyncio lock; what      *)
(* needs no await inside it is one step.                                   *)
(***************************************************************************)
EXTENDS Naturals

CONSTANTS
  Boot, Prober,  \* the start itself; requests that ask for tracing
  MaxModules,    \* modules below tools/, in the order of their names
  Script,        \* slugs of tools
  Defines,       \* module -> slugs of the classes in it
  NoTask         \* nobody; no module

Task == {Boot} \cup Prober

ASSUME StartupAssumption ==
  /\ MaxModules \in Nat
  /\ Defines \in [1..MaxModules -> SUBSET Script]
  /\ Boot \notin Prober /\ NoTask \notin Task \cup 1..MaxModules

VARIABLES
  boot,       \* the step of the start
  failFast,   \* BOOTSTRAP_FAIL_FAST and AGNO_DB_INIT_FAIL_FAST
  registry,   \* slug -> module whose class has it
  imported,   \* modules tried so far
  tracing,    \* _tracing_state
  exporters,  \* span processors added to the provider
  lock,       \* who holds _tracing_lock
  asking,     \* task -> where it is in ensure_tracing, or its answer
  made        \* what _db_cache and _memory_manager_cache have

startupVars == <<boot, failFast, registry, imported, tracing, exporters, lock,
                 asking, made>>

BootSteps == {"registry", "tracing", "cache", "serving", "stopped"}
Answers == {"yes", "no", "raised"}

StartupTypeOK ==
  /\ boot \in BootSteps
  /\ failFast \in [boot : BOOLEAN, db : BOOLEAN]
  /\ registry \in [Script -> 1..MaxModules \cup {NoTask}]
  /\ imported \in 0..MaxModules
  /\ tracing \in {"not_attempted", "in_progress", "configured", "failed"}
  /\ exporters \in Nat
  /\ lock \in Task \cup {NoTask}
  /\ asking \in [Task -> {"away", "waiting", "tables"} \cup Answers]
  /\ made \subseteq {"db", "manager"}

StartupInit ==
  /\ boot = "registry"
  /\ failFast \in [boot : BOOLEAN, db : BOOLEAN]
  /\ registry = [s \in Script |-> NoTask]
  /\ imported = 0
  /\ tracing = "not_attempted"
  /\ exporters = 0
  /\ lock = NoTask
  /\ asking = [t \in Task |-> "away"]
  /\ made = {}

-----------------------------------------------------------------------------
(* The registry                                                            *)

(* A class whose slug is taken raises, and so may anything else in the     *)
(* module: it then has registered only some of its classes.                *)
ImportModule ==
  /\ boot = "registry" /\ imported < MaxModules
  /\ imported' = imported + 1
  /\ \E done \in SUBSET Defines[imported + 1] :
       /\ \A s \in done : registry[s] = NoTask
       /\ registry' = [s \in Script |-> IF s \in done THEN imported + 1
                                        ELSE registry[s]]
  /\ UNCHANGED <<boot, failFast, tracing, exporters, lock, asking, made>>

RegistryLoaded ==
  /\ boot = "registry" /\ imported = MaxModules
  /\ boot' = "tracing"
  /\ UNCHANGED <<failFast, registry, imported, tracing, exporters, lock, asking,
                 made>>

-----------------------------------------------------------------------------
(* ensure_tracing                                                          *)

Known == CASE tracing = "configured" -> "yes" [] tracing = "failed" -> "no"
           [] OTHER -> "waiting"

MayAsk(t) == /\ asking[t] = "away"
             /\ boot = IF t = Boot THEN "tracing" ELSE "serving"

AskTracing(t) ==
  /\ MayAsk(t)
  /\ asking' = [asking EXCEPT ![t] = Known]
  /\ UNCHANGED <<boot, failFast, registry, imported, tracing, exporters, lock, made>>

(* get_db: "db" with the cache filled; it fails only if it was not, or     *)
(* because the import of AsyncPostgresDb failed, as it then always does.   *)
DbFails == IF failFast.db THEN "raised" ELSE "no"

(* The lock is free: look again, else try.  Nothing is awaited until the   *)
(* tables; whatever ends it before that frees the lock in the same step.   *)
RecheckNot == "waiting"  \* mutant: it does not look again
Recheck == Known

EnterTracing(t) ==
  /\ asking[t] = "waiting" /\ lock = NoTask
  /\ \/ /\ Recheck # "waiting"
        /\ asking' = [asking EXCEPT ![t] = Recheck]
        /\ UNCHANGED <<tracing, exporters, lock, made>>
     \/ /\ Recheck = "waiting" /\ "db" \notin made  \* no database
        /\ asking' = [asking EXCEPT ![t] = DbFails]
        /\ tracing' = IF failFast.db THEN "in_progress" ELSE "failed"
        /\ UNCHANGED <<exporters, lock, made>>
     \/ /\ Recheck = "waiting"  \* no instrumentation, or installing it raises
        /\ asking' = [asking EXCEPT ![t] = "no"]
        /\ tracing' = "failed"
        /\ made' = made \cup {"db"}
        /\ UNCHANGED <<exporters, lock>>
     \/ /\ Recheck = "waiting"
        /\ asking' = [asking EXCEPT ![t] = "tables"]
        /\ tracing' = "in_progress"
        /\ exporters' = exporters + 1
        /\ lock' = t
        /\ made' = made \cup {"db"}
  /\ UNCHANGED <<boot, failFast, registry, imported>>

(* Whether or not the tables could be made.                                *)
TracingDone(t) ==
  /\ asking[t] = "tables"
  /\ asking' = [asking EXCEPT ![t] = "yes"]
  /\ tracing' = "configured"
  /\ lock' = NoTask
  /\ UNCHANGED <<boot, failFast, registry, imported, exporters, made>>

TracingAnswered(t) ==
  /\ t # Boot /\ asking[t] \in Answers
  /\ asking' = [asking EXCEPT ![t] = "away"]
  /\ UNCHANGED <<boot, failFast, registry, imported, tracing, exporters, lock, made>>

-----------------------------------------------------------------------------
(* The other steps of the start, and get_memory_manager                    *)

Booted(failed, next) == boot' = IF failed /\ failFast.boot THEN "stopped" ELSE next

BootTraced ==
  /\ boot = "tracing" /\ asking[Boot] \in Answers
  /\ Booted(asking[Boot] = "raised", "cache")
  /\ UNCHANGED <<failFast, registry, imported, tracing, exporters, lock, asking,
                 made>>

BootCache ==
  /\ boot = "cache"
  /\ \E failed \in BOOLEAN : Booted(failed, "serving")
  /\ UNCHANGED <<failFast, registry, imported, tracing, exporters, lock, asking,
                 made>>

(* Either constructor may fail; a manager stays with the db it was given.  *)
AskManager ==
  /\ boot = "serving" /\ "manager" \notin made
  /\ made' \in {made \cup {"db"}, made \cup {"db", "manager"}}
  /\ UNCHANGED <<boot, failFast, registry, imported, tracing, exporters, lock,
                 asking>>

StartupNext ==
  \/ ImportModule \/ RegistryLoaded \/ BootTraced \/ BootCache \/ AskManager
  \/ \E t \in Task : \/ AskTracing(t) \/ EnterTracing(t)
                     \/ TracingDone(t) \/ TracingAnswered(t)

StartupSpec == StartupInit /\ [][StartupNext]_startupVars

-----------------------------------------------------------------------------
(* However many ask while it is being set up, and whichever of them fails, *)
(* tracing is set up once: with a second exporter every span would be      *)
(* stored twice.  Who is told that it works has it, and who is told that   *)
(* it does not has none; an attempt that raised may be made again.         *)
TracedOnce ==
  /\ exporters <= 1
  /\ \A t \in Task : /\ asking[t] = "yes" => tracing = "configured" /\ exporters = 1
                     /\ asking[t] = "no" => tracing = "failed" /\ exporters = 0
  /\ tracing = "in_progress" /\ lock = NoTask => failFast.db /\ exporters = 0
=============================================================================
