---------------------------- MODULE PlatformRun ----------------------------
(***************************************************************************)
(* Runs of the platform as one-shot requests, and the in-process event bus *)
(* that tells its subscribers of them.  What an agent does in its run is   *)
(* AgentRun's; here a run ends in one of several ways.                     *)
(***************************************************************************)
EXTENDS Naturals, Sequences

CONSTANTS
  Job,             \* runs
  Sync, Failing, Async,  \* subscribers: plain, plain ones that raise, coroutines
  Order,           \* in which publish calls them
  Ways             \* how a run may end, among those below

Subscriber == Sync \cup Failing \cup Async

ASSUME PlatformRunAssumption ==
  /\ Ways \subseteq {"completed", "paused", "raised", "cancelled"}
  /\ Order \in Seq(Subscriber)
  /\ \A s \in Subscriber : \E n \in DOMAIN Order : Order[n] = s
  /\ \A m, n \in DOMAIN Order : Order[m] = Order[n] => m = n

VARIABLES
  job,        \* run -> "new", "prepared", "started" or "over", and how it ended
  heard,      \* subscriber -> the events it was called with
  scheduled   \* coroutine -> the events of its tasks that have not begun

platformRunVars == <<job, heard, scheduled>>

Event == [job : Job, type : {"started", "completed"}, success : BOOLEAN]

PlatformRunTypeOK ==
  /\ job \in [Job -> [at : {"new", "prepared", "started", "over"},
                      end : Ways \cup {"none"}]]
  /\ heard \in [Subscriber -> Seq(Event)]
  /\ scheduled \in [Async -> Seq(Event)]

PlatformRunInit ==
  /\ job = [j \in Job |-> [at |-> "new", end |-> "none"]]
  /\ heard = [s \in Subscriber |-> << >>]
  /\ scheduled = [s \in Async |-> << >>]

-----------------------------------------------------------------------------
(* subscribe keeps those of an event type before the wildcards; publish    *)
(* calls them one after the other.  The mutant ends at one that raises.    *)
CalledUntilRaise == {Order[n] : n \in {n \in DOMAIN Order :
                       \A m \in 1..n-1 : Order[m] \notin Failing}}
Called == {Order[n] : n \in DOMAIN Order}

(* A coroutine is made into a task.                                        *)
Publish(event) ==
  /\ heard' = [s \in Subscriber |->
       IF s \in Called \ Async THEN Append(heard[s], event) ELSE heard[s]]
  /\ scheduled' = [s \in Async |->
       IF s \in Called THEN Append(scheduled[s], event) ELSE scheduled[s]]

(* The cache is loaded, the graph valid, the node there and its runtime    *)
(* built; if not, no one hears of the run.                                 *)
Prepare(j) ==
  /\ job[j].at = "new"
  /\ job' \in {[job EXCEPT ![j].at = "prepared"], [job EXCEPT ![j].at = "over"]}
  /\ UNCHANGED <<heard, scheduled>>

StartRun(j) ==
  /\ job[j].at = "prepared"
  /\ job' = [job EXCEPT ![j].at = "started"]
  /\ Publish([job |-> j, type |-> "started", success |-> TRUE])

(* A run that Agno answers with another status than completed raises, as   *)
(* one that fails does; CancelledError is no Exception.                    *)
Success(way) == way \in {"completed", "cancelled"}

EndRun(j) ==
  /\ job[j].at = "started"
  /\ \E way \in Ways :
       /\ job' = [job EXCEPT ![j] = [at |-> "over", end |-> way]]
       /\ Publish([job |-> j, type |-> "completed", success |-> Success(way)])

(* The loop begins the tasks of a coroutine in their order; one that       *)
(* raises is logged.                                                       *)
RunTask ==
  /\ \E s \in Async :
       /\ scheduled[s] # << >>
       /\ heard' = [heard EXCEPT ![s] = Append(@, Head(scheduled[s]))]
       /\ scheduled' = [scheduled EXCEPT ![s] = Tail(@)]
  /\ UNCHANGED job

PlatformRunNext ==
  RunTask \/ \E j \in Job : Prepare(j) \/ StartRun(j) \/ EndRun(j)

PlatformRunSpec == PlatformRunInit /\ [][PlatformRunNext]_platformRunVars

-----------------------------------------------------------------------------
RunEnded(j) == job[j].at = "over" /\ job[j].end # "none"
RunBegan(j) == job[j].at = "started" \/ RunEnded(j)
Hears(s, j, type) ==
  \E n \in DOMAIN heard[s] : heard[s][n].job = j /\ heard[s][n].type = type

(* Every subscriber, whichever of them raise, hears of every run that has  *)
(* started: once that it has, and after that once how it ended; coroutines *)
(* once the tasks made for them have run.  A run that was cancelled is     *)
(* told as a success.                                                      *)
EventsPaired ==
  \A s \in Subscriber :
    /\ \A m, n \in DOMAIN heard[s] :
         m < n /\ heard[s][m].job = heard[s][n].job =>
           heard[s][m].type = "started" /\ heard[s][n].type = "completed"
    /\ \A n \in DOMAIN heard[s] :
         LET event == heard[s][n] IN event.type = "completed" =>
           /\ \E m \in 1..n-1 : heard[s][m].job = event.job
           /\ event.success = (job[event.job].end \in {"completed", "cancelled"})
    /\ s \notin Async \/ scheduled[s] = << >> =>
         \A j \in Job : /\ Hears(s, j, "started") <=> RunBegan(j)
                        /\ Hears(s, j, "completed") <=> RunEnded(j)
=============================================================================
