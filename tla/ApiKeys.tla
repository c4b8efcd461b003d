------------------------------ MODULE ApiKeys ------------------------------
(***************************************************************************)
(* API keys of agents.  A request for a run is authenticated by its key,   *)
(* authorised against the nodes in the database, and then started with the *)
(* node the worker's snapshot has: three reads of three different moments. *)
(* Nodes are renamed and (de)activated by other requests, also of other    *)
(* workers, whose writes reach this snapshot only with its next refresh.   *)
(***************************************************************************)
EXTENDS Naturals, FiniteSets

CONSTANTS
  Agent,       \* agent nodes
  Name,        \* their slugs
  Key,         \* API keys
  Caller,      \* requests for a run
  NoOne        \* no node, no slug, no key

KeyRow == [of : Agent, active : BOOLEAN, expired : BOOLEAN]

ASSUME ApiKeysAssumption ==
  /\ NoOne \notin Agent \cup Name \cup Key \cup KeyRow
  /\ Agent \cap Name = {} /\ IsFiniteSet(Agent)

VARIABLES
  agent,    \* agent_nodes: slug and is_active
  known,    \* the worker's snapshot: agent -> slug, for active ones
  key,      \* agent_api_keys: node_id, is_active and whether expires_at is past
  caller,   \* request -> step, key, what it asks for, and the node that is run
  holders   \* slug -> nodes that have ever been active with it

apiKeysVars == <<agent, known, key, caller, holders>>

Nobody == [step |-> "away", key |-> NoOne, for |-> NoOne, node |-> NoOne]

ApiKeysTypeOK ==
  /\ agent \in [Agent -> [slug : Name, active : BOOLEAN]]
  /\ known \in [Agent -> Name \cup {NoOne}]
  /\ key \in [Key -> KeyRow \cup {NoOne}]
  /\ caller \in [Caller -> [step : {"away", "authenticated", "authorized", "running"},
                            key : Key \cup {NoOne},
                            for : Agent \cup Name \cup {NoOne},
                            node : Agent \cup {NoOne}]]
  /\ holders \in [Name -> SUBSET Agent]

(* What a refresh reads: one active node for a slug.                       *)
ActiveNames(rows) == [n \in Agent |-> IF rows[n].active THEN rows[n].slug ELSE NoOne]
Holding(rows, s) == {n \in Agent : rows[n].active /\ rows[n].slug = s}
OneEach(rows) == \A s \in Name : Cardinality(Holding(rows, s)) <= 1

ApiKeysInit ==
  /\ agent \in [Agent -> [slug : Name, active : BOOLEAN]] /\ OneEach(agent)
  /\ known = ActiveNames(agent)
  /\ key = [k \in Key |-> NoOne]
  /\ caller = [r \in Caller |-> Nobody]
  /\ holders = [s \in Name |-> Holding(agent, s)]

-----------------------------------------------------------------------------
(* Other requests                                                          *)

(* Node administration; that active slugs stay unique is GraphAdmin's.     *)
ChangeAgent ==
  /\ \E n \in Agent, s \in Name, on \in BOOLEAN :
       agent' = [agent EXCEPT ![n] = [slug |-> s, active |-> on]]
  /\ OneEach(agent')
  /\ holders' = [s \in Name |-> holders[s] \cup Holding(agent', s)]
  /\ UNCHANGED <<known, key, caller>>

RefreshAgents ==
  /\ known' = ActiveNames(agent)
  /\ UNCHANGED <<agent, key, caller, holders>>

(* The node was active when the request looked it up.                      *)
CreateKey ==
  /\ \E k \in Key, n \in Agent :
       /\ key[k] = NoOne
       /\ key' = [key EXCEPT ![k] = [of |-> n, active |-> TRUE, expired |-> FALSE]]
  /\ UNCHANGED <<agent, known, caller, holders>>

RevokeKey ==
  /\ \E k \in Key : /\ key[k] # NoOne
                    /\ key[k].active
                    /\ key' = [key EXCEPT ![k].active = FALSE]
  /\ UNCHANGED <<agent, known, caller, holders>>

TimePasses ==
  /\ \E k \in Key : /\ key[k] # NoOne
                    /\ key' = [key EXCEPT ![k].expired = TRUE]
  /\ UNCHANGED <<agent, known, caller, holders>>

-----------------------------------------------------------------------------
(* A run                                                                   *)

Usable(k) == key[k] # NoOne /\ key[k].active /\ ~key[k].expired

(* A request names exactly one of node_id and slug.                        *)
Authenticate(r) ==
  /\ caller[r].step = "away"
  /\ \E k \in Key, f \in Agent \cup Name :
       /\ Usable(k)
       /\ caller' = [caller EXCEPT ![r] =
            [step |-> "authenticated", key |-> k, for |-> f, node |-> NoOne]]
  /\ UNCHANGED <<agent, known, key, holders>>

(* The mutant is content with any active node.                             *)
AllowedAny(k, f) == \E n \in Agent : agent[n].active /\ f \in {n, agent[n].slug}
Allowed(k, f) ==
  \E n \in Agent : agent[n].active /\ f \in {n, agent[n].slug} /\ n = key[k].of

(* Neither is_active nor expires_at of the key is looked at again.         *)
AuthorizeForNode(r) ==
  /\ caller[r].step = "authenticated"
  /\ Allowed(caller[r].key, caller[r].for)
  /\ caller' = [caller EXCEPT ![r].step = "authorized"]
  /\ UNCHANGED <<agent, known, key, holders>>

ResolveAndRun(r) ==
  /\ caller[r].step = "authorized"
  /\ \E n \in Agent :
       /\ known[n] # NoOne /\ caller[r].for \in {n, known[n]}
       /\ caller' = [caller EXCEPT ![r].step = "running", ![r].node = n]
  /\ UNCHANGED <<agent, known, key, holders>>

(* Answered: 401, 403, 404, an error of the database, or the run's result. *)
CallerLeaves(r) ==
  /\ caller[r].step # "away"
  /\ caller' = [caller EXCEPT ![r] = Nobody]
  /\ UNCHANGED <<agent, known, key, holders>>

ApiKeysNext ==
  \/ ChangeAgent \/ RefreshAgents \/ CreateKey \/ RevokeKey \/ TimePasses
  \/ \E r \in Caller : \/ Authenticate(r) \/ AuthorizeForNode(r)
                       \/ ResolveAndRun(r) \/ CallerLeaves(r)

ApiKeysSpec == ApiKeysInit /\ [][ApiKeysNext]_apiKeysVars

-----------------------------------------------------------------------------
(* A run is of its key's node, although the node is looked up a second     *)
(* time and elsewhere; only a slug that has changed hands can lead to      *)
(* another one (database and snapshot then disagree on whose it is).       *)
KeyAuthority ==
  \A r \in Caller : caller[r].step = "running" =>
    \/ caller[r].node = key[caller[r].key].of
    \/ /\ caller[r].for \in Name
       /\ Cardinality(holders[caller[r].for]) > 1
=============================================================================
