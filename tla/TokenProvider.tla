--------------------------- MODULE TokenProvider ---------------------------
(***************************************************************************)
(* Calls of an external service's client: each needs the access token the  *)
(* client caches and fetches under an asyncio lock, and is tried once more *)
(* when it timed out, did not connect or got a status worth it.            *)
(* Time is counted in ticks, and only while a token may still be used:     *)
(* its expiry less the refresh skew.                                       *)
(***************************************************************************)
EXTENDS Naturals

CONSTANTS
  Buyer,      \* concurrent calls
  MaxLife,    \* bound: ticks for which a token may be used
  MaxRetries  \* of with_retry

ASSUME TokenProviderAssumption == MaxLife \in Nat /\ MaxRetries \in Nat

VARIABLES
  left,   \* ticks the held token may still be used; 0: none, or it expires
  since,  \* ticks since the fetch under way began
  buyer   \* call -> where it is, the retries it made, and why the last was made

tokenVars == <<left, since, buyer>>

CallSteps == {"away", "token", "lock", "fetch", "send", "sleep"}
Transient == {"timeout", "connect", "status"}
NotBuying == [at |-> "away", retries |-> 0, why |-> "none"]

TokenTypeOK ==
  /\ left \in 0..MaxLife
  /\ since \in 0..MaxLife
  /\ buyer \in [Buyer -> [at : CallSteps, retries : 0..MaxRetries,
                          why : Transient \cup {"none"}]]

TokenInit ==
  /\ left = 0
  /\ since = 0
  /\ buyer = [b \in Buyer |-> NotBuying]

Go(b, from, to) ==
  buyer[b].at = from /\ buyer' = [buyer EXCEPT ![b].at = to]

ListOrders(b) == Go(b, "away", "token") /\ UNCHANGED <<left, since>>

(* get_access_token: at once, or behind the lock, where the others who     *)
(* came for the same token look again before they fetch another.           *)
GetToken(b) ==
  /\ Go(b, "token", IF left > 0 THEN "send" ELSE "lock")
  /\ UNCHANGED <<left, since>>

LockFree == \A b \in Buyer : buyer[b].at # "fetch"

StillNeededAlways == TRUE  \* mutant
StillNeeded == left = 0

LockToken(b) ==
  /\ LockFree
  /\ Go(b, "lock", IF StillNeeded THEN "fetch" ELSE "send")
  /\ since' = 0
  /\ UNCHANGED left

(* The lifetime is counted from before the fetch; it may be no longer than *)
(* the skew, or over by the time the answer comes.                         *)
TokenFetched(b) ==
  /\ Go(b, "fetch", "send")
  /\ \E life \in 0..MaxLife : left' = IF life > since THEN life - since ELSE 0
  /\ UNCHANGED since

BuyerLeaves(b) == buyer' = [buyer EXCEPT ![b] = NotBuying]

(* with_retry: a refused token is an SDKException of another class, any    *)
(* other status and every other error are final, too.                      *)
RetryAgain(b, why) ==  \* mutant: the attempts are not counted
  buyer' = [buyer EXCEPT ![b] =
    [at |-> "sleep", retries |-> buyer[b].retries + 1, why |-> why]]
RetryOrRaise(b, why) ==
  IF buyer[b].retries < MaxRetries
  THEN buyer' = [buyer EXCEPT ![b] =
         [at |-> "sleep", retries |-> buyer[b].retries + 1, why |-> why]]
  ELSE BuyerLeaves(b)

TokenFails(b) ==
  /\ buyer[b].at = "fetch"
  /\ BuyerLeaves(b) \/ \E why \in Transient \ {"status"} : RetryOrRaise(b, why)
  /\ UNCHANGED <<left, since>>

OrdersAnswered(b) ==
  /\ buyer[b].at = "send"
  /\ BuyerLeaves(b) \/ \E why \in Transient : RetryOrRaise(b, why)
  /\ UNCHANGED <<left, since>>

Wakes(b) == Go(b, "sleep", "token") /\ UNCHANGED <<left, since>>

TokenTick ==
  /\ left' = IF left > 0 THEN left - 1 ELSE 0
  /\ since' = IF since < MaxLife THEN since + 1 ELSE since
  /\ UNCHANGED buyer

TokenNext ==
  \/ TokenTick
  \/ \E b \in Buyer :
       \/ ListOrders(b) \/ GetToken(b) \/ LockToken(b) \/ TokenFetched(b)
       \/ TokenFails(b) \/ OrdersAnswered(b) \/ Wakes(b)

TokenSpec == TokenInit /\ [][TokenNext]_tokenVars

-----------------------------------------------------------------------------
(* Tokens are fetched one at a time and never while the one held may still *)
(* be used: however many calls found it expired, retried or waited for the *)
(* lock, those behind the one that fetched use what it got.                *)
NoNeedlessFetch ==
  \A b \in Buyer : buyer[b].at = "fetch" =>
    left = 0 /\ \A o \in Buyer \ {b} : buyer[o].at # "fetch"
=============================================================================
