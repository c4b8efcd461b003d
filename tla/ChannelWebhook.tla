--------------------------- MODULE ChannelWebhook ---------------------------
(***************************************************************************)
(* Updates of one bot channel: the provider delivers an update, again if   *)
(* it sees no answer; the webhook claims it with an INSERT that a repeated *)
(* delivery does not win, answers, and runs the agent in a background task *)
(* of the same worker; the background task sends the answer in parts and   *)
(* settles the row of the update.                                          *)
(***************************************************************************)
EXTENDS Naturals

CONSTANTS
  Worker, Task, Home,   \* request handlers and the worker each runs in
  Update,               \* provider update ids
  NoUpdate,
  Inputs,               \* what the updates may hold, see Contents
  MaxParts,             \* bound: parts an answer is split into
  CanFail               \* may statements and secrets fail, workers die?

(* "silent": no message, or one of a bot.  "homeless": no chat id.         *)
(* "media": nothing but a photo, a sticker, ...                            *)
Contents == {"silent", "homeless", "media", "text"}

ASSUME HomeAssumption == Home \in [Task -> Worker]
ASSUME UpdateAssumption ==
  NoUpdate \notin Update /\ Inputs \subseteq [Update -> Contents]
ASSUME BoundAssumption == MaxParts \in Nat \ {0} /\ CanFail \in BOOLEAN

VARIABLES
  content,  \* what each update holds
  enabled,  \* agent_channels.is_enabled
  row,      \* agent_channel_updates.status, "none" before the claim
  acked,    \* updates the provider has seen a 200 for
  pc,
  upd,      \* the update a handler is about
  left,     \* parts of the answer not sent yet
  parts,    \* history: parts of the answer to an update
  dropped,  \* history: claimed updates whose processing was cut short
  runs,     \* history: what the chat and the agent have seen,
  sent,     \*   as in ChannelReply
  told,
  notices

chat == <<runs, sent, told, notices>>
vars == <<content, enabled, row, acked, pc, upd, left, parts, dropped, chat>>

(* Up to "respond" in accept(), from "begin" on in process().              *)
Pcs == {"idle", "claim", "respond", "repeat", "begin", "notice", "typing",
        "run", "send", "complete", "fail", "failTell", "tell"}

Statuses == {"none", "processing", "completed", "failed"}

TypeOK ==
  /\ content \in [Update -> Contents]
  /\ enabled \in BOOLEAN
  /\ row \in [Update -> Statuses]
  /\ acked \subseteq Update
  /\ pc \in [Task -> Pcs]
  /\ upd \in [Task -> Update \cup {NoUpdate}]
  /\ \A t \in Task : pc[t] # "idle" => upd[t] \in Update
  /\ left \in [Task -> 0..MaxParts]
  /\ parts \in [Update -> 0..MaxParts]
  /\ dropped \subseteq Update
  /\ runs \in [Update -> Nat] /\ sent \in [Update -> Nat]
  /\ told \in [Update -> Nat] /\ notices \in [Update -> Nat]

Init ==
  /\ content \in Inputs
  /\ enabled = TRUE
  /\ row = [u \in Update |-> "none"]
  /\ acked = {}
  /\ pc = [t \in Task |-> "idle"]
  /\ upd = [t \in Task |-> NoUpdate]
  /\ left = [t \in Task |-> 0]
  /\ parts = [u \in Update |-> 0]
  /\ dropped = {}
  /\ runs = [u \in Update |-> 0]
  /\ sent = [u \in Update |-> 0]
  /\ told = [u \in Update |-> 0]
  /\ notices = [u \in Update |-> 0]

Goto(t, from, to) ==
  /\ pc[t] = from
  /\ pc' = [pc EXCEPT ![t] = to]
  /\ UNCHANGED <<content, enabled, upd, dropped>>

(* The handler or its background task is over, or it stops in the middle.  *)
Free(t, from) ==
  /\ pc[t] = from
  /\ pc' = [pc EXCEPT ![t] = "idle"]
  /\ upd' = [upd EXCEPT ![t] = NoUpdate]
  /\ left' = [left EXCEPT ![t] = 0]
  /\ UNCHANGED <<content, enabled, parts>>

End(t, from)  == Free(t, from) /\ UNCHANGED dropped
Stop(t, from) == Free(t, from) /\ dropped' = dropped \cup {upd[t]}

(* From a successful claim on, a handler owns its update.                  *)
Owner(t) == pc[t] \notin {"idle", "claim", "repeat"}

Settle(u, status) == row' = [row EXCEPT ![u] = status]
Count(f, u) == [f EXCEPT ![u] = @ + 1]

-----------------------------------------------------------------------------
(* The provider and the administrator.                                     *)

(* An update that is not acknowledged is delivered, again and by several   *)
(* handlers at once if the provider pleases.  accept() has found the       *)
(* channel enabled and the secret right; otherwise nothing happens.        *)
Deliver(t, u) ==
  /\ pc[t] = "idle" /\ u \notin acked /\ enabled
  /\ pc' = [pc EXCEPT ![t] = "claim"]
  /\ upd' = [upd EXCEPT ![t] = u]
  /\ UNCHANGED <<content, enabled, row, acked, left, parts, dropped, chat>>

Toggle ==
  /\ enabled' = ~enabled
  /\ UNCHANGED <<content, row, acked, pc, upd, left, parts, dropped, chat>>

-----------------------------------------------------------------------------
(* accept() and the route                                                  *)

(* Mutant: an INSERT that overwrites the row of an earlier delivery.       *)
ClaimAlways(t) ==
  /\ Goto(t, "claim", "respond")
  /\ Settle(upd[t], "processing")
  /\ UNCHANGED <<acked, left, parts, chat>>

(* INSERT ... ON CONFLICT DO NOTHING RETURNING: one delivery gets the row. *)
Claim(t) ==
  /\ Goto(t, "claim", "respond")
  /\ row[upd[t]] = "none"
  /\ Settle(upd[t], "processing")
  /\ UNCHANGED <<acked, left, parts, chat>>

(* Mutant: a repeated delivery is processed as well.                       *)
ClaimLostGoesOn(t) ==
  /\ Goto(t, "claim", "respond")
  /\ row[upd[t]] # "none"
  /\ UNCHANGED <<row, acked, left, parts, chat>>

ClaimLost(t) ==
  /\ Goto(t, "claim", "repeat")
  /\ row[upd[t]] # "none"
  /\ UNCHANGED <<row, acked, left, parts, chat>>

(* Mutant: a failed INSERT is answered like a repeated delivery.           *)
ClaimFailsQuietly(t) ==
  /\ CanFail
  /\ Goto(t, "claim", "repeat")
  /\ UNCHANGED <<row, acked, left, parts, chat>>

(* The INSERT fails, or it commits and its answer is lost.                 *)
ClaimFails(t) ==
  /\ CanFail
  /\ \/ End(t, "claim") /\ UNCHANGED row
     \/ /\ Stop(t, "claim")
        /\ row[upd[t]] = "none" /\ Settle(upd[t], "processing")
  /\ UNCHANGED <<acked, chat>>

(* {"ok": True}, which the provider sees or not; then the background task. *)
Respond(t) ==
  /\ Goto(t, "respond", "begin")
  /\ acked' \in {acked, acked \cup {upd[t]}}
  /\ UNCHANGED <<row, left, parts, chat>>

RespondRepeat(t) ==
  /\ End(t, "repeat")
  /\ acked' \in {acked, acked \cup {upd[t]}}
  /\ UNCHANGED <<row, chat>>

-----------------------------------------------------------------------------
(* process()                                                               *)

Dispatch ==
  [silent |-> "complete", homeless |-> "fail",
   media |-> "notice", text |-> "typing"]

(* Mutant: the update of a channel switched off meanwhile is forgotten.    *)
BeginQuietly(t) ==
  /\ \/ enabled /\ Goto(t, "begin", Dispatch[content[upd[t]]])
        /\ UNCHANGED <<left, parts>>
     \/ ~enabled /\ End(t, "begin")
  /\ UNCHANGED <<row, acked, chat>>

Begin(t) ==
  /\ Goto(t, "begin", IF enabled THEN Dispatch[content[upd[t]]] ELSE "fail")
  /\ UNCHANGED <<row, acked, left, parts, chat>>

(* The first read or the decryption of the token raises: outside any try,  *)
(* so that the row stays as it is.                                         *)
BeginFails(t) ==
  /\ CanFail
  /\ Stop(t, "begin")
  /\ UNCHANGED <<row, acked, chat>>

(* A call of the provider that raises may have delivered the message.      *)
Notice(t) ==
  /\ Goto(t, "notice", "complete")
  /\ notices' = Count(notices, upd[t])
  /\ UNCHANGED <<row, acked, left, parts, runs, sent, told>>

NoticeFails(t) ==
  /\ Goto(t, "notice", "fail")
  /\ notices' \in {notices, Count(notices, upd[t])}
  /\ UNCHANGED <<row, acked, left, parts, runs, sent, told>>

(* The typing action may fail without effect; then the agent runs.         *)
StartRun(t) ==
  /\ Goto(t, "typing", "run")
  /\ runs' = Count(runs, upd[t])
  /\ UNCHANGED <<row, acked, left, parts, sent, told, notices>>

(* _split_message makes at least one part of an answer.                    *)
RunAnswers(t) ==
  /\ Goto(t, "run", "send")
  /\ \E n \in 1..MaxParts :
       /\ left' = [left EXCEPT ![t] = n]
       /\ parts' = [parts EXCEPT ![upd[t]] = n]
  /\ UNCHANGED <<row, acked, chat>>

RunFails(t) ==
  /\ Goto(t, "run", "failTell")
  /\ UNCHANGED <<row, acked, left, parts, chat>>

(* Mutant: one part too many.                                              *)
SendPartMore(t) ==
  /\ Goto(t, "send", IF left[t] = 0 THEN "complete" ELSE "send")
  /\ left' = [left EXCEPT ![t] = @ - 1]
  /\ sent' = Count(sent, upd[t])
  /\ UNCHANGED <<row, acked, parts, runs, told, notices>>

SendPart(t) ==
  /\ Goto(t, "send", IF left[t] = 1 THEN "complete" ELSE "send")
  /\ left[t] > 0
  /\ left' = [left EXCEPT ![t] = @ - 1]
  /\ sent' = Count(sent, upd[t])
  /\ UNCHANGED <<row, acked, parts, runs, told, notices>>

(* Mutant: a part that cannot be sent is skipped.                          *)
SendFailsSkipped(t) ==
  /\ Goto(t, "send", IF left[t] = 1 THEN "complete" ELSE "send")
  /\ left' = [left EXCEPT ![t] = @ - 1]
  /\ UNCHANGED <<row, acked, parts, chat>>

SendFails(t) ==
  /\ Goto(t, "send", "failTell")
  /\ sent' \in {sent, Count(sent, upd[t])}
  /\ UNCHANGED <<row, acked, left, parts, runs, told, notices>>

MarkCompleted(t) ==
  /\ End(t, "complete")
  /\ Settle(upd[t], "completed")
  /\ UNCHANGED <<acked, chat>>

(* What a failed UPDATE leads to depends on the try it is in.              *)
CompleteFailsText(t) ==
  /\ CanFail
  /\ Goto(t, "complete", "failTell")
  /\ content[upd[t]] = "text"
  /\ UNCHANGED <<row, acked, left, parts, chat>>

CompleteFailsMedia(t) ==
  /\ CanFail
  /\ Goto(t, "complete", "fail")
  /\ content[upd[t]] = "media"
  /\ UNCHANGED <<row, acked, left, parts, chat>>

CompleteFailsSilent(t) ==
  /\ CanFail
  /\ Stop(t, "complete")
  /\ content[upd[t]] = "silent"
  /\ UNCHANGED <<row, acked, chat>>

(* Mutant: giving up without settling the row.                             *)
MarkFailedNever(t) ==
  /\ End(t, "fail")
  /\ UNCHANGED <<row, acked, chat>>

MarkFailed(t) ==
  /\ End(t, "fail")
  /\ Settle(upd[t], "failed")
  /\ UNCHANGED <<acked, chat>>

MarkFailedTell(t) ==
  /\ Goto(t, "failTell", "tell")
  /\ Settle(upd[t], "failed")
  /\ UNCHANGED <<acked, left, parts, chat>>

(* The UPDATE raises inside the except clause: no error message either.    *)
MarkFails(t) ==
  /\ CanFail
  /\ Stop(t, "fail") \/ Stop(t, "failTell")
  /\ UNCHANGED <<row, acked, chat>>

Tell(t) ==
  /\ End(t, "tell")
  /\ told' \in {told, Count(told, upd[t])}
  /\ UNCHANGED <<row, acked, runs, sent, notices>>

-----------------------------------------------------------------------------
(* A worker dies with its handlers and background tasks.                   *)
WorkerRestart(w) ==
  LET Here == {t \in Task : Home[t] = w} IN
  /\ CanFail
  /\ pc' = [t \in Task |-> IF t \in Here THEN "idle" ELSE pc[t]]
  /\ upd' = [t \in Task |-> IF t \in Here THEN NoUpdate ELSE upd[t]]
  /\ left' = [t \in Task |-> IF t \in Here THEN 0 ELSE left[t]]
  /\ dropped' = dropped \cup {upd[t] : t \in {s \in Here : Owner(s)}}
  /\ UNCHANGED <<content, enabled, row, acked, parts, chat>>

Accept(t) ==
  Claim(t) \/ ClaimLost(t) \/ ClaimFails(t) \/ Respond(t) \/ RespondRepeat(t)

Reply(t) ==
  \/ Notice(t) \/ NoticeFails(t)
  \/ StartRun(t) \/ RunAnswers(t) \/ RunFails(t)
  \/ SendPart(t) \/ SendFails(t) \/ Tell(t)

Mark(t) ==
  \/ MarkCompleted(t) \/ MarkFailed(t) \/ MarkFailedTell(t) \/ MarkFails(t)
  \/ CompleteFailsText(t) \/ CompleteFailsMedia(t) \/ CompleteFailsSilent(t)

Process(t) == Begin(t) \/ BeginFails(t) \/ Reply(t) \/ Mark(t)

Next ==
  \/ Toggle
  \/ \E t \in Task :
       \/ \E u \in Update : Deliver(t, u)
       \/ Accept(t) \/ Process(t)
  \/ \E w \in Worker : WorkerRestart(w)

Spec == Init /\ [][Next]_vars

(* A handler that has started goes on: the event loop runs it, and its     *)
(* statements, the agent and the calls of the provider return or time out. *)
Fairness == \A t \in Task : WF_vars(Accept(t) \/ Process(t))
FairSpec == Spec /\ Fairness

-----------------------------------------------------------------------------
(* What the webhook promises.                                              *)

(* However often the provider delivers an update, and whatever fails or    *)
(* dies in between, the chat sees the effects of at most one processing.   *)
ChatView == INSTANCE ChannelReply
AtMostOnce == ChatView!Spec

(* A row says "completed" only when every part of the answer was sent.     *)
CompletedIsAnswered ==
  \A u \in Update :
    row[u] = "completed" /\ content[u] = "text" =>
      runs[u] = 1 /\ parts[u] > 0 /\ sent[u] = parts[u]

(* The provider is told to forget an update only once it is on record.     *)
AckedIsClaimed == \A u \in acked : row[u] # "none"

(* A row says "processing" only while a handler is at work on the update,  *)
(* or if a failing statement or a death has cut its processing short.      *)
(* Then it stays so for ever: nothing takes the update up again.           *)
ProcessingIsOwned ==
  \A u \in Update : row[u] = "processing" =>
    u \in dropped \/ \E t \in Task : Owner(t) /\ upd[t] = u

(* Every claimed update is settled, whatever the provider and the agent    *)
(* do, unless its processing is cut short.                                 *)
ClaimedIsSettled ==
  \A u \in Update :
    row[u] = "processing" ~> row[u] \in {"completed", "failed"} \/ u \in dropped

-----------------------------------------------------------------------------
(* The inductive invariant.                                                *)

(* One handler owns an update, and its row is open until it is settled.    *)
OwnerInv ==
  \A t \in Task : Owner(t) =>
    /\ \A s \in Task : Owner(s) /\ upd[s] = upd[t] => s = t
    /\ row[upd[t]] = IF pc[t] = "tell" THEN "failed" ELSE "processing"

(* A delivery that lost the claim lost it to a recorded one.               *)
RepeatInv == \A t \in Task : pc[t] = "repeat" => row[upd[t]] # "none"

(* How far the owner has come, in terms of what the chat has seen.         *)
ProgressInv ==
  /\ \A u \in Update : row[u] = "none" =>
       runs[u] = 0 /\ sent[u] = 0 /\ told[u] = 0 /\ notices[u] = 0
  /\ \A t \in Task :
       LET u == upd[t] IN
       /\ pc[t] \in {"respond", "begin", "notice", "typing"} =>
            runs[u] = 0 /\ sent[u] = 0 /\ told[u] = 0 /\ notices[u] = 0
       /\ pc[t] = "typing" => content[u] = "text"
       /\ pc[t] = "notice" => content[u] = "media"
       /\ pc[t] \in {"run", "send", "failTell", "tell"} =>
            content[u] = "text" /\ runs[u] = 1 /\ told[u] = 0
       /\ pc[t] = "run" => sent[u] = 0
       /\ pc[t] = "send" => sent[u] + left[t] = parts[u] /\ left[t] > 0
       /\ pc[t] = "complete" =>
            /\ told[u] = 0
            /\ content[u] = "text" =>
                 runs[u] = 1 /\ parts[u] > 0 /\ sent[u] = parts[u]

IInv ==
  /\ TypeOK /\ OwnerInv /\ RepeatInv /\ ProgressInv
  /\ CompletedIsAnswered /\ AckedIsClaimed /\ ProcessingIsOwned
=============================================================================
