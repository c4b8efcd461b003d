------------------------ MODULE ChannelWebhookProofs ------------------------
(***************************************************************************)
(* Proofs about ChannelWebhook, for any number of updates, handlers and    *)
(* workers: the claim makes one handler the owner of an update, and so the *)
(* chat sees at most one processing of it.                                 *)
(***************************************************************************)
EXTENDS ChannelWebhook, TLAPS

USE DEF Goto, Free, End, Stop, Owner, Settle, Count, chat

(* The invariant holds at the start.                                       *)
LEMMA InvInit ==
  ASSUME Init
  PROVE  IInv
  BY BoundAssumption, UpdateAssumption
     DEF Init, IInv, TypeOK, OwnerInv, RepeatInv, ProgressInv, Pcs,
         Statuses, CompletedIsAnswered, AckedIsClaimed, ProcessingIsOwned

(* Every step keeps the types.                                             *)
LEMMA TypeStep ==
  ASSUME TypeOK, [Next]_vars
  PROVE  TypeOK'
<1> USE BoundAssumption, UpdateAssumption, HomeAssumption
<1> USE DEF TypeOK, Pcs, Statuses
<1>1. ASSUME NEW t \in Task, Accept(t)
      PROVE  TypeOK'
  <2>1. CASE Claim(t)
    BY <2>1 DEF Claim
  <2>2. CASE ClaimLost(t)
    BY <2>2 DEF ClaimLost
  <2>3. CASE ClaimFails(t)
    BY <2>3 DEF ClaimFails
  <2>4. CASE Respond(t)
    BY <2>4 DEF Respond
  <2>5. CASE RespondRepeat(t)
    BY <2>5 DEF RespondRepeat
  <2> QED
    BY <1>1, <2>1, <2>2, <2>3, <2>4, <2>5 DEF Accept
<1>2. ASSUME NEW t \in Task, Begin(t)
      PROVE  TypeOK'
  BY <1>2 DEF Begin, Dispatch, Contents
<1>3. ASSUME NEW t \in Task, BeginFails(t)
      PROVE  TypeOK'
  BY <1>3 DEF BeginFails
<1>4. ASSUME NEW t \in Task, Reply(t)
      PROVE  TypeOK'
  <2>1. CASE Notice(t)
    BY <2>1 DEF Notice
  <2>2. CASE NoticeFails(t)
    BY <2>2 DEF NoticeFails
  <2>3. CASE StartRun(t)
    BY <2>3 DEF StartRun
  <2>4. CASE RunAnswers(t)
    BY <2>4 DEF RunAnswers
  <2>5. CASE RunFails(t)
    BY <2>5 DEF RunFails
  <2>6. CASE SendPart(t)
    BY <2>6 DEF SendPart
  <2>7. CASE SendFails(t)
    BY <2>7 DEF SendFails
  <2>8. CASE Tell(t)
    BY <2>8 DEF Tell
  <2> QED
    BY <1>4, <2>1, <2>2, <2>3, <2>4, <2>5, <2>6, <2>7, <2>8 DEF Reply
<1>5. ASSUME NEW t \in Task, Mark(t)
      PROVE  TypeOK'
  <2>1. CASE MarkCompleted(t)
    BY <2>1 DEF MarkCompleted
  <2>2. CASE MarkFailed(t)
    BY <2>2 DEF MarkFailed
  <2>3. CASE MarkFailedTell(t)
    BY <2>3 DEF MarkFailedTell
  <2>4. CASE MarkFails(t)
    BY <2>4 DEF MarkFails
  <2>5. CASE CompleteFailsText(t)
    BY <2>5 DEF CompleteFailsText
  <2>6. CASE CompleteFailsMedia(t)
    BY <2>6 DEF CompleteFailsMedia
  <2>7. CASE CompleteFailsSilent(t)
    BY <2>7 DEF CompleteFailsSilent
  <2> QED
    BY <1>5, <2>1, <2>2, <2>3, <2>4, <2>5, <2>6, <2>7 DEF Mark
<1>6. ASSUME NEW t \in Task, NEW u \in Update, Deliver(t, u)
      PROVE  TypeOK'
  BY <1>6 DEF Deliver
<1>7. ASSUME Toggle
      PROVE  TypeOK'
  BY <1>7 DEF Toggle
<1>8. ASSUME NEW w \in Worker, WorkerRestart(w)
      PROVE  TypeOK'
  BY <1>8 DEF WorkerRestart
<1>9. CASE UNCHANGED vars
  BY <1>9 DEF vars
<1> QED
  BY <1>1, <1>2, <1>3, <1>4, <1>5, <1>6, <1>7, <1>8, <1>9 DEF Next, Process

(* Every step keeps the inductive invariant.                               *)
LEMMA InvStep ==
  ASSUME IInv, [Next]_vars
  PROVE  IInv'
<1> DEFINE Good == OwnerInv /\ RepeatInv /\ ProgressInv
                     /\ CompletedIsAnswered /\ AckedIsClaimed
                     /\ ProcessingIsOwned
<1> TypeOK'
  BY TypeStep DEF IInv
<1> USE BoundAssumption, UpdateAssumption, HomeAssumption
<1> USE DEF IInv, TypeOK, OwnerInv, RepeatInv, ProgressInv, CompletedIsAnswered, AckedIsClaimed, ProcessingIsOwned
<1>1. ASSUME NEW t \in Task, Accept(t)
      PROVE  Good'
  <2>1. CASE Claim(t)
    BY <2>1 DEF Claim
  <2>2. CASE ClaimLost(t)
    BY <2>2 DEF ClaimLost
  <2>3. CASE ClaimFails(t)
    BY <2>3 DEF ClaimFails
  <2>4. CASE Respond(t)
    BY <2>4 DEF Respond
  <2>5. CASE RespondRepeat(t)
    BY <2>5 DEF RespondRepeat
  <2> QED
    BY <1>1, <2>1, <2>2, <2>3, <2>4, <2>5 DEF Accept
<1>2. ASSUME NEW t \in Task, Begin(t)
      PROVE  Good'
  BY <1>2 DEF Begin, Dispatch, Contents
<1>3. ASSUME NEW t \in Task, BeginFails(t)
      PROVE  Good'
  BY <1>3 DEF BeginFails
<1>4. ASSUME NEW t \in Task, Reply(t)
      PROVE  Good'
  <2>1. CASE Notice(t)
    BY <2>1 DEF Notice
  <2>2. CASE NoticeFails(t)
    BY <2>2 DEF NoticeFails
  <2>3. CASE StartRun(t)
    BY <2>3 DEF StartRun
  <2>4. CASE RunAnswers(t)
    BY <2>4 DEF RunAnswers
  <2>5. CASE RunFails(t)
    BY <2>5 DEF RunFails
  <2>6. CASE SendPart(t)

    <3> DEFINE u == upd[t]
    <3>1. u \in Update /\ left[t] \in Nat /\ sent[u] \in Nat /\ parts[u] \in Nat
      BY <2>6 DEF SendPart
    <3>2. /\ sent' = [sent EXCEPT ![u] = sent[u] + 1]
          /\ left' = [left EXCEPT ![t] = left[t] - 1]
          /\ upd' = upd /\ parts' = parts /\ row' = row /\ runs' = runs
          /\ told' = told /\ notices' = notices /\ acked' = acked
          /\ content' = content /\ dropped' = dropped
          /\ pc[t] = "send" /\ left[t] > 0
          /\ sent[u] + left[t] = parts[u]
          /\ pc' = [pc EXCEPT ![t] = IF left[t] = 1 THEN "complete" ELSE "send"]
      BY <2>6 DEF SendPart
    <3>3. sent[u] + 1 + (left[t] - 1) = parts[u]
      BY <3>1, <3>2
    <3>4. left[t] # 1 => left[t] - 1 > 0
      BY <3>1, <3>2
    <3>5. left[t] = 1 => sent[u] + 1 = parts[u] /\ parts[u] > 0
      BY <3>1, <3>2
    <3>6. ProgressInv'
      BY <3>1, <3>2, <3>3, <3>4, <3>5
    <3>7. OwnerInv' /\ RepeatInv' /\ CompletedIsAnswered' /\ AckedIsClaimed'
            /\ ProcessingIsOwned'
      BY <3>1, <3>2
    <3> QED
      BY <3>6, <3>7
  <2>7. CASE SendFails(t)
    BY <2>7 DEF SendFails
  <2>8. CASE Tell(t)
    BY <2>8 DEF Tell
  <2> QED
    BY <1>4, <2>1, <2>2, <2>3, <2>4, <2>5, <2>6, <2>7, <2>8 DEF Reply
<1>5. ASSUME NEW t \in Task, Mark(t)
      PROVE  Good'
  <2>1. CASE MarkCompleted(t)
    BY <2>1 DEF MarkCompleted
  <2>2. CASE MarkFailed(t)
    BY <2>2 DEF MarkFailed
  <2>3. CASE MarkFailedTell(t)
    BY <2>3 DEF MarkFailedTell
  <2>4. CASE MarkFails(t)
    BY <2>4 DEF MarkFails
  <2>5. CASE CompleteFailsText(t)
    BY <2>5 DEF CompleteFailsText
  <2>6. CASE CompleteFailsMedia(t)
    BY <2>6 DEF CompleteFailsMedia
  <2>7. CASE CompleteFailsSilent(t)
    BY <2>7 DEF CompleteFailsSilent
  <2> QED
    BY <1>5, <2>1, <2>2, <2>3, <2>4, <2>5, <2>6, <2>7 DEF Mark
<1>6. ASSUME NEW t \in Task, NEW u \in Update, Deliver(t, u)
      PROVE  Good'
  BY <1>6 DEF Deliver
<1>7. ASSUME Toggle
      PROVE  Good'
  BY <1>7 DEF Toggle
<1>8. ASSUME NEW w \in Worker, WorkerRestart(w)
      PROVE  Good'
  BY <1>8 DEF WorkerRestart
<1>9. CASE UNCHANGED vars
  BY <1>9 DEF vars
<1> QED
  BY <1>1, <1>2, <1>3, <1>4, <1>5, <1>6, <1>7, <1>8, <1>9 DEF Next, Process

(* The handlers and the rows of the updates are of their types.            *)
THEOREM TypeCorrect == Spec => []TypeOK
<1>1. Init => IInv
  BY InvInit
<1>2. IInv /\ [Next]_vars => IInv'
  BY InvStep
<1>3. IInv => TypeOK
  BY DEF IInv
<1> QED
  BY <1>1, <1>2, <1>3, PTL DEF Spec

(* A completed row means that every part of the answer was sent.           *)
THEOREM CompletedIsAnsweredHolds == Spec => []CompletedIsAnswered
<1>1. Init => IInv
  BY InvInit
<1>2. IInv /\ [Next]_vars => IInv'
  BY InvStep
<1>3. IInv => CompletedIsAnswered
  BY DEF IInv
<1> QED
  BY <1>1, <1>2, <1>3, PTL DEF Spec

(* The provider stops delivering an update only once it is on record.      *)
THEOREM AckedIsClaimedHolds == Spec => []AckedIsClaimed
<1>1. Init => IInv
  BY InvInit
<1>2. IInv /\ [Next]_vars => IInv'
  BY InvStep
<1>3. IInv => AckedIsClaimed
  BY DEF IInv
<1> QED
  BY <1>1, <1>2, <1>3, PTL DEF Spec

(* A row that says "processing" has a handler at work on it, unless that   *)
(* handler was cut short.                                                  *)
THEOREM ProcessingIsOwnedHolds == Spec => []ProcessingIsOwned
<1>1. Init => IInv
  BY InvInit
<1>2. IInv /\ [Next]_vars => IInv'
  BY InvStep
<1>3. IInv => ProcessingIsOwned
  BY DEF IInv
<1> QED
  BY <1>1, <1>2, <1>3, PTL DEF Spec

-----------------------------------------------------------------------------
(* Every step is a step of ChannelReply or leaves the chat alone.          *)
LEMMA ChatStep ==
  ASSUME IInv, [Next]_vars
  PROVE  [ChatView!Next]_(ChatView!vars)
<1> DEFINE Goal == ChatView!Next \/ UNCHANGED chat
<1> SUFFICES Goal
  BY DEF ChatView!vars
<1> USE DEF IInv, TypeOK, ProgressInv
<1>1. ASSUME NEW t \in Task, Accept(t)
      PROVE  Goal
  <2>1. CASE Claim(t)
    BY <2>1 DEF Claim
  <2>2. CASE ClaimLost(t)
    BY <2>2 DEF ClaimLost
  <2>3. CASE ClaimFails(t)
    BY <2>3 DEF ClaimFails
  <2>4. CASE Respond(t)
    BY <2>4 DEF Respond
  <2>5. CASE RespondRepeat(t)
    BY <2>5 DEF RespondRepeat
  <2> QED
    BY <1>1, <2>1, <2>2, <2>3, <2>4, <2>5 DEF Accept
<1>2. ASSUME NEW t \in Task, Begin(t)
      PROVE  Goal
  BY <1>2 DEF Begin
<1>3. ASSUME NEW t \in Task, BeginFails(t)
      PROVE  Goal
  BY <1>3 DEF BeginFails
<1>4. ASSUME NEW t \in Task, Reply(t)
      PROVE  Goal
  <2>1. CASE Notice(t)

    <3>1. upd[t] \in Update /\ runs[upd[t]] = 0 /\ notices[upd[t]] = 0
      BY <2>1 DEF Notice
    <3>2. notices' = [notices EXCEPT ![upd[t]] = 1]
      BY <2>1, <3>1 DEF Notice
    <3>3. ChatView!Notify(upd[t])
      BY <2>1, <3>1, <3>2 DEF Notice, ChatView!Notify
    <3> QED
      BY <3>1, <3>3 DEF ChatView!Next
  <2>2. CASE NoticeFails(t)
    BY <2>2, upd[t] \in Update DEF NoticeFails, ChatView!Next, ChatView!Notify
  <2>3. CASE StartRun(t)

    <3>1. upd[t] \in Update /\ runs[upd[t]] = 0 /\ notices[upd[t]] = 0
      BY <2>3 DEF StartRun
    <3>2. runs' = [runs EXCEPT ![upd[t]] = 1]
      BY <2>3, <3>1 DEF StartRun
    <3>3. ChatView!Run(upd[t])
      BY <2>3, <3>1, <3>2 DEF StartRun, ChatView!Run
    <3> QED
      BY <3>1, <3>3 DEF ChatView!Next
  <2>4. CASE RunAnswers(t)
    BY <2>4 DEF RunAnswers
  <2>5. CASE RunFails(t)
    BY <2>5 DEF RunFails
  <2>6. CASE SendPart(t)
    BY <2>6, upd[t] \in Update DEF SendPart, ChatView!Next, ChatView!Send
  <2>7. CASE SendFails(t)
    BY <2>7, upd[t] \in Update DEF SendFails, ChatView!Next, ChatView!Send
  <2>8. CASE Tell(t)
    BY <2>8, upd[t] \in Update DEF Tell, ChatView!Next, ChatView!Tell
  <2> QED
    BY <1>4, <2>1, <2>2, <2>3, <2>4, <2>5, <2>6, <2>7, <2>8 DEF Reply
<1>5. ASSUME NEW t \in Task, Mark(t)
      PROVE  Goal
  <2>1. CASE MarkCompleted(t)
    BY <2>1 DEF MarkCompleted
  <2>2. CASE MarkFailed(t)
    BY <2>2 DEF MarkFailed
  <2>3. CASE MarkFailedTell(t)
    BY <2>3 DEF MarkFailedTell
  <2>4. CASE MarkFails(t)
    BY <2>4 DEF MarkFails
  <2>5. CASE CompleteFailsText(t)
    BY <2>5 DEF CompleteFailsText
  <2>6. CASE CompleteFailsMedia(t)
    BY <2>6 DEF CompleteFailsMedia
  <2>7. CASE CompleteFailsSilent(t)
    BY <2>7 DEF CompleteFailsSilent
  <2> QED
    BY <1>5, <2>1, <2>2, <2>3, <2>4, <2>5, <2>6, <2>7 DEF Mark
<1>6. ASSUME NEW t \in Task, NEW u \in Update, Deliver(t, u)
      PROVE  Goal
  BY <1>6 DEF Deliver
<1>7. ASSUME Toggle
      PROVE  Goal
  BY <1>7 DEF Toggle
<1>8. ASSUME NEW w \in Worker, WorkerRestart(w)
      PROVE  Goal
  BY <1>8 DEF WorkerRestart
<1>9. CASE UNCHANGED vars
  BY <1>9 DEF vars
<1> QED
  BY <1>1, <1>2, <1>3, <1>4, <1>5, <1>6, <1>7, <1>8, <1>9 DEF Next, Process

(* Whatever the provider repeats and whatever fails or dies, the chat sees *)
(* at most one processing of an update: one run, its parts, one error.     *)
THEOREM ProcessedAtMostOnce == Spec => AtMostOnce
<1>1. Init => IInv /\ ChatView!Init
  BY InvInit DEF Init, ChatView!Init
<1>2. IInv /\ [Next]_vars => IInv'
  BY InvStep
<1>3. IInv /\ [Next]_vars => [ChatView!Next]_(ChatView!vars)
  BY ChatStep
<1> QED
  BY <1>1, <1>2, <1>3, PTL DEF Spec, AtMostOnce, ChatView!Spec
=============================================================================
