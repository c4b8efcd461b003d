---------------------------- MODULE ChannelReply ----------------------------
(***************************************************************************)
(* What a channel does for each update of its bot, as the chat sees it: at *)
(* most one run of the agent, the parts of its answer while that run is    *)
(* the one being answered, and at most one error message, after which      *)
(* nothing more is sent.  A text the agent is not asked about gets at most *)
(* one notice.                                                             *)
(***************************************************************************)
EXTENDS Naturals

CONSTANT Update

VARIABLES
  runs,     \* runs of the agent for an update
  sent,     \* parts of its answer in the chat
  told,     \* error messages in the chat
  notices   \* "only text is supported" messages in the chat

vars == <<runs, sent, told, notices>>

Init ==
  /\ runs = [u \in Update |-> 0]
  /\ sent = [u \in Update |-> 0]
  /\ told = [u \in Update |-> 0]
  /\ notices = [u \in Update |-> 0]

Run(u) ==
  /\ runs[u] = 0 /\ notices[u] = 0
  /\ runs' = [runs EXCEPT ![u] = 1]
  /\ UNCHANGED <<sent, told, notices>>

Send(u) ==
  /\ runs[u] = 1 /\ told[u] = 0
  /\ sent' = [sent EXCEPT ![u] = @ + 1]
  /\ UNCHANGED <<runs, told, notices>>

Tell(u) ==
  /\ runs[u] = 1 /\ told[u] = 0
  /\ told' = [told EXCEPT ![u] = 1]
  /\ UNCHANGED <<runs, sent, notices>>

Notify(u) ==
  /\ runs[u] = 0 /\ notices[u] = 0
  /\ notices' = [notices EXCEPT ![u] = 1]
  /\ UNCHANGED <<runs, sent, told>>

Next == \E u \in Update : Run(u) \/ Send(u) \/ Tell(u) \/ Notify(u)

Spec == Init /\ [][Next]_vars
=============================================================================
