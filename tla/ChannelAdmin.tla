---------------------------- MODULE ChannelAdmin ----------------------------
(***************************************************************************)
(* Administration of a node's channels and the webhooks registered for     *)
(* them at the provider.  Requests interleave between a read, the call of  *)
(* the provider and the write; a call may act without its answer arriving. *)
(* The provider keeps one webhook per bot token; an update it delivers is  *)
(* accepted if it carries the current secret of a channel that is enabled. *)
(***************************************************************************)
EXTENDS Naturals, FiniteSets

CONSTANTS
  Clerk,       \* handlers of admin requests
  Channel,     \* (node_id, channel_type): the key of a row
  Token,       \* bot tokens
  MaxSecrets,  \* bound: webhook secrets generated
  NoValue      \* no row, no webhook, no token

Secret == 1..MaxSecrets

ChannelRow == [token : Token, secret : Secret, enabled : BOOLEAN, linked : BOOLEAN]

ASSUME ChannelAdminAssumption ==
  /\ MaxSecrets \in Nat
  /\ NoValue \notin Token \cup Channel \cup Secret \cup ChannelRow

VARIABLES
  channel,  \* agent_channels: token, secret, is_enabled; linked: webhook_url is set
  hook,     \* what the provider has for a token: the channel and secret in it
  issued,   \* secrets generated so far
  clerk,    \* handler -> its step, the token and secret read with the row, the
            \* payload (new: a token), and for set_webhook whether no other on
            \* its channel or with its token has been under way
  sure      \* channels whose webhook was set undisturbed, and none has begun since

channelAdminVars == <<channel, hook, issued, clerk, sure>>

ChannelSteps == {"idle", "insert", "update", "unhook", "disable", "rotate",
                 "register", "confirm", "remove"}
Idle == [step |-> "idle", on |-> NoValue, token |-> NoValue, secret |-> NoValue,
         new |-> NoValue, enabled |-> TRUE, alone |-> TRUE]

ChannelAdminTypeOK ==
  /\ channel \in [Channel -> ChannelRow \cup {NoValue}]
  /\ hook \in [Token -> [channel : Channel, secret : Secret \cup {NoValue}]
                          \cup {NoValue}]
  /\ issued \in 0..MaxSecrets
  /\ clerk \in [Clerk -> [step : ChannelSteps, on : Channel \cup {NoValue},
                          token : Token \cup {NoValue},
                          secret : Secret \cup {NoValue},
                          new : Token \cup {NoValue}, enabled : BOOLEAN,
                          alone : BOOLEAN]]
  /\ sure \subseteq Channel

ChannelAdminInit ==
  /\ channel = [c \in Channel |-> NoValue]
  /\ hook = [t \in Token |-> NoValue]
  /\ issued = 0
  /\ clerk = [h \in Clerk |-> Idle]
  /\ sure = {}

Exists(c) == channel[c] # NoValue
HoldsToken(t) == {c \in Channel : Exists(c) /\ channel[c].token = t}

-----------------------------------------------------------------------------
(* The first step of a request reads the row and checks the payload.       *)

TokenRead(c) == IF Exists(c) THEN channel[c].token ELSE NoValue
Concerns(o, c) ==
  clerk[o].step # "idle" /\ (clerk[o].on = c \/ clerk[o].token = TokenRead(c))

Begin(h, c, step, new, enabled) ==
  /\ clerk[h].step = "idle"
  /\ clerk' = [k \in Clerk |->
       IF k = h THEN [step |-> step, on |-> c, token |-> TokenRead(c),
                      secret |-> IF Exists(c) THEN channel[c].secret ELSE NoValue,
                      new |-> new, enabled |-> enabled,
                      alone |-> step = "register" /\ \A o \in Clerk : ~Concerns(o, c)]
       ELSE [clerk[k] EXCEPT !.alone = @ /\ ~Concerns(k, c)]]
  /\ sure' = sure \ {c}
  /\ UNCHANGED <<channel, hook, issued>>

BeginCreate(h) == \E c \in Channel, t \in Token, on \in BOOLEAN :
  /\ ~Exists(c) /\ HoldsToken(t) = {}
  /\ Begin(h, c, "insert", t, on)

TokenFree(t, c) == HoldsToken(t) \subseteq {c}

BeginUpdate(h) == \E c \in Channel, t \in Token \cup {NoValue}, on \in BOOLEAN :
  /\ Exists(c)
  /\ t # NoValue => TokenFree(t, c)
  /\ Begin(h, c, "update", t, on)

BeginDeactivate(h) == \E c \in Channel :
  /\ Exists(c)
  /\ Begin(h, c, IF channel[c].linked THEN "unhook" ELSE "disable",
           NoValue, FALSE)

(* deactivate_node has listed the channels of the node and comes to one    *)
(* that was enabled; the provider is not told.                             *)
BeginCascade(h) == \E c \in Channel :
  Exists(c) /\ channel[c].enabled /\ Begin(h, c, "disable", NoValue, FALSE)

BeginRotate(h) == \E c \in Channel :
  Exists(c) /\ Begin(h, c, "rotate", NoValue, TRUE)

BeginSetWebhook(h) == \E c \in Channel :
  Exists(c) /\ channel[c].enabled /\ Begin(h, c, "register", NoValue, TRUE)

BeginDeleteWebhook(h) == \E c \in Channel :
  Exists(c) /\ Begin(h, c, "remove", NoValue, TRUE)

-----------------------------------------------------------------------------
(* Statements and calls                                                    *)

At(h, step) == clerk[h].step = step
Ends(h) == clerk' = [clerk EXCEPT ![h] = Idle]
GoTo(h, step) == clerk' = [clerk EXCEPT ![h].step = step]

NewSecret == issued < MaxSecrets /\ issued' = issued + 1

(* UNIQUE (node_id, channel_type) and UNIQUE (token_hash)                  *)
InsertChannel(h) ==
  /\ At(h, "insert")
  /\ ~Exists(clerk[h].on) /\ HoldsToken(clerk[h].new) = {}
  /\ NewSecret
  /\ channel' = [channel EXCEPT ![clerk[h].on] =
       [token |-> clerk[h].new, secret |-> issued + 1,
        enabled |-> clerk[h].enabled, linked |-> FALSE]]
  /\ Ends(h)
  /\ UNCHANGED <<hook, sure>>

(* Only the columns of the payload are written.                            *)
UpdateChannel(h) ==
  /\ At(h, "update")
  /\ LET c == clerk[h].on  t == clerk[h].new
     IN /\ t # NoValue => HoldsToken(t) \subseteq {c}
        /\ channel' = [channel EXCEPT ![c].enabled = clerk[h].enabled,
                                      ![c].token = IF t = NoValue THEN @ ELSE t]
  /\ Ends(h)
  /\ UNCHANGED <<hook, issued, sure>>

(* deactivate goes on whether or not the provider could be told.           *)
Unhook(h) ==
  /\ At(h, "unhook")
  /\ hook' \in {hook, [hook EXCEPT ![clerk[h].token] = NoValue]}
  /\ GoTo(h, "disable")
  /\ UNCHANGED <<channel, issued, sure>>

(* webhook_url is to become NULL, here, in rotate and in delete_webhook:   *)
(* the ORM leaves the None out.                                            *)
Disable(h) ==
  /\ At(h, "disable")
  /\ channel' = [channel EXCEPT ![clerk[h].on].enabled = FALSE]
  /\ Ends(h)
  /\ UNCHANGED <<hook, issued, sure>>

Rotate(h) ==
  /\ At(h, "rotate")
  /\ NewSecret
  /\ channel' = [channel EXCEPT ![clerk[h].on].secret = issued + 1]
  /\ Ends(h)
  /\ UNCHANGED <<hook, sure>>

(* The mutant forgets the secret.                                          *)
HookWithoutSecret(h) == [channel |-> clerk[h].on, secret |-> NoValue]
HookOf(h) == [channel |-> clerk[h].on, secret |-> clerk[h].secret]

Register(h) ==
  /\ At(h, "register")
  /\ hook' = [hook EXCEPT ![clerk[h].token] = HookOf(h)]
  /\ GoTo(h, "confirm") \/ Ends(h)
  /\ UNCHANGED <<channel, issued, sure>>

Confirm(h) ==
  /\ At(h, "confirm")
  /\ channel' = [channel EXCEPT ![clerk[h].on].linked = TRUE]
  /\ sure' = IF clerk[h].alone THEN sure \cup {clerk[h].on} ELSE sure
  /\ Ends(h)
  /\ UNCHANGED <<hook, issued>>

Remove(h) ==
  /\ At(h, "remove")
  /\ hook' = [hook EXCEPT ![clerk[h].token] = NoValue]
  /\ Ends(h)
  /\ UNCHANGED <<channel, issued, sure>>

(* A statement, a call or getMe raises, or a UNIQUE index does.            *)
ClerkFails(h) ==
  /\ ~At(h, "idle")
  /\ Ends(h)
  /\ UNCHANGED <<channel, hook, issued, sure>>

ChannelAdminNext == \E h \in Clerk :
  \/ BeginCreate(h) \/ BeginUpdate(h) \/ BeginDeactivate(h) \/ BeginCascade(h)
  \/ BeginRotate(h) \/ BeginSetWebhook(h) \/ BeginDeleteWebhook(h)
  \/ InsertChannel(h) \/ UpdateChannel(h) \/ Unhook(h) \/ Disable(h)
  \/ Rotate(h) \/ Register(h) \/ Confirm(h) \/ Remove(h) \/ ClerkFails(h)

ChannelAdminSpec == ChannelAdminInit /\ [][ChannelAdminNext]_channelAdminVars

-----------------------------------------------------------------------------
(* Properties                                                              *)

(* The provider would deliver to c with what c accepts.                    *)
Delivers(c) ==
  /\ channel[c].enabled /\ channel[c].linked
  /\ hook[channel[c].token] = [channel |-> c, secret |-> channel[c].secret]

(* A webhook whose setting succeeded, with no other request on the channel *)
(* or with its token under way, works until a request on its channel, or   *)
(* the deactivation of its node, begins: whatever requests on other        *)
(* channels do meanwhile and afterwards, from rows long changed, with      *)
(* tokens that were theirs, no two channels ever have one token.           *)
ConfirmedHookWorks == \A c \in sure : Delivers(c)
=============================================================================
