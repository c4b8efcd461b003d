-------------------------- MODULE MCChannelWebhook --------------------------
(***************************************************************************)
(* Instances of ChannelWebhook: two workers, t3 in the second, and updates *)
(* that lead to every branch.                                              *)
(***************************************************************************)
EXTENDS ChannelWebhook

CONSTANTS w1, w2, t3, u1

TwoWorkers == [t \in Task |-> IF t = t3 THEN w2 ELSE w1]

(* A text, and an update of any content next to it.                        *)
TextAndAny == {f \in [Update -> Contents] : f[u1] = "text"}
=============================================================================
