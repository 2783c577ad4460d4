--------------------------- MODULE ChannelDelivery ---------------------------
(***************************************************************************)
(* What an idempotent publication promises, one channel at a time: however *)
(* often it is asked for, the platform shows at most one post, the row     *)
(* says PUBLISHED only when the post is there and FAILED only when it is   *)
(* not, and an attempt is settled.  Publishing implements this             *)
(* specification when none of its faults is allowed.                       *)
(***************************************************************************)
CONSTANT Channels

VARIABLES
  post,   \* PublishedPost.status; "NONE" before the row exists
  live    \* the channels whose platform shows a post of the campaign

vars == <<post, live>>

PostStatus == {"NONE", "PENDING", "PUBLISHED", "FAILED"}

Init ==
  /\ post = [ch \in Channels |-> "NONE"]
  /\ live = {}

\* A first attempt, or a new one after a failure.
Attempt(ch) ==
  /\ post[ch] \in {"NONE", "FAILED"}
  /\ post' = [post EXCEPT ![ch] = "PENDING"]
  /\ UNCHANGED live

Deliver(ch) ==
  /\ post[ch] = "PENDING"
  /\ ch \notin live
  /\ live' = live \cup {ch}
  /\ UNCHANGED post

Confirm(ch) ==
  /\ post[ch] = "PENDING"
  /\ ch \in live
  /\ post' = [post EXCEPT ![ch] = "PUBLISHED"]
  /\ UNCHANGED live

Refuse(ch) ==
  /\ post[ch] = "PENDING"
  /\ ch \notin live
  /\ post' = [post EXCEPT ![ch] = "FAILED"]
  /\ UNCHANGED live

Settle(ch) == Confirm(ch) \/ Refuse(ch)

Next == \E ch \in Channels : Attempt(ch) \/ Deliver(ch) \/ Settle(ch)

SafetySpec == Init /\ [][Next]_vars

\* An attempt does not stay PENDING.
Spec == SafetySpec /\ \A ch \in Channels : WF_vars(Settle(ch))
=============================================================================
