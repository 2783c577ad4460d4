--------------------------- MODULE ReviewWorkflow ---------------------------
(***************************************************************************)
(* What CampaignsService (campaigns/campaigns.service.ts), the worker and  *)
(* PublishingService promise about the life of one campaign: each handler  *)
(* as if it were one atomic step on the row.  Generation opens a human     *)
(* review or closes the campaign, only a campaign under review is          *)
(* approved, only an approved one is published, and only a rejected or     *)
(* failed one is generated again.  CampaignLifecycle implements this       *)
(* specification while its requests come one after the other.              *)
(***************************************************************************)
CONSTANT Campaigns

VARIABLES
  status,   \* Campaign.status; "NONE" before the row exists
  verdict   \* Campaign.moderationVerdict; "NONE" stands for null

vars == <<status, verdict>>

Status == {"NONE", "IN_PROGRESS", "READY_FOR_REVIEW", "APPROVED",
           "REJECTED", "FAILED", "PUBLISHED"}
Verdict == {"NONE", "PASSED", "FLAGGED", "BLOCKED"}

Init ==
  /\ status = [c \in Campaigns |-> "NONE"]
  /\ verdict = [c \in Campaigns |-> "NONE"]

\* A generation starts: a new campaign, or one that was rejected or failed.
Generate(c) ==
  /\ status[c] \in {"NONE", "REJECTED", "FAILED"}
  /\ status' = [status EXCEPT ![c] = "IN_PROGRESS"]
  /\ verdict' = [verdict EXCEPT ![c] = "NONE"]

\* Moderation let the content through: a human must look at it.
OpenReview(c) ==
  /\ status[c] = "IN_PROGRESS"
  /\ status' = [status EXCEPT ![c] = "READY_FOR_REVIEW"]
  /\ \E v \in {"PASSED", "FLAGGED"} : verdict' = [verdict EXCEPT ![c] = v]

\* Moderation blocked the content: the campaign is rejected without a human.
Block(c) ==
  /\ status[c] = "IN_PROGRESS"
  /\ status' = [status EXCEPT ![c] = "REJECTED"]
  /\ verdict' = [verdict EXCEPT ![c] = "BLOCKED"]

\* The generation failed for good.
Fail(c) ==
  /\ status[c] = "IN_PROGRESS"
  /\ status' = [status EXCEPT ![c] = "FAILED"]
  /\ UNCHANGED verdict

Approve(c) ==
  /\ status[c] = "READY_FOR_REVIEW"
  /\ verdict[c] # "BLOCKED"
  /\ status' = [status EXCEPT ![c] = "APPROVED"]
  /\ UNCHANGED verdict

Reject(c) ==
  /\ status[c] \in {"READY_FOR_REVIEW", "APPROVED"}
  /\ status' = [status EXCEPT ![c] = "REJECTED"]
  /\ UNCHANGED verdict

Publish(c) ==
  /\ status[c] = "APPROVED"
  /\ status' = [status EXCEPT ![c] = "PUBLISHED"]
  /\ UNCHANGED verdict

Resolve(c) == OpenReview(c) \/ Block(c) \/ Fail(c)

Next ==
  \E c \in Campaigns :
    Generate(c) \/ Resolve(c) \/ Approve(c) \/ Reject(c) \/ Publish(c)

SafetySpec == Init /\ [][Next]_vars

\* A started generation is not left without an outcome.
Fairness == \A c \in Campaigns : WF_vars(Resolve(c))
Spec == SafetySpec /\ Fairness
=============================================================================
