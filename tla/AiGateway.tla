------------------------------ MODULE AiGateway ------------------------------
(***************************************************************************)
(* AiGatewayService.executeTracked() (ai/ai-gateway/) and the credits of   *)
(* one organization it checks and consumes (EntitlementsService, the       *)
(* columns of Subscription).  Calls run at the same time: the shots of a   *)
(* storyboard, the narration, other campaigns.  Each is cut at its awaits. *)
(*                                                                         *)
(* A provider that is tried again after a network error                    *)
(* (callWithTransientRetry) either answers in the end or fails.  The       *)
(* budget in dollars, which is unset unless the platform sets it, and the  *)
(* quota of images are left out.                                           *)
(***************************************************************************)
EXTENDS Integers, FiniteSets

CONSTANTS
  Callers,     \* those who may have one call each in progress
  Campaigns,
  CampaignOf,  \* the campaign a caller works for (ctx.campaignId)
  Tasks,       \* the task types; "generateVideo" has quotas of its own
  AsksFor,     \* the tasks of each caller
  Cost,        \* creditCostFor: what each task costs
  MaxCost,     \* what the dearest costs
  Chain,       \* how many providers a task may fall back on
  Included,    \* aiCreditsIncluded
  Packs,       \* the sizes of the packs one may buy
  MaxShots,    \* maxVideoShotsPerCampaign; no limit: a number never reached
  MaxVideos,   \* maxVideos, the campaigns that may have a video; the same
  MaxBought,   \* bound: the credits bought
  MaxRenewed,  \* bound: the credits given back by new billing cycles
  MaxMishaps   \* bound: how often a query may throw or the process may die

ASSUME GatewayAssumption ==
  /\ IsFiniteSet(Callers) /\ Callers # {}
  /\ CampaignOf \in [Callers -> Campaigns]
  /\ "generateVideo" \in Tasks
  /\ AsksFor \in [Callers -> SUBSET Tasks]
  /\ MaxCost \in Nat \ {0}
  /\ Cost \in [Tasks -> 0..MaxCost]
  /\ Chain \in [Tasks -> Nat \ {0}]
  /\ Included \in Nat
  /\ Packs \subseteq Nat
  /\ MaxShots \in Nat \ {0} /\ MaxVideos \in Nat \ {0}
  /\ MaxBought \in Nat /\ MaxRenewed \in Nat
  /\ MaxMishaps \in Nat

VARIABLES
  used, extra,    \* aiCreditsUsed and extraCredits
  bought,         \* history: the credits of all packs
  renewed,        \* history: the credits that renewals took off aiCreditsUsed
  clips,          \* the SUCCEEDED generateVideo rows of each campaign
  owed,           \* the cost of all SUCCEEDED rows
  mishaps,        \* bound
  call            \* each caller's executeTracked

ledgerVars == <<used, extra, bought, renewed>>
gatewayVars == <<ledgerVars, clips, owed, mishaps, call>>

Outcomes == {"returned", "threw", "noCredits", "noVideo"}
CallPc == {"idle", "asserting", "opening", "calling", "marking", "reading", "writing",
           "failing"} \cup Outcomes

InProgress(c) == call[c].pc \notin {"idle"} \cup Outcomes

\* Let in by assertCreditsAvailable, and neither charged nor at its end.
Admitted == {c \in Callers : InProgress(c) /\ call[c].pc # "asserting"}

Available == Included - used + extra
Charged == used + renewed + bought - extra

GatewayTypeOK ==
  /\ used \in Nat /\ extra \in Int /\ bought \in Nat /\ renewed \in Nat
  /\ clips \in [Campaigns -> Int]
  /\ owed \in Int
  /\ mishaps \in 0..MaxMishaps
  /\ call \in [Callers -> [pc : CallPc, task : Tasks, provider : Nat,
                           row : {"NONE", "RUNNING", "SUCCEEDED"}, fromExtra : Int]]
  /\ \A c \in Callers : call[c].provider <= Chain[call[c].task]

\* A call that has not started, or has ended: nothing of it is read again.
NoCall(pc) == [pc |-> pc, task |-> "generateVideo", provider |-> 1, row |-> "NONE", fromExtra |-> 0]

GatewayInit ==
  /\ used = 0 /\ extra = 0 /\ bought = 0 /\ renewed = 0
  /\ clips = [k \in Campaigns |-> 0]
  /\ owed = 0
  /\ mishaps = 0
  /\ call = [c \in Callers |-> NoCall("idle")]

-----------------------------------------------------------------------------
(* One call, step by step.                                                 *)

Update(c, r) == call' = [call EXCEPT ![c] = r]
Goto(c, pc) == Update(c, [call[c] EXCEPT !.pc = pc])
Finish(c, outcome) == Update(c, NoCall(outcome))

\* Callers that start at the same time (Promise.allSettled), or one after its last call.
Begin(C, task) ==
  /\ \A c \in C : ~InProgress(c) /\ task \in AsksFor[c]
  /\ call' = [c \in Callers |->
                IF c \in C THEN [NoCall("asserting") EXCEPT !.task = task] ELSE call[c]]

\* Mutants: a balance of zero lets a call in; what was used is forgotten.
AssertCreditsOffByOne(c) ==
  /\ call[c].pc = "asserting"
  /\ IF Available < 0 THEN Finish(c, "noCredits") ELSE Goto(c, "opening")
  /\ UNCHANGED <<ledgerVars, clips, owed, mishaps>>
AssertCreditsForgetsUse(c) ==
  /\ call[c].pc = "asserting"
  /\ IF Included + extra <= 0 THEN Finish(c, "noCredits") ELSE Goto(c, "opening")
  /\ UNCHANGED <<ledgerVars, clips, owed, mishaps>>

AssertCredits(c) ==
  /\ call[c].pc = "asserting"
  /\ IF Available <= 0 THEN Finish(c, "noCredits") ELSE Goto(c, "opening")
  /\ UNCHANGED <<ledgerVars, clips, owed, mishaps>>

\* Mutant: one clip too many.
VideoAllowedOffByOne(k) ==
  /\ clips[k] <= MaxShots
  /\ Cardinality({other \in Campaigns \ {k} : clips[other] > 0}) < MaxVideos

\* assertVideoQuotaAvailable: the clips of this campaign, then the campaigns with a clip.
VideoAllowed(k) ==
  /\ clips[k] < MaxShots
  /\ Cardinality({other \in Campaigns \ {k} : clips[other] > 0}) < MaxVideos

\* The quotas, then the RUNNING row.
OpenGeneration(c) ==
  /\ call[c].pc = "opening"
  /\ IF call[c].task = "generateVideo" /\ ~VideoAllowed(CampaignOf[c])
       THEN Finish(c, "noVideo")
       ELSE Update(c, [call[c] EXCEPT !.pc = "calling", !.row = "RUNNING"])
  /\ UNCHANGED <<ledgerVars, clips, owed, mishaps>>

ProviderAnswers(c) ==
  /\ call[c].pc = "calling"
  /\ Goto(c, "marking")
  /\ UNCHANGED <<ledgerVars, clips, owed, mishaps>>

\* The row stays as it is; the balance that was read is forgotten.
AfterFailure(c, pc, provider) ==
  Update(c, [pc |-> pc, task |-> call[c].task, provider |-> provider, row |-> call[c].row,
             fromExtra |-> 0])

\* The catch of the loop over the providers: the next one, or the end.
NextProvider(c) ==
  IF call[c].provider < Chain[call[c].task]
    THEN AfterFailure(c, "calling", call[c].provider + 1)
    ELSE AfterFailure(c, "failing", call[c].provider)

ProviderFails(c) ==
  /\ call[c].pc = "calling"
  /\ NextProvider(c)
  /\ UNCHANGED <<ledgerVars, clips, owed, mishaps>>

\* The row changes status, and with it what the quotas count.
SetRow(c, from, n) ==
  LET change == IF call[c].row = from THEN n ELSE 0 IN
  /\ clips' = IF call[c].task = "generateVideo"
                THEN [clips EXCEPT ![CampaignOf[c]] = @ + change] ELSE clips
  /\ owed' = owed + change * Cost[call[c].task]

MarkSucceeded(c) ==
  /\ call[c].pc = "marking"
  /\ SetRow(c, "RUNNING", 1)
  /\ IF Cost[call[c].task] > 0
       THEN Update(c, [call[c] EXCEPT !.row = "SUCCEEDED", !.pc = "reading"])
       ELSE Finish(c, "returned")
  /\ UNCHANGED <<ledgerVars, mishaps>>

\* Mutant: everything is taken from the packs.
ReadBalancePacksOnly(c) ==
  /\ call[c].pc = "reading"
  /\ Update(c, [call[c] EXCEPT !.pc = "writing", !.fromExtra = Cost[call[c].task]])
  /\ UNCHANGED <<ledgerVars, clips, owed, mishaps>>

\* consumeCredits: the transaction reads the row (READ COMMITTED, no lock) ...
ReadBalance(c) ==
  /\ call[c].pc = "reading"
  /\ LET price == Cost[call[c].task]
         fromExtra == IF extra < price THEN extra ELSE price IN
     Update(c, [call[c] EXCEPT !.pc = "writing", !.fromExtra = fromExtra])
  /\ UNCHANGED <<ledgerVars, clips, owed, mishaps>>

\* Mutant: what the packs paid is charged to the quota too.
WriteBalanceTwice(c) ==
  /\ call[c].pc = "writing"
  /\ extra' = extra - call[c].fromExtra
  /\ used' = used + Cost[call[c].task]
  /\ Finish(c, "returned")
  /\ UNCHANGED <<bought, renewed, clips, owed, mishaps>>

\* ... and decrements by what it read.
WriteBalance(c) ==
  /\ call[c].pc = "writing"
  /\ extra' = extra - call[c].fromExtra
  /\ used' = used + (Cost[call[c].task] - call[c].fromExtra)
  /\ Finish(c, "returned")
  /\ UNCHANGED <<bought, renewed, clips, owed, mishaps>>

MarkFailed(c) ==
  /\ call[c].pc = "failing"
  /\ SetRow(c, "SUCCEEDED", -1)
  /\ Finish(c, "threw")
  /\ UNCHANGED <<ledgerVars, mishaps>>

\* A query throws: outside the loop the call ends, inside it counts as a failed provider.
QueryThrows(c) ==
  /\ mishaps < MaxMishaps
  /\ \/ call[c].pc \in {"asserting", "opening", "failing"} /\ Finish(c, "threw")
     \/ call[c].pc \in {"marking", "reading", "writing"} /\ NextProvider(c)
  /\ mishaps' = mishaps + 1
  /\ UNCHANGED <<ledgerVars, clips, owed>>

\* The process dies, or the job, with the calls of its callers.
Abandon(C) ==
  /\ mishaps < MaxMishaps /\ mishaps' = mishaps + 1
  /\ call' = [c \in Callers |-> IF c \in C THEN NoCall("idle") ELSE call[c]]
  /\ UNCHANGED <<ledgerVars, clips, owed>>

-----------------------------------------------------------------------------
(* The webhooks of Stripe that touch credits, each arriving once.          *)

BuyPack(n) ==
  /\ bought + n <= MaxBought
  /\ bought' = bought + n
  /\ extra' = extra + n
  /\ UNCHANGED <<used, renewed, clips, owed, mishaps, call>>

NewCycle ==
  /\ used > 0
  /\ renewed + used <= MaxRenewed
  /\ renewed' = renewed + used
  /\ used' = 0
  /\ UNCHANGED <<extra, bought, clips, owed, mishaps, call>>

CallStep(c) ==
  \/ AssertCredits(c) \/ OpenGeneration(c) \/ ProviderAnswers(c) \/ ProviderFails(c)
  \/ MarkSucceeded(c) \/ ReadBalance(c) \/ WriteBalance(c) \/ MarkFailed(c) \/ QueryThrows(c)

Webhook == NewCycle \/ \E n \in Packs : BuyPack(n)

Start(C, task) == Begin(C, task) /\ UNCHANGED <<ledgerVars, clips, owed, mishaps>>

GatewayNext ==
  \/ \E c \in Callers : CallStep(c)
  \/ \E C \in SUBSET Callers : Abandon(C) \/ \E task \in Tasks : Start(C, task)
  \/ Webhook

GatewaySpec == GatewayInit /\ [][GatewayNext]_gatewayVars

-----------------------------------------------------------------------------
\* Calls that run together were let in on the same credits, but they overdraw the
\* account by no more than themselves (entitlements.service.ts:137).
OverdraftIsBounded == Available > -(MaxCost * Cardinality(Callers))

\* Calls that read the same pack take it more than once; the balance of packs goes
\* below zero by no more than those calls (entitlements.service.ts:165).
PacksOverdraftIsBounded == extra > -(MaxCost * Cardinality(Callers))

\* The clips of a campaign pass the ceiling by no more than the calls that may run
\* together for it (entitlements.service.ts:220).
ClipsOvershootIsBounded ==
  \A k \in Campaigns :
    clips[k] < MaxShots + Cardinality({c \in Callers : CampaignOf[c] = k})

\* Quotas, packs and ceilings are read before the calls they let in are charged, and bound
\* what an organization spends all the same.
SpendingIsBounded == OverdraftIsBounded /\ PacksOverdraftIsBounded /\ ClipsOvershootIsBounded

\* Whatever throws, and in whatever order calls charge, packs arrive and cycles begin:
\* an organization is never charged for more than its SUCCEEDED generations
\* (ai-gateway.service.ts:236).
ChargedForResultsOnly == Charged <= owed

Account == INSTANCE CreditAccount WITH balance <- Available, open <- Admitted

\* Two columns updated from a stale read still are one balance: credits are spent by
\* admitted calls only, and no charge is lost or made twice.
ImplementsAccount == Account!Spec
=============================================================================
