----------------------------- MODULE Storyboard -----------------------------
(***************************************************************************)
(* The clips of a campaign's video: generateShotPlanVideoOrDegrade() and   *)
(* generateSingleShot() of AiOrchestratorService, whose shots run in       *)
(* parallel and pay through AiGateway.  The other calls and the webhooks   *)
(* of the organization are in AiGateway alone: here they would only make   *)
(* credits run out at another moment.                                      *)
(***************************************************************************)
EXTENDS AiGateway

CONSTANTS
  Shots,       \* the callers that are shots; their campaign is CampaignOf
  Rank,        \* the priority of a shot (sortByGenerationPriority), 1 first
  WaveOf,      \* its wave (groupShotsIntoDependencyWaves)
  LastWave,
  MaxRuns      \* bound: how often the job of a campaign runs

ASSUME StoryboardAssumption ==
  /\ Shots \subseteq Callers
  /\ Rank \in [Shots -> Nat]
  /\ LastWave \in Nat
  /\ WaveOf \in [Shots -> 1..LastWave]
  /\ MaxRuns \in Nat

VARIABLES
  board,    \* where the storyboard of each campaign is
  shot,     \* where each shot is, and its best clip
  paid      \* history: the clips of each shot paid in this run of its job

storyboardVars == <<board, shot, paid>>
vars == <<gatewayVars, storyboardVars>>

\* Of the two scores of a clip: whether both passed, and their weighted sum, which
\* may be high although one of them failed.
Qualities == {[passed |-> FALSE, score |-> 0], [passed |-> TRUE, score |-> 1],
              [passed |-> FALSE, score |-> 2]}
Unusable == [passed |-> FALSE, score |-> 0]
NoClip == [passed |-> FALSE, score |-> -1]

Settled == {"done", "quota", "failed"}

TypeOK ==
  /\ GatewayTypeOK
  /\ board \in [Campaigns -> [pc : {"idle", "next", "wave", "recovery", "delivered", "threw"},
                              slots : 0..MaxShots, wave : 1..(LastWave + 1),
                              quota : BOOLEAN, fatal : BOOLEAN, runs : 0..MaxRuns]]
  /\ shot \in [Shots -> [pc : {"waiting", "video", "judging"} \cup Settled,
                         attempt : {0, 1}, best : Qualities \cup {NoClip}]]
  /\ paid \in [Shots -> 0..2]

NewShot(pc) == [pc |-> pc, attempt |-> 0, best |-> NoClip]

Init ==
  /\ GatewayInit
  /\ board = [k \in Campaigns |-> [pc |-> "idle", slots |-> 0, wave |-> 1,
                                   quota |-> FALSE, fatal |-> FALSE, runs |-> 0]]
  /\ shot = [s \in Shots |-> NewShot("waiting")]
  /\ paid = [s \in Shots |-> 0]

ShotsOf(k) == {s \in Shots : CampaignOf[s] = k}

\* groupShotsIntoDependencyWaves, for dependencies without a cycle: a shot comes one wave
\* after the last of those it depends on.
DependencyWaves(shots, dependsOn) ==
  CHOOSE wave \in [shots -> 1..Cardinality(shots)] :
    \A s \in shots :
      LET before == (dependsOn[s] \cap shots) \ {s} IN
      /\ \A t \in before : wave[t] < wave[s]
      /\ wave[s] = 1 \/ \E t \in before : wave[s] = wave[t] + 1

\* What the gateway keeps besides the calls.
KeepLedger == UNCHANGED <<ledgerVars, clips, owed, mishaps>>

-----------------------------------------------------------------------------
(* The waves.                                                              *)

SlotsLeft(k) == IF clips[k] < MaxShots THEN MaxShots - clips[k] ELSE 0

\* The job starts, and getRemainingVideoShotSlots is read once for all waves.
ReadSlots(k) ==
  /\ board[k].pc = "idle" /\ board[k].runs < MaxRuns
  /\ board' = [board EXCEPT ![k] =
                [pc |-> "next", slots |-> SlotsLeft(k), wave |-> 1, quota |-> FALSE,
                 fatal |-> FALSE, runs |-> board[k].runs + 1]]
  /\ shot' = [s \in Shots |-> IF s \in ShotsOf(k) THEN NewShot("waiting") ELSE shot[s]]
  /\ paid' = [s \in Shots |-> IF s \in ShotsOf(k) THEN 0 ELSE paid[s]]
  /\ UNCHANGED gatewayVars

\* The shots of the wave, as many as there are slots, the most important first.
ToLaunch(k) ==
  LET wave == {s \in ShotsOf(k) : WaveOf[s] = board[k].wave} IN
  {s \in wave : Cardinality({t \in wave : Rank[t] < Rank[s]}) < board[k].slots}

Launch(S) ==
  /\ Begin(S, "generateVideo") /\ KeepLedger
  /\ shot' = [s \in Shots |-> IF s \in S THEN NewShot("video") ELSE shot[s]]

LaunchWave(k) ==
  /\ board[k].pc = "next" /\ board[k].wave <= LastWave
  /\ ~board[k].quota /\ board[k].slots > 0
  /\ Launch(ToLaunch(k))
  /\ board' = [board EXCEPT ![k].pc = "wave"]
  /\ UNCHANGED paid

NoSlotLeft(k) ==
  /\ board[k].pc = "next" /\ board[k].wave <= LastWave
  /\ ~board[k].quota /\ board[k].slots = 0
  /\ board' = [board EXCEPT ![k].quota = TRUE]
  /\ UNCHANGED <<gatewayVars, shot, paid>>

WaveShots(k) == {s \in ShotsOf(k) : WaveOf[s] = board[k].wave /\ shot[s].pc # "waiting"}

\* Mutant: a shot that met the quota is waited for.
WaveSettledWithoutQuota(k) == \A s \in WaveShots(k) : shot[s].pc \in {"done", "failed"}

WaveSettled(k) == \A s \in WaveShots(k) : shot[s].pc \in Settled
FailedShots(k) == {s \in WaveShots(k) : shot[s].pc = "failed"}

\* Shots that failed are tried once more, together.
Recover(k) ==
  /\ board[k].pc = "wave" /\ WaveSettled(k) /\ FailedShots(k) # {}
  /\ Launch(FailedShots(k))
  /\ board' = [board EXCEPT ![k].pc = "recovery", ![k].fatal = TRUE,
                            ![k].quota = @ \/ \E s \in WaveShots(k) : shot[s].pc = "quota"]
  /\ UNCHANGED paid

EndWave(k) ==
  /\ WaveSettled(k)
  /\ board[k].pc = "recovery" \/ (board[k].pc = "wave" /\ FailedShots(k) = {})
  /\ LET succeeded == Cardinality({s \in WaveShots(k) : shot[s].pc = "done"}) IN
     board' = [board EXCEPT ![k].pc = "next", ![k].wave = @ + 1, ![k].slots = @ - succeeded,
                            ![k].quota = @ \/ \E s \in WaveShots(k) : shot[s].pc = "quota"]
  /\ UNCHANGED <<gatewayVars, shot, paid>>

Clips(k) == {s \in ShotsOf(k) : shot[s].pc = "done"}
WavesOver(k) == board[k].pc = "next" /\ (board[k].quota \/ board[k].wave > LastWave)

\* No clip and a technical failure: the error goes up.  Concatenation may fail too.
Throw(k) ==
  /\ WavesOver(k)
  /\ (Clips(k) = {} /\ board[k].fatal) \/ Cardinality(Clips(k)) > 1
  /\ board' = [board EXCEPT ![k].pc = "threw"]
  /\ UNCHANGED <<gatewayVars, shot, paid>>

\* The clips become the video; without any there is no video.
Deliver(k) ==
  /\ WavesOver(k)
  /\ Clips(k) # {} \/ ~board[k].fatal
  /\ board' = [board EXCEPT ![k].pc = "delivered"]
  /\ UNCHANGED <<gatewayVars, shot, paid>>

-----------------------------------------------------------------------------
(* One shot: at most two attempts, the better clip is kept.                *)

SecondAttempt(s, best) ==
  /\ Begin({s}, "generateVideo") /\ KeepLedger
  /\ shot' = [shot EXCEPT ![s] = [pc |-> "video", attempt |-> 1, best |-> best]]

End(s, pc, best) ==
  /\ shot' = [shot EXCEPT ![s].pc = pc, ![s].best = best]
  /\ UNCHANGED gatewayVars

Better(q, best) == IF q.score > best.score THEN q ELSE best

\* Mutant: attempts until a clip passes.
JudgeUntilPassed(s, q) ==
  LET best == Better(q, shot[s].best) IN
  IF q.passed THEN End(s, "done", best) ELSE SecondAttempt(s, best)

Judge(s, q) ==
  LET best == Better(q, shot[s].best) IN
  IF q.passed \/ shot[s].attempt = 1
    THEN End(s, "done", best)
    ELSE SecondAttempt(s, best)

\* VideoAnalyzerService.analyze looks at the clip, or decides without a call.
ClipArrives(s) ==
  /\ shot[s].pc = "video" /\ call[s].pc = "returned"
  /\ paid' = [paid EXCEPT ![s] = @ + 1]
  /\ \/ Start({s}, "analyzeImage") /\ shot' = [shot EXCEPT ![s].pc = "judging"]
     \/ \E q \in Qualities : Judge(s, q)
  /\ UNCHANGED board

\* An analysis that fails judges the clip unusable.
AnalysisEnds(s) ==
  /\ shot[s].pc = "judging" /\ call[s].pc \in Outcomes
  /\ \E q \in (IF call[s].pc = "returned" THEN Qualities ELSE {Unusable}) : Judge(s, q)
  /\ UNCHANGED <<board, paid>>

\* PlanLimitExceededException of the quotas of videos.
QuotaReached(s) ==
  /\ shot[s].pc = "video" /\ call[s].pc = "noVideo"
  /\ End(s, "quota", shot[s].best)
  /\ UNCHANGED <<board, paid>>

\* Mutant: a failed second attempt fails the shot.
AfterErrorForgetsClip(s) ==
  IF shot[s].attempt = 0 THEN SecondAttempt(s, shot[s].best) ELSE End(s, "failed", shot[s].best)

\* Any other error: a clip of the first attempt is kept, else a second attempt.
AfterError(s) ==
  IF shot[s].best # NoClip THEN End(s, "done", shot[s].best)
  ELSE IF shot[s].attempt = 0 THEN SecondAttempt(s, NoClip)
  ELSE End(s, "failed", NoClip)

VideoFails(s) ==
  /\ shot[s].pc = "video" /\ call[s].pc \in {"threw", "noCredits"}
  /\ AfterError(s)
  /\ UNCHANGED <<board, paid>>

-----------------------------------------------------------------------------
(* Everything else.                                                        *)

\* BullMQ runs a job that threw again, from the start.
RunAgain(k) ==
  /\ board[k].pc = "threw" /\ board[k].runs < MaxRuns
  /\ board' = [board EXCEPT ![k].pc = "idle"]
  /\ UNCHANGED <<gatewayVars, shot, paid>>

Crash ==
  /\ Abandon(Callers)
  /\ board' = [k \in Campaigns |->
                IF board[k].pc \in {"delivered", "threw"} THEN board[k]
                ELSE [board[k] EXCEPT !.pc = "idle"]]
  /\ shot' = [s \in Shots |-> IF board'[CampaignOf[s]].pc = "idle" THEN NewShot("waiting")
                              ELSE shot[s]]
  /\ UNCHANGED paid

BoardStep(k) ==
  ReadSlots(k) \/ LaunchWave(k) \/ NoSlotLeft(k) \/ Recover(k) \/ EndWave(k) \/ Throw(k) \/ Deliver(k)
ShotStep(s) == ClipArrives(s) \/ AnalysisEnds(s) \/ QuotaReached(s) \/ VideoFails(s)
GatewayStep(c) == CallStep(c) /\ UNCHANGED storyboardVars

Next ==
  \/ \E k \in Campaigns : BoardStep(k) \/ RunAgain(k)
  \/ \E s \in Shots : ShotStep(s)
  \/ \E c \in Callers : GatewayStep(c)
  \/ Crash

\* The process runs its promises; providers answer or fail in the end (timeouts).
Fairness ==
  /\ \A k \in Campaigns : WF_vars(BoardStep(k))
  /\ \A s \in Shots : WF_vars(ShotStep(s))
  /\ \A c \in Callers : WF_vars(GatewayStep(c))

Spec == Init /\ [][Next]_vars /\ Fairness

-----------------------------------------------------------------------------
\* Worst case of the cost estimate: two clips paid for each shot, with the recovery,
\* the retries and the analyses that fail (cost-control.service.ts:25).
TwoClipsPerShot == \A s \in Shots : paid[s] <= 2

\* Once the waves are over, a shot that got a clip is in the video, unless its second
\* attempt met the quota (ai-orchestrator.service.ts:1200).
Discarded(k) == {s \in ShotsOf(k) : shot[s].best # NoClip} \ Clips(k)
ClipsLostOnlyToQuota ==
  \A k \in Campaigns : WavesOver(k) => \A s \in Discarded(k) : call[s].pc = "noVideo"

\* A storyboard that started ends, unless the process dies.
StoryboardsEnd ==
  \A k \in Campaigns : board[k].pc \in {"next", "wave", "recovery"}
                         ~> board[k].pc \in {"delivered", "threw", "idle"}
=============================================================================
