----------------------------- MODULE RepairPolicy -----------------------------
(* Which repairs follow from a judgment of the Video Judge, and what the      *)
(* outcome of a repair means: repair-dispatch.ts, repair-priority.ts,         *)
(* repair-history.ts, repair-regression-guard.ts, root-cause.ts,              *)
(* quality-report.ts and final-delivery-gate.ts.  Pure operators.             *)
EXTENDS VideoJudge, Orders, SequencesExt

NoCriterion == "no criterion"

\* classifyRepair: the cheapest strategy that can mend the criterion.
classifyRepair ==
  [c \in JudgeCriterionName |->
     CASE c \in {"motionDynamism", "productConsistency", "productVisibility",
                 "formatCompliance", "sceneConsistency"} -> "CLIP_REGEN"
       [] c \in {"textReadability", "pacing", "grammar"} -> "SUBTITLE_ONLY"
       [] c \in {"ctaClarity", "audioQuality", "voiceAudibility", "voiceDynamism",
                 "voicePacing"} -> "AUDIO_REGEN"
       [] OTHER -> "UNREPAIRABLE"]

\* isClipRegenGateSatisfied: two criteria have a clip made again only when they
\* name the scene with a confidence of 0.7.
ClipRegenGateSatisfied(c, result) ==
  c \in {"formatCompliance", "sceneConsistency"} =>
    result.confidence >= 70 /\ result.scene # NoScene

-----------------------------------------------------------------------------
(* repair-priority.ts.                                                      *)

Severity(score) ==
  IF score < CRITICAL_FLOOR THEN "CRITIQUE"
  ELSE IF score < PASS_THRESHOLD THEN "IMPORTANT" ELSE "MINEUR"

\* computePriority, times twice the cost of the strategy: priorities are only
\* compared between repairs of one strategy.
Priority(c, score) ==
  WEIGHTS[c] * [CRITIQUE |-> 3, IMPORTANT |-> 2, MINEUR |-> 1][Severity(score)]
             * (IF c \in ADVERTISING_EFFECTIVENESS_CRITERIA THEN 3 ELSE 2)

\* isRepairAllowedForSeverity
RepairAllowed(score, strategy) ==
  Severity(score) = "MINEUR" => strategy = "SUBTITLE_ONLY"

\* All criteria in the order of a judgment, and the place of each; sorts are stable.
AllCriteria == MeasuredCriteria \o TextCriterionNames
Position(c) == CHOOSE i \in DOMAIN AllCriteria : AllCriteria[i] = c

\* The most urgent first; a place in the judgment weighs less than any priority.
ByPriority(group, criteria) ==
  InOrder(group, [c \in group |-> Position(c)
                    - Len(AllCriteria) * Priority(c, criteria[c].score)])

-----------------------------------------------------------------------------
(* repair-history.ts: what became of the repairs of this run of the loop, as *)
(* a set of entries that name the attempt they were judged in.               *)

Outcome(delta) ==
  IF delta >= 5 THEN "SIGNIFICANT" ELSE IF delta >= 0 THEN "FAIBLE" ELSE "ECHEC"

HistoryEntry(attempt, c, scene, before, after) ==
  [attempt |-> attempt, criterion |-> c, scene |-> scene,
   strategy |-> classifyRepair[c],
   outcome |-> Outcome(after[c].score - before[c].score)]

\* Mutant: what brought little is not tried again, what made things worse is.
ShouldSkipWeak(history, c, scene) ==
  \E e \in history : e.criterion = c /\ e.scene = scene /\ e.outcome = "FAIBLE"
\* shouldSkipStrategy: what made things worse is not tried again.
ShouldSkip(history, c, scene) ==
  \E e \in history : e.criterion = c /\ e.scene = scene /\ e.outcome = "ECHEC"

\* evaluateRepairOutcome: a repair stands unless a critical criterion fell to below
\* its floor or the global score fell.
RepairAccepted(before, after) ==
  /\ \A c \in CRITICAL_CRITERIA :
       ~ /\ after.criteria[c].score < before.criteria[c].score
         /\ after.criteria[c].score < CRITICAL_FLOOR
  /\ ~(after.score < before.score)

-----------------------------------------------------------------------------
(* The repairs of one attempt (applyRepairs), in the order of their cost.   *)

\* worstSceneId: the first of the scenes with the lowest quality score.
WorstScene(quality) ==
  IF DOMAIN quality = {} THEN NoScene
  ELSE CHOOSE s \in DOMAIN quality : \A t \in DOMAIN quality :
         \/ quality[s].score < quality[t].score
         \/ quality[s].score = quality[t].score /\ s <= t

Step(strategy, criteria, scene) ==
  [strategy |-> strategy, criteria |-> criteria, scene |-> scene]

\* The defects one strategy may mend.  A measurement that failed is no defect.
Repairable(criteria, strategy, history) ==
  {c \in JudgeCriterionName :
     /\ criteria[c].defect = "real"
     /\ classifyRepair[c] = strategy
     /\ strategy # "CLIP_REGEN" => ~ShouldSkip(history, c, NoScene)
     /\ RepairAllowed(criteria[c].score, strategy)}

\* The scene a defect has filmed again, when its gate and the history let it.
TargetScene(c, criteria, history, quality, scenes) ==
  LET scene == IF criteria[c].scene # NoScene THEN criteria[c].scene
               ELSE WorstScene(quality)
  IN IF /\ ClipRegenGateSatisfied(c, criteria[c])
        /\ ~ShouldSkip(history, c, scene)
        /\ scene \in scenes /\ scene \in DOMAIN quality
     THEN scene ELSE NoScene

RepairSteps(criteria, history, quality, scenes) ==
  LET whole(strategy) ==
        LET group == Repairable(criteria, strategy, history)
        IN IF group = {} THEN <<>> ELSE <<Step(strategy, group, NoScene)>>
      target(c) == TargetScene(c, criteria, history, quality, scenes)
      filmed == {c \in Repairable(criteria, "CLIP_REGEN", history) : target(c) # NoScene}
      ranked == ByPriority(filmed, criteria)
      regens == [i \in 1..Cardinality(filmed) |->
                   Step("CLIP_REGEN", {ranked[i]}, target(ranked[i]))]
  IN whole("SUBTITLE_ONLY") \o whole("AUDIO_REGEN") \o regens

-----------------------------------------------------------------------------
(* What the failure of a run is put down to.                                *)

\* findMostSevereDefect, of the defects in a judgment with the failed measurements.
MostSevereDefect(criteria) ==
  LET defects == {c \in JudgeCriterionName : criteria[c].defect # "none"}
  IN IF defects = {} THEN NoCriterion
     ELSE CHOOSE c \in defects : \A d \in defects :
            \/ criteria[c].score < criteria[d].score
            \/ criteria[c].score = criteria[d].score /\ Position(c) <= Position(d)

\* isJudgeCallUnavailable: most of the nine criteria of the grouped call are missing.
JudgeCallUnavailable(criteria) ==
  Cardinality({i \in DOMAIN TextCriterionNames :
                 criteria[TextCriterionNames[i]].defect = "unavailable"}) >= 5

RootCause(c, criteria, history) ==
  LET tried(outcomes) == {e \in history : e.criterion = c /\ e.outcome \in outcomes}
      failedTwice == Cardinality({e \in tried({"ECHEC"}) :
                                    /\ e.scene = criteria[c].scene
                                    /\ e.strategy = "CLIP_REGEN"}) >= 2
  IN IF JudgeCallUnavailable(criteria) THEN "PROVIDER"
     ELSE
       CASE c \in {"storytelling", "hookStrength", "advertisingEffectiveness"} ->
            IF tried({"ECHEC", "FAIBLE"}) # {} THEN "CONCEPT" ELSE "STORYBOARD"
       [] c \in {"productConsistency", "productVisibility"} ->
            IF criteria[c].scene # NoScene /\ failedTwice THEN "PRODUCT_FIDELITY"
            ELSE "SCENE"
       [] c = "factualConsistency" -> "CONCEPT"
       [] c = "brandCoherence" -> "BRAND"
       [] c \in {"audioQuality", "voiceAudibility", "ctaClarity"} -> "AUDIO"
       [] c \in {"formatCompliance", "visualComposition", "sceneConsistency"} ->
            "VISUAL_COMPOSITION"
       [] c \in {"voiceDynamism", "voicePacing"} -> "VOICE"
       [] c \in {"pacing", "textReadability", "grammar"} -> "SUBTITLE"
       [] OTHER -> "UNKNOWN"

\* The level tryEscalate goes to, or "NONE".
EscalationLevel(best, history, storyboardEscalated, conceptEscalated) ==
  LET defect == MostSevereDefect(best.criteria)
      cause == RootCause(defect, best.criteria, history)
      repairable == cause \in {"SCENE", "STORYBOARD", "PRODUCT_FIDELITY", "CONCEPT"}
  IN IF defect = NoCriterion \/ (~storyboardEscalated /\ ~repairable) THEN "NONE"
     ELSE IF ~storyboardEscalated /\ cause # "CONCEPT" THEN "STORYBOARD"
     ELSE IF ~conceptEscalated THEN "CONCEPT" ELSE "NONE"

\* evaluateFinalDelivery; the one format the concepts have is the supported one.
Deliverable(gates, judgment, narration, transcript, planned, delivered) ==
  /\ gates.creative = "APPROVED" /\ gates.storyboard = "APPROVED"
  /\ judgment.verdict = "PASS"
  /\ narration /\ transcript
  /\ ~(planned > 0 /\ delivered < planned)
===============================================================================
