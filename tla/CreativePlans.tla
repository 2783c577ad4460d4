---------------------------- MODULE CreativePlans -----------------------------
(* What the pipeline of a campaign makes of the answers of the text models    *)
(* before anything is filmed: concept, narrative blueprint and shot plan, and *)
(* the gates between them (ai/creative-intelligence, ai/video-direction), with *)
(* the credit checks of plans/cost-control.service.ts.  Pure operators.       *)
(*                                                                            *)
(* A reply is what the parser of its service finds in the text of the model:  *)
(* Unusable when that is no JSON of the expected shape.                       *)
EXTENDS PlanCatalog, Orders, Sequences, FiniteSetsExt, SequencesExt

CONSTANT Unusable

\* The services that ask once more before they fall back on a neutral value.
Retried(first, second) == IF first = Unusable THEN second ELSE first

\* The first n of a set of places.
FirstOf(S, n) == {p \in S : Cardinality({q \in S : q <= p}) <= n}

-----------------------------------------------------------------------------
(* Credits: CostControlService.                                              *)

GenerationCost(task) == CreditCost("campaign_generation", task)
JUDGE_PASS_COST == 10 + 8
DEFAULT_ASSUMED_SCENES == 3
WORST_CASE_ATTEMPTS_PER_SCENE == 2

\* fixedCost: 3 image analyses, 5 texts, the image, the voice, its transcript.
FixedCost ==
  3 * GenerationCost("analyzeImage") + 5 * GenerationCost("generateText")
    + GenerationCost("generateImage") + GenerationCost("generateAudio")
    + GenerationCost("transcribeAudio")

\* The clips of the worst case, of which a plan with a ceiling lets no more be filmed.
WorstCaseClips(scenes, repairs, plan) ==
  LET clips == scenes * WORST_CASE_ATTEMPTS_PER_SCENE + repairs
      ceiling == PLAN_CATALOG[plan].maxVideoShotsPerCampaign
  IN IF Within(clips, ceiling) THEN clips ELSE ceiling

VideoCost(scenes, repairs, plan) ==
  WorstCaseClips(scenes, repairs, plan) * GenerationCost("generateVideo")
    + (repairs + 1) * JUDGE_PASS_COST

\* assertBeforeGeneration (checkpoint A).
EstimatedWorstCase(channels, repairs, plan) ==
  FixedCost + channels * GenerationCost("generateText")
    + VideoCost(DEFAULT_ASSUMED_SCENES, repairs, plan)

\* checkBeforeVideoLoop (checkpoint B): the repair attempts the credits still pay
\* for, of at most repairs; -1 when they do not even pay for none.
AffordableRepairs(credits, scenes, repairs, plan) ==
  Max({-1} \cup {n \in 0..repairs : VideoCost(scenes, n, plan) <= credits})

-----------------------------------------------------------------------------
(* The concept and its gate.                                                *)

TARGET_SCORE == 75             \* QUALITY_TARGET_V1
MINIMUM_CRITICAL_SCORE == 60
NeutralIntelligence == [benefit |-> FALSE, cta |-> FALSE, audience |-> FALSE]

\* CreativeIntelligenceService.parse: what the strategy of the product is about.
IntelligenceOf(reply) == IF reply = Unusable THEN NeutralIntelligence ELSE reply

\* CreativeConceptService.parse: an unusable answer is an empty concept; the number
\* of scenes is kept between 2 and 5, and is 3 when the model gives none.
ConceptOf(version, reply) ==
  IF reply = Unusable
  THEN [version |-> version, message |-> FALSE, hook |-> FALSE, cta |-> FALSE,
        audience |-> FALSE, alignment |-> FALSE, scenes |-> 3]
  ELSE [version |-> version, message |-> reply.message, hook |-> reply.hook,
        cta |-> reply.cta, audience |-> reply.audience, alignment |-> reply.alignment,
        scenes |-> IF reply.scenes = Unusable THEN 3 ELSE Min({5, Max({2, reply.scenes})})]

\* checkRequiredInputs: without these no score is asked for.
RequiredInputs(intelligence, concept) ==
  /\ intelligence.benefit \/ concept.message
  /\ concept.hook
  /\ concept.cta \/ intelligence.cta
  /\ concept.audience \/ intelligence.audience

\* CreativeGateService.evaluate.
CreativeGate(intelligence, concept, first, second) ==
  LET reply == Retried(first, second)
  IN IF ~RequiredInputs(intelligence, concept) THEN "BLOCKED"
     ELSE IF reply = Unusable THEN "REVISE"
     ELSE IF reply.rejected THEN "BLOCKED"
     ELSE IF reply.score >= TARGET_SCORE THEN "APPROVED" ELSE "REVISE"

-----------------------------------------------------------------------------
(* The narrative blueprint; a beat maps to whether it says what must be seen. *)

BlueprintOf(concept, first, second) ==
  LET reply == Retried(first, second)
  IN [concept |-> concept.version,
      beats |-> IF reply = Unusable THEN <<>> ELSE reply.beats]

\* VisualDnaService.extract
VisualDnaOf(first, second) ==
  LET reply == Retried(first, second)
  IN IF reply = Unusable THEN "fallback" ELSE reply

-----------------------------------------------------------------------------
(* The shot plan: a sequence of shots, of which shot i films scene i until    *)
(* scenes are pruned.                                                         *)

NoBeat == "no beat"
NoLook == "no look"
DEFAULT_SHOT_DURATION_SECONDS == 6

Shot(scene, entry, template) ==
  [scene |-> scene, role |-> entry.role, text |-> entry.text, beat |-> entry.beat,
   look |-> entry.look, seconds |-> entry.seconds, template |-> template]

\* DEFAULT_SHOT_PLAN: three templates, without text.
DefaultEntry(i) ==
  [role |-> <<"payoff", "hook", "demonstration">>[(i % 3) + 1], text |-> FALSE,
   beat |-> NoBeat, look |-> NoLook, seconds |-> DEFAULT_SHOT_DURATION_SECONDS]

\* tryParseShotPlan: exactly as many shots as the concept has scenes; a template
\* stands for an entry that is missing or lacks one of its required fields.
ShotPlanOf(concept, reply) ==
  [i \in 1..concept.scenes |->
     IF i \in DOMAIN reply /\ reply[i] # Unusable THEN Shot(i, reply[i], FALSE)
     ELSE Shot(i, DefaultEntry(i), TRUE)]

\* detectShotRepetition and shouldRegeneratePlan: half of the shots look alike.
TooRepetitive(plan) ==
  \E i \in DOMAIN plan :
    LET alike == {j \in DOMAIN plan : plan[j].look = plan[i].look}
    IN /\ plan[i].look # NoLook
       /\ Cardinality(alike) >= 2
       /\ 2 * Cardinality(alike) >= Len(plan)

STORYBOARD_STAGE_CRITERIA ==
  {"productConsistency", "storytelling", "ctaClarity", "factualConsistency"}

\* StoryboardGateService.evaluate, tryParse and applyCriticalFloor: a score above the
\* target does not make up for one critical criterion below its floor.
StoryboardGate(first, second) ==
  LET reply == Retried(first, second)
      approved == /\ ~reply.rejected
                  /\ reply.score >= TARGET_SCORE
                  /\ \A c \in STORYBOARD_STAGE_CRITERIA \cap DOMAIN reply.scores :
                       reply.scores[c] >= MINIMUM_CRITICAL_SCORE
  IN IF reply = Unusable THEN [status |-> "REJECT", scenesToRemove |-> <<>>]
     ELSE [status |-> IF approved THEN "APPROVED" ELSE "REJECT",
           scenesToRemove |-> reply.scenesToRemove]

\* applySafePruning: never the hook, nor the last shot that carries text, nor below
\* two shots.  A scene may be named that is not in the plan, or twice.
ProtectedScenes(plan) ==
  LET hooks == {i \in DOMAIN plan : plan[i].role = "hook"}
      texts == {i \in DOMAIN plan : plan[i].text}
  IN {plan[i].scene : i \in (IF hooks = {} THEN {1} ELSE hooks) \cup
                            {IF texts = {} THEN Len(plan) ELSE Max(texts)}}

ApplySafePruning(plan, scenesToRemove) ==
  LET safe == {k \in DOMAIN scenesToRemove : scenesToRemove[k] \notin ProtectedScenes(plan)}
      removed == {scenesToRemove[k] : k \in FirstOf(safe, Len(plan) - 2)}
      kept == {i \in DOMAIN plan : plan[i].scene \notin removed}
      order == InOrder(kept, [i \in kept |-> i])
  IN [n \in 1..Cardinality(kept) |-> plan[order[n]]]

\* validateShotPlan; tryParseShotPlan leaves no shot without its required fields.
ValidShotPlan(plan, expected) ==
  /\ plan # <<>>
  /\ Len(plan) = expected
  /\ \E i \in DOMAIN plan : plan[i].text
  /\ MapThenSumSet(LAMBDA i : plan[i].seconds, DOMAIN plan) \in 5..90

\* computeGenerationPriority and sortByGenerationPriority (shot-risk.ts): the scenes
\* that were filmed, in the order in which they were launched and are put together.
GenerationPriority(shot) ==
  CASE shot.role = "hook" -> 4
    [] shot.role = "demonstration" -> 3
    [] shot.role \in {"cta", "payoff"} -> 2
    [] OTHER -> 1

ScenesByPriority(plan, filmed) ==
  LET shots == {i \in DOMAIN plan : plan[i].scene \in filmed}
      order == InOrder(shots, [i \in shots |-> i - Len(plan) * GenerationPriority(plan[i])])
  IN [n \in 1..Cardinality(shots) |-> plan[order[n]].scene]

Scenes(plan) == [i \in DOMAIN plan |-> plan[i].scene]

\* evaluatePreFlightQuality; the narration it asks for is never empty
\* (buildNarrationFromBlueprint), and conflict says that the sources disagree on
\* the name or the brand of the product.
PreFlightReady(visual, concept, blueprint, plan, valid, conflict) ==
  /\ visual = "described"
  /\ concept.hook /\ concept.cta /\ concept.alignment
  /\ DOMAIN blueprint.beats # {}
  /\ \A b \in DOMAIN blueprint.beats : blueprint.beats[b]
  /\ valid
  /\ \A i \in DOMAIN plan :
       /\ ~plan[i].template
       /\ plan[i].beat # NoBeat => plan[i].beat \in DOMAIN blueprint.beats
  /\ ~conflict
===============================================================================
