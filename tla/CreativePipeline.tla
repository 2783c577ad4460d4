--------------------------- MODULE CreativePipeline ---------------------------
(* One generation of AiOrchestratorService up to the raw video: generateCampaign *)
(* and regenerateFromApprovedConcept with finishCampaignFromApprovedConcept, and  *)
(* the two regenerations that an escalation of the worker asks for.               *)
(*                                                                                *)
(* A generation is a sequence of awaited calls, each an action; only the          *)
(* narration is spoken while the rest goes on.  What one call films is abstracted *)
(* here to the set of shots that get a clip: Storyboard models it.                *)
EXTENDS CreativePlans, VideoAnalyzer

CONSTANTS
  IntelligenceReplies, ConceptReplies, GateReplies, BlueprintReplies, LookReplies,
  ShotReplies, StoryboardReplies,   \* what each text model may answer
  Clips,              \* how a clip may turn out (see VideoAnalyzer)
  CreditLevels,       \* the credits the organization may have left
  PLAN,               \* the plan of the organization
  CHANNELS,           \* the channels of the campaign
  MAX_REPAIR_ATTEMPTS,
  VoiceKinds          \* whether a narration is real media: {TRUE}, or FALSE for a mock

ASSUME PipelineAssumption ==
  /\ PLAN \in Plan /\ IsFiniteSet(CHANNELS) /\ ChannelsAllowed(PLAN, CHANNELS)
  /\ MAX_REPAIR_ATTEMPTS \in Nat
  /\ VoiceKinds \subseteq BOOLEAN
  /\ \A reply \in ConceptReplies \ {Unusable} : reply.scenes = Unusable \/ reply.scenes \in Int
  /\ \A reply \in StoryboardReplies \ {Unusable} : reply.scenesToRemove \in Seq(Int)

VARIABLE gen   \* the generation: where it is and what it has made so far

Silence == [status |-> "none", real |-> FALSE, concept |-> 0]
NoConcept == ConceptOf(0, Unusable)
NoGeneration ==
  [pc |-> "idle", mode |-> "campaign", intelligence |-> NeutralIntelligence,
   conflict |-> FALSE, visual |-> "fallback", version |-> 0, concept |-> NoConcept,
   revised |-> FALSE, gates |-> [creative |-> "REVISE", storyboard |-> "REJECT"],
   blueprint |-> BlueprintOf(NoConcept, Unusable, Unusable), voice |-> Silence,
   transcript |-> FALSE, repairs |-> 0, planning |-> "first", plan |-> <<>>,
   expected |-> 0, remove |-> <<>>, clips |-> <<>>, quality |-> <<>>]

PipelineInit == gen = NoGeneration

At(pc) == gen.pc = pc

-----------------------------------------------------------------------------
(* The beginning of each kind of generation.                                *)

\* channelCountHint: a campaign without channels is reckoned as one with one.
ChannelCount == IF CHANNELS = {} THEN 1 ELSE Cardinality(CHANNELS)

\* Checkpoint A: without the credits of the worst case nothing is called at all.
StartGeneration(start) ==
  /\ At("idle")
  /\ \E credits \in CreditLevels :
       gen' = [gen EXCEPT
         !.pc = IF EstimatedWorstCase(ChannelCount, MAX_REPAIR_ATTEMPTS, PLAN) > credits
                THEN "threw" ELSE start]

\* The product is analysed, and the strategy and the intelligence drawn from it.
AnalyseProduct ==
  /\ At("analysis")
  /\ \E reply \in IntelligenceReplies, conflict \in BOOLEAN :
       gen' = [gen EXCEPT !.pc = "concept", !.intelligence = IntelligenceOf(reply),
                          !.conflict = conflict]

\* regenerateFromApprovedConcept: intelligence and concept are those of an earlier
\* generation, whose gate had approved them.
ReuseConcept ==
  /\ At("reuse")
  /\ \E intelligence \in IntelligenceReplies \ {Unusable}, reply \in ConceptReplies, conflict \in BOOLEAN :
       /\ RequiredInputs(intelligence, ConceptOf(1, reply))
       /\ gen' = [gen EXCEPT
            !.pc = "blueprint", !.intelligence = intelligence, !.conflict = conflict,
            !.version = 1, !.concept = ConceptOf(1, reply), !.gates.creative = "APPROVED"]

\* regenerateShotPlanAndVideo: the concept, the blueprint and the voice are given.
RegenerateStoryboard(blueprint) ==
  gen' = [gen EXCEPT !.pc = "shots", !.mode = "storyboard", !.blueprint = blueprint,
                     !.plan = <<>>, !.clips = <<>>, !.quality = <<>>]

\* regenerateConceptStoryboardAndVideo: from the intelligence on.
RegenerateConcept ==
  gen' = [gen EXCEPT !.pc = "concept", !.mode = "concept",
                     !.plan = <<>>, !.clips = <<>>, !.quality = <<>>]

-----------------------------------------------------------------------------
(* Concept and blueprint.                                                   *)

GenerateConcept ==
  /\ At("concept")
  /\ \E reply \in ConceptReplies :
       gen' = [gen EXCEPT !.pc = "gate", !.version = @ + 1,
                          !.concept = ConceptOf(gen.version + 1, reply)]

\* Mutant: the concept is revised once, and what the gate says of the revision ignored.
EvaluateCreativeGateOnce ==
  /\ At("gate")
  /\ \E first, second \in GateReplies :
       LET status == CreativeGate(gen.intelligence, gen.concept, first, second)
       IN gen' = [gen EXCEPT
            !.gates.creative = status, !.revised = status # "APPROVED",
            !.pc = IF status = "APPROVED" \/ gen.revised THEN "blueprint" ELSE "concept"]
\* A concept that is not approved is revised once.
EvaluateCreativeGate ==
  /\ At("gate")
  /\ \E first, second \in GateReplies :
       LET status == CreativeGate(gen.intelligence, gen.concept, first, second)
       IN gen' = [gen EXCEPT
            !.gates.creative = status, !.revised = status # "APPROVED",
            !.pc = IF status = "APPROVED" THEN "blueprint"
                   ELSE IF gen.revised THEN "threw" ELSE "concept"]

\* The narration of the blueprint starts being spoken, and is not waited for.
GenerateBlueprint ==
  /\ At("blueprint")
  /\ \E first, second \in BlueprintReplies :
       gen' = [gen EXCEPT
         !.blueprint = BlueprintOf(gen.concept, first, second),
         !.voice = [status |-> "pending", real |-> FALSE, concept |-> gen.version],
         !.pc = IF gen.mode = "concept" THEN "narration" ELSE "copies"]

\* generateAudio comes back, at any moment of the rest of the generation.
NarrationSettles ==
  /\ gen.voice.status = "pending"
  /\ \/ \E real \in VoiceKinds :
          gen' = [gen EXCEPT !.voice.status = "spoken", !.voice.real = real]
     \/ gen' = [gen EXCEPT !.voice.status = "failed"]

\* The narration is waited for and transcribed: at the end, with the video filmed, or
\* at once for a concept made anew.  Its failure ends the generation, that of the
\* transcription leaves the video without subtitles.
AwaitNarration ==
  /\ At("narration") /\ gen.voice.status # "pending"
  /\ \/ /\ gen.voice.status = "failed"
        /\ gen' = [gen EXCEPT !.pc = "threw"]
     \/ /\ gen.voice.status = "spoken"
        /\ \E transcript \in {FALSE, gen.voice.real} :
             gen' = [gen EXCEPT !.transcript = transcript,
                       !.pc = IF gen.mode = "concept" THEN "shots" ELSE "produced"]

-----------------------------------------------------------------------------
(* The texts, the image and the shot plan.                                  *)

\* The copies of the channels, the image and the visual identity taken from it.
ProduceCopies ==
  /\ At("copies")
  /\ \E first, second \in LookReplies :
       gen' = [gen EXCEPT !.pc = "budget", !.visual = VisualDnaOf(first, second)]

\* Checkpoint B: fewer repairs when the credits pay for no more, and no video when
\* they pay for none.
CheckBeforeVideoLoop ==
  /\ At("budget")
  /\ \E credits \in CreditLevels :
       LET repairs == AffordableRepairs(credits, gen.concept.scenes,
                                        MAX_REPAIR_ATTEMPTS, PLAN)
       IN gen' = IF repairs < 0 THEN [gen EXCEPT !.pc = "threw"]
                 ELSE [gen EXCEPT !.pc = "shots", !.repairs = repairs]

\* The plan is asked for twice; when it is too repetitive, one more is asked for.
GenerateShotPlan ==
  /\ At("shots")
  /\ \E first, second \in ShotReplies :
       LET reply == Retried(first, second)
           plan == ShotPlanOf(gen.concept, reply)
           again == gen.planning = "first" /\ TooRepetitive(plan)
       IN gen' = IF reply = Unusable THEN [gen EXCEPT !.pc = "threw"]
                 ELSE [gen EXCEPT
                   !.pc = IF again THEN "shots" ELSE "storyboard",
                   !.planning = IF again THEN "diversity" ELSE @,
                   !.plan = plan,
                   !.expected = IF gen.planning = "revision" THEN Len(plan)
                                ELSE gen.concept.scenes]

\* A plan that is not approved is made again once.
EvaluateStoryboardGate ==
  /\ At("storyboard")
  /\ \E first, second \in StoryboardReplies :
       LET verdict == StoryboardGate(first, second)
       IN gen' = [gen EXCEPT
            !.gates.storyboard = verdict.status,
            !.planning = IF verdict.status = "APPROVED" THEN "first" ELSE "revision",
            !.remove = IF verdict.status = "APPROVED" THEN verdict.scenesToRemove ELSE <<>>,
            !.pc = IF verdict.status = "APPROVED" THEN "preflight"
                   ELSE IF gen.planning = "revision" THEN "threw" ELSE "shots"]

\* Mutant: the checks before filming are only logged.
PreFlightIgnored ==
  /\ At("preflight")
  /\ gen' = [gen EXCEPT !.pc = "film", !.remove = <<>>,
                        !.plan = IF gen.remove = <<>> THEN @
                                 ELSE ApplySafePruning(@, gen.remove)]
\* The scenes the gate found superfluous are removed, and the plan is checked.
PreFlight ==
  /\ At("preflight")
  /\ LET plan == IF gen.remove = <<>> THEN gen.plan
                 ELSE ApplySafePruning(gen.plan, gen.remove)
         expected == IF gen.remove = <<>> THEN gen.expected ELSE Len(plan)
         valid == ValidShotPlan(plan, expected)
         ready == PreFlightReady(gen.visual, gen.concept, gen.blueprint, plan, valid,
                                 gen.conflict)
     IN gen' = [gen EXCEPT !.plan = plan, !.expected = 0, !.remove = <<>>,
                           !.pc = IF ready THEN "film" ELSE "threw"]

-----------------------------------------------------------------------------
\* generateShotPlanVideoOrDegrade: the clips of the shots that could be filmed, put
\* together in the order in which the shots were launched.
Film ==
  /\ At("film")
  /\ \E filmed \in SUBSET ToSet(Scenes(gen.plan)) :
       \E clips \in [filmed -> Clips] :
         gen' = [gen EXCEPT
           !.clips = ScenesByPriority(gen.plan, filmed),
           !.quality = [s \in filmed |-> ShotQuality(clips[s], gen.visual = "described")],
           !.pc = IF gen.mode \in {"storyboard", "concept"} THEN "produced"
                  ELSE "narration"]

\* A call that fails after its retries: the error of the gateway, of the database or
\* of ffmpeg goes up to the worker.
CallFails ==
  /\ gen.pc \in {"analysis", "reuse", "concept", "gate", "blueprint", "copies", "budget", "shots",
                 "storyboard", "film"}
  /\ gen' = [gen EXCEPT !.pc = "threw"]

PipelineStep ==
  \/ AnalyseProduct \/ ReuseConcept \/ GenerateConcept \/ EvaluateCreativeGate
  \/ GenerateBlueprint \/ NarrationSettles \/ AwaitNarration \/ ProduceCopies
  \/ CheckBeforeVideoLoop \/ GenerateShotPlan \/ EvaluateStoryboardGate \/ PreFlight
  \/ Film \/ CallFails
===============================================================================
