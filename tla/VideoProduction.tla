--------------------------- MODULE VideoProduction ----------------------------
(* The video of one campaign, as the worker of the generation queue makes it      *)
(* (persistGeneratedContent, finalizeVideoAsset and tryEscalate of                *)
(* queue/campaign-generation.processor.ts): a generation of the pipeline, the     *)
(* quality loop on its video, at most one escalation to a new storyboard and one  *)
(* to a new concept, each followed by the loop again, and the delivery gate.      *)
EXTENDS CreativePipeline, QualityLoop

VARIABLE job   \* the job of the worker

vars == <<gen, loopVars, job>>

\* blueprint is that of the first generation (results), which the worker goes back to.
IdleJob == [pc |-> "idle", storyboardEscalated |-> FALSE, conceptEscalated |-> FALSE,
            blueprint |-> NoGeneration.blueprint, asset |-> <<>>, trace |-> "none"]

Ended == {"delivered", "deliveredRaw", "noVideo", "threw"}

Init == PipelineInit /\ LoopInit /\ job = IdleJob

-----------------------------------------------------------------------------
(* The generation, and the loop on what it filmed.                          *)

StartJob ==
  /\ job.pc = "idle"
  /\ \E start \in {"analysis", "reuse"} : StartGeneration(start)
  /\ job' = [job EXCEPT !.pc = "generation"]
  /\ UNCHANGED loopVars

Generate ==
  /\ PipelineStep
  /\ UNCHANGED <<loopVars, job>>

Takes(scenes) == [i \in DOMAIN scenes |-> [scene |-> scenes[i], take |-> 0]]
\* The loop speaks from the blueprint of the video that it repairs.
LoopParams == [plan |-> Scenes(gen.plan), quality |-> gen.quality,
               blueprint |-> gen.blueprint.concept, repairs |-> gen.repairs]
RawCut == [clips |-> Takes(gen.clips), video |-> Takes(gen.clips),
           voice |-> [real |-> gen.voice.real, take |-> 0, concept |-> gen.voice.concept],
           transcript |-> IF gen.transcript THEN [take |-> 0, edit |-> 0] ELSE NoTranscript]

\* persistGeneratedContent: without a video the campaign has its texts and its image.
WithoutVideo ==
  /\ job.pc = "generation" /\ gen.pc = "produced" /\ gen.clips = <<>>
  /\ job' = [job EXCEPT !.pc = "noVideo"]
  /\ UNCHANGED <<gen, loopVars>>

EnterLoop ==
  /\ job.pc \in {"generation", "escalation"} /\ gen.pc = "produced" /\ gen.clips # <<>>
  /\ StartLoop(LoopParams, RawCut)
  /\ job' = [job EXCEPT !.pc = "loop",
               !.blueprint = IF job.pc = "generation" THEN gen.blueprint ELSE @]
  /\ UNCHANGED gen

RunLoop ==
  /\ job.pc = "loop" /\ LoopStep
  /\ UNCHANGED <<gen, job>>

\* All that a job that throws has made so far is lost with its locals.
Abandon(trace) ==
  /\ gen' = [NoGeneration EXCEPT !.pc = "threw"]
  /\ params' = NoParams /\ cut' = NoCut /\ loop' = IdleLoop /\ history' = {}
  /\ job' = [IdleJob EXCEPT !.pc = "threw", !.trace = trace]

\* An error goes up to process(), which marks the campaign as failed.  An escalation
\* that filmed nothing has no video to read (a TypeError at currentVideo!.content).
Fails ==
  /\ \/ job.pc \in {"generation", "escalation"} /\ gen.pc = "threw"
     \/ job.pc = "escalation" /\ gen.pc = "produced" /\ gen.clips = <<>>
     \/ job.pc = "loop" /\ loop.pc = "threw"
  /\ Abandon("none")

-----------------------------------------------------------------------------
(* The loop gave up (tryEscalate).                                          *)

\* Mutant: nothing remembers that the storyboard was made again.
LevelWithoutMemory == EscalationLevel(loop.best, history, FALSE, job.conceptEscalated)
Level == EscalationLevel(loop.best, history, job.storyboardEscalated, job.conceptEscalated)

\* The concept and the narration stay; the blueprint is that of the first generation.
EscalateStoryboard ==
  /\ job.pc = "loop" /\ loop.pc = "exhausted" /\ Level = "STORYBOARD"
  /\ RegenerateStoryboard(job.blueprint)
  /\ job' = [job EXCEPT !.pc = "escalation", !.storyboardEscalated = TRUE]
  /\ UNCHANGED loopVars

EscalateConcept ==
  /\ job.pc = "loop" /\ loop.pc = "exhausted" /\ Level = "CONCEPT"
  /\ RegenerateConcept
  /\ job' = [job EXCEPT !.pc = "escalation", !.conceptEscalated = TRUE]
  /\ UNCHANGED loopVars

GiveUp ==
  /\ job.pc = "loop" /\ loop.pc = "exhausted" /\ Level = "NONE"
  /\ Abandon("REPAIR_EXHAUSTED")

-----------------------------------------------------------------------------
(* The loop ended well.                                                     *)

Gate(judgment, transcript) ==
  Deliverable(gen.gates, judgment, TRUE, transcript # NoTranscript, Len(gen.plan),
              Len(gen.clips))

\* Mutant: what was filmed is not compared with the plan.
DeliverIncomplete ==
  /\ job.pc = "loop" /\ loop.pc = "passed"
  /\ job' = [job EXCEPT !.trace = "PASSED", !.asset = cut.video,
               !.pc = IF cut.transcript # NoTranscript THEN "delivered" ELSE "threw"]
  /\ UNCHANGED <<gen, loopVars>>
\* The video is stored and the trace says PASSED before the delivery gate decides.
Deliver ==
  /\ job.pc = "loop" /\ loop.pc = "passed"
  /\ job' = [job EXCEPT !.trace = "PASSED", !.asset = cut.video,
               !.pc = IF Gate(loop.operative, cut.transcript) THEN "delivered" ELSE "threw"]
  /\ UNCHANGED <<gen, loopVars>>

\* Nothing could be assembled: the raw video of the first generation is delivered.
DeliverRaw ==
  /\ job.pc = "loop" /\ loop.pc = "skipped"
  /\ job' = [job EXCEPT !.pc = "deliveredRaw", !.trace = "SKIPPED_NO_VIDEO"]
  /\ UNCHANGED <<gen, loopVars>>

\* A write of the storage or of the database fails while the outcome is recorded.
RecordFails ==
  /\ job.pc = "loop" /\ loop.pc \in {"passed", "skipped", "exhausted"}
  /\ Abandon("none")

Next ==
  \/ StartJob \/ Generate \/ WithoutVideo \/ EnterLoop \/ RunLoop \/ Fails
  \/ EscalateStoryboard \/ EscalateConcept \/ GiveUp
  \/ Deliver \/ DeliverRaw \/ RecordFails

Spec == Init /\ [][Next]_vars
\* Every call that is awaited comes back: the gateway, ffmpeg and the database answer
\* or fail, and the worker runs on.
FairSpec == Spec /\ WF_vars(Next)
-----------------------------------------------------------------------------
(* Properties.                                                              *)

\* Nothing is filmed, at 150 credits a clip, nor spoken about, unless both gates have
\* approved it, and no escalation or revision changes what they approved: the concept
\* has what it needs, no shot is a template, some shot carries the message, between two
\* and five shots are left after the pruning, none of them twice, and each beat they
\* play is in the blueprint (storyboard-gate.service.ts:230, shot-plan-validator.ts:25,
\* preflight-quality-gate.ts:49, ai-orchestrator.service.ts:279, 848).
FilmedPlanIsApproved ==
  /\ gen.pc \in {"film", "produced"} =>
       /\ RequiredInputs(gen.intelligence, gen.concept)
       /\ gen.gates = [creative |-> "APPROVED", storyboard |-> "APPROVED"]
  /\ gen.pc \in {"film", "narration", "produced"} /\ gen.plan # <<>> =>
       /\ Len(gen.plan) \in 2..5
       /\ \E i \in DOMAIN gen.plan : gen.plan[i].text
       /\ \A i \in DOMAIN gen.plan :
            /\ ~gen.plan[i].template
            /\ gen.plan[i].beat # NoBeat => gen.plan[i].beat \in DOMAIN gen.blueprint.beats
            /\ \A j \in DOMAIN gen.plan : gen.plan[i].scene = gen.plan[j].scene => i = j
       /\ gen.concept.hook /\ gen.concept.cta

\* A video that is delivered as finished is the one the judge passed, with subtitles,
\* and shows every scene of the plan of the last escalation, each once, although
\* repairs and their undoing replaced clips of it (final-delivery-gate.ts:46).  Its voice
\* speaks of the concept that its pictures show, unless a storyboard was made again as
\* well as a concept: the second of the two then goes back to the blueprint of the first
\* generation (campaign-generation.processor.ts:716, 770).
DeliveredIsComplete ==
  job.pc = "delivered" =>
    /\ loop.operative.verdict = "PASS" /\ ~CriticalFailure(loop.operative.criteria)
    /\ job.asset = loop.judged.video /\ cut.transcript # NoTranscript
    /\ Len(job.asset) = Len(gen.plan)
    /\ \A s \in ToSet(Scenes(gen.plan)) : \E i \in DOMAIN job.asset : job.asset[i].scene = s
    /\ ~(job.storyboardEscalated /\ job.conceptEscalated) => cut.voice.concept = gen.version

\* Within one run, repairs are only made within its budget of attempts, and what made a
\* criterion worse is not tried on it again, on any of the later attempts
\* (video-quality-loop.service.ts:204, repair-history.ts:40).
RepairsAreWarranted ==
  [][\A r \in loop'.applied \ loop.applied :
       /\ loop.attempt <= params.repairs
       /\ ~\E e \in history : e.criterion = r.criterion /\ e.scene = r.scene
                              /\ e.outcome = "ECHEC"]_vars

\* However the judgments fall, every job ends: delivered, without a video, or failed for
\* the worker to retry.  Repairs run out, and each escalation happens once
\* (campaign-generation.processor.ts:756).
ProductionEnds == <>(job.pc \in Ended)
===============================================================================
