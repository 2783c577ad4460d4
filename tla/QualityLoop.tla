----------------------------- MODULE QualityLoop ------------------------------
(* VideoQualityLoopService.run (video-quality-loop.service.ts): the assembled  *)
(* video is judged, repaired where it failed and judged again, within a budget *)
(* of repair attempts.  A repair that makes the video worse is undone.         *)
(*                                                                            *)
(* The cut is the state the code keeps and restores as one object: the clips,  *)
(* the video concatenated from them, the narration and its transcript.  Each   *)
(* take carries the number of the attempt that made it, 0 for what run() was   *)
(* given.                                                                      *)
EXTENDS RepairPolicy

CONSTANTS
  Measurements,   \* what a pass of the judge may measure (see VideoJudge)
  NoJudgment, NoTranscript

VARIABLES
  params,   \* the parameters of this run
  cut,      \* state: the video as it is
  loop,     \* the control of the loop
  history   \* what became of the repairs of this run

loopVars == <<params, cut, loop, history>>

NoParams == [plan |-> <<>>, quality |-> <<>>, blueprint |-> 0, repairs |-> 0]
NoCut == [clips |-> <<>>, video |-> <<>>,
          voice |-> [real |-> FALSE, take |-> 0, concept |-> 0],
          transcript |-> NoTranscript]
IdleLoop == [pc |-> "idle", attempt |-> 1, operative |-> NoJudgment,
             best |-> NoJudgment, judged |-> NoCut, preRepair |-> NoCut,
             steps |-> <<>>, pending |-> {}, applied |-> {}]

LoopInit ==
  /\ params = NoParams
  /\ cut = NoCut
  /\ loop = IdleLoop
  /\ history = {}

Running == loop.pc \in {"finalize", "judge", "repair"}

\* run() is called.
StartLoop(p, initialCut) ==
  /\ params' = p
  /\ cut' = initialCut
  /\ loop' = [IdleLoop EXCEPT !.pc = "finalize"]
  /\ history' = {}

-----------------------------------------------------------------------------
(* VideoFinalizationService.finalize.                                       *)

\* A narration that is no real media (a mock provider): nothing to judge.
FinalizeSkipped ==
  /\ loop.pc = "finalize" /\ ~cut.voice.real
  /\ loop' = [loop EXCEPT !.pc = "skipped"]
  /\ UNCHANGED <<params, cut, history>>

Finalize ==
  /\ loop.pc = "finalize" /\ cut.voice.real
  /\ loop' = [loop EXCEPT !.pc = "judge"]
  /\ UNCHANGED <<params, cut, history>>

-----------------------------------------------------------------------------
(* A judgment, and what is decided on it.                                   *)

\* What this judgment says of the repairs made on the judgment before.
HistoryAfter(judgment) ==
  history \cup {HistoryEntry(loop.attempt, r.criterion, r.scene,
                             loop.operative.criteria, judgment.criteria) :
                  r \in loop.pending}

Reverts(judgment) == loop.attempt > 1 /\ ~RepairAccepted(loop.operative, judgment)

\* Mutant: the judgment of a repair that was undone is what the next one is compared to.
AdoptEvenReverted(judgment) ==
  [cut |-> IF Reverts(judgment) THEN loop.preRepair ELSE cut,
   operative |-> judgment, best |-> judgment,
   judged |-> IF Reverts(judgment) THEN loop.judged ELSE cut]
\* Mutant: the repair is rejected, the cut stays.
AdoptForgetsRollback(judgment) ==
  IF Reverts(judgment)
  THEN [cut |-> cut, operative |-> loop.operative, best |-> loop.best,
        judged |-> loop.judged]
  ELSE [cut |-> cut, operative |-> judgment, best |-> judgment, judged |-> cut]

\* The cut, the judgment decisions are made on and the best judgment afterwards;
\* judged is the cut that operative judgment was made on.
Adopt(judgment) ==
  IF Reverts(judgment)
  THEN [cut |-> loop.preRepair, operative |-> loop.operative, best |-> loop.best,
        judged |-> loop.judged]
  ELSE [cut |-> cut, operative |-> judgment, judged |-> cut,
        best |-> IF loop.best = NoJudgment \/ judgment.score > loop.best.score
                 THEN judgment ELSE loop.best]

\* Mutant: one repair attempt too many.
OverLate == loop.attempt > params.repairs + 1
\* The budget of repair attempts is used up.
Over == loop.attempt > params.repairs

Judge(judgment) ==
  LET adopted == Adopt(judgment)
      passed == ~Reverts(judgment) /\ judgment.verdict = "PASS"
      steps == RepairSteps(adopted.operative.criteria, HistoryAfter(judgment),
                           params.quality, Range(params.plan))
  IN /\ history' = HistoryAfter(judgment)
     /\ cut' = adopted.cut
     /\ loop' = [loop EXCEPT
          !.pc = IF passed THEN "passed" ELSE IF Over THEN "exhausted" ELSE "repair",
          !.operative = adopted.operative,
          !.best = adopted.best,
          !.judged = adopted.judged,
          !.preRepair = adopted.cut,
          !.steps = IF passed \/ Over THEN <<>> ELSE steps,
          !.pending = {}, !.applied = {}]
     /\ UNCHANGED params

\* What judge() may say of a video of these clips and this plan.
Judgments(quality, plan) ==
  {Judgment(criteria) : criteria \in {Criteria(quality, plan, m) : m \in Measurements}}

JudgeVideo ==
  loop.pc = "judge" /\ \E judgment \in Judgments(params.quality, params.plan) : Judge(judgment)

-----------------------------------------------------------------------------
(* applyRepairs: one step for each strategy, one for each clip.             *)

NextStep(strategy) ==
  loop.pc = "repair" /\ loop.steps # <<>> /\ Head(loop.steps).strategy = strategy

Applied(step) == {[criterion |-> c, scene |-> step.scene] : c \in step.criteria}

\* The step is done; a step that changed nothing because it failed is not applied.
EndStep(applied) ==
  /\ loop' = [loop EXCEPT !.steps = Tail(@), !.applied = @ \cup applied]
  /\ UNCHANGED <<params, history>>

\* repairTranscript: the corrected text, or the same when the call or its answer is
\* of no use; without a transcript there is nothing to correct.
RepairSubtitles ==
  /\ NextStep("SUBTITLE_ONLY")
  /\ \/ cut' = cut
     \/ /\ cut.transcript # NoTranscript
        /\ cut' = [cut EXCEPT !.transcript.edit = loop.attempt]
  /\ EndStep(Applied(Head(loop.steps)))

\* The narration is spoken again from the blueprint of the run; its transcript stays
\* when the new one cannot be had.  An error of generateAudio ends the run.
RegenerateAudio ==
  /\ NextStep("AUDIO_REGEN")
  /\ LET voice == [real |-> TRUE, take |-> loop.attempt, concept |-> params.blueprint]
     IN \/ cut' = [cut EXCEPT !.voice = voice]
        \/ cut' = [cut EXCEPT !.voice = voice,
                              !.transcript = [take |-> loop.attempt, edit |-> 0]]
  /\ EndStep(Applied(Head(loop.steps)))

\* The clip of the scene is filmed again and the video put together again.  Without
\* a clip of that scene the same video results; when the concatenation fails, the
\* clips have changed and the video has not.
Refilmed(scene) ==
  [i \in DOMAIN cut.clips |->
     IF cut.clips[i].scene = scene THEN [scene |-> scene, take |-> loop.attempt]
     ELSE cut.clips[i]]

RegenerateClip ==
  /\ NextStep("CLIP_REGEN")
  /\ LET clips == Refilmed(Head(loop.steps).scene)
     IN \/ /\ cut' = [cut EXCEPT !.clips = clips, !.video = clips]
           /\ EndStep(Applied(Head(loop.steps)))
        \/ /\ Len(clips) > 1
           /\ cut' = [cut EXCEPT !.clips = clips]
           /\ EndStep({})
        \/ cut' = cut /\ EndStep({})

\* Without any repair another pass would change nothing.
EndRepairs ==
  /\ loop.pc = "repair" /\ loop.steps = <<>>
  /\ loop' = IF loop.applied = {} THEN [loop EXCEPT !.pc = "exhausted"]
             ELSE [loop EXCEPT !.pc = "finalize", !.attempt = @ + 1,
                               !.pending = loop.applied]
  /\ UNCHANGED <<params, cut, history>>

\* The assembly or the voice fails, and the error goes up; the judge never fails,
\* each of its measurements does on its own.
LoopThrows ==
  /\ \/ loop.pc = "finalize" /\ cut.voice.real
     \/ NextStep("AUDIO_REGEN")
  /\ loop' = [loop EXCEPT !.pc = "threw"]
  /\ UNCHANGED <<params, cut, history>>

LoopStep ==
  \/ FinalizeSkipped \/ Finalize \/ JudgeVideo \/ LoopThrows
  \/ RepairSubtitles \/ RegenerateAudio \/ RegenerateClip \/ EndRepairs

-----------------------------------------------------------------------------
\* Whatever a repair does, the judgment the loop goes on from never gets worse: each
\* one it adopts keeps the global score, and no critical criterion falls below its
\* floor (repair-regression-guard.ts:15, video-quality-loop.service.ts:177).
OperativeNeverDrops ==
  [][\/ loop.operative = NoJudgment
     \/ loop'.operative \in {NoJudgment, loop.operative}
     \/ RepairAccepted(loop.operative, loop'.operative)]_loopVars

\* What is delivered, and what the next repairs start from, is the very cut that the
\* judgment the loop goes by was made on: undoing a repair restores all of the state,
\* and nothing of it survives in the clips, the video, the voice or the transcript
\* (video-quality-loop.service.ts:116).
OperativeMatchesCut ==
  /\ loop.pc = "repair" => loop.preRepair = loop.judged
  /\ loop.pc = "passed" => cut = loop.judged
===============================================================================
