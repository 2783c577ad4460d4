------------------------------ MODULE VideoJudge ------------------------------
(* What the Video Judge makes of its measurements of the assembled video     *)
(* (ai/video-judge/video-judge.service.ts): nineteen criteria, a weighted    *)
(* global score and a verdict.  Pure operators; a measurement is what ffmpeg, *)
(* the vision model or the text model answered, and every one of them can    *)
(* fail on its own.  Percentages are integers from 0 to 100.                 *)
EXTENDS VideoAnalyzer, Sequences, FiniteSets, FiniteSetsExt

CONSTANT NoScene

PASS_THRESHOLD == 62
ADVERTISING_FLOOR == 60
CRITICAL_FLOOR == 50
NEUTRAL_SCORE == 50

\* The order in which judge() lists the criteria it measures itself ...
MeasuredCriteria ==
  <<"productConsistency", "motionDynamism", "audioQuality", "voiceAudibility",
    "voiceDynamism", "voicePacing", "productVisibility", "visualComposition",
    "formatCompliance", "sceneConsistency">>
\* ... and the nine that one grouped call to the text model answers.
TextCriterionNames ==
  <<"storytelling", "hookStrength", "pacing", "textReadability", "grammar",
    "ctaClarity", "brandCoherence", "factualConsistency",
    "advertisingEffectiveness">>
JudgeCriterionName ==
  {MeasuredCriteria[i] : i \in DOMAIN MeasuredCriteria} \cup
  {TextCriterionNames[i] : i \in DOMAIN TextCriterionNames}

WEIGHTS ==
  [productConsistency |-> 12, factualConsistency |-> 10,
   advertisingEffectiveness |-> 10, productVisibility |-> 7, storytelling |-> 7,
   hookStrength |-> 6, ctaClarity |-> 7, brandCoherence |-> 5,
   motionDynamism |-> 4, pacing |-> 5, audioQuality |-> 4,
   voiceAudibility |-> 3, formatCompliance |-> 3, textReadability |-> 2,
   grammar |-> 2, voiceDynamism |-> 4, voicePacing |-> 3,
   visualComposition |-> 3, sceneConsistency |-> 3]

CRITICAL_CRITERIA == {"productConsistency", "factualConsistency", "formatCompliance"}
ADVERTISING_EFFECTIVENESS_CRITERIA ==
  {"advertisingEffectiveness", "hookStrength", "ctaClarity", "storytelling",
   "pacing", "factualConsistency"}

-----------------------------------------------------------------------------
(* Results of one criterion.                                                *)

Criterion(score, defect) ==
  [score |-> score, defect |-> defect, scene |-> NoScene, confidence |-> 0]
Measured(score) == Criterion(score, "none")
Defective(score) == Criterion(score, "real")
\* UNAVAILABLE_DEFECT: the measurement failed, which is not a defect of the video.
Unavailable == Criterion(NEUTRAL_SCORE, "unavailable")

BelowFloor(score) == IF score < CRITICAL_FLOOR THEN Defective(score) ELSE Measured(score)

\* Math.round(sum / n) of natural numbers.
Rounded(sum, n) == (2 * sum + n) \div (2 * n)
Average(scores) == Rounded(MapThenSumSet(LAMBDA s : scores[s], DOMAIN scores),
                           Cardinality(DOMAIN scores))

\* buildAggregatedCriteria: the means of what was measured on each clip while it
\* was made; a clip whose reference was a fallback has no fidelity to count.
AggregatedCriteria(quality) ==
  LET known == {s \in DOMAIN quality : quality[s].fidelity # Failed}
  IN [productConsistency |->
        IF known = {} THEN Unavailable
        ELSE BelowFloor(Average([s \in known |-> quality[s].fidelity])),
      motionDynamism |->
        IF DOMAIN quality = {} THEN Unavailable
        ELSE BelowFloor(Average([s \in DOMAIN quality |-> quality[s].motion]))]

\* scoreLoudnessConvergence: 25 points are lost per LUFS away from the target.
AudioQuality(lufsAway) ==
  IF lufsAway = Failed THEN Unavailable
  ELSE BelowFloor(IF lufsAway >= 4 THEN 0 ELSE 100 - 25 * lufsAway)

\* buildVoiceAudibilityCriterion; the narration is null when it cannot be read.
VoiceAudibility(narration) ==
  CASE narration = Failed -> Unavailable
    [] narration = "silent" -> Defective(20)
    [] OTHER -> Measured(90)

\* scoreAcousticDynamics: best for a level that deviates by 4 dB.
AcousticDynamics(deviation) ==
  IF deviation >= 4 THEN Max({40, 100 - 5 * (deviation - 4)}) ELSE 25 * deviation

\* buildVoiceDynamismCriterion and classifyAcousticDynamics: the deviation in dB of the
\* level of the narration.
VoiceDynamism(deviation) ==
  IF deviation = Failed THEN Unavailable
  ELSE Criterion(AcousticDynamics(deviation), IF deviation < 2 THEN "real" ELSE "none")

\* computeVoicePacing (voice-pacing.ts), of a transcript: its words, and the tenths of a
\* second that are spoken and that are paused between the first word and the last.
SpokenAt(t) ==
  IF t = Failed \/ t.words = 0 \/ t.spoken = 0 THEN Failed
  ELSE IF 100 * t.pause > 35 * (t.spoken + t.pause) THEN "VOICE_PAUSE_HEAVY"
  ELSE IF 100 * t.words > 35 * t.spoken THEN "VOICE_TOO_FAST"
  ELSE IF 100 * t.words < 25 * t.spoken THEN "VOICE_TOO_SLOW"
  ELSE "VOICE_PACING_OK"

\* buildVoicePacingCriterion
VoicePacing(diagnostic) ==
  CASE diagnostic = Failed -> Unavailable
    [] diagnostic = "VOICE_PACING_OK" -> Measured(90)
    [] OTHER -> Defective(45)

\* buildVisionCriteria: one call gives both criteria, or neither.  A composition that
\* is not in the answer is unavailable; one without a score is a defect.
VisionCriteria(reply) ==
  IF reply = Failed
  THEN [productVisibility |-> Unavailable, visualComposition |-> Unavailable]
  ELSE [productVisibility |->
          IF reply.visible THEN BelowFloor(reply.score) ELSE Defective(reply.score),
        visualComposition |->
          IF reply.composition = Failed THEN Unavailable
          ELSE IF reply.composition.score = Failed THEN Defective(NEUTRAL_SCORE)
          ELSE BelowFloor(reply.composition.score)]

-----------------------------------------------------------------------------
(* The two criteria that can name a scene.                                  *)

\* Confidence is 1 - deviation / 0.08: at least 0.7 (0.5) is a deviation of the
\* ratios of at most 2.4 (4.0) hundredths, written without a square root.
DeviationWithin(ratios, hundredfold) ==
  LET n == Len(ratios)
      sum == MapThenSumSet(LAMBDA i : ratios[i], DOMAIN ratios)
      squares == MapThenSumSet(LAMBDA i : ratios[i] * ratios[i], DOMAIN ratios)
  IN 100 * (n * squares - sum * sum) <= hundredfold * n * n
CompositionConfidence(ratios) ==
  IF DeviationWithin(ratios, 576) THEN 70
  ELSE IF DeviationWithin(ratios, 1600) THEN 50 ELSE 0

\* buildFormatComplianceCriterion: samples of the share of the frame in use, each at
\* the place of the plan that shotAtTime gives for its moment.
FormatCompliance(samples, plan) ==
  IF Len(samples) < 3 THEN Unavailable
  ELSE
    LET ratios == [i \in DOMAIN samples |-> samples[i].ratio]
        sum == MapThenSumSet(LAMBDA i : ratios[i], DOMAIN ratios)
        problems == SelectSeq(samples, LAMBDA s : s.ratio < 95)
        confidence == CompositionConfidence(
          IF problems = <<>> THEN ratios ELSE [i \in DOMAIN problems |-> problems[i].ratio])
        scenes == {plan[problems[i].slot] : i \in DOMAIN problems}
        culprit == IF Len(problems) < Len(samples) /\ Cardinality(scenes) = 1
                   THEN CHOOSE s \in scenes : TRUE ELSE NoScene
    IN IF sum >= 95 * Len(samples) THEN [Measured(100) EXCEPT !.confidence = confidence]
       ELSE [Defective(IF confidence < 50 THEN NEUTRAL_SCORE ELSE Rounded(sum, Len(samples)))
               EXCEPT !.confidence = confidence, !.scene = culprit]

\* resolveSceneConsistencyCulprit: each defect names one scene or two; several
\* defects have a culprit when one scene is in all of them.
Culprit(defects) ==
  LET named(d) == {d.scenes[i] : i \in DOMAIN d.scenes}
      common == {i \in DOMAIN defects[1].scenes :
                   \A j \in DOMAIN defects : defects[1].scenes[i] \in named(defects[j])}
  IN IF (Len(defects) = 1 /\ Len(defects[1].scenes) = 2) \/ common = {} THEN NoScene
     ELSE defects[1].scenes[Min(common)]

\* buildSceneConsistencyCriterion and parseSceneConsistencyResult: references to
\* scenes that are not in the plan are dropped, and the confidence is the one the
\* answer gives for the whole, or else the least of its defects.
SceneConsistency(reply, scenes) ==
  IF Cardinality(scenes) < 2 THEN [Measured(100) EXCEPT !.confidence = 100]
  ELSE IF reply = Failed THEN Unavailable
  ELSE LET defects == SelectSeq(reply.defects,
                        LAMBDA d : \A i \in DOMAIN d.scenes : d.scenes[i] \in scenes)
           confidence ==
             CASE reply.confidence # Failed -> reply.confidence
               [] defects = <<>> -> 0
               [] OTHER -> Min({defects[i].confidence : i \in DOMAIN defects})
       IN [score |-> reply.score, confidence |-> confidence,
           defect |-> IF defects = <<>> THEN "none" ELSE "real",
           scene |-> IF defects = <<>> THEN NoScene ELSE Culprit(defects)]

-----------------------------------------------------------------------------
(* The grouped text criteria, the scores and the verdict.                   *)

\* buildTextCriteria: the call is made again when nothing in its answer was
\* usable, never when only some criteria are missing.
TextCriteria(first, second) ==
  LET reply == IF DOMAIN first = {} THEN second ELSE first
  IN [name \in {TextCriterionNames[i] : i \in DOMAIN TextCriterionNames} |->
        IF name \notin DOMAIN reply THEN Unavailable
        ELSE Criterion(reply[name].score, IF reply[name].defect THEN "real" ELSE "none")]

WeightedScore(criteria, group) ==
  LET available == {c \in group : criteria[c].defect # "unavailable"}
      weight == MapThenSumSet(LAMBDA c : WEIGHTS[c], available)
  IN [score |-> IF weight = 0 THEN NEUTRAL_SCORE
                ELSE Rounded(MapThenSumSet(LAMBDA c : WEIGHTS[c] * criteria[c].score,
                                           available), weight),
      dataAvailable |-> weight > 0]

GlobalScore(criteria) == WeightedScore(criteria, JudgeCriterionName).score

CriticalFailure(criteria) ==
  \E c \in CRITICAL_CRITERIA :
    criteria[c].defect # "unavailable" /\ criteria[c].score < CRITICAL_FLOOR

Verdict(criteria) ==
  LET advertising == WeightedScore(criteria, ADVERTISING_EFFECTIVENESS_CRITERIA)
  IN IF /\ GlobalScore(criteria) >= PASS_THRESHOLD
        /\ ~CriticalFailure(criteria)
        /\ ~advertising.dataAvailable \/ advertising.score >= ADVERTISING_FLOOR
     THEN "PASS" ELSE "REPAIR_REQUIRED"

\* judge(): every criterion of the assembled video, for the quality measured on its
\* clips, the scenes in the order of the plan and what was measured.
Criteria(quality, plan, m) ==
  LET aggregated == AggregatedCriteria(quality)
      vision == VisionCriteria(m.vision)
      text == TextCriteria(m.text1, m.text2)
      measured ==
        [audioQuality |-> AudioQuality(m.lufsAway),
         voiceAudibility |-> VoiceAudibility(m.narration),
         voiceDynamism |-> VoiceDynamism(m.deviation),
         voicePacing |-> VoicePacing(SpokenAt(m.speech)),
         formatCompliance |-> FormatCompliance(m.crop, plan),
         sceneConsistency |-> SceneConsistency(m.consistency, {plan[i] : i \in DOMAIN plan})]
  IN [c \in JudgeCriterionName |->
        CASE c \in DOMAIN aggregated -> aggregated[c]
          [] c \in DOMAIN vision -> vision[c]
          [] c \in DOMAIN text -> text[c]
          [] OTHER -> measured[c]]

Judgment(criteria) ==
  [criteria |-> criteria, score |-> GlobalScore(criteria), verdict |-> Verdict(criteria)]
===============================================================================
