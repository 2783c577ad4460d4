---------------------------- MODULE VideoAnalyzer -----------------------------
(* VideoAnalyzerService: what is measured on each clip as soon as it is made.  *)
(* Pure operators.  Of a clip, frozen is the percentage of its time in which    *)
(* nothing moves (ffmpeg), and reply what the vision model says of its likeness *)
(* to the product.                                                             *)
EXTENDS Integers

CONSTANT Failed   \* a measurement or a call that gave nothing usable

FREEZE_RATIO_THRESHOLD == 30
FIDELITY_SCORE_THRESHOLD == 70
NEUTRAL_FIDELITY_SCORE == 50

\* checkMotionQuality; a clip without a duration is frozen throughout.
MotionQuality(frozen) ==
  [passed |-> frozen <= FREEZE_RATIO_THRESHOLD, score |-> 100 - frozen]

\* checkVisualFidelity and parseFidelityResult: against an identity that is only a
\* fallback nothing can be measured, which is no fault of the clip.
VisualFidelity(reply, described) ==
  IF ~described THEN [passed |-> TRUE, score |-> NEUTRAL_FIDELITY_SCORE]
  ELSE IF reply = Failed THEN [passed |-> FALSE, score |-> 0]
  ELSE [passed |-> reply.matches /\ reply.score >= FIDELITY_SCORE_THRESHOLD,
        score |-> reply.score]

\* analyze: a clip that cannot be read, or an error of the vision model, is the worst.
ShotQuality(clip, described) ==
  IF clip = Failed THEN [passed |-> FALSE, score |-> 0, motion |-> 0, fidelity |-> 0]
  ELSE LET motion == MotionQuality(clip.frozen)
           fidelity == VisualFidelity(clip.reply, described)
       IN [passed |-> motion.passed /\ fidelity.passed,
           score |-> (40 * motion.score + 60 * fidelity.score + 50) \div 100,
           motion |-> motion.score,
           fidelity |-> IF described THEN fidelity.score ELSE Failed]
===============================================================================
