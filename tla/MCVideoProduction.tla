-------------------------- MODULE MCVideoProduction --------------------------
(* Small instances of VideoProduction for TLC.                              *)
EXTENDS VideoProduction, TLC

\* What the models may answer: one good answer and the bad ones that matter.
Briefs == {[benefit |-> TRUE, cta |-> TRUE, audience |-> TRUE]}
GoodConcept == [message |-> TRUE, hook |-> TRUE, cta |-> TRUE, audience |-> TRUE,
                alignment |-> TRUE, scenes |-> 3]
Concepts == {GoodConcept, Unusable}
Gates == {[rejected |-> FALSE, score |-> 80], [rejected |-> FALSE, score |-> 70]}
Beats == {[beats |-> [b \in {"problem", "proof"} |-> TRUE]], Unusable}
Looks == {"described", Unusable}

Entry(role, text, look) ==
  [role |-> role, text |-> text, beat |-> IF role = "hook" THEN "problem" ELSE "proof",
   look |-> look, seconds |-> 6]
\* The plan opens with the story, so the hook is launched before the scene it follows.
GoodPlan == <<Entry("story", FALSE, "wide"), Entry("hook", TRUE, "close"),
              Entry("payoff", FALSE, "packshot")>>
AlikePlan == <<Entry("hook", TRUE, "wide"), Entry("payoff", TRUE, "wide"), Unusable>>
Plans == {GoodPlan, AlikePlan}
Board(score, scores, scenes) ==
  [rejected |-> FALSE, score |-> score, scores |-> scores, scenesToRemove |-> scenes]
NoScores == [c \in {} |-> 0]
Boards == {Board(90, NoScores, <<3, 2>>), Board(85, [c \in {"ctaClarity"} |-> 50], <<>>)}
Footage == {[frozen |-> 30, reply |-> [matches |-> TRUE, score |-> 80]]}
Levels == {400, 920, 2000}
RealOnly == {TRUE}
RealOrMock == BOOLEAN

\* What one pass of the judge may measure.
TextReply(low, defects) ==
  [c \in {TextCriterionNames[i] : i \in DOMAIN TextCriterionNames} |->
     [score |-> IF c \in low THEN 30 ELSE 75, defect |-> c \in defects]]
Speech(words, spoken) == [words |-> words, spoken |-> spoken, pause |-> 10]
Full == <<[ratio |-> 100, slot |-> 1], [ratio |-> 100, slot |-> 2], [ratio |-> 100, slot |-> 2]>>
Good == [vision |-> [visible |-> TRUE, score |-> 80, composition |-> [score |-> 80]],
         text1 |-> TextReply({}, {}), text2 |-> <<>>, lufsAway |-> 0,
         narration |-> "heard", deviation |-> 4, speech |-> Speech(30, 100),
         crop |-> Full, consistency |-> Failed]
Borders == [Good EXCEPT !.crop = <<[ratio |-> 20, slot |-> 1], [ratio |-> 20, slot |-> 1],
                                   [ratio |-> 100, slot |-> 2]>>]
\* A false claim, in subtitles that are hard to follow ...
Misled == [Good EXCEPT !.text1 = TextReply({"factualConsistency"},
                                           {"factualConsistency", "pacing"})]
\* ... and a story that does not hold, spoken too fast: worse in its pace than Misled.
Dull == [Good EXCEPT !.speech = Speech(40, 100),
                     !.text1 = TextReply({"storytelling", "hookStrength", "pacing"},
                                         {"storytelling"})]
Measures == {Good, Borders, Misled, Dull}
===============================================================================
