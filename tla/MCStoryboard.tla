---------------------------- MODULE MCStoryboard ----------------------------
(* Small instances of Storyboard for TLC.                                  *)
EXTENDS Storyboard, TLC

CONSTANTS s1, s2, k1

TwoShots == {s1, s2}
OneCampaign == {k1}
SameCampaign == [c \in Callers |-> k1]
FirstShotFirst == [s \in Shots |-> IF s = s1 THEN 1 ELSE 2]
\* No shot plan of today has dependencies.
NoDependencies == [s \in TwoShots |-> {}]
Waves == DependencyWaves(TwoShots, NoDependencies)
VideoTasks == {"generateVideo", "analyzeImage"}
AnyTask == [c \in Callers |-> Tasks]
\* A clip costs more than what looks at it, as in CREDIT_COSTS.
Costs == [t \in Tasks |-> IF t = "generateVideo" THEN 3 ELSE 1]
OneProvider == [t \in Tasks |-> 1]
=============================================================================
