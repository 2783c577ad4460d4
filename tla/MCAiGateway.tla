---------------------------- MODULE MCAiGateway ----------------------------
(* A small instance of AiGateway for TLC.                                  *)
EXTENDS AiGateway, TLC

CONSTANTS c1, c2, c3, k1, k2

ThreeCallers == {c1, c2, c3}
TwoCampaigns == {k1, k2}
\* Two callers work for the first campaign, one for the second.
CampaignOfCaller == [c \in Callers |-> IF c = c3 THEN k2 ELSE k1]
TwoTasks == {"generateVideo", "generateText"}
\* The first campaign has its clips made, the second anything.
TasksOfCaller == [c \in Callers |-> IF c = c3 THEN Tasks ELSE {"generateVideo"}]
\* A clip costs more than a text, and only text has a second provider.
Costs == [t \in Tasks |-> IF t = "generateVideo" THEN 2 ELSE 1]
Chains == [t \in Tasks |-> IF t = "generateText" THEN 2 ELSE 1]

SameCampaign == Permutations({c1, c2})
=============================================================================
