------------------------ MODULE MCCampaignLifecycle ------------------------
(* Small instances of CampaignLifecycle for TLC.                           *)
EXTENDS CampaignLifecycle, FiniteSets

CONSTANTS c1

OneCampaign == {c1}
ThreeRequests == 1..3
FourRequests == 1..4

\* Every fault; and late errors and aborted requests alone.
EveryFault == {FaultKinds, {"lateError"}, {"abort", "lateError"}}
\* What a retry is for.
LateErrors == {{"lateError"}}

\* Nothing tells the requests on one campaign apart: they come in their order.  There
\* are four in all, or three where anything may fail, and two if the process dies twice.
InOrder ==
  /\ \A q, r \in Requests : q < r /\ reqPc[q] = "new" => reqPc[r] = "new"
  /\ Cardinality({r \in Requests : reqPc[r] # "new"}) + crashes <= 4
  /\ faults = FaultKinds => \A r \in Requests : r > 3 => reqPc[r] = "new"
=============================================================================
