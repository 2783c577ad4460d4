------------------------------ MODULE MCWorkspace ------------------------------
(* Small instances of Workspace for TLC.                                          *)
EXTENDS Workspace, TLC

CONSTANTS ann, bob, eve, page

ThreeRequests == 1..3
ThreeUsers == {ann, bob, eve}
OneAccount == {page}
\* The platform that may give a refresh token or not.
AtLinkedIn == page :> "LINKEDIN"
TwoPlans == {"starter", "growth"}
TwoRoles == {"ADMIN", "OWNER"}

\* Three requests are for the team or for the accounts; two, for a team of two
\* owners or for the subscription; or one is for the subscription, alone or beside
\* one for the team.
DeskPlans == {[r \in ThreeRequests |-> component] : component \in {"team", "social"}}
TwoDesks == {<<"team", "team", "none">>, <<"billing", "billing", "none">>,
             <<"billing", "team", "none">>, <<"billing", "none", "none">>, <<"platform", "none", "none">>}
TeamAlone == {<<"team", "team", "team">>}
AllDesks == DeskPlans \cup TwoDesks

\* One owner alone, and two.
Beginnings == {[u \in ThreeUsers |-> IF u \in owners THEN "OWNER" ELSE NoRole] :
                 owners \in {s \in SUBSET ThreeUsers : Cardinality(s) \in {1, 2}}}
\* Once something older or foreign was written over the row no property says anything of
\* it any more: the subscription is followed up to there.  Beside the team one change at
\* Stripe is enough, and a webhook comes twice where one request is for the subscription.
RowIsFollowed ==
  /\ ~row.detached
  /\ Staffed("team") => stripe.news <= 1
  /\ Cardinality({r \in Requests : desk[r] # "none"}) > 1 => stripe.redelivered = 0
\* One of the tokens that the account is given comes to its end.
OneTokenAges == Cardinality({t \in 1..MaxTokens : age[page][t] # "fresh"}) <= 1
\* The team alone has three seats; the trial, with two, is where the plan may change.
StartsHere ==
  /\ Cardinality(Owners) = 2 <=> desk = <<"team", "team", "none">>
  /\ Staffed("billing") \/ row.plan # "trial"
  /\ row.plan # "growth"
  /\ Staffed("social") \/ connections[page].status = "none"
\* Nothing tells the users apart.
Alike == Permutations(ThreeUsers)
SmallInit == Init /\ StartsHere
SmallSpec == SmallInit /\ [][Next]_vars
================================================================================
