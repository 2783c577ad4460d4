------------------------------- MODULE Optimizer -------------------------------
(* The figures of a published campaign (optimizer/analytics-ingestion.service.ts),*)
(* the recommendations that are made from them at night or on demand              *)
(* (optimizer/ai-optimizer.service.ts), what people decide of these               *)
(* (optimizer/optimizer.service.ts), and what came of it                          *)
(* (optimizer/optimizer-outcome.service.ts).                                      *)
EXTENDS Requests, Functions

CONSTANTS
  Platforms,
  PostedOn,         \* the platform of each post of the campaign, in the order they are asked
  MaxAnalyses,      \* maxOptimizerRuns of the plan
  MaxReached,       \* bound: how many people see each post
  Recommendations0  \* the recommendations there were before

Manual == "none"   \* the platform of a row that was declared

Columns == Platforms \cup {Manual}

RecommendationsOf(requests) ==
  [status : {"PENDING", "APPLIED", "DISMISSED"}, snapshot : Int, measured : BOOLEAN,
   impact : Int, decided : SUBSET requests]

\* What was decided before was decided once, by 0.
ASSUME OptimizerAssumption ==
  /\ IsFiniteSet(Platforms) /\ Manual \notin Platforms
  /\ PostedOn \in Seq(Platforms)
  /\ MaxAnalyses \in Nat /\ MaxReached \in Nat
  /\ \A rows \in Recommendations0 :
       /\ rows \in Seq(RecommendationsOf({0})) /\ Len(rows) <= MaxAnalyses
       /\ \A i \in DOMAIN rows :
            /\ rows[i].status = "PENDING" <=> rows[i].decided = {}
            /\ rows[i].measured => rows[i].status = "APPLIED"

VARIABLES
  reached,          \* how many have seen each of the posts, as the platforms count them
  declared,         \* the sum of the conversions that people have declared (history)
  metrics,          \* the rows of figures of each platform, in the order of their creation
  fetched,          \* per platform, what each request has added up
  recommendations   \* the rows of the recommendations

optimizerVars == <<reached, declared, metrics, fetched, recommendations>>

\* whole is whether the figures of every post on the platform are in the row (history).
Row(count, whole, r) == [count |-> count, whole |-> whole, by |-> r]

\* snapshot is what getSnapshotBefore finds of the time when it was applied; decided are
\* the requests that applied or dismissed it (history).
Recommendation(status) ==
  [status |-> status, snapshot |-> 0, measured |-> FALSE, impact |-> 0, decided |-> {}]

NothingFetched == [platform \in {} |-> [count |-> 0, posts |-> 0]]

OptimizerInit ==
  /\ reached = 0
  /\ declared = 0
  /\ metrics = [column \in Columns |-> <<>>]
  /\ fetched = [r \in Requests |-> NothingFetched]
  /\ recommendations \in Recommendations0

-----------------------------------------------------------------------------
(* The figures.                                                            *)

CountOf(rows) == SumFunction([i \in DOMAIN rows |-> rows[i].count])
LatestOf(rows) == IF rows = <<>> THEN 0 ELSE rows[Len(rows)].count
OfPlatforms == SumFunction([p \in Platforms |-> LatestOf(metrics[p])])

\* Mutant: one row of declared conversions is kept, as for the platforms.
AggregatedLatestOnly == OfPlatforms + LatestOf(metrics[Manual])
\* getAggregatedMetric: the latest row of each platform, which counts all since the post,
\* and all the conversions that were declared.
Aggregated == OfPlatforms + CountOf(metrics[Manual])

\* getSnapshotBefore: the declared conversions are here like one more platform.
SnapshotBefore == OfPlatforms + LatestOf(metrics[Manual])

\* More people see the posts (external: the platforms).
PostsAreSeen ==
  /\ reached < MaxReached
  /\ reached' = reached + 1
  /\ UNCHANGED <<declared, metrics, fetched, recommendations, requestVars>>

\* recordManualConversion.
RecordConversion(r) ==
  /\ Arrives(r, "optimizer")
  /\ \E n \in {1, 2} :
       /\ metrics' = [metrics EXCEPT ![Manual] = Append(@, Row(n, TRUE, r))]
       /\ declared' = declared + n
  /\ Call(r, [NewRequest EXCEPT !.op = "declare", !.pc = "done"])
  /\ UNCHANGED <<reached, fetched, recommendations>>

\* What a post adds to the sum of its platform; what is not answered counts for nothing.
Added(sums, platform, count, answered) ==
  [p \in DOMAIN sums \cup {platform} |->
     LET sum == IF p \in DOMAIN sums THEN sums[p] ELSE [count |-> 0, posts |-> 0] IN
     IF p # platform THEN sum
     ELSE [count |-> sum.count + count, posts |-> sum.posts + (IF answered THEN 1 ELSE 0)]]

\* syncCampaignMetrics: the posts are asked for one after the other.  An adapter gives
\* empty figures where the platform refuses; what it throws twice leaves the post out.
FetchInsights(r) ==
  /\ req[r].pc = "sync"
  /\ req[r].level <= Len(PostedOn)
  /\ LET platform == PostedOn[req[r].level] IN
       \/ fetched' = [fetched EXCEPT ![r] = Added(@, platform, reached, TRUE)]
       \/ fetched' = [fetched EXCEPT ![r] = Added(@, platform, 0, FALSE)]
       \/ UNCHANGED fetched
  /\ Becomes(r, [req[r] EXCEPT !.level = @ + 1])
  /\ UNCHANGED <<reached, declared, metrics, recommendations>>

\* One row for each platform, in any order.
WriteRow(r) ==
  /\ req[r].pc = "sync"
  /\ req[r].level > Len(PostedOn)
  /\ \E platform \in DOMAIN fetched[r] :
       /\ metrics' = [metrics EXCEPT ![platform] = Append(@,
            Row(fetched[r][platform].count,
                fetched[r][platform].posts = Cardinality({i \in DOMAIN PostedOn : PostedOn[i] = platform}),
                r))]
       /\ fetched' = [fetched EXCEPT ![r] = [p \in DOMAIN @ \ {platform} |-> @[p]]]
  /\ UNCHANGED <<reached, declared, recommendations, requestVars>>

AllWritten(r) ==
  /\ req[r].pc = "sync"
  /\ req[r].level > Len(PostedOn) /\ fetched[r] = NothingFetched
  /\ Goto(r, "aggregate")
  /\ UNCHANGED optimizerVars

\* A query of the request throws: what was written of the figures stays.
OptimizerFails(r) ==
  /\ req[r].op \in {"analyze", "measure"} /\ req[r].pc \in {"sync", "aggregate", "create"}
  /\ fetched' = [fetched EXCEPT ![r] = NothingFetched]
  /\ Goto(r, "refused")
  /\ UNCHANGED <<reached, declared, metrics, recommendations>>

-----------------------------------------------------------------------------
(* The recommendations.                                                    *)

\* runForOrganization, at night or on demand, comes to the campaign.
AnalyzeCampaign(r) ==
  /\ Arrives(r, "optimizer")
  /\ Call(r, [NewRequest EXCEPT !.op = "analyze", !.pc = "sync", !.level = 1])
  /\ UNCHANGED optimizerVars

RunAvailable == Len(recommendations) < MaxAnalyses

\* assertOptimizerRunAvailable, before the call that costs.
AssertOptimizerRun(r) ==
  /\ Doing(r, "analyze", "aggregate")
  /\ Goto(r, IF \A column \in Columns : metrics[column] = <<>> THEN "done" ELSE IF RunAvailable THEN "create" ELSE "refused")
  /\ UNCHANGED optimizerVars

\* generateRecommendation gives nothing when the call or its JSON fails.
NothingGenerated(r) ==
  /\ Doing(r, "analyze", "create")
  /\ Goto(r, "done")
  /\ UNCHANGED optimizerVars

\* Mutant: what was checked before the call is not checked again.
CreateUnchecked(r) ==
  /\ Doing(r, "analyze", "create")
  /\ recommendations' = Append(recommendations, Recommendation("PENDING"))
  /\ Goto(r, "done")
  /\ UNCHANGED <<reached, declared, metrics, fetched>>
\* The transaction counts again and creates; Postgres lets one of two that overlap fail.
CreateRecommendation(r) ==
  /\ Doing(r, "analyze", "create")
  /\ IF RunAvailable
     THEN recommendations' = Append(recommendations, Recommendation("PENDING")) /\ Goto(r, "done")
     ELSE UNCHANGED recommendations /\ Goto(r, "refused")
  /\ UNCHANGED <<reached, declared, metrics, fetched>>

\* Mutant: what was applied may still be dismissed.
MayBeDecidedAgain(i) == recommendations[i].status # "DISMISSED"
MayBeDecided(i) == recommendations[i].status = "PENDING"

\* apply and dismiss: the status is read ...
Review(r) ==
  /\ Arrives(r, "optimizer")
  /\ \E i \in DOMAIN recommendations, decision \in {"APPLIED", "DISMISSED"} :
       Call(r, [NewRequest EXCEPT !.op = "review", !.seen = i, !.value = decision,
                                  !.pc = IF MayBeDecided(i) THEN "write" ELSE "refused"])
  /\ UNCHANGED optimizerVars

\* ... and then written.
WriteReview(r) ==
  /\ Doing(r, "review", "write")
  /\ recommendations' = [recommendations EXCEPT ![req[r].seen].status = req[r].value,
                                                ![req[r].seen].snapshot = SnapshotBefore,
                                                ![req[r].seen].decided = @ \cup {r}]
  /\ Goto(r, "done")
  /\ UNCHANGED <<reached, declared, metrics, fetched>>

-----------------------------------------------------------------------------
(* Their outcome.                                                          *)

\* measurePendingOutcomes comes to a recommendation that was applied seven days ago; the
\* figures of that time are found in the rows that there were.
MeasureOutcome(r) ==
  /\ Arrives(r, "optimizer")
  /\ \E i \in DOMAIN recommendations :
       /\ recommendations[i].status = "APPLIED" /\ ~recommendations[i].measured
       /\ Call(r, [NewRequest EXCEPT !.op = "measure", !.pc = "sync", !.level = 1, !.seen = i])
  /\ UNCHANGED optimizerVars

\* The figures are read again, and what they are is written by id.
WriteOutcome(r) ==
  /\ Doing(r, "measure", "aggregate")
  /\ recommendations' = [recommendations EXCEPT ![req[r].seen].measured = TRUE,
                                                ![req[r].seen].impact =
                                                    Aggregated - recommendations[req[r].seen].snapshot]
  /\ Goto(r, "done")
  /\ UNCHANGED <<reached, declared, metrics, fetched>>

OptimizerStep ==
  \/ PostsAreSeen
  \/ \E r \in Requests :
       \/ RecordConversion(r) \/ FetchInsights(r) \/ WriteRow(r) \/ AllWritten(r)
       \/ OptimizerFails(r) \/ AnalyzeCampaign(r) \/ AssertOptimizerRun(r)
       \/ NothingGenerated(r) \/ CreateRecommendation(r) \/ Review(r) \/ WriteReview(r)
       \/ MeasureOutcome(r) \/ WriteOutcome(r)

-----------------------------------------------------------------------------
\* The figures that are shown and given to the optimizer count everybody once: they hold
\* all the conversions that were declared, and of the platforms no more than they have
\* counted (analytics-ingestion.service.ts:231-240).  Of one platform they fall only where
\* its figures could not be had for all its posts, or where two requests asked for them at
\* the same time.
FiguresAreTrue ==
  /\ Aggregated \in declared..(declared + reached * Len(PostedOn))
  /\ \A platform \in Platforms : \A i, j \in DOMAIN metrics[platform] :
       i < j /\ metrics[platform][j].count < metrics[platform][i].count
       => ~metrics[platform][j].whole \/ Met(metrics[platform][i].by, metrics[platform][j].by)

\* However the nightly run, the runs on demand and the reviews cross, an organization has
\* no more recommendations than its plan gives it (ai-optimizer.service.ts:107-112), each
\* is decided once, unless two people decide at the same time, and only one that is
\* applied is measured (optimizer.service.ts:40).
RecommendationsStand ==
  /\ Len(recommendations) <= MaxAnalyses
  /\ \A i \in DOMAIN recommendations :
       /\ \A r, s \in recommendations[i].decided : r = s \/ Met(r, s)
       /\ recommendations[i].measured /\ recommendations[i].status # "APPLIED"
            => \E r, s \in recommendations[i].decided : Met(r, s)
================================================================================
