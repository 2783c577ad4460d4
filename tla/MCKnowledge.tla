------------------------------ MODULE MCKnowledge ------------------------------
(* Small instances of Knowledge for TLC.                                          *)
EXTENDS Knowledge, TLC

CONSTANTS long, short, here, there, meta, ads, shop, tracked, market, front, side,
          shopPage, marketPage, acme, other, copy, voice

ThreeRequests == 1..3
TwoKeys == {long, short}
Sides == long :> "long" @@ short :> "short"
Axes == long :> here @@ short :> there
SameAxis == long :> here @@ short :> here

\* Nothing is known; something was learnt; a rule forbids a term; and two things were
\* found to contradict each other.
Known(key) == Entry(key, Says[key], Axis[key], 0)
Rule(key) == [Known(key) EXCEPT !.type = "RULE", !.terms = TRUE]
Contradicted(key) == [Known(key) EXCEPT !.status = "CONTRADICTED"]
Beginnings ==
  {[entries |-> entries, contradictions |-> <<>>] :
     entries \in {<<>>, <<Known(long)>>, <<Rule(long)>>}}
  \cup {[entries |-> <<Contradicted(long), Contradicted(short)>>,
         contradictions |-> <<[a |-> 1, b |-> 2, status |-> "UNRESOLVED"]>>]}

TwoPlatforms == {meta, ads}
ThreePosts == <<meta, meta, ads>>
OneBefore == {<<Recommendation("PENDING")>>, <<[Recommendation("APPLIED") EXCEPT !.decided = {0}]>>}

TwoImages == {front, side}
\* Two urls of one page, and one of another.
ThreeUrls == {shop, tracked, market}
Untracked == shop :> shopPage @@ tracked :> shopPage @@ market :> marketPage
\* Neither the images nor the two urls of one page are told apart.
Alikes == Permutations(TwoImages) \cup Permutations({shop, tracked})
\* Bound: one url, of those that share a snapshot, comes to lead to something else.
OneUrlChanges == site[market] = 1 /\ 1 \in {site[shop], site[tracked]}
TwoBrands == {acme, other}
\* A page that declares its brand and little else; and the same page with more on it.
TwoContents == <<"poor", "rich">>
Declared == "poor" :> acme @@ "rich" :> acme
RichContents == {"rich"}
Seen == {[brand |-> acme, confidence |-> 40], [brand |-> other, confidence |-> 85],
         [brand |-> other, confidence |-> 40]}

TwoTexts == <<copy, voice>>
Clean == [toxic |-> copy :> "no" @@ voice :> "no", claims |-> copy :> "none" @@ voice :> "none",
          objective |-> "achieved"]
\* A clean answer, one that leaves a text out, and what may be found or be unavailable.
Answers == {Clean, [Clean EXCEPT !.claims = copy :> "low"],
            [Clean EXCEPT !.claims = copy :> "high" @@ voice :> "none"],
            [Clean EXCEPT !.claims = Unanswered, !.objective = "missed"],
            [Clean EXCEPT !.toxic = copy :> "unavailable" @@ voice :> "no"],
            [Clean EXCEPT !.toxic = copy :> "unavailable" @@ voice :> "yes", !.objective = "unavailable"]}
TwoScores == {10, 85}

DeskPlans == {<<"brand", "brand", "brand">>, <<"brand", "brand", "none">>,
              <<"studio", "studio", "none">>, <<"studio", "brand", "none">>,
              <<"optimizer", "optimizer", "none">>, <<"optimizer", "none", "none">>,
              <<"product", "product", "none">>, <<"review", "review", "none">>}
\* What nobody works at begins in one way.  Three requests find one thing that was learnt,
\* two find a contradiction, of which a third would say nothing more; what was applied
\* before is measured alone, as what is applied meanwhile is measured beside others.
StartsHere ==
  /\ Staffed("studio") \/ (piece.type = "TEXT" /\ Len(versions) = 1)
  /\ Staffed("optimizer") \/ recommendations[1].status = "PENDING"
  /\ desk[1] = "optimizer" => (recommendations[1].status = "APPLIED" <=> desk[2] = "none")
  /\ Staffed("studio") \/ Staffed("brand") \/ memory = <<>>
  /\ desk[3] = "brand" => memory = <<Known(long)>>
  /\ desk = <<"brand", "brand", "none">> => contradictions # <<>>
SmallInit == Init /\ StartsHere
SmallSpec == SmallInit /\ [][Next]_vars
================================================================================
