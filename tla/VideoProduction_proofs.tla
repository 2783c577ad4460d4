------------------------ MODULE VideoProduction_proofs -------------------------
(* What holds of the video of a campaign for every plan, every budget of repairs,  *)
(* whatever the models answer and the judge measures: the repairs of the quality   *)
(* loop never make it worse (LoopInv), what is filmed was approved (ApprovedInv),  *)
(* what is delivered is all of it (DeliveryInv), and no repair exceeds the budget  *)
(* or repeats one that made things worse (WarrantedInv).                           *)
EXTENDS VideoProduction, FiniteSetTheorems, SequenceTheorems, Sums, TLAPS

\* The control of the loop keeps the fields it began with.
IsLoop(l) ==
  l = [pc |-> l.pc, attempt |-> l.attempt, operative |-> l.operative, best |-> l.best,
       judged |-> l.judged, preRepair |-> l.preRepair, steps |-> l.steps,
       pending |-> l.pending, applied |-> l.applied]

\* A first pass has no judgment to compare with; from the first repair on, what would
\* be restored is the cut of the judgment that the loop goes by.
Restorable(l) ==
  /\ l.attempt = 1 /\ l.pc \in {"finalize", "judge"} => l.operative = NoJudgment
  /\ l.pc = "repair" => l.preRepair = l.judged
  /\ l.attempt > 1 /\ l.pc \in {"finalize", "judge"} => l.preRepair = l.judged

LoopInv ==
  /\ IsLoop(loop)
  /\ loop.attempt \in Nat \ {0}
  /\ Restorable(loop)
  /\ loop.pc = "passed" => cut = loop.judged

\* What one step does to the judgment the loop goes by.
KeepsOrImproves ==
  \/ loop.operative = NoJudgment
  \/ loop'.operative \in {NoJudgment, loop.operative}
  \/ RepairAccepted(loop.operative, loop'.operative)

LEMMA LoopInit_Inv == LoopInit => LoopInv
  BY DEF LoopInit, LoopInv, IdleLoop, IsLoop, Restorable

LEMMA StartLoop_Inv ==
  ASSUME NEW p, NEW c, StartLoop(p, c)
  PROVE  LoopInv' /\ KeepsOrImproves
<1>1. loop' = [pc |-> "finalize", attempt |-> 1, operative |-> NoJudgment,
               best |-> NoJudgment, judged |-> NoCut, preRepair |-> NoCut,
               steps |-> <<>>, pending |-> {}, applied |-> {}]
  BY DEF StartLoop, IdleLoop
<1> QED BY <1>1 DEF LoopInv, IsLoop, Restorable, KeepsOrImproves

LEMMA Abandon_Inv ==
  ASSUME NEW t, Abandon(t)
  PROVE  LoopInv' /\ KeepsOrImproves
  BY DEF Abandon, LoopInv, IdleLoop, IsLoop, Restorable, KeepsOrImproves

LEMMA Judge_Inv ==
  ASSUME LoopInv, NEW judgment, loop.pc = "judge", Judge(judgment)
  PROVE  LoopInv' /\ KeepsOrImproves
<1> DEFINE adopted == Adopt(judgment)
           passed == ~Reverts(judgment) /\ judgment.verdict = "PASS"
<1>1. /\ loop'.pc = IF passed THEN "passed" ELSE IF Over THEN "exhausted" ELSE "repair"
      /\ loop'.attempt = loop.attempt
      /\ loop'.operative = adopted.operative
      /\ loop'.judged = adopted.judged
      /\ loop'.preRepair = adopted.cut
      /\ IsLoop(loop')
      /\ cut' = adopted.cut
  BY DEF Judge, LoopInv, IsLoop
<1>2. CASE Reverts(judgment)
  <2>1. /\ adopted.cut = loop.preRepair /\ adopted.operative = loop.operative
        /\ adopted.judged = loop.judged
    BY <1>2 DEF Adopt
  <2>2. loop.preRepair = loop.judged
    BY <1>2 DEF Reverts, LoopInv, Restorable
  <2>3. loop'.pc \in {"exhausted", "repair"}
    BY <1>1, <1>2
  <2> QED BY <1>1, <2>1, <2>2, <2>3 DEF LoopInv, Restorable, KeepsOrImproves
<1>3. CASE ~Reverts(judgment)
  <2>1. /\ adopted.cut = cut /\ adopted.operative = judgment /\ adopted.judged = cut
    BY <1>3 DEF Adopt
  <2>2. loop.operative = NoJudgment \/ RepairAccepted(loop.operative, judgment)
    BY <1>3 DEF Reverts, LoopInv, Restorable
  <2>3. loop'.pc \in {"passed", "exhausted", "repair"}
    BY <1>1
  <2> QED BY <1>1, <2>1, <2>2, <2>3 DEF LoopInv, Restorable, KeepsOrImproves
<1> QED BY <1>2, <1>3

\* A step of the repairs changes the list of what is left to do and what was applied.
LEMMA EndStep_Inv ==
  ASSUME LoopInv, NEW applied, loop.pc = "repair", EndStep(applied)
  PROVE  LoopInv' /\ KeepsOrImproves
  BY DEF EndStep, LoopInv, IsLoop, Restorable, KeepsOrImproves

LEMMA LoopStep_Inv ==
  ASSUME LoopInv, LoopStep
  PROVE  LoopInv' /\ KeepsOrImproves
<1>1. CASE FinalizeSkipped
  BY <1>1 DEF FinalizeSkipped, LoopInv, IsLoop, Restorable, KeepsOrImproves
<1>2. CASE Finalize
  BY <1>2 DEF Finalize, LoopInv, IsLoop, Restorable, KeepsOrImproves
<1>3. CASE JudgeVideo
  BY <1>3, Judge_Inv DEF JudgeVideo
<1>4. CASE LoopThrows
  BY <1>4 DEF LoopThrows, LoopInv, IsLoop, Restorable, KeepsOrImproves
<1>5. CASE RepairSubtitles
  BY <1>5, EndStep_Inv DEF RepairSubtitles, NextStep
<1>6. CASE RegenerateAudio
  BY <1>6, EndStep_Inv DEF RegenerateAudio, NextStep
<1>7. CASE RegenerateClip
  BY <1>7, EndStep_Inv DEF RegenerateClip, NextStep
<1>8. CASE EndRepairs
  <2>1. /\ loop.pc = "repair" /\ loop.preRepair = loop.judged
        /\ loop.attempt \in Nat \ {0} /\ IsLoop(loop)
    BY <1>8 DEF EndRepairs, LoopInv, Restorable
  <2>2. CASE loop.applied = {}
    BY <1>8, <2>1, <2>2 DEF EndRepairs, LoopInv, IsLoop, Restorable, KeepsOrImproves
  <2>3. CASE loop.applied # {}
    <3>1. loop' = [loop EXCEPT !.pc = "finalize", !.attempt = loop.attempt + 1,
                               !.pending = loop.applied]
      BY <1>8, <2>3 DEF EndRepairs
    <3>2. /\ loop'.pc = "finalize" /\ loop'.attempt = loop.attempt + 1
          /\ loop'.operative = loop.operative /\ IsLoop(loop')
          /\ loop'.preRepair = loop.preRepair /\ loop'.judged = loop.judged
      BY <2>1, <3>1 DEF IsLoop
    <3> QED BY <2>1, <3>2 DEF LoopInv, Restorable, KeepsOrImproves
  <2> QED BY <2>2, <2>3
<1> QED BY <1>1, <1>2, <1>3, <1>4, <1>5, <1>6, <1>7, <1>8 DEF LoopStep

LEMMA Unchanged_Inv ==
  ASSUME LoopInv, UNCHANGED loopVars
  PROVE  LoopInv' /\ KeepsOrImproves
  BY DEF loopVars, LoopInv, IsLoop, Restorable, KeepsOrImproves

LEMMA Next_Inv ==
  ASSUME LoopInv, [Next]_vars
  PROVE  LoopInv' /\ KeepsOrImproves
<1>1. CASE EnterLoop
  BY <1>1, StartLoop_Inv DEF EnterLoop
<1>2. CASE RunLoop
  BY <1>2, LoopStep_Inv DEF RunLoop
<1>3. CASE Fails \/ GiveUp \/ RecordFails
  BY <1>3, Abandon_Inv DEF Fails, GiveUp, RecordFails
<1>4. CASE StartJob \/ Generate \/ EscalateStoryboard \/ EscalateConcept \/ Deliver
  BY <1>4, Unchanged_Inv
    DEF StartJob, Generate, EscalateStoryboard, EscalateConcept, Deliver
<1>5. CASE WithoutVideo \/ DeliverRaw \/ UNCHANGED vars
  BY <1>5, Unchanged_Inv DEF WithoutVideo, DeliverRaw, vars
<1> QED BY <1>1, <1>2, <1>3, <1>4, <1>5 DEF Next

\* The loop always knows what it would restore (video-quality-loop.service.ts:115-122).
THEOREM SpecLoopInv == Spec => []LoopInv
<1>1. Init => LoopInv
  BY LoopInit_Inv DEF Init
<1>2. LoopInv /\ [Next]_vars => LoopInv'
  BY Next_Inv
<1> QED BY <1>1, <1>2, PTL DEF Spec

\* Whatever is undone, and however often, the cut that is delivered or repaired further
\* is the one the judgment in force was made on (video-quality-loop.service.ts:116).
THEOREM RepairsAreUndoneWhole == Spec => []OperativeMatchesCut
<1>1. LoopInv => OperativeMatchesCut
  BY DEF LoopInv, Restorable, OperativeMatchesCut
<1> QED BY <1>1, SpecLoopInv, PTL

\* No step of the worker, in the loop or around it, replaces the judgment in force by
\* one that the regression guard refuses (repair-regression-guard.ts:15).
THEOREM RepairsNeverMakeWorse == Spec => OperativeNeverDrops
<1>1. LoopInv /\ [Next]_vars => [KeepsOrImproves]_loopVars
  BY Next_Inv
<1> QED BY <1>1, SpecLoopInv, PTL DEF Spec, OperativeNeverDrops, KeepsOrImproves
-----------------------------------------------------------------------------
(* What the credits of a plan pay for.                                       *)

\* The state of the worker as long as no generation gets past checkpoint A.
NothingStarted ==
  /\ gen \in {NoGeneration, [NoGeneration EXCEPT !.pc = "threw"]}
  /\ job = IdleJob \/ job.pc \in {"generation", "threw"}

\* What the worst case of one campaign is reckoned to cost on a plan that has no
\* ceiling on its clips (cost-control.service.ts:49-72): three scenes of two clips, two
\* repairs of one, three passes of the judge, and what does not depend on the video.
LEMMA StarterWorstCase ==
  ASSUME NEW channels \in Nat
  PROVE  EstimatedWorstCase(channels, 2, "starter") = 1353 + 8 * channels
<1>1. /\ GenerationCost("generateText") = 8 /\ GenerationCost("generateImage") = 25
      /\ GenerationCost("generateVideo") = 150 /\ GenerationCost("generateAudio") = 3
      /\ GenerationCost("transcribeAudio") = 1 /\ GenerationCost("analyzeImage") = 10
  BY DEF GenerationCost, CreditCost, CREDIT_COSTS
<1>2. FixedCost = 99
  BY <1>1 DEF FixedCost
<1>3. PLAN_CATALOG["starter"].maxVideoShotsPerCampaign = NoLimit
  BY DEF PLAN_CATALOG, Paid
<1>4. WorstCaseClips(3, 2, "starter") = 8
  BY <1>3 DEF WorstCaseClips, Within, WORST_CASE_ATTEMPTS_PER_SCENE
<1>5. VideoCost(3, 2, "starter") = 1254
  BY <1>1, <1>4 DEF VideoCost, JUDGE_PASS_COST
<1> QED BY <1>1, <1>2, <1>5 DEF EstimatedWorstCase, DEFAULT_ASSUMED_SCENES

LEMMA ChannelsCounted == ChannelCount \in Nat
  BY PipelineAssumption, FS_CardinalityType DEF ChannelCount

\* An organization on the Starter plan that has no more credits than the plan includes
\* cannot have a single campaign generated: checkpoint A asks for more
\* (cost-control.service.ts:76), although the catalogue sizes these credits to pay for
\* three campaigns with a video (plan-catalog.ts:115).
THEOREM StarterNeverStarts ==
  ASSUME PLAN = "starter", MAX_REPAIR_ATTEMPTS = 2,
         \A credits \in CreditLevels :
           credits \in Nat /\ credits <= PLAN_CATALOG[PLAN].aiCreditsIncluded
  PROVE  Spec => [](gen.pc \in {"idle", "threw"})
<1>1. Init => NothingStarted
  BY DEF Init, PipelineInit, NothingStarted
<1>2. NothingStarted /\ [Next]_vars => NothingStarted'
  <2> SUFFICES ASSUME NothingStarted, [Next]_vars
               PROVE  NothingStarted'
    OBVIOUS
  <2>1. /\ gen.pc \in {"idle", "threw"} /\ gen.voice.status = "none"
        /\ gen.pc = "idle" => gen = NoGeneration
        /\ job.pc \in {"idle", "generation", "threw"}
        /\ job.pc = "idle" => job = IdleJob
    BY DEF NothingStarted, NoGeneration, Silence, IdleJob
  <2>2. CASE StartJob
    <3>1. PICK start : StartGeneration(start)
      BY <2>2 DEF StartJob
    <3>2. PICK credits \in CreditLevels :
            gen' = [gen EXCEPT
              !.pc = IF EstimatedWorstCase(ChannelCount, MAX_REPAIR_ATTEMPTS, PLAN) > credits
                     THEN "threw" ELSE start]
      BY <3>1 DEF StartGeneration
    <3>3. credits <= 920
      BY DEF PLAN_CATALOG, Paid
    <3>4. EstimatedWorstCase(ChannelCount, MAX_REPAIR_ATTEMPTS, PLAN) > credits
      BY <3>3, StarterWorstCase, ChannelsCounted
    <3>5. gen' = [gen EXCEPT !.pc = "threw"] /\ gen = NoGeneration
      BY <3>1, <3>2, <3>4, <2>1 DEF StartGeneration, At
    <3>6. job' = [job EXCEPT !.pc = "generation"] /\ job = IdleJob
      BY <2>1, <2>2 DEF StartJob
    <3>7. job'.pc = "generation"
      BY <3>6 DEF IdleJob
    <3> QED BY <3>5, <3>7 DEF NothingStarted
  <2>3. CASE Fails
    <3>1. /\ gen' = [NoGeneration EXCEPT !.pc = "threw"]
          /\ job' = [IdleJob EXCEPT !.pc = "threw", !.trace = "none"]
      BY <2>3 DEF Fails, Abandon
    <3>2. job'.pc = "threw"
      BY <3>1 DEF IdleJob
    <3> QED BY <3>1, <3>2 DEF NothingStarted
  <2>4. ~PipelineStep
    BY <2>1 DEF PipelineStep, AnalyseProduct, ReuseConcept, GenerateConcept,
                EvaluateCreativeGate, GenerateBlueprint, NarrationSettles, AwaitNarration,
                ProduceCopies, CheckBeforeVideoLoop, GenerateShotPlan,
                EvaluateStoryboardGate, PreFlight, Film, CallFails, At
  <2>5. ~(WithoutVideo \/ EnterLoop \/ RunLoop \/ EscalateStoryboard \/ EscalateConcept
            \/ GiveUp \/ Deliver \/ DeliverRaw \/ RecordFails)
    BY <2>1 DEF WithoutVideo, EnterLoop, RunLoop, EscalateStoryboard, EscalateConcept,
                GiveUp, Deliver, DeliverRaw, RecordFails
  <2>6. CASE UNCHANGED vars
    BY <2>6 DEF vars, NothingStarted
  <2> QED BY <2>2, <2>3, <2>4, <2>5, <2>6 DEF Next, Generate
<1>3. NothingStarted => gen.pc \in {"idle", "threw"}
  BY DEF NothingStarted, NoGeneration
<1> QED BY <1>1, <1>2, <1>3, PTL DEF Spec

-----------------------------------------------------------------------------
(* The order of the shots, and what the pruning leaves.                      *)

\* A rank that no two share puts a finite set in order.
LEMMA InOrderIs ==
  ASSUME NEW S, IsFiniteSet(S), NEW rank,
         \A p \in S : rank[p] \in Int,
         \A p, q \in S : rank[p] = rank[q] => p = q
  PROVE  /\ InOrder(S, rank) \in [1..Cardinality(S) -> S]
         /\ \A m, n \in 1..Cardinality(S) :
              m < n => rank[InOrder(S, rank)[m]] < rank[InOrder(S, rank)[n]]
<1> DEFINE upTo(p) == {q \in S : rank[q] <= rank[p]}
           place == [p \in S |-> Cardinality(upTo(p))]
           order == [n \in 1..Cardinality(S) |-> CHOOSE p \in S : place[p] = n]
<1>1. Cardinality(S) \in Nat
  BY FS_CardinalityType
<1>2. ASSUME NEW p \in S
      PROVE  /\ IsFiniteSet(upTo(p)) /\ Cardinality(upTo(p)) \in 1..Cardinality(S)
  <2>1. upTo(p) \in SUBSET S /\ upTo(p) # {}
    OBVIOUS
  <2>2. IsFiniteSet(upTo(p)) /\ Cardinality(upTo(p)) <= Cardinality(S)
    BY <2>1, FS_Subset
  <2>3. Cardinality(upTo(p)) \in Nat /\ Cardinality(upTo(p)) # 0
    BY <2>1, <2>2, FS_CardinalityType, FS_EmptySet
  <2> QED BY <1>1, <2>2, <2>3
<1>3. ASSUME NEW p \in S, NEW q \in S, rank[p] < rank[q]
      PROVE  Cardinality(upTo(p)) < Cardinality(upTo(q))
  <2>1. upTo(p) \in SUBSET upTo(q) /\ q \in upTo(q) /\ q \notin upTo(p)
    BY <1>3
  <2>2. Cardinality(upTo(p)) <= Cardinality(upTo(q))
    BY <1>2, <2>1, FS_Subset
  <2>3. Cardinality(upTo(p)) # Cardinality(upTo(q))
    BY <1>2, <2>1, FS_Subset
  <2>4. Cardinality(upTo(p)) \in Nat /\ Cardinality(upTo(q)) \in Nat
    BY <1>2, FS_CardinalityType
  <2> HIDE DEF upTo
  <2> QED BY <2>2, <2>3, <2>4
<1>4. \A p, q \in S : place[p] = place[q] => p = q
  <2> SUFFICES ASSUME NEW p \in S, NEW q \in S, p # q
               PROVE  place[p] # place[q]
    OBVIOUS
  <2>1. rank[p] < rank[q] \/ rank[q] < rank[p]
    OBVIOUS
  <2>2. Cardinality(upTo(p)) \in Int /\ Cardinality(upTo(q)) \in Int
    BY <1>1, <1>2
  <2> QED BY <1>3, <2>1, <2>2
<1>5. place \in Injection(S, 1..Cardinality(S))
  <2>1. place \in [S -> 1..Cardinality(S)]
    BY <1>2
  <2> HIDE DEF place
  <2> QED BY <1>4, <2>1 DEF Injection, IsInjective
<1>6. \A n \in 1..Cardinality(S) : \E p \in S : place[p] = n
  <2>1. IsFiniteSet(1..Cardinality(S)) /\ Cardinality(1..Cardinality(S)) = Cardinality(S)
    BY <1>1, FS_Interval
  <2>2. place \in Surjection(S, 1..Cardinality(S))
    BY <1>5, <2>1, FS_Injection
  <2> HIDE DEF place
  <2> QED BY <2>2 DEF Surjection
<1>7. \A n \in 1..Cardinality(S) : order[n] \in S /\ place[order[n]] = n
  <2> HIDE DEF place
  <2> QED BY <1>6
<1>8. ASSUME NEW m \in 1..Cardinality(S), NEW n \in 1..Cardinality(S), m < n
      PROVE  rank[order[m]] < rank[order[n]]
  <2>1. PICK p \in S, q \in S : p = order[m] /\ q = order[n] /\ place[p] = m /\ place[q] = n
    <3> HIDE DEF order, place
    <3> QED BY <1>7
  <2>2. Cardinality(upTo(p)) = m /\ Cardinality(upTo(q)) = n
    BY <2>1
  <2>3. ~ (rank[q] < rank[p])
    BY <1>3, <1>8, <2>2
  <2>4. rank[p] # rank[q]
    <3> HIDE DEF order, place
    <3> QED BY <1>8, <2>1
  <2> HIDE DEF order, place
  <2> QED BY <2>1, <2>3, <2>4
<1>9. order \in [1..Cardinality(S) -> S]
  BY <1>7
<1>10. \E o \in [1..Cardinality(S) -> S] :
         \A m, n \in DOMAIN o : m < n => rank[o[m]] < rank[o[n]]
  <2> HIDE DEF order
  <2>1. \A m, n \in DOMAIN order : m < n => rank[order[m]] < rank[order[n]]
    BY <1>8, <1>9
  <2> QED BY <1>9, <2>1
<1> HIDE DEF order, place
<1> QED BY <1>10 DEF InOrder

\* Of a set of places no more than n come first.
LEMMA FirstOfBounded ==
  ASSUME NEW S \in SUBSET Int, IsFiniteSet(S), NEW n \in Nat
  PROVE  /\ IsFiniteSet(FirstOf(S, n)) /\ FirstOf(S, n) \subseteq S
         /\ Cardinality(FirstOf(S, n)) <= n
<1> DEFINE F == FirstOf(S, n)
           upTo(p) == {q \in S : q <= p}
           place == [p \in F |-> Cardinality(upTo(p))]
<1>1. F \in SUBSET S /\ IsFiniteSet(F) /\ \A p \in F : Cardinality(upTo(p)) <= n
  BY FS_Subset DEF FirstOf
<1> HIDE DEF F
<1>2. ASSUME NEW p \in F
      PROVE  IsFiniteSet(upTo(p)) /\ Cardinality(upTo(p)) \in 1..n
  <2>1. upTo(p) \in SUBSET S /\ upTo(p) # {}
    BY <1>1
  <2>2. IsFiniteSet(upTo(p))
    BY <2>1, FS_Subset
  <2>3. Cardinality(upTo(p)) \in Nat /\ Cardinality(upTo(p)) # 0
    BY <2>1, <2>2, FS_CardinalityType, FS_EmptySet
  <2> QED BY <1>1, <2>2, <2>3
<1>3. ASSUME NEW p \in F, NEW q \in F, p < q
      PROVE  Cardinality(upTo(p)) # Cardinality(upTo(q))
  <2>1. p \in Int /\ q \in S /\ S \subseteq Int
    BY <1>1
  <2>2. q \in upTo(q) /\ q \notin upTo(p)
    BY <1>3, <2>1
  <2>3. \A r \in S : r \in Int /\ (r <= p => r <= q)
    BY <1>3, <2>1
  <2>4. upTo(p) \in SUBSET upTo(q)
    BY <2>3
  <2> QED BY <1>2, <2>2, <2>4, FS_Subset
<1>4. place \in Injection(F, 1..n)
  <2>1. place \in [F -> 1..n]
    BY <1>2
  <2>2. ASSUME NEW p \in F, NEW q \in F, p # q
        PROVE  place[p] # place[q]
    <3>1. p < q \/ q < p
      BY <1>1, <2>2
    <3> QED BY <1>3, <3>1
  <2> HIDE DEF place
  <2> QED BY <2>1, <2>2 DEF Injection, IsInjective
<1>5. IsFiniteSet(1..n) /\ Cardinality(1..n) = n
  BY FS_Interval
<1>6. Cardinality(F) <= n
  <2> HIDE DEF place
  <2> QED BY <1>4, <1>5, FS_Injection
<1> QED BY <1>1, <1>6 DEF F


\* A sequence of n members.
IsRow(s, n) == n \in Nat /\ DOMAIN s = 1..n /\ Len(s) = n

LEMMA FunctionIsRow ==
  ASSUME NEW n \in Nat, NEW S, NEW f \in [1..n -> S]
  PROVE  IsRow(f, n)
<1>1. f \in Seq(S)
  BY SeqDef
<1>2. DOMAIN f = 1..n
  OBVIOUS
<1>3. Len(f) = n
  BY <1>1, <1>2, LenProperties
<1> QED BY <1>2, <1>3 DEF IsRow

\* A plan as it is drawn: shot i films scene i.
Drawn(plan, n) == IsRow(plan, n) /\ \A i \in 1..n : plan[i].scene = i

\* A plan as it may be filmed: two to five shots, each of a scene of its own.
FilmablePlan(plan) ==
  \E n \in 2..5 :
    /\ IsRow(plan, n)
    /\ \A i, j \in 1..n : plan[i].scene = plan[j].scene => i = j

LEMMA ShotPlanDrawn ==
  ASSUME NEW concept, concept.scenes \in 2..5, NEW reply
  PROVE  Drawn(ShotPlanOf(concept, reply), concept.scenes)
<1> DEFINE plan == ShotPlanOf(concept, reply)
<1>1. PICK n \in 2..5 : n = concept.scenes
  OBVIOUS
<1>2. plan \in [1..n -> {plan[i] : i \in 1..n}]
  BY <1>1 DEF ShotPlanOf
<1>3. \A i \in 1..n : plan[i].scene = i
  BY <1>1 DEF ShotPlanOf, Shot
<1>4. IsRow(plan, n)
  <2>1. PICK S : plan \in [1..n -> S]
    BY <1>2
  <2> HIDE DEF plan
  <2> QED BY <2>1, FunctionIsRow
<1> QED BY <1>1, <1>3, <1>4 DEF Drawn

LEMMA DrawnFilmable ==
  ASSUME NEW plan, NEW n \in 2..5, Drawn(plan, n)
  PROVE  FilmablePlan(plan)
  BY DEF Drawn, FilmablePlan

\* The pruning never leaves less than two shots, whatever scenes it is told to remove,
\* although they may be named twice, or not be in the plan.
LEMMA PruningLeavesTwo ==
  ASSUME NEW plan, NEW n \in 2..5, Drawn(plan, n), NEW remove \in Seq(Int)
  PROVE  FilmablePlan(ApplySafePruning(plan, remove))
<1> DEFINE safe == {k \in DOMAIN remove : remove[k] \notin ProtectedScenes(plan)}
           first == FirstOf(safe, n - 2)
           removed == {remove[k] : k \in first}
           kept == {i \in 1..n : plan[i].scene \notin removed}
           rank == [i \in kept |-> i]
           order == InOrder(kept, rank)
           pruned == [m \in 1..Cardinality(kept) |-> plan[order[m]]]
<1>1. /\ Len(plan) = n /\ DOMAIN plan = 1..n /\ \A i \in 1..n : plan[i].scene = i
  BY DEF Drawn, IsRow
<1>2. ApplySafePruning(plan, remove) = pruned
  BY <1>1 DEF ApplySafePruning
<1>3. safe \in SUBSET Int /\ IsFiniteSet(safe)
  <2>1. DOMAIN remove = 1..Len(remove) /\ Len(remove) \in Nat
    OBVIOUS
  <2>2. IsFiniteSet(DOMAIN remove) /\ safe \in SUBSET (DOMAIN remove)
    BY <2>1, FS_Interval
  <2> HIDE DEF safe
  <2> QED BY <2>1, <2>2, FS_Subset
<1>4. /\ IsFiniteSet(first) /\ Cardinality(first) <= n - 2 /\ first \subseteq safe
  <2> HIDE DEF safe
  <2>1. n - 2 \in Nat
    OBVIOUS
  <2> QED BY <1>3, <2>1, FirstOfBounded
<1>5. IsFiniteSet(removed) /\ Cardinality(removed) <= n - 2 /\ Cardinality(removed) \in Nat
  <2> HIDE DEF first
  <2> DEFINE name == [k \in first |-> remove[k]]
  <2>1. name \in Surjection(first, removed)
    BY DEF Surjection
  <2>2. IsFiniteSet(removed) /\ Cardinality(removed) <= Cardinality(first)
    <3> HIDE DEF name, removed
    <3> QED BY <1>4, <2>1, FS_Surjection
  <2>3. Cardinality(removed) \in Nat /\ Cardinality(first) \in Nat
    BY <1>4, <2>2, FS_CardinalityType
  <2> HIDE DEF removed
  <2> QED BY <1>4, <2>2, <2>3
<1>6. kept = (1..n) \ removed
  <2> HIDE DEF removed
  <2> QED BY <1>1
<1>7. IsFiniteSet(kept) /\ Cardinality(kept) \in 2..5
  <2> HIDE DEF removed, kept
  <2>1. IsFiniteSet(1..n) /\ Cardinality(1..n) = n
    <3>1. 1 \in Int /\ n \in Int /\ ~ (1 > n) /\ n - 1 + 1 = n
      OBVIOUS
    <3> QED BY <3>1, FS_Interval
  <2>2. /\ IsFiniteSet(kept)
        /\ Cardinality(kept) = n - Cardinality((1..n) \cap removed)
    BY <1>6, <2>1, FS_Difference
  <2>3. /\ Cardinality((1..n) \cap removed) <= n - 2
        /\ Cardinality((1..n) \cap removed) \in Nat
    <3>1. IsFiniteSet((1..n) \cap removed)
          /\ Cardinality((1..n) \cap removed) <= Cardinality(removed)
      BY <1>5, FS_Intersection
    <3>2. Cardinality((1..n) \cap removed) \in Nat
      BY <3>1, FS_CardinalityType
    <3> QED BY <1>5, <3>1, <3>2
  <2> QED BY <2>2, <2>3
<1>8. /\ order \in [1..Cardinality(kept) -> kept]
      /\ \A m, o \in 1..Cardinality(kept) : m < o => order[m] < order[o]
  <2> HIDE DEF kept, removed
  <2>1. kept \subseteq Int
    BY <1>6
  <2>2. \A p \in kept : rank[p] = p
    OBVIOUS
  <2> HIDE DEF rank
  <2>3. /\ order \in [1..Cardinality(kept) -> kept]
        /\ \A m, o \in 1..Cardinality(kept) : m < o => rank[order[m]] < rank[order[o]]
    BY <1>7, <2>1, <2>2, InOrderIs
  <2> HIDE DEF order
  <2> QED BY <2>2, <2>3
<1>9. PICK k \in 2..5 : k = Cardinality(kept)
  BY <1>7
<1> HIDE DEF order, kept
<1>10. \A m \in 1..k : order[m] \in 1..n /\ pruned[m] = plan[order[m]]
  BY <1>6, <1>8, <1>9
<1> HIDE DEF pruned
<1>11. \A m, o \in 1..k : order[m] = order[o] => m = o
  <2> SUFFICES ASSUME NEW m \in 1..k, NEW o \in 1..k, m # o
               PROVE  order[m] # order[o]
    OBVIOUS
  <2>1. order[m] \in 1..n /\ order[o] \in 1..n
    BY <1>10
  <2>2. order[m] \in Int /\ order[o] \in Int /\ m \in Int /\ o \in Int
    BY <1>9, <2>1
  <2>3. m < o \/ o < m
    BY <2>2
  <2> QED BY <1>8, <1>9, <2>2, <2>3
<1>12. \A m, o \in 1..k : pruned[m].scene = pruned[o].scene => m = o
  <2> SUFFICES ASSUME NEW m \in 1..k, NEW o \in 1..k, pruned[m].scene = pruned[o].scene
               PROVE  m = o
    OBVIOUS
  <2>1. /\ order[m] \in 1..n /\ pruned[m] = plan[order[m]]
        /\ order[o] \in 1..n /\ pruned[o] = plan[order[o]]
    BY <1>10
  <2>2. plan[order[m]].scene = order[m] /\ plan[order[o]].scene = order[o]
    BY <1>1, <2>1
  <2>3. order[m] = order[o]
    BY <2>1, <2>2
  <2> QED BY <1>11, <2>3
<1>13. IsRow(pruned, k)
  <2>1. pruned \in [1..k -> {plan[order[m]] : m \in 1..k}]
    BY <1>9 DEF pruned
  <2>2. PICK S : pruned \in [1..k -> S]
    BY <2>1
  <2>3. k \in Nat
    OBVIOUS
  <2> QED BY ONLY <2>2, <2>3, FunctionIsRow
<1> QED BY <1>2, <1>12, <1>13 DEF FilmablePlan


\* The clips of a plan: no more than it has shots, and when they are as many, then they
\* show every one of its scenes.
ClipsOf(clips, plan) ==
  /\ \E k \in Nat : IsRow(clips, k)
  /\ Len(clips) <= Len(plan)
  /\ Len(clips) = Len(plan) =>
       \A j \in DOMAIN plan : \E i \in DOMAIN clips : clips[i] = plan[j].scene

LEMMA PriorityIs ==
  ASSUME NEW shot
  PROVE  GenerationPriority(shot) \in 1..4
  BY DEF GenerationPriority

LEMMA LaunchedInOrder ==
  ASSUME NEW plan, FilmablePlan(plan), NEW filmed
  PROVE  ClipsOf(ScenesByPriority(plan, filmed), plan)
<1> DEFINE shots == {i \in DOMAIN plan : plan[i].scene \in filmed}
           rank == [i \in shots |-> i - Len(plan) * GenerationPriority(plan[i])]
           order == InOrder(shots, rank)
           clips == [m \in 1..Cardinality(shots) |-> plan[order[m]].scene]
<1>1. PICK n \in 2..5 : IsRow(plan, n)
  BY DEF FilmablePlan
<1>2. DOMAIN plan = 1..n /\ Len(plan) = n /\ n \in Nat
  BY <1>1 DEF IsRow
<1>3. ScenesByPriority(plan, filmed) = clips
  BY DEF ScenesByPriority
<1>4. IsFiniteSet(1..n) /\ Cardinality(1..n) = n
  <2>1. 1 \in Int /\ n \in Int /\ ~ (1 > n) /\ n - 1 + 1 = n
    OBVIOUS
  <2> QED BY <2>1, FS_Interval
<1>5. shots \in SUBSET (1..n)
  BY <1>2
<1>6. /\ \A p \in shots : rank[p] \in Int
      /\ \A p, q \in shots : rank[p] = rank[q] => p = q
  <2> DEFINE priority(i) == GenerationPriority(plan[i])
  <2>1. \A p \in shots : priority(p) \in 1..4 /\ rank[p] = p - n * priority(p)
    BY <1>2, PriorityIs
  <2> HIDE DEF shots, rank, priority
  <2>2. \A p \in shots : n * priority(p) \in Int
    BY <2>1
  <2>3. ASSUME NEW p \in shots, NEW q \in shots, rank[p] = rank[q]
        PROVE  p = q
    <3>1. PICK a \in 1..4, b \in 1..4 : a = priority(p) /\ b = priority(q)
      BY <2>1
    <3>2. p - n * a = q - n * b
      BY <2>1, <2>3, <3>1
    <3>3. p \in 1..n /\ q \in 1..n
      BY <1>5
    <3>4. CASE a = b
      BY <3>2, <3>3, <3>4
    <3>5. CASE a < b
      <4>1. n * b >= n * a + n
        BY <3>5
      <4> QED BY <3>2, <3>3, <4>1
    <3>6. CASE b < a
      <4>1. n * a >= n * b + n
        BY <3>6
      <4> QED BY <3>2, <3>3, <4>1
    <3> QED BY <3>4, <3>5, <3>6
  <2> QED BY <1>5, <2>1, <2>2, <2>3
<1> HIDE DEF rank, shots
<1>7. IsFiniteSet(shots) /\ Cardinality(shots) <= n /\ Cardinality(shots) \in Nat
      /\ (Cardinality(shots) = n => shots = 1..n)
  BY <1>4, <1>5, FS_Subset, FS_CardinalityType
<1>8. /\ order \in [1..Cardinality(shots) -> shots]
      /\ \A m, o \in 1..Cardinality(shots) : m < o => rank[order[m]] < rank[order[o]]
  BY <1>6, <1>7, InOrderIs
<1> HIDE DEF order
<1>9. PICK k \in Nat : k = Cardinality(shots)
  BY <1>7
<1>10. order \in Surjection(1..k, shots)
  <2>1. \A m, o \in 1..k : order[m] = order[o] => m = o
    <3> SUFFICES ASSUME NEW m \in 1..k, NEW o \in 1..k, m # o
                 PROVE  order[m] # order[o]
      OBVIOUS
    <3>1. m < o \/ o < m
      OBVIOUS
    <3>2. order[m] \in shots /\ order[o] \in shots
      BY <1>8, <1>9
    <3>3. rank[order[m]] \in Int /\ rank[order[o]] \in Int
      BY <1>6, <3>2
    <3> QED BY <1>8, <1>9, <3>1, <3>3
  <2>2. order \in Injection(1..k, shots)
    BY <1>8, <1>9, <2>1 DEF Injection, IsInjective
  <2>3. Cardinality(1..k) = k
    BY FS_Interval
  <2> QED BY <1>7, <1>9, <2>2, <2>3, FS_Injection
<1>11. IsRow(clips, k)
  <2>1. clips \in [1..k -> {plan[order[m]].scene : m \in 1..k}]
    BY <1>9
  <2>2. PICK S : clips \in [1..k -> S]
    BY <2>1
  <2> HIDE DEF clips
  <2> QED BY ONLY k \in Nat, <2>2, FunctionIsRow
<1>12. ASSUME k = n, NEW j \in DOMAIN plan
       PROVE  \E i \in 1..k : clips[i] = plan[j].scene
  <2>1. j \in shots
    BY <1>2, <1>7, <1>9, <1>12
  <2>2. PICK i \in 1..k : order[i] = j
    BY <1>10, <2>1 DEF Surjection
  <2> QED BY <1>9, <2>2
<1> HIDE DEF clips
<1>13. Len(clips) = k /\ DOMAIN clips = 1..k
  BY <1>11 DEF IsRow
<1> QED BY <1>2, <1>3, <1>7, <1>9, <1>11, <1>12, <1>13 DEF ClipsOf

-----------------------------------------------------------------------------
(* What was approved is what is filmed.                                      *)

\* The record of a generation, field by field.
IsGeneration(g) ==
  g = [pc |-> g.pc, mode |-> g.mode, intelligence |-> g.intelligence,
       conflict |-> g.conflict, visual |-> g.visual, version |-> g.version,
       concept |-> g.concept, revised |-> g.revised, gates |-> g.gates,
       blueprint |-> g.blueprint, voice |-> g.voice, transcript |-> g.transcript,
       repairs |-> g.repairs, planning |-> g.planning, plan |-> g.plan,
       expected |-> g.expected, remove |-> g.remove, clips |-> g.clips,
       quality |-> g.quality]

AfterCreativeGate ==
  {"blueprint", "copies", "budget", "shots", "storyboard", "preflight", "film",
   "narration", "produced"}

\* The narration is awaited last, but for a concept made anew, which has no plan yet.
PastPreFlight(g) ==
  g.pc \in {"film", "produced"} \/ (g.pc = "narration" /\ g.mode # "concept")

\* From here on the generation has a narration, or speaks the one it has.
AfterBlueprint == AfterCreativeGate \ {"blueprint"}

IsNarration(v) == v = [status |-> v.status, real |-> v.real, concept |-> v.concept]

\* What is spoken and shown is of the concept in force; a storyboard made again goes back
\* to the blueprint of the first generation, which may not be.
Matching(g) ==
  /\ IsNarration(g.voice)
  /\ g.pc \in AfterCreativeGate \cup {"gate"} => g.concept.version = g.version
  /\ g.pc \in AfterBlueprint => g.voice.concept = g.version
  /\ g.pc \in AfterBlueprint /\ g.mode # "storyboard" => g.blueprint.concept = g.version
  /\ PastPreFlight(g) /\ g.pc # "film" => ClipsOf(g.clips, g.plan)
  /\ g.mode = "storyboard" =>
       g.pc \in {"shots", "storyboard", "preflight", "film", "produced", "threw"}

Approved(g) ==
  /\ IsGeneration(g)
  /\ Matching(g)
  /\ g.gates = [creative |-> g.gates.creative, storyboard |-> g.gates.storyboard]
  /\ g.concept.scenes \in 2..5
  /\ g.pc \in AfterCreativeGate =>
       RequiredInputs(g.intelligence, g.concept) /\ g.gates.creative = "APPROVED"
  /\ g.pc \in {"storyboard", "preflight"} => Drawn(g.plan, g.concept.scenes)
  /\ g.pc = "preflight" => g.gates.storyboard = "APPROVED" /\ g.remove \in Seq(Int)
  /\ PastPreFlight(g) =>
       /\ g.gates.storyboard = "APPROVED"
       /\ FilmablePlan(g.plan)
       /\ \E i \in DOMAIN g.plan : g.plan[i].text
       /\ \A i \in DOMAIN g.plan :
            /\ ~g.plan[i].template
            /\ g.plan[i].beat # NoBeat => g.plan[i].beat \in DOMAIN g.blueprint.beats
       /\ g.concept.hook /\ g.concept.cta
  /\ g.pc \in {"idle", "analysis", "reuse"} => g.mode = "campaign"
  /\ g.mode = "concept" /\ g.pc \in {"concept", "gate", "blueprint", "narration"} =>
       g.plan = <<>>

IsJob(j) ==
  j = [pc |-> j.pc, storyboardEscalated |-> j.storyboardEscalated,
       conceptEscalated |-> j.conceptEscalated, blueprint |-> j.blueprint,
       asset |-> j.asset, trace |-> j.trace]

\* The loop only has a generation that was filmed.
ApprovedInv ==
  /\ Approved(gen)
  /\ IsJob(job)
  /\ job.pc = "loop" => gen.pc = "produced"

LEMMA ConceptScenes ==
  ASSUME NEW version, NEW reply \in ConceptReplies \cup {Unusable}
  PROVE  ConceptOf(version, reply).scenes \in 2..5
<1>1. CASE reply = Unusable \/ reply.scenes = Unusable
  BY <1>1 DEF ConceptOf
<1>2. CASE reply # Unusable /\ reply.scenes # Unusable
  <2>1. PICK n \in Int : n = reply.scenes
    BY <1>2, PipelineAssumption
  <2>2. PICK m \in Int : m = Max({2, n}) /\ m >= 2
    BY DEF Max
  <2>3. Min({5, m}) \in 2..5
    BY <2>2 DEF Min
  <2> QED BY <1>2, <2>1, <2>2, <2>3 DEF ConceptOf
<1> QED BY <1>1, <1>2

LEMMA ConceptVersion ==
  ASSUME NEW version, NEW reply
  PROVE  ConceptOf(version, reply).version = version
  BY DEF ConceptOf

LEMMA NoGenerationApproved ==
  Approved(NoGeneration) /\ Approved([NoGeneration EXCEPT !.pc = "threw"])
<1>1. NoConcept.scenes \in 2..5
  BY ConceptScenes DEF NoConcept
<1> HIDE DEF NoConcept
<1>2. PICK concept, blueprint, intelligence :
        /\ concept.scenes \in 2..5
        /\ NoGeneration = [pc |-> "idle", mode |-> "campaign", intelligence |-> intelligence,
             conflict |-> FALSE, visual |-> "fallback", version |-> 0, concept |-> concept,
             revised |-> FALSE, gates |-> [creative |-> "REVISE", storyboard |-> "REJECT"],
             blueprint |-> blueprint, voice |-> Silence,
             transcript |-> FALSE, repairs |-> 0, planning |-> "first", plan |-> <<>>,
             expected |-> 0, remove |-> <<>>, clips |-> <<>>, quality |-> <<>>]
  BY <1>1 DEF NoGeneration
<1>3. Approved(NoGeneration)
  <2>1. IsGeneration(NoGeneration) /\ IsNarration(Silence)
    BY <1>2 DEF IsGeneration, IsNarration, Silence
  <2>2. Matching(NoGeneration)
    BY <1>2, <2>1 DEF Matching, PastPreFlight, AfterCreativeGate, AfterBlueprint
  <2> QED BY <1>2, <2>1, <2>2 DEF Approved, PastPreFlight, AfterCreativeGate
<1>4. PICK g : g = [NoGeneration EXCEPT !.pc = "threw"]
  OBVIOUS
<1>5. IsGeneration(g) /\ g.pc = "threw" /\ g.concept = NoGeneration.concept
      /\ g.gates = NoGeneration.gates /\ g.voice = NoGeneration.voice
  BY <1>2, <1>4 DEF IsGeneration
<1>6. Approved(g)
  BY <1>3, <1>5 DEF Approved, Matching, PastPreFlight, AfterCreativeGate, AfterBlueprint
<1> QED BY <1>3, <1>4, <1>6

\* A step to a place where nothing is claimed.
LEMMA ThrewApproved ==
  ASSUME NEW g, Approved(g), NEW h, IsGeneration(h), h.pc = "threw",
         h.gates = g.gates, h.concept = g.concept, h.voice = g.voice
  PROVE  Approved(h)
  BY DEF Approved, Matching, PastPreFlight, AfterCreativeGate, AfterBlueprint

\* What a step of the pipeline leaves as it is: the kind of generation, for a storyboard
\* made again the concept and the blueprint, and once it is produced all but its voice.
Keeps(h) ==
  /\ h.mode = gen.mode
  /\ gen.mode = "storyboard" \/ gen.pc = "produced" =>
       h.version = gen.version /\ h.blueprint = gen.blueprint
  /\ gen.pc = "produced" =>
       h.pc = "produced" /\ h.clips = gen.clips /\ h.plan = gen.plan


LEMMA StartApproved ==
  ASSUME Approved(gen), NEW start \in {"analysis", "reuse"}, StartGeneration(start)
  PROVE  Approved(gen')
<1>1. PICK pc \in {"threw", "analysis", "reuse"} : gen' = [gen EXCEPT !.pc = pc]
  BY DEF StartGeneration
<1>2. PICK h : h = gen'
  OBVIOUS
<1>3. /\ IsGeneration(h) /\ h.voice = gen.voice /\ h.pc = pc /\ gen.mode = "campaign"
      /\ h.mode = gen.mode
      /\ h.gates = gen.gates /\ h.concept = gen.concept
  BY <1>1, <1>2 DEF Approved, IsGeneration, StartGeneration, At
<1>4. Approved(h)
  BY <1>3 DEF Approved, Matching, PastPreFlight, AfterCreativeGate, AfterBlueprint
<1> QED BY <1>2, <1>4

\* The steps up to the concept, and to its gate.
LEMMA ConceptApproved ==
  ASSUME Approved(gen), AnalyseProduct \/ ReuseConcept \/ GenerateConcept
  PROVE  Approved(gen') /\ Keeps(gen')
<1>1. PICK h : h = gen'
  OBVIOUS
<1>2. CASE AnalyseProduct
  <2>1. PICK intelligence, conflict :
          h = [gen EXCEPT !.pc = "concept", !.intelligence = intelligence,
                          !.conflict = conflict]
    BY <1>1, <1>2 DEF AnalyseProduct
  <2>2. /\ IsGeneration(h) /\ h.voice = gen.voice /\ h.pc = "concept" /\ h.gates = gen.gates
        /\ h.concept = gen.concept /\ h.mode = gen.mode /\ gen.pc = "analysis"
    BY <1>2, <2>1 DEF Approved, IsGeneration, AnalyseProduct, At
  <2> QED BY <1>1, <2>2
          DEF Approved, Matching, PastPreFlight, AfterCreativeGate, AfterBlueprint, Keeps
<1>3. CASE ReuseConcept
  <2>1. PICK intelligence \in IntelligenceReplies \ {Unusable}, reply \in ConceptReplies,
             conflict \in BOOLEAN :
          /\ RequiredInputs(intelligence, ConceptOf(1, reply))
          /\ h = [gen EXCEPT
               !.pc = "blueprint", !.intelligence = intelligence, !.conflict = conflict,
               !.version = 1, !.concept = ConceptOf(1, reply), !.gates.creative = "APPROVED"]
    BY <1>1, <1>3 DEF ReuseConcept
  <2>2. PICK concept :
          concept = ConceptOf(1, reply) /\ concept.scenes \in 2..5 /\ concept.version = 1
    BY ConceptScenes, ConceptVersion
  <2>3. PICK gates : gates = [gen.gates EXCEPT !.creative = "APPROVED"]
    OBVIOUS
  <2>4. h = [gen EXCEPT !.pc = "blueprint", !.intelligence = intelligence,
               !.conflict = conflict, !.version = 1, !.concept = concept, !.gates = gates]
    BY <2>1, <2>2, <2>3 DEF Approved, IsGeneration
  <2>5. /\ gates = [creative |-> "APPROVED", storyboard |-> gen.gates.storyboard]
    BY <2>3 DEF Approved
  <2>6. /\ IsGeneration(h) /\ h.voice = gen.voice /\ h.version = 1 /\ h.pc = "blueprint"
        /\ h.gates = gates /\ h.concept = concept
        /\ h.intelligence = intelligence /\ h.mode = gen.mode /\ gen.mode = "campaign"
        /\ gen.pc = "reuse"
    BY <1>3, <2>4 DEF Approved, IsGeneration, ReuseConcept, At
  <2> QED BY <1>1, <2>1, <2>2, <2>5, <2>6
          DEF Approved, Matching, PastPreFlight, AfterCreativeGate, AfterBlueprint, Keeps
<1>4. CASE GenerateConcept
  <2>1. PICK reply \in ConceptReplies :
          h = [gen EXCEPT !.pc = "gate", !.version = gen.version + 1,
                          !.concept = ConceptOf(gen.version + 1, reply)]
    BY <1>1, <1>4 DEF GenerateConcept
  <2>2. PICK concept : /\ concept = ConceptOf(gen.version + 1, reply)
                       /\ concept.scenes \in 2..5 /\ concept.version = gen.version + 1
    BY ConceptScenes, ConceptVersion
  <2>3. /\ IsGeneration(h) /\ h.voice = gen.voice /\ h.version = gen.version + 1
        /\ h.pc = "gate" /\ h.gates = gen.gates /\ h.concept = concept
        /\ h.mode = gen.mode /\ h.plan = gen.plan /\ gen.pc = "concept"
    BY <1>4, <2>1, <2>2 DEF Approved, IsGeneration, GenerateConcept, At
  <2> QED BY <1>1, <2>2, <2>3
          DEF Approved, Matching, PastPreFlight, AfterCreativeGate, AfterBlueprint, Keeps
<1> QED BY <1>2, <1>3, <1>4

\* Only what has the inputs it needs is approved.
LEMMA CreativeGateApproved ==
  ASSUME Approved(gen), EvaluateCreativeGate
  PROVE  Approved(gen') /\ Keeps(gen')
<1>1. PICK h : h = gen'
  OBVIOUS
<1>2. PICK status, revised, pc :
        /\ status = "APPROVED" => RequiredInputs(gen.intelligence, gen.concept)
        /\ pc \in {"blueprint", "threw", "concept"}
        /\ pc = "blueprint" => status = "APPROVED"
        /\ h = [gen EXCEPT !.gates.creative = status, !.revised = revised, !.pc = pc]
  <2>1. PICK first \in GateReplies, second \in GateReplies :
          LET status == CreativeGate(gen.intelligence, gen.concept, first, second)
          IN h = [gen EXCEPT
               !.gates.creative = status, !.revised = status # "APPROVED",
               !.pc = IF status = "APPROVED" THEN "blueprint"
                      ELSE IF gen.revised THEN "threw" ELSE "concept"]
    BY <1>1 DEF EvaluateCreativeGate
  <2>2. PICK status : status = CreativeGate(gen.intelligence, gen.concept, first, second)
    OBVIOUS
  <2>3. status = "APPROVED" => RequiredInputs(gen.intelligence, gen.concept)
    BY <2>2 DEF CreativeGate
  <2>4. PICK revised : revised = (status # "APPROVED")
    OBVIOUS
  <2>5. PICK pc : pc = IF status = "APPROVED" THEN "blueprint"
                       ELSE IF gen.revised THEN "threw" ELSE "concept"
    OBVIOUS
  <2>6. h = [gen EXCEPT !.gates.creative = status, !.revised = revised, !.pc = pc]
    BY <2>1, <2>2, <2>4, <2>5, Zenon
  <2>7. /\ pc \in {"blueprint", "threw", "concept"}
        /\ pc = "blueprint" => status = "APPROVED"
    BY <2>5
  <2> QED BY <2>3, <2>6, <2>7, Zenon
<1>3. PICK gates : gates = [gen.gates EXCEPT !.creative = status]
  OBVIOUS
<1>4. h = [gen EXCEPT !.gates = gates, !.revised = revised, !.pc = pc]
  BY <1>2, <1>3 DEF Approved, IsGeneration
<1>5. gates = [creative |-> status, storyboard |-> gen.gates.storyboard]
  BY <1>3 DEF Approved
<1>6. /\ IsGeneration(h) /\ h.voice = gen.voice /\ h.version = gen.version /\ h.pc = pc
      /\ h.gates = gates /\ h.concept = gen.concept
      /\ h.intelligence = gen.intelligence /\ h.mode = gen.mode /\ h.plan = gen.plan
      /\ gen.pc = "gate"
  BY <1>4 DEF Approved, IsGeneration, EvaluateCreativeGate, At
<1> QED BY <1>1, <1>2, <1>5, <1>6
        DEF Approved, Matching, PastPreFlight, AfterCreativeGate, AfterBlueprint, Keeps


\* The steps that change nothing of what is approved.
LEMMA QuietApproved ==
  ASSUME Approved(gen), NEW h, IsGeneration(h),
         h.gates = gen.gates, h.concept = gen.concept, h.intelligence = gen.intelligence,
         h.mode = gen.mode, h.plan = gen.plan, h.blueprint = gen.blueprint,
         h.remove = gen.remove, h.version = gen.version, h.clips = gen.clips,
         IsNarration(h.voice), h.voice.concept = gen.voice.concept,
         \/ h.pc = gen.pc
         \/ gen.pc \in {"copies", "budget", "narration"} /\ h.pc \in {"budget", "shots"}
         \/ gen.pc = "narration" /\ h.pc = "produced" /\ gen.mode # "concept"
  PROVE  Approved(h) /\ Keeps(h)
  BY DEF Approved, Matching, PastPreFlight, AfterCreativeGate, AfterBlueprint, Keeps

LEMMA NarrationApproved ==
  ASSUME Approved(gen), GenerateBlueprint \/ NarrationSettles \/ AwaitNarration
  PROVE  Approved(gen') /\ Keeps(gen')
<1>1. PICK h : h = gen'
  OBVIOUS
<1>2. CASE GenerateBlueprint
  <2>1. PICK blueprint, voice, pc :
          /\ pc = IF gen.mode = "concept" THEN "narration" ELSE "copies"
          /\ blueprint.concept = gen.concept.version
          /\ IsNarration(voice) /\ voice.concept = gen.version
          /\ h = [gen EXCEPT !.blueprint = blueprint, !.voice = voice, !.pc = pc]
    <3>1. PICK first, second :
            gen' = [gen EXCEPT
              !.blueprint = BlueprintOf(gen.concept, first, second),
              !.voice = [status |-> "pending", real |-> FALSE, concept |-> gen.version],
              !.pc = IF gen.mode = "concept" THEN "narration" ELSE "copies"]
      BY <1>2 DEF GenerateBlueprint
    <3>2. PICK blueprint : blueprint = BlueprintOf(gen.concept, first, second)
      OBVIOUS
    <3>3. PICK voice : voice = [status |-> "pending", real |-> FALSE, concept |-> gen.version]
      OBVIOUS
    <3>4. PICK pc : pc = IF gen.mode = "concept" THEN "narration" ELSE "copies"
      OBVIOUS
    <3>5. h = [gen EXCEPT !.blueprint = blueprint, !.voice = voice, !.pc = pc]
      BY <1>1, <3>1, <3>2, <3>3, <3>4, Zenon
    <3>6. blueprint.concept = gen.concept.version
      BY <3>2 DEF BlueprintOf
    <3>7. IsNarration(voice) /\ voice.concept = gen.version
      BY <3>3 DEF IsNarration
    <3> QED BY <3>4, <3>5, <3>6, <3>7
  <2>2. /\ IsGeneration(h) /\ h.voice = voice /\ h.version = gen.version
        /\ h.blueprint = blueprint /\ h.pc = pc /\ h.gates = gen.gates
        /\ h.concept = gen.concept
        /\ h.intelligence = gen.intelligence /\ h.mode = gen.mode /\ h.plan = gen.plan
        /\ gen.pc = "blueprint"
    BY <1>2, <2>1 DEF Approved, IsGeneration, GenerateBlueprint, At
  <2> QED BY <1>1, <2>1, <2>2
          DEF Approved, Matching, PastPreFlight, AfterCreativeGate, AfterBlueprint, Keeps
<1>3. CASE NarrationSettles
  <2>1. PICK voice : /\ h = [gen EXCEPT !.voice = voice]
                     /\ IsNarration(voice) /\ voice.concept = gen.voice.concept
    <3>1. CASE \E real \in VoiceKinds :
                 gen' = [gen EXCEPT !.voice.status = "spoken", !.voice.real = real]
      <4>1. PICK real : gen' = [gen EXCEPT !.voice.status = "spoken", !.voice.real = real]
        BY <3>1
      <4>2. PICK first : first = [gen EXCEPT !.voice.status = "spoken"]
        OBVIOUS
      <4>3. gen' = [first EXCEPT !.voice.real = real]
        BY <4>1, <4>2, Zenon
      <4>4. PICK v : v = [gen.voice EXCEPT !.status = "spoken"]
        OBVIOUS
      <4>5. PICK w : w = [v EXCEPT !.real = real]
        OBVIOUS
      <4>6. first = [gen EXCEPT !.voice = v]
        BY <4>2, <4>4 DEF Approved, IsGeneration
      <4>7. first.voice = v
        BY <4>6 DEF Approved, IsGeneration
      <4>8. h = [first EXCEPT !.voice = w]
        BY <1>1, <4>3, <4>5, <4>6, <4>7 DEF Approved, IsGeneration
      <4>9. h = [gen EXCEPT !.voice = w]
        BY <4>6, <4>8 DEF Approved, IsGeneration
      <4>10. IsNarration(w) /\ w.concept = gen.voice.concept
        BY <4>4, <4>5 DEF Approved, Matching, IsNarration
      <4> QED BY <4>9, <4>10
    <3>2. CASE gen' = [gen EXCEPT !.voice.status = "failed"]
      <4>1. PICK v : v = [gen.voice EXCEPT !.status = "failed"]
        OBVIOUS
      <4>2. h = [gen EXCEPT !.voice = v]
        BY <1>1, <3>2, <4>1 DEF Approved, IsGeneration
      <4>3. IsNarration(v) /\ v.concept = gen.voice.concept
        BY <4>1 DEF Approved, Matching, IsNarration
      <4> QED BY <4>2, <4>3
    <3> QED BY <1>3, <3>1, <3>2 DEF NarrationSettles
  <2>2. /\ IsGeneration(h) /\ h.voice = voice /\ h.version = gen.version
        /\ h.clips = gen.clips /\ h.pc = gen.pc /\ h.gates = gen.gates
        /\ h.concept = gen.concept /\ h.intelligence = gen.intelligence
        /\ h.mode = gen.mode /\ h.plan = gen.plan /\ h.blueprint = gen.blueprint
        /\ h.remove = gen.remove
    BY <2>1 DEF Approved, IsGeneration
  <2> QED BY <1>1, <2>1, <2>2, QuietApproved
<1>4. CASE AwaitNarration
  <2>1. CASE gen' = [gen EXCEPT !.pc = "threw"]
    <3>1. IsGeneration(h) /\ h.pc = "threw" /\ h.voice = gen.voice /\ h.mode = gen.mode
     /\ h.version = gen.version /\ h.blueprint = gen.blueprint /\ h.gates = gen.gates
     /\ h.concept = gen.concept
      BY <1>1, <2>1 DEF Approved, IsGeneration
    <3>2. gen.pc = "narration"
      BY <1>4 DEF AwaitNarration, At
    <3> QED BY <1>1, <3>1, <3>2, ThrewApproved DEF Keeps
  <2>2. CASE \E transcript \in {FALSE, gen.voice.real} :
               gen' = [gen EXCEPT !.transcript = transcript,
                         !.pc = IF gen.mode = "concept" THEN "shots" ELSE "produced"]
    <3>1. PICK pc : pc = IF gen.mode = "concept" THEN "shots" ELSE "produced"
      OBVIOUS
    <3>2. PICK transcript : h = [gen EXCEPT !.transcript = transcript, !.pc = pc]
      BY <1>1, <2>2, <3>1, Zenon
    <3>3. /\ IsGeneration(h) /\ h.voice = gen.voice /\ h.version = gen.version
        /\ h.clips = gen.clips /\ h.pc = pc /\ h.gates = gen.gates
          /\ h.concept = gen.concept /\ h.intelligence = gen.intelligence
          /\ h.mode = gen.mode /\ h.plan = gen.plan /\ h.blueprint = gen.blueprint
          /\ h.remove = gen.remove /\ gen.pc = "narration"
      BY <1>4, <3>2 DEF Approved, IsGeneration, AwaitNarration, At
    <3>4. h.pc = "shots" \/ (h.pc = "produced" /\ gen.mode # "concept")
      BY <3>1, <3>3
    <3> QED BY <1>1, <3>3, <3>4, QuietApproved DEF Approved, Matching
  <2> QED BY <1>4, <2>1, <2>2 DEF AwaitNarration
<1> QED BY <1>2, <1>3, <1>4

LEMMA CopiesApproved ==
  ASSUME Approved(gen), ProduceCopies \/ CheckBeforeVideoLoop \/ CallFails
  PROVE  Approved(gen') /\ Keeps(gen')
<1>1. PICK h : h = gen'
  OBVIOUS
<1>2. CASE ProduceCopies
  <2>1. PICK visual : h = [gen EXCEPT !.pc = "budget", !.visual = visual]
    BY <1>1, <1>2 DEF ProduceCopies
  <2>2. /\ IsGeneration(h) /\ h.voice = gen.voice /\ h.version = gen.version
        /\ h.clips = gen.clips /\ h.pc = "budget" /\ h.gates = gen.gates
        /\ h.concept = gen.concept /\ h.intelligence = gen.intelligence
        /\ h.mode = gen.mode /\ h.plan = gen.plan /\ h.blueprint = gen.blueprint
        /\ h.remove = gen.remove /\ gen.pc = "copies"
    BY <1>2, <2>1 DEF Approved, IsGeneration, ProduceCopies, At
  <2> QED BY <1>1, <2>2, QuietApproved DEF Approved, Matching
<1>3. CASE gen' = [gen EXCEPT !.pc = "threw"] /\ gen.pc # "produced"
  <2>1. IsGeneration(h) /\ h.pc = "threw" /\ h.voice = gen.voice /\ h.mode = gen.mode
     /\ h.version = gen.version /\ h.blueprint = gen.blueprint /\ h.gates = gen.gates
     /\ h.concept = gen.concept
    BY <1>1, <1>3 DEF Approved, IsGeneration
  <2> QED BY <1>1, <1>3, <2>1, ThrewApproved DEF Keeps
<1>4. CASE \E repairs : gen.pc = "budget" /\ gen' = [gen EXCEPT !.pc = "shots", !.repairs = repairs]
  <2>1. PICK repairs : h = [gen EXCEPT !.pc = "shots", !.repairs = repairs]
    BY <1>1, <1>4
  <2>2. /\ IsGeneration(h) /\ h.voice = gen.voice /\ h.version = gen.version
        /\ h.clips = gen.clips /\ h.pc = "shots" /\ h.gates = gen.gates
        /\ h.concept = gen.concept /\ h.intelligence = gen.intelligence
        /\ h.mode = gen.mode /\ h.plan = gen.plan /\ h.blueprint = gen.blueprint
        /\ h.remove = gen.remove /\ gen.pc = "budget"
    BY <1>4, <2>1 DEF Approved, IsGeneration
  <2> QED BY <1>1, <2>2, QuietApproved DEF Approved, Matching
<1>5. CASE CheckBeforeVideoLoop
  <2>1. PICK repairs :
          gen' = IF repairs < 0 THEN [gen EXCEPT !.pc = "threw"]
                 ELSE [gen EXCEPT !.pc = "shots", !.repairs = repairs]
    BY <1>5 DEF CheckBeforeVideoLoop
  <2>2. gen.pc = "budget"
    BY <1>5 DEF CheckBeforeVideoLoop, At
  <2> QED BY <1>3, <1>4, <2>1, <2>2
<1>6. CASE CallFails
  BY <1>3, <1>6 DEF CallFails
<1> QED BY <1>2, <1>5, <1>6


\* The steps from the shot plan to the checks before filming.
LEMMA PlanApproved ==
  ASSUME Approved(gen), GenerateShotPlan
  PROVE  Approved(gen') /\ Keeps(gen')
<1>1. PICK h : h = gen'
  OBVIOUS
<1>2. PICK first \in ShotReplies, second \in ShotReplies :
        LET reply == Retried(first, second)
            plan == ShotPlanOf(gen.concept, reply)
            again == gen.planning = "first" /\ TooRepetitive(plan)
        IN h = IF reply = Unusable THEN [gen EXCEPT !.pc = "threw"]
               ELSE [gen EXCEPT
                 !.pc = IF again THEN "shots" ELSE "storyboard",
                 !.planning = IF again THEN "diversity" ELSE gen.planning,
                 !.plan = plan,
                 !.expected = IF gen.planning = "revision" THEN Len(plan)
                              ELSE gen.concept.scenes]
  BY <1>1 DEF GenerateShotPlan
<1>3. PICK reply : reply = Retried(first, second)
  OBVIOUS
<1>4. PICK plan : plan = ShotPlanOf(gen.concept, reply) /\ Drawn(plan, gen.concept.scenes)
  BY ShotPlanDrawn DEF Approved
<1>5. PICK pc \in {"shots", "storyboard"} :
        pc = IF gen.planning = "first" /\ TooRepetitive(plan) THEN "shots" ELSE "storyboard"
  OBVIOUS
<1>6. PICK planning : planning = IF gen.planning = "first" /\ TooRepetitive(plan)
                                 THEN "diversity" ELSE gen.planning
  OBVIOUS
<1>7. PICK expected : expected = IF gen.planning = "revision" THEN Len(plan)
                                 ELSE gen.concept.scenes
  OBVIOUS
<1>8. h = IF reply = Unusable THEN [gen EXCEPT !.pc = "threw"]
          ELSE [gen EXCEPT !.pc = pc, !.planning = planning, !.plan = plan,
                           !.expected = expected]
  BY <1>2, <1>3, <1>4, <1>5, <1>6, <1>7, Zenon
<1>9. CASE reply = Unusable
  <2>1. IsGeneration(h) /\ h.pc = "threw" /\ h.voice = gen.voice /\ h.mode = gen.mode
     /\ h.version = gen.version /\ h.blueprint = gen.blueprint /\ h.gates = gen.gates
     /\ h.concept = gen.concept
    BY <1>8, <1>9 DEF Approved, IsGeneration
  <2>2. gen.pc = "shots"
    BY DEF GenerateShotPlan, At
  <2> QED BY <1>1, <2>1, <2>2, ThrewApproved DEF Keeps
<1>10. CASE reply # Unusable
  <2>1. /\ IsGeneration(h) /\ h.voice = gen.voice /\ h.version = gen.version
        /\ h.blueprint = gen.blueprint /\ h.pc = pc /\ h.gates = gen.gates
        /\ h.concept = gen.concept /\ h.intelligence = gen.intelligence
        /\ h.mode = gen.mode /\ h.plan = plan
    BY <1>8, <1>10 DEF Approved, IsGeneration
  <2>2. gen.pc = "shots"
    BY DEF GenerateShotPlan, At
  <2> QED BY <1>1, <1>4, <2>1, <2>2
          DEF Approved, Matching, PastPreFlight, AfterCreativeGate, AfterBlueprint, Keeps
<1> QED BY <1>9, <1>10

LEMMA StoryboardApproved ==
  ASSUME Approved(gen), EvaluateStoryboardGate
  PROVE  Approved(gen') /\ Keeps(gen')
<1>1. PICK h : h = gen'
  OBVIOUS
<1>2. PICK first \in StoryboardReplies, second \in StoryboardReplies :
        LET verdict == StoryboardGate(first, second)
        IN h = [gen EXCEPT
             !.gates.storyboard = verdict.status,
             !.planning = IF verdict.status = "APPROVED" THEN "first" ELSE "revision",
             !.remove = IF verdict.status = "APPROVED" THEN verdict.scenesToRemove ELSE <<>>,
             !.pc = IF verdict.status = "APPROVED" THEN "preflight"
                    ELSE IF gen.planning = "revision" THEN "threw" ELSE "shots"]
  BY <1>1 DEF EvaluateStoryboardGate
<1>3. PICK verdict : verdict = StoryboardGate(first, second)
  OBVIOUS
<1>4. verdict.scenesToRemove \in Seq(Int)
  <2>1. PICK reply \in StoryboardReplies : reply = Retried(first, second)
    BY DEF Retried
  <2>2. CASE reply = Unusable
    <3>1. verdict.scenesToRemove = <<>>
      BY <1>3, <2>1, <2>2 DEF StoryboardGate
    <3> QED BY <3>1
  <2>3. CASE reply # Unusable
    <3>1. reply.scenesToRemove \in Seq(Int)
      BY <2>3, PipelineAssumption
    <3>2. verdict.scenesToRemove = reply.scenesToRemove
      BY <1>3, <2>1, <2>3 DEF StoryboardGate
    <3> QED BY <3>1, <3>2
  <2> QED BY <2>2, <2>3
<1>5. PICK status, remove, pc, planning :
        /\ remove \in Seq(Int)
        /\ pc \in {"preflight", "threw", "shots"}
        /\ pc = "preflight" => status = "APPROVED"
        /\ h = [gen EXCEPT !.gates.storyboard = status, !.planning = planning,
                           !.remove = remove, !.pc = pc]
  <2>1. PICK status : status = verdict.status
    OBVIOUS
  <2>2. PICK planning : planning = IF status = "APPROVED" THEN "first" ELSE "revision"
    OBVIOUS
  <2>3. PICK remove \in Seq(Int) :
          remove = IF status = "APPROVED" THEN verdict.scenesToRemove ELSE <<>>
    <3>1. <<>> \in Seq(Int)
      OBVIOUS
    <3> QED BY <1>4, <3>1
  <2>4. PICK pc : pc = IF status = "APPROVED" THEN "preflight"
                       ELSE IF gen.planning = "revision" THEN "threw" ELSE "shots"
    OBVIOUS
  <2>5. h = [gen EXCEPT !.gates.storyboard = status, !.planning = planning,
                        !.remove = remove, !.pc = pc]
    BY <1>2, <1>3, <2>1, <2>2, <2>3, <2>4, Zenon
  <2>6. pc \in {"preflight", "threw", "shots"} /\ (pc = "preflight" => status = "APPROVED")
    BY <2>4
  <2> QED BY <2>3, <2>5, <2>6, Zenon
<1>6. PICK gates : gates = [gen.gates EXCEPT !.storyboard = status]
  OBVIOUS
<1>7. h = [gen EXCEPT !.gates = gates, !.planning = planning, !.remove = remove, !.pc = pc]
  BY <1>5, <1>6 DEF Approved, IsGeneration
<1>8. gates = [creative |-> gen.gates.creative, storyboard |-> status]
  BY <1>6 DEF Approved
<1>9. /\ IsGeneration(h) /\ h.voice = gen.voice /\ h.version = gen.version
        /\ h.blueprint = gen.blueprint /\ h.pc = pc /\ h.gates = gates
        /\ h.concept = gen.concept
      /\ h.intelligence = gen.intelligence /\ h.mode = gen.mode /\ h.plan = gen.plan
      /\ h.remove = remove /\ gen.pc = "storyboard"
  BY <1>7 DEF Approved, IsGeneration, EvaluateStoryboardGate, At
<1> QED BY <1>1, <1>5, <1>8, <1>9
        DEF Approved, Matching, PastPreFlight, AfterCreativeGate, AfterBlueprint, Keeps

LEMMA PreFlightApproved ==
  ASSUME Approved(gen), PreFlight
  PROVE  Approved(gen') /\ Keeps(gen')
<1>1. PICK h : h = gen'
  OBVIOUS
<1>2. PICK plan : plan = IF gen.remove = <<>> THEN gen.plan
                         ELSE ApplySafePruning(gen.plan, gen.remove)
  OBVIOUS
<1>3. PICK expected : expected = IF gen.remove = <<>> THEN gen.expected ELSE Len(plan)
  OBVIOUS
<1>4. PICK ready : ready = PreFlightReady(gen.visual, gen.concept, gen.blueprint, plan,
                                          ValidShotPlan(plan, expected), gen.conflict)
  OBVIOUS
<1>5. PICK pc : pc = IF ready THEN "film" ELSE "threw"
  OBVIOUS
<1>6. h = [gen EXCEPT !.plan = plan, !.expected = 0, !.remove = <<>>, !.pc = pc]
  BY <1>1, <1>2, <1>3, <1>4, <1>5, Zenon DEF PreFlight
<1>7. FilmablePlan(plan)
  <2>1. /\ gen.pc = "preflight" /\ Drawn(gen.plan, gen.concept.scenes)
        /\ gen.concept.scenes \in 2..5 /\ gen.remove \in Seq(Int)
    BY DEF PreFlight, At, Approved
  <2>2. CASE gen.remove = <<>>
    BY <1>2, <2>1, <2>2, DrawnFilmable
  <2>3. CASE gen.remove # <<>>
    BY <1>2, <2>1, <2>3, PruningLeavesTwo
  <2> QED BY <2>2, <2>3
<1>8. /\ IsGeneration(h) /\ h.voice = gen.voice /\ h.version = gen.version
        /\ h.blueprint = gen.blueprint /\ h.pc = pc /\ h.gates = gen.gates
        /\ h.concept = gen.concept
      /\ h.intelligence = gen.intelligence /\ h.mode = gen.mode /\ h.plan = plan
      /\ h.blueprint = gen.blueprint /\ gen.pc = "preflight"
  BY <1>6 DEF Approved, IsGeneration, PreFlight, At
<1>9. CASE ~ready
  BY <1>1, <1>5, <1>8, <1>9, ThrewApproved DEF Keeps
<1>10. CASE ready
  <2>1. PreFlightReady(gen.visual, gen.concept, gen.blueprint, plan,
                       ValidShotPlan(plan, expected), gen.conflict)
    BY <1>4, <1>10, Zenon
  <2>2. /\ gen.concept.hook /\ gen.concept.cta /\ ValidShotPlan(plan, expected)
        /\ \A i \in DOMAIN plan :
             /\ ~plan[i].template
             /\ plan[i].beat # NoBeat => plan[i].beat \in DOMAIN gen.blueprint.beats
    BY <2>1, Zenon DEF PreFlightReady
  <2>3. \E i \in DOMAIN plan : plan[i].text
    BY <2>2, Zenon DEF ValidShotPlan
  <2>4. h.pc = "film"
    BY <1>5, <1>8, <1>10
  <2> QED BY <1>1, <1>7, <1>8, <2>2, <2>3, <2>4
          DEF Approved, Matching, PastPreFlight, AfterCreativeGate, AfterBlueprint, Keeps
<1> QED BY <1>9, <1>10

LEMMA FilmApproved ==
  ASSUME Approved(gen), Film
  PROVE  Approved(gen') /\ Keeps(gen')
<1>1. PICK h : h = gen'
  OBVIOUS
<1>2. PICK pc : pc = IF gen.mode \in {"storyboard", "concept"} THEN "produced"
                     ELSE "narration"
  OBVIOUS
<1>3. PICK filmed \in SUBSET ToSet(Scenes(gen.plan)) :
        \E clips \in [filmed -> Clips] :
          h = [gen EXCEPT
            !.clips = ScenesByPriority(gen.plan, filmed),
            !.quality = [s \in filmed |-> ShotQuality(clips[s], gen.visual = "described")],
            !.pc = IF gen.mode \in {"storyboard", "concept"} THEN "produced"
                   ELSE "narration"]
  BY <1>1, Zenon DEF Film
<1>4. PICK quality : h = [gen EXCEPT !.clips = ScenesByPriority(gen.plan, filmed),
                                     !.quality = quality, !.pc = pc]
  BY <1>2, <1>3, Zenon
<1>5. /\ IsGeneration(h) /\ h.voice = gen.voice /\ h.version = gen.version
      /\ h.clips = ScenesByPriority(gen.plan, filmed) /\ h.pc = pc /\ h.gates = gen.gates
      /\ h.concept = gen.concept
      /\ h.intelligence = gen.intelligence /\ h.mode = gen.mode /\ h.plan = gen.plan
      /\ h.blueprint = gen.blueprint /\ h.remove = gen.remove /\ gen.pc = "film"
  BY <1>4 DEF Approved, IsGeneration, Film, At
<1>6. pc = "produced" \/ (pc = "narration" /\ gen.mode # "concept")
  BY <1>2
<1>7. ClipsOf(ScenesByPriority(gen.plan, filmed), gen.plan)
  BY <1>5, LaunchedInOrder DEF Approved, PastPreFlight
<1>8. gen.mode = "storyboard" => pc = "produced"
  BY <1>2
<1> QED BY <1>1, <1>5, <1>6, <1>7, <1>8
        DEF Approved, Matching, PastPreFlight, AfterCreativeGate, AfterBlueprint, Keeps


\* The escalations go back to before the plan, or to before the concept.
LEMMA EscalationApproved ==
  ASSUME Approved(gen), gen.pc = "produced",
         (\E blueprint : RegenerateStoryboard(blueprint)) \/ RegenerateConcept
  PROVE  Approved(gen')
<1>1. PICK h : h = gen'
  OBVIOUS
<1>2. CASE \E blueprint : RegenerateStoryboard(blueprint)
  <2>1. PICK blueprint :
          h = [gen EXCEPT !.pc = "shots", !.mode = "storyboard", !.blueprint = blueprint,
                          !.plan = <<>>, !.clips = <<>>, !.quality = <<>>]
    BY <1>1, <1>2 DEF RegenerateStoryboard
  <2>2. /\ IsGeneration(h) /\ h.voice = gen.voice /\ h.version = gen.version
        /\ h.pc = "shots" /\ h.mode = "storyboard" /\ h.gates = gen.gates
        /\ h.concept = gen.concept /\ h.intelligence = gen.intelligence
    BY <2>1 DEF Approved, IsGeneration
  <2> QED BY <1>1, <2>2
          DEF Approved, Matching, PastPreFlight, AfterCreativeGate, AfterBlueprint
<1>3. CASE RegenerateConcept
  <2>1. h = [gen EXCEPT !.pc = "concept", !.mode = "concept",
                        !.plan = <<>>, !.clips = <<>>, !.quality = <<>>]
    BY <1>1, <1>3 DEF RegenerateConcept
  <2>2. /\ IsGeneration(h) /\ h.voice = gen.voice /\ h.pc = "concept"
        /\ h.mode = "concept" /\ h.gates = gen.gates
        /\ h.concept = gen.concept /\ h.plan = <<>>
    BY <2>1 DEF Approved, IsGeneration
  <2> QED BY <1>1, <2>2
          DEF Approved, Matching, PastPreFlight, AfterCreativeGate, AfterBlueprint
<1> QED BY <1>2, <1>3

LEMMA PipelineApproved ==
  ASSUME Approved(gen), PipelineStep
  PROVE  Approved(gen') /\ Keeps(gen')
  BY ConceptApproved, CreativeGateApproved, NarrationApproved, CopiesApproved,
     PlanApproved, StoryboardApproved, PreFlightApproved, FilmApproved DEF PipelineStep

LEMMA Next_Approved ==
  ASSUME ApprovedInv, [Next]_vars
  PROVE  ApprovedInv'
<1>1. CASE StartJob
  <2>1. Approved(gen')
    BY <1>1, StartApproved DEF ApprovedInv, StartJob
  <2>2. IsJob(job') /\ job'.pc = "generation"
    BY <1>1 DEF ApprovedInv, StartJob, IsJob
  <2> QED BY <2>1, <2>2 DEF ApprovedInv
<1>2. CASE Generate
  BY <1>2, PipelineApproved DEF ApprovedInv, Generate, Keeps
<1>3. CASE WithoutVideo \/ Deliver \/ DeliverRaw
  <2>1. PICK pc, trace, asset :
          job' = [job EXCEPT !.pc = pc, !.trace = trace, !.asset = asset] /\ pc # "loop"
    <3>1. CASE WithoutVideo
      <4>1. PICK pc, trace, asset : pc = "noVideo" /\ trace = job.trace /\ asset = job.asset
        OBVIOUS
      <4>2. job' = [job EXCEPT !.pc = pc, !.trace = trace, !.asset = asset]
        BY <3>1, <4>1 DEF WithoutVideo, ApprovedInv, IsJob
      <4>3. pc # "loop"
        BY <4>1
      <4> QED BY <4>2, <4>3
    <3>2. CASE Deliver
      <4>1. PICK pc \in {"delivered", "threw"} :
              pc = IF Gate(loop.operative, cut.transcript) THEN "delivered" ELSE "threw"
        OBVIOUS
      <4>2. job' = [job EXCEPT !.pc = pc, !.trace = "PASSED", !.asset = cut.video]
        BY <3>2, <4>1 DEF Deliver, ApprovedInv, IsJob
      <4> QED BY <4>1, <4>2
    <3>3. CASE DeliverRaw
      <4>1. PICK pc, trace, asset :
              pc = "deliveredRaw" /\ trace = "SKIPPED_NO_VIDEO" /\ asset = job.asset
        OBVIOUS
      <4>2. job' = [job EXCEPT !.pc = pc, !.trace = trace, !.asset = asset]
        BY <3>3, <4>1 DEF DeliverRaw, ApprovedInv, IsJob
      <4>3. pc # "loop"
        BY <4>1
      <4> QED BY <4>2, <4>3
    <3> QED BY <1>3, <3>1, <3>2, <3>3
  <2>2. IsJob(job') /\ job'.pc # "loop"
    BY <2>1 DEF ApprovedInv, IsJob
  <2>3. gen' = gen
    BY <1>3 DEF WithoutVideo, Deliver, DeliverRaw
  <2> QED BY <2>2, <2>3 DEF ApprovedInv
<1>4. CASE EnterLoop
  <2>1. PICK blueprint : job' = [job EXCEPT !.pc = "loop", !.blueprint = blueprint]
    BY <1>4, Zenon DEF EnterLoop
  <2>2. IsJob(job') /\ gen.pc = "produced" /\ gen' = gen
    BY <1>4, <2>1 DEF ApprovedInv, IsJob, EnterLoop
  <2> QED BY <2>2 DEF ApprovedInv
<1>5. CASE RunLoop \/ UNCHANGED vars
  BY <1>5 DEF RunLoop, ApprovedInv, vars
<1>6. CASE Fails \/ GiveUp \/ RecordFails
  <2>1. PICK trace : Abandon(trace)
    BY <1>6 DEF Fails, GiveUp, RecordFails
  <2>2. job' = [IdleJob EXCEPT !.pc = "threw", !.trace = trace]
    BY <2>1 DEF Abandon
  <2>3. IsJob(job') /\ job'.pc = "threw"
    BY <2>2 DEF IdleJob, IsJob
  <2>4. Approved(gen')
    BY <2>1, NoGenerationApproved DEF Abandon
  <2> QED BY <2>3, <2>4 DEF ApprovedInv
<1>7. CASE EscalateStoryboard \/ EscalateConcept
  <2>1. gen.pc = "produced"
    BY <1>7 DEF ApprovedInv, EscalateStoryboard, EscalateConcept
  <2>2. Approved(gen')
    BY <1>7, <2>1, EscalationApproved DEF ApprovedInv, EscalateStoryboard, EscalateConcept
  <2>3. IsJob(job') /\ job'.pc = "escalation"
    BY <1>7 DEF ApprovedInv, IsJob, EscalateStoryboard, EscalateConcept
  <2> QED BY <2>2, <2>3 DEF ApprovedInv
<1> QED BY <1>1, <1>2, <1>3, <1>4, <1>5, <1>6, <1>7 DEF Next

LEMMA SpecApprovedInv == Spec => []ApprovedInv
<1>1. Init => ApprovedInv
  <2> SUFFICES ASSUME Init PROVE ApprovedInv
    OBVIOUS
  <2>1. gen = NoGeneration /\ job = IdleJob
    BY DEF Init, PipelineInit
  <2>2. IsJob(job) /\ job.pc = "idle"
    BY <2>1 DEF IdleJob, IsJob
  <2> QED BY <2>1, <2>2, NoGenerationApproved DEF ApprovedInv
<1>2. ApprovedInv /\ [Next]_vars => ApprovedInv'
  BY Next_Approved
<1> QED BY <1>1, <1>2, PTL DEF Spec

\* Whatever the models answer, and through every revision, pruning and escalation: what
\* is filmed was approved by both gates, and its plan is one that may be filmed
\* (storyboard-gate.service.ts:230, shot-plan-validator.ts:25,
\* preflight-quality-gate.ts:49, ai-orchestrator.service.ts:279, 848).
THEOREM OnlyApprovedPlansAreFilmed == Spec => []FilmedPlanIsApproved
<1>1. ApprovedInv => FilmedPlanIsApproved
  <2> SUFFICES ASSUME ApprovedInv PROVE FilmedPlanIsApproved
    OBVIOUS
  <2>1. Approved(gen)
    BY DEF ApprovedInv
  <2>2. ASSUME gen.pc \in {"film", "produced"}
        PROVE  /\ RequiredInputs(gen.intelligence, gen.concept)
               /\ gen.gates = [creative |-> "APPROVED", storyboard |-> "APPROVED"]
    <3>1. /\ RequiredInputs(gen.intelligence, gen.concept)
          /\ gen.gates.creative = "APPROVED" /\ gen.gates.storyboard = "APPROVED"
      BY <2>1, <2>2 DEF Approved, Matching, PastPreFlight, AfterCreativeGate, AfterBlueprint
    <3>2. gen.gates = [creative |-> gen.gates.creative, storyboard |-> gen.gates.storyboard]
      BY <2>1 DEF Approved
    <3> QED BY <3>1, <3>2
  <2>3. ASSUME gen.pc \in {"film", "narration", "produced"}, gen.plan # <<>>
        PROVE  /\ Len(gen.plan) \in 2..5
               /\ \E i \in DOMAIN gen.plan : gen.plan[i].text
               /\ \A i \in DOMAIN gen.plan :
                    /\ ~gen.plan[i].template
                    /\ gen.plan[i].beat # NoBeat
                         => gen.plan[i].beat \in DOMAIN gen.blueprint.beats
                    /\ \A j \in DOMAIN gen.plan :
                         gen.plan[i].scene = gen.plan[j].scene => i = j
               /\ gen.concept.hook /\ gen.concept.cta
    <3>1. PastPreFlight(gen)
      BY <2>1, <2>3 DEF Approved, PastPreFlight
    <3>2. /\ FilmablePlan(gen.plan)
          /\ \E i \in DOMAIN gen.plan : gen.plan[i].text
          /\ \A i \in DOMAIN gen.plan :
               /\ ~gen.plan[i].template
               /\ gen.plan[i].beat # NoBeat => gen.plan[i].beat \in DOMAIN gen.blueprint.beats
          /\ gen.concept.hook /\ gen.concept.cta
      BY <2>1, <3>1, Zenon DEF Approved
    <3>3. PICK n \in 2..5 :
            /\ DOMAIN gen.plan = 1..n /\ Len(gen.plan) = n
            /\ \A i, j \in 1..n : gen.plan[i].scene = gen.plan[j].scene => i = j
      BY <3>2 DEF FilmablePlan, IsRow
    <3>4. Len(gen.plan) \in 2..5
      BY <3>3
    <3>5. \A i, j \in DOMAIN gen.plan : gen.plan[i].scene = gen.plan[j].scene => i = j
      BY <3>3
    <3> QED BY <3>2, <3>4, <3>5, Zenon
  <2> QED BY <2>2, <2>3, Zenon DEF FilmedPlanIsApproved
<1> QED BY <1>1, SpecApprovedInv, PTL

-----------------------------------------------------------------------------
(* What is delivered is all of what was planned.                             *)

IsCut(c) ==
  c = [clips |-> c.clips, video |-> c.video, voice |-> c.voice, transcript |-> c.transcript]

\* The takes of these clips, one for each, in their order.
Shows(takes, clips) ==
  \E n \in Nat : /\ IsRow(takes, n) /\ IsRow(clips, n)
                 /\ \A i \in 1..n : takes[i].scene = clips[i]

BothEscalated(j) == j.storyboardEscalated /\ j.conceptEscalated

\* A cut of the clips that were filmed, that speaks of the concept in force.
Fits(c, g, j) ==
  /\ IsCut(c) /\ Shows(c.clips, g.clips) /\ Shows(c.video, g.clips)
  /\ BothEscalated(j) \/ c.voice.concept = g.version

\* The judgment that the loop passes on: it passes, and nothing critical failed.
Passes(judgment) ==
  judgment.verdict = "PASS" /\ ~CriticalFailure(judgment.criteria)

\* The loop has a cut of the generation, and would restore one.
LoopFits(g, j) ==
  /\ params.blueprint = g.blueprint.concept
  /\ Fits(cut, g, j)
  /\ loop.attempt > 1 \/ loop.pc = "repair" => Fits(loop.preRepair, g, j)
  /\ loop.pc = "passed" => Passes(loop.operative)

LEMMA JudgmentPasses ==
  ASSUME NEW quality, NEW plan, NEW judgment \in Judgments(quality, plan),
         judgment.verdict = "PASS"
  PROVE  Passes(judgment)
<1>1. PICK criteria : judgment = Judgment(criteria)
  BY DEF Judgments
<1>2. judgment.criteria = criteria /\ judgment.verdict = Verdict(criteria)
  BY <1>1 DEF Judgment
<1>3. ~CriticalFailure(criteria)
  BY <1>2 DEF Verdict
<1> QED BY <1>2, <1>3 DEF Passes

LEMMA JudgeFits ==
  ASSUME LoopInv, NEW g, NEW j, LoopFits(g, j), JudgeVideo
  PROVE  /\ params' = params /\ Fits(cut', g, j) /\ Fits(loop'.preRepair, g, j)
         /\ loop'.pc = "passed" => Passes(loop'.operative)
<1>1. PICK judgment \in Judgments(params.quality, params.plan) :
        loop.pc = "judge" /\ Judge(judgment)
  BY DEF JudgeVideo
<1> DEFINE adopted == Adopt(judgment)
           passed == ~Reverts(judgment) /\ judgment.verdict = "PASS"
<1>2. /\ params' = params /\ cut' = adopted.cut /\ loop'.preRepair = adopted.cut
      /\ loop'.operative = adopted.operative
      /\ loop'.pc = IF passed THEN "passed" ELSE IF Over THEN "exhausted" ELSE "repair"
  BY <1>1 DEF Judge, LoopInv, IsLoop
<1>3. CASE Reverts(judgment)
  <2>1. adopted.cut = loop.preRepair /\ loop.attempt > 1
    BY <1>3 DEF Adopt, Reverts
  <2>2. loop'.pc # "passed"
    BY <1>2, <1>3
  <2> QED BY <1>2, <2>1, <2>2 DEF LoopFits
<1>4. CASE ~Reverts(judgment)
  <2>1. adopted.cut = cut /\ adopted.operative = judgment
    BY <1>4 DEF Adopt
  <2>2. loop'.pc = "passed" => judgment.verdict = "PASS"
    BY <1>2
  <2>3. loop'.pc = "passed" => Passes(judgment)
    BY <1>1, <2>2, JudgmentPasses
  <2> QED BY <1>2, <2>1, <2>3 DEF LoopFits
<1> QED BY <1>3, <1>4

LEMMA RefilmedShows ==
  ASSUME NEW clips, Shows(cut.clips, clips), NEW scene
  PROVE  Shows(Refilmed(scene), clips)
<1> DEFINE takes == Refilmed(scene)
<1>1. PICK n \in Nat : /\ IsRow(cut.clips, n) /\ IsRow(clips, n)
                       /\ \A i \in 1..n : cut.clips[i].scene = clips[i]
  BY DEF Shows
<1>2. DOMAIN cut.clips = 1..n
  BY <1>1 DEF IsRow
<1>3. \A i \in 1..n : takes[i].scene = clips[i]
  BY <1>1, <1>2 DEF Refilmed
<1>4. takes \in [1..n -> {takes[i] : i \in 1..n}]
  BY <1>2 DEF Refilmed
<1>5. IsRow(takes, n)
  <2>1. PICK S : takes \in [1..n -> S]
    BY <1>4
  <2> HIDE DEF takes
  <2> QED BY ONLY n \in Nat, <2>1, FunctionIsRow
<1> HIDE DEF takes
<1>6. Shows(takes, clips)
  BY <1>1, <1>3, <1>5 DEF Shows
<1> QED BY <1>6 DEF takes

\* What the repairs change of a cut.
LEMMA RepairFits ==
  ASSUME NEW g, NEW j, LoopFits(g, j), BothEscalated(j) \/ params.blueprint = g.version,
         RepairSubtitles \/ RegenerateAudio \/ RegenerateClip
  PROVE  Fits(cut', g, j)
<1>1. Fits(cut, g, j)
  BY DEF LoopFits
<1>2. PICK c : c = cut'
  OBVIOUS
<1>3. CASE cut' = cut
  BY <1>1, <1>3
<1>4. CASE RepairSubtitles
  <2>1. CASE cut' = [cut EXCEPT !.transcript.edit = loop.attempt]
    <3>1. /\ IsCut(c) /\ c.clips = cut.clips /\ c.video = cut.video /\ c.voice = cut.voice
      BY <1>1, <1>2, <2>1 DEF Fits, IsCut
    <3> QED BY <1>1, <1>2, <3>1 DEF Fits
  <2> QED BY <1>3, <1>4, <2>1 DEF RepairSubtitles
<1>5. CASE RegenerateAudio
  <2>1. PICK voice, transcript :
          /\ voice.concept = params.blueprint
          /\ c = [cut EXCEPT !.voice = voice, !.transcript = transcript]
    <3>1. PICK voice : voice = [real |-> TRUE, take |-> loop.attempt,
                                concept |-> params.blueprint]
      OBVIOUS
    <3>2. voice.concept = params.blueprint
      BY <3>1
    <3>3. CASE cut' = [cut EXCEPT !.voice = voice]
      <4>1. PICK transcript : transcript = cut.transcript
        OBVIOUS
      <4>2. c = [cut EXCEPT !.voice = voice, !.transcript = transcript]
        BY <1>1, <1>2, <3>3, <4>1 DEF Fits, IsCut
      <4> QED BY <3>2, <4>2
    <3>4. CASE cut' = [cut EXCEPT !.voice = voice,
                                  !.transcript = [take |-> loop.attempt, edit |-> 0]]
      <4>1. PICK transcript : transcript = [take |-> loop.attempt, edit |-> 0]
        OBVIOUS
      <4>2. c = [cut EXCEPT !.voice = voice, !.transcript = transcript]
        BY <1>2, <3>4, <4>1, Zenon
      <4> QED BY <3>2, <4>2
    <3> QED BY <1>5, <3>1, <3>3, <3>4, Zenon DEF RegenerateAudio
  <2>2. /\ IsCut(c) /\ c.clips = cut.clips /\ c.video = cut.video /\ c.voice = voice
    BY <1>1, <2>1 DEF Fits, IsCut
  <2> QED BY <1>1, <1>2, <2>1, <2>2 DEF Fits
<1>6. CASE RegenerateClip
  <2>1. PICK scene : scene = Head(loop.steps).scene
    OBVIOUS
  <2>2. PICK clips : clips = Refilmed(scene)
    OBVIOUS
  <2>3. Shows(clips, g.clips)
    BY <1>1, <2>2, RefilmedShows DEF Fits
  <2>4. CASE cut' = [cut EXCEPT !.clips = clips, !.video = clips]
    <3>1. IsCut(c) /\ c.clips = clips /\ c.video = clips /\ c.voice = cut.voice
      BY <1>1, <1>2, <2>4 DEF Fits, IsCut
    <3> QED BY <1>1, <1>2, <2>3, <3>1 DEF Fits
  <2>5. CASE cut' = [cut EXCEPT !.clips = clips]
    <3>1. IsCut(c) /\ c.clips = clips /\ c.video = cut.video /\ c.voice = cut.voice
      BY <1>1, <1>2, <2>5 DEF Fits, IsCut
    <3> QED BY <1>1, <1>2, <2>3, <3>1 DEF Fits
  <2> QED BY <1>3, <1>6, <2>1, <2>2, <2>4, <2>5, Zenon DEF RegenerateClip
<1> QED BY <1>4, <1>5, <1>6

LEMMA LoopStepFits ==
  ASSUME LoopInv, NEW g, NEW j, LoopFits(g, j),
         BothEscalated(j) \/ params.blueprint = g.version, LoopStep
  PROVE  /\ params' = params /\ Fits(cut', g, j)
         /\ loop'.attempt > 1 \/ loop'.pc = "repair" => Fits(loop'.preRepair, g, j)
         /\ loop'.pc = "passed" => Passes(loop'.operative)
<1>1. CASE FinalizeSkipped \/ Finalize \/ LoopThrows
  <2>1. PICK pc : pc # "passed" /\ pc # "repair" /\ loop' = [loop EXCEPT !.pc = pc]
    BY <1>1 DEF FinalizeSkipped, Finalize, LoopThrows
  <2>2. /\ params' = params /\ cut' = cut /\ loop'.attempt = loop.attempt
        /\ loop'.preRepair = loop.preRepair /\ loop'.pc = pc
    BY <1>1, <2>1 DEF FinalizeSkipped, Finalize, LoopThrows, LoopInv, IsLoop
  <2> QED BY <2>1, <2>2 DEF LoopFits
<1>2. CASE JudgeVideo
  BY <1>2, JudgeFits
<1>3. CASE RepairSubtitles \/ RegenerateAudio \/ RegenerateClip
  <2>1. Fits(cut', g, j)
    BY <1>3, RepairFits
  <2>2. loop.pc = "repair" /\ \E applied : EndStep(applied)
    BY <1>3 DEF RepairSubtitles, RegenerateAudio, RegenerateClip, NextStep
  <2>3. /\ params' = params /\ loop'.preRepair = loop.preRepair /\ loop'.pc = "repair"
    BY <2>2 DEF EndStep, LoopInv, IsLoop
  <2> QED BY <2>1, <2>2, <2>3 DEF LoopFits
<1>4. CASE EndRepairs
  <2>1. /\ params' = params /\ cut' = cut /\ loop'.preRepair = loop.preRepair
        /\ loop.pc = "repair" /\ loop'.pc \in {"exhausted", "finalize"}
    BY <1>4 DEF EndRepairs, LoopInv, IsLoop
  <2> QED BY <2>1 DEF LoopFits
<1> QED BY <1>1, <1>2, <1>3, <1>4 DEF LoopStep


\* What the worker goes back to, and what the loop has of it.
DeliveryInv ==
  /\ LoopInv /\ ApprovedInv
  /\ job.pc \in {"idle", "generation"} => ~job.conceptEscalated /\ gen.mode # "storyboard"
  /\ job.pc \in {"loop", "escalation"} =>
       /\ job.conceptEscalated \/ job.blueprint.concept = gen.version
       /\ gen.mode = "storyboard" =>
            job.storyboardEscalated /\ gen.blueprint = job.blueprint
  /\ job.pc = "escalation" => job.conceptEscalated \/ gen.mode = "storyboard"
  /\ job.pc = "loop" => LoopFits(gen, job)
  /\ job.pc = "delivered" => gen.pc = "produced"
  /\ DeliveredIsComplete

\* The loop speaks from a blueprint of the concept in force, unless both levels escalated.
LEMMA LoopBlueprint ==
  ASSUME DeliveryInv, job.pc = "loop"
  PROVE  BothEscalated(job) \/ params.blueprint = gen.version
<1>1. gen.pc = "produced" /\ Matching(gen) /\ params.blueprint = gen.blueprint.concept
  BY DEF DeliveryInv, ApprovedInv, Approved, LoopFits
<1>2. CASE gen.mode = "storyboard"
  BY <1>1, <1>2 DEF DeliveryInv, BothEscalated
<1>3. CASE gen.mode # "storyboard"
  BY <1>1, <1>3 DEF Matching, AfterBlueprint, AfterCreativeGate
<1> QED BY <1>2, <1>3

LEMMA TakesShow ==
  ASSUME NEW clips, NEW k \in Nat, IsRow(clips, k)
  PROVE  Shows(Takes(clips), clips)
<1> DEFINE takes == Takes(clips)
<1>1. DOMAIN clips = 1..k
  BY DEF IsRow
<1>2. takes \in [1..k -> {takes[i] : i \in 1..k}] /\ \A i \in 1..k : takes[i].scene = clips[i]
  BY <1>1 DEF Takes
<1>3. IsRow(takes, k)
  <2>1. PICK S : takes \in [1..k -> S]
    BY <1>2
  <2> HIDE DEF takes
  <2> QED BY ONLY k \in Nat, <2>1, FunctionIsRow
<1> HIDE DEF takes
<1>4. Shows(takes, clips)
  BY <1>2, <1>3 DEF Shows
<1> QED BY <1>4 DEF takes

\* run() is given what was filmed.
LEMMA EnterFits ==
  ASSUME DeliveryInv, EnterLoop, NEW j
  PROVE  /\ params'.blueprint = gen.blueprint.concept /\ Fits(cut', gen, j)
         /\ loop'.attempt = 1 /\ loop'.pc = "finalize"
<1>1. /\ gen.pc = "produced" /\ Matching(gen) /\ params' = LoopParams /\ cut' = RawCut
      /\ loop' = [IdleLoop EXCEPT !.pc = "finalize"]
  BY DEF EnterLoop, StartLoop, DeliveryInv, ApprovedInv, Approved
<1>2. params'.blueprint = gen.blueprint.concept
  BY <1>1 DEF LoopParams
<1>3. loop'.attempt = 1 /\ loop'.pc = "finalize"
  BY <1>1 DEF IdleLoop
<1>4. ClipsOf(gen.clips, gen.plan) /\ gen.voice.concept = gen.version
  BY <1>1 DEF Matching, PastPreFlight, AfterBlueprint, AfterCreativeGate
<1>5. PICK takes : takes = Takes(gen.clips) /\ Shows(takes, gen.clips)
  BY <1>4, TakesShow DEF ClipsOf
<1>6. PICK c : c = cut'
  OBVIOUS
<1>7. /\ IsCut(c) /\ c.clips = takes /\ c.video = takes
      /\ c.voice.concept = gen.voice.concept
  BY <1>1, <1>5, <1>6 DEF RawCut, IsCut
<1>8. Fits(c, gen, j)
  BY <1>4, <1>5, <1>7 DEF Fits
<1> QED BY <1>2, <1>3, <1>6, <1>8

\* The delivery gate compares what was filmed with what was planned.
LEMMA DeliverCompletes ==
  ASSUME DeliveryInv, Deliver
  PROVE  DeliveredIsComplete'
<1>1. /\ job.pc = "loop" /\ loop.pc = "passed" /\ gen' = gen /\ cut' = cut /\ loop' = loop
      /\ cut = loop.judged
  BY DEF Deliver, DeliveryInv, LoopInv, loopVars
<1>2. /\ Fits(cut, gen, job) /\ Passes(loop.operative)
  BY <1>1 DEF DeliveryInv, LoopFits
<1>3. PICK pc : pc = IF Gate(loop.operative, cut.transcript) THEN "delivered" ELSE "threw"
  OBVIOUS
<1>4. job' = [job EXCEPT !.trace = "PASSED", !.asset = cut.video, !.pc = pc]
  BY <1>3, Zenon DEF Deliver
<1>5. /\ job'.pc = pc /\ job'.asset = cut.video
      /\ job'.storyboardEscalated = job.storyboardEscalated
      /\ job'.conceptEscalated = job.conceptEscalated
  BY <1>4 DEF DeliveryInv, ApprovedInv, IsJob
<1>6. SUFFICES ASSUME pc = "delivered" PROVE DeliveredIsComplete'
  BY <1>5 DEF DeliveredIsComplete
<1>7. /\ cut.transcript # NoTranscript
      /\ ~(Len(gen.plan) > 0 /\ Len(gen.clips) < Len(gen.plan))
  BY <1>3, <1>6 DEF Gate, Deliverable
<1>8. /\ ClipsOf(gen.clips, gen.plan) /\ FilmablePlan(gen.plan)
  BY <1>1 DEF DeliveryInv, ApprovedInv, Approved, Matching, PastPreFlight
<1>9. PICK n \in 2..5 : DOMAIN gen.plan = 1..n /\ Len(gen.plan) = n
  BY <1>8 DEF FilmablePlan, IsRow
<1>10. PICK k \in Nat : DOMAIN gen.clips = 1..k /\ Len(gen.clips) = k
  BY <1>8 DEF ClipsOf, IsRow
<1>11. Len(gen.clips) = n /\ DOMAIN gen.clips = 1..n
  BY <1>7, <1>8, <1>9, <1>10 DEF ClipsOf
<1>12. /\ DOMAIN cut.video = 1..n /\ Len(cut.video) = n
       /\ \A i \in 1..n : cut.video[i].scene = gen.clips[i]
  BY <1>2, <1>11 DEF Fits, Shows, IsRow
<1>13. \A s \in ToSet(Scenes(gen.plan)) : \E i \in DOMAIN cut.video : cut.video[i].scene = s
  <2> SUFFICES ASSUME NEW s \in ToSet(Scenes(gen.plan))
               PROVE  \E i \in DOMAIN cut.video : cut.video[i].scene = s
    OBVIOUS
  <2>1. PICK i \in DOMAIN gen.plan : s = gen.plan[i].scene
    BY DEF ToSet, Scenes
  <2>2. PICK m \in DOMAIN gen.clips : gen.clips[m] = gen.plan[i].scene
    BY <1>8, <1>9, <1>11 DEF ClipsOf
  <2> QED BY <1>11, <1>12, <2>1, <2>2
<1>14. ~BothEscalated(job) => cut.voice.concept = gen.version
  BY <1>2 DEF Fits
<1> QED BY <1>1, <1>2, <1>5, <1>7, <1>9, <1>12, <1>13, <1>14
        DEF DeliveredIsComplete, Passes, BothEscalated


\* The steps before the loop, and those of a generation that goes on.
LEMMA GenerationKeepsDelivery ==
  ASSUME DeliveryInv, LoopInv', ApprovedInv', StartJob \/ Generate
  PROVE  DeliveryInv'
<1>1. CASE StartJob
  <2>1. job.pc = "idle" /\ job' = [job EXCEPT !.pc = "generation"]
    BY <1>1 DEF StartJob
  <2>2. job'.pc = "generation" /\ job'.conceptEscalated = job.conceptEscalated
    BY <2>1 DEF DeliveryInv, ApprovedInv, IsJob
  <2>3. gen'.mode = gen.mode
    BY <1>1 DEF StartJob, StartGeneration, DeliveryInv, ApprovedInv, Approved, IsGeneration
  <2> QED BY <2>1, <2>2, <2>3 DEF DeliveryInv, DeliveredIsComplete
<1>2. CASE Generate
  <2>1. Keeps(gen') /\ UNCHANGED <<loopVars, job>>
    BY <1>2, PipelineApproved DEF Generate, DeliveryInv, ApprovedInv
  <2>2. PICK h : h = gen'
    OBVIOUS
  <2>3. /\ h.mode = gen.mode
        /\ gen.mode = "storyboard" \/ gen.pc = "produced" =>
             h.version = gen.version /\ h.blueprint = gen.blueprint
        /\ gen.pc = "produced" =>
             h.pc = "produced" /\ h.clips = gen.clips /\ h.plan = gen.plan
    BY <2>1, <2>2 DEF Keeps
  <2>4. /\ job' = job /\ params' = params /\ cut' = cut /\ loop' = loop
    BY <2>1 DEF loopVars
  <2>5. CASE job.pc \in {"loop", "delivered"}
    <3>1. gen.pc = "produced"
      BY <2>5 DEF DeliveryInv, ApprovedInv
    <3>2. /\ h.version = gen.version /\ h.blueprint = gen.blueprint /\ h.pc = "produced"
          /\ h.clips = gen.clips /\ h.plan = gen.plan
      BY <2>3, <3>1
    <3>3. job.pc = "loop" => LoopFits(gen, job)'
      BY <2>2, <2>4, <3>2 DEF DeliveryInv, LoopFits, Fits
    <3>4. DeliveredIsComplete'
      BY <2>2, <2>4, <3>2 DEF DeliveryInv, DeliveredIsComplete
    <3> QED BY <2>2, <2>3, <2>4, <2>5, <3>2, <3>3, <3>4 DEF DeliveryInv
  <2>6. CASE job.pc = "escalation"
    <3>1. job.conceptEscalated \/ job.blueprint.concept = h.version
      BY <2>3, <2>6 DEF DeliveryInv
    <3>2. h.mode = "storyboard" => job.storyboardEscalated /\ h.blueprint = job.blueprint
      BY <2>3, <2>6 DEF DeliveryInv
    <3> QED BY <2>2, <2>3, <2>4, <2>6, <3>1, <3>2 DEF DeliveryInv, DeliveredIsComplete
  <2>7. CASE job.pc \notin {"loop", "delivered", "escalation"}
    BY <2>2, <2>3, <2>4, <2>7 DEF DeliveryInv, DeliveredIsComplete
  <2> QED BY <2>5, <2>6, <2>7
<1> QED BY <1>1, <1>2

LEMMA LoopKeepsDelivery ==
  ASSUME DeliveryInv, LoopInv', ApprovedInv', EnterLoop \/ RunLoop
  PROVE  DeliveryInv'
<1>1. CASE EnterLoop
  <2>1. PICK blueprint :
          blueprint = IF job.pc = "generation" THEN gen.blueprint ELSE job.blueprint
    OBVIOUS
  <2>2. job' = [job EXCEPT !.pc = "loop", !.blueprint = blueprint]
    BY <1>1, <2>1 DEF EnterLoop, DeliveryInv, ApprovedInv, IsJob
  <2>3. PICK j : j = job'
    OBVIOUS
  <2>4. /\ j.pc = "loop" /\ j.blueprint = blueprint
        /\ j.conceptEscalated = job.conceptEscalated
        /\ j.storyboardEscalated = job.storyboardEscalated
    BY <2>2, <2>3 DEF DeliveryInv, ApprovedInv, IsJob
  <2>5. gen' = gen /\ gen.pc = "produced" /\ job.pc \in {"generation", "escalation"}
    BY <1>1 DEF EnterLoop
  <2>6. /\ params'.blueprint = gen.blueprint.concept /\ Fits(cut', gen, j)
        /\ loop'.attempt = 1 /\ loop'.pc = "finalize"
    BY <1>1, EnterFits
  <2>7. LoopFits(gen, job)'
    BY <2>3, <2>5, <2>6 DEF LoopFits
  <2>8. CASE job.pc = "generation"
    <3>1. gen.mode # "storyboard" /\ gen.blueprint.concept = gen.version
      BY <2>5, <2>8 DEF DeliveryInv, ApprovedInv, Approved, Matching, AfterBlueprint,
                        AfterCreativeGate
    <3> QED BY <2>1, <2>3, <2>4, <2>5, <2>7, <2>8, <3>1 DEF DeliveryInv, DeliveredIsComplete
  <2>9. CASE job.pc = "escalation"
    <3>1. blueprint = job.blueprint
      BY <2>1, <2>9
    <3> QED BY <2>3, <2>4, <2>5, <2>7, <2>9, <3>1 DEF DeliveryInv, DeliveredIsComplete
  <2> QED BY <2>5, <2>8, <2>9
<1>2. CASE RunLoop
  <2>1. job.pc = "loop" /\ LoopStep /\ gen' = gen /\ job' = job
    BY <1>2 DEF RunLoop
  <2>2. /\ params' = params /\ Fits(cut', gen, job)
        /\ loop'.attempt > 1 \/ loop'.pc = "repair" => Fits(loop'.preRepair, gen, job)
        /\ loop'.pc = "passed" => Passes(loop'.operative)
    BY <2>1, LoopBlueprint, LoopStepFits DEF DeliveryInv
  <2>3. LoopFits(gen, job)'
    BY <2>1, <2>2 DEF LoopFits, DeliveryInv
  <2> QED BY <2>1, <2>3 DEF DeliveryInv, DeliveredIsComplete
<1> QED BY <1>1, <1>2

LEMMA EscalationKeepsDelivery ==
  ASSUME DeliveryInv, LoopInv', ApprovedInv', EscalateStoryboard \/ EscalateConcept
  PROVE  DeliveryInv'
<1>1. PICK h : h = gen'
  OBVIOUS
<1>2. CASE EscalateStoryboard
  <2>1. h = [gen EXCEPT !.pc = "shots", !.mode = "storyboard", !.blueprint = job.blueprint,
                        !.plan = <<>>, !.clips = <<>>, !.quality = <<>>]
    BY <1>1, <1>2 DEF EscalateStoryboard, RegenerateStoryboard
  <2>2. h.mode = "storyboard" /\ h.blueprint = job.blueprint /\ h.version = gen.version
    BY <2>1 DEF DeliveryInv, ApprovedInv, Approved, IsGeneration
  <2>3. /\ job'.pc = "escalation" /\ job'.storyboardEscalated
        /\ job'.conceptEscalated = job.conceptEscalated /\ job'.blueprint = job.blueprint
        /\ job.pc = "loop"
    BY <1>2 DEF EscalateStoryboard, DeliveryInv, ApprovedInv, IsJob
  <2> QED BY <1>1, <2>2, <2>3 DEF DeliveryInv, DeliveredIsComplete
<1>3. CASE EscalateConcept
  <2>1. h = [gen EXCEPT !.pc = "concept", !.mode = "concept",
                        !.plan = <<>>, !.clips = <<>>, !.quality = <<>>]
    BY <1>1, <1>3 DEF EscalateConcept, RegenerateConcept
  <2>2. h.mode = "concept"
    BY <2>1 DEF DeliveryInv, ApprovedInv, Approved, IsGeneration
  <2>3. job'.pc = "escalation" /\ job'.conceptEscalated
    BY <1>3 DEF EscalateConcept, DeliveryInv, ApprovedInv, IsJob
  <2> QED BY <1>1, <2>2, <2>3 DEF DeliveryInv, DeliveredIsComplete
<1> QED BY <1>2, <1>3

LEMMA EndingKeepsDelivery ==
  ASSUME DeliveryInv, LoopInv', ApprovedInv',
         Fails \/ GiveUp \/ RecordFails \/ WithoutVideo \/ Deliver \/ DeliverRaw
  PROVE  DeliveryInv'
<1>1. CASE Fails \/ GiveUp \/ RecordFails
  <2>1. PICK trace : Abandon(trace)
    BY <1>1 DEF Fails, GiveUp, RecordFails
  <2>2. job'.pc = "threw"
    BY <2>1 DEF Abandon, IdleJob
  <2> QED BY <2>2 DEF DeliveryInv, DeliveredIsComplete
<1>2. CASE WithoutVideo \/ DeliverRaw
  <2>1. job'.pc \in {"noVideo", "deliveredRaw"}
    BY <1>2 DEF WithoutVideo, DeliverRaw, DeliveryInv, ApprovedInv, IsJob
  <2> QED BY <2>1 DEF DeliveryInv, DeliveredIsComplete
<1>3. CASE Deliver
  <2>1. gen' = gen /\ gen.pc = "produced"
    BY <1>3 DEF Deliver, DeliveryInv, ApprovedInv
  <2>2. job'.pc \in {"delivered", "threw"}
    BY <1>3 DEF Deliver, DeliveryInv, ApprovedInv, IsJob
  <2> QED BY <1>3, <2>1, <2>2, DeliverCompletes DEF DeliveryInv
<1> QED BY <1>1, <1>2, <1>3

LEMMA Next_Delivery ==
  ASSUME DeliveryInv, [Next]_vars
  PROVE  DeliveryInv'
<1>1. LoopInv' /\ ApprovedInv'
  BY Next_Inv, Next_Approved DEF DeliveryInv
<1>2. CASE UNCHANGED vars
  <2>1. gen' = gen /\ job' = job /\ params' = params /\ cut' = cut /\ loop' = loop
    BY <1>2 DEF vars, loopVars
  <2> QED BY <1>1, <2>1 DEF DeliveryInv, DeliveredIsComplete, LoopFits
<1> QED BY <1>1, <1>2, GenerationKeepsDelivery, LoopKeepsDelivery, EscalationKeepsDelivery,
           EndingKeepsDelivery DEF Next

\* Whatever was undone, refilmed or escalated on the way: what is delivered as finished
\* passed the judge, has subtitles, shows every scene of the plan, and speaks of what it
\* shows unless both levels escalated (final-delivery-gate.ts:46,
\* campaign-generation.processor.ts:716, 770).
THEOREM DeliveriesAreComplete == Spec => []DeliveredIsComplete
<1>1. Init => DeliveryInv
  <2> SUFFICES ASSUME Init PROVE DeliveryInv
    OBVIOUS
  <2>1. LoopInv /\ ApprovedInv
    <3>1. gen = NoGeneration /\ job = IdleJob
      BY DEF Init, PipelineInit
    <3>2. IsJob(job) /\ job.pc = "idle"
      BY <3>1 DEF IdleJob, IsJob
    <3> QED BY <3>1, <3>2, LoopInit_Inv, NoGenerationApproved DEF ApprovedInv, Init
  <2>2. job.pc = "idle" /\ ~job.conceptEscalated /\ gen.mode = "campaign"
    BY DEF Init, PipelineInit, IdleJob, NoGeneration
  <2> QED BY <2>1, <2>2 DEF DeliveryInv, DeliveredIsComplete
<1>2. DeliveryInv /\ [Next]_vars => DeliveryInv'
  BY Next_Delivery
<1>3. DeliveryInv => DeliveredIsComplete
  BY DEF DeliveryInv
<1> QED BY <1>1, <1>2, <1>3, PTL DEF Spec

-----------------------------------------------------------------------------
(* The repairs of one attempt are made within its budget, and none of them is one *)
(* that made things worse before.                                            *)

LEMMA PlaceIs ==
  /\ Len(AllCriteria) = 19
  /\ \A c \in JudgeCriterionName :
       Position(c) \in 1..19 /\ AllCriteria[Position(c)] = c
<1>1. DOMAIN MeasuredCriteria = 1..10 /\ DOMAIN TextCriterionNames = 1..9
  BY DEF MeasuredCriteria, TextCriterionNames
<1>2. /\ Len(AllCriteria) = 19 /\ DOMAIN AllCriteria = 1..19
      /\ \A i \in 1..10 : AllCriteria[i] = MeasuredCriteria[i]
      /\ \A i \in 1..9 : AllCriteria[10 + i] = TextCriterionNames[i]
  BY DEF AllCriteria, MeasuredCriteria, TextCriterionNames
<1>3. ASSUME NEW c \in JudgeCriterionName
      PROVE  \E i \in DOMAIN AllCriteria : AllCriteria[i] = c
  <2>1. CASE \E i \in 1..10 : MeasuredCriteria[i] = c
    BY <1>2, <2>1
  <2>2. ASSUME NEW i \in 1..9, TextCriterionNames[i] = c
        PROVE  \E k \in DOMAIN AllCriteria : AllCriteria[k] = c
    <3>1. AllCriteria[10 + i] = c /\ 10 + i \in 1..19
      BY <1>2, <2>2
    <3> QED BY <1>2, <3>1
  <2> QED BY <1>1, <2>1, <2>2 DEF JudgeCriterionName
<1> QED BY <1>2, <1>3 DEF Position

LEMMA PriorityIsInt ==
  ASSUME NEW c \in JudgeCriterionName, NEW score
  PROVE  Priority(c, score) \in Int
<1>1. WEIGHTS[c] \in Int
  BY DEF WEIGHTS, JudgeCriterionName, MeasuredCriteria, TextCriterionNames
<1>2. [CRITIQUE |-> 3, IMPORTANT |-> 2, MINEUR |-> 1][Severity(score)] \in Int
  BY DEF Severity
<1>3. (IF c \in ADVERTISING_EFFECTIVENESS_CRITERIA THEN 3 ELSE 2) \in Int
  OBVIOUS
<1> QED BY <1>1, <1>2, <1>3 DEF Priority

LEMMA CriteriaFinite == IsFiniteSet(JudgeCriterionName)
<1> DEFINE place == [c \in JudgeCriterionName |-> Position(c)]
<1>1. IsFiniteSet(1..19)
  <2>1. 1 \in Int /\ 19 \in Int
    OBVIOUS
  <2> QED BY <2>1, FS_Interval
<1>2. /\ place \in [JudgeCriterionName -> 1..19]
      /\ \A c, d \in JudgeCriterionName : place[c] = place[d] => c = d
  BY PlaceIs
<1> HIDE DEF place
<1>3. place \in Injection(JudgeCriterionName, 1..19)
  BY <1>2 DEF Injection, IsInjective
<1> QED BY <1>1, <1>3, FS_Injection

\* The order of the repairs is one of all of them.
LEMMA RankedAre ==
  ASSUME NEW group \in SUBSET JudgeCriterionName, NEW criteria
  PROVE  /\ Cardinality(group) \in Nat
         /\ ByPriority(group, criteria) \in [1..Cardinality(group) -> group]
<1> DEFINE priority(c) == Priority(c, criteria[c].score)
           rank == [c \in group |-> Position(c) - Len(AllCriteria) * priority(c)]
<1>1. IsFiniteSet(group) /\ Cardinality(group) \in Nat
  BY CriteriaFinite, FS_Subset, FS_CardinalityType
<1>2. \A c \in group : priority(c) \in Int /\ Position(c) \in 1..19
                       /\ AllCriteria[Position(c)] = c
                       /\ rank[c] = Position(c) - 19 * priority(c)
  BY PlaceIs, PriorityIsInt
<1> HIDE DEF priority
<1>3. ByPriority(group, criteria) = InOrder(group, rank)
  BY DEF ByPriority, priority
<1> HIDE DEF rank
<1>4. \A c \in group : rank[c] \in Int
  BY <1>2
<1>5. ASSUME NEW c \in group, NEW d \in group, rank[c] = rank[d]
      PROVE  c = d
  <2>1. PICK p \in 1..19, q \in 1..19 : p = Position(c) /\ q = Position(d)
    BY <1>2
  <2>2. PICK a \in Int, b \in Int : a = priority(c) /\ b = priority(d)
    BY <1>2
  <2>3. p - 19 * a = q - 19 * b
    BY <1>2, <1>5, <2>1, <2>2
  <2>4. p = q
    BY <2>3
  <2> QED BY <1>2, <2>1, <2>4
<1>6. InOrder(group, rank) \in [1..Cardinality(group) -> group]
  BY <1>1, <1>4, <1>5, InOrderIs
<1> QED BY <1>1, <1>3, <1>6

\* No step of the list is one that made a criterion worse on its scene.
Allowed(steps, past) ==
  \E S : /\ steps \in Seq(S)
         /\ \A s \in S : \A c \in s.criteria : ~ShouldSkip(past, c, s.scene)

LEMMA StepsAllowed ==
  ASSUME NEW criteria, NEW past, NEW quality, NEW scenes
  PROVE  Allowed(RepairSteps(criteria, past, quality, scenes), past)
<1> DEFINE group(strategy) == Repairable(criteria, strategy, past)
           whole(strategy) == IF group(strategy) = {} THEN <<>>
                              ELSE <<Step(strategy, group(strategy), NoScene)>>
           target(c) == TargetScene(c, criteria, past, quality, scenes)
           filmed == {c \in group("CLIP_REGEN") : target(c) # NoScene}
           ranked == ByPriority(filmed, criteria)
           regens == [i \in 1..Cardinality(filmed) |->
                        Step("CLIP_REGEN", {ranked[i]}, target(ranked[i]))]
           S == {Step(t, group(t), NoScene) : t \in {"SUBTITLE_ONLY", "AUDIO_REGEN"}}
                  \cup {Step("CLIP_REGEN", {c}, target(c)) : c \in filmed}
<1>1. RepairSteps(criteria, past, quality, scenes)
        = whole("SUBTITLE_ONLY") \o whole("AUDIO_REGEN") \o regens
  BY DEF RepairSteps
<1>2. \A t \in {"SUBTITLE_ONLY", "AUDIO_REGEN"} : \A c \in group(t) : ~ShouldSkip(past, c, NoScene)
  BY DEF Repairable
<1>3. \A c \in filmed : ~ShouldSkip(past, c, target(c))
  BY DEF TargetScene
<1>4. filmed \in SUBSET JudgeCriterionName
  BY DEF Repairable
<1> HIDE DEF group, target, filmed
<1>5. \A s \in S : \A c \in s.criteria : ~ShouldSkip(past, c, s.scene)
  BY <1>2, <1>3 DEF Step
<1>6. \A t \in {"SUBTITLE_ONLY", "AUDIO_REGEN"} : Step(t, group(t), NoScene) \in S
  OBVIOUS
<1>7. \A c \in filmed : Step("CLIP_REGEN", {c}, target(c)) \in S
  OBVIOUS
<1> HIDE DEF S
<1>8. whole("SUBTITLE_ONLY") \in Seq(S) /\ whole("AUDIO_REGEN") \in Seq(S)
  BY <1>6
<1>9. PICK n \in Nat : n = Cardinality(filmed) /\ ranked \in [1..n -> filmed]
  BY <1>4, RankedAre
<1> HIDE DEF ranked
<1>10. regens \in [1..n -> S]
  BY <1>7, <1>9
<1> HIDE DEF regens, whole
<1>11. regens \in Seq(S)
  BY <1>10, SeqDef
<1>12. whole("SUBTITLE_ONLY") \o whole("AUDIO_REGEN") \o regens \in Seq(S)
  BY <1>8, <1>11, ConcatProperties
<1> QED BY <1>1, <1>5, <1>12 DEF Allowed

\* The last of a finite set of integers.
LEMMA MaxIs ==
  ASSUME NEW S \in SUBSET Int, IsFiniteSet(S), S # {}
  PROVE  Max(S) \in S
<1> DEFINE above(x) == {y \in S : y > x}
           F == {above(x) : x \in S}
<1>1. F # {}
  OBVIOUS
<1>2. PICK T \in F : \A U \in F : U \subseteq T => U = T
  <2>1. PICK R, G : R = S /\ G = F
    OBVIOUS
  <2>2. G \in SUBSET SUBSET R /\ G # {} /\ IsFiniteSet(R)
    BY <1>1, <2>1
  <2>3. \E T \in G : \A U \in G : U \subseteq T => U = T
    BY ONLY <2>2, LeastSubset
  <2> QED BY <2>1, <2>3
<1>3. PICK x \in S : T = above(x)
  OBVIOUS
<1>4. \A y \in S : x >= y
  <2> SUFFICES ASSUME NEW y \in S, y > x PROVE FALSE
    OBVIOUS
  <2>1. above(y) \in F /\ y \in above(x) /\ y \notin above(y)
    OBVIOUS
  <2>2. above(y) \subseteq above(x)
    <3> SUFFICES ASSUME NEW z \in S, z > y PROVE z > x
      OBVIOUS
    <3>1. x \in Int /\ y \in Int /\ z \in Int
      OBVIOUS
    <3> QED BY <3>1
  <2> QED BY <1>2, <1>3, <2>1, <2>2
<1> QED BY <1>4 DEF Max

LEMMA RepairsCounted ==
  ASSUME NEW credits, NEW scenes
  PROVE  AffordableRepairs(credits, scenes, MAX_REPAIR_ATTEMPTS, PLAN) \in Int
<1> DEFINE paid == {n \in 0..MAX_REPAIR_ATTEMPTS : VideoCost(scenes, n, PLAN) <= credits}
<1>1. MAX_REPAIR_ATTEMPTS \in Nat
  BY PipelineAssumption
<1>2. IsFiniteSet(0..MAX_REPAIR_ATTEMPTS)
  <2>1. 0 \in Int /\ MAX_REPAIR_ATTEMPTS \in Int
    BY <1>1
  <2> QED BY <2>1, FS_Interval
<1>3. paid \in SUBSET (0..MAX_REPAIR_ATTEMPTS)
  OBVIOUS
<1> HIDE DEF paid
<1>4. IsFiniteSet({-1} \cup paid)
  BY <1>2, <1>3, FS_Subset, FS_Singleton, FS_Union
<1>5. {-1} \cup paid \in SUBSET Int /\ {-1} \cup paid # {}
  BY <1>3
<1>6. Max({-1} \cup paid) \in Int
  BY <1>4, <1>5, MaxIs
<1> QED BY <1>6 DEF AffordableRepairs, paid

\* The budget of the repairs is a number, those of the loop are within it, and none of
\* those that are left is one that the history forbids.
WarrantedInv ==
  /\ LoopInv /\ ApprovedInv
  /\ gen.repairs \in Int /\ params.repairs \in Int
  /\ loop.pc = "repair" => loop.attempt <= params.repairs /\ Allowed(loop.steps, history)

\* What one step applies.
AppliesWarranted ==
  \A r \in loop'.applied \ loop.applied :
    /\ loop.attempt <= params.repairs
    /\ ~\E e \in history : e.criterion = r.criterion /\ e.scene = r.scene
                           /\ e.outcome = "ECHEC"

LEMMA PipelineKeepsBudget ==
  ASSUME IsGeneration(gen), gen.repairs \in Int, PipelineStep
  PROVE  gen'.repairs \in Int
<1>1. ASSUME AnalyseProduct \/ ReuseConcept \/ GenerateConcept
      PROVE  gen'.repairs = gen.repairs
  BY <1>1 DEF AnalyseProduct, ReuseConcept, GenerateConcept, IsGeneration
<1>2. ASSUME EvaluateCreativeGate PROVE gen'.repairs = gen.repairs
  BY <1>2 DEF EvaluateCreativeGate, IsGeneration
<1>3. ASSUME GenerateBlueprint PROVE gen'.repairs = gen.repairs
  BY <1>3 DEF GenerateBlueprint, IsGeneration
<1>4. ASSUME NarrationSettles PROVE gen'.repairs = gen.repairs
  BY <1>4 DEF NarrationSettles, IsGeneration
<1>5. ASSUME AwaitNarration PROVE gen'.repairs = gen.repairs
  BY <1>5 DEF AwaitNarration, IsGeneration
<1>6. ASSUME ProduceCopies \/ CallFails PROVE gen'.repairs = gen.repairs
  BY <1>6 DEF ProduceCopies, CallFails, IsGeneration
<1>7. ASSUME CheckBeforeVideoLoop PROVE gen'.repairs \in Int
  <2>1. PICK credits \in CreditLevels, repairs \in Int :
          /\ repairs = AffordableRepairs(credits, gen.concept.scenes, MAX_REPAIR_ATTEMPTS, PLAN)
          /\ gen' = IF repairs < 0 THEN [gen EXCEPT !.pc = "threw"]
                    ELSE [gen EXCEPT !.pc = "shots", !.repairs = repairs]
    BY <1>7, RepairsCounted DEF CheckBeforeVideoLoop
  <2> QED BY <2>1 DEF IsGeneration
<1>8. ASSUME GenerateShotPlan PROVE gen'.repairs = gen.repairs
  BY <1>8 DEF GenerateShotPlan, IsGeneration
<1>9. ASSUME EvaluateStoryboardGate PROVE gen'.repairs = gen.repairs
  BY <1>9 DEF EvaluateStoryboardGate, IsGeneration
<1>10. ASSUME PreFlight PROVE gen'.repairs = gen.repairs
  BY <1>10 DEF PreFlight, IsGeneration
<1>11. ASSUME Film PROVE gen'.repairs = gen.repairs
  BY <1>11 DEF Film, IsGeneration
<1> QED BY <1>1, <1>2, <1>3, <1>4, <1>5, <1>6, <1>7, <1>8, <1>9, <1>10, <1>11
        DEF PipelineStep

\* A judgment draws up repairs only within the budget.
LEMMA JudgeWarranted ==
  ASSUME WarrantedInv, JudgeVideo
  PROVE  /\ params' = params /\ loop'.applied = {}
         /\ loop'.pc = "repair" =>
              loop'.attempt <= params.repairs /\ Allowed(loop'.steps, history')
<1>1. PICK judgment : Judge(judgment)
  BY DEF JudgeVideo
<1> DEFINE adopted == Adopt(judgment)
           passed == ~Reverts(judgment) /\ judgment.verdict = "PASS"
           past == HistoryAfter(judgment)
           steps == RepairSteps(adopted.operative.criteria, past, params.quality,
                                Range(params.plan))
<1>2. /\ params' = params /\ history' = past /\ IsLoop(loop)
      /\ loop' = [loop EXCEPT
          !.pc = IF passed THEN "passed" ELSE IF Over THEN "exhausted" ELSE "repair",
          !.operative = adopted.operative,
          !.best = adopted.best,
          !.judged = adopted.judged,
          !.preRepair = adopted.cut,
          !.steps = IF passed \/ Over THEN <<>> ELSE steps,
          !.pending = {}, !.applied = {}]
  BY <1>1 DEF Judge, WarrantedInv, LoopInv
<1>3. Allowed(steps, past)
  BY StepsAllowed
<1> HIDE DEF adopted, passed, past, steps
<1>4. /\ loop'.pc = IF passed THEN "passed" ELSE IF Over THEN "exhausted" ELSE "repair"
      /\ loop'.steps = IF passed \/ Over THEN <<>> ELSE steps
      /\ loop'.applied = {} /\ loop'.attempt = loop.attempt
  BY <1>2 DEF IsLoop
<1>5. ASSUME loop'.pc = "repair"
      PROVE  loop'.attempt <= params.repairs /\ Allowed(loop'.steps, history')
  <2>1. ~passed /\ ~Over
    BY <1>4, <1>5
  <2>2. loop.attempt \in Int /\ params.repairs \in Int
    BY DEF WarrantedInv, LoopInv
  <2> QED BY <1>2, <1>3, <1>4, <2>1, <2>2 DEF Over
<1> QED BY <1>2, <1>4, <1>5

\* A repair is the first of those that are left.
LEMMA RepairWarranted ==
  ASSUME WarrantedInv, NEW strategy, NextStep(strategy), NEW applied,
         applied \subseteq Applied(Head(loop.steps)), EndStep(applied)
  PROVE  /\ AppliesWarranted /\ params' = params /\ history' = history
         /\ loop'.attempt = loop.attempt /\ Allowed(loop'.steps, history)
         /\ loop.pc = "repair"
<1>1. PICK S : /\ loop.steps \in Seq(S)
               /\ \A s \in S : \A c \in s.criteria : ~ShouldSkip(history, c, s.scene)
  BY DEF WarrantedInv, Allowed, NextStep
<1>2. Head(loop.steps) \in S /\ Tail(loop.steps) \in Seq(S)
  BY <1>1 DEF NextStep
<1>3. /\ loop'.steps = Tail(loop.steps) /\ loop'.applied = loop.applied \cup applied
      /\ loop'.attempt = loop.attempt
  BY DEF EndStep, WarrantedInv, LoopInv, IsLoop
<1>4. Allowed(loop'.steps, history)
  BY <1>1, <1>2, <1>3 DEF Allowed
<1>5. AppliesWarranted
  <2> SUFFICES ASSUME NEW r \in applied
               PROVE  ~ShouldSkip(history, r.criterion, r.scene)
    BY <1>3 DEF AppliesWarranted, WarrantedInv, NextStep, ShouldSkip
  <2>1. PICK c \in Head(loop.steps).criteria :
          r = [criterion |-> c, scene |-> Head(loop.steps).scene]
    BY DEF Applied
  <2> QED BY <1>1, <1>2, <2>1
<1> QED BY <1>3, <1>4, <1>5 DEF EndStep, NextStep

LEMMA LoopStepWarranted ==
  ASSUME WarrantedInv, LoopStep
  PROVE  /\ AppliesWarranted /\ params' = params
         /\ loop'.pc = "repair" =>
              loop'.attempt <= params.repairs /\ Allowed(loop'.steps, history')
<1>1. CASE JudgeVideo
  BY <1>1, JudgeWarranted DEF AppliesWarranted
<1>2. CASE RepairSubtitles \/ RegenerateAudio \/ RegenerateClip
  <2>1. PICK strategy, applied :
          /\ NextStep(strategy) /\ EndStep(applied)
          /\ applied \subseteq Applied(Head(loop.steps))
    BY <1>2 DEF RepairSubtitles, RegenerateAudio, RegenerateClip
  <2> QED BY <2>1, RepairWarranted DEF WarrantedInv
<1>3. CASE FinalizeSkipped \/ Finalize \/ LoopThrows \/ EndRepairs
  <2>1. /\ loop'.applied = loop.applied /\ params' = params /\ loop'.pc # "repair"
    <3>1. CASE FinalizeSkipped \/ Finalize \/ LoopThrows
      BY <3>1 DEF FinalizeSkipped, Finalize, LoopThrows, WarrantedInv, LoopInv, IsLoop
    <3>2. CASE EndRepairs
      BY <3>2 DEF EndRepairs, WarrantedInv, LoopInv, IsLoop
    <3> QED BY <1>3, <3>1, <3>2
  <2> QED BY <2>1 DEF AppliesWarranted
<1> QED BY <1>1, <1>2, <1>3 DEF LoopStep

LEMMA Next_Warranted ==
  ASSUME WarrantedInv, [Next]_vars
  PROVE  WarrantedInv' /\ AppliesWarranted
<1>1. LoopInv' /\ ApprovedInv'
  BY Next_Inv, Next_Approved DEF WarrantedInv
<1>2. IsGeneration(gen)
  BY DEF WarrantedInv, ApprovedInv, Approved
<1>3. CASE StartJob \/ Generate \/ EscalateStoryboard \/ EscalateConcept
  <2>1. UNCHANGED loopVars
    BY <1>3 DEF StartJob, Generate, EscalateStoryboard, EscalateConcept
  <2>2. gen'.repairs \in Int
    <3>1. CASE Generate
      BY <1>2, <3>1, PipelineKeepsBudget DEF Generate, WarrantedInv
    <3>2. CASE StartJob
      BY <1>2, <3>2 DEF StartJob, StartGeneration, IsGeneration, WarrantedInv
    <3>3. CASE EscalateStoryboard \/ EscalateConcept
      BY <1>2, <3>3 DEF EscalateStoryboard, EscalateConcept, RegenerateStoryboard,
                        RegenerateConcept, IsGeneration, WarrantedInv
    <3> QED BY <1>3, <3>1, <3>2, <3>3
  <2> QED BY <1>1, <2>1, <2>2 DEF WarrantedInv, AppliesWarranted, loopVars
<1>4. CASE EnterLoop
  <2>1. /\ gen' = gen /\ params'.repairs = gen.repairs
        /\ loop'.pc = "finalize" /\ loop'.applied = {}
    BY <1>4 DEF EnterLoop, StartLoop, LoopParams, IdleLoop
  <2> QED BY <1>1, <2>1 DEF WarrantedInv, AppliesWarranted
<1>5. CASE RunLoop
  BY <1>1, <1>5, LoopStepWarranted DEF RunLoop, WarrantedInv
<1>6. CASE Fails \/ GiveUp \/ RecordFails
  <2>1. PICK trace : Abandon(trace)
    BY <1>6 DEF Fails, GiveUp, RecordFails
  <2>2. gen'.repairs = 0 /\ params'.repairs = 0 /\ loop'.pc = "idle" /\ loop'.applied = {}
    BY <2>1 DEF Abandon, NoGeneration, NoParams, IdleLoop
  <2> QED BY <1>1, <2>2 DEF WarrantedInv, AppliesWarranted
<1>7. CASE WithoutVideo \/ Deliver \/ DeliverRaw \/ UNCHANGED vars
  <2>1. gen' = gen /\ UNCHANGED loopVars
    BY <1>7 DEF WithoutVideo, Deliver, DeliverRaw, vars
  <2> QED BY <1>1, <2>1 DEF WarrantedInv, AppliesWarranted, loopVars
<1> QED BY <1>3, <1>4, <1>5, <1>6, <1>7 DEF Next

\* However often the loop judges, undoes and escalates: each repair is made within the
\* budget that the credits paid for, and none repeats one that made its criterion worse in
\* this run (video-quality-loop.service.ts:204, repair-history.ts:40).
THEOREM RepairsAlwaysWarranted == Spec => RepairsAreWarranted
<1>1. Init => WarrantedInv
  <2> SUFFICES ASSUME Init PROVE WarrantedInv
    OBVIOUS
  <2>1. /\ gen = NoGeneration /\ job = IdleJob /\ params = NoParams /\ loop = IdleLoop
    BY DEF Init, PipelineInit, LoopInit
  <2>2. IsJob(job) /\ job.pc = "idle"
    BY <2>1 DEF IdleJob, IsJob
  <2>3. LoopInv /\ ApprovedInv
    BY <2>1, <2>2, LoopInit_Inv, NoGenerationApproved DEF ApprovedInv, Init
  <2>4. gen.repairs = 0 /\ params.repairs = 0 /\ loop.pc = "idle"
    BY <2>1 DEF NoGeneration, NoParams, IdleLoop
  <2> QED BY <2>3, <2>4 DEF WarrantedInv
<1>2. WarrantedInv /\ [Next]_vars => WarrantedInv'
  BY Next_Warranted
<1>3. WarrantedInv /\ [Next]_vars => [AppliesWarranted]_vars
  BY Next_Warranted
<1> QED BY <1>1, <1>2, <1>3, PTL DEF Spec, RepairsAreWarranted, AppliesWarranted
================================================================================
