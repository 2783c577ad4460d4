---------------------------- MODULE Knowledge_proofs ----------------------------
(* What an organization knows stays true for every number of requests that write   *)
(* it at the same time, and whatever the other components do meanwhile.           *)
EXTENDS Knowledge, Requests_proofs, Sums, SequenceTheorems

\* What the requests of each component do.  An edit of a piece goes on at the memory.
MemoryOps == {"observe", "confirm", "dismiss", "promote", "correct", "resolve"}
StudioOps == {"create", "edit", "vary", "select", "archive"}
OptimizerOps == {"declare", "analyze", "review", "measure"}
ProductOps == {"profile"}
ReviewOps == {"moderate", "brandCheck"}

Learning == {"learn", "store", "scan", "compare", "record", "mark"}

\* Where several operations may be, only these are.
Fits(op, pc) ==
  /\ pc \in Learning => op \in {"observe", "edit", "correct"}
  /\ pc = "rules" => op \in {"edit", "vary"}
  /\ pc = "sync" => op \in {"analyze", "measure"}
Placed(x) == Fits(x.op, x.pc) /\ (x.op = "select" => x.user = "none")

PlacedInv == RequestsInv /\ \A r \in Requests : Placed(req[r])

Act(r, ops) == \E new : Moves(r, new) /\ Placed(new) /\ new.op \in ops

-----------------------------------------------------------------------------
LEMMA LeftIsPlaced ==
  ASSUME NEW x, IsRequest(x), Placed(x)
  PROVE  Placed(Left(x))
  BY DEF IsRequest, Left, NewRequest, Placed, Fits

LEMMA PlacedStep ==
  ASSUME PlacedInv, NEW r \in Requests, NEW new, Moves(r, new), Placed(new)
  PROVE  PlacedInv'
<1>1. /\ RequestsInv' /\ req'[r] = Left(new)
      /\ \A s \in Requests : s # r => req'[s] = req[s]
  BY MovesRequest DEF PlacedInv
<1>2. Placed(Left(new))
  BY LeftIsPlaced DEF Moves
<1>3. \A s \in Requests : Placed(req'[s])
  BY <1>1, <1>2 DEF PlacedInv
<1> QED BY <1>1, <1>3 DEF PlacedInv, Placed

LEMMA PlacedRest ==
  ASSUME PlacedInv, UNCHANGED requestVars
  PROVE  PlacedInv'
<1>1. RequestsInv'
  BY RequestsRest DEF PlacedInv
<1> QED BY <1>1 DEF PlacedInv, Placed, requestVars

LEMMA PlacedInit ==
  ASSUME RequestsInit
  PROVE  PlacedInv /\ \A r \in Requests : req[r].pc = "new" /\ req[r].op = "none"
  BY RequestsInitInv DEF PlacedInv, Placed, Fits, Learning

LEMMA CallActs ==
  ASSUME NEW r \in Requests, NEW d, Arrives(r, d), NEW new, Call(r, new),
         NEW ops, Started(new, ops), Placed(new)
  PROVE  Moves(r, new) /\ Act(r, ops)
  BY InOrder DEF Act, Moves, Started

LEMMA BecomesActs ==
  ASSUME NEW r \in Requests, req[r].pc \notin {"new"} \cup Over, NEW new, Becomes(r, new),
         NEW ops, Started(new, ops), new.op = req[r].op, Placed(new)
  PROVE  Moves(r, new) /\ Act(r, ops)
  BY DEF Act, Moves, Started

LEMMA GotoActs ==
  ASSUME PlacedInv, NEW r \in Requests, req[r].pc \notin {"new"} \cup Over,
         NEW ops, req[r].op \in ops, NEW pc, Goto(r, pc), pc # "new", Fits(req[r].op, pc)
  PROVE  Act(r, ops)
<1>1. PICK new : /\ Moves(r, new) /\ new.pc = pc /\ new.op = req[r].op
                 /\ new.user = req[r].user
  BY GoesOn DEF PlacedInv
<1>2. Placed(new)
  BY <1>1 DEF PlacedInv, Placed
<1> QED BY <1>1, <1>2 DEF Act

-----------------------------------------------------------------------------
(* The steps of each component.                                             *)

LEMMA OptimizerCalls ==
  ASSUME NEW r \in Requests,
         RecordConversion(r) \/ AnalyzeCampaign(r) \/ Review(r) \/ MeasureOutcome(r)
  PROVE  Act(r, OptimizerOps)
<1>1. \E x : Call(r, x) /\ Started(x, OptimizerOps) /\ Placed(x)
  <2>1. CASE RecordConversion(r)
    <3>1. PICK x : Call(r, x) /\ x = [NewRequest EXCEPT !.op = "declare", !.pc = "done"]
      BY <2>1 DEF RecordConversion
    <3>3. Started(x, OptimizerOps) /\ Placed(x)
      BY <3>1 DEF Started, IsRequest, NewRequest, Placed, Fits, Learning, OptimizerOps
    <3> QED BY <3>1, <3>3
  <2>2. CASE AnalyzeCampaign(r)
    <3>1. PICK x : /\ Call(r, x)
                   /\ x = [NewRequest EXCEPT !.op = "analyze", !.pc = "sync", !.level = 1]
      BY <2>2 DEF AnalyzeCampaign
    <3>3. Started(x, OptimizerOps) /\ Placed(x)
      BY <3>1 DEF Started, IsRequest, NewRequest, Placed, Fits, Learning, OptimizerOps
    <3> QED BY <3>1, <3>3
  <2>3. CASE Review(r)
    <3>1. PICK i, decision, x :
            /\ Call(r, x)
            /\ x = [NewRequest EXCEPT !.op = "review", !.seen = i, !.value = decision,
                                      !.pc = IF MayBeDecided(i) THEN "write" ELSE "refused"]
      BY <2>3 DEF Review
    <3>3. Started(x, OptimizerOps) /\ Placed(x)
      BY <3>1 DEF Started, IsRequest, NewRequest, Placed, Fits, Learning, OptimizerOps
    <3> QED BY <3>1, <3>3
  <2>4. CASE MeasureOutcome(r)
    <3>1. PICK i, x :
            /\ Call(r, x)
            /\ x = [NewRequest EXCEPT !.op = "measure", !.pc = "sync", !.level = 1, !.seen = i]
      BY <2>4 DEF MeasureOutcome
    <3>3. Started(x, OptimizerOps) /\ Placed(x)
      BY <3>1 DEF Started, IsRequest, NewRequest, Placed, Fits, Learning, OptimizerOps
    <3> QED BY <3>1, <3>3
  <2> QED BY <2>1, <2>2, <2>3, <2>4
<1>2. Arrives(r, "optimizer")
  BY DEF RecordConversion, AnalyzeCampaign, Review, MeasureOutcome
<1> QED BY <1>1, <1>2, CallActs

LEMMA FetchInsightsActs ==
  ASSUME PlacedInv, NEW r \in Requests, FetchInsights(r)
  PROVE  Act(r, OptimizerOps)
<1>1. PICK level, x : Becomes(r, x) /\ x = [req[r] EXCEPT !.level = level]
  BY DEF FetchInsights
<1>2. /\ req[r].pc = "sync" /\ req[r].op \in {"analyze", "measure"} /\ IsRequest(req[r])
  BY DEF FetchInsights, PlacedInv, RequestsInv, Placed, Fits
<1>3. Started(x, OptimizerOps) /\ x.op = req[r].op /\ Placed(x)
  BY <1>1, <1>2 DEF Started, IsRequest, Placed, Fits, Learning, OptimizerOps
<1> QED BY <1>1, <1>2, <1>3, BecomesActs DEF Over

LEMMA OptimizerGoesOn ==
  ASSUME PlacedInv, NEW r \in Requests,
         \/ AllWritten(r) \/ OptimizerFails(r) \/ AssertOptimizerRun(r) \/ NothingGenerated(r)
         \/ CreateRecommendation(r) \/ WriteReview(r) \/ WriteOutcome(r)
  PROVE  Act(r, OptimizerOps)
<1>1. /\ req[r].op \in OptimizerOps /\ req[r].pc \in {"sync", "aggregate", "create", "write"}
      /\ \E pc \in {"aggregate", "refused", "done", "create"} : Goto(r, pc)
  BY DEF AllWritten, OptimizerFails, AssertOptimizerRun, NothingGenerated, CreateRecommendation,
         WriteReview, WriteOutcome, Doing, OptimizerOps, PlacedInv, Placed, Fits
<1> QED BY <1>1, GotoActs DEF Over, Fits, Learning

LEMMA OptimizerActs ==
  ASSUME PlacedInv, OptimizerStep
  PROVE  UNCHANGED requestVars \/ \E r \in Requests : Act(r, OptimizerOps)
<1>1. CASE PostsAreSeen
  BY <1>1 DEF PostsAreSeen
<1>2. ASSUME NEW r \in Requests, WriteRow(r)
      PROVE  UNCHANGED requestVars
  BY <1>2 DEF WriteRow
<1> QED BY <1>1, <1>2, OptimizerCalls, FetchInsightsActs, OptimizerGoesOn DEF OptimizerStep

LEMMA BuildProfileActs ==
  ASSUME NEW r \in Requests, BuildProfile(r)
  PROVE  Act(r, ProductOps)
<1>1. PICK image, page, y :
        /\ y = [NewRequest EXCEPT !.op = "profile", !.account = page, !.user = image]
        /\ \/ Call(r, [y EXCEPT !.pc = "done"])
           \/ Call(r, [y EXCEPT !.pc = IF profiles[image].known THEN "snapshot" ELSE "vision"])
  BY DEF BuildProfile
<1>2. PICK x : /\ Call(r, x)
               /\ \/ x = [y EXCEPT !.pc = "done"]
                  \/ x = [y EXCEPT !.pc = IF profiles[image].known THEN "snapshot" ELSE "vision"]
  BY <1>1
<1>3. y = [pc |-> "new", op |-> "profile", account |-> page, user |-> image,
           value |-> "none", level |-> 0, seen |-> 0, limit |-> 0]
  BY <1>1 DEF NewRequest
<1>4. Started(x, ProductOps) /\ Placed(x)
  BY <1>2, <1>3 DEF Started, IsRequest, Placed, Fits, Learning, ProductOps
<1> QED BY <1>2, <1>4, CallActs DEF BuildProfile

LEMMA ExtractFactsActs ==
  ASSUME PlacedInv, NEW r \in Requests, ExtractFacts(r)
  PROVE  Act(r, ProductOps)
<1>1. /\ req[r].pc = "extract" /\ req[r].op = "profile" /\ IsRequest(req[r])
  BY DEF ExtractFacts, Doing, PlacedInv, RequestsInv
<1>2. PICK x :
        /\ Becomes(r, x)
        /\ \/ x = [req[r] EXCEPT !.pc = "save", !.level = 0]
           \/ x = [req[r] EXCEPT !.pc = IF req[r].level = 0 THEN "extract" ELSE "save",
                                 !.level = 1 - @]
  BY DEF ExtractFacts
<1>3. Started(x, ProductOps) /\ x.op = req[r].op /\ Placed(x)
  BY <1>1, <1>2 DEF Started, IsRequest, Placed, Fits, Learning, ProductOps
<1> QED BY <1>1, <1>2, <1>3, BecomesActs DEF Over

LEMMA ProductGoesOn ==
  ASSUME PlacedInv, NEW r \in Requests,
         \/ AnalyzeImage(r) \/ Identify(r) \/ ProfileFails(r) \/ LookUpSnapshot(r) \/ FetchPage(r)
         \/ StoreSnapshot(r) \/ RenewSnapshot(r) \/ WriteProfile(r)
  PROVE  Act(r, ProductOps)
<1>1. /\ req[r].op = "profile" /\ req[r].pc \notin Over /\ req[r].pc # "new"
      /\ \E pc \in {"identify", "snapshot", "refused", "fuse", "fetch", "renew", "save", "extract",
                    "done"} : Goto(r, pc)
  <2>1. req[r].op = "profile" /\ req[r].pc \notin Over
    BY DEF AnalyzeImage, Identify, ProfileFails, LookUpSnapshot, FetchPage, StoreSnapshot,
           RenewSnapshot, WriteProfile, Doing, Over
  <2>2. req[r].pc # "new"
    BY <2>1 DEF PlacedInv, RequestsInv
  <2>3. \E pc \in {"identify", "snapshot", "refused", "fuse", "fetch", "renew", "save", "extract",
                   "done"} : Goto(r, pc)
    BY DEF AnalyzeImage, Identify, ProfileFails, LookUpSnapshot, FetchPage, StoreSnapshot,
           RenewSnapshot, WriteProfile
  <2> QED BY <2>1, <2>2, <2>3
<1> QED BY <1>1, GotoActs DEF Over, Fits, Learning, ProductOps

LEMMA ProductActs ==
  ASSUME PlacedInv, ProductStep
  PROVE  UNCHANGED requestVars \/ \E r \in Requests : Act(r, ProductOps)
<1>1. CASE SnapshotExpires \/ PageChanges
  BY <1>1 DEF SnapshotExpires, PageChanges
<1> QED BY <1>1, BuildProfileActs, ExtractFactsActs, ProductGoesOn DEF ProductStep

LEMMA ReviewActs ==
  ASSUME PlacedInv, ModerationStep
  PROVE  \E r \in Requests : Act(r, ReviewOps)
<1>1. ASSUME NEW r \in Requests, RunModeration(r) \/ RunBrandCheck(r)
      PROVE  Act(r, ReviewOps)
  <2>1. PICK x : /\ Call(r, x)
                 /\ \/ x = [NewRequest EXCEPT !.op = "moderate", !.pc = "check", !.level = 1]
                    \/ x = [NewRequest EXCEPT !.op = "brandCheck", !.pc = "score", !.level = 1]
                    \/ x = [NewRequest EXCEPT !.op = "brandCheck", !.pc = "done"]
    BY <1>1 DEF RunModeration, RunBrandCheck
  <2>2. Started(x, ReviewOps) /\ Placed(x)
    BY <2>1 DEF Started, IsRequest, NewRequest, Placed, Fits, Learning, ReviewOps
  <2> QED BY <1>1, <2>1, <2>2, CallActs DEF RunModeration, RunBrandCheck
<1>2. ASSUME NEW r \in Requests, PersistCheck(r) \/ PersistScore(r)
      PROVE  Act(r, ReviewOps)
  <2>1. /\ req[r].op \in ReviewOps /\ req[r].pc \in {"check", "score"} /\ IsRequest(req[r])
    BY <1>2 DEF PersistCheck, PersistScore, Doing, ReviewOps, PlacedInv, RequestsInv
  <2>2. PICK x : /\ Becomes(r, x)
                 /\ \E level : \E pc \in {"check", "verdict"} :
                      \/ x = [req[r] EXCEPT !.level = level, !.pc = pc]
                      \/ x = [req[r] EXCEPT !.level = level]
    <3>1. CASE PersistCheck(r)
      <4>1. PICK pc \in {"check", "verdict"} :
              Becomes(r, [req[r] EXCEPT !.level = req[r].level + 1, !.pc = pc])
        BY <3>1, <2>1 DEF PersistCheck, Doing
      <4> QED BY <4>1
    <3>2. CASE PersistScore(r)
      BY <3>2 DEF PersistScore
    <3> QED BY <1>2, <3>1, <3>2
  <2>3. Started(x, ReviewOps) /\ x.op = req[r].op /\ Placed(x)
    BY <2>1, <2>2 DEF Started, IsRequest, Placed, Fits, Learning, ReviewOps
  <2> QED BY <2>1, <2>2, <2>3, BecomesActs DEF Over
<1>3. ASSUME NEW r \in Requests, ReturnVerdict(r) \/ ReturnScore(r) \/ ReviewFails(r)
      PROVE  Act(r, ReviewOps)
  <2>1. /\ req[r].op \in ReviewOps /\ req[r].pc \in {"check", "score", "verdict"}
        /\ \E pc \in {"done", "refused"} : Goto(r, pc)
    BY <1>3 DEF ReturnVerdict, ReturnScore, ReviewFails, Doing, ReviewOps
  <2> QED BY <2>1, GotoActs DEF Over, Fits, Learning
<1> QED BY <1>1, <1>2, <1>3 DEF ModerationStep

LEMMA BecomesMoves ==
  ASSUME PlacedInv, NEW r \in Requests, req[r].pc \notin {"new"} \cup Over,
         NEW new, Becomes(r, new), IsRequest(new), new.op = req[r].op, new.user = req[r].user,
         new.pc # "new", Fits(new.op, new.pc)
  PROVE  Moves(r, new) /\ Placed(new)
  BY DEF Moves, Placed, PlacedInv

\* What an observation reads, and what it goes on with.
Observed(r, key, value) ==
  \E new : /\ Moves(r, new) /\ Placed(new) /\ new.op = req[r].op /\ new.pc = "store"
           /\ new.account = key /\ new.value = value
           /\ \/ Found(key) = {} /\ new.seen = 0 /\ new.limit = 0
              \/ new.seen \in Found(key) /\ new.limit = memory[new.seen].evidence

LEMMA ObserveMoves ==
  ASSUME PlacedInv, NEW r \in Requests, req[r].pc = "learn", NEW request, IsRequest(request),
         request.op = req[r].op, request.user = req[r].user, NEW key, Observe(r, key, request)
  PROVE  Observed(r, key, request.value)
<1>1. PICK seen, limit, x : /\ Becomes(r, x)
                            /\ x = [request EXCEPT !.pc = "store", !.account = key, !.seen = seen,
                                                   !.limit = limit]
                            /\ \/ Found(key) = {} /\ seen = 0 /\ limit = 0
                               \/ seen \in Found(key) /\ limit = memory[seen].evidence
  BY DEF Observe
<1>2. /\ IsRequest(x) /\ x.op = req[r].op /\ x.user = req[r].user /\ x.pc = "store"
      /\ x.account = key /\ x.value = request.value /\ x.seen = seen /\ x.limit = limit
  BY <1>1 DEF IsRequest
<1>3. Fits(x.op, "store")
  BY <1>2 DEF PlacedInv, Placed, Fits, Learning
<1>4. Moves(r, x) /\ Placed(x)
  BY <1>1, <1>2, <1>3, BecomesMoves DEF Over
<1>5. \/ Found(key) = {} /\ x.seen = 0 /\ x.limit = 0
      \/ x.seen \in Found(key) /\ x.limit = memory[x.seen].evidence
  BY <1>1, <1>2
<1> QED BY <1>2, <1>4, <1>5 DEF Observed

LEMMA LookUpObservedMoves ==
  ASSUME PlacedInv, NEW r \in Requests, LookUpObserved(r)
  PROVE  /\ Observe(r, req[r].account, req[r]) /\ req[r].pc = "learn" /\ IsRequest(req[r])
         /\ req[r].op = "observe" /\ Observed(r, req[r].account, req[r].value)
<1>1. /\ Observe(r, req[r].account, req[r]) /\ req[r].pc = "learn" /\ IsRequest(req[r])
      /\ req[r].op = "observe"
  BY DEF LookUpObserved, Doing, PlacedInv, RequestsInv
<1> QED BY <1>1, ObserveMoves

LEMMA StoreObservationMoves ==
  ASSUME PlacedInv, NEW r \in Requests, StoreObservation(r)
  PROVE  \E new : /\ Moves(r, new) /\ Placed(new) /\ new.op = req[r].op /\ new.pc = "scan"
                  /\ new.value = req[r].value /\ new.account = req[r].account
                  /\ new.seen = IF req[r].seen = 0 THEN Len(memory) + 1 ELSE req[r].seen
<1>1. IsRequest(req[r]) /\ req[r].pc = "store" /\ req[r].op \in {"observe", "edit", "correct"}
  BY DEF StoreObservation, PlacedInv, RequestsInv, Placed, Fits, Learning
<1>2. PICK x : /\ Becomes(r, x)
               /\ IF req[r].seen = 0 THEN x = [req[r] EXCEPT !.pc = "scan", !.seen = Len(memory) + 1]
                  ELSE x = [req[r] EXCEPT !.pc = "scan"]
  BY DEF StoreObservation, Goto
<1>3. /\ IsRequest(x) /\ x.op = req[r].op /\ x.user = req[r].user /\ x.pc = "scan"
      /\ x.value = req[r].value /\ x.account = req[r].account
      /\ x.seen = IF req[r].seen = 0 THEN Len(memory) + 1 ELSE req[r].seen
  BY <1>1, <1>2 DEF IsRequest
<1>4. Fits(x.op, "scan")
  BY <1>1, <1>3 DEF Fits, Learning
<1>5. Moves(r, x) /\ Placed(x)
  BY <1>1, <1>2, <1>3, <1>4, BecomesMoves DEF Over
<1> QED BY <1>3, <1>5

\* A request whose scan goes on or is over: pc is where it is then.
ScanGoesOn(r, new, pc) ==
  /\ Moves(r, new) /\ Placed(new) /\ new.op = req[r].op /\ new.pc = pc
  /\ new.value = req[r].value /\ new.account = req[r].account /\ new.seen = req[r].seen

ScanGoesTo(r, pc, level) == \E new : ScanGoesOn(r, new, pc) /\ new.level = level

LEMMA ScanMoves ==
  ASSUME PlacedInv, NEW r \in Requests, req[r].pc \in {"scan", "compare", "record", "mark"},
         NEW pc, pc \in {"compare", "record", "mark", AfterScan(r)},
         NEW x, Becomes(r, x), NEW level,
         \/ x = [req[r] EXCEPT !.pc = pc, !.level = level]
         \/ x = [req[r] EXCEPT !.pc = pc] /\ level = req[r].level
  PROVE  ScanGoesTo(r, pc, level)
<1>1. IsRequest(req[r]) /\ req[r].op \in {"observe", "edit", "correct"}
  BY DEF PlacedInv, RequestsInv, Placed, Fits, Learning
<1>2. /\ IsRequest(x) /\ x.op = req[r].op /\ x.user = req[r].user /\ x.pc = pc
      /\ x.value = req[r].value /\ x.account = req[r].account /\ x.seen = req[r].seen
      /\ x.level = level
  BY <1>1 DEF IsRequest
<1>3. Fits(x.op, pc) /\ pc # "new"
  BY <1>1, <1>2 DEF Fits, Learning, AfterScan
<1>4. Moves(r, x) /\ Placed(x)
  BY <1>2, <1>3, BecomesMoves DEF Over
<1>5. ScanGoesOn(r, x, pc)
  BY <1>2, <1>4 DEF ScanGoesOn
<1> QED BY <1>2, <1>5 DEF ScanGoesTo

LEMMA LeaveMoves ==
  ASSUME PlacedInv, NEW r \in Requests, req[r].pc \in {"compare", "record", "mark"},
         NEW candidate, Leave(r, candidate)
  PROVE  \E new : ScanGoesOn(r, new, IF comparing[r] = {candidate} THEN AfterScan(r) ELSE "compare")
<1>1. PICK pc, x : /\ pc = IF comparing[r] = {candidate} THEN AfterScan(r) ELSE "compare"
                   /\ Becomes(r, x) /\ x = [req[r] EXCEPT !.pc = pc, !.level = 0]
  BY DEF Leave
<1>2. pc \in {"compare", "record", "mark", AfterScan(r)}
  BY <1>1
<1>3. ScanGoesTo(r, pc, 0)
  BY <1>1, <1>2, ScanMoves
<1> QED BY <1>1, <1>3 DEF ScanGoesTo

LEMMA ReadCandidatesMoves ==
  ASSUME PlacedInv, NEW r \in Requests, ReadCandidates(r)
  PROVE  \E new : ScanGoesOn(r, new, IF Compared(req[r].seen) = {} THEN AfterScan(r) ELSE "compare")
<1>1. PICK pc, x, level : /\ pc = IF Compared(req[r].seen) = {} THEN AfterScan(r) ELSE "compare"
                          /\ Becomes(r, x) /\ x = [req[r] EXCEPT !.pc = pc] /\ level = req[r].level
  BY DEF ReadCandidates, Goto
<1>2. pc \in {"compare", "record", "mark", AfterScan(r)} /\ req[r].pc = "scan"
  BY <1>1 DEF ReadCandidates
<1>3. ScanGoesTo(r, pc, level)
  BY <1>1, <1>2, ScanMoves
<1> QED BY <1>1, <1>3 DEF ScanGoesTo

LEMMA ScanFailsMoves ==
  ASSUME PlacedInv, NEW r \in Requests, ScanFails(r)
  PROVE  \E new : ScanGoesOn(r, new, AfterScan(r))
<1>1. PICK pc, x : pc = AfterScan(r) /\ Becomes(r, x) /\ x = [req[r] EXCEPT !.pc = pc, !.level = 0]
  BY DEF ScanFails
<1>2. ScanGoesTo(r, pc, 0)
  BY <1>1, ScanMoves DEF ScanFails
<1> QED BY <1>1, <1>2 DEF ScanGoesTo

LEMMA AlreadyRecordedMoves ==
  ASSUME PlacedInv, NEW r \in Requests, NEW candidate,
         req[r].pc = "compare", Becomes(r, [req[r] EXCEPT !.pc = "record", !.level = candidate.of])
  PROVE  \E new : ScanGoesOn(r, new, "record") /\ new.level = candidate.of
<1>1. PICK level, pc, x : /\ level = candidate.of /\ pc = "record" /\ Becomes(r, x)
                          /\ x = [req[r] EXCEPT !.pc = pc, !.level = level]
  OBVIOUS
<1>2. pc \in {"compare", "record", "mark", AfterScan(r)}
  BY <1>1
<1>3. ScanGoesTo(r, pc, level)
  BY <1>1, <1>2, ScanMoves
<1> QED BY <1>1, <1>3 DEF ScanGoesTo

LEMMA MarkMoves ==
  ASSUME PlacedInv, NEW r \in Requests, req[r].pc = "record", Goto(r, "mark")
  PROVE  \E new : ScanGoesOn(r, new, "mark") /\ new.level = req[r].level
<1>1. PICK level, pc, x : /\ level = req[r].level /\ pc = "mark" /\ Becomes(r, x)
                          /\ x = [req[r] EXCEPT !.pc = pc]
  BY DEF Goto
<1>2. pc \in {"compare", "record", "mark", AfterScan(r)}
  BY <1>1
<1>3. ScanGoesTo(r, pc, level)
  BY <1>1, <1>2, ScanMoves
<1> QED BY <1>1, <1>3 DEF ScanGoesTo

LEMMA ObservationFailsMoves ==
  ASSUME PlacedInv, NEW r \in Requests, ObservationFails(r)
  PROVE  \E new : /\ Moves(r, new) /\ Placed(new) /\ new.op = req[r].op
                  /\ new.pc \in {"done", "refused"} /\ (new.op = "edit" => new.pc = "done")
<1>1. PICK pc \in {"done", "refused"} : Goto(r, pc) /\ (req[r].op = "edit" => pc = "done")
  BY DEF ObservationFails
<1>2. PICK new : /\ Moves(r, new) /\ new.pc = pc /\ new.op = req[r].op /\ new.user = req[r].user
  BY <1>1, GoesOn DEF PlacedInv, ObservationFails, Over
<1>3. Placed(new)
  BY <1>1, <1>2 DEF PlacedInv, Placed, Fits, Learning
<1> QED BY <1>1, <1>2, <1>3

\* The calls of people, and of the other components, at the memory.
LEMMA RecordObservationMoves ==
  ASSUME NEW r \in Requests, RecordObservation(r)
  PROVE  \E new : /\ req[r].pc = "new"
                  /\ Moves(r, new) /\ Placed(new) /\ new.op = "observe" /\ new.pc = "learn"
<1>1. PICK key, x : /\ Call(r, x)
                    /\ x = [NewRequest EXCEPT !.op = "observe", !.pc = "learn", !.account = key]
  BY DEF RecordObservation
<1>2. Started(x, MemoryOps) /\ Placed(x) /\ x.op = "observe" /\ x.pc = "learn"
  BY <1>1 DEF Started, IsRequest, NewRequest, Placed, Fits, Learning, MemoryOps
<1>3. Moves(r, x) /\ req[r].pc = "new"
  BY <1>1, <1>2, CallActs DEF RecordObservation, Arrives
<1> QED BY <1>2, <1>3

LEMMA ConfirmEntryMoves ==
  ASSUME NEW r \in Requests, ConfirmEntry(r)
  PROVE  \E new : /\ req[r].pc = "new"
                  /\ Moves(r, new) /\ Placed(new) /\ new.op = "confirm" /\ new.pc = "write"
                  /\ new.seen \in Entries /\ new.limit = memory[new.seen].evidence
<1>1. PICK i \in Entries : Call(r, [NewRequest EXCEPT !.op = "confirm", !.pc = "write", !.seen = i,
                                                      !.limit = memory[i].evidence])
  BY DEF ConfirmEntry
<1>2. PICK limit, x : /\ Call(r, x) /\ limit = memory[i].evidence
                      /\ x = [NewRequest EXCEPT !.op = "confirm", !.pc = "write", !.seen = i,
                                                !.limit = limit]
  BY <1>1
<1>3. /\ Started(x, MemoryOps) /\ Placed(x) /\ x.op = "confirm" /\ x.pc = "write"
      /\ x.seen = i /\ x.limit = memory[i].evidence
  BY <1>2 DEF Started, IsRequest, NewRequest, Placed, Fits, Learning, MemoryOps
<1>4. Moves(r, x) /\ req[r].pc = "new"
  BY <1>2, <1>3, CallActs DEF ConfirmEntry, Arrives
<1> QED BY <1>3, <1>4

LEMMA CorrectEntryMoves ==
  ASSUME NEW r \in Requests, CorrectEntry(r)
  PROVE  \E i \in Entries, says \in {Says[key] : key \in Keys}, axis \in {Axis[key] : key \in Keys} :
         \E new :
           /\ memory' = [memory EXCEPT ![i].says = says, ![i].axis = axis]
           /\ req[r].pc = "new"
           /\ Moves(r, new) /\ Placed(new) /\ new.op = "correct" /\ new.pc = "scan"
           /\ new.seen = i
<1>1. PICK i \in Entries, says \in {Says[key] : key \in Keys}, axis \in {Axis[key] : key \in Keys} :
        /\ memory' = [memory EXCEPT ![i].says = says, ![i].axis = axis]
        /\ Call(r, [NewRequest EXCEPT !.op = "correct", !.pc = "scan", !.seen = i])
  BY DEF CorrectEntry
<1>2. PICK x : Call(r, x) /\ x = [NewRequest EXCEPT !.op = "correct", !.pc = "scan", !.seen = i]
  BY <1>1
<1>3. /\ Started(x, MemoryOps) /\ Placed(x) /\ x.op = "correct" /\ x.pc = "scan" /\ x.seen = i
  BY <1>2 DEF Started, IsRequest, NewRequest, Placed, Fits, Learning, MemoryOps
<1>4. Moves(r, x) /\ req[r].pc = "new"
  BY <1>2, <1>3, CallActs DEF CorrectEntry, Arrives
<1> QED BY <1>1, <1>3, <1>4

\* What people do besides.
Handles(r) ==
  \/ DismissEntry(r) \/ PromoteToRule(r) \/ WritePromoted(r) \/ Resolve(r) \/ KeepEntries(r)
  \/ DropEntry(r)

HandlingOps == {"dismiss", "promote", "resolve"}

LEMMA HandlesMoves ==
  ASSUME PlacedInv, NEW r \in Requests, Handles(r)
  PROVE  Act(r, HandlingOps)
<1>1. CASE DismissEntry(r)
  <2>1. PICK x : Call(r, x) /\ x = [NewRequest EXCEPT !.op = "dismiss", !.pc = "done"]
    BY <1>1 DEF DismissEntry
  <2>2. Started(x, HandlingOps) /\ Placed(x)
    BY <2>1 DEF Started, IsRequest, NewRequest, Placed, Fits, Learning, HandlingOps
  <2> QED BY <1>1, <2>1, <2>2, CallActs DEF DismissEntry
<1>2. CASE PromoteToRule(r)
  <2>1. PICK i, limit, x : /\ Call(r, x)
                           /\ x = [NewRequest EXCEPT !.op = "promote", !.pc = "write", !.seen = i,
                                                     !.limit = limit]
    BY <1>2 DEF PromoteToRule
  <2>2. Started(x, HandlingOps) /\ Placed(x)
    BY <2>1 DEF Started, IsRequest, NewRequest, Placed, Fits, Learning, HandlingOps
  <2> QED BY <1>2, <2>1, <2>2, CallActs DEF PromoteToRule
<1>3. CASE Resolve(r)
  <2>1. PICK n, resolution, x :
          /\ Call(r, x)
          /\ x = [NewRequest EXCEPT !.op = "resolve", !.pc = "keep", !.level = n,
                                    !.value = resolution]
    BY <1>3 DEF Resolve
  <2>2. Started(x, HandlingOps) /\ Placed(x)
    BY <2>1 DEF Started, IsRequest, NewRequest, Placed, Fits, Learning, HandlingOps
  <2> QED BY <1>3, <2>1, <2>2, CallActs DEF Resolve
<1>4. CASE WritePromoted(r) \/ KeepEntries(r) \/ DropEntry(r)
  <2>1. /\ req[r].op \in HandlingOps /\ req[r].pc \in {"write", "keep", "drop"}
        /\ \E pc \in {"done", "drop"} : Goto(r, pc)
    BY <1>4 DEF WritePromoted, KeepEntries, DropEntry, Doing, HandlingOps
  <2> QED BY <2>1, GotoActs DEF Over, Fits, Learning
<1> QED BY <1>1, <1>2, <1>3, <1>4 DEF Handles

LEMMA WriteConfirmedMoves ==
  ASSUME PlacedInv, NEW r \in Requests, WriteConfirmed(r)
  PROVE  \E new : Moves(r, new) /\ Placed(new) /\ new.op = "confirm" /\ new.pc = "done"
<1>1. Goto(r, "done") /\ req[r].op = "confirm" /\ req[r].pc = "write"
  BY DEF WriteConfirmed, Doing
<1>2. PICK new : /\ Moves(r, new) /\ new.pc = "done" /\ new.op = req[r].op
                 /\ new.user = req[r].user
  BY <1>1, GoesOn DEF PlacedInv, Over
<1>3. Placed(new)
  BY <1>1, <1>2 DEF Placed, Fits, Learning
<1> QED BY <1>1, <1>2, <1>3

\* An edit at the memory has written its version.
Learns(r) ==
  \E new : /\ Moves(r, new) /\ Placed(new) /\ new.op \in MemoryOps \cup {"edit"}
           /\ new.op = "edit" => req[r].op = "edit" /\ new.pc \in Learning \cup {"done"}

LEMMA ScansLearns ==
  ASSUME PlacedInv, NEW r \in Requests, NEW pc,
         pc \in Learning \cup {"done"}, \E new : ScanGoesOn(r, new, pc),
         req[r].pc \in {"scan", "compare", "record", "mark"}
  PROVE  Learns(r)
<1>1. req[r].op \in {"observe", "edit", "correct"}
  BY DEF PlacedInv, Placed, Fits, Learning
<1> QED BY <1>1 DEF Learns, ScanGoesOn, MemoryOps

LEMMA MemoryLearns ==
  ASSUME PlacedInv, MemoryStep
  PROVE  \E r \in Requests : Learns(r)
<1>1. ASSUME NEW r \in Requests, RecordObservation(r) \/ LookUpObserved(r)
      PROVE  Learns(r)
  BY <1>1, RecordObservationMoves, LookUpObservedMoves
     DEF Observed, Learns, MemoryOps
<1>2. ASSUME NEW r \in Requests, StoreObservation(r)
      PROVE  Learns(r)
  <2>1. req[r].op \in {"observe", "edit", "correct"}
    BY <1>2 DEF StoreObservation, PlacedInv, Placed, Fits, Learning
  <2>2. PICK new : Moves(r, new) /\ Placed(new) /\ new.op = req[r].op /\ new.pc = "scan"
    BY <1>2, StoreObservationMoves
  <2> QED BY <2>1, <2>2 DEF Learns, MemoryOps, Learning
<1>3. ASSUME NEW r \in Requests, ReadCandidates(r) \/ ScanFails(r)
      PROVE  Learns(r)
  <2>1. /\ AfterScan(r) \in Learning \cup {"done"} /\ "compare" \in Learning
        /\ req[r].pc \in {"scan", "compare", "record", "mark"}
    BY <1>3 DEF AfterScan, Learning, ReadCandidates, ScanFails
  <2>2. PICK pc \in {"compare", AfterScan(r)} : \E new : ScanGoesOn(r, new, pc)
    BY <1>3, ReadCandidatesMoves, ScanFailsMoves
  <2> QED BY <2>1, <2>2, ScansLearns
<1>4. ASSUME NEW r \in Requests, AlreadyRecorded(r) \/ RecordContradiction(r) \/ MarkContradicted(r)
      PROVE  Learns(r)
  <2>1. /\ AfterScan(r) \in Learning \cup {"done"}
        /\ {"compare", "record", "mark"} \subseteq Learning
        /\ req[r].pc \in {"compare", "record", "mark"}
    BY <1>4 DEF AfterScan, Learning, AlreadyRecorded, RecordContradiction, MarkContradicted
  <2>2. ASSUME NEW candidate, Leave(r, candidate)
        PROVE  Learns(r)
    <3>1. PICK pc \in {"compare", AfterScan(r)} : \E new : ScanGoesOn(r, new, pc)
      BY <2>1, <2>2, LeaveMoves
    <3> QED BY <2>1, <3>1, ScansLearns
  <2>3. ASSUME NEW candidate, req[r].pc = "compare",
               Becomes(r, [req[r] EXCEPT !.pc = "record", !.level = candidate.of])
        PROVE  Learns(r)
    <3>1. \E new : ScanGoesOn(r, new, "record")
      BY <2>3, AlreadyRecordedMoves
    <3> QED BY <2>1, <3>1, ScansLearns
  <2>4. ASSUME Goto(r, "mark"), req[r].pc = "record"
        PROVE  Learns(r)
    <3>1. \E new : ScanGoesOn(r, new, "mark")
      BY <2>4, MarkMoves
    <3> QED BY <2>1, <3>1, ScansLearns
  <2> QED BY <1>4, <2>2, <2>3, <2>4 DEF AlreadyRecorded, RecordContradiction, MarkContradicted
<1>5. ASSUME NEW r \in Requests, ObservationFails(r)
      PROVE  Learns(r)
  <2>1. req[r].op \in {"observe", "edit", "correct"}
    BY <1>5 DEF ObservationFails, PlacedInv, Placed, Fits, Learning
  <2> QED BY <1>5, <2>1, ObservationFailsMoves DEF Learns, MemoryOps
<1>6. ASSUME NEW r \in Requests, ConfirmEntry(r) \/ CorrectEntry(r) \/ WriteConfirmed(r)
      PROVE  Learns(r)
  BY <1>6, ConfirmEntryMoves, CorrectEntryMoves, WriteConfirmedMoves DEF Learns, MemoryOps
<1>7. ASSUME NEW r \in Requests, Handles(r)
      PROVE  Learns(r)
  BY <1>7, HandlesMoves DEF Act, Learns, MemoryOps, HandlingOps
<1> QED BY <1>1, <1>2, <1>3, <1>4, <1>5, <1>6, <1>7 DEF MemoryStep, Handles

-----------------------------------------------------------------------------
(* The types of the figures.                                                *)

Rows == [count : Nat, whole : BOOLEAN, by : Requests]

\* What a request has added up of the platforms.
Added0(sums) ==
  /\ sums = [p \in DOMAIN sums |-> sums[p]]
  /\ DOMAIN sums \subseteq Platforms
  /\ \A p \in DOMAIN sums : sums[p].count \in Nat /\ sums[p].posts \in Nat

FiguresTyped ==
  /\ reached \in Nat /\ declared \in Nat
  /\ metrics \in [Columns -> Seq(Rows)]
  /\ fetched = [r \in Requests |-> fetched[r]]
  /\ \A r \in Requests : Added0(fetched[r])

Fetching(x) == x.op \in {"analyze", "measure"} /\ x.pc = "sync" => x.level \in Nat \ {0}

TypesInv == PlacedInv /\ FiguresTyped /\ \A r \in Requests : Fetching(req[r])

LEMMA TypesStep ==
  ASSUME TypesInv, NEW r \in Requests, NEW new, Moves(r, new), Placed(new), Fetching(new),
         FiguresTyped'
  PROVE  TypesInv'
<1>1. PlacedInv'
  BY PlacedStep DEF TypesInv
<1>2. /\ req'[r] = Left(new) /\ \A s \in Requests : s # r => req'[s] = req[s]
      /\ req'[r].pc = new.pc /\ req'[r].op = new.op
  BY MovesRequest DEF TypesInv, PlacedInv
<1>3. Fetching(req'[r])
  <2>1. CASE new.pc = "sync"
    <3>1. Left(new) = new
      BY <2>1, LeftIsRequest DEF Moves
    <3> QED BY <1>2, <3>1
  <2>2. CASE new.pc # "sync"
    BY <1>2, <2>2 DEF Fetching
  <2> QED BY <2>1, <2>2
<1> QED BY <1>1, <1>2, <1>3 DEF TypesInv, Fetching

LEMMA TypesElsewhere ==
  ASSUME TypesInv, NEW r \in Requests, NEW new, Moves(r, new), Placed(new),
         new.pc # "sync" \/ new.level \in Nat \ {0} \/ new.op \notin {"analyze", "measure"},
         UNCHANGED <<reached, declared, metrics, fetched>>
  PROVE  TypesInv'
  BY TypesStep DEF TypesInv, FiguresTyped, Fetching, Added0

LEMMA TypesRest ==
  ASSUME TypesInv, UNCHANGED requestVars, FiguresTyped'
  PROVE  TypesInv'
<1>1. PlacedInv'
  BY PlacedRest DEF TypesInv
<1> QED BY <1>1 DEF TypesInv, requestVars, Fetching

LEMMA FetchInsightsMoves ==
  ASSUME PlacedInv, NEW r \in Requests, FetchInsights(r)
  PROVE  /\ \E new : /\ Moves(r, new) /\ Placed(new) /\ new.op = req[r].op /\ new.pc = "sync"
                     /\ new.level = req[r].level + 1 /\ new.seen = req[r].seen
         /\ req[r].pc = "sync" /\ req[r].op \in {"analyze", "measure"}
<1>1. PICK x : Becomes(r, x) /\ x = [req[r] EXCEPT !.level = @ + 1]
  BY DEF FetchInsights
<1>2. /\ req[r].pc = "sync" /\ req[r].op \in {"analyze", "measure"} /\ IsRequest(req[r])
  BY DEF FetchInsights, PlacedInv, RequestsInv, Placed, Fits
<1>3. /\ Started(x, OptimizerOps) /\ x.op = req[r].op /\ Placed(x) /\ x.pc = "sync"
      /\ x.level = req[r].level + 1 /\ x.seen = req[r].seen
  BY <1>1, <1>2 DEF Started, IsRequest, Placed, Fits, Learning, OptimizerOps
<1>4. Moves(r, x)
  BY <1>1, <1>2, <1>3, BecomesActs DEF Over
<1> QED BY <1>2, <1>3, <1>4

LEMMA AddedTyped ==
  ASSUME NEW sums, Added0(sums), NEW p \in Platforms, NEW count \in Nat, NEW answered \in BOOLEAN
  PROVE  /\ Added0(Added(sums, p, count, answered))
         /\ DOMAIN Added(sums, p, count, answered) = DOMAIN sums \cup {p}
         /\ \A q \in DOMAIN sums : q # p => Added(sums, p, count, answered)[q] = sums[q]
         /\ LET sum == IF p \in DOMAIN sums THEN sums[p] ELSE [count |-> 0, posts |-> 0]
                new == Added(sums, p, count, answered)[p]
            IN /\ new.count = sum.count + count
               /\ new.posts = sum.posts + (IF answered THEN 1 ELSE 0)
  BY DEF Added, Added0

LEMMA FetchInsightsTypes ==
  ASSUME TypesInv, NEW r \in Requests, FetchInsights(r)
  PROVE  TypesInv'
<1>1. PICK new : /\ Moves(r, new) /\ Placed(new) /\ new.op = req[r].op /\ new.pc = "sync"
                 /\ new.level = req[r].level + 1
  BY FetchInsightsMoves DEF TypesInv
<1>2. req[r].level \in Nat \ {0}
  BY FetchInsightsMoves DEF TypesInv, Fetching
<1>3. PostedOn[req[r].level] \in Platforms
  BY <1>2, OptimizerAssumption DEF FetchInsights
<1>4. FiguresTyped'
  <2>1. UNCHANGED <<reached, declared, metrics>>
    BY DEF FetchInsights
  <2>2. reached \in Nat /\ Added0(fetched[r])
    BY DEF TypesInv, FiguresTyped
  <2>3. \/ fetched' = [fetched EXCEPT ![r] = Added(@, PostedOn[req[r].level], reached, TRUE)]
        \/ fetched' = [fetched EXCEPT ![r] = Added(@, PostedOn[req[r].level], 0, FALSE)]
        \/ UNCHANGED fetched
    BY DEF FetchInsights
  <2>4. /\ Added0(Added(fetched[r], PostedOn[req[r].level], reached, TRUE))
        /\ Added0(Added(fetched[r], PostedOn[req[r].level], 0, FALSE))
    BY <1>3, <2>2, AddedTyped
  <2>5. \A q \in Requests : Added0(fetched'[q])
    BY <2>3, <2>4 DEF TypesInv, FiguresTyped
  <2>6. fetched' = [q \in Requests |-> fetched'[q]]
    BY <2>3 DEF TypesInv, FiguresTyped
  <2> QED BY <2>1, <2>5, <2>6 DEF TypesInv, FiguresTyped
<1> QED BY <1>1, <1>2, <1>4, TypesStep DEF Fetching

LEMMA WriteRowTypes ==
  ASSUME TypesInv, NEW r \in Requests, WriteRow(r)
  PROVE  TypesInv'
<1>1. PICK p \in DOMAIN fetched[r], whole \in BOOLEAN :
        /\ metrics' = [metrics EXCEPT ![p] = Append(@, Row(fetched[r][p].count, whole, r))]
        /\ fetched' = [fetched EXCEPT ![r] = [q \in DOMAIN @ \ {p} |-> @[q]]]
  BY DEF WriteRow
<1>2. p \in Platforms /\ p \in Columns /\ fetched[r][p].count \in Nat
  BY DEF TypesInv, FiguresTyped, Added0, Columns
<1>3. Row(fetched[r][p].count, whole, r) \in Rows
  BY <1>2 DEF Row, Rows
<1>4. metrics' \in [Columns -> Seq(Rows)]
  BY <1>1, <1>2, <1>3 DEF TypesInv, FiguresTyped
<1>5. \A s \in Requests : Added0(fetched'[s])
  BY <1>1 DEF TypesInv, FiguresTyped, Added0
<1>6. fetched' = [q \in Requests |-> fetched'[q]]
  BY <1>1 DEF TypesInv, FiguresTyped
<1>7. FiguresTyped' /\ UNCHANGED requestVars
  BY <1>4, <1>5, <1>6 DEF WriteRow, TypesInv, FiguresTyped
<1> QED BY <1>7, TypesRest

LEMMA RecordConversionTypes ==
  ASSUME TypesInv, NEW r \in Requests, RecordConversion(r)
  PROVE  TypesInv'
<1>1. PICK x : Call(r, x) /\ x = [NewRequest EXCEPT !.op = "declare", !.pc = "done"]
  BY DEF RecordConversion
<1>2. Started(x, OptimizerOps) /\ Placed(x) /\ Fetching(x)
  BY <1>1 DEF Started, IsRequest, NewRequest, Placed, Fits, Learning, OptimizerOps, Fetching
<1>3. Moves(r, x)
  BY <1>1, <1>2, CallActs DEF RecordConversion
<1>4. PICK n \in {1, 2} : /\ metrics' = [metrics EXCEPT ![Manual] = Append(@, Row(n, TRUE, r))]
                          /\ declared' = declared + n
  BY DEF RecordConversion
<1>5. Row(n, TRUE, r) \in Rows /\ Manual \in Columns
  BY DEF Row, Rows, Columns
<1>6. metrics' \in [Columns -> Seq(Rows)] /\ declared' \in Nat
  <2>1. metrics' \in [Columns -> Seq(Rows)]
    <3>1. PICK row \in Rows : metrics' = [metrics EXCEPT ![Manual] = Append(@, row)]
      BY <1>4, <1>5
    <3>2. metrics \in [Columns -> Seq(Rows)]
      BY DEF TypesInv, FiguresTyped
    <3>3. Append(metrics[Manual], row) \in Seq(Rows)
      BY <1>5, <3>1, <3>2
    <3> QED BY <1>5, <3>1, <3>2, <3>3
  <2>2. declared' \in Nat
    BY <1>4 DEF TypesInv, FiguresTyped
  <2> QED BY <2>1, <2>2
<1>7. FiguresTyped'
  BY <1>6 DEF RecordConversion, TypesInv, FiguresTyped
<1> QED BY <1>2, <1>3, <1>7, TypesStep

LEMMA OptimizerFailsTypes ==
  ASSUME TypesInv, NEW r \in Requests, OptimizerFails(r)
  PROVE  TypesInv'
<1>1. /\ Goto(r, "refused") /\ req[r].pc \notin {"new"} \cup Over
      /\ fetched' = [fetched EXCEPT ![r] = NothingFetched]
      /\ UNCHANGED <<reached, declared, metrics>>
  BY DEF OptimizerFails, Over
<1>2. PICK new : /\ Moves(r, new) /\ new.pc = "refused" /\ new.op = req[r].op
                 /\ new.user = req[r].user
  BY <1>1, GoesOn DEF TypesInv, PlacedInv
<1>3. Placed(new) /\ Fetching(new)
  BY <1>2 DEF TypesInv, PlacedInv, Placed, Fits, Learning, Fetching
<1>4. Added0(NothingFetched)
  BY DEF Added0, NothingFetched
<1>5. FiguresTyped'
  BY <1>1, <1>4 DEF TypesInv, FiguresTyped
<1> QED BY <1>2, <1>3, <1>5, TypesStep

LEMMA PostsAreSeenTypes ==
  ASSUME TypesInv, PostsAreSeen
  PROVE  TypesInv'
<1>1. FiguresTyped' /\ UNCHANGED requestVars
  BY DEF PostsAreSeen, TypesInv, FiguresTyped
<1> QED BY <1>1, TypesRest

\* The other steps of the optimizer, and what they leave alone.
OptimizerOther(r) ==
  \/ AllWritten(r) \/ AnalyzeCampaign(r) \/ AssertOptimizerRun(r) \/ NothingGenerated(r)
  \/ CreateRecommendation(r) \/ Review(r) \/ WriteReview(r) \/ MeasureOutcome(r) \/ WriteOutcome(r)

LEMMA OptimizerOtherTypes ==
  ASSUME TypesInv, NEW r \in Requests, OptimizerOther(r)
  PROVE  TypesInv'
<1>1. UNCHANGED <<reached, declared, metrics, fetched>>
  BY DEF OptimizerOther, AllWritten, AnalyzeCampaign, AssertOptimizerRun, NothingGenerated,
         CreateRecommendation, Review, WriteReview, MeasureOutcome, WriteOutcome, optimizerVars
<1>2. \E new : Moves(r, new) /\ Placed(new) /\ (new.pc # "sync" \/ new.level \in Nat \ {0})
  <2>1. ASSUME AnalyzeCampaign(r) \/ MeasureOutcome(r)
        PROVE  \E new : Moves(r, new) /\ Placed(new) /\ (new.pc # "sync" \/ new.level \in Nat \ {0})
    <3>1. PICK i, x : /\ Call(r, x)
                      /\ \/ x = [NewRequest EXCEPT !.op = "analyze", !.pc = "sync", !.level = 1]
                         \/ x = [NewRequest EXCEPT !.op = "measure", !.pc = "sync", !.level = 1,
                                                   !.seen = i]
      BY <2>1 DEF AnalyzeCampaign, MeasureOutcome
    <3>2. Started(x, OptimizerOps) /\ Placed(x) /\ x.level = 1
      BY <3>1 DEF Started, IsRequest, NewRequest, Placed, Fits, Learning, OptimizerOps
    <3>3. Moves(r, x)
      BY <2>1, <3>1, <3>2, CallActs DEF AnalyzeCampaign, MeasureOutcome
    <3> QED BY <3>2, <3>3
  <2>2. ASSUME Review(r)
        PROVE  \E new : Moves(r, new) /\ Placed(new) /\ new.pc # "sync"
    <3>1. PICK i, decision, x :
            /\ Call(r, x)
            /\ x = [NewRequest EXCEPT !.op = "review", !.seen = i, !.value = decision,
                                      !.pc = IF MayBeDecided(i) THEN "write" ELSE "refused"]
      BY <2>2 DEF Review
    <3>2. Started(x, OptimizerOps) /\ Placed(x) /\ x.pc # "sync"
      BY <3>1 DEF Started, IsRequest, NewRequest, Placed, Fits, Learning, OptimizerOps
    <3>3. Moves(r, x)
      BY <2>2, <3>1, <3>2, CallActs DEF Review
    <3> QED BY <3>2, <3>3
  <2>3. ASSUME \/ AllWritten(r) \/ AssertOptimizerRun(r) \/ NothingGenerated(r)
               \/ CreateRecommendation(r) \/ WriteReview(r) \/ WriteOutcome(r)
        PROVE  \E new : Moves(r, new) /\ Placed(new) /\ new.pc # "sync"
    <3>1. PICK pc \in {"aggregate", "refused", "done", "create"} : Goto(r, pc)
      BY <2>3 DEF AllWritten, AssertOptimizerRun, NothingGenerated, CreateRecommendation,
                  WriteReview, WriteOutcome
    <3>2. req[r].pc \notin {"new"} \cup Over
      BY <2>3 DEF AllWritten, AssertOptimizerRun, NothingGenerated, CreateRecommendation,
                  WriteReview, WriteOutcome, Doing, Over
    <3>3. PICK new : /\ Moves(r, new) /\ new.pc = pc /\ new.op = req[r].op
                     /\ new.user = req[r].user
      BY <3>1, <3>2, GoesOn DEF TypesInv, PlacedInv
    <3>4. Placed(new)
      BY <3>1, <3>3 DEF TypesInv, PlacedInv, Placed, Fits, Learning
    <3> QED BY <3>1, <3>3, <3>4
  <2> QED BY <2>1, <2>2, <2>3 DEF OptimizerOther
<1> QED BY <1>1, <1>2, TypesElsewhere

LEMMA TypesInit == Init => TypesInv
<1> SUFFICES ASSUME Init PROVE TypesInv
  OBVIOUS
<1>1. PlacedInv /\ \A r \in Requests : req[r].pc = "new"
  BY PlacedInit DEF Init
<1>2. Added0(NothingFetched)
  BY DEF Added0, NothingFetched
<1>3. <<>> \in Seq(Rows)
  OBVIOUS
<1>4. FiguresTyped
  BY <1>2, <1>3 DEF Init, OptimizerInit, FiguresTyped
<1> QED BY <1>1, <1>4 DEF TypesInv, Fetching

-----------------------------------------------------------------------------
(* The steps of the studio.                                                 *)

LEMMA CreatePieceMoves ==
  ASSUME NEW r \in Requests, CreatePiece(r)
  PROVE  \E new : /\ req[r].pc = "new"
                  /\ Moves(r, new) /\ Placed(new) /\ new.op = "create" /\ new.pc = "version"
<1>1. PICK x : Call(r, x) /\ x = [NewRequest EXCEPT !.op = "create", !.pc = "version"]
  BY DEF CreatePiece
<1>2. Started(x, StudioOps) /\ Placed(x) /\ x.op = "create" /\ x.pc = "version"
  BY <1>1 DEF Started, IsRequest, NewRequest, Placed, Fits, Learning, StudioOps
<1>3. Moves(r, x) /\ req[r].pc = "new"
  BY <1>1, <1>2, CallActs DEF CreatePiece, Arrives
<1> QED BY <1>2, <1>3

LEMMA CreateFirstVersionMoves ==
  ASSUME PlacedInv, NEW r \in Requests, CreateFirstVersion(r)
  PROVE  \E new : /\ Moves(r, new) /\ Placed(new) /\ new.op = "create" /\ new.pc = "current"
                  /\ new.seen = Len(versions) + 1
<1>1. PICK n, x : /\ Becomes(r, x) /\ x = [req[r] EXCEPT !.pc = "current", !.seen = n]
                  /\ n = Len(versions) + 1
  BY DEF CreateFirstVersion
<1>2. IsRequest(req[r]) /\ req[r].op = "create" /\ req[r].pc = "version"
  BY DEF CreateFirstVersion, Doing, PlacedInv, RequestsInv
<1>3. /\ IsRequest(x) /\ x.op = "create" /\ x.user = req[r].user /\ x.pc = "current" /\ x.seen = n
  BY <1>1, <1>2 DEF IsRequest
<1>4. Moves(r, x) /\ Placed(x)
  BY <1>1, <1>2, <1>3, BecomesMoves DEF Over, Fits, Learning
<1> QED BY <1>1, <1>3, <1>4

LEMMA MakeReadyMoves ==
  ASSUME PlacedInv, NEW r \in Requests, MakeReady(r)
  PROVE  \E new : Moves(r, new) /\ Placed(new) /\ new.op = "create" /\ new.pc = "done"
<1>1. Goto(r, "done") /\ req[r].op = "create" /\ req[r].pc = "current"
  BY DEF MakeReady, Doing
<1>2. PICK new : /\ Moves(r, new) /\ new.pc = "done" /\ new.op = req[r].op
                 /\ new.user = req[r].user
  BY <1>1, GoesOn DEF PlacedInv, Over
<1>3. Placed(new)
  BY <1>1, <1>2 DEF Placed, Fits, Learning
<1> QED BY <1>1, <1>2, <1>3

\* What is edited, and by whom.
EditOf(text, pc, n, user) ==
  [NewRequest EXCEPT !.op = "edit", !.value = text, !.pc = pc, !.seen = n, !.user = user]

EditsAs(x, n) ==
  \/ \E text, pc, user : pc \in {"rules", "refused"} /\ x = EditOf(text, pc, n, user)
  \/ x = [NewRequest EXCEPT !.op = "edit", !.pc = "version", !.seen = n]

LEMMA EditContentMoves ==
  ASSUME NEW r \in Requests, EditContent(r)
  PROVE  \E new : /\ req[r].pc = "new"
                  /\ Moves(r, new) /\ Placed(new) /\ new.op = "edit"
                  /\ new.pc \in {"rules", "version", "refused"} /\ new.seen = NextNumber
<1>1. PICK x, n : Call(r, x) /\ EditsAs(x, n) /\ n = NextNumber
  <2>1. CASE Call(r, [NewRequest EXCEPT !.op = "edit", !.pc = "version", !.seen = NextNumber])
    BY <2>1 DEF EditsAs
  <2>2. CASE \E text \in {"plain", "term"} :
               Call(r, [NewRequest EXCEPT !.op = "edit", !.value = text,
                          !.pc = IF piece.type = "VIDEO" THEN "refused" ELSE "rules",
                          !.seen = NextNumber,
                          !.user = IF LearnsFrom(text) THEN "learns" ELSE "none"])
    <3>1. PICK text \in {"plain", "term"} :
            Call(r, EditOf(text, IF piece.type = "VIDEO" THEN "refused" ELSE "rules", NextNumber,
                           IF LearnsFrom(text) THEN "learns" ELSE "none"))
      BY <2>2 DEF EditOf
    <3>2. PICK pc, user : /\ pc = IF piece.type = "VIDEO" THEN "refused" ELSE "rules"
                          /\ user = IF LearnsFrom(text) THEN "learns" ELSE "none"
      OBVIOUS
    <3>3. pc \in {"rules", "refused"}
      BY <3>2
    <3>4. Call(r, EditOf(text, pc, NextNumber, user))
      BY <3>1, <3>2
    <3>5. EditsAs(EditOf(text, pc, NextNumber, user), NextNumber)
      BY <3>3 DEF EditsAs
    <3> QED BY <3>4, <3>5
  <2> QED BY <2>1, <2>2 DEF EditContent
<1>3. /\ Started(x, StudioOps) /\ Placed(x) /\ x.op = "edit" /\ x.seen = n
      /\ x.pc \in {"rules", "version", "refused"}
  BY <1>1 DEF EditsAs, EditOf, Started, IsRequest, NewRequest, Placed, Fits, Learning, StudioOps
<1>4. Moves(r, x) /\ req[r].pc = "new"
  BY <1>1, <1>3, CallActs DEF EditContent, Arrives
<1> QED BY <1>1, <1>3, <1>4

VariationsOf(text, n, pc, m) ==
  [NewRequest EXCEPT !.op = "vary", !.value = text, !.level = n, !.pc = pc, !.seen = m]

LEMMA CreateVariationsMoves ==
  ASSUME NEW r \in Requests, CreateVariations(r)
  PROVE  \E new : /\ req[r].pc = "new"
                  /\ Moves(r, new) /\ Placed(new) /\ new.op = "vary"
                  /\ new.pc \in {"rules", "refused"} /\ new.seen = Largest(Numbers(TRUE))
<1>1. PICK text, n, pc, m : /\ Call(r, VariationsOf(text, n, pc, m))
                            /\ pc \in {"rules", "refused"} /\ m = Largest(Numbers(TRUE))
  <2>1. PICK text, n :
          Call(r, VariationsOf(text, n, IF piece.type = "VIDEO" THEN "refused" ELSE "rules",
                               Largest(Numbers(TRUE))))
    BY DEF CreateVariations, VariationsOf
  <2>2. (IF piece.type = "VIDEO" THEN "refused" ELSE "rules") \in {"rules", "refused"}
    OBVIOUS
  <2> QED BY <2>1, <2>2
<1>2. PICK x : x = VariationsOf(text, n, pc, m)
  OBVIOUS
<1>3. /\ Started(x, StudioOps) /\ Placed(x) /\ x.op = "vary" /\ x.seen = m
      /\ x.pc \in {"rules", "refused"}
  BY <1>1, <1>2
     DEF VariationsOf, Started, IsRequest, NewRequest, Placed, Fits, Learning, StudioOps
<1>4. Moves(r, x) /\ req[r].pc = "new"
  BY <1>1, <1>2, <1>3, CallActs DEF CreateVariations, Arrives
<1> QED BY <1>1, <1>3, <1>4

LEMMA ValidateTextBodyMoves ==
  ASSUME PlacedInv, NEW r \in Requests, ValidateTextBody(r)
  PROVE  /\ req[r].pc = "rules"
         /\ \E new : /\ Moves(r, new) /\ Placed(new) /\ new.op = req[r].op
                     /\ new.op \in {"edit", "vary"} /\ new.pc \in {"refused", "version"}
                     /\ new.seen = req[r].seen
<1>1. PICK pc \in {"refused", "version"} : Goto(r, pc)
  BY DEF ValidateTextBody
<1>2. req[r].pc = "rules" /\ req[r].op \in {"edit", "vary"}
  BY DEF ValidateTextBody, PlacedInv, Placed, Fits
<1>3. PICK new : /\ Moves(r, new) /\ new.pc = pc /\ new.op = req[r].op
                 /\ new.user = req[r].user /\ new.seen = req[r].seen
  BY <1>1, <1>2, GoesOn DEF PlacedInv, Over
<1>4. Placed(new)
  BY <1>2, <1>3 DEF Placed, Fits, Learning
<1> QED BY <1>2, <1>3, <1>4

LEMMA CreateEditedMoves ==
  ASSUME PlacedInv, NEW r \in Requests, CreateEdited(r)
  PROVE  \E new : /\ Moves(r, new) /\ Placed(new) /\ new.op = "edit" /\ new.pc = "current"
                  /\ new.level = Len(versions) + 1
<1>1. PICK n, x : /\ Becomes(r, x) /\ x = [req[r] EXCEPT !.pc = "current", !.level = n]
                  /\ n = Len(versions) + 1
  BY DEF CreateEdited
<1>2. IsRequest(req[r]) /\ req[r].op = "edit" /\ req[r].pc = "version"
  BY DEF CreateEdited, Doing, PlacedInv, RequestsInv
<1>3. /\ IsRequest(x) /\ x.op = "edit" /\ x.user = req[r].user /\ x.pc = "current" /\ x.level = n
  BY <1>1, <1>2 DEF IsRequest
<1>4. Moves(r, x) /\ Placed(x)
  BY <1>1, <1>2, <1>3, BecomesMoves DEF Over, Fits, Learning
<1> QED BY <1>1, <1>3, <1>4

LEMMA CreateVariedMoves ==
  ASSUME PlacedInv, NEW r \in Requests, CreateVaried(r)
  PROVE  \E new : /\ Moves(r, new) /\ Placed(new) /\ new.op = "vary"
                  /\ new.pc \in {"done", "version"} /\ new.seen = req[r].seen
<1>1. PICK pc, x : /\ Becomes(r, x) /\ x = [req[r] EXCEPT !.pc = pc, !.level = @ - 1]
                   /\ pc \in {"done", "version"}
  <2>1. PICK pc \in {"done", "version"} : pc = IF req[r].level = 1 THEN "done" ELSE "version"
    OBVIOUS
  <2>2. Becomes(r, [req[r] EXCEPT !.pc = pc, !.level = @ - 1])
    BY <2>1 DEF CreateVaried
  <2> QED BY <2>2
<1>2. IsRequest(req[r]) /\ req[r].op = "vary" /\ req[r].pc = "version"
  BY DEF CreateVaried, Doing, PlacedInv, RequestsInv
<1>3. /\ IsRequest(x) /\ x.op = "vary" /\ x.user = req[r].user /\ x.pc = pc
      /\ x.seen = req[r].seen
  BY <1>1, <1>2 DEF IsRequest
<1>4. Moves(r, x) /\ Placed(x)
  BY <1>1, <1>2, <1>3, BecomesMoves DEF Over, Fits, Learning
<1> QED BY <1>1, <1>3, <1>4

LEMMA SelectVersionMoves ==
  ASSUME NEW r \in Requests, SelectVersion(r)
  PROVE  \E new : /\ req[r].pc = "new"
                  /\ Moves(r, new) /\ Placed(new) /\ new.op = "select" /\ new.pc = "current"
                  /\ new.level \in DOMAIN versions
<1>1. PICK i \in DOMAIN versions :
        Call(r, [NewRequest EXCEPT !.op = "select", !.pc = "current", !.level = i])
  BY DEF SelectVersion
<1>2. PICK x : Call(r, x) /\ x = [NewRequest EXCEPT !.op = "select", !.pc = "current", !.level = i]
  BY <1>1
<1>3. /\ Started(x, StudioOps) /\ Placed(x) /\ x.op = "select" /\ x.pc = "current"
      /\ x.level = i
  BY <1>2 DEF Started, IsRequest, NewRequest, Placed, Fits, Learning, StudioOps
<1>4. Moves(r, x) /\ req[r].pc = "new"
  BY <1>2, <1>3, CallActs DEF SelectVersion, Arrives
<1> QED BY <1>3, <1>4

LEMMA SetCurrentMoves ==
  ASSUME PlacedInv, NEW r \in Requests, SetCurrent(r)
  PROVE  /\ req[r].op \in {"edit", "select"} /\ req[r].pc = "current"
         /\ \E new : /\ Moves(r, new) /\ Placed(new) /\ new.op = req[r].op
                     /\ new.pc \in {"learn", "done"} /\ new.value = "edited"
<1>1. PICK pc, x : /\ Becomes(r, x) /\ x = [req[r] EXCEPT !.pc = pc, !.value = "edited"]
                   /\ pc \in {"learn", "done"} /\ (pc = "learn" => req[r].user = "learns")
  <2>1. PICK pc : pc = IF req[r].user = "learns" THEN "learn" ELSE "done"
    OBVIOUS
  <2>2. Becomes(r, [req[r] EXCEPT !.pc = pc, !.value = "edited"])
    BY <2>1 DEF SetCurrent
  <2>3. pc \in {"learn", "done"} /\ (pc = "learn" => req[r].user = "learns")
    BY <2>1
  <2> QED BY <2>2, <2>3
<1>2. IsRequest(req[r]) /\ req[r].op \in {"edit", "select"} /\ req[r].pc = "current"
  BY DEF SetCurrent, PlacedInv, RequestsInv
<1>3. /\ IsRequest(x) /\ x.op = req[r].op /\ x.user = req[r].user /\ x.pc = pc
      /\ x.value = "edited"
  BY <1>1, <1>2 DEF IsRequest
<1>4. Fits(x.op, pc)
  <2>1. req[r].op = "select" => req[r].user = "none"
    BY DEF PlacedInv, Placed
  <2>2. pc = "learn" => req[r].op = "edit"
    BY <1>1, <1>2, <2>1
  <2> QED BY <1>1, <1>3, <2>2 DEF Fits, Learning
<1>5. Moves(r, x) /\ Placed(x)
  BY <1>1, <1>2, <1>3, <1>4, BecomesMoves DEF Over
<1> QED BY <1>1, <1>2, <1>3, <1>5

LEMMA LearnFromEditMoves ==
  ASSUME PlacedInv, NEW r \in Requests, LearnFromEdit(r)
  PROVE  /\ req[r].op = "edit" /\ req[r].pc = "learn"
         /\ \E new : /\ Moves(r, new) /\ Placed(new) /\ new.op = "edit"
                     /\ \/ new.pc = "done"
                        \/ /\ new.pc = "store"
                           /\ \/ /\ req[r].value = "edited" /\ new.value = "removed"
                                 /\ new.account = RemovedKey
                              \/ /\ req[r].value # "added" /\ new.value = "added"
                                 /\ new.account = AddedKey
                           /\ \/ Found(new.account) = {} /\ new.seen = 0 /\ new.limit = 0
                              \/ /\ new.seen \in Found(new.account)
                                 /\ new.limit = memory[new.seen].evidence
<1>1. IsRequest(req[r]) /\ req[r].op = "edit" /\ req[r].pc = "learn"
  BY DEF LearnFromEdit, Doing, PlacedInv, RequestsInv
<1>2. ASSUME NEW value, NEW key, Observe(r, key, [req[r] EXCEPT !.value = value])
      PROVE  Observed(r, key, value)
  <2>1. PICK request : Observe(r, key, request) /\ request = [req[r] EXCEPT !.value = value]
    BY <1>2
  <2>2. /\ IsRequest(request) /\ request.op = req[r].op /\ request.user = req[r].user
        /\ request.value = value
    BY <1>1, <2>1 DEF IsRequest
  <2>3. Observed(r, key, request.value)
    BY <1>1, <2>1, <2>2, ObserveMoves
  <2> QED BY <2>2, <2>3
<1>3. CASE req[r].value = "edited" /\ Observe(r, RemovedKey, [req[r] EXCEPT !.value = "removed"])
  <2>1. Observed(r, RemovedKey, "removed")
    BY <1>2, <1>3
  <2> QED BY <1>1, <1>3, <2>1 DEF Observed
<1>4. CASE req[r].value # "added" /\ Observe(r, AddedKey, [req[r] EXCEPT !.value = "added"])
  <2>1. Observed(r, AddedKey, "added")
    BY <1>2, <1>4
  <2> QED BY <1>1, <1>4, <2>1 DEF Observed
<1>5. CASE Goto(r, "done")
  <2>1. PICK new : /\ Moves(r, new) /\ new.pc = "done" /\ new.op = req[r].op
                   /\ new.user = req[r].user
    BY <1>1, <1>5, GoesOn DEF PlacedInv, Over
  <2>2. Placed(new)
    BY <1>1, <2>1 DEF Placed, Fits, Learning
  <2> QED BY <1>1, <2>1, <2>2
<1> QED BY <1>3, <1>4, <1>5 DEF LearnFromEdit

LEMMA ArchiveMoves ==
  ASSUME NEW r \in Requests, Archive(r)
  PROVE  \E new : Moves(r, new) /\ Placed(new) /\ new.op = "archive" /\ new.pc = "done"
<1>1. PICK x : Call(r, x) /\ x = [NewRequest EXCEPT !.op = "archive", !.pc = "done"]
  BY DEF Archive
<1>2. Started(x, StudioOps) /\ Placed(x) /\ x.op = "archive" /\ x.pc = "done"
  BY <1>1 DEF Started, IsRequest, NewRequest, Placed, Fits, Learning, StudioOps
<1>3. Moves(r, x)
  BY <1>1, <1>2, CallActs DEF Archive
<1> QED BY <1>2, <1>3

LEMMA StudioActs ==
  ASSUME PlacedInv, StudioStep
  PROVE  \E r \in Requests : Act(r, StudioOps)
<1>1. ASSUME NEW r \in Requests, CreatePiece(r) \/ CreateFirstVersion(r) \/ MakeReady(r)
      PROVE  Act(r, StudioOps)
  BY <1>1, CreatePieceMoves, CreateFirstVersionMoves, MakeReadyMoves DEF Act, StudioOps
<1>2. ASSUME NEW r \in Requests, EditContent(r) \/ CreateVariations(r)
      PROVE  Act(r, StudioOps)
  BY <1>2, EditContentMoves, CreateVariationsMoves DEF Act, StudioOps
<1>3. ASSUME NEW r \in Requests, ValidateTextBody(r)
      PROVE  Act(r, StudioOps)
  BY <1>3, ValidateTextBodyMoves DEF Act, StudioOps
<1>4. ASSUME NEW r \in Requests, CreateEdited(r) \/ CreateVaried(r) \/ SelectVersion(r)
      PROVE  Act(r, StudioOps)
  BY <1>4, CreateEditedMoves, CreateVariedMoves, SelectVersionMoves DEF Act, StudioOps
<1>5. ASSUME NEW r \in Requests, SetCurrent(r) \/ LearnFromEdit(r) \/ Archive(r)
      PROVE  Act(r, StudioOps)
  BY <1>5, SetCurrentMoves, LearnFromEditMoves, ArchiveMoves DEF Act, StudioOps
<1> QED BY <1>1, <1>2, <1>3, <1>4, <1>5 DEF StudioStep

-----------------------------------------------------------------------------
(* The numbers of the versions.  A revision that is about to be written is     *)
(* numbered by what was read: what it could not read was written meanwhile.   *)

Revisions == {i \in DOMAIN versions : ~versions[i].label}

NumberedAs(r, x) ==
  /\ x.op = "create" /\ x.pc = "version" => \A i \in Revisions : Met(r, versions[i].by)
  /\ x.op = "create" /\ x.pc = "current" => x.seen \in DOMAIN versions
  /\ x.op = "edit" /\ x.pc \in {"rules", "version"} =>
       /\ x.seen \in Nat
       /\ \A i \in Revisions : versions[i].number >= x.seen => Met(r, versions[i].by)
  /\ x.op = "vary" /\ x.pc \in {"rules", "version"} =>
       x.seen \in Nat /\ (x.seen # 0 => \E i \in Revisions : versions[i].number = x.seen)
  /\ x.op \in {"edit", "select"} /\ x.pc = "current" => x.level \in DOMAIN versions

VersionsTyped ==
  /\ \E S : versions \in Seq(S)
  /\ \E b \in Nat : \A i \in DOMAIN versions : versions[i].number \in 0..b
  /\ piece = [status |-> piece.status, current |-> piece.current, type |-> piece.type]

NoneYet ==
  piece.status = "none" => versions = <<>> /\ \A r \in Requests : req[r].op \notin StudioOps

StudioInv ==
  /\ PlacedInv /\ VersionsTyped /\ NoneYet /\ RevisionsAreNumbered
  /\ \A r \in Requests : NumberedAs(r, req[r])

\* There is a largest number among them.
LEMMA LargestIs ==
  ASSUME VersionsTyped, NEW label \in BOOLEAN
  PROVE  /\ Largest(Numbers(label)) \in Numbers(label) \cup {0}
         /\ Largest(Numbers(label)) \in Nat
         /\ \A m \in Numbers(label) : m <= Largest(Numbers(label))
<1> DEFINE N == Numbers(label) \cup {0}
           Top(n) == n \in N /\ \A m \in N : m <= n
<1>1. PICK b \in Nat : \A i \in DOMAIN versions : versions[i].number \in 0..b
  BY DEF VersionsTyped
<1>0. PICK B : B = 0..b
  OBVIOUS
<1>2. N \subseteq 0..b /\ 0 \in N
  BY <1>1 DEF Numbers
<1>3. \E n : Top(n)
  <2> DEFINE Above == {n \in 0..b : \A m \in N : m <= n}
             F == {0..n : n \in Above}
  <2>1. b \in Above
    BY <1>2
  <2>2. IsFiniteSet(B)
    BY <1>0, FS_Interval
  <2>3. F \in SUBSET SUBSET B
    BY <1>0
  <2>4. F # {}
    BY <2>1
  <2>5. PICK A \in F : \A C \in F : C \subseteq A => C = A
    <3> HIDE DEF F
    <3> QED BY <2>2, <2>3, <2>4, LeastSubset
  <2>6. PICK n \in Above : A = 0..n
    BY <2>5
  <2>7. n \in N
    <3> SUFFICES ASSUME n \notin N PROVE FALSE
      OBVIOUS
    <3>1. n # 0
      BY <1>2
    <3>2. n - 1 \in Above
      BY <1>2, <3>1
    <3>3. 0..(n - 1) \in F /\ 0..(n - 1) \subseteq 0..n
      BY <3>2
    <3>4. 0..(n - 1) = 0..n
      BY <2>5, <2>6, <3>3
    <3> QED BY <3>1, <3>4
  <2> QED BY <2>6, <2>7
<1>4. Largest(Numbers(label)) = CHOOSE n : Top(n)
  BY DEF Largest
<1>5. Top(Largest(Numbers(label)))
  BY <1>3, <1>4
<1> QED BY <1>2, <1>5

\* What is appended comes after what there was.
LEMMA AppendedVersion ==
  ASSUME VersionsTyped, NEW v, v.number \in Nat, versions' = Append(versions, v),
         piece' = [status |-> piece'.status, current |-> piece'.current, type |-> piece'.type]
  PROVE  /\ VersionsTyped'
         /\ Len(versions) \in Nat /\ Len(versions') = Len(versions) + 1
         /\ DOMAIN versions = 1..Len(versions) /\ DOMAIN versions' = 1..(Len(versions) + 1)
         /\ \A i \in DOMAIN versions : versions'[i] = versions[i]
         /\ versions'[Len(versions) + 1] = v
<1>1. PICK S : versions \in Seq(S)
  BY DEF VersionsTyped
<1>2. PICK b \in Nat : \A i \in DOMAIN versions : versions[i].number \in 0..b
  BY DEF VersionsTyped
<1>3. versions \in Seq(S \cup {v}) /\ v \in S \cup {v}
  BY <1>1
<1>4. /\ versions' \in Seq(S \cup {v})
      /\ Len(versions) \in Nat /\ Len(versions') = Len(versions) + 1
      /\ DOMAIN versions = 1..Len(versions) /\ DOMAIN versions' = 1..(Len(versions) + 1)
      /\ \A i \in DOMAIN versions : versions'[i] = versions[i]
      /\ versions'[Len(versions) + 1] = v
  BY <1>3
<1>5. \A i \in DOMAIN versions' : versions'[i].number \in 0..(b + v.number)
  <2> SUFFICES ASSUME NEW i \in DOMAIN versions'
               PROVE  versions'[i].number \in 0..(b + v.number)
    OBVIOUS
  <2>1. CASE i = Len(versions) + 1
    BY <1>4, <2>1
  <2>2. CASE i \in DOMAIN versions
    BY <1>2, <1>4, <2>2
  <2> QED BY <1>4, <2>1, <2>2
<1>6. \E m \in Nat : \A i \in DOMAIN versions' : versions'[i].number \in 0..m
  <2>1. b + v.number \in Nat
    OBVIOUS
  <2> QED BY <1>5, <2>1
<1>7. VersionsTyped'
  BY <1>4, <1>6 DEF VersionsTyped
<1> QED BY <1>4, <1>7

\* The others go on with what they had read.
LEMMA NumberedRest ==
  ASSUME StudioInv, NEW r \in Requests, NEW new, Moves(r, new), NumberedAs(r, new)',
         \/ UNCHANGED versions
         \/ /\ r \in InFlight
            /\ DOMAIN versions \subseteq DOMAIN versions'
            /\ \A i \in DOMAIN versions : versions'[i] = versions[i]
            /\ \A i \in DOMAIN versions' \ DOMAIN versions : versions'[i].by = r
  PROVE  \A s \in Requests : NumberedAs(s, req[s])'
<1>1. /\ req'[r] = Left(new) /\ met \subseteq met'
      /\ \A s \in Requests : s # r => req'[s] = req[s]
  BY MovesRequest DEF StudioInv, PlacedInv
<1>2. \A s \in Requests : \A t : Met(s, t) => Met(s, t)'
  BY <1>1 DEF Met
<1>3. ASSUME NEW s \in Requests, s # r
      PROVE  NumberedAs(s, req[s])'
  <2>1. NumberedAs(s, req[s]) /\ req'[s] = req[s]
    BY <1>1, <1>3 DEF StudioInv
  <2>2. CASE UNCHANGED versions
    BY <1>2, <2>1, <2>2 DEF NumberedAs, Revisions
  <2>3. CASE /\ r \in InFlight
             /\ DOMAIN versions \subseteq DOMAIN versions'
             /\ \A i \in DOMAIN versions : versions'[i] = versions[i]
             /\ \A i \in DOMAIN versions' \ DOMAIN versions : versions'[i].by = r
    <3>1. req[s].pc \in {"rules", "version"} => Met(s, r)
      <4> SUFFICES ASSUME req[s].pc \in {"rules", "version"} PROVE Met(s, r)
        OBVIOUS
      <4>1. s \in InFlight
        BY DEF InFlight, Over
      <4> QED BY <1>3, <2>3, <4>1 DEF StudioInv, PlacedInv, RequestsInv, Met
    <3>2. req[s].pc \in {"rules", "version"} =>
            \A i \in Revisions' : i \in Revisions \/ Met(s, versions[i].by)'
      <4> SUFFICES ASSUME req[s].pc \in {"rules", "version"}, NEW i \in Revisions',
                          i \notin Revisions
                   PROVE  Met(s, versions[i].by)'
        OBVIOUS
      <4>1. versions'[i].by = r
        BY <2>3 DEF Revisions
      <4>2. Met(s, r)'
        BY <1>2, <3>1
      <4> QED BY <4>1, <4>2 DEF Met
    <3>3. \A i \in Revisions : i \in Revisions' /\ versions'[i] = versions[i]
      BY <2>3 DEF Revisions
    <3>4. req[s].pc \in {"rules", "version"} =>
            \A i \in Revisions' : /\ i \in Revisions /\ versions'[i] = versions[i]
                                  \/ Met(s, versions[i].by)'
      BY <3>2, <3>3
    <3> QED BY <1>2, <2>1, <2>3, <3>3, <3>4 DEF NumberedAs
  <2> QED BY <2>2, <2>3
<1>4. NumberedAs(r, req[r])'
  <2>1. CASE new.pc \in {"done", "refused"}
    <3>1. req'[r].pc = new.pc
      BY MovesRequest DEF StudioInv, PlacedInv
    <3> QED BY <2>1, <3>1 DEF NumberedAs
  <2>2. CASE new.pc \notin {"done", "refused"}
    <3>1. req'[r] = new
      BY <1>1, <2>2, LeftIsRequest DEF Moves
    <3> QED BY <3>1 DEF NumberedAs
  <2> QED BY <2>1, <2>2
<1> QED BY <1>3, <1>4

\* A step that writes no version.
LEMMA NothingWritten ==
  ASSUME StudioInv, NEW r \in Requests, NEW new, Moves(r, new), Placed(new), NumberedAs(r, new)',
         UNCHANGED versions,
         piece' = [status |-> piece'.status, current |-> piece'.current, type |-> piece'.type],
         piece'.current \in 0..Len(versions), piece'.status = "READY" => piece'.current # 0,
         piece'.status = "none" => piece.status = "none" /\ new.op \notin StudioOps
  PROVE  StudioInv'
<1>1. PlacedInv'
  BY PlacedStep DEF StudioInv
<1>2. VersionsTyped'
  BY DEF StudioInv, VersionsTyped
<1>3. NoneYet'
  BY MovesRequest DEF StudioInv, PlacedInv, NoneYet
<1>4. met \subseteq met'
  BY MovesRequest DEF StudioInv, PlacedInv
<1>5. RevisionsAreNumbered'
  BY <1>4 DEF StudioInv, RevisionsAreNumbered, Met
<1>6. \A s \in Requests : NumberedAs(s, req[s])'
  BY NumberedRest
<1> QED BY <1>1, <1>2, <1>3, <1>5, <1>6 DEF StudioInv

\* What the others do.
LEMMA WrittenElsewhere ==
  ASSUME StudioInv, NEW r \in Requests, NEW new, Moves(r, new), Placed(new), UNCHANGED studioVars,
         new.op \in StudioOps =>
           req[r].op \in StudioOps /\ new.op = "edit" /\ new.pc \in Learning \cup {"done"}
  PROVE  StudioInv'
<1>1. NumberedAs(r, new)'
  BY DEF NumberedAs, StudioOps, Learning
<1>2. /\ UNCHANGED <<piece, versions>>
      /\ piece' = [status |-> piece'.status, current |-> piece'.current, type |-> piece'.type]
      /\ piece'.current \in 0..Len(versions) /\ (piece'.status = "READY" => piece'.current # 0)
      /\ piece'.status = "none" => piece.status = "none" /\ new.op \notin StudioOps
  BY DEF StudioInv, VersionsTyped, RevisionsAreNumbered, NoneYet, studioVars
<1> QED BY <1>1, <1>2, NothingWritten

\* A step that writes one.
LEMMA VersionWritten ==
  ASSUME StudioInv, NEW r \in Requests, NEW new, Moves(r, new), Placed(new), new.op \in StudioOps,
         r \in InFlight, NEW v, v.number \in Nat, v.by = r, versions' = Append(versions, v),
         UNCHANGED piece, req[r].op \in StudioOps, NumberedAs(r, new)',
         \/ ~v.label /\ \A i \in Revisions : versions[i].number = v.number => Met(r, versions[i].by)
         \/ v.label /\ (v.number # 0 => \E i \in Revisions : versions[i].number = v.number)
  PROVE  StudioInv'
<1>1. PlacedInv'
  BY PlacedStep DEF StudioInv
<1>2. /\ VersionsTyped'
      /\ Len(versions) \in Nat /\ Len(versions') = Len(versions) + 1
      /\ DOMAIN versions = 1..Len(versions) /\ DOMAIN versions' = 1..(Len(versions) + 1)
      /\ \A i \in DOMAIN versions : versions'[i] = versions[i]
      /\ versions'[Len(versions) + 1] = v
  <2>1. piece' = [status |-> piece'.status, current |-> piece'.current, type |-> piece'.type]
    BY DEF StudioInv, VersionsTyped
  <2>2. VersionsTyped
    BY DEF StudioInv
  <2> QED BY <2>1, <2>2, AppendedVersion
<1>3. /\ DOMAIN versions \subseteq DOMAIN versions'
      /\ \A i \in DOMAIN versions' : i \in DOMAIN versions \/ i = Len(versions) + 1
      /\ \A i \in DOMAIN versions' \ DOMAIN versions : versions'[i].by = r
  BY <1>2
<1>4. NoneYet'
  BY MovesRequest DEF StudioInv, PlacedInv, NoneYet
<1>5. met \subseteq met'
  BY MovesRequest DEF StudioInv, PlacedInv
<1>6. RevisionsAreNumbered'
  <2>1. ASSUME NEW i \in DOMAIN versions', NEW j \in DOMAIN versions',
               ~versions'[i].label, ~versions'[j].label, versions'[i].number = versions'[j].number,
               i # j
        PROVE  Met(versions[i].by, versions[j].by)'
    <3>1. CASE i \in DOMAIN versions /\ j \in DOMAIN versions
      <4>1. Met(versions[i].by, versions[j].by)
        BY <1>2, <2>1, <3>1 DEF StudioInv, RevisionsAreNumbered
      <4> QED BY <1>2, <1>5, <3>1, <4>1 DEF Met
    <3>2. CASE i = Len(versions) + 1 /\ j \in DOMAIN versions
      <4>1. Met(r, versions[j].by)
        BY <1>2, <2>1, <3>2 DEF Revisions
      <4> QED BY <1>2, <1>5, <3>2, <4>1 DEF Met
    <3>3. CASE j = Len(versions) + 1 /\ i \in DOMAIN versions
      <4>1. Met(r, versions[i].by)
        BY <1>2, <2>1, <3>3 DEF Revisions
      <4>2. {r, versions[i].by} = {versions[i].by, r}
        OBVIOUS
      <4> QED BY <1>2, <1>5, <3>3, <4>1, <4>2 DEF Met
    <3> QED BY <1>3, <2>1, <3>1, <3>2, <3>3
  <2>2. ASSUME NEW i \in DOMAIN versions', versions'[i].label, versions'[i].number # 0
        PROVE  \E j \in DOMAIN versions' : /\ ~versions'[j].label
                                           /\ versions'[j].number = versions'[i].number
    <3>1. CASE i \in DOMAIN versions
      <4>1. PICK j \in DOMAIN versions : /\ ~versions[j].label
                                         /\ versions[j].number = versions[i].number
        BY <1>2, <2>2, <3>1 DEF StudioInv, RevisionsAreNumbered
      <4> QED BY <1>2, <1>3, <3>1, <4>1
    <3>2. CASE i = Len(versions) + 1
      <4>1. PICK j \in Revisions : versions[j].number = v.number
        BY <1>2, <2>2, <3>2
      <4> QED BY <1>2, <1>3, <3>2, <4>1 DEF Revisions
    <3> QED BY <1>3, <3>1, <3>2
  <2>3. /\ piece'.current \in 0..Len(versions') /\ (piece'.status = "READY" => piece'.current # 0)
    BY <1>2 DEF StudioInv, RevisionsAreNumbered
  <2> QED BY <2>1, <2>2, <2>3 DEF RevisionsAreNumbered
<1>7. \A s \in Requests : NumberedAs(s, req[s])'
  BY <1>2, <1>3, NumberedRest
<1> QED BY <1>1, <1>2, <1>4, <1>6, <1>7 DEF StudioInv

-----------------------------------------------------------------------------
LEMMA PieceKept ==
  ASSUME StudioInv, UNCHANGED studioVars
  PROVE  /\ UNCHANGED versions
         /\ piece' = [status |-> piece'.status, current |-> piece'.current, type |-> piece'.type]
         /\ piece'.current \in 0..Len(versions) /\ (piece'.status = "READY" => piece'.current # 0)
         /\ piece'.status = "none" => piece.status = "none"
         /\ Revisions' = Revisions
  BY DEF StudioInv, VersionsTyped, RevisionsAreNumbered, studioVars, Revisions

LEMMA CreatePieceNumbers ==
  ASSUME StudioInv, NEW r \in Requests, CreatePiece(r)
  PROVE  StudioInv'
<1>1. PICK new : /\ Moves(r, new) /\ Placed(new) /\ new.op = "create" /\ new.pc = "version"
  BY CreatePieceMoves
<1>2. /\ piece.status = "none" /\ piece' = [piece EXCEPT !.status = "DRAFT"] /\ UNCHANGED versions
  BY DEF CreatePiece
<1>3. versions = <<>>
  BY <1>2 DEF StudioInv, NoneYet
<1>4. NumberedAs(r, new)'
  BY <1>1, <1>2, <1>3 DEF NumberedAs, Revisions
<1>5. /\ piece' = [status |-> piece'.status, current |-> piece'.current, type |-> piece'.type]
      /\ piece'.status = "DRAFT" /\ piece'.current = piece.current
  BY <1>2 DEF StudioInv, VersionsTyped
<1>6. piece'.current \in 0..Len(versions)
  BY <1>5 DEF StudioInv, RevisionsAreNumbered
<1> QED BY <1>1, <1>2, <1>4, <1>5, <1>6, NothingWritten

LEMMA CreateFirstVersionNumbers ==
  ASSUME StudioInv, NEW r \in Requests, CreateFirstVersion(r)
  PROVE  StudioInv'
<1>1. PICK new : /\ Moves(r, new) /\ Placed(new) /\ new.op = "create" /\ new.pc = "current"
                 /\ new.seen = Len(versions) + 1
  BY CreateFirstVersionMoves DEF StudioInv
<1>2. /\ req[r].op = "create" /\ req[r].pc = "version" /\ UNCHANGED piece
  BY DEF CreateFirstVersion, Doing
<1>3. PICK v : v = Version(1, FALSE, "plain", r) /\ versions' = Append(versions, v)
  BY DEF CreateFirstVersion
<1>4. v.number = 1 /\ v.by = r /\ ~v.label
  BY <1>3 DEF Version
<1>5. DOMAIN versions' = 1..(Len(versions) + 1) /\ Len(versions) \in Nat
  BY <1>2, <1>3, <1>4, AppendedVersion DEF StudioInv, VersionsTyped
<1>6. NumberedAs(r, new)'
  BY <1>1, <1>5 DEF NumberedAs
<1>7. \A i \in Revisions : Met(r, versions[i].by)
  BY <1>2 DEF StudioInv, NumberedAs
<1>8. r \in InFlight
  BY <1>2 DEF InFlight, Over
<1>9. new.op \in StudioOps /\ req[r].op \in StudioOps
  BY <1>1, <1>2 DEF StudioOps
<1>10. v.number \in Nat
  BY <1>4
<1> QED BY <1>1, <1>2, <1>3, <1>4, <1>6, <1>7, <1>8, <1>9, <1>10, VersionWritten

LEMMA MakeReadyNumbers ==
  ASSUME StudioInv, NEW r \in Requests, MakeReady(r)
  PROVE  StudioInv'
<1>1. PICK new : Moves(r, new) /\ Placed(new) /\ new.op = "create" /\ new.pc = "done"
  BY MakeReadyMoves DEF StudioInv
<1>2. /\ req[r].op = "create" /\ req[r].pc = "current" /\ UNCHANGED versions
      /\ piece' = [piece EXCEPT !.current = req[r].seen, !.status = "READY"]
  BY DEF MakeReady, Doing
<1>3. req[r].seen \in DOMAIN versions
  BY <1>2 DEF StudioInv, NumberedAs
<1>4. NumberedAs(r, new)'
  BY <1>1 DEF NumberedAs
<1>5. /\ piece' = [status |-> piece'.status, current |-> piece'.current, type |-> piece'.type]
      /\ piece'.status = "READY" /\ piece'.current = req[r].seen
  BY <1>2 DEF StudioInv, VersionsTyped
<1>6. piece'.current \in 0..Len(versions) /\ piece'.current # 0
  BY <1>3, <1>5 DEF StudioInv, VersionsTyped
<1> QED BY <1>1, <1>2, <1>4, <1>5, <1>6, NothingWritten

LEMMA EditContentNumbers ==
  ASSUME StudioInv, NEW r \in Requests, EditContent(r)
  PROVE  StudioInv'
<1>1. PICK new : /\ Moves(r, new) /\ Placed(new) /\ new.op = "edit"
                 /\ new.pc \in {"rules", "version", "refused"} /\ new.seen = NextNumber
  BY EditContentMoves
<1>2. UNCHANGED studioVars /\ piece.status # "none"
  BY DEF EditContent
<1>3. PICK N, n : N = Numbers(FALSE) /\ n = Largest(N) /\ n \in Nat /\ \A m \in N : m <= n
  BY LargestIs DEF StudioInv
<1>4. new.seen = n + 1
  BY <1>1, <1>3 DEF NextNumber
<1>9. n \in Nat /\ \A m \in N : m <= n
  BY <1>3
<1>5. \A i \in Revisions : versions[i].number \in N /\ versions[i].number \in Nat
  BY <1>3 DEF StudioInv, VersionsTyped, Numbers, Revisions
<1>6. new.seen \in Nat /\ \A i \in Revisions : ~(versions[i].number >= new.seen)
  <2>1. new.seen \in Nat
    BY <1>4, <1>9
  <2>2. ASSUME NEW i \in Revisions
        PROVE  ~(versions[i].number >= new.seen)
    <3>1. PICK k \in N : k = versions[i].number /\ k \in Nat
      BY <1>5
    <3>2. k <= n
      BY <1>9
    <3> QED BY <1>4, <1>9, <3>1, <3>2
  <2> QED BY <2>1, <2>2
<1>7. NumberedAs(r, new)'
  <2>1. UNCHANGED versions /\ Revisions' = Revisions
    BY <1>2, PieceKept
  <2>2. \A i \in Revisions' : versions'[i].number >= new.seen => Met(r, versions[i].by)'
    BY <1>6, <2>1
  <2> QED BY <1>1, <1>6, <2>2 DEF NumberedAs
<1> QED BY <1>1, <1>2, <1>7, PieceKept, NothingWritten DEF studioVars

LEMMA CreateVariationsNumbers ==
  ASSUME StudioInv, NEW r \in Requests, CreateVariations(r)
  PROVE  StudioInv'
<1>1. PICK new : /\ Moves(r, new) /\ Placed(new) /\ new.op = "vary"
                 /\ new.pc \in {"rules", "refused"} /\ new.seen = Largest(Numbers(TRUE))
  BY CreateVariationsMoves
<1>2. UNCHANGED studioVars /\ piece.status # "none"
  BY DEF CreateVariations
<1>3. /\ Largest(Numbers(TRUE)) \in Numbers(TRUE) \cup {0}
      /\ Largest(Numbers(TRUE)) \in Nat
  BY LargestIs DEF StudioInv
<1>4. new.seen # 0 => \E i \in Revisions : versions[i].number = new.seen
  <2> SUFFICES ASSUME new.seen # 0 PROVE \E i \in Revisions : versions[i].number = new.seen
    OBVIOUS
  <2>1. PICK i \in DOMAIN versions : versions[i].number = new.seen
    BY <1>1, <1>3 DEF Numbers
  <2> QED BY <2>1 DEF StudioInv, RevisionsAreNumbered, Revisions
<1>5. NumberedAs(r, new)'
  BY <1>1, <1>2, <1>3, <1>4 DEF NumberedAs, Revisions, studioVars
<1> QED BY <1>1, <1>2, <1>5, PieceKept, NothingWritten DEF studioVars

LEMMA ValidateTextBodyNumbers ==
  ASSUME StudioInv, NEW r \in Requests, ValidateTextBody(r)
  PROVE  StudioInv'
<1>1. PICK new : /\ Moves(r, new) /\ Placed(new) /\ new.op = req[r].op
                 /\ new.op \in {"edit", "vary"} /\ new.pc \in {"refused", "version"}
                 /\ new.seen = req[r].seen
  BY ValidateTextBodyMoves DEF StudioInv
<1>2. UNCHANGED studioVars /\ req[r].pc = "rules"
  BY DEF ValidateTextBody
<1>3. NumberedAs(r, req[r]) /\ met \subseteq met'
  BY <1>1, MovesRequest DEF StudioInv, PlacedInv
<1>4. NumberedAs(r, new)'
  BY <1>1, <1>2, <1>3 DEF NumberedAs, Revisions, studioVars, Met
<1>5. piece.status # "none"
  BY <1>1 DEF StudioInv, NoneYet, StudioOps
<1> QED BY <1>1, <1>2, <1>4, <1>5, PieceKept, NothingWritten DEF studioVars

LEMMA CreateEditedNumbers ==
  ASSUME StudioInv, NEW r \in Requests, CreateEdited(r)
  PROVE  StudioInv'
<1>1. PICK new : /\ Moves(r, new) /\ Placed(new) /\ new.op = "edit" /\ new.pc = "current"
                 /\ new.level = Len(versions) + 1
  BY CreateEditedMoves DEF StudioInv
<1>2. /\ req[r].op = "edit" /\ req[r].pc = "version" /\ UNCHANGED piece
  BY DEF CreateEdited, Doing
<1>3. PICK v : v = Written(r, req[r].seen, FALSE) /\ versions' = Append(versions, v)
  BY DEF CreateEdited
<1>4. v.number = req[r].seen /\ v.by = r /\ ~v.label
  BY <1>3 DEF Written, Version
<1>5. /\ req[r].seen \in Nat
      /\ \A i \in Revisions : versions[i].number >= req[r].seen => Met(r, versions[i].by)
  BY <1>2 DEF StudioInv, NumberedAs
<1>6. DOMAIN versions' = 1..(Len(versions) + 1) /\ Len(versions) \in Nat
  <2>1. v.number \in Nat
    BY <1>4, <1>5
  <2>2. piece' = [status |-> piece'.status, current |-> piece'.current, type |-> piece'.type]
    BY <1>2 DEF StudioInv, VersionsTyped
  <2> QED BY <1>3, <2>1, <2>2, AppendedVersion DEF StudioInv
<1>7. NumberedAs(r, new)'
  BY <1>1, <1>6 DEF NumberedAs
<1>8. \A i \in Revisions : versions[i].number = v.number => Met(r, versions[i].by)
  BY <1>4, <1>5
<1>9. r \in InFlight
  BY <1>2 DEF InFlight, Over
<1> QED BY <1>1, <1>2, <1>3, <1>4, <1>5, <1>7, <1>8, <1>9, VersionWritten DEF StudioOps

LEMMA CreateVariedNumbers ==
  ASSUME StudioInv, NEW r \in Requests, CreateVaried(r)
  PROVE  StudioInv'
<1>1. PICK new : /\ Moves(r, new) /\ Placed(new) /\ new.op = "vary"
                 /\ new.pc \in {"done", "version"} /\ new.seen = req[r].seen
  BY CreateVariedMoves DEF StudioInv
<1>2. /\ req[r].op = "vary" /\ req[r].pc = "version" /\ UNCHANGED piece
  BY DEF CreateVaried, Doing
<1>3. PICK v : v = Written(r, req[r].seen, TRUE) /\ versions' = Append(versions, v)
  BY DEF CreateVaried
<1>4. v.number = req[r].seen /\ v.by = r /\ v.label
  BY <1>3 DEF Written, Version
<1>5. /\ req[r].seen \in Nat
      /\ req[r].seen # 0 => \E i \in Revisions : versions[i].number = req[r].seen
  BY <1>2 DEF StudioInv, NumberedAs
<1>6. /\ DOMAIN versions \subseteq DOMAIN versions'
      /\ \A i \in DOMAIN versions : versions'[i] = versions[i]
  <2>1. v.number \in Nat
    BY <1>4, <1>5
  <2>2. piece' = [status |-> piece'.status, current |-> piece'.current, type |-> piece'.type]
    BY <1>2 DEF StudioInv, VersionsTyped
  <2>3. /\ Len(versions) \in Nat
        /\ DOMAIN versions = 1..Len(versions) /\ DOMAIN versions' = 1..(Len(versions) + 1)
        /\ \A i \in DOMAIN versions : versions'[i] = versions[i]
    BY <1>3, <2>1, <2>2, AppendedVersion DEF StudioInv
  <2> QED BY <2>3
<1>7. \A i \in Revisions : i \in Revisions' /\ versions'[i].number = versions[i].number
  BY <1>6 DEF Revisions
<1>8. NumberedAs(r, new)'
  BY <1>1, <1>5, <1>7 DEF NumberedAs
<1>9. r \in InFlight
  BY <1>2 DEF InFlight, Over
<1> QED BY <1>1, <1>2, <1>3, <1>4, <1>5, <1>8, <1>9, VersionWritten DEF StudioOps

LEMMA SelectVersionNumbers ==
  ASSUME StudioInv, NEW r \in Requests, SelectVersion(r)
  PROVE  StudioInv'
<1>1. PICK new : /\ Moves(r, new) /\ Placed(new) /\ new.op = "select" /\ new.pc = "current"
                 /\ new.level \in DOMAIN versions
  BY SelectVersionMoves
<1>2. UNCHANGED studioVars
  BY DEF SelectVersion
<1>3. piece.status # "none"
  BY <1>1 DEF StudioInv, NoneYet
<1>4. NumberedAs(r, new)'
  BY <1>1, <1>2 DEF NumberedAs, studioVars
<1> QED BY <1>1, <1>2, <1>3, <1>4, PieceKept, NothingWritten DEF studioVars

LEMMA SetCurrentNumbers ==
  ASSUME StudioInv, NEW r \in Requests, SetCurrent(r)
  PROVE  StudioInv'
<1>1. /\ req[r].op \in {"edit", "select"} /\ req[r].pc = "current"
      /\ \E new : /\ Moves(r, new) /\ Placed(new) /\ new.op = req[r].op
                  /\ new.pc \in {"learn", "done"} /\ new.value = "edited"
  BY SetCurrentMoves DEF StudioInv
<1>2. PICK new : /\ Moves(r, new) /\ Placed(new) /\ new.op = req[r].op
                 /\ new.pc \in {"learn", "done"}
  BY <1>1
<1>3. UNCHANGED versions /\ piece' = [piece EXCEPT !.current = req[r].level]
  BY DEF SetCurrent
<1>4. req[r].level \in DOMAIN versions
  BY <1>1 DEF StudioInv, NumberedAs
<1>5. NumberedAs(r, new)'
  BY <1>2 DEF NumberedAs
<1>6. /\ piece' = [status |-> piece'.status, current |-> piece'.current, type |-> piece'.type]
      /\ piece'.status = piece.status /\ piece'.current = req[r].level
  BY <1>3 DEF StudioInv, VersionsTyped
<1>7. piece'.current \in 0..Len(versions) /\ piece'.current # 0
  BY <1>4, <1>6 DEF StudioInv, VersionsTyped
<1>8. piece.status # "none"
  BY <1>1 DEF StudioInv, NoneYet, StudioOps
<1> QED BY <1>2, <1>3, <1>5, <1>6, <1>7, <1>8, NothingWritten

LEMMA LearnFromEditNumbers ==
  ASSUME StudioInv, NEW r \in Requests, LearnFromEdit(r)
  PROVE  StudioInv'
<1>1. /\ req[r].op = "edit"
      /\ \E new : Moves(r, new) /\ Placed(new) /\ new.op = "edit" /\ new.pc \in {"done", "store"}
  BY LearnFromEditMoves DEF StudioInv
<1>2. UNCHANGED studioVars
  BY DEF LearnFromEdit
<1> QED BY <1>1, <1>2, WrittenElsewhere DEF StudioOps, Learning

LEMMA ArchiveNumbers ==
  ASSUME StudioInv, NEW r \in Requests, Archive(r)
  PROVE  StudioInv'
<1>1. PICK new : Moves(r, new) /\ Placed(new) /\ new.op = "archive" /\ new.pc = "done"
  BY ArchiveMoves
<1>2. UNCHANGED versions /\ piece' = [piece EXCEPT !.status = "ARCHIVED"]
  BY DEF Archive
<1>3. NumberedAs(r, new)'
  BY <1>1 DEF NumberedAs
<1>4. /\ piece' = [status |-> piece'.status, current |-> piece'.current, type |-> piece'.type]
      /\ piece'.status = "ARCHIVED" /\ piece'.current = piece.current
  BY <1>2 DEF StudioInv, VersionsTyped
<1>5. piece'.current \in 0..Len(versions)
  BY <1>4 DEF StudioInv, RevisionsAreNumbered
<1> QED BY <1>1, <1>2, <1>3, <1>4, <1>5, NothingWritten

LEMMA StudioNumbers ==
  ASSUME StudioInv, StudioStep
  PROVE  StudioInv'
<1> QED BY CreatePieceNumbers, CreateFirstVersionNumbers, MakeReadyNumbers, EditContentNumbers,
           CreateVariationsNumbers, ValidateTextBodyNumbers, CreateEditedNumbers,
           CreateVariedNumbers, SelectVersionNumbers, SetCurrentNumbers, LearnFromEditNumbers,
           ArchiveNumbers DEF StudioStep

LEMMA StudioInitNumbers ==
  ASSUME RequestsInit, StudioInit
  PROVE  StudioInv
<1>1. PlacedInv /\ \A r \in Requests : req[r].pc = "new" /\ req[r].op = "none"
  BY PlacedInit
<1>2. \A r \in Requests : NumberedAs(r, req[r])
  BY <1>1 DEF NumberedAs
<1>3. PICK type \in {"TEXT", "VIDEO"} :
        \/ piece = [status |-> "none", current |-> 0, type |-> type] /\ versions = <<>>
        \/ /\ piece = [status |-> "READY", current |-> 1, type |-> type]
           /\ \E v : /\ versions = <<v>> /\ v.number = 1 /\ v.label = FALSE
        \/ /\ piece = [status |-> "READY", current |-> 2, type |-> type]
           /\ \E v, w : /\ versions = <<v, w>> /\ v.number = 1 /\ v.label = FALSE
                        /\ w.number = 2 /\ w.label = FALSE
  BY DEF StudioInit, NoPiece, Version
<1>4. CASE piece = [status |-> "none", current |-> 0, type |-> type] /\ versions = <<>>
  <2>1. VersionsTyped
    <3>1. versions \in Seq({}) /\ 0 \in Nat /\ \A i \in DOMAIN versions : versions[i].number \in 0..0
      BY <1>4
    <3> QED BY <1>4, <3>1 DEF VersionsTyped
  <2>2. RevisionsAreNumbered /\ NoneYet
    BY <1>1, <1>4 DEF RevisionsAreNumbered, NoneYet, StudioOps
  <2> QED BY <1>1, <1>2, <2>1, <2>2 DEF StudioInv
<1>5. CASE /\ piece = [status |-> "READY", current |-> 1, type |-> type]
           /\ \E v : /\ versions = <<v>> /\ v.number = 1 /\ v.label = FALSE
  <2>1. PICK v : versions = <<v>> /\ v.number = 1 /\ v.label = FALSE
    BY <1>5
  <2>2. VersionsTyped
    <3>1. versions \in Seq({v}) /\ 1 \in Nat /\ \A i \in DOMAIN versions : versions[i].number \in 0..1
      BY <2>1
    <3> QED BY <1>5, <3>1 DEF VersionsTyped
  <2>3. RevisionsAreNumbered /\ NoneYet
    BY <1>5, <2>1 DEF RevisionsAreNumbered, NoneYet
  <2> QED BY <1>1, <1>2, <2>2, <2>3 DEF StudioInv
<1>6. CASE /\ piece = [status |-> "READY", current |-> 2, type |-> type]
           /\ \E v, w : /\ versions = <<v, w>> /\ v.number = 1 /\ v.label = FALSE
                        /\ w.number = 2 /\ w.label = FALSE
  <2>1. PICK v, w : /\ versions = <<v, w>> /\ v.number = 1 /\ v.label = FALSE
                    /\ w.number = 2 /\ w.label = FALSE
    BY <1>6
  <2>2. VersionsTyped
    <3>1. /\ versions \in Seq({v, w}) /\ 2 \in Nat
          /\ \A i \in DOMAIN versions : versions[i].number \in 0..2
      BY <2>1
    <3> QED BY <1>6, <3>1 DEF VersionsTyped
  <2>3. RevisionsAreNumbered /\ NoneYet
    BY <1>6, <2>1 DEF RevisionsAreNumbered, NoneYet
  <2> QED BY <1>1, <1>2, <2>2, <2>3 DEF StudioInv
<1> QED BY <1>3, <1>4, <1>5, <1>6

LEMMA StudioRest ==
  ASSUME StudioInv, UNCHANGED <<requestVars, studioVars>>
  PROVE  StudioInv'
<1>1. PlacedInv'
  BY PlacedRest DEF StudioInv
<1>2. UNCHANGED <<piece, versions, req, met>>
  BY DEF studioVars, requestVars
<1>3. (VersionsTyped /\ NoneYet)'
  BY <1>2 DEF StudioInv, VersionsTyped, NoneYet
<1>4. RevisionsAreNumbered'
  BY <1>2 DEF StudioInv, RevisionsAreNumbered, Met
<1>5. \A r \in Requests : NumberedAs(r, req[r])'
  BY <1>2 DEF StudioInv, NumberedAs, Revisions, Met
<1> QED BY <1>1, <1>3, <1>4, <1>5 DEF StudioInv

\* What the requests of the other components do, which leave the memory and the pieces alone.
OtherOps == OptimizerOps \cup ProductOps \cup ReviewOps

LEMMA OthersAct ==
  ASSUME PlacedInv, OptimizerStep \/ ProductStep \/ ModerationStep
  PROVE  UNCHANGED requestVars \/ \E r \in Requests : Act(r, OtherOps)
  BY OptimizerActs, ProductActs, ReviewActs DEF Act, OtherOps

LEMMA StudioNext ==
  ASSUME StudioInv, [Next]_vars
  PROVE  StudioInv'
<1>1. CASE MemoryStep /\ UNCHANGED studioVars
  <2>1. PICK r \in Requests : Learns(r)
    BY <1>1, MemoryLearns DEF StudioInv
  <2>2. PICK new : /\ Moves(r, new) /\ Placed(new) /\ new.op \in MemoryOps \cup {"edit"}
                   /\ new.op = "edit" => req[r].op = "edit" /\ new.pc \in Learning \cup {"done"}
    BY <2>1 DEF Learns
  <2>3. new.op \in StudioOps =>
          req[r].op \in StudioOps /\ new.op = "edit" /\ new.pc \in Learning \cup {"done"}
    BY <2>2 DEF MemoryOps, StudioOps
  <2> QED BY <1>1, <2>2, <2>3, WrittenElsewhere
<1>2. CASE StudioStep
  BY <1>2, StudioNumbers
<1>3. CASE (OptimizerStep \/ ProductStep \/ ModerationStep) /\ UNCHANGED studioVars
  <2>1. CASE UNCHANGED requestVars
    BY <1>3, <2>1, StudioRest
  <2>2. ASSUME NEW r \in Requests, Act(r, OtherOps)
        PROVE  StudioInv'
    <3>1. PICK new : Moves(r, new) /\ Placed(new) /\ new.op \in OtherOps
      BY <2>2 DEF Act
    <3>2. new.op \notin StudioOps
      BY <3>1 DEF OtherOps, OptimizerOps, ProductOps, ReviewOps, StudioOps
    <3> QED BY <1>3, <3>1, <3>2, WrittenElsewhere
  <2> QED BY <1>3, <2>1, <2>2, OthersAct DEF StudioInv
<1>4. CASE UNCHANGED vars
  BY <1>4, StudioRest DEF vars
<1> QED BY <1>1, <1>2, <1>3, <1>4 DEF Next

\* The revisions of a piece are numbered one after the other, whatever is shown, chosen or
\* varied in between: two have the same number only if they were made at the same time.
THEOREM RevisionsNumbered == Spec => []RevisionsAreNumbered
<1>1. Init => StudioInv
  BY StudioInitNumbers DEF Init
<1>2. StudioInv /\ [Next]_vars => StudioInv'
  BY StudioNext
<1>3. StudioInv => RevisionsAreNumbered
  BY DEF StudioInv
<1> QED BY <1>1, <1>2, <1>3, PTL DEF Spec

-----------------------------------------------------------------------------
(* The recommendations.  Who is about to decide one has met all who decided it   *)
(* since it was read; who measures one has read that it was applied.           *)

IsRecommendation(x) ==
  x = [status |-> x.status, snapshot |-> x.snapshot, measured |-> x.measured,
       impact |-> x.impact, decided |-> x.decided]

SomeMet(i) == \E r, s \in recommendations[i].decided : Met(r, s)
Settled(i) == recommendations[i].status = "APPLIED" \/ SomeMet(i)

RowStands(i) ==
  /\ IsRecommendation(recommendations[i])
  /\ recommendations[i].status = "PENDING" =>
       recommendations[i].decided = {} /\ ~recommendations[i].measured
  /\ recommendations[i].status # "PENDING" => recommendations[i].decided # {}
  /\ \A r, s \in recommendations[i].decided : r = s \/ Met(r, s)
  /\ recommendations[i].measured => Settled(i)

\* What a request does about a recommendation that it has read.
Decides(r, x) ==
  /\ x.op = "review" /\ x.pc = "write" =>
       /\ x.seen \in DOMAIN recommendations /\ x.value \in {"APPLIED", "DISMISSED"}
       /\ \A s \in recommendations[x.seen].decided : Met(r, s)
  /\ x.op = "measure" /\ x.pc \in {"sync", "aggregate"} =>
       x.seen \in DOMAIN recommendations /\ Settled(x.seen)

RowsInv ==
  /\ PlacedInv
  /\ \E S : recommendations \in Seq(S)
  /\ Len(recommendations) <= MaxAnalyses
  /\ \A i \in DOMAIN recommendations : RowStands(i)
  /\ \A r \in Requests : Decides(r, req[r])

LEMMA RowsStand ==
  ASSUME RowsInv
  PROVE  RecommendationsStand
  BY DEF RowsInv, RowStands, Settled, SomeMet, RecommendationsStand

\* What request r does to the rows: it decides one, or changes what else is in them.
LEMMA RowsStep ==
  ASSUME RowsInv, NEW r \in Requests, NEW new, Moves(r, new), Placed(new),
         \E S : recommendations' \in Seq(S),
         Len(recommendations') <= MaxAnalyses,
         DOMAIN recommendations \subseteq DOMAIN recommendations',
         \A i \in DOMAIN recommendations' : RowStands(i)',
         \A i \in DOMAIN recommendations : Settled(i) => Settled(i)',
         \A i \in DOMAIN recommendations :
           \/ recommendations'[i].decided = recommendations[i].decided
           \/ recommendations'[i].decided = recommendations[i].decided \cup {r} /\ r \in InFlight,
         Decides(r, new)'
  PROVE  RowsInv'
<1>1. PlacedInv'
  BY PlacedStep DEF RowsInv
<1>2. /\ req'[r] = Left(new) /\ met \subseteq met' /\ req'[r].pc = new.pc
      /\ \A s \in Requests : s # r => req'[s] = req[s]
  BY MovesRequest DEF RowsInv, PlacedInv
<1>3. ASSUME NEW s \in Requests, s # r
      PROVE  Decides(s, req[s])'
  <2>1. Decides(s, req[s]) /\ req'[s] = req[s]
    BY <1>2, <1>3 DEF RowsInv
  <2>2. ASSUME req[s].op = "review", req[s].pc = "write"
        PROVE  \A q \in recommendations'[req[s].seen].decided : Met(s, q)'
    <3>1. s \in InFlight
      BY <2>2 DEF InFlight, Over
    <3>2. r \in InFlight => Met(s, r)
      BY <1>3, <3>1 DEF RowsInv, PlacedInv, RequestsInv, Met
    <3>3. req[s].seen \in DOMAIN recommendations
      BY <2>1, <2>2 DEF Decides
    <3>4. \A q \in recommendations'[req[s].seen].decided : Met(s, q)
      BY <2>1, <2>2, <3>2, <3>3 DEF Decides
    <3> QED BY <1>2, <3>4 DEF Met
  <2>3. ASSUME req[s].op = "measure", req[s].pc \in {"sync", "aggregate"}
        PROVE  req[s].seen \in DOMAIN recommendations' /\ Settled(req[s].seen)'
    <3>1. PICK i \in DOMAIN recommendations : i = req[s].seen /\ Settled(i)
      BY <2>1, <2>3 DEF Decides
    <3>2. Settled(i)'
      BY <3>1
    <3>3. i = req'[s].seen
      BY <2>1, <3>1
    <3> QED BY <2>1, <3>1, <3>2, <3>3 DEF Settled, SomeMet
  <2> QED BY <2>1, <2>2, <2>3 DEF Decides
<1>4. Decides(r, req[r])'
  <2>1. CASE new.pc \in {"done", "refused"}
    BY <1>2, <2>1 DEF Decides
  <2>2. CASE new.pc \notin {"done", "refused"}
    <3>1. req'[r] = new
      BY <1>2, <2>2, LeftIsRequest DEF Moves
    <3> QED BY <3>1 DEF Decides
  <2> QED BY <2>1, <2>2
<1> QED BY <1>1, <1>3, <1>4 DEF RowsInv

\* A step that leaves the rows as they are.
LEMMA RowsKept ==
  ASSUME RowsInv, NEW r \in Requests, NEW new, Moves(r, new), Placed(new),
         UNCHANGED recommendations, Decides(r, new)
  PROVE  RowsInv'
<1>1. met \subseteq met'
  BY MovesRequest DEF RowsInv, PlacedInv
<1>2. \A i \in DOMAIN recommendations : Settled(i) => Settled(i)'
  BY <1>1 DEF Settled, SomeMet, Met
<1>3. \A i \in DOMAIN recommendations : RowStands(i)'
  <2>1. ASSUME NEW i \in DOMAIN recommendations
        PROVE  RowStands(i)'
    <3>1. RowStands(i)
      BY DEF RowsInv
    <3> QED BY <1>1, <1>2, <3>1 DEF RowStands, Met
  <2> QED BY <2>1
<1>4. Decides(r, new)'
  BY <1>1, <1>2 DEF Decides, Met
<1> QED BY <1>2, <1>3, <1>4, RowsStep DEF RowsInv

LEMMA RowsRest ==
  ASSUME RowsInv, UNCHANGED <<requestVars, recommendations>>
  PROVE  RowsInv'
<1>1. PlacedInv'
  BY PlacedRest DEF RowsInv
<1>2. UNCHANGED <<req, met, recommendations>>
  BY DEF requestVars
<1>3. \A i \in DOMAIN recommendations : (Settled(i)' <=> Settled(i)) /\ (RowStands(i)' <=> RowStands(i))
  BY <1>2 DEF RowStands, Settled, SomeMet, Met
<1>4. \A r \in Requests : Decides(r, req[r])'
  <2>1. ASSUME NEW r \in Requests
        PROVE  Decides(r, req[r])'
    <3>1. Decides(r, req[r])
      BY DEF RowsInv
    <3> QED BY <1>2, <3>1 DEF Decides, Settled, SomeMet, Met
  <2> QED BY <2>1
<1> QED BY <1>1, <1>2, <1>3, <1>4 DEF RowsInv

-----------------------------------------------------------------------------
LEMMA ReviewRows ==
  ASSUME RowsInv, NEW r \in Requests, Review(r)
  PROVE  RowsInv'
<1>1. PICK i \in DOMAIN recommendations, decision \in {"APPLIED", "DISMISSED"} :
        Call(r, [NewRequest EXCEPT !.op = "review", !.seen = i, !.value = decision,
                                   !.pc = IF MayBeDecided(i) THEN "write" ELSE "refused"])
  BY DEF Review
<1>2. PICK pc : pc = IF MayBeDecided(i) THEN "write" ELSE "refused"
  OBVIOUS
<1>3. PICK x : /\ Call(r, x)
               /\ x = [NewRequest EXCEPT !.op = "review", !.seen = i, !.value = decision, !.pc = pc]
  BY <1>1, <1>2
<1>4. pc \in {"write", "refused"} /\ (pc = "write" => recommendations[i].status = "PENDING")
  BY <1>2 DEF MayBeDecided
<1>5. /\ Started(x, OptimizerOps) /\ Placed(x) /\ x.op = "review" /\ x.pc = pc /\ x.seen = i
      /\ x.value = decision
  BY <1>3, <1>4 DEF Started, IsRequest, NewRequest, Placed, Fits, Learning, OptimizerOps
<1>6. Moves(r, x)
  BY <1>3, <1>5, CallActs DEF Review
<1>7. Decides(r, x)
  <2>1. pc = "write" => recommendations[i].decided = {}
    BY <1>4 DEF RowsInv, RowStands
  <2> QED BY <1>5, <2>1 DEF Decides
<1> QED BY <1>5, <1>6, <1>7, RowsKept DEF Review, optimizerVars

LEMMA MeasureOutcomeRows ==
  ASSUME RowsInv, NEW r \in Requests, MeasureOutcome(r)
  PROVE  RowsInv'
<1>1. PICK i \in DOMAIN recommendations :
        /\ recommendations[i].status = "APPLIED"
        /\ Call(r, [NewRequest EXCEPT !.op = "measure", !.pc = "sync", !.level = 1, !.seen = i])
  BY DEF MeasureOutcome
<1>2. PICK x : /\ Call(r, x)
               /\ x = [NewRequest EXCEPT !.op = "measure", !.pc = "sync", !.level = 1, !.seen = i]
  BY <1>1
<1>3. Started(x, OptimizerOps) /\ Placed(x) /\ x.op = "measure" /\ x.pc = "sync" /\ x.seen = i
  BY <1>2 DEF Started, IsRequest, NewRequest, Placed, Fits, Learning, OptimizerOps
<1>4. Moves(r, x)
  BY <1>2, <1>3, CallActs DEF MeasureOutcome
<1>5. Decides(r, x)
  BY <1>1, <1>3 DEF Decides, Settled
<1> QED BY <1>3, <1>4, <1>5, RowsKept DEF MeasureOutcome, optimizerVars

LEMMA FetchInsightsRows ==
  ASSUME RowsInv, NEW r \in Requests, FetchInsights(r)
  PROVE  RowsInv'
<1>1. req[r].pc = "sync" /\ \E new : /\ Moves(r, new) /\ Placed(new) /\ new.op = req[r].op
                                     /\ new.pc = "sync" /\ new.seen = req[r].seen
  BY FetchInsightsMoves DEF RowsInv
<1>2. PICK new : /\ Moves(r, new) /\ Placed(new) /\ new.op = req[r].op
                 /\ new.pc = "sync" /\ new.seen = req[r].seen
  BY <1>1
<1>3. Decides(r, req[r])
  BY DEF RowsInv
<1>4. Decides(r, new)
  BY <1>1, <1>2, <1>3 DEF Decides
<1> QED BY <1>2, <1>4, RowsKept DEF FetchInsights

\* What ends, or comes to the figures that were written.
LEMMA GoesOnRows ==
  ASSUME RowsInv, NEW r \in Requests, req[r].op \in {"analyze", "measure", "review"},
         NEW pc \in {"aggregate", "create", "done", "refused"}, Goto(r, pc),
         req[r].pc \notin {"new"} \cup Over,
         pc = "aggregate" => req[r].pc = "sync"
  PROVE  \E new : Moves(r, new) /\ Placed(new) /\ Decides(r, new) /\ new.pc = pc
<1>1. PICK new : /\ Moves(r, new) /\ new.pc = pc /\ new.op = req[r].op
                 /\ new.user = req[r].user /\ new.seen = req[r].seen
  BY GoesOn DEF RowsInv, PlacedInv
<1>2. Placed(new)
  BY <1>1 DEF RowsInv, PlacedInv, Placed, Fits, Learning
<1>3. Decides(r, req[r])
  BY DEF RowsInv
<1>4. Decides(r, new)
  BY <1>1, <1>3 DEF Decides
<1> QED BY <1>1, <1>2, <1>4

LEMMA CreateRecommendationRows ==
  ASSUME RowsInv, NEW r \in Requests, CreateRecommendation(r)
  PROVE  RowsInv'
<1>1. /\ req[r].op = "analyze" /\ req[r].pc = "create"
      /\ \/ /\ Len(recommendations) < MaxAnalyses /\ Goto(r, "done")
            /\ recommendations' = Append(recommendations, Recommendation("PENDING"))
         \/ UNCHANGED recommendations /\ Goto(r, "refused")
  BY DEF CreateRecommendation, Doing, RunAvailable
<1>2. PICK new : /\ Moves(r, new) /\ Placed(new) /\ Decides(r, new)
                 /\ new.pc \in {"done", "refused"}
  BY <1>1, GoesOnRows DEF Over
<1>3. CASE UNCHANGED recommendations
  BY <1>2, <1>3, RowsKept
<1>4. CASE /\ Len(recommendations) < MaxAnalyses
           /\ recommendations' = Append(recommendations, Recommendation("PENDING"))
  <2>1. PICK S : recommendations \in Seq(S)
    BY DEF RowsInv
  <2>2. PICK row : row = Recommendation("PENDING")
    OBVIOUS
  <2>3. /\ IsRecommendation(row) /\ row.status = "PENDING" /\ row.decided = {} /\ row.measured = FALSE
    BY <2>2 DEF IsRecommendation, Recommendation
  <2>4. recommendations \in Seq(S \cup {row})
    BY <2>1
  <2>5. /\ recommendations' \in Seq(S \cup {row})
        /\ Len(recommendations) \in Nat /\ Len(recommendations') = Len(recommendations) + 1
        /\ DOMAIN recommendations = 1..Len(recommendations)
        /\ DOMAIN recommendations' = 1..(Len(recommendations) + 1)
        /\ \A i \in DOMAIN recommendations : recommendations'[i] = recommendations[i]
        /\ recommendations'[Len(recommendations) + 1] = row
    BY <1>4, <2>2, <2>4
  <2>6. Len(recommendations') <= MaxAnalyses
    BY <1>4, <2>5, OptimizerAssumption
  <2>7. met \subseteq met'
    BY <1>2, MovesRequest DEF RowsInv, PlacedInv
  <2>8. \A i \in DOMAIN recommendations : Settled(i) => Settled(i)'
    BY <2>5, <2>7 DEF Settled, SomeMet, Met
  <2>9. ASSUME NEW i \in DOMAIN recommendations'
        PROVE  RowStands(i)'
    <3>1. CASE i \in DOMAIN recommendations
      <4>1. RowStands(i) /\ recommendations'[i] = recommendations[i]
        BY <2>5, <3>1 DEF RowsInv
      <4> QED BY <2>7, <2>8, <3>1, <4>1 DEF RowStands, Met
    <3>2. CASE i = Len(recommendations) + 1
      <4>1. recommendations'[i] = row
        BY <2>5, <3>2
      <4> QED BY <2>3, <4>1 DEF RowStands
    <3> QED BY <2>5, <3>1, <3>2
  <2>10. Decides(r, new)'
    BY <1>2 DEF Decides
  <2>11. /\ \E T : recommendations' \in Seq(T)
         /\ DOMAIN recommendations \subseteq DOMAIN recommendations'
         /\ \A i \in DOMAIN recommendations : recommendations'[i].decided = recommendations[i].decided
    BY <2>5
  <2> QED BY <1>2, <2>6, <2>8, <2>9, <2>10, <2>11, RowsStep
<1> QED BY <1>1, <1>3, <1>4

LEMMA WriteReviewRows ==
  ASSUME RowsInv, NEW r \in Requests, WriteReview(r)
  PROVE  RowsInv'
<1>1. /\ req[r].op = "review" /\ req[r].pc = "write" /\ Goto(r, "done")
  BY DEF WriteReview, Doing
<1>2. PICK new : Moves(r, new) /\ Placed(new) /\ Decides(r, new) /\ new.pc = "done"
  BY <1>1, GoesOnRows DEF Over
<1>3. PICK n \in DOMAIN recommendations :
        /\ n = req[r].seen /\ req[r].value \in {"APPLIED", "DISMISSED"}
        /\ \A s \in recommendations[n].decided : Met(r, s)
  BY <1>1 DEF RowsInv, Decides
<1>4. r \in InFlight
  BY <1>1 DEF InFlight, Over
<1>5. PICK before, value :
        /\ recommendations' = [recommendations EXCEPT ![n].status = value,
                                                      ![n].snapshot = before,
                                                      ![n].decided = @ \cup {r}]
        /\ value \in {"APPLIED", "DISMISSED"}
  BY <1>3 DEF WriteReview
<1>6. IsRecommendation(recommendations[n])
  BY DEF RowsInv, RowStands
<1>7. PICK S : recommendations \in Seq(S)
  BY DEF RowsInv
<1>8. PICK row : /\ recommendations' = [recommendations EXCEPT ![n] = row]
                 /\ IsRecommendation(row) /\ row.status = value
                 /\ row.decided = recommendations[n].decided \cup {r}
                 /\ row.measured = recommendations[n].measured
  <2>1. PICK f, g : /\ f = [recommendations EXCEPT ![n].status = value]
                    /\ g = [f EXCEPT ![n].snapshot = before]
                    /\ recommendations' = [g EXCEPT ![n].decided = @ \cup {r}]
    <3>1. recommendations' = [[[recommendations EXCEPT ![n].status = value]
                                EXCEPT ![n].snapshot = before]
                                EXCEPT ![n].decided = @ \cup {r}]
      BY <1>5
    <3> QED BY <3>1
  <2>2. f = [recommendations EXCEPT ![n] = f[n]] /\ f[n] = [recommendations[n] EXCEPT !.status = value]
    BY <1>7, <2>1
  <2>3. /\ IsRecommendation(f[n]) /\ f[n].status = value
        /\ f[n].decided = recommendations[n].decided /\ f[n].measured = recommendations[n].measured
    BY <1>6, <2>2 DEF IsRecommendation
  <2>4. g = [recommendations EXCEPT ![n] = g[n]] /\ g[n] = [f[n] EXCEPT !.snapshot = before]
    BY <1>7, <2>1, <2>2
  <2>5. /\ IsRecommendation(g[n]) /\ g[n].status = value
        /\ g[n].decided = recommendations[n].decided /\ g[n].measured = recommendations[n].measured
    BY <2>3, <2>4 DEF IsRecommendation
  <2>6. PICK row : /\ row = recommendations'[n] /\ row = [g[n] EXCEPT !.decided = @ \cup {r}]
    BY <1>7, <2>1, <2>4
  <2>7. recommendations' = [recommendations EXCEPT ![n] = row]
    <3>1. DOMAIN g = DOMAIN recommendations
      BY <1>7, <2>4
    <3>2. recommendations' = [g EXCEPT ![n] = row]
      BY <1>7, <2>1, <2>6, <3>1
    <3> QED BY <1>7, <2>4, <3>2
  <2>8. /\ IsRecommendation(row) /\ row.status = value
        /\ row.decided = recommendations[n].decided \cup {r}
        /\ row.measured = recommendations[n].measured
    BY <2>5, <2>6 DEF IsRecommendation
  <2> QED BY <2>7, <2>8
<1>10. recommendations \in Seq(S \cup {row})
  BY <1>7
<1>11. /\ recommendations' \in Seq(S \cup {row})
       /\ Len(recommendations') = Len(recommendations)
       /\ DOMAIN recommendations' = DOMAIN recommendations
       /\ \A i \in DOMAIN recommendations : i # n => recommendations'[i] = recommendations[i]
       /\ recommendations'[n] = row
  BY <1>8, <1>10
<1>12. met \subseteq met'
  BY <1>2, MovesRequest DEF RowsInv, PlacedInv
<1>13. /\ IsRecommendation(row) /\ row.status = value /\ row.decided = recommendations[n].decided \cup {r}
       /\ row.measured = recommendations[n].measured
  BY <1>8
<1>14. \A i \in DOMAIN recommendations : Settled(i) => Settled(i)'
  <2>1. ASSUME NEW i \in DOMAIN recommendations, Settled(i), i # n
        PROVE  Settled(i)'
    <3>1. recommendations'[i] = recommendations[i]
      BY <1>11, <2>1
    <3> QED BY <1>12, <2>1, <3>1 DEF Settled, SomeMet, Met
  <2>2. ASSUME Settled(n)
        PROVE  SomeMet(n)'
    <3>1. recommendations[n].decided # {}
      BY <2>2 DEF RowsInv, RowStands, Settled, SomeMet
    <3>2. PICK s \in recommendations[n].decided : Met(r, s)
      BY <1>3, <3>1
    <3>3. r \in recommendations'[n].decided /\ s \in recommendations'[n].decided
      BY <1>11, <1>13, <3>2
    <3> QED BY <1>12, <3>2, <3>3 DEF SomeMet, Met
  <2> QED BY <2>1, <2>2 DEF Settled
<1>15. ASSUME NEW i \in DOMAIN recommendations
       PROVE  RowStands(i)'
  <2>1. RowStands(i)
    BY DEF RowsInv
  <2>2. CASE i # n
    <3>1. recommendations'[i] = recommendations[i]
      BY <1>11, <2>2
    <3> QED BY <1>12, <1>14, <2>1, <3>1 DEF RowStands, Met
  <2>3. CASE i = n
    <3>1. recommendations'[i] = row
      BY <1>11, <2>3
    <3>2. \A q, s \in row.decided : q = s \/ Met(q, s)
      <4>1. ASSUME NEW q \in row.decided, NEW s \in row.decided, q # s
            PROVE  Met(q, s)
        <5>1. CASE q = r
          BY <1>3, <1>13, <4>1, <5>1
        <5>2. CASE s = r
          <6>1. Met(s, q) /\ {s, q} = {q, s}
            BY <1>3, <1>13, <4>1, <5>2
          <6> QED BY <6>1 DEF Met
        <5>3. CASE q \in recommendations[n].decided /\ s \in recommendations[n].decided
          BY <2>1, <2>3, <4>1, <5>3 DEF RowStands
        <5> QED BY <1>13, <5>1, <5>2, <5>3
      <4> QED BY <4>1
    <3>3. \A q, s \in recommendations'[i].decided : q = s \/ Met(q, s)'
      BY <1>12, <3>1, <3>2 DEF Met
    <3>4. recommendations'[i].measured => Settled(i)'
      BY <1>13, <1>14, <2>1, <2>3, <3>1 DEF RowStands
    <3>5. recommendations'[i].status # "PENDING" /\ recommendations'[i].decided # {}
          /\ IsRecommendation(recommendations[i])'
      BY <1>5, <1>13, <3>1
    <3> QED BY <3>3, <3>4, <3>5 DEF RowStands
  <2> QED BY <2>2, <2>3
<1>16. Decides(r, new)'
  BY <1>2 DEF Decides
<1>17. /\ \E T : recommendations' \in Seq(T)
       /\ Len(recommendations') <= MaxAnalyses
       /\ DOMAIN recommendations \subseteq DOMAIN recommendations'
       /\ DOMAIN recommendations' \subseteq DOMAIN recommendations
       /\ \A i \in DOMAIN recommendations :
            \/ recommendations'[i].decided = recommendations[i].decided
            \/ recommendations'[i].decided = recommendations[i].decided \cup {r}
  BY <1>11, <1>13 DEF RowsInv
<1> QED BY <1>2, <1>4, <1>14, <1>15, <1>16, <1>17, RowsStep

LEMMA WriteOutcomeRows ==
  ASSUME RowsInv, NEW r \in Requests, WriteOutcome(r)
  PROVE  RowsInv'
<1>1. /\ req[r].op = "measure" /\ req[r].pc = "aggregate" /\ Goto(r, "done")
  BY DEF WriteOutcome, Doing
<1>2. PICK new : Moves(r, new) /\ Placed(new) /\ Decides(r, new) /\ new.pc = "done"
  BY <1>1, GoesOnRows DEF Over
<1>3. PICK n \in DOMAIN recommendations : n = req[r].seen /\ Settled(n)
  BY <1>1 DEF RowsInv, Decides
<1>4. PICK impact :
        recommendations' = [recommendations EXCEPT ![n].measured = TRUE, ![n].impact = impact]
  BY <1>3 DEF WriteOutcome
<1>5. IsRecommendation(recommendations[n])
  BY DEF RowsInv, RowStands
<1>6. PICK S : recommendations \in Seq(S)
  BY DEF RowsInv
<1>7. PICK row : /\ recommendations' = [recommendations EXCEPT ![n] = row]
                 /\ IsRecommendation(row) /\ row.status = recommendations[n].status
                 /\ row.decided = recommendations[n].decided
  <2>1. PICK f : /\ f = [recommendations EXCEPT ![n].measured = TRUE]
                 /\ recommendations' = [f EXCEPT ![n].impact = impact]
    BY <1>4
  <2>2. f = [recommendations EXCEPT ![n] = f[n]] /\ f[n] = [recommendations[n] EXCEPT !.measured = TRUE]
    BY <1>6, <2>1
  <2>3. /\ IsRecommendation(f[n]) /\ f[n].status = recommendations[n].status
        /\ f[n].decided = recommendations[n].decided
    BY <1>5, <2>2 DEF IsRecommendation
  <2>4. PICK row : row = [f[n] EXCEPT !.impact = impact]
    OBVIOUS
  <2>5. recommendations' = [recommendations EXCEPT ![n] = row]
    BY <1>6, <2>1, <2>2, <2>4
  <2>6. /\ IsRecommendation(row) /\ row.status = recommendations[n].status
        /\ row.decided = recommendations[n].decided
    BY <2>3, <2>4 DEF IsRecommendation
  <2> QED BY <2>5, <2>6
<1>9. recommendations \in Seq(S \cup {row})
  BY <1>6
<1>10. /\ recommendations' \in Seq(S \cup {row})
       /\ Len(recommendations') = Len(recommendations)
       /\ DOMAIN recommendations' = DOMAIN recommendations
       /\ \A i \in DOMAIN recommendations : i # n => recommendations'[i] = recommendations[i]
       /\ recommendations'[n] = row
  BY <1>7, <1>9
<1>11. met \subseteq met'
  BY <1>2, MovesRequest DEF RowsInv, PlacedInv
<1>12. /\ IsRecommendation(row) /\ row.status = recommendations[n].status
       /\ row.decided = recommendations[n].decided
  BY <1>7
<1>13. \A i \in DOMAIN recommendations :
         /\ recommendations'[i].status = recommendations[i].status
         /\ recommendations'[i].decided = recommendations[i].decided
         /\ IsRecommendation(recommendations[i])'
         /\ i # n => recommendations'[i].measured = recommendations[i].measured
  BY <1>10, <1>12 DEF RowsInv, RowStands, IsRecommendation
<1>14. \A i \in DOMAIN recommendations : Settled(i) => Settled(i)'
  BY <1>11, <1>13 DEF Settled, SomeMet, Met
<1>15. ASSUME NEW i \in DOMAIN recommendations
       PROVE  RowStands(i)'
  <2>1. RowStands(i)
    BY DEF RowsInv
  <2>2. recommendations'[i].status = "PENDING" => i # n
    <3>1. recommendations[n].status # "PENDING"
      BY <1>3 DEF RowsInv, RowStands, Settled, SomeMet
    <3> QED BY <1>13, <3>1
  <2>3. recommendations'[i].measured => Settled(i)'
    BY <1>3, <1>13, <1>14, <2>1 DEF RowStands
  <2>4. \A q, s \in recommendations'[i].decided : q = s \/ Met(q, s)'
    BY <1>11, <1>13, <2>1 DEF RowStands, Met
  <2> QED BY <1>13, <2>1, <2>2, <2>3, <2>4 DEF RowStands
<1>16. Decides(r, new)'
  BY <1>2 DEF Decides
<1>17. /\ \E T : recommendations' \in Seq(T)
       /\ Len(recommendations') <= MaxAnalyses
       /\ DOMAIN recommendations \subseteq DOMAIN recommendations'
       /\ DOMAIN recommendations' \subseteq DOMAIN recommendations
       /\ \A i \in DOMAIN recommendations : recommendations'[i].decided = recommendations[i].decided
  BY <1>10, <1>13 DEF RowsInv
<1> QED BY <1>2, <1>14, <1>15, <1>16, <1>17, RowsStep

LEMMA OptimizerRows ==
  ASSUME RowsInv, OptimizerStep
  PROVE  RowsInv'
<1>1. CASE PostsAreSeen
  BY <1>1, RowsRest DEF PostsAreSeen
<1>2. ASSUME NEW r \in Requests, RecordConversion(r) \/ AnalyzeCampaign(r)
      PROVE  RowsInv'
  <2>1. PICK x : /\ Call(r, x)
                 /\ \/ x = [NewRequest EXCEPT !.op = "declare", !.pc = "done"]
                    \/ x = [NewRequest EXCEPT !.op = "analyze", !.pc = "sync", !.level = 1]
    BY <1>2 DEF RecordConversion, AnalyzeCampaign
  <2>2. Started(x, OptimizerOps) /\ Placed(x) /\ x.op \in {"declare", "analyze"}
    BY <2>1 DEF Started, IsRequest, NewRequest, Placed, Fits, Learning, OptimizerOps
  <2>3. Moves(r, x)
    BY <1>2, <2>1, <2>2, CallActs DEF RecordConversion, AnalyzeCampaign
  <2>4. Decides(r, x) /\ UNCHANGED recommendations
    BY <1>2, <2>2 DEF Decides, RecordConversion, AnalyzeCampaign, optimizerVars
  <2> QED BY <2>2, <2>3, <2>4, RowsKept
<1>3. ASSUME NEW r \in Requests,
             AllWritten(r) \/ OptimizerFails(r) \/ AssertOptimizerRun(r) \/ NothingGenerated(r)
      PROVE  RowsInv'
  <2>1. /\ req[r].op \in {"analyze", "measure"} /\ req[r].pc \in {"sync", "aggregate", "create"}
        /\ UNCHANGED recommendations
        /\ \E pc \in {"aggregate", "refused", "done", "create"} :
             Goto(r, pc) /\ (pc = "aggregate" => req[r].pc = "sync")
    BY <1>3 DEF AllWritten, OptimizerFails, AssertOptimizerRun, NothingGenerated, Doing,
                optimizerVars, RowsInv, PlacedInv, Placed, Fits
  <2>2. \E new : Moves(r, new) /\ Placed(new) /\ Decides(r, new)
    BY <2>1, GoesOnRows DEF Over
  <2> QED BY <2>1, <2>2, RowsKept
<1>4. ASSUME NEW r \in Requests, WriteRow(r)
      PROVE  RowsInv'
  BY <1>4, RowsRest DEF WriteRow
<1> QED BY <1>1, <1>2, <1>3, <1>4, ReviewRows, MeasureOutcomeRows, FetchInsightsRows,
           CreateRecommendationRows, WriteReviewRows, WriteOutcomeRows DEF OptimizerStep

LEMMA RowsNext ==
  ASSUME RowsInv, [Next]_vars
  PROVE  RowsInv'
<1>1. ASSUME UNCHANGED recommendations, NEW r \in Requests, NEW new, Moves(r, new), Placed(new),
             new.op \notin OptimizerOps
      PROVE  RowsInv'
  <2>1. Decides(r, new)
    BY <1>1 DEF Decides, OptimizerOps
  <2> QED BY <1>1, <2>1, RowsKept
<1>2. CASE MemoryStep /\ UNCHANGED optimizerVars
  <2>1. PICK r \in Requests : Learns(r)
    BY <1>2, MemoryLearns DEF RowsInv
  <2> QED BY <1>1, <1>2, <2>1 DEF Learns, MemoryOps, OptimizerOps, optimizerVars
<1>3. CASE StudioStep /\ UNCHANGED optimizerVars
  <2>1. PICK r \in Requests : Act(r, StudioOps)
    BY <1>3, StudioActs DEF RowsInv
  <2> QED BY <1>1, <1>3, <2>1 DEF Act, StudioOps, OptimizerOps, optimizerVars
<1>4. CASE OptimizerStep
  BY <1>4, OptimizerRows
<1>5. CASE (ProductStep \/ ModerationStep) /\ UNCHANGED optimizerVars
  <2>1. UNCHANGED requestVars \/ \E r \in Requests : Act(r, ProductOps \cup ReviewOps)
    BY <1>5, ProductActs, ReviewActs DEF Act, RowsInv
  <2>2. CASE UNCHANGED requestVars
    BY <1>5, <2>2, RowsRest DEF optimizerVars
  <2>3. CASE \E r \in Requests : Act(r, ProductOps \cup ReviewOps)
    BY <1>1, <1>5, <2>3 DEF Act, ProductOps, ReviewOps, OptimizerOps, optimizerVars
  <2> QED BY <2>1, <2>2, <2>3
<1>6. CASE UNCHANGED vars
  BY <1>6, RowsRest DEF vars, optimizerVars
<1> QED BY <1>2, <1>3, <1>4, <1>5, <1>6 DEF Next

LEMMA RowsInit ==
  ASSUME RequestsInit, OptimizerInit
  PROVE  RowsInv
<1>1. PlacedInv /\ \A r \in Requests : req[r].pc = "new" /\ req[r].op = "none"
  BY PlacedInit
<1>2. /\ recommendations \in Seq(RecommendationsOf({0})) /\ Len(recommendations) <= MaxAnalyses
      /\ \A i \in DOMAIN recommendations :
           /\ recommendations[i].status = "PENDING" <=> recommendations[i].decided = {}
           /\ recommendations[i].measured => recommendations[i].status = "APPLIED"
  BY OptimizerAssumption DEF OptimizerInit
<1>3. ASSUME NEW i \in DOMAIN recommendations
      PROVE  RowStands(i)
  <2>1. recommendations[i] \in RecommendationsOf({0})
    BY <1>2
  <2>2. IsRecommendation(recommendations[i]) /\ recommendations[i].decided \subseteq {0}
    BY <2>1 DEF RecommendationsOf, IsRecommendation
  <2>3. \A r, s \in recommendations[i].decided : r = s
    BY <2>2
  <2> QED BY <1>2, <2>2, <2>3 DEF RowStands, Settled
<1>4. \A r \in Requests : Decides(r, req[r])
  BY <1>1 DEF Decides
<1> QED BY <1>1, <1>2, <1>3, <1>4 DEF RowsInv

\* An organization has no more recommendations than its plan gives it, each is decided
\* once, unless two people decide at the same time, and only one that is applied is measured.
THEOREM RecommendationsStandAlways == Spec => []RecommendationsStand
<1>1. Init => RowsInv
  BY RowsInit DEF Init
<1>2. RowsInv /\ [Next]_vars => RowsInv'
  BY RowsNext
<1>3. RowsInv => RecommendationsStand
  BY RowsStand
<1> QED BY <1>1, <1>2, <1>3, PTL DEF Spec

-----------------------------------------------------------------------------
(* The rows of the memory.                                                   *)

IsEntry(x) ==
  x = [key |-> x.key, says |-> x.says, axis |-> x.axis, type |-> x.type, status |-> x.status,
       terms |-> x.terms, evidence |-> x.evidence, by |-> x.by]

MemoryShape ==
  /\ \E S : memory \in Seq(S)
  /\ \A i \in Entries : IsEntry(memory[i])

\* Only row i is written.
Writes(i) ==
  /\ MemoryShape' /\ Entries' = Entries
  /\ \A j \in Entries : j # i => memory'[j] = memory[j]

LEMMA RowWritten ==
  ASSUME MemoryShape, NEW i \in Entries, NEW row, IsEntry(row), memory' = [memory EXCEPT ![i] = row]
  PROVE  Writes(i) /\ memory'[i] = row
<1>1. PICK S : memory \in Seq(S)
  BY DEF MemoryShape
<1>2. memory \in Seq(S \cup {row})
  BY <1>1
<1>3. /\ memory' \in Seq(S \cup {row}) /\ DOMAIN memory' = DOMAIN memory
      /\ \A j \in DOMAIN memory : j # i => memory'[j] = memory[j]
      /\ memory'[i] = row
  BY <1>2 DEF Entries
<1>4. \A j \in DOMAIN memory' : IsEntry(memory'[j])
  <2>1. ASSUME NEW j \in DOMAIN memory'
        PROVE  IsEntry(memory'[j])
    <3>1. CASE j = i
      BY <1>3, <3>1
    <3>2. CASE j # i
      BY <1>3, <3>2 DEF MemoryShape, Entries
    <3> QED BY <3>1, <3>2
  <2> QED BY <2>1
<1>5. MemoryShape'
  BY <1>3, <1>4 DEF MemoryShape, Entries, IsEntry
<1> QED BY <1>3, <1>5 DEF Writes, Entries

LEMMA RowAppended ==
  ASSUME MemoryShape, NEW row, IsEntry(row), memory' = Append(memory, row)
  PROVE  /\ MemoryShape' /\ Len(memory) \in Nat
         /\ Entries = 1..Len(memory) /\ Entries' = 1..(Len(memory) + 1)
         /\ \A i \in Entries : memory'[i] = memory[i]
         /\ memory'[Len(memory) + 1] = row
<1>1. PICK S : memory \in Seq(S)
  BY DEF MemoryShape
<1>2. memory \in Seq(S \cup {row})
  BY <1>1
<1>3. /\ memory' \in Seq(S \cup {row}) /\ Len(memory) \in Nat
      /\ DOMAIN memory = 1..Len(memory) /\ DOMAIN memory' = 1..(Len(memory) + 1)
      /\ \A i \in DOMAIN memory : memory'[i] = memory[i]
      /\ memory'[Len(memory) + 1] = row
  BY <1>2
<1>4. \A i \in DOMAIN memory' : IsEntry(memory'[i])
  <2>1. ASSUME NEW i \in DOMAIN memory'
        PROVE  IsEntry(memory'[i])
    <3>1. CASE i = Len(memory) + 1
      BY <1>3, <3>1
    <3>2. CASE i \in DOMAIN memory
      BY <1>3, <3>2 DEF MemoryShape, Entries
    <3> QED BY <1>3, <3>1, <3>2
  <2> QED BY <2>1
<1>5. MemoryShape'
  BY <1>3, <1>4 DEF MemoryShape, Entries, IsEntry
<1> QED BY <1>3, <1>5 DEF Entries

\* One more observation or confirmation of what is known.
LEMMA CountedRow ==
  ASSUME MemoryShape, NEW i \in Entries, NEW count, NEW r,
         memory' = [memory EXCEPT ![i].evidence = count, ![i].by = @ \cup {r}]
  PROVE  /\ Writes(i)
         /\ memory'[i].key = memory[i].key /\ memory'[i].says = memory[i].says
         /\ memory'[i].axis = memory[i].axis /\ memory'[i].status = memory[i].status
         /\ memory'[i].evidence = count /\ memory'[i].by = memory[i].by \cup {r}
<1>1. PICK S : memory \in Seq(S)
  BY DEF MemoryShape
<1>2. IsEntry(memory[i]) /\ i \in DOMAIN memory
  BY DEF MemoryShape, Entries
<1>3. PICK f : /\ f = [memory EXCEPT ![i].evidence = count]
               /\ memory' = [f EXCEPT ![i].by = @ \cup {r}]
  <2>1. memory' = [[memory EXCEPT ![i].evidence = count] EXCEPT ![i].by = @ \cup {r}]
    OBVIOUS
  <2> QED BY <2>1
<1>4. f = [memory EXCEPT ![i] = f[i]] /\ f[i] = [memory[i] EXCEPT !.evidence = count]
  BY <1>1, <1>2, <1>3
<1>5. /\ IsEntry(f[i]) /\ f[i].key = memory[i].key /\ f[i].says = memory[i].says
      /\ f[i].axis = memory[i].axis /\ f[i].status = memory[i].status
      /\ f[i].evidence = count /\ f[i].by = memory[i].by
  BY <1>2, <1>4 DEF IsEntry
<1>6. PICK row : row = memory'[i] /\ row = [f[i] EXCEPT !.by = @ \cup {r}]
  BY <1>1, <1>2, <1>3, <1>4
<1>7. memory' = [memory EXCEPT ![i] = row]
  <2>1. DOMAIN f = DOMAIN memory
    BY <1>1, <1>4
  <2>2. memory' = [f EXCEPT ![i] = row]
    BY <1>1, <1>2, <1>3, <1>6, <2>1
  <2> QED BY <1>1, <1>2, <1>4, <2>2
<1>8. /\ IsEntry(row) /\ row.key = memory[i].key /\ row.says = memory[i].says
      /\ row.axis = memory[i].axis /\ row.status = memory[i].status
      /\ row.evidence = count /\ row.by = memory[i].by \cup {r}
  BY <1>5, <1>6 DEF IsEntry
<1> QED BY <1>7, <1>8, RowWritten

\* Named, to be cited without being computed.
CountedIn(i, r, count) ==
  memory'[i].evidence = count /\ memory'[i].by = memory[i].by \cup {r}

\* An observation may have changed what the entry says.
LEMMA ObservedRow ==
  ASSUME MemoryShape, NEW i \in Entries, NEW says, NEW count, NEW r,
         memory' = [memory EXCEPT ![i].says = says, ![i].evidence = count, ![i].by = @ \cup {r}]
  PROVE  /\ Writes(i)
         /\ memory'[i].key = memory[i].key /\ memory'[i].says = says
         /\ memory'[i].axis = memory[i].axis /\ memory'[i].status = memory[i].status
         /\ CountedIn(i, r, count)
<1>1. PICK S : memory \in Seq(S)
  BY DEF MemoryShape
<1>2. IsEntry(memory[i]) /\ i \in DOMAIN memory
  BY DEF MemoryShape, Entries
<1>3. PICK f, g : /\ f = [memory EXCEPT ![i].says = says]
                  /\ g = [f EXCEPT ![i].evidence = count]
                  /\ memory' = [g EXCEPT ![i].by = @ \cup {r}]
  <2>1. memory' = [[[memory EXCEPT ![i].says = says] EXCEPT ![i].evidence = count]
                     EXCEPT ![i].by = @ \cup {r}]
    OBVIOUS
  <2> QED BY <2>1
<1>4. f = [memory EXCEPT ![i] = f[i]] /\ f[i] = [memory[i] EXCEPT !.says = says]
  BY <1>1, <1>2, <1>3
<1>5. /\ IsEntry(f[i]) /\ f[i].key = memory[i].key /\ f[i].says = says
      /\ f[i].axis = memory[i].axis /\ f[i].status = memory[i].status /\ f[i].by = memory[i].by
  BY <1>2, <1>4 DEF IsEntry
<1>6. g = [memory EXCEPT ![i] = g[i]] /\ g[i] = [f[i] EXCEPT !.evidence = count]
  BY <1>1, <1>2, <1>3, <1>4
<1>7. /\ IsEntry(g[i]) /\ g[i].key = memory[i].key /\ g[i].says = says
      /\ g[i].axis = memory[i].axis /\ g[i].status = memory[i].status
      /\ g[i].evidence = count /\ g[i].by = memory[i].by
  BY <1>5, <1>6 DEF IsEntry
<1>8. PICK row : row = memory'[i] /\ row = [g[i] EXCEPT !.by = @ \cup {r}]
  BY <1>1, <1>2, <1>3, <1>6
<1>9. memory' = [memory EXCEPT ![i] = row]
  <2>1. DOMAIN g = DOMAIN memory
    BY <1>1, <1>6
  <2>2. memory' = [g EXCEPT ![i] = row]
    BY <1>1, <1>2, <1>3, <1>8, <2>1
  <2> QED BY <1>1, <1>2, <1>6, <2>2
<1>10. /\ IsEntry(row) /\ row.key = memory[i].key /\ row.says = says
       /\ row.axis = memory[i].axis /\ row.status = memory[i].status
       /\ row.evidence = count /\ row.by = memory[i].by \cup {r}
  BY <1>7, <1>8 DEF IsEntry
<1>11. Writes(i) /\ memory'[i] = row
  BY <1>9, <1>10, RowWritten
<1> QED BY <1>10, <1>11 DEF CountedIn

LEMMA CorrectedRow ==
  ASSUME MemoryShape, NEW i \in Entries, NEW says, NEW axis,
         memory' = [memory EXCEPT ![i].says = says, ![i].axis = axis]
  PROVE  /\ Writes(i)
         /\ memory'[i].key = memory[i].key /\ memory'[i].status = memory[i].status
         /\ memory'[i].evidence = memory[i].evidence /\ memory'[i].by = memory[i].by
<1>1. PICK S : memory \in Seq(S)
  BY DEF MemoryShape
<1>2. IsEntry(memory[i]) /\ i \in DOMAIN memory
  BY DEF MemoryShape, Entries
<1>3. PICK f : /\ f = [memory EXCEPT ![i].says = says]
               /\ memory' = [f EXCEPT ![i].axis = axis]
  OBVIOUS
<1>4. f = [memory EXCEPT ![i] = f[i]] /\ f[i] = [memory[i] EXCEPT !.says = says]
  BY <1>1, <1>2, <1>3
<1>5. /\ IsEntry(f[i]) /\ f[i].key = memory[i].key /\ f[i].status = memory[i].status
      /\ f[i].evidence = memory[i].evidence /\ f[i].by = memory[i].by
  BY <1>2, <1>4 DEF IsEntry
<1>6. PICK row : row = memory'[i] /\ row = [f[i] EXCEPT !.axis = axis]
  BY <1>1, <1>2, <1>3, <1>4
<1>7. memory' = [memory EXCEPT ![i] = row]
  <2>1. DOMAIN f = DOMAIN memory
    BY <1>1, <1>4
  <2>2. memory' = [f EXCEPT ![i] = row]
    BY <1>1, <1>2, <1>3, <1>6, <2>1
  <2> QED BY <1>1, <1>2, <1>4, <2>2
<1>8. /\ IsEntry(row) /\ row.key = memory[i].key /\ row.status = memory[i].status
      /\ row.evidence = memory[i].evidence /\ row.by = memory[i].by
  BY <1>5, <1>6 DEF IsEntry
<1> QED BY <1>7, <1>8, RowWritten

LEMMA PromotedRow ==
  ASSUME MemoryShape, NEW i \in Entries, NEW terms,
         memory' = [memory EXCEPT ![i].type = "RULE", ![i].terms = terms]
  PROVE  /\ Writes(i)
         /\ memory'[i].key = memory[i].key /\ memory'[i].status = memory[i].status
         /\ memory'[i].evidence = memory[i].evidence /\ memory'[i].by = memory[i].by
         /\ memory'[i].says = memory[i].says /\ memory'[i].axis = memory[i].axis
<1>1. PICK S : memory \in Seq(S)
  BY DEF MemoryShape
<1>2. IsEntry(memory[i]) /\ i \in DOMAIN memory
  BY DEF MemoryShape, Entries
<1>3. PICK f : /\ f = [memory EXCEPT ![i].type = "RULE"]
               /\ memory' = [f EXCEPT ![i].terms = terms]
  OBVIOUS
<1>4. f = [memory EXCEPT ![i] = f[i]] /\ f[i] = [memory[i] EXCEPT !.type = "RULE"]
  BY <1>1, <1>2, <1>3
<1>5. /\ IsEntry(f[i]) /\ f[i].key = memory[i].key /\ f[i].status = memory[i].status
      /\ f[i].evidence = memory[i].evidence /\ f[i].by = memory[i].by
      /\ f[i].says = memory[i].says /\ f[i].axis = memory[i].axis
  BY <1>2, <1>4 DEF IsEntry
<1>6. PICK row : row = memory'[i] /\ row = [f[i] EXCEPT !.terms = terms]
  BY <1>1, <1>2, <1>3, <1>4
<1>7. memory' = [memory EXCEPT ![i] = row]
  <2>1. DOMAIN f = DOMAIN memory
    BY <1>1, <1>4
  <2>2. memory' = [f EXCEPT ![i] = row]
    BY <1>1, <1>2, <1>3, <1>6, <2>1
  <2> QED BY <1>1, <1>2, <1>4, <2>2
<1>8. /\ IsEntry(row) /\ row.key = memory[i].key /\ row.status = memory[i].status
      /\ row.evidence = memory[i].evidence /\ row.by = memory[i].by
      /\ row.says = memory[i].says /\ row.axis = memory[i].axis
  BY <1>5, <1>6 DEF IsEntry
<1> QED BY <1>7, <1>8, RowWritten

\* The status of some of the rows becomes this one, and nothing else changes.
Becoming(T, status) ==
  /\ MemoryShape' /\ Entries' = Entries
  /\ \A i \in Entries :
       /\ memory'[i].key = memory[i].key /\ memory'[i].says = memory[i].says
       /\ memory'[i].axis = memory[i].axis
       /\ memory'[i].evidence = memory[i].evidence /\ memory'[i].by = memory[i].by
       /\ memory'[i].status = IF i \in T THEN status ELSE memory[i].status

LEMMA StatusOfRows ==
  ASSUME MemoryShape, NEW T, NEW status,
         memory' = [i \in Entries |-> IF i \in T THEN [memory[i] EXCEPT !.status = status]
                                      ELSE memory[i]]
  PROVE  Becoming(T, status)
<1>1. PICK S : memory \in Seq(S)
  BY DEF MemoryShape
<1>2. Len(memory) \in Nat /\ Entries = 1..Len(memory)
  BY <1>1 DEF Entries
<1>3. DOMAIN memory' = 1..Len(memory)
  BY <1>2
<1>4. ASSUME NEW i \in Entries
      PROVE  /\ IsEntry(memory'[i])
             /\ memory'[i].key = memory[i].key /\ memory'[i].says = memory[i].says
             /\ memory'[i].axis = memory[i].axis
             /\ memory'[i].evidence = memory[i].evidence /\ memory'[i].by = memory[i].by
             /\ memory'[i].status = IF i \in T THEN status ELSE memory[i].status
  <2>1. IsEntry(memory[i])
    BY DEF MemoryShape
  <2>2. CASE i \notin T
    <3>1. memory'[i] = memory[i]
      BY <2>2
    <3> QED BY <2>1, <2>2, <3>1
  <2>3. CASE i \in T
    <3>1. PICK row : row = memory'[i] /\ row = [memory[i] EXCEPT !.status = status]
      BY <2>3
    <3>2. /\ IsEntry(row) /\ row.key = memory[i].key /\ row.says = memory[i].says
          /\ row.axis = memory[i].axis /\ row.evidence = memory[i].evidence /\ row.by = memory[i].by
          /\ row.status = status
      BY <2>1, <3>1 DEF IsEntry
    <3> QED BY <2>3, <3>1, <3>2
  <2> QED BY <2>2, <2>3
<1>5. \E R : memory' \in Seq(R)
  <2> DEFINE R == {memory'[i] : i \in Entries}
  <2>1. memory' \in [1..Len(memory) -> R]
    BY <1>2, <1>3
  <2>2. memory' \in Seq(R)
    BY <1>2, <2>1
  <2> QED BY <2>2
<1>6. MemoryShape'
  BY <1>2, <1>3, <1>4, <1>5 DEF MemoryShape, Entries, IsEntry
<1> QED BY <1>2, <1>3, <1>4, <1>6 DEF Becoming, Entries

LEMMA DismissedRow ==
  ASSUME MemoryShape, NEW i \in Entries, memory' = [memory EXCEPT ![i].status = "DISMISSED"]
  PROVE  Becoming({i}, "DISMISSED")
<1>1. PICK S : memory \in Seq(S)
  BY DEF MemoryShape
<1>2. DOMAIN memory = Entries
  BY DEF Entries
<1>3. memory' = [j \in Entries |-> IF j \in {i} THEN [memory[j] EXCEPT !.status = "DISMISSED"]
                                   ELSE memory[j]]
  BY <1>1, <1>2
<1> QED BY <1>3, StatusOfRows

-----------------------------------------------------------------------------
(* What opposes each other is faced: it was recorded, or is being compared, or was *)
(* missed.                                                                    *)

IsContradiction(x) == x = [a |-> x.a, b |-> x.b, status |-> x.status]

Scanning == {"scan", "compare", "record", "mark"}

\* A request that has read the two and will compare them.
WaitsAs(x, candidates, i, j) ==
  /\ x.seen = i
  /\ \/ x.pc = "scan"
     \/ x.pc \in Scanning /\ \E candidate \in candidates : candidate.of = j /\ candidate.conflict
Waits(r, i, j) == WaitsAs(req[r], comparing[r], i, j)

Opposed(i, j) ==
  /\ InUse(i) /\ InUse(j)
  /\ Opposing(memory[i].says, memory[j].says)
  /\ memory[i].axis = memory[j].axis
Faced(i, j) ==
  \/ Recorded(i, j)
  \/ Missed(i, j)
  \/ \E r \in Requests : Waits(r, i, j) \/ Waits(r, j, i)

ContradictionsShape ==
  /\ \E S : contradictions \in Seq(S)
  /\ \A n \in DOMAIN contradictions : IsContradiction(contradictions[n])
  /\ comparing = [r \in Requests |-> comparing[r]]

AgreesInv ==
  /\ PlacedInv /\ MemoryShape /\ ContradictionsShape
  /\ \A i, j \in Entries : Opposed(i, j) => Faced(i, j)
  /\ \A r \in Requests : req[r].pc = "mark" => Recorded(req[r].seen, req[r].level)

LEMMA FacedAgrees ==
  ASSUME AgreesInv
  PROVE  KnowledgeAgrees
<1>1. ASSUME NEW r \in Requests, NEW i, NEW j, Waits(r, i, j)
      PROVE  Scanned(i)
  BY <1>1 DEF Waits, WaitsAs, Scanned, Scanning
<1> QED BY <1>1 DEF AgreesInv, KnowledgeAgrees, Opposed, Faced

\* What request r does to the rows, to what was recorded and to what it still compares.
LEMMA AgreesStep ==
  ASSUME AgreesInv, NEW r \in Requests, NEW new, Moves(r, new), Placed(new),
         MemoryShape', ContradictionsShape',
         \A i, j : Recorded(i, j) => Recorded(i, j)',
         \A s \in Requests : s # r => comparing'[s] = comparing[s],
         \A i, j \in Entries' : Opposed(i, j)' /\ Waits(r, i, j) =>
           Recorded(i, j)' \/ WaitsAs(new, comparing'[r], i, j) \/ Missed(i, j)',
         \A i, j \in Entries' : Opposed(i, j)' =>
           \/ /\ i \in Entries /\ j \in Entries /\ Opposed(i, j)
              /\ Missed(i, j) => Missed(i, j)'
           \/ Missed(i, j)'
           \/ WaitsAs(new, comparing'[r], i, j) \/ WaitsAs(new, comparing'[r], j, i)
           \/ Recorded(i, j)',
         new.pc = "mark" => Recorded(new.seen, new.level)'
  PROVE  AgreesInv'
<1>1. PlacedInv'
  BY PlacedStep DEF AgreesInv
<1>2. /\ req'[r] = Left(new) /\ req'[r].pc = new.pc
      /\ \A s \in Requests : s # r => req'[s] = req[s]
  BY MovesRequest DEF AgreesInv, PlacedInv
<1>3. new.pc \in Scanning => req'[r] = new
  BY <1>2, LeftIsRequest DEF Moves, Scanning
<1>4. \A i, j : WaitsAs(new, comparing'[r], i, j) => Waits(r, i, j)'
  BY <1>3 DEF Waits, WaitsAs, Scanning
<1>5. \A s \in Requests : s # r => \A i, j : Waits(s, i, j) => Waits(s, i, j)'
  BY <1>2 DEF Waits
<1>7. ASSUME NEW i \in Entries', NEW j \in Entries', Opposed(i, j)'
      PROVE  Faced(i, j)'
  <2>1. CASE Missed(i, j)'
    BY <2>1 DEF Faced
  <2>2. CASE WaitsAs(new, comparing'[r], i, j) \/ WaitsAs(new, comparing'[r], j, i)
    BY <1>4, <2>2 DEF Faced
  <2>3. CASE /\ i \in Entries /\ j \in Entries /\ Opposed(i, j)
             /\ Missed(i, j) => Missed(i, j)'
    <3>1. Faced(i, j)
      BY <2>3 DEF AgreesInv
    <3>2. CASE Recorded(i, j)
      BY <3>2 DEF Faced
    <3>3. CASE Missed(i, j)
      BY <2>3, <3>3 DEF Faced
    <3>4. CASE \E s \in Requests : Waits(s, i, j) \/ Waits(s, j, i)
      <4>1. PICK s \in Requests : Waits(s, i, j) \/ Waits(s, j, i)
        BY <3>4
      <4>2. CASE s # r
        BY <1>5, <4>1, <4>2 DEF Faced
      <4>3. CASE s = r
        <5>1. Opposed(j, i)'
          BY <1>7 DEF Opposed, Opposing
        <5>2. \/ Recorded(i, j)' \/ Recorded(j, i)' \/ Missed(i, j)' \/ Missed(j, i)'
              \/ Waits(r, i, j)' \/ Waits(r, j, i)'
          BY <1>4, <1>7, <4>1, <4>3, <5>1
        <5>3. (Recorded(j, i)' => Recorded(i, j)') /\ (Missed(j, i)' => Missed(i, j)')
          BY DEF Recorded, Missed
        <5> QED BY <5>2, <5>3 DEF Faced
      <4> QED BY <4>2, <4>3
    <3> QED BY <3>1, <3>2, <3>3, <3>4 DEF Faced
  <2>4. CASE Recorded(i, j)'
    BY <2>4 DEF Faced
  <2> QED BY <1>7, <2>1, <2>2, <2>3, <2>4
<1>8. ASSUME NEW s \in Requests, req'[s].pc = "mark"
      PROVE  Recorded(req[s].seen, req[s].level)'
  <2>1. CASE s = r
    BY <1>2, <1>3, <1>8, <2>1 DEF Scanning, Recorded
  <2>2. CASE s # r
    <3>1. PICK x : x = req[s] /\ x.pc = "mark" /\ req'[s] = x
      BY <1>2, <1>8, <2>2
    <3>2. Recorded(x.seen, x.level)'
      BY <3>1 DEF AgreesInv
    <3> QED BY <3>1, <3>2 DEF Recorded
  <2> QED BY <2>1, <2>2
<1> QED BY <1>1, <1>7, <1>8 DEF AgreesInv

\* A step that leaves what was recorded and what is compared, of a request that compares
\* nothing: what it writes opposes nothing that was not opposed.
LEMMA AgreesBeside ==
  ASSUME AgreesInv, NEW r \in Requests, NEW new, Moves(r, new), Placed(new),
         req[r].pc \notin Scanning, new.pc # "mark",
         MemoryShape', \A i, j \in Entries' : Opposed(i, j)' =>
                         \/ i \in Entries /\ j \in Entries /\ Opposed(i, j)
                         \/ WaitsAs(new, comparing[r], i, j) \/ WaitsAs(new, comparing[r], j, i),
         UNCHANGED <<contradictions, comparing, missed>>
  PROVE  AgreesInv'
<1>1. ContradictionsShape'
  BY DEF AgreesInv, ContradictionsShape, IsContradiction
<1>2. \A i, j : ~Waits(r, i, j)
  BY DEF Waits, WaitsAs, Scanning
<1>3. \A i, j : Recorded(i, j) => Recorded(i, j)'
  BY DEF Recorded
<1>4. /\ \A s \in Requests : s # r => comparing'[s] = comparing[s]
      /\ comparing'[r] = comparing[r]
      /\ \A i, j : Missed(i, j) => Missed(i, j)'
  BY DEF Missed
<1> QED BY <1>1, <1>2, <1>3, <1>4, AgreesStep

LEMMA AgreesElsewhere ==
  ASSUME AgreesInv, NEW r \in Requests, NEW new, Moves(r, new), Placed(new),
         req[r].pc \notin Scanning, new.pc # "mark", 
         UNCHANGED <<memory, contradictions, comparing, missed>>
  PROVE  AgreesInv'
<1>2. MemoryShape'
  BY DEF AgreesInv, MemoryShape, Entries, IsEntry
<1>3. \A i, j \in Entries' : Opposed(i, j)' => i \in Entries /\ j \in Entries /\ Opposed(i, j)
  BY DEF Opposed, Entries, InUse
<1> QED BY <1>2, <1>3, AgreesBeside

LEMMA AgreesRest ==
  ASSUME AgreesInv, UNCHANGED <<requestVars, memoryVars>>
  PROVE  AgreesInv'
<1>1. PlacedInv'
  BY PlacedRest DEF AgreesInv
<1>2. UNCHANGED <<req, memory, contradictions, comparing, missed>>
  BY DEF requestVars, memoryVars
<1>3. (MemoryShape /\ ContradictionsShape)'
  BY <1>2 DEF AgreesInv, MemoryShape, ContradictionsShape, Entries, IsEntry, IsContradiction
<1>4. \A i, j \in Entries' : Opposed(i, j)' => Faced(i, j)'
  BY <1>2 DEF AgreesInv, Entries, Opposed, InUse, Faced, Missed, Recorded, Waits, WaitsAs
<1>5. \A r \in Requests : req'[r].pc = "mark" => Recorded(req[r].seen, req[r].level)'
  BY <1>2 DEF AgreesInv, Recorded
<1> QED BY <1>1, <1>3, <1>4, <1>5 DEF AgreesInv

-----------------------------------------------------------------------------
LEMMA StoreObservationAgrees ==
  ASSUME AgreesInv, NEW r \in Requests, StoreObservation(r)
  PROVE  AgreesInv'
<1>1. PICK new : /\ Moves(r, new) /\ Placed(new) /\ new.pc = "scan"
                 /\ new.seen = IF req[r].seen = 0 THEN Len(memory) + 1 ELSE req[r].seen
  BY StoreObservationMoves DEF AgreesInv
<1>2. /\ req[r].pc \notin Scanning /\ new.pc # "mark"
      /\ UNCHANGED <<contradictions, comparing, missed>>
  BY <1>1 DEF StoreObservation, Scanning
<1>3. \A i, j : i = new.seen => WaitsAs(new, comparing[r], i, j)
  BY <1>1 DEF WaitsAs
<1>4. CASE req[r].seen = 0
  <2>1. PICK row : /\ row = Entry(req[r].account, Says[req[r].account], Axis[req[r].account], r)
                   /\ memory' = Append(memory, row)
    BY <1>4 DEF StoreObservation
  <2>2. IsEntry(row)
    BY <2>1 DEF Entry, IsEntry
  <2>3. /\ MemoryShape' /\ Len(memory) \in Nat
        /\ Entries = 1..Len(memory) /\ Entries' = 1..(Len(memory) + 1)
        /\ \A i \in Entries : memory'[i] = memory[i]
    BY <2>1, <2>2, RowAppended DEF AgreesInv
  <2>4. ASSUME NEW i \in Entries', NEW j \in Entries', Opposed(i, j)', i # new.seen, j # new.seen
        PROVE  i \in Entries /\ j \in Entries /\ Opposed(i, j)
    <3>1. i \in Entries /\ j \in Entries
      BY <1>1, <1>4, <2>3, <2>4
    <3> QED BY <2>3, <2>4, <3>1 DEF Opposed, InUse
  <2> QED BY <1>1, <1>2, <1>3, <2>3, <2>4, AgreesBeside
<1>5. CASE req[r].seen # 0
  <2>1. PICK n, says, count :
          /\ n = req[r].seen
          /\ memory' = [memory EXCEPT ![n].says = says, ![n].evidence = count, ![n].by = @ \cup {r}]
    BY <1>5 DEF StoreObservation
  <2>2. CASE n \in Entries
    <3>1. Writes(n)
      BY <2>1, <2>2, ObservedRow DEF AgreesInv
    <3>2. ASSUME NEW i \in Entries', NEW j \in Entries', Opposed(i, j)', i # new.seen, j # new.seen
          PROVE  i \in Entries /\ j \in Entries /\ Opposed(i, j)
      BY <1>1, <1>5, <2>1, <3>1, <3>2 DEF Writes, Opposed, InUse
    <3> QED BY <1>1, <1>2, <1>3, <3>1, <3>2, AgreesBeside DEF Writes
  <2>3. CASE n \notin Entries
    <3>1. UNCHANGED memory
      BY <2>1, <2>3 DEF AgreesInv, MemoryShape, Entries
    <3> QED BY <1>1, <1>2, <3>1, AgreesElsewhere
  <2> QED BY <2>2, <2>3
<1> QED BY <1>4, <1>5

LEMMA CorrectEntryAgrees ==
  ASSUME AgreesInv, NEW r \in Requests, CorrectEntry(r)
  PROVE  AgreesInv'
<1>1. PICK n \in Entries, says \in {Says[key] : key \in Keys}, axis \in {Axis[key] : key \in Keys} :
      \E new :
        /\ memory' = [memory EXCEPT ![n].says = says, ![n].axis = axis]
        /\ req[r].pc = "new"
        /\ Moves(r, new) /\ Placed(new) /\ new.op = "correct" /\ new.pc = "scan" /\ new.seen = n
  BY CorrectEntryMoves
<1>2. PICK new : /\ req[r].pc = "new"
                 /\ Moves(r, new) /\ Placed(new) /\ new.pc = "scan" /\ new.seen = n
  BY <1>1
<1>7. MemoryShape /\ memory' = [memory EXCEPT ![n].says = says, ![n].axis = axis]
  BY <1>1 DEF AgreesInv
<1>3. Writes(n)
  BY <1>7, CorrectedRow
<1>4. \A i, j : i = n => WaitsAs(new, comparing[r], i, j)
  BY <1>2 DEF WaitsAs
<1>5. ASSUME NEW i \in Entries', NEW j \in Entries', Opposed(i, j)', i # n, j # n
      PROVE  i \in Entries /\ j \in Entries /\ Opposed(i, j)
  BY <1>3, <1>5 DEF Writes, Opposed, InUse
<1>6. req[r].pc \notin Scanning /\ UNCHANGED <<contradictions, comparing, missed>>
  BY <1>2 DEF CorrectEntry, Scanning
<1> QED BY <1>2, <1>3, <1>4, <1>5, <1>6, AgreesBeside DEF Writes

LEMMA WriteConfirmedAgrees ==
  ASSUME AgreesInv, NEW r \in Requests, WriteConfirmed(r)
  PROVE  AgreesInv'
<1>1. PICK new : Moves(r, new) /\ Placed(new) /\ new.pc = "done"
  BY WriteConfirmedMoves DEF AgreesInv
<1>2. /\ req[r].pc \notin Scanning /\ new.pc # "mark"
      /\ UNCHANGED <<contradictions, comparing, missed>>
  BY <1>1 DEF WriteConfirmed, Doing, Scanning
<1>3. PICK n, count : /\ n = req[r].seen
                      /\ memory' = [memory EXCEPT ![n].evidence = count, ![n].by = @ \cup {r}]
  BY DEF WriteConfirmed
<1>4. CASE n \in Entries
  <2>1. /\ Writes(n) /\ memory'[n].says = memory[n].says /\ memory'[n].axis = memory[n].axis
        /\ memory'[n].status = memory[n].status
    BY <1>3, <1>4, CountedRow DEF AgreesInv
  <2>2. \A i \in Entries : /\ memory'[i].says = memory[i].says /\ memory'[i].axis = memory[i].axis
                           /\ memory'[i].status = memory[i].status
    BY <2>1 DEF Writes
  <2>3. \A i, j \in Entries' : Opposed(i, j)' => i \in Entries /\ j \in Entries /\ Opposed(i, j)
    BY <2>1, <2>2 DEF Writes, Opposed, InUse
  <2> QED BY <1>1, <1>2, <2>1, <2>3, AgreesBeside DEF Writes
<1>5. CASE n \notin Entries
  <2>1. UNCHANGED memory
    BY <1>3, <1>5 DEF AgreesInv, MemoryShape, Entries
  <2> QED BY <1>1, <1>2, <2>1, AgreesElsewhere
<1> QED BY <1>4, <1>5

\* What people do to the rows opposes nothing that was not opposed.
LEMMA HandlesScansNothing ==
  ASSUME AgreesInv, NEW r \in Requests, Handles(r)
  PROVE  /\ req[r].pc \notin Scanning
         /\ \E new : Moves(r, new) /\ Placed(new) /\ new.pc # "mark"
<1>1. req[r].pc \in {"new", "write", "keep", "drop"}
  BY DEF Handles, DismissEntry, PromoteToRule, WritePromoted, Resolve, KeepEntries, DropEntry,
         Arrives, Doing
<1>2. PICK new : Moves(r, new) /\ Placed(new) /\ new.op \in HandlingOps
  BY HandlesMoves DEF AgreesInv, Act
<1>3. new.pc # "mark"
  BY <1>2 DEF Placed, Fits, Learning, HandlingOps
<1> QED BY <1>1, <1>2, <1>3 DEF Scanning

LEMMA DismissesAgree ==
  ASSUME AgreesInv, NEW r \in Requests, Handles(r), NEW T, NEW status, Becoming(T, status),
         status # "ACTIVE", UNCHANGED <<contradictions, comparing, missed>>
  PROVE  AgreesInv'
<1>1. PICK new : /\ Moves(r, new) /\ Placed(new) /\ new.pc # "mark"
                 /\ req[r].pc \notin Scanning
  BY HandlesScansNothing
<1>2. \A i, j \in Entries' : Opposed(i, j)' => i \in Entries /\ j \in Entries /\ Opposed(i, j)
  BY DEF Becoming, Opposed, InUse
<1>3. MemoryShape'
  BY DEF Becoming
<1> QED BY <1>1, <1>2, <1>3, AgreesBeside

LEMMA PromotesAgree ==
  ASSUME AgreesInv, NEW r \in Requests, WritePromoted(r)
  PROVE  AgreesInv'
<1>1. PICK new : /\ Moves(r, new) /\ Placed(new) /\ new.pc # "mark"
                 /\ req[r].pc \notin Scanning
  BY HandlesScansNothing DEF Handles
<1>2. PICK n, terms : memory' = [memory EXCEPT ![n].type = "RULE", ![n].terms = terms]
  BY DEF WritePromoted
<1>3. UNCHANGED <<contradictions, comparing, missed>> /\ MemoryShape
  BY DEF WritePromoted, AgreesInv
<1>4. CASE n \in Entries
  <2>1. /\ Writes(n) /\ memory'[n].says = memory[n].says /\ memory'[n].axis = memory[n].axis
        /\ memory'[n].status = memory[n].status
    BY <1>2, <1>3, <1>4, PromotedRow
  <2>2. \A i, j \in Entries' : Opposed(i, j)' => i \in Entries /\ j \in Entries /\ Opposed(i, j)
    BY <2>1 DEF Writes, Opposed, InUse
  <2> QED BY <1>1, <1>3, <2>1, <2>2, AgreesBeside DEF Writes
<1>5. CASE n \notin Entries
  <2>1. UNCHANGED memory
    BY <1>2, <1>3, <1>5 DEF MemoryShape, Entries
  <2> QED BY <1>1, <1>3, <2>1, AgreesElsewhere
<1> QED BY <1>4, <1>5

\* What comes back by a resolution is missed until it is compared.
LEMMA KeepsAgree ==
  ASSUME AgreesInv, NEW r \in Requests, KeepEntries(r)
  PROVE  AgreesInv'
<1>1. PICK new : /\ Moves(r, new) /\ Placed(new) /\ new.pc # "mark"
                 /\ req[r].pc \notin Scanning
  BY HandlesScansNothing DEF Handles
<1>2. UNCHANGED <<contradictions, comparing>> /\ missed' = missed \cup {{i} : i \in {k \in Kept(r) : ~InUse(k)}}
  BY DEF KeepEntries
<1>3. Becoming(Kept(r), "ACTIVE")
  BY StatusOfRows DEF KeepEntries, AgreesInv
<1>4. ContradictionsShape' /\ (\A i, j : Recorded(i, j) => Recorded(i, j)')
  BY <1>2 DEF AgreesInv, ContradictionsShape, IsContradiction, Recorded
<1>5. \A i, j : ~Waits(r, i, j)
  BY <1>1 DEF Waits, WaitsAs, Scanning
<1>6. ASSUME NEW i \in Entries', NEW j \in Entries', Opposed(i, j)', ~Missed(i, j)'
      PROVE  /\ i \in Entries /\ j \in Entries /\ Opposed(i, j)
             /\ Missed(i, j) => Missed(i, j)'
  <2>1. ASSUME NEW k \in {i, j}, k \in Kept(r), ~InUse(k)
        PROVE  FALSE
    <3>1. PICK S : S = {x \in Kept(r) : ~InUse(x)} /\ missed' = missed \cup {{x} : x \in S}
      BY <1>2
    <3>2. k \in S
      BY <2>1, <3>1
    <3>3. {k} \in missed'
      BY <3>1, <3>2
    <3> QED BY <1>6, <2>1, <3>3 DEF Missed
  <2>2. i \in Entries /\ j \in Entries
    BY <1>3 DEF Becoming
  <2>3. InUse(i) /\ InUse(j)
    BY <1>3, <1>6, <2>1, <2>2 DEF Becoming, Opposed, InUse
  <2>4. /\ Opposing(memory[i].says, memory[j].says)
        /\ memory[i].axis = memory[j].axis
    BY <1>3, <1>6, <2>2 DEF Becoming, Opposed
  <2> QED BY <1>2, <2>2, <2>3, <2>4 DEF Opposed, Missed
<1>7. MemoryShape' /\ (\A s \in Requests : s # r => comparing'[s] = comparing[s])
  BY <1>2, <1>3 DEF Becoming
<1> QED BY <1>1, <1>4, <1>5, <1>6, <1>7, AgreesStep

LEMMA ResolveAgrees ==
  ASSUME AgreesInv, NEW r \in Requests, Resolve(r)
  PROVE  AgreesInv'
<1>1. PICK new : /\ Moves(r, new) /\ Placed(new) /\ new.pc # "mark"
                 /\ req[r].pc \notin Scanning
  BY HandlesScansNothing DEF Handles
<1>2. PICK n \in DOMAIN contradictions,
           resolution \in {"RESOLVED_A", "RESOLVED_B", "CONTEXT_DEPENDENT"} :
        contradictions' = [contradictions EXCEPT ![n].status = resolution]
  BY DEF Resolve
<1>3. UNCHANGED <<memory, comparing, missed>>
  BY DEF Resolve
<1>4. PICK S : contradictions \in Seq(S)
  BY DEF AgreesInv, ContradictionsShape
<1>5. PICK row : /\ row = [contradictions[n] EXCEPT !.status = resolution]
                 /\ contradictions' = [contradictions EXCEPT ![n] = row]
  BY <1>2, <1>4
<1>6. IsContradiction(contradictions[n])
  BY DEF AgreesInv, ContradictionsShape
<1>7. IsContradiction(row) /\ row.a = contradictions[n].a /\ row.b = contradictions[n].b
  BY <1>5, <1>6 DEF IsContradiction
<1>8. contradictions \in Seq(S \cup {row})
  BY <1>4
<1>9. /\ contradictions' \in Seq(S \cup {row}) /\ DOMAIN contradictions' = DOMAIN contradictions
      /\ contradictions'[n] = row
      /\ \A m \in DOMAIN contradictions : m # n => contradictions'[m] = contradictions[m]
  BY <1>5, <1>8
<1>10. \A m \in DOMAIN contradictions : /\ IsContradiction(contradictions'[m])
                                        /\ contradictions'[m].a = contradictions[m].a
                                        /\ contradictions'[m].b = contradictions[m].b
  <2>1. ASSUME NEW m \in DOMAIN contradictions
        PROVE  /\ IsContradiction(contradictions'[m])
               /\ contradictions'[m].a = contradictions[m].a
               /\ contradictions'[m].b = contradictions[m].b
    <3>1. CASE m = n
      BY <1>7, <1>9, <3>1
    <3>2. CASE m # n
      <4>1. contradictions'[m] = contradictions[m] /\ IsContradiction(contradictions[m])
        BY <1>9, <3>2 DEF AgreesInv, ContradictionsShape
      <4> QED BY <4>1
    <3> QED BY <3>1, <3>2
  <2> QED BY <2>1
<1>11. ContradictionsShape'
  BY <1>3, <1>9, <1>10 DEF AgreesInv, ContradictionsShape, IsContradiction
<1>12. \A i, j : Recorded(i, j) => Recorded(i, j)'
  BY <1>9, <1>10 DEF Recorded
<1>13. \A i, j : ~Waits(r, i, j)
  BY <1>1 DEF Waits, WaitsAs, Scanning
<1>14. MemoryShape' /\ \A i, j \in Entries' : Opposed(i, j)' =>
                         i \in Entries /\ j \in Entries /\ Opposed(i, j)
  BY <1>3 DEF AgreesInv, MemoryShape, Entries, IsEntry, Opposed, InUse
<1>15. /\ \A i, j : Missed(i, j) => Missed(i, j)'
       /\ \A s \in Requests : s # r => comparing'[s] = comparing[s]
  BY <1>3 DEF Missed
<1> QED BY <1>1, <1>11, <1>12, <1>13, <1>14, <1>15, AgreesStep

LEMMA HandlesAgrees ==
  ASSUME AgreesInv, NEW r \in Requests, Handles(r)
  PROVE  AgreesInv'
<1>1. CASE DismissEntry(r)
  <2>1. PICK i \in Entries : memory' = [memory EXCEPT ![i].status = "DISMISSED"]
    BY <1>1 DEF DismissEntry
  <2>2. Becoming({i}, "DISMISSED")
    BY <2>1, DismissedRow DEF AgreesInv
  <2> QED BY <1>1, <2>2, DismissesAgree DEF DismissEntry
<1>2. CASE DropEntry(r)
  <2>1. Becoming(Dropped(r), "DISMISSED")
    BY <1>2, StatusOfRows DEF DropEntry, AgreesInv
  <2> QED BY <1>2, <2>1, DismissesAgree DEF DropEntry
<1>3. CASE PromoteToRule(r)
  <2>1. UNCHANGED memoryVars
    BY <1>3 DEF PromoteToRule
  <2> QED BY <2>1, HandlesScansNothing, AgreesElsewhere DEF memoryVars
<1> QED BY <1>1, <1>2, <1>3, PromotesAgree, KeepsAgree, ResolveAgrees DEF Handles

-----------------------------------------------------------------------------
\* A scan goes on: it keeps the rows, and records no less.
LEMMA ScanAgrees ==
  ASSUME AgreesInv, NEW r \in Requests, NEW pc, NEW new, ScanGoesOn(r, new, pc),
         UNCHANGED memory, ContradictionsShape',
         \A i, j : Recorded(i, j) => Recorded(i, j)',
         \A s \in Requests : s # r => comparing'[s] = comparing[s],
         \A p \in missed : new.seen \notin p => p \in missed',
         \A i, j \in Entries : i = new.seen /\ (Waits(r, i, j) \/ Missed(i, j)) /\ Opposed(i, j) =>
           Recorded(i, j)' \/ WaitsAs(new, comparing'[r], i, j) \/ Missed(i, j)',
         pc = "mark" => Recorded(new.seen, new.level)'
  PROVE  AgreesInv'
<1>1. Moves(r, new) /\ Placed(new) /\ new.pc = pc /\ new.seen = req[r].seen
  BY DEF ScanGoesOn
<1>2. MemoryShape' /\ Entries' = Entries /\ \A i, j : Opposed(i, j)' <=> Opposed(i, j)
  BY DEF AgreesInv, MemoryShape, Entries, IsEntry, Opposed, InUse
<1>3. \A i, j \in Entries' : Opposed(i, j)' /\ Waits(r, i, j) =>
        Recorded(i, j)' \/ WaitsAs(new, comparing'[r], i, j) \/ Missed(i, j)'
  BY <1>1, <1>2 DEF Waits, WaitsAs
<1>4. ASSUME NEW i \in Entries', NEW j \in Entries', Opposed(i, j)'
      PROVE  \/ /\ i \in Entries /\ j \in Entries /\ Opposed(i, j)
                /\ Missed(i, j) => Missed(i, j)'
             \/ Missed(i, j)'
             \/ WaitsAs(new, comparing'[r], i, j) \/ WaitsAs(new, comparing'[r], j, i)
             \/ Recorded(i, j)'
  <2>1. i \in Entries /\ j \in Entries /\ Opposed(i, j) /\ Opposed(j, i)
    BY <1>2, <1>4 DEF Opposed, Opposing
  <2>2. /\ Recorded(j, i)' => Recorded(i, j)'
        /\ Missed(i, j) <=> Missed(j, i)
        /\ Missed(i, j)' <=> Missed(j, i)'
    BY DEF Recorded, Missed
  <2>3. CASE i = new.seen
    BY <2>1, <2>3
  <2>4. CASE j = new.seen
    BY <2>1, <2>2, <2>4
  <2>5. CASE new.seen \notin {i, j}
    BY <2>1, <2>5 DEF Missed
  <2> QED BY <2>3, <2>4, <2>5
<1> QED BY <1>1, <1>2, <1>3, <1>4, AgreesStep

LEMMA ComparingSet ==
  ASSUME AgreesInv, NEW r \in Requests, NEW left, comparing' = [comparing EXCEPT ![r] = left]
  PROVE  /\ comparing' = [s \in Requests |-> comparing'[s]] /\ comparing'[r] = left
         /\ \A s \in Requests : s # r => comparing'[s] = comparing[s]
  BY DEF AgreesInv, ContradictionsShape

LEMMA SameContradictions ==
  ASSUME ContradictionsShape, UNCHANGED contradictions,
         comparing' = [s \in Requests |-> comparing'[s]]
  PROVE  ContradictionsShape' /\ \A i, j : Recorded(i, j)' <=> Recorded(i, j)
  BY DEF ContradictionsShape, IsContradiction, Recorded

\* What a scan does not take was beyond as many as it takes.
LEMMA LeavesOut ==
  ASSUME MemoryShape, NEW i, NEW j \in Others(i), j \notin Candidates(i)
  PROVE  {i, j} \in LeftOut(i)
<1> DEFINE others == Others(i)
           nearer == {k \in others \ {j} : Position(k) < Position(j)}
<1>1. IsFiniteSet(others)
  <2>1. Entries = 1..Len(memory) /\ Len(memory) \in Nat
    BY DEF MemoryShape, Entries
  <2>2. others \subseteq 1..Len(memory)
    BY <2>1 DEF Others
  <2>3. IsFiniteSet(1..Len(memory))
    BY <2>1, FS_Interval
  <2> QED BY <2>2, <2>3, FS_Subset
<1>2. ~(Cardinality(nearer) < MAX_CANDIDATES_PER_SCAN)
  BY DEF Candidates
<1>3. nearer \subseteq others \ {j} /\ j \in others
  OBVIOUS
<1> HIDE DEF others, nearer
<1>4. /\ IsFiniteSet(others \ {j}) /\ Cardinality(others) \in Nat
      /\ Cardinality(others \ {j}) = Cardinality(others) - 1
  BY <1>1, <1>3, FS_RemoveElement, FS_CardinalityType
<1>5. Cardinality(nearer) \in Nat /\ Cardinality(nearer) <= Cardinality(others \ {j})
  BY <1>3, <1>4, FS_Subset, FS_CardinalityType
<1>6. Cardinality(others) > MAX_CANDIDATES_PER_SCAN
  BY <1>2, <1>4, <1>5, MemoryAssumption
<1> QED BY <1>6 DEF others, TooMany, LeftOut

LEMMA ReadCandidatesAgrees ==
  ASSUME AgreesInv, NEW r \in Requests, ReadCandidates(r)
  PROVE  AgreesInv'
<1>1. PICK i0 : i0 = req[r].seen
  OBVIOUS
<1>2. PICK new : ScanGoesOn(r, new, IF Compared(i0) = {} THEN AfterScan(r) ELSE "compare")
  BY <1>1, ReadCandidatesMoves DEF AgreesInv
<1>3. PICK pc : /\ pc = IF Compared(i0) = {} THEN AfterScan(r) ELSE "compare"
                /\ ScanGoesOn(r, new, pc)
  BY <1>2
<1>4. new.pc = pc /\ new.seen = i0 /\ pc # "mark"
  BY <1>1, <1>3 DEF ScanGoesOn, AfterScan
<1>5. PICK left : /\ left = {[of |-> j, conflict |-> memory[i0].axis = memory[j].axis] :
                               j \in Compared(i0)}
                  /\ comparing' = [comparing EXCEPT ![r] = left]
  BY <1>1 DEF ReadCandidates
<1>6. UNCHANGED <<memory, contradictions>> /\ missed' = {p \in missed : i0 \notin p} \cup LeftOut(i0)
  BY <1>1 DEF ReadCandidates
<1>7. /\ comparing'[r] = left /\ ContradictionsShape' /\ (\A i, j : Recorded(i, j) => Recorded(i, j)')
      /\ \A s \in Requests : s # r => comparing'[s] = comparing[s]
  BY <1>5, <1>6, ComparingSet, SameContradictions DEF AgreesInv
<1>8. ASSUME NEW j \in Entries, Opposed(i0, j)
      PROVE  WaitsAs(new, comparing'[r], i0, j) \/ Missed(i0, j)'
  <2>1. j # i0
    BY <1>8 DEF Opposed, Opposing
  <2>6. j \in Others(i0)
    BY <1>8, <2>1 DEF Opposed, Others
  <2>7. CASE j \notin Candidates(i0)
    <3>1. {i0, j} \in LeftOut(i0)
      BY <2>6, <2>7, LeavesOut DEF AgreesInv
    <3> QED BY <1>6, <3>1 DEF Missed
  <2> SUFFICES ASSUME j \in Candidates(i0) PROVE WaitsAs(new, comparing'[r], i0, j)
    BY <2>7
  <2>2. j \in Compared(i0) /\ memory[i0].axis = memory[j].axis
    BY <1>8 DEF Opposed, Compared
  <2>3. PICK candidate : /\ candidate = [of |-> j, conflict |-> memory[i0].axis = memory[j].axis]
                         /\ candidate \in left
    <3>1. [of |-> j, conflict |-> memory[i0].axis = memory[j].axis] \in left
      BY <1>5, <2>2, Zenon
    <3> QED BY <3>1
  <2>4. candidate.of = j /\ candidate.conflict
    BY <2>2, <2>3
  <2>5. new.pc \in Scanning
    BY <1>3, <1>4, <2>2 DEF Scanning
  <2> QED BY <1>4, <1>7, <2>3, <2>4, <2>5 DEF WaitsAs
<1>9. \A p \in missed : new.seen \notin p => p \in missed'
  BY <1>4, <1>6
<1> QED BY <1>3, <1>4, <1>6, <1>7, <1>8, <1>9, ScanAgrees

\* The candidate is left: it was recorded, or there is no conflict.
LEMMA LeaveAgrees ==
  ASSUME AgreesInv, NEW r \in Requests, req[r].pc \in {"compare", "record", "mark"},
         NEW candidate \in comparing[r], Leave(r, candidate),
         UNCHANGED <<memory, missed>>, ContradictionsShape',
         \A i, j : Recorded(i, j) => Recorded(i, j)',
         NEW n, n = req[r].seen, candidate.conflict => Recorded(n, candidate.of)'
  PROVE  AgreesInv'
<1>1. PICK new, pc : /\ pc = IF comparing[r] = {candidate} THEN AfterScan(r) ELSE "compare"
                     /\ ScanGoesOn(r, new, pc)
  BY LeaveMoves DEF AgreesInv
<1>2. new.pc = pc /\ new.seen = req[r].seen /\ pc # "mark"
  BY <1>1 DEF ScanGoesOn, AfterScan
<1>3. /\ comparing'[r] = comparing[r] \ {candidate}
      /\ \A s \in Requests : s # r => comparing'[s] = comparing[s]
  BY DEF Leave, AgreesInv, ContradictionsShape
<1>4. ASSUME NEW i, NEW j, Waits(r, i, j)
      PROVE  Recorded(i, j)' \/ WaitsAs(new, comparing'[r], i, j)
  <2>1. /\ i = req[r].seen
        /\ \E c \in comparing[r] : c.of = j /\ c.conflict
    BY <1>4 DEF Waits, WaitsAs
  <2>2. PICK c \in comparing[r] : c.of = j /\ c.conflict
    BY <2>1
  <2>3. CASE c = candidate
    <3>1. i = n /\ j = candidate.of /\ candidate.conflict
      BY <2>1, <2>2, <2>3
    <3> QED BY <3>1
  <2>4. CASE c # candidate
    <3>1. pc = "compare"
      BY <1>1, <2>4
    <3>2. new.pc \in Scanning /\ c \in comparing'[r]
      BY <1>2, <1>3, <2>4, <3>1 DEF Scanning
    <3> QED BY <1>2, <2>1, <2>2, <3>2 DEF WaitsAs
  <2> QED BY <2>3, <2>4
<1>5. \A i, j : Missed(i, j) => Missed(i, j)'
  BY DEF Missed
<1> QED BY <1>1, <1>2, <1>3, <1>4, <1>5, ScanAgrees

LEMMA AlreadyRecordedAgrees ==
  ASSUME AgreesInv, NEW r \in Requests, AlreadyRecorded(r)
  PROVE  AgreesInv'
<1>1. PICK candidate \in comparing[r] :
        IF Recorded(req[r].seen, candidate.of) THEN Leave(r, candidate)
        ELSE /\ Becomes(r, [req[r] EXCEPT !.pc = "record", !.level = candidate.of])
             /\ UNCHANGED comparing
  BY DEF AlreadyRecorded
<1>2. req[r].pc = "compare" /\ UNCHANGED <<memory, contradictions, missed>>
  BY DEF AlreadyRecorded
<1>3. CASE Recorded(req[r].seen, candidate.of)
  <2>1. Leave(r, candidate)
    BY <1>1, <1>3
  <2>2. comparing' = [s \in Requests |-> comparing'[s]]
    BY <2>1, ComparingSet DEF Leave
  <2>3. ContradictionsShape' /\ \A i, j : Recorded(i, j)' <=> Recorded(i, j)
    BY <1>2, <2>2, SameContradictions DEF AgreesInv
  <2>4. PICK n : n = req[r].seen /\ Recorded(n, candidate.of)'
    <3>1. PICK n : n = req[r].seen /\ Recorded(n, candidate.of)
      BY <1>3
    <3> QED BY <2>3, <3>1
  <2> QED BY <1>2, <2>1, <2>3, <2>4, LeaveAgrees
<1>4. CASE ~Recorded(req[r].seen, candidate.of)
  <2>1. /\ Becomes(r, [req[r] EXCEPT !.pc = "record", !.level = candidate.of])
        /\ UNCHANGED comparing
    BY <1>1, <1>4
  <2>2. PICK new : ScanGoesOn(r, new, "record")
    BY <1>2, <2>1, AlreadyRecordedMoves DEF AgreesInv
  <2>3. comparing' = [s \in Requests |-> comparing'[s]]
    BY <2>1 DEF AgreesInv, ContradictionsShape
  <2>4. ContradictionsShape' /\ \A i, j : Recorded(i, j) => Recorded(i, j)'
    BY <1>2, <2>3, SameContradictions DEF AgreesInv
  <2>5. new.pc = "record" /\ new.seen = req[r].seen
    BY <2>2 DEF ScanGoesOn
  <2>6. \A i, j : Waits(r, i, j) => WaitsAs(new, comparing'[r], i, j)
    BY <1>2, <2>1, <2>5 DEF Waits, WaitsAs, Scanning
  <2>7. \A i, j : Missed(i, j) => Missed(i, j)'
    BY <1>2 DEF Missed
  <2> QED BY <1>2, <2>1, <2>2, <2>4, <2>6, <2>7, ScanAgrees
<1> QED BY <1>3, <1>4

LEMMA RecordContradictionAgrees ==
  ASSUME AgreesInv, NEW r \in Requests, RecordContradiction(r)
  PROVE  AgreesInv'
<1>1. PICK candidate \in comparing[r] :
        /\ candidate.of = req[r].level
        /\ contradictions' = Append(contradictions,
             [a |-> req[r].seen, b |-> candidate.of,
              status |-> IF candidate.conflict THEN "UNRESOLVED" ELSE "CONTEXT_DEPENDENT"])
        /\ IF candidate.conflict THEN Goto(r, "mark") /\ UNCHANGED comparing ELSE Leave(r, candidate)
  BY DEF RecordContradiction
<1>2. req[r].pc = "record" /\ UNCHANGED <<memory, missed>>
  BY DEF RecordContradiction
<1>3. PICK status, row : /\ row = [a |-> req[r].seen, b |-> candidate.of, status |-> status]
                         /\ contradictions' = Append(contradictions, row)
  BY <1>1
<1>4. IsContradiction(row) /\ row.a = req[r].seen /\ row.b = candidate.of
  BY <1>3 DEF IsContradiction
<1>5. PICK S : contradictions \in Seq(S)
  BY DEF AgreesInv, ContradictionsShape
<1>6. contradictions \in Seq(S \cup {row})
  BY <1>5
<1>7. /\ contradictions' \in Seq(S \cup {row}) /\ Len(contradictions) \in Nat
      /\ DOMAIN contradictions = 1..Len(contradictions)
      /\ DOMAIN contradictions' = 1..(Len(contradictions) + 1)
      /\ \A m \in DOMAIN contradictions : contradictions'[m] = contradictions[m]
      /\ contradictions'[Len(contradictions) + 1] = row
  BY <1>3, <1>6
<1>8. \A m \in DOMAIN contradictions' : IsContradiction(contradictions'[m])
  <2>1. ASSUME NEW m \in DOMAIN contradictions'
        PROVE  IsContradiction(contradictions'[m])
    <3>1. CASE m = Len(contradictions) + 1
      BY <1>4, <1>7, <3>1
    <3>2. CASE m \in DOMAIN contradictions
      BY <1>7, <3>2 DEF AgreesInv, ContradictionsShape
    <3> QED BY <1>7, <3>1, <3>2
  <2> QED BY <2>1
<1>9. \A i, j : Recorded(i, j) => Recorded(i, j)'
  <2>1. /\ DOMAIN contradictions \subseteq DOMAIN contradictions'
        /\ \A m \in DOMAIN contradictions : contradictions'[m] = contradictions[m]
    BY <1>7
  <2> QED BY <2>1 DEF Recorded
<1>10. \A i, j : i = row.a /\ j = row.b => Recorded(i, j)'
  <2>1. PICK last : last \in DOMAIN contradictions' /\ contradictions'[last] = row
    BY <1>7
  <2> QED BY <2>1 DEF Recorded
<1>11. CASE ~candidate.conflict
  <2>1. Leave(r, candidate)
    BY <1>1, <1>11
  <2>2. comparing' = [s \in Requests |-> comparing'[s]]
    BY <2>1, ComparingSet DEF Leave
  <2>3. ContradictionsShape'
    BY <1>7, <1>8, <2>2 DEF ContradictionsShape, IsContradiction
  <2>4. PICK n : n = req[r].seen
    OBVIOUS
  <2> QED BY <1>2, <1>9, <1>11, <2>1, <2>3, <2>4, LeaveAgrees
<1>12. CASE candidate.conflict
  <2>1. Goto(r, "mark") /\ UNCHANGED comparing
    BY <1>1, <1>12
  <2>2. PICK new : ScanGoesOn(r, new, "mark") /\ new.level = req[r].level
    BY <1>2, <2>1, MarkMoves DEF AgreesInv
  <2>3. ContradictionsShape'
    BY <1>7, <1>8, <2>1 DEF AgreesInv, ContradictionsShape, IsContradiction
  <2>4. new.pc = "mark" /\ new.seen = req[r].seen
    BY <2>2 DEF ScanGoesOn
  <2>5. \A i, j : Waits(r, i, j) => WaitsAs(new, comparing'[r], i, j)
    BY <1>2, <2>1, <2>4 DEF Waits, WaitsAs, Scanning
  <2>6. Recorded(new.seen, new.level)'
    BY <1>1, <1>4, <1>10, <2>2, <2>4
  <2>7. \A i, j : Missed(i, j) => Missed(i, j)'
    BY <1>2 DEF Missed
  <2> QED BY <1>2, <1>9, <2>1, <2>2, <2>3, <2>5, <2>6, <2>7, ScanAgrees
<1> QED BY <1>11, <1>12

LEMMA ScanFailsAgrees ==
  ASSUME AgreesInv, NEW r \in Requests, ScanFails(r)
  PROVE  AgreesInv'
<1>1. PICK pc, new : pc = AfterScan(r) /\ ScanGoesOn(r, new, pc)
  BY ScanFailsMoves DEF AgreesInv
<1>2. UNCHANGED <<memory, contradictions>> /\ missed' = missed \cup {{req[r].seen}}
  BY DEF ScanFails
<1>3. new.seen = req[r].seen /\ pc # "mark"
  BY <1>1 DEF ScanGoesOn, AfterScan
<1>4. /\ ContradictionsShape' /\ (\A i, j : Recorded(i, j) => Recorded(i, j)')
      /\ \A s \in Requests : s # r => comparing'[s] = comparing[s]
  BY <1>2, ComparingSet, SameContradictions DEF AgreesInv, ScanFails
<1>5. \A i, j : i = new.seen => Missed(i, j)'
  BY <1>2, <1>3 DEF Missed
<1> QED BY <1>1, <1>2, <1>3, <1>4, <1>5, ScanAgrees

LEMMA MarkContradictedAgrees ==
  ASSUME AgreesInv, NEW r \in Requests, MarkContradicted(r)
  PROVE  AgreesInv'
<1>1. PICK candidate \in comparing[r] : candidate.of = req[r].level /\ Leave(r, candidate)
  BY DEF MarkContradicted
<1>2. req[r].pc = "mark" /\ UNCHANGED <<contradictions, missed>>
  BY DEF MarkContradicted
<1>3. PICK n, m : n = req[r].seen /\ m = req[r].level /\ Recorded(n, m)
  BY <1>2 DEF AgreesInv
<1>4. Becoming({n, m}, "CONTRADICTED")
  BY <1>3, StatusOfRows DEF MarkContradicted, AgreesInv
<1>5. PICK new, pc : /\ pc = IF comparing[r] = {candidate} THEN AfterScan(r) ELSE "compare"
                     /\ ScanGoesOn(r, new, pc)
  BY <1>1, <1>2, LeaveMoves DEF AgreesInv
<1>6. /\ Moves(r, new) /\ Placed(new) /\ new.pc = pc /\ new.seen = n /\ pc # "mark"
  BY <1>3, <1>5 DEF ScanGoesOn, AfterScan
<1>7. /\ comparing'[r] = comparing[r] \ {candidate}
      /\ comparing' = [s \in Requests |-> comparing'[s]]
      /\ \A s \in Requests : s # r => comparing'[s] = comparing[s]
  BY <1>1 DEF Leave, AgreesInv, ContradictionsShape
<1>8. ContradictionsShape' /\ \A i, j : Recorded(i, j)' <=> Recorded(i, j)
  BY <1>2, <1>7, SameContradictions DEF AgreesInv
<1>9. ASSUME NEW i, NEW j, Waits(r, i, j)
      PROVE  Recorded(i, j)' \/ WaitsAs(new, comparing'[r], i, j)
  <2>1. PICK c \in comparing[r] : i = n /\ c.of = j /\ c.conflict
    BY <1>2, <1>3, <1>9 DEF Waits, WaitsAs
  <2>2. CASE c = candidate
    <3>1. i = n /\ j = m
      BY <1>1, <1>3, <2>1, <2>2
    <3> QED BY <1>3, <1>8, <3>1
  <2>3. CASE c # candidate
    <3>1. pc = "compare"
      BY <1>5, <2>3
    <3>2. new.pc \in Scanning /\ c \in comparing'[r]
      BY <1>6, <1>7, <2>3, <3>1 DEF Scanning
    <3> QED BY <1>6, <2>1, <3>2 DEF WaitsAs
  <2> QED BY <2>2, <2>3
<1>10. \A i, j \in Entries' : Opposed(i, j)' => i \in Entries /\ j \in Entries /\ Opposed(i, j)
  BY <1>4 DEF Becoming, Opposed, InUse
<1>11. MemoryShape' /\ \A i, j : Missed(i, j) => Missed(i, j)'
  BY <1>2, <1>4 DEF Becoming, Missed
<1>12. \A i, j : Recorded(i, j) => Recorded(i, j)'
  BY <1>8
<1> QED BY <1>6, <1>7, <1>8, <1>9, <1>10, <1>11, <1>12, AgreesStep

LEMMA ObserversAgree ==
  ASSUME AgreesInv, NEW r \in Requests,
         RecordObservation(r) \/ LookUpObserved(r) \/ ObservationFails(r) \/ ConfirmEntry(r)
  PROVE  AgreesInv'
<1>1. req[r].pc \notin Scanning /\ UNCHANGED memoryVars
  BY DEF RecordObservation, LookUpObserved, ObservationFails, ConfirmEntry, Arrives, Doing, Scanning
<1>2. PICK new : Moves(r, new) /\ Placed(new) /\ new.pc \in {"learn", "store", "write", "done", "refused"}
  BY RecordObservationMoves, LookUpObservedMoves, ObservationFailsMoves, ConfirmEntryMoves
     DEF AgreesInv, Observed
<1> QED BY <1>1, <1>2, AgreesElsewhere DEF memoryVars

LEMMA MemoryAgrees ==
  ASSUME AgreesInv, MemoryStep
  PROVE  AgreesInv'
BY ObserversAgree, StoreObservationAgrees, ReadCandidatesAgrees, AlreadyRecordedAgrees,
   RecordContradictionAgrees, MarkContradictedAgrees, ScanFailsAgrees, WriteConfirmedAgrees,
   CorrectEntryAgrees, HandlesAgrees DEF MemoryStep, Handles

LEMMA StudioKeepsMemory ==
  ASSUME StudioStep
  PROVE  UNCHANGED memoryVars
BY DEF StudioStep, CreatePiece, CreateFirstVersion, MakeReady, EditContent, CreateVariations,
       ValidateTextBody, CreateEdited, CreateVaried, SelectVersion, SetCurrent, LearnFromEdit, Archive

\* What a step of the studio does to its request.
GoesBy(r) ==
  /\ req[r].pc \notin Scanning
  /\ \E new : Moves(r, new) /\ Placed(new) /\ new.op \in StudioOps /\ new.pc \notin Scanning

LEMMA StudioMovesOn ==
  ASSUME PlacedInv, StudioStep
  PROVE  \E r \in Requests : GoesBy(r)
<1>1. ASSUME NEW r \in Requests, CreatePiece(r) \/ CreateFirstVersion(r) \/ MakeReady(r)
      PROVE  GoesBy(r)
  BY <1>1, CreatePieceMoves, CreateFirstVersionMoves, MakeReadyMoves
     DEF GoesBy, StudioOps, Scanning, CreateFirstVersion, MakeReady, Doing
<1>2. ASSUME NEW r \in Requests, EditContent(r) \/ CreateVariations(r)
      PROVE  GoesBy(r)
  BY <1>2, EditContentMoves, CreateVariationsMoves DEF GoesBy, StudioOps, Scanning
<1>3. ASSUME NEW r \in Requests, ValidateTextBody(r)
      PROVE  GoesBy(r)
  BY <1>3, ValidateTextBodyMoves DEF GoesBy, StudioOps, Scanning, ValidateTextBody
<1>4. ASSUME NEW r \in Requests, CreateEdited(r) \/ CreateVaried(r) \/ SelectVersion(r)
      PROVE  GoesBy(r)
  BY <1>4, CreateEditedMoves, CreateVariedMoves, SelectVersionMoves
     DEF GoesBy, StudioOps, Scanning, CreateEdited, CreateVaried, Doing
<1>5. ASSUME NEW r \in Requests, SetCurrent(r)
      PROVE  GoesBy(r)
  <2>1. PICK new : /\ Moves(r, new) /\ Placed(new) /\ new.op = req[r].op
                   /\ new.pc \in {"learn", "done"}
    BY <1>5, SetCurrentMoves
  <2> QED BY <1>5, <2>1, SetCurrentMoves DEF GoesBy, StudioOps, Scanning
<1>6. ASSUME NEW r \in Requests, LearnFromEdit(r)
      PROVE  GoesBy(r)
  <2>1. PICK new : /\ Moves(r, new) /\ Placed(new) /\ new.op = "edit"
                   /\ new.pc \in {"store", "done"}
    BY <1>6, LearnFromEditMoves
  <2> QED BY <1>6, <2>1, LearnFromEditMoves DEF GoesBy, StudioOps, Scanning
<1>7. ASSUME NEW r \in Requests, Archive(r)
      PROVE  GoesBy(r)
  BY <1>7, ArchiveMoves DEF GoesBy, StudioOps, Scanning, Archive, Arrives
<1> QED BY <1>1, <1>2, <1>3, <1>4, <1>5, <1>6, <1>7 DEF StudioStep

LEMMA AgreesNext ==
  ASSUME AgreesInv, [Next]_vars
  PROVE  AgreesInv'
<1>1. CASE MemoryStep
  BY <1>1, MemoryAgrees
<1>2. CASE StudioStep
  <2>1. PICK r \in Requests : /\ req[r].pc \notin Scanning
                              /\ \E new : Moves(r, new) /\ Placed(new) /\ new.pc \notin Scanning
    BY <1>2, StudioMovesOn DEF AgreesInv, GoesBy
  <2>2. "mark" \in Scanning
    BY DEF Scanning
  <2> QED BY <1>2, <2>1, <2>2, StudioKeepsMemory, AgreesElsewhere DEF memoryVars
<1>3. CASE (OptimizerStep \/ ProductStep \/ ModerationStep) /\ UNCHANGED memoryVars
  <2>1. CASE UNCHANGED requestVars
    BY <1>3, <2>1, AgreesRest
  <2>2. ASSUME NEW r \in Requests, Act(r, OtherOps)
        PROVE  AgreesInv'
    <3>1. PICK new : Moves(r, new) /\ Placed(new) /\ new.op \in OtherOps
      BY <2>2 DEF Act
    <3>2. new.pc # "mark"
      BY <3>1 DEF Placed, Fits, Learning, OtherOps, OptimizerOps, ProductOps, ReviewOps
    <3>3. req[r].pc = "new" \/ req[r].op = new.op
      BY <3>1, MovesRequest DEF AgreesInv, PlacedInv
    <3>4. req[r].pc \notin Scanning
      BY <3>1, <3>3 DEF AgreesInv, PlacedInv, Placed, Fits, Learning, Scanning, OtherOps, OptimizerOps,
                        ProductOps, ReviewOps
    <3> QED BY <1>3, <3>1, <3>2, <3>4, AgreesElsewhere DEF memoryVars
  <2> QED BY <1>3, <2>1, <2>2, OthersAct DEF AgreesInv
<1>4. CASE UNCHANGED vars
  BY <1>4, AgreesRest DEF vars
<1> QED BY <1>1, <1>2, <1>3, <1>4 DEF Next

LEMMA MemoryInitShape ==
  ASSUME MemoryInit
  PROVE  /\ MemoryShape /\ ContradictionsShape /\ missed = {}
         /\ \A i, j \in Entries :
              /\ memory[i].evidence = 1 /\ memory[i].by = {0}
              /\ memory[i].key = memory[j].key => i = j
              /\ Opposed(i, j) => Recorded(i, j)
<1>1. PICK m \in Memories0 : memory = m.entries /\ contradictions = m.contradictions
  BY DEF MemoryInit
<1>2. PICK D, R : /\ D = EntriesOf({0}) /\ R = ContradictionsOf(DOMAIN m.entries)
                  /\ m.entries \in Seq(D) /\ m.contradictions \in Seq(R)
  BY MemoryAssumption
<1>3. \A x \in D : IsEntry(x)
  BY <1>2 DEF EntriesOf, IsEntry
<1>4. \A x \in R : IsContradiction(x)
  BY <1>2 DEF ContradictionsOf, IsContradiction
<1>5. MemoryShape
  BY <1>1, <1>2, <1>3 DEF MemoryShape, Entries
<1>6. ContradictionsShape
  BY <1>1, <1>2, <1>4 DEF ContradictionsShape, MemoryInit
<1>7. \A i, j \in Entries :
        /\ memory[i].evidence = 1 /\ memory[i].by = {0}
        /\ memory[i].key = memory[j].key => i = j
        /\ Opposed(i, j) => Recorded(i, j)
  <2>1. ASSUME NEW i \in Entries, NEW j \in Entries
        PROVE  /\ memory[i].evidence = 1 /\ memory[i].by = {0}
               /\ memory[i].key = memory[j].key => i = j
               /\ Opposed(i, j) => Recorded(i, j)
    <3>1. i \in DOMAIN m.entries /\ j \in DOMAIN m.entries
      BY <1>1 DEF Entries
    <3>2. /\ m.entries[i].evidence = 1 /\ m.entries[i].by = {0}
          /\ m.entries[i].key = m.entries[j].key => i = j
      BY <3>1, MemoryAssumption
    <3>3. Opposed(i, j) =>
            \E n \in DOMAIN m.contradictions : {m.contradictions[n].a, m.contradictions[n].b} = {i, j}
      BY <1>1, <3>1, OpposedBefore DEF Opposed, InUse
    <3> QED BY <1>1, <3>2, <3>3 DEF Recorded
  <2> QED BY <2>1
<1> QED BY <1>5, <1>6, <1>7 DEF MemoryInit

\* Two pieces of knowledge that oppose each other are not both given to the writer unless a
\* person was asked about the two, one is being compared, what would compare them failed or
\* never ran, or the other was beyond the MAX_CANDIDATES_PER_SCAN that a scan takes: however
\* many entries, observations, corrections and resolutions there are.
THEOREM KnowledgeStaysInAgreement == Spec => []KnowledgeAgrees
<1>1. Init => AgreesInv
  <2> SUFFICES ASSUME Init PROVE AgreesInv
    OBVIOUS
  <2>1. PlacedInv /\ \A r \in Requests : req[r].pc = "new"
    BY PlacedInit DEF Init
  <2>2. /\ MemoryShape /\ ContradictionsShape
        /\ \A i, j \in Entries : Opposed(i, j) => Recorded(i, j)
    BY MemoryInitShape DEF Init
  <2> QED BY <2>1, <2>2 DEF AgreesInv, Faced
<1>2. AgreesInv /\ [Next]_vars => AgreesInv'
  BY AgreesNext
<1>3. AgreesInv => KnowledgeAgrees
  BY FacedAgrees
<1> QED BY <1>1, <1>2, <1>3, PTL DEF Spec

-----------------------------------------------------------------------------
(* Each observation counts once.                                            *)

\* The request has counted nowhere.
Out(r) == \A i \in Entries : r \notin memory[i].by

\* What was read of the evidence of entry i: what is missing was counted meanwhile.
ReadOf(r, i, limit) ==
  /\ i \in Entries /\ limit \in Nat
  /\ limit <= Cardinality(memory[i].by)
  /\ limit < Cardinality(memory[i].by) =>
       \/ \E s, t \in memory[i].by : Met(s, t)
       \/ \E s \in memory[i].by : Met(r, s)

InRemoved(r) == \A i \in Entries : r \in memory[i].by => memory[i].key = RemovedKey

\* An edit makes two observations, under two keys.
EditCounts(r, x) ==
  /\ x.value \in {"edited", "removed", "added"}
  /\ x.value = "edited" => Out(r) /\ x.pc # "store"
  /\ x.value = "removed" => InRemoved(r)
  /\ x.value = "removed" /\ x.pc = "store" => Out(r) /\ x.account = RemovedKey
  /\ x.value = "added" /\ x.pc = "store" => InRemoved(r) /\ x.account = AddedKey

StoreCounts(r, x) ==
  IF x.seen = 0
  THEN \A j \in Entries : memory[j].key = x.account => \E s \in memory[j].by : Met(r, s)
  ELSE ReadOf(r, x.seen, x.limit) /\ memory[x.seen].key = x.account /\ r \notin memory[x.seen].by

CountsAs(r, x) ==
  /\ x.pc = "new" => Out(r)
  /\ x.op = "edit" /\ x.pc \in {"rules", "version", "current"} => Out(r)
  /\ x.op = "observe" /\ x.pc \in {"learn", "store"} => Out(r)
  /\ x.op = "confirm" /\ x.pc = "write" => Out(r) /\ ReadOf(r, x.seen, x.limit)
  /\ x.op = "correct" => x.pc \notin {"learn", "store"}
  /\ x.op = "edit" /\ x.pc \in Learning => EditCounts(r, x)
  /\ x.pc = "store" => StoreCounts(r, x)

EvidenceInv ==
  /\ PlacedInv /\ MemoryShape
  /\ \A i \in Entries : memory[i].by \subseteq Requests \cup {0} /\ memory[i].evidence \in Nat
  /\ EvidenceAddsUp
  /\ \A r \in Requests : CountsAs(r, req[r])

LEMMA CountedBy ==
  ASSUME NEW B, B \subseteq Requests \cup {0}
  PROVE  /\ IsFiniteSet(B) /\ Cardinality(B) \in Nat
         /\ \A r \in Requests \cup {0} :
              /\ IsFiniteSet(B \cup {r})
              /\ Cardinality(B \cup {r}) = IF r \in B THEN Cardinality(B) ELSE Cardinality(B) + 1
<1>1. IsFiniteSet(0..MaxRequests)
  BY FS_Interval, RequestsAssumption
<1>2. Requests \cup {0} \subseteq 0..MaxRequests
  BY RequestsAssumption DEF Requests
<1>3. IsFiniteSet(B)
  BY <1>1, <1>2, FS_Subset
<1> QED BY <1>3, FS_CardinalityType, FS_AddElement

\* A request that counts nowhere in this step.
Keeps ==
  /\ MemoryShape' /\ Entries' = Entries
  /\ \A i \in Entries : /\ memory'[i].key = memory[i].key /\ memory'[i].by = memory[i].by
                        /\ memory'[i].evidence = memory[i].evidence

LEMMA CountsKept ==
  ASSUME Keeps, met \subseteq met', NEW r, NEW x, CountsAs(r, x)
  PROVE  CountsAs(r, x)'
<1>1. \A s, t : Met(s, t) => Met(s, t)'
  BY DEF Met
<1>2. (Out(r) => Out(r)') /\ (InRemoved(r) => InRemoved(r)')
  BY DEF Keeps, Out, InRemoved
<1>3. \A i, limit : ReadOf(r, i, limit) => ReadOf(r, i, limit)'
  BY <1>1 DEF Keeps, ReadOf
<1>4. EditCounts(r, x) => EditCounts(r, x)'
  BY <1>2 DEF EditCounts
<1>5. StoreCounts(r, x) => StoreCounts(r, x)'
  <2>1. CASE x.seen = 0
    BY <1>1, <2>1 DEF Keeps, StoreCounts
  <2>2. CASE x.seen # 0
    <3>1. ReadOf(r, x.seen, x.limit) => x.seen \in Entries
      BY DEF ReadOf
    <3> QED BY <1>3, <2>2, <3>1 DEF Keeps, StoreCounts
  <2> QED BY <2>1, <2>2
<1> QED BY <1>2, <1>3, <1>4, <1>5 DEF CountsAs

LEMMA LeftCounts ==
  ASSUME NEW r, NEW x, IsRequest(x), CountsAs(r, x)
  PROVE  CountsAs(r, Left(x))
<1>1. CASE x.pc \notin {"done", "refused"}
  BY <1>1, LeftIsRequest
<1>2. CASE x.pc \in {"done", "refused"}
  <2>1. Left(x).pc \in {"done", "refused"}
    BY <1>2, LeftIsRequest
  <2> QED BY <2>1 DEF CountsAs, Learning
<1> QED BY <1>1, <1>2

LEMMA EvidenceStep ==
  ASSUME EvidenceInv, NEW r \in Requests, NEW new, Moves(r, new), Placed(new), Keeps,
         CountsAs(r, new)
  PROVE  EvidenceInv'
<1>1. PlacedInv' /\ met \subseteq met'
  BY PlacedStep, MovesRequest DEF EvidenceInv, PlacedInv
<1>2. /\ req'[r] = Left(new) /\ \A s \in Requests : s # r => req'[s] = req[s]
  BY MovesRequest DEF EvidenceInv, PlacedInv
<1>3. ASSUME NEW s \in Requests
      PROVE  \E x : x = req'[s] /\ CountsAs(s, x)
  <2>1. CASE s = r
    BY <1>2, <2>1, LeftCounts DEF Moves
  <2>2. CASE s # r
    BY <1>2, <2>2 DEF EvidenceInv
  <2> QED BY <2>1, <2>2
<1>4. \A s \in Requests : CountsAs(s, req[s])'
  <2>1. ASSUME NEW s \in Requests
        PROVE  CountsAs(s, req[s])'
    <3>1. PICK x : x = req'[s] /\ CountsAs(s, x)
      BY <1>3
    <3>2. CountsAs(s, x)'
      BY <1>1, <3>1, CountsKept
    <3> QED BY <3>1, <3>2 DEF CountsAs, EditCounts, StoreCounts, ReadOf
  <2> QED BY <2>1
<1>5. EvidenceAddsUp'
  <2>1. \A s, t : Met(s, t) => Met(s, t)'
    BY <1>1 DEF Met
  <2>2. \A i \in Entries : /\ memory'[i].key = memory[i].key /\ memory'[i].by = memory[i].by
                           /\ memory'[i].evidence = memory[i].evidence
    BY DEF Keeps
  <2> QED BY <2>1, <2>2 DEF EvidenceInv, EvidenceAddsUp, Keeps
<1> QED BY <1>1, <1>4, <1>5 DEF EvidenceInv, Keeps

LEMMA EvidenceRest ==
  ASSUME EvidenceInv, UNCHANGED <<requestVars, memoryVars>>
  PROVE  EvidenceInv'
<1>1. PlacedInv' /\ UNCHANGED <<req, met, memory>>
  BY PlacedRest DEF EvidenceInv, requestVars, memoryVars
<1>2. Keeps
  BY <1>1 DEF EvidenceInv, Keeps, MemoryShape, Entries, IsEntry
<1>3. \A s \in Requests : CountsAs(s, req[s])'
  <2>1. ASSUME NEW s \in Requests
        PROVE  CountsAs(s, req[s])'
    <3>1. PICK x : x = req[s] /\ x = req'[s] /\ CountsAs(s, x)
      BY <1>1 DEF EvidenceInv
    <3>2. CountsAs(s, x)'
      BY <1>1, <1>2, <3>1, CountsKept
    <3> QED BY <3>1, <3>2 DEF CountsAs, EditCounts, StoreCounts, ReadOf
  <2> QED BY <2>1
<1>4. EvidenceAddsUp'
  <2>1. Entries' = Entries /\ memory' = memory /\ \A s, t : Met(s, t)' <=> Met(s, t)
    BY <1>1 DEF Met, Entries
  <2> QED BY <2>1 DEF EvidenceInv, EvidenceAddsUp
<1> QED BY <1>1, <1>2, <1>3, <1>4 DEF EvidenceInv, Keeps

\* The rows of the evidence grow, and by this request only.
Grows(r) ==
  /\ MemoryShape' /\ Entries \subseteq Entries'
  /\ \A i \in Entries : /\ memory'[i].key = memory[i].key
                        /\ memory[i].by \subseteq memory'[i].by
                        /\ memory'[i].by \subseteq memory[i].by \cup {r}
  /\ \A i \in Entries' \ Entries : memory'[i].by = {r}

\* The others were in flight with the request that counts.
LEMMA OthersCount ==
  ASSUME EvidenceInv, NEW r \in InFlight, r \in Requests, met \subseteq met', Grows(r),
         NEW s \in Requests, s # r, NEW x, x = req[s],
         \A i \in Entries' : memory'[i].by \subseteq Requests \cup {0}
  PROVE  CountsAs(s, x)'
<1>1. \A q, t : Met(q, t) => Met(q, t)'
  BY DEF Met
<1>2. CountsAs(s, x)
  BY DEF EvidenceInv
<1>3. (Out(s) => Out(s)') /\ (InRemoved(s) => InRemoved(s)')
  BY DEF Grows, Out, InRemoved
<1>4. s \in InFlight => Met(s, r)'
  BY DEF EvidenceInv, PlacedInv, RequestsInv, Met
<1>5. ASSUME s \in InFlight, NEW i, NEW limit, ReadOf(s, i, limit)
      PROVE  ReadOf(s, i, limit)'
  <2>1. i \in Entries' /\ limit \in Nat
    BY <1>5 DEF ReadOf, Grows
  <2>2. PICK B, C : B = memory[i].by /\ C = memory'[i].by
    OBVIOUS
  <2>3. B \subseteq Requests \cup {0} /\ C \subseteq Requests \cup {0} /\ B \subseteq C /\ C \subseteq B \cup {r}
    BY <1>5, <2>1, <2>2 DEF ReadOf, Grows, EvidenceInv
  <2>4. CASE C = B
    BY <1>1, <1>5, <2>1, <2>2, <2>4 DEF ReadOf
  <2>5. CASE C # B
    <3>1. C = B \cup {r} /\ r \in C /\ r \notin B
      BY <2>3, <2>5
    <3>2. Cardinality(B) \in Nat /\ Cardinality(C) = Cardinality(B) + 1
      BY <2>3, <3>1, CountedBy
    <3>3. limit <= Cardinality(C)
      BY <1>5, <2>1, <2>2, <3>2 DEF ReadOf
    <3> QED BY <1>4, <1>5, <2>1, <2>2, <3>1, <3>3 DEF ReadOf
  <2> QED BY <2>4, <2>5
<1>6. EditCounts(s, x) => EditCounts(s, x)'
  BY <1>3 DEF EditCounts
<1>7. x.pc = "store" \/ x.pc = "write" => s \in InFlight
  BY DEF InFlight, Over
<1>8. x.pc = "store" /\ StoreCounts(s, x) => StoreCounts(s, x)'
  <2>1. CASE x.seen = 0
    <3>1. ASSUME x.pc = "store", StoreCounts(s, x), NEW j \in Entries', memory'[j].key = x.account
          PROVE  \E q \in memory'[j].by : Met(s, q)'
      <4>1. CASE j \in Entries
        BY <1>1, <2>1, <3>1, <4>1 DEF StoreCounts, Grows
      <4>2. CASE j \notin Entries
        BY <1>4, <1>7, <3>1, <4>2 DEF Grows
      <4> QED BY <4>1, <4>2
    <3> QED BY <2>1, <3>1 DEF StoreCounts
  <2>2. CASE x.seen # 0
    <3>1. ReadOf(s, x.seen, x.limit) => x.seen \in Entries
      BY DEF ReadOf
    <3> QED BY <1>5, <1>7, <2>2, <3>1 DEF Grows, StoreCounts
  <2> QED BY <2>1, <2>2
<1> QED BY <1>2, <1>3, <1>5, <1>6, <1>7, <1>8 DEF CountsAs

LEMMA EvidenceGrows ==
  ASSUME EvidenceInv, NEW r \in Requests, NEW new, Moves(r, new), Placed(new),
         req[r].pc \notin {"new"} \cup Over, Grows(r), CountsAs(r, new)', EvidenceAddsUp',
         \A i \in Entries' : memory'[i].by \subseteq Requests \cup {0} /\ memory'[i].evidence \in Nat
  PROVE  EvidenceInv'
<1>1. PlacedInv' /\ met \subseteq met'
  BY PlacedStep, MovesRequest DEF EvidenceInv, PlacedInv
<1>2. /\ req'[r] = Left(new) /\ \A s \in Requests : s # r => req'[s] = req[s]
  BY MovesRequest DEF EvidenceInv, PlacedInv
<1>3. r \in InFlight
  BY DEF InFlight
<1>4. \A s \in Requests : CountsAs(s, req[s])'
  <2>1. ASSUME NEW s \in Requests, s # r
        PROVE  CountsAs(s, req[s])'
    <3>1. PICK x : x = req[s] /\ x = req'[s]
      BY <1>2, <2>1
    <3>2. CountsAs(s, x)'
      BY <1>1, <1>3, <2>1, <3>1, OthersCount
    <3> QED BY <3>1, <3>2 DEF CountsAs, EditCounts, StoreCounts, ReadOf
  <2>2. CountsAs(r, req[r])'
    <3>1. PICK x : x = req'[r] /\ x = Left(new)
      BY <1>2
    <3>2. CountsAs(r, x)'
      <4>1. CASE new.pc \notin {"done", "refused"}
        <5>1. x = new
          BY <3>1, <4>1, LeftIsRequest DEF Moves
        <5> QED BY <5>1
      <4>2. CASE new.pc \in {"done", "refused"}
        <5>1. x.pc \in {"done", "refused"}
          BY <3>1, <4>2, LeftIsRequest DEF Moves
        <5> QED BY <5>1 DEF CountsAs, Learning
      <4> QED BY <4>1, <4>2
    <3> QED BY <3>1, <3>2 DEF CountsAs, EditCounts, StoreCounts, ReadOf
  <2> QED BY <2>1, <2>2
<1> QED BY <1>1, <1>4 DEF EvidenceInv, Grows

\* One more in an entry, after what was read of it.
LEMMA CountedOnce ==
  ASSUME EvidenceInv, NEW r \in Requests, NEW new, Moves(r, new), Placed(new),
         req[r].pc \notin {"new"} \cup Over, NEW n \in Entries, Writes(n), NEW count,
         memory'[n].key = memory[n].key, memory'[n].evidence = count + 1,
         memory'[n].by = memory[n].by \cup {r}, ReadOf(r, n, count), r \notin memory[n].by,
         CountsAs(r, new)'
  PROVE  EvidenceInv'
<1>1. Grows(r)
  BY DEF Grows, Writes
<1>2. \A s, t : Met(s, t) => Met(s, t)'
  BY MovesRequest DEF Met, EvidenceInv, PlacedInv
<1>3. PICK B, C : B = memory[n].by /\ C = memory'[n].by
  OBVIOUS
<1>4. /\ B \subseteq Requests \cup {0} /\ C = B \cup {r} /\ r \notin B
      /\ Cardinality(B) \in Nat /\ Cardinality(C) = Cardinality(B) + 1
  BY <1>3, CountedBy DEF EvidenceInv
<1>5. count \in Nat /\ count <= Cardinality(B)
      /\ (count < Cardinality(B) => (\E s, t \in B : Met(s, t)) \/ \E s \in B : Met(r, s))
  BY <1>3 DEF ReadOf
<1>6. \A i \in Entries' : memory'[i].by \subseteq Requests \cup {0} /\ memory'[i].evidence \in Nat
  <2>1. ASSUME NEW i \in Entries'
        PROVE  memory'[i].by \subseteq Requests \cup {0} /\ memory'[i].evidence \in Nat
    <3>1. CASE i = n
      BY <1>3, <1>4, <1>5, <3>1
    <3>2. CASE i # n
      BY <2>1, <3>2 DEF Writes, EvidenceInv
    <3> QED BY <3>1, <3>2
  <2> QED BY <2>1
<1>7. EvidenceAddsUp'
  <2>1. ASSUME NEW i \in Entries'
        PROVE  /\ memory'[i].evidence <= Cardinality(memory'[i].by)
               /\ memory'[i].evidence < Cardinality(memory'[i].by) =>
                    \E s, t \in memory'[i].by : Met(s, t)'
    <3>1. CASE i = n
      <4>1. /\ count + 1 <= Cardinality(C)
            /\ count + 1 < Cardinality(C) => \E s, t \in C : Met(s, t)'
        BY <1>2, <1>4, <1>5
      <4> QED BY <1>3, <3>1, <4>1
    <3>2. CASE i # n
      BY <1>2, <2>1, <3>2 DEF Writes, EvidenceInv, EvidenceAddsUp
    <3> QED BY <3>1, <3>2
  <2>2. ASSUME NEW i \in Entries', NEW j \in Entries', memory'[i].key = memory'[j].key, i # j
        PROVE  \E s \in memory'[i].by, t \in memory'[j].by : Met(s, t)'
    <3>1. PICK s \in memory[i].by, t \in memory[j].by : Met(s, t)
      BY <1>1, <2>2 DEF Grows, Writes, EvidenceInv, EvidenceAddsUp
    <3> QED BY <1>1, <1>2, <2>2, <3>1 DEF Grows, Writes
  <2> QED BY <2>1, <2>2 DEF EvidenceAddsUp
<1> QED BY <1>1, <1>6, <1>7, EvidenceGrows

\* The first of its key.
LEMMA CountedFirst ==
  ASSUME EvidenceInv, NEW r \in Requests, NEW new, Moves(r, new), Placed(new),
         req[r].pc \notin {"new"} \cup Over, NEW row, IsEntry(row), memory' = Append(memory, row),
         row.evidence = 1, row.by = {r},
         \A j \in Entries : memory[j].key = row.key => \E s \in memory[j].by : Met(r, s),
         CountsAs(r, new)'
  PROVE  EvidenceInv'
<1>1. /\ MemoryShape' /\ Len(memory) \in Nat
      /\ Entries = 1..Len(memory) /\ Entries' = 1..(Len(memory) + 1)
      /\ \A i \in Entries : memory'[i] = memory[i]
      /\ memory'[Len(memory) + 1] = row
  BY RowAppended DEF EvidenceInv
<1>2. PICK m : /\ m = Len(memory) + 1 /\ m \in Entries' /\ m \notin Entries /\ memory'[m] = row
               /\ Entries' = Entries \cup {m}
  BY <1>1
<1>3. Grows(r)
  BY <1>1, <1>2 DEF Grows
<1>4. \A s, t : (Met(s, t) => Met(s, t)') /\ (Met(s, t)' => Met(t, s)')
  BY MovesRequest DEF Met, EvidenceInv, PlacedInv
<1>5. Cardinality({r}) = 1
  BY FS_Singleton
<1>6. \A i \in Entries' : memory'[i].by \subseteq Requests \cup {0} /\ memory'[i].evidence \in Nat
  BY <1>1, <1>2 DEF EvidenceInv
<1>7. EvidenceAddsUp'
  <2>1. ASSUME NEW i \in Entries'
        PROVE  /\ memory'[i].evidence <= Cardinality(memory'[i].by)
               /\ memory'[i].evidence < Cardinality(memory'[i].by) =>
                    \E s, t \in memory'[i].by : Met(s, t)'
    <3>1. CASE i = m
      <4>1. memory'[i].evidence = 1 /\ memory'[i].by = {r}
        BY <1>2, <3>1
      <4> QED BY <1>5, <4>1
    <3>2. CASE i # m
      BY <1>1, <1>2, <1>4, <2>1, <3>2 DEF EvidenceInv, EvidenceAddsUp
    <3> QED BY <3>1, <3>2
  <2>2. ASSUME NEW i \in Entries', NEW j \in Entries', memory'[i].key = memory'[j].key, i # j
        PROVE  \E s \in memory'[i].by, t \in memory'[j].by : Met(s, t)'
    <3>1. CASE i # m /\ j # m
      BY <1>1, <1>2, <1>4, <2>2, <3>1 DEF EvidenceInv, EvidenceAddsUp
    <3>2. CASE i = m
      <4>1. j \in Entries /\ memory[j].key = row.key /\ memory'[j] = memory[j]
        BY <1>1, <1>2, <2>2, <3>2
      <4>2. PICK s \in memory[j].by : Met(r, s)
        BY <4>1
      <4>3. r \in memory'[i].by /\ s \in memory'[j].by /\ Met(r, s)'
        BY <1>2, <1>4, <3>2, <4>1, <4>2
      <4> QED BY <4>3
    <3>3. CASE j = m
      <4>1. i \in Entries /\ memory[i].key = row.key /\ memory'[i] = memory[i]
        BY <1>1, <1>2, <2>2, <3>3
      <4>2. PICK s \in memory[i].by : Met(r, s)
        BY <4>1
      <4>3. r \in memory'[j].by /\ s \in memory'[i].by /\ Met(s, r)'
        BY <1>2, <1>4, <3>3, <4>1, <4>2
      <4> QED BY <4>3
    <3> QED BY <3>1, <3>2, <3>3
  <2> QED BY <2>1, <2>2 DEF EvidenceAddsUp
<1> QED BY <1>3, <1>6, <1>7, EvidenceGrows

LEMMA StoreObservationCounts ==
  ASSUME EvidenceInv, NEW r \in Requests, StoreObservation(r)
  PROVE  EvidenceInv'
<1>1. PICK new : /\ Moves(r, new) /\ Placed(new) /\ new.op = req[r].op /\ new.pc = "scan"
                 /\ new.value = req[r].value /\ new.account = req[r].account
  BY StoreObservationMoves DEF EvidenceInv
<1>2. PICK x : x = req[r] /\ x.pc = "store" /\ x.op \in {"observe", "edit"}
  BY DEF StoreObservation, EvidenceInv, PlacedInv, Placed, Fits, Learning, CountsAs
<1>3. CountsAs(r, x) /\ req[r].pc \notin {"new"} \cup Over
  BY <1>2 DEF EvidenceInv, Over
<1>4. StoreCounts(r, x)
  BY <1>2, <1>3 DEF CountsAs
\* What it counted in is of the key that it observed.
<1>5. ASSUME Grows(r),
             \A i \in Entries' : r \in memory'[i].by /\ (i \in Entries => r \notin memory[i].by)
                                   => memory'[i].key = x.account
      PROVE  CountsAs(r, new)'
  <2>1. CASE x.op = "observe"
    BY <1>1, <1>2, <2>1 DEF CountsAs
  <2>2. CASE x.op = "edit"
    <3>1. EditCounts(r, x)
      BY <1>2, <1>3, <2>2 DEF CountsAs, Learning
    <3>2. x.value \in {"removed", "added"}
      BY <1>2, <3>1 DEF EditCounts
    <3>3. x.value = "removed" => InRemoved(r)'
      BY <1>2, <1>5, <3>1 DEF EditCounts, InRemoved, Out, Grows
    <3>4. EditCounts(r, new)'
      BY <1>1, <1>2, <3>2, <3>3 DEF EditCounts
    <3> QED BY <1>1, <1>2, <2>2, <3>4 DEF CountsAs
  <2> QED BY <1>2, <2>1, <2>2
<1>6. CASE x.seen = 0
  <2>1. PICK row : /\ row = Entry(x.account, Says[x.account], Axis[x.account], r)
                   /\ memory' = Append(memory, row)
    BY <1>2, <1>6 DEF StoreObservation
  <2>2. IsEntry(row) /\ row.key = x.account /\ row.evidence = 1 /\ row.by = {r}
    BY <2>1 DEF Entry, IsEntry
  <2>3. /\ MemoryShape' /\ Len(memory) \in Nat
        /\ Entries = 1..Len(memory) /\ Entries' = 1..(Len(memory) + 1)
        /\ \A i \in Entries : memory'[i] = memory[i]
        /\ memory'[Len(memory) + 1] = row
    BY <2>1, <2>2, RowAppended DEF EvidenceInv
  <2>4. PICK m : m \notin Entries /\ memory'[m] = row /\ Entries' = Entries \cup {m}
    BY <2>3
  <2>5. Grows(r)
    BY <2>2, <2>3, <2>4 DEF Grows
  <2>6. CountsAs(r, new)'
    BY <1>5, <2>2, <2>3, <2>4, <2>5
  <2>7. \A j \in Entries : memory[j].key = row.key => \E s \in memory[j].by : Met(r, s)
    BY <1>4, <1>6, <2>2 DEF StoreCounts
  <2> QED BY <1>1, <1>3, <2>1, <2>2, <2>6, <2>7, CountedFirst
<1>7. CASE x.seen # 0
  <2>1. PICK n, count, says, more :
          /\ n = req[r].seen /\ count = req[r].limit /\ more = count + 1
          /\ memory' = [memory EXCEPT ![n].says = says, ![n].evidence = more, ![n].by = @ \cup {r}]
    <3>1. PICK n, says, more :
            /\ n = req[r].seen /\ more = req[r].limit + 1
            /\ memory' = [memory EXCEPT ![n].says = says, ![n].evidence = more, ![n].by = @ \cup {r}]
      <4>1. memory' = [memory EXCEPT ![req[r].seen].says = Says[req[r].account],
                                     ![req[r].seen].evidence = req[r].limit + 1,
                                     ![req[r].seen].by = @ \cup {r}]
        BY <1>2, <1>7 DEF StoreObservation
      <4> QED BY <4>1
    <3>2. PICK count : count = req[r].limit /\ more = count + 1
      BY <3>1
    <3> QED BY <3>1, <3>2
  <2>2. /\ n \in Entries /\ ReadOf(r, n, count) /\ memory[n].key = x.account
        /\ r \notin memory[n].by
    BY <1>2, <1>4, <1>7, <2>1 DEF StoreCounts, ReadOf
  <2>3. MemoryShape /\ memory' = [memory EXCEPT ![n].says = says, ![n].evidence = more, ![n].by = @ \cup {r}]
    BY <2>1 DEF EvidenceInv
  <2>4. /\ Writes(n) /\ memory'[n].key = memory[n].key /\ memory'[n].evidence = count + 1
        /\ memory'[n].by = memory[n].by \cup {r}
    <3>1. n \in Entries
      BY <2>2
    <3>2. Writes(n)
      BY <2>3, <3>1, ObservedRow
    <3>3. memory'[n].key = memory[n].key
      BY <2>3, <3>1, ObservedRow
    <3>4. CountedIn(n, r, more)
      BY <2>3, <3>1, ObservedRow
    <3> QED BY <2>1, <3>2, <3>3, <3>4 DEF CountedIn
  <2>5. Grows(r)
    BY <2>4 DEF Writes, Grows
  <2>6. \A i \in Entries' : r \in memory'[i].by /\ (i \in Entries => r \notin memory[i].by)
                              => memory'[i].key = x.account
    BY <2>2, <2>4 DEF Writes
  <2>7. CountsAs(r, new)'
    BY <1>5, <2>5, <2>6
  <2> QED BY <1>1, <1>3, <2>2, <2>4, <2>7, CountedOnce
<1> QED BY <1>6, <1>7

LEMMA WriteConfirmedCounts ==
  ASSUME EvidenceInv, NEW r \in Requests, WriteConfirmed(r)
  PROVE  EvidenceInv'
<1>1. PICK new : Moves(r, new) /\ Placed(new) /\ new.pc = "done"
  BY WriteConfirmedMoves DEF EvidenceInv
<1>2. PICK n, count : n = req[r].seen /\ count = req[r].limit
  OBVIOUS
<1>3. Out(r) /\ ReadOf(r, n, count) /\ n \in Entries
  BY <1>2 DEF EvidenceInv, CountsAs, WriteConfirmed, Doing, ReadOf
<1>4. PICK more : /\ more = count + 1
                  /\ memory' = [memory EXCEPT ![n].evidence = more, ![n].by = @ \cup {r}]
  BY <1>2 DEF WriteConfirmed
<1>5. /\ Writes(n) /\ memory'[n].key = memory[n].key /\ memory'[n].evidence = count + 1
      /\ memory'[n].by = memory[n].by \cup {r}
  BY <1>3, <1>4, CountedRow DEF EvidenceInv
<1>6. r \notin memory[n].by /\ req[r].pc \notin {"new"} \cup Over
  BY <1>3 DEF Out, WriteConfirmed, Doing, Over
<1>7. CountsAs(r, new)'
  BY <1>1 DEF CountsAs, Learning
<1> QED BY <1>1, <1>3, <1>5, <1>6, <1>7, CountedOnce

-----------------------------------------------------------------------------
(* The other steps count nothing.                                           *)

LEMMA MemoryKept ==
  ASSUME MemoryShape, UNCHANGED memory
  PROVE  Keeps
<1>1. MemoryShape' /\ Entries' = Entries
  BY DEF MemoryShape, Entries, IsEntry
<1>2. \A i : memory'[i] = memory[i]
  OBVIOUS
<1> QED BY <1>1, <1>2 DEF Keeps

\* Who neither observes nor confirms counts nothing.
LEMMA CountsNot ==
  ASSUME NEW r, NEW x, Placed(x), x.pc # "new", x.op \notin {"edit", "observe", "confirm", "correct"}
  PROVE  CountsAs(r, x)
  BY DEF CountsAs, Placed, Fits, Learning

LEMMA ScanCounts ==
  ASSUME EvidenceInv, NEW r \in Requests, req[r].pc \in Scanning, NEW pc,
         pc \in {"compare", "record", "mark", AfterScan(r)}, NEW new, ScanGoesOn(r, new, pc), Keeps
  PROVE  EvidenceInv'
<1>1. PICK x : x = req[r] /\ x.op \in {"observe", "edit", "correct"} /\ CountsAs(r, x)
  BY DEF EvidenceInv, PlacedInv, Placed, Fits, Learning, Scanning
<1>2. /\ Moves(r, new) /\ Placed(new) /\ new.op = x.op /\ new.pc = pc /\ new.value = x.value
      /\ pc \in {"compare", "record", "mark", "learn", "done"} /\ (pc = "learn" => x.op = "edit")
  BY <1>1 DEF ScanGoesOn, AfterScan
<1>3. new.op = "edit" => EditCounts(r, new)
  <2>1. x.op = "edit" => EditCounts(r, x)
    BY <1>1 DEF CountsAs, Learning, Scanning
  <2> QED BY <1>2, <2>1 DEF EditCounts
<1>4. CountsAs(r, new)
  BY <1>1, <1>2, <1>3 DEF CountsAs
<1> QED BY <1>2, <1>4, EvidenceStep

LEMMA ScannersCount ==
  ASSUME EvidenceInv, NEW r \in Requests,
         ReadCandidates(r) \/ AlreadyRecorded(r) \/ RecordContradiction(r) \/ MarkContradicted(r)
           \/ ScanFails(r)
  PROVE  EvidenceInv'
<1>1. req[r].pc \in Scanning
  BY DEF ReadCandidates, AlreadyRecorded, RecordContradiction, MarkContradicted, ScanFails, Scanning
<1>2. Keeps
  <2>1. CASE MarkContradicted(r)
    <3>1. PICK T : /\ T = {req[r].seen, req[r].level}
                   /\ memory' = [i \in Entries |-> IF i \in T THEN [memory[i] EXCEPT !.status = "CONTRADICTED"]
                                                   ELSE memory[i]]
      BY <2>1 DEF MarkContradicted
    <3>2. Becoming(T, "CONTRADICTED")
      BY <3>1, StatusOfRows DEF EvidenceInv
    <3> QED BY <3>2 DEF Becoming, Keeps
  <2>2. CASE UNCHANGED memory
    <3>1. MemoryShape
      BY DEF EvidenceInv
    <3> QED BY <2>2, <3>1, MemoryKept
  <2> QED BY <2>1, <2>2 DEF ReadCandidates, AlreadyRecorded, RecordContradiction, ScanFails
<1>3. \E pc \in {"compare", "record", "mark", AfterScan(r)} : \E new : ScanGoesOn(r, new, pc)
  <2>1. CASE ReadCandidates(r)
    BY <2>1, ReadCandidatesMoves DEF EvidenceInv
  <2>2. CASE ScanFails(r)
    BY <2>2, ScanFailsMoves DEF EvidenceInv
  <2>3. ASSUME NEW candidate, Leave(r, candidate), req[r].pc \in {"compare", "record", "mark"}
        PROVE  \E pc \in {"compare", "record", "mark", AfterScan(r)} : \E new : ScanGoesOn(r, new, pc)
    BY <2>3, LeaveMoves DEF EvidenceInv
  <2>4. CASE AlreadyRecorded(r)
    BY <2>3, <2>4, AlreadyRecordedMoves DEF AlreadyRecorded, EvidenceInv
  <2>5. CASE RecordContradiction(r)
    BY <2>3, <2>5, MarkMoves DEF RecordContradiction, EvidenceInv
  <2>6. CASE MarkContradicted(r)
    BY <2>3, <2>6 DEF MarkContradicted
  <2> QED BY <2>1, <2>2, <2>4, <2>5, <2>6
<1> QED BY <1>1, <1>2, <1>3, ScanCounts

LEMMA HandlesCount ==
  ASSUME EvidenceInv, NEW r \in Requests, Handles(r)
  PROVE  EvidenceInv'
<1>1. PICK new : Moves(r, new) /\ Placed(new) /\ new.op \in HandlingOps
  BY HandlesMoves DEF EvidenceInv, Act
<1>2. CountsAs(r, new)
  BY <1>1, CountsNot DEF HandlingOps, Moves
<1>3. MemoryShape
  BY DEF EvidenceInv
<1>4. \A T, status : Becoming(T, status) => Keeps
  BY DEF Becoming, Keeps
<1>5. Keeps
  <2>1. CASE DismissEntry(r)
    <3>1. PICK i \in Entries : memory' = [memory EXCEPT ![i].status = "DISMISSED"]
      BY <2>1 DEF DismissEntry
    <3> QED BY <1>3, <1>4, <3>1, DismissedRow
  <2>2. CASE DropEntry(r)
    <3>1. Becoming(Dropped(r), "DISMISSED")
      BY <1>3, <2>2, StatusOfRows DEF DropEntry
    <3> QED BY <1>4, <3>1
  <2>3. CASE KeepEntries(r)
    <3>1. Becoming(Kept(r), "ACTIVE")
      BY <1>3, <2>3, StatusOfRows DEF KeepEntries
    <3> QED BY <1>4, <3>1
  <2>4. CASE WritePromoted(r)
    <3>1. PICK n, terms : memory' = [memory EXCEPT ![n].type = "RULE", ![n].terms = terms]
      BY <2>4 DEF WritePromoted
    <3>2. CASE n \in Entries
      <4>1. /\ Writes(n) /\ memory'[n].key = memory[n].key /\ memory'[n].evidence = memory[n].evidence
            /\ memory'[n].by = memory[n].by
        BY <1>3, <3>1, <3>2, PromotedRow
      <4> QED BY <4>1 DEF Writes, Keeps
    <3>3. CASE n \notin Entries
      <4>1. UNCHANGED memory
        BY <1>3, <3>1, <3>3 DEF MemoryShape, Entries
      <4> QED BY <1>3, <4>1, MemoryKept
    <3> QED BY <3>2, <3>3
  <2>5. CASE UNCHANGED memory
    BY <1>3, <2>5, MemoryKept
  <2> QED BY <2>1, <2>2, <2>3, <2>4, <2>5 DEF Handles, PromoteToRule, Resolve, memoryVars
<1> QED BY <1>1, <1>2, <1>5, EvidenceStep

LEMMA CorrectEntryCounts ==
  ASSUME EvidenceInv, NEW r \in Requests, CorrectEntry(r)
  PROVE  EvidenceInv'
<1>1. PICK n \in Entries, says \in {Says[key] : key \in Keys}, axis \in {Axis[key] : key \in Keys} :
      \E new :
        /\ memory' = [memory EXCEPT ![n].says = says, ![n].axis = axis]
        /\ req[r].pc = "new"
        /\ Moves(r, new) /\ Placed(new) /\ new.op = "correct" /\ new.pc = "scan" /\ new.seen = n
  BY CorrectEntryMoves
<1>2. PICK new : Moves(r, new) /\ Placed(new) /\ new.op = "correct" /\ new.pc = "scan"
  BY <1>1
<1>3. MemoryShape /\ memory' = [memory EXCEPT ![n].says = says, ![n].axis = axis]
  BY <1>1 DEF EvidenceInv
<1>4. /\ Writes(n) /\ memory'[n].key = memory[n].key /\ memory'[n].evidence = memory[n].evidence
      /\ memory'[n].by = memory[n].by
  BY <1>3, CorrectedRow
<1>5. Keeps
  BY <1>4 DEF Writes, Keeps
<1>6. CountsAs(r, new)
  BY <1>2 DEF CountsAs
<1> QED BY <1>2, <1>5, <1>6, EvidenceStep

\* What is read of an entry is what was counted in it.
LEMMA ReadIsCounted ==
  ASSUME EvidenceInv, NEW r, NEW i \in Entries
  PROVE  ReadOf(r, i, memory[i].evidence)
  BY DEF EvidenceInv, EvidenceAddsUp, ReadOf

\* What an observation looks up of its key.
LEMMA LookedUp ==
  ASSUME EvidenceInv, NEW r, NEW x, Out(r) \/ (InRemoved(r) /\ x.account = AddedKey),
         \/ Found(x.account) = {} /\ x.seen = 0 /\ x.limit = 0
         \/ x.seen \in Found(x.account) /\ x.limit = memory[x.seen].evidence
  PROVE  StoreCounts(r, x)
<1>1. CASE Found(x.account) = {} /\ x.seen = 0
  BY <1>1 DEF StoreCounts, Found
<1>2. CASE x.seen \in Found(x.account) /\ x.limit = memory[x.seen].evidence
  <2>1. PICK i \in Entries : /\ i = x.seen /\ memory[i].key = x.account
                             /\ x.limit = memory[i].evidence
    BY <1>2 DEF Found
  <2>2. i # 0
    <3>1. PICK S : memory \in Seq(S)
      BY DEF EvidenceInv, MemoryShape
    <3>2. Entries = 1..Len(memory) /\ Len(memory) \in Nat
      BY <3>1 DEF Entries
    <3> QED BY <2>1, <3>2
  <2>3. ReadOf(r, i, x.limit)
    BY <2>1, ReadIsCounted
  <2>4. r \notin memory[i].by
    BY <2>1, StudioAssumption DEF Out, InRemoved
  <2> QED BY <2>1, <2>2, <2>3, <2>4 DEF StoreCounts
<1> QED BY <1>1, <1>2

LEMMA ObserversCount ==
  ASSUME EvidenceInv, NEW r \in Requests,
         RecordObservation(r) \/ LookUpObserved(r) \/ ObservationFails(r) \/ ConfirmEntry(r)
  PROVE  EvidenceInv'
<1>1. UNCHANGED memory /\ MemoryShape
  BY DEF RecordObservation, LookUpObserved, ObservationFails, ConfirmEntry, memoryVars, EvidenceInv
<1>2. Keeps
  BY <1>1, MemoryKept
<1>3. req[r].pc = "new" => Out(r)
  BY DEF EvidenceInv, CountsAs
<1>4. CASE RecordObservation(r)
  <2>1. PICK new : /\ req[r].pc = "new"
                   /\ Moves(r, new) /\ Placed(new) /\ new.op = "observe" /\ new.pc = "learn"
    BY <1>4, RecordObservationMoves
  <2>2. CountsAs(r, new)
    BY <1>3, <2>1 DEF CountsAs
  <2> QED BY <1>2, <2>1, <2>2, EvidenceStep
<1>5. CASE LookUpObserved(r)
  <2>1. PICK new : /\ Moves(r, new) /\ Placed(new) /\ new.op = "observe" /\ new.pc = "store"
                   /\ \/ Found(new.account) = {} /\ new.seen = 0 /\ new.limit = 0
                      \/ new.seen \in Found(new.account) /\ new.limit = memory[new.seen].evidence
    BY <1>5, LookUpObservedMoves DEF EvidenceInv, Observed
  <2>2. Out(r)
    BY <1>5 DEF LookUpObserved, Doing, EvidenceInv, CountsAs
  <2>3. StoreCounts(r, new)
    BY <2>1, <2>2, LookedUp
  <2>4. CountsAs(r, new)
    BY <2>1, <2>2, <2>3 DEF CountsAs
  <2> QED BY <1>2, <2>1, <2>4, EvidenceStep
<1>6. CASE ObservationFails(r)
  <2>1. PICK new : Moves(r, new) /\ Placed(new) /\ new.pc \in {"done", "refused"}
    BY <1>6, ObservationFailsMoves DEF EvidenceInv
  <2>2. CountsAs(r, new)
    BY <2>1 DEF CountsAs, Learning
  <2> QED BY <1>2, <2>1, <2>2, EvidenceStep
<1>7. CASE ConfirmEntry(r)
  <2>1. PICK new : /\ req[r].pc = "new"
                   /\ Moves(r, new) /\ Placed(new) /\ new.op = "confirm" /\ new.pc = "write"
                   /\ new.seen \in Entries /\ new.limit = memory[new.seen].evidence
    BY <1>7, ConfirmEntryMoves
  <2>2. ReadOf(r, new.seen, new.limit)
    BY <2>1, ReadIsCounted
  <2>3. CountsAs(r, new)
    BY <1>3, <2>1, <2>2 DEF CountsAs
  <2> QED BY <1>2, <2>1, <2>3, EvidenceStep
<1> QED BY <1>4, <1>5, <1>6, <1>7

LEMMA MemoryCounts ==
  ASSUME EvidenceInv, MemoryStep
  PROVE  EvidenceInv'
BY ObserversCount, StoreObservationCounts, ScannersCount, WriteConfirmedCounts,
   CorrectEntryCounts, HandlesCount DEF MemoryStep, Handles

LEMMA StudioCounts ==
  ASSUME EvidenceInv, StudioStep
  PROVE  EvidenceInv'
<1>1. Keeps
  BY StudioKeepsMemory, MemoryKept DEF memoryVars, EvidenceInv
<1>2. PlacedInv /\ \A r \in Requests : CountsAs(r, req[r])
  BY DEF EvidenceInv
<1>3. \A r \in Requests : req[r].pc = "new" => Out(r)
  BY <1>2 DEF CountsAs
<1>4. ASSUME NEW r \in Requests, NEW new, Moves(r, new), Placed(new),
             new.op \in StudioOps \ {"edit"}
      PROVE  EvidenceInv'
  <2>1. CountsAs(r, new)
    BY <1>4, CountsNot DEF StudioOps, Moves
  <2> QED BY <1>1, <1>4, <2>1, EvidenceStep
<1>5. ASSUME NEW r \in Requests, CreatePiece(r) \/ CreateFirstVersion(r) \/ MakeReady(r)
      PROVE  EvidenceInv'
  BY <1>2, <1>4, <1>5, CreatePieceMoves, CreateFirstVersionMoves, MakeReadyMoves DEF StudioOps
<1>6. ASSUME NEW r \in Requests, CreateVariations(r) \/ CreateVaried(r) \/ SelectVersion(r) \/ Archive(r)
      PROVE  EvidenceInv'
  BY <1>2, <1>4, <1>6, CreateVariationsMoves, CreateVariedMoves, SelectVersionMoves, ArchiveMoves
     DEF StudioOps
<1>7. ASSUME NEW r \in Requests, NEW new, Moves(r, new), Placed(new), new.op = "edit", Out(r),
             new.pc \in {"rules", "version", "current", "refused", "done"}
      PROVE  EvidenceInv'
  <2>1. CountsAs(r, new)
    BY <1>7 DEF CountsAs, Learning
  <2> QED BY <1>1, <1>7, <2>1, EvidenceStep
<1>8. ASSUME NEW r \in Requests, EditContent(r)
      PROVE  EvidenceInv'
  BY <1>3, <1>7, <1>8, EditContentMoves
<1>9. ASSUME NEW r \in Requests, ValidateTextBody(r)
      PROVE  EvidenceInv'
  <2>1. PICK new : /\ Moves(r, new) /\ Placed(new) /\ new.op = req[r].op
                   /\ new.op \in {"edit", "vary"} /\ new.pc \in {"refused", "version"}
    BY <1>2, <1>9, ValidateTextBodyMoves
  <2>2. new.op = "edit" => Out(r)
    BY <1>2, <1>9, <2>1 DEF CountsAs, ValidateTextBody
  <2> QED BY <1>4, <1>7, <2>1, <2>2 DEF StudioOps
<1>10. ASSUME NEW r \in Requests, CreateEdited(r)
       PROVE  EvidenceInv'
  <2>1. PICK new : Moves(r, new) /\ Placed(new) /\ new.op = "edit" /\ new.pc = "current"
    BY <1>2, <1>10, CreateEditedMoves
  <2>2. Out(r)
    BY <1>2, <1>10 DEF CountsAs, CreateEdited, Doing
  <2> QED BY <1>7, <2>1, <2>2
<1>11. ASSUME NEW r \in Requests, SetCurrent(r)
       PROVE  EvidenceInv'
  <2>1. /\ req[r].pc = "current"
        /\ \E new : /\ Moves(r, new) /\ Placed(new) /\ new.op = req[r].op
                    /\ new.op \in {"edit", "select"}
                    /\ new.pc \in {"learn", "done"} /\ new.value = "edited"
    BY <1>2, <1>11, SetCurrentMoves
  <2>2. PICK new : /\ Moves(r, new) /\ Placed(new) /\ new.op = req[r].op
                   /\ new.op \in {"edit", "select"}
                   /\ new.pc \in {"learn", "done"} /\ new.value = "edited"
    BY <2>1
  <2>3. CASE new.op = "select"
    BY <1>4, <2>2, <2>3 DEF StudioOps
  <2>4. CASE new.op = "edit"
    <3>1. Out(r)
      BY <1>2, <2>1, <2>2, <2>4 DEF CountsAs
    <3>2. EditCounts(r, new)
      BY <2>2, <3>1 DEF EditCounts
    <3>3. CountsAs(r, new)
      BY <2>2, <2>4, <3>2 DEF CountsAs
    <3> QED BY <1>1, <2>2, <3>3, EvidenceStep
  <2> QED BY <2>2, <2>3, <2>4
<1>12. ASSUME NEW r \in Requests, LearnFromEdit(r)
       PROVE  EvidenceInv'
  <2>1. /\ req[r].op = "edit" /\ req[r].pc = "learn"
        /\ \E new : /\ Moves(r, new) /\ Placed(new) /\ new.op = "edit"
                    /\ \/ new.pc = "done"
                       \/ /\ new.pc = "store"
                          /\ \/ /\ req[r].value = "edited" /\ new.value = "removed"
                                /\ new.account = RemovedKey
                             \/ /\ req[r].value # "added" /\ new.value = "added"
                                /\ new.account = AddedKey
                          /\ \/ Found(new.account) = {} /\ new.seen = 0 /\ new.limit = 0
                             \/ /\ new.seen \in Found(new.account)
                                /\ new.limit = memory[new.seen].evidence
    BY <1>2, <1>12, LearnFromEditMoves
  <2>2. PICK x : x = req[r] /\ EditCounts(r, x) /\ x.value \in {"edited", "removed", "added"}
    BY <1>2, <2>1 DEF CountsAs, Learning, EditCounts
  <2>3. PICK new : /\ Moves(r, new) /\ Placed(new) /\ new.op = "edit"
                   /\ \/ new.pc = "done"
                      \/ /\ new.pc = "store"
                         /\ \/ /\ x.value = "edited" /\ new.value = "removed"
                               /\ new.account = RemovedKey
                            \/ /\ x.value # "added" /\ new.value = "added"
                               /\ new.account = AddedKey
                         /\ \/ Found(new.account) = {} /\ new.seen = 0 /\ new.limit = 0
                            \/ /\ new.seen \in Found(new.account)
                               /\ new.limit = memory[new.seen].evidence
    BY <2>1, <2>2
  <2>4. CASE new.pc = "done"
    <3>1. CountsAs(r, new)
      BY <2>3, <2>4 DEF CountsAs, Learning
    <3> QED BY <1>1, <2>3, <3>1, EvidenceStep
  <2>5. CASE new.pc = "store"
    <3>1. Out(r) => InRemoved(r)
      BY DEF Out, InRemoved
    <3>2. \/ Out(r) /\ new.value = "removed" /\ new.account = RemovedKey
          \/ InRemoved(r) /\ new.value = "added" /\ new.account = AddedKey
      BY <2>2, <2>3, <2>5, <3>1 DEF EditCounts
    <3>3. StoreCounts(r, new)
      BY <2>3, <2>5, <3>2, LookedUp
    <3>4. EditCounts(r, new)
      BY <2>5, <3>1, <3>2 DEF EditCounts
    <3>5. CountsAs(r, new)
      BY <2>3, <2>5, <3>3, <3>4 DEF CountsAs
    <3> QED BY <1>1, <2>3, <3>5, EvidenceStep
  <2> QED BY <2>3, <2>4, <2>5
<1> QED BY <1>5, <1>6, <1>8, <1>9, <1>10, <1>11, <1>12 DEF StudioStep

LEMMA EvidenceNext ==
  ASSUME EvidenceInv, [Next]_vars
  PROVE  EvidenceInv'
<1>1. CASE MemoryStep
  BY <1>1, MemoryCounts
<1>2. CASE StudioStep
  BY <1>2, StudioCounts
<1>3. CASE (OptimizerStep \/ ProductStep \/ ModerationStep) /\ UNCHANGED memoryVars
  <2>1. CASE UNCHANGED requestVars
    BY <1>3, <2>1, EvidenceRest
  <2>2. ASSUME NEW r \in Requests, Act(r, OtherOps)
        PROVE  EvidenceInv'
    <3>1. PICK new : Moves(r, new) /\ Placed(new) /\ new.op \in OtherOps
      BY <2>2 DEF Act
    <3>2. CountsAs(r, new)
      BY <3>1, CountsNot DEF Moves, OtherOps, OptimizerOps, ProductOps, ReviewOps
    <3>3. Keeps
      BY <1>3, MemoryKept DEF memoryVars, EvidenceInv
    <3> QED BY <3>1, <3>2, <3>3, EvidenceStep
  <2> QED BY <1>3, <2>1, <2>2, OthersAct DEF EvidenceInv
<1>4. CASE UNCHANGED vars
  BY <1>4, EvidenceRest DEF vars
<1> QED BY <1>1, <1>2, <1>3, <1>4 DEF Next

\* Each observation and each confirmation counts once, in the one entry of its key, for any
\* number of them: some are lost, or have an entry of their own, only where they were made
\* at the same time.
THEOREM EvidenceAlwaysAddsUp == Spec => []EvidenceAddsUp
<1>1. Init => EvidenceInv
  <2> SUFFICES ASSUME Init PROVE EvidenceInv
    OBVIOUS
  <2>1. PlacedInv /\ \A r \in Requests : req[r].pc = "new" /\ req[r].op = "none"
    BY PlacedInit DEF Init
  <2>2. /\ MemoryShape
        /\ \A i, j \in Entries :
             /\ memory[i].evidence = 1 /\ memory[i].by = {0}
             /\ memory[i].key = memory[j].key => i = j
    BY MemoryInitShape DEF Init
  <2>3. Cardinality({0}) = 1
    BY FS_Singleton
  <2>4. EvidenceAddsUp
    <3>1. ASSUME NEW i \in Entries, NEW j \in Entries
          PROVE  /\ memory[i].evidence <= Cardinality(memory[i].by)
                 /\ ~(memory[i].evidence < Cardinality(memory[i].by))
                 /\ memory[i].key = memory[j].key => i = j
      <4>1. memory[i].evidence = 1 /\ memory[i].by = {0}
        BY <2>2
      <4>2. Cardinality(memory[i].by) = 1
        BY <2>3, <4>1
      <4> QED BY <2>2, <4>1, <4>2
    <3> QED BY <3>1 DEF EvidenceAddsUp
  <2>5. \A r \in Requests : r # 0
    BY RequestsAssumption DEF Requests
  <2>6. \A r \in Requests : Out(r)
    BY <2>2, <2>5 DEF Out
  <2>7. \A r \in Requests : CountsAs(r, req[r])
    BY <2>1, <2>6 DEF CountsAs
  <2> QED BY <2>1, <2>2, <2>4, <2>7 DEF EvidenceInv
<1>2. EvidenceInv /\ [Next]_vars => EvidenceInv'
  BY EvidenceNext
<1>3. EvidenceInv => EvidenceAddsUp
  BY DEF EvidenceInv
<1> QED BY <1>1, <1>2, <1>3, PTL DEF Spec

-----------------------------------------------------------------------------
(* The reviews.  A run that is under way has written the rows of the checks before  *)
(* the one it is at, and no other run writes among them.                         *)

CheckTypes == {"TOXICITY", "MISLEADING_CLAIMS", "TRADEMARK_IMAGE", "OBJECTIVE_ACHIEVEMENT"}
CheckStatuses == {"PASSED", "FLAGGED", "BLOCKED"}
OfText(check) == check.type \in {"TOXICITY", "MISLEADING_CLAIMS"}

LEMMA PlannedIs ==
  /\ Len(Planned) \in Nat /\ Len(Planned) >= 2 /\ DOMAIN Planned = 1..Len(Planned)
  /\ \A n \in 1..Len(Planned) :
       /\ Planned[n].type \in CheckTypes
       /\ OfText(Planned[n]) => Planned[n].label \in ToSet(Texts)
<1> DEFINE first == [n \in 1..(2 * Len(Texts)) |->
                       [type |-> IF n % 2 = 1 THEN "TOXICITY" ELSE "MISLEADING_CLAIMS",
                        label |-> Texts[(n + 1) \div 2]]]
           last == <<[type |-> "TRADEMARK_IMAGE", label |-> "visual"],
                     [type |-> "OBJECTIVE_ACHIEVEMENT", label |-> "campaign"]>>
           S == {first[n] : n \in 1..(2 * Len(Texts))} \cup {last[1], last[2]}
<1>1. Len(Texts) \in Nat /\ DOMAIN Texts = 1..Len(Texts)
  BY ModerationAssumption
<1>2. first \in Seq(S) /\ Len(first) = 2 * Len(Texts)
  <2>1. PICK k \in Nat : k = 2 * Len(Texts)
    BY <1>1
  <2>2. first \in [1..k -> S]
    BY <2>1
  <2>3. PICK f : f = first
    OBVIOUS
  <2> HIDE DEF first
  <2> HIDE DEF S
  <2>4. f \in Seq(S) /\ Len(f) = k
    BY <2>2, <2>3
  <2> QED BY <2>1, <2>3, <2>4
<1>3. last \in Seq(S) /\ Len(last) = 2
  OBVIOUS
<1>4. Planned = first \o last
  BY DEF Planned
<1>5. ASSUME NEW n \in 1..(2 * Len(Texts))
      PROVE  first[n].type \in CheckTypes /\ first[n].label \in ToSet(Texts)
  <2>1. (n + 1) \div 2 \in 1..Len(Texts)
    BY <1>1
  <2>2. Texts[(n + 1) \div 2] \in ToSet(Texts)
    BY <1>1, <2>1 DEF ToSet
  <2>3. first[n].type \in CheckTypes
    BY DEF CheckTypes
  <2>4. first[n].label = Texts[(n + 1) \div 2]
    OBVIOUS
  <2> QED BY <2>2, <2>3, <2>4
<1>6. /\ last[1].type = "TRADEMARK_IMAGE" /\ last[2].type = "OBJECTIVE_ACHIEVEMENT"
  OBVIOUS
<1> HIDE DEF first, last, S
<1>7. /\ Planned \in Seq(S) /\ Len(Planned) = 2 * Len(Texts) + 2
      /\ \A i \in 1..(2 * Len(Texts) + 2) :
           Planned[i] = IF i <= 2 * Len(Texts) THEN first[i] ELSE last[i - 2 * Len(Texts)]
  <2>1. /\ first \o last \in Seq(S) /\ Len(first \o last) = Len(first) + Len(last)
        /\ \A i \in 1..(Len(first) + Len(last)) :
             (first \o last)[i] = IF i <= Len(first) THEN first[i] ELSE last[i - Len(first)]
    BY <1>2, <1>3, ConcatProperties
  <2> QED BY <1>2, <1>3, <1>4, <2>1
<1>8. ASSUME NEW i \in 1..(2 * Len(Texts) + 2)
      PROVE  /\ Planned[i].type \in CheckTypes
             /\ OfText(Planned[i]) => Planned[i].label \in ToSet(Texts)
  <2>1. CASE i <= 2 * Len(Texts)
    <3>1. i \in 1..(2 * Len(Texts)) /\ Planned[i] = first[i]
      BY <1>1, <1>7, <2>1
    <3> QED BY <1>5, <3>1
  <2>2. CASE ~(i <= 2 * Len(Texts))
    <3>1. i - 2 * Len(Texts) \in {1, 2} /\ Planned[i] = last[i - 2 * Len(Texts)]
      BY <1>1, <1>7, <2>2
    <3>2. Planned[i].type \in {"TRADEMARK_IMAGE", "OBJECTIVE_ACHIEVEMENT"}
      BY <1>6, <3>1
    <3> QED BY <3>2 DEF CheckTypes, OfText
  <2> QED BY <2>1, <2>2
<1> QED BY <1>1, <1>7, <1>8

\* What a check may find.
LEMMA StatusesAre ==
  ASSUME NEW reply \in Replies, NEW check, check.type \in CheckTypes,
         OfText(check) => check.label \in ToSet(Texts),
         NEW status \in Statuses(reply, check)
  PROVE  status \in CheckStatuses /\ (Unavailable(reply, check) => status = "FLAGGED")
<1>1. CASE check.type = "TOXICITY"
  <2>1. PICK said : said = reply.toxic[check.label] /\ said \in TextModerations
    BY <1>1, ModerationAssumption DEF OfText
  <2>2. status = [yes |-> "BLOCKED", no |-> "PASSED", unavailable |-> "FLAGGED"][said]
    BY <1>1, <2>1 DEF Statuses, Toxicity
  <2>3. status \in CheckStatuses /\ (said = "unavailable" => status = "FLAGGED")
    BY <2>1, <2>2 DEF TextModerations, CheckStatuses
  <2> QED BY <1>1, <2>1, <2>3 DEF Unavailable
<1>2. CASE check.type = "MISLEADING_CLAIMS"
  <2>1. status = MisleadingClaims(reply, check.label)
    BY <1>2 DEF Statuses
  <2>2. CASE reply.claims = Unanswered
    BY <1>2, <2>1, <2>2 DEF MisleadingClaims, Unavailable, CheckStatuses
  <2>3. CASE reply.claims # Unanswered /\ check.label \notin DOMAIN reply.claims
    BY <1>2, <2>1, <2>3 DEF MisleadingClaims, Unavailable, CheckStatuses
  <2>4. CASE reply.claims # Unanswered /\ check.label \in DOMAIN reply.claims
    <3>1. PICK said : said = reply.claims[check.label] /\ said \in {"none", "low", "high"}
      BY <2>4, ModerationAssumption
    <3>2. status = [none |-> "PASSED", low |-> "FLAGGED", high |-> "BLOCKED"][said]
      BY <2>1, <2>4, <3>1 DEF MisleadingClaims
    <3>3. status \in CheckStatuses
      BY <3>1, <3>2 DEF CheckStatuses
    <3> QED BY <1>2, <2>4, <3>3 DEF Unavailable
  <2> QED BY <2>2, <2>3, <2>4
<1>3. CASE check.type = "TRADEMARK_IMAGE"
  BY <1>3 DEF Statuses, Unavailable, TrademarkStatuses, CheckStatuses
<1>4. CASE check.type = "OBJECTIVE_ACHIEVEMENT"
  <2>1. PICK said : said = reply.objective /\ said \in {"achieved", "missed", "unavailable"}
    BY ModerationAssumption
  <2>2. status = [achieved |-> "PASSED", missed |-> "BLOCKED", unavailable |-> "FLAGGED"][said]
    BY <1>4, <2>1 DEF Statuses, ObjectiveAchievement
  <2>3. status \in CheckStatuses /\ (said = "unavailable" => status = "FLAGGED")
    BY <2>1, <2>2 DEF CheckStatuses
  <2> QED BY <1>4, <2>1, <2>3 DEF Unavailable
<1> QED BY <1>1, <1>2, <1>3, <1>4 DEF CheckTypes

LEMMA DivisionIs ==
  ASSUME NEW a \in Int, NEW b \in Nat \ {0}
  PROVE  a \div b \in Int /\ (a \div b) * b <= a /\ a < (a \div b) * b + b
  OBVIOUS

\* The score of a run is within those of its rows.
LEMMA MeanWithin ==
  ASSUME NEW rows, NEW S, rows \in Seq(S), Len(rows) > 0,
         \A i \in DOMAIN rows : rows[i].score \in Int
  PROVE  \E low, high \in {rows[i].score : i \in DOMAIN rows} :
           low <= Mean(rows) /\ Mean(rows) <= high
<1> DEFINE f == [i \in DOMAIN rows |-> rows[i].score]
<1>1. PICK n \in Nat \ {0} : n = Len(rows) /\ DOMAIN rows = 1..n
  OBVIOUS
<1>2. IsFiniteSet(1..n) /\ Cardinality(1..n) = n
  <2>1. 1 \in Int /\ n \in Int /\ ~(1 > n)
    OBVIOUS
  <2> QED BY <2>1, FS_Interval
<1>3. PICK total : total = SumFunctionOnSet(f, 1..n)
  OBVIOUS
<1>4. \A i \in 1..n : f[i] \in Int /\ f[i] = rows[i].score
  BY <1>1
<1>5. PICK m : m = Mean(rows) /\ m = (2 * total + n) \div (2 * n)
  BY <1>1, <1>3 DEF Mean, SumFunction
<1> HIDE DEF f
<1>6. total \in Int
  BY <1>2, <1>3, <1>4, SumInt
<1>7. m \in Int /\ m * (2 * n) <= 2 * total + n /\ 2 * total + n < m * (2 * n) + 2 * n
  <2>1. 2 * total + n \in Int /\ 2 * n \in Nat \ {0}
    BY <1>6
  <2> QED BY <1>5, <2>1, DivisionIs
<1>8. PICK q \in Int : /\ q = m * n /\ m * (2 * n) = 2 * q
                       /\ (m + 1) * n = q + n /\ (m - 1) * n = q - n
  BY <1>7
<1>9. \E i \in 1..n : f[i] <= m
  <2> SUFFICES ASSUME \A i \in 1..n : ~(f[i] <= m) PROVE FALSE
    OBVIOUS
  <2> DEFINE g == [i \in 1..n |-> m + 1]
  <2>1. \A i \in 1..n : g[i] = m + 1
    OBVIOUS
  <2>2. m + 1 \in Int /\ m + 1 <= m + 1
    BY <1>7
  <2> HIDE DEF g
  <2>3. (m + 1) * n <= SumFunctionOnSet(g, 1..n)
    BY <1>2, <2>1, <2>2, SumBounds
  <2>4. \A i \in 1..n : g[i] \in Int /\ f[i] \in Int /\ g[i] <= f[i]
    BY <1>4, <1>7, <2>1
  <2>5. SumFunctionOnSet(g, 1..n) <= total
    BY <1>2, <1>3, <2>4, SumMonotone
  <2>6. SumFunctionOnSet(g, 1..n) \in Int
    BY <1>2, <2>4, SumInt
  <2> QED BY <1>6, <1>7, <1>8, <2>3, <2>5, <2>6
<1>10. \E i \in 1..n : m <= f[i]
  <2> SUFFICES ASSUME \A i \in 1..n : ~(m <= f[i]) PROVE FALSE
    OBVIOUS
  <2> DEFINE g == [i \in 1..n |-> m - 1]
  <2>1. \A i \in 1..n : g[i] = m - 1
    OBVIOUS
  <2>2. m - 1 \in Int /\ m - 1 <= m - 1
    BY <1>7
  <2> HIDE DEF g
  <2>3. SumFunctionOnSet(g, 1..n) <= (m - 1) * n
    BY <1>2, <2>1, <2>2, SumBounds
  <2>4. \A i \in 1..n : g[i] \in Int /\ f[i] \in Int /\ f[i] <= g[i]
    BY <1>4, <1>7, <2>1
  <2>5. total <= SumFunctionOnSet(g, 1..n)
    BY <1>2, <1>3, <2>4, SumMonotone
  <2>6. SumFunctionOnSet(g, 1..n) \in Int
    BY <1>2, <2>4, SumInt
  <2> QED BY <1>6, <1>7, <1>8, <2>3, <2>5, <2>6
<1>11. PICK i \in 1..n, j \in 1..n : f[i] <= m /\ m <= f[j]
  BY <1>9, <1>10
<1>12. /\ rows[i].score \in {rows[k].score : k \in DOMAIN rows}
       /\ rows[j].score \in {rows[k].score : k \in DOMAIN rows}
       /\ rows[i].score <= m /\ m <= rows[j].score
  BY <1>1, <1>4, <1>11
<1> QED BY <1>5, <1>12

LEMMA Appended ==
  ASSUME NEW S, NEW s, s \in Seq(S), NEW x
  PROVE  /\ Len(s) \in Nat /\ DOMAIN s = 1..Len(s)
         /\ Append(s, x) \in Seq(S \cup {x})
         /\ Len(Append(s, x)) = Len(s) + 1
         /\ \A i \in 1..Len(s) : Append(s, x)[i] = s[i]
         /\ Append(s, x)[Len(s) + 1] = x
<1>1. PICK T : T = S \cup {x}
  OBVIOUS
<1>2. s \in Seq(T) /\ x \in T
  BY <1>1
<1>3. /\ Append(s, x) \in Seq(T) /\ Len(Append(s, x)) = Len(s) + 1
      /\ \A i \in 1..Len(s) : Append(s, x)[i] = s[i]
      /\ Append(s, x)[Len(s) + 1] = x
  BY <1>2, AppendProperties
<1> QED BY <1>2, <1>3

\* The rows of the first n checks, and no other.
Wrote(r, n) ==
  /\ \E S : checks[r] \in Seq(S)
  /\ Len(checks[r]) = n
  /\ \A i \in 1..n : /\ checks[r][i].type = Planned[i].type
                     /\ checks[r][i].label = Planned[i].label
                     /\ checks[r][i].status \in CheckStatuses

\* What the run was told it could not learn is left to the human.
LeftToHuman(r) ==
  \A row \in ToSet(checks[r]) :
    told[r] # Unanswered /\ Unavailable(told[r], row) => row.status = "FLAGGED"

SafetyOf(r, x) ==
  /\ x.op # "moderate" => checks[r] = <<>>
  /\ x.op = "moderate" => LeftToHuman(r)
  /\ x.op = "moderate" /\ x.pc = "check" =>
       told[r] \in Replies /\ x.level \in 1..Len(Planned) /\ Wrote(r, x.level - 1)
  /\ x.op = "moderate" /\ x.pc = "verdict" => Wrote(r, Len(Planned))
  /\ x.op = "moderate" /\ x.pc = "done" =>
       Wrote(r, Len(Planned)) /\ results[r].verdict = Verdict(r)

Scored(r) ==
  /\ \E S : brandChecks[r] \in Seq(S)
  /\ \A i \in DOMAIN brandChecks[r] : brandChecks[r][i].score \in Int

BrandOf(r, x) ==
  /\ x.op # "brandCheck" => brandChecks[r] = <<>> /\ results[r].score = NoScore
  /\ x.op = "brandCheck" /\ x.pc = "score" =>
       /\ \A text \in DOMAIN told[r] : told[r][text] \in Scores
       /\ x.level \in 1..(Len(Texts) + 2) /\ Len(brandChecks[r]) = x.level - 1 /\ Scored(r)
  /\ x.op = "brandCheck" /\ x.pc = "done" =>
       \/ brandChecks[r] = <<>> /\ results[r].score = NoScore
       \/ Len(brandChecks[r]) > 0 /\ Scored(r) /\ results[r].score = Mean(brandChecks[r])

ReviewShape ==
  /\ checks = [r \in Requests |-> checks[r]]
  /\ brandChecks = [r \in Requests |-> brandChecks[r]]
  /\ told = [r \in Requests |-> told[r]]
  /\ results = [r \in Requests |-> results[r]]
  /\ \A r \in Requests :
       results[r] = [verdict |-> results[r].verdict, score |-> results[r].score]

ReviewedInv ==
  /\ PlacedInv /\ ReviewShape
  /\ \A r \in Requests : SafetyOf(r, req[r]) /\ BrandOf(r, req[r])

LEMMA TextsIs == Len(Texts) \in Nat /\ DOMAIN Texts = 1..Len(Texts)
  BY ModerationAssumption

\* A run writes of its own alone.
Alone(r) ==
  \A s \in Requests : s # r =>
    /\ checks'[s] = checks[s] /\ brandChecks'[s] = brandChecks[s]
    /\ told'[s] = told[s] /\ results'[s] = results[s]

LEMMA OthersReviewed ==
  ASSUME NEW s \in Requests,
         checks'[s] = checks[s], brandChecks'[s] = brandChecks[s],
         told'[s] = told[s], results'[s] = results[s], req'[s] = req[s],
         SafetyOf(s, req[s]), BrandOf(s, req[s])
  PROVE  SafetyOf(s, req[s])' /\ BrandOf(s, req[s])'
<1>1. SafetyOf(s, req[s])'
  <2>1. \A n : Wrote(s, n) => Wrote(s, n)'
    BY DEF Wrote
  <2>2. LeftToHuman(s) => LeftToHuman(s)'
    BY DEF LeftToHuman, Unavailable
  <2>3. Verdict(s)' = Verdict(s)
    BY DEF Verdict
  <2> QED BY <2>1, <2>2, <2>3 DEF SafetyOf
<1>2. BrandOf(s, req[s])'
  <2>1. Scored(s) => Scored(s)'
    BY DEF Scored
  <2> QED BY <2>1 DEF BrandOf
<1> QED BY <1>1, <1>2

LEMMA ReviewedStep ==
  ASSUME ReviewedInv, NEW r \in Requests, NEW new, Moves(r, new), Placed(new),
         ReviewShape', Alone(r), SafetyOf(r, new)', BrandOf(r, new)'
  PROVE  ReviewedInv'
<1>1. PlacedInv'
  BY PlacedStep DEF ReviewedInv
<1>2. PICK x : x = Left(new) /\ req'[r] = x
  BY MovesRequest DEF ReviewedInv, PlacedInv
<1>3. /\ x.pc = new.pc /\ x.op = new.op
      /\ new.pc \notin {"done", "refused"} => x = new
  BY <1>2, LeftIsRequest DEF Moves
<1>4. SafetyOf(r, req[r])' /\ BrandOf(r, req[r])'
  <2>1. SafetyOf(r, x)'
    BY <1>3 DEF SafetyOf
  <2>2. BrandOf(r, x)'
    BY <1>3 DEF BrandOf
  <2> QED BY <1>2, <2>1, <2>2 DEF SafetyOf, BrandOf
<1>5. ASSUME NEW s \in Requests, s # r
      PROVE  SafetyOf(s, req[s])' /\ BrandOf(s, req[s])'
  <2>1. req'[s] = req[s]
    BY <1>5, MovesRequest DEF ReviewedInv, PlacedInv
  <2> QED BY <1>5, <2>1, OthersReviewed DEF ReviewedInv, Alone
<1> QED BY <1>1, <1>4, <1>5 DEF ReviewedInv

LEMMA ReviewedElsewhere ==
  ASSUME ReviewedInv, UNCHANGED moderationVars, NEW r \in Requests, NEW new,
         Moves(r, new), Placed(new), new.op \notin ReviewOps
  PROVE  ReviewedInv'
<1>1. UNCHANGED <<checks, brandChecks, told, results>>
  BY DEF moderationVars
<1>2. req[r].op \notin ReviewOps
  BY MovesRequest DEF ReviewedInv, PlacedInv, RequestsInv, ReviewOps
<1>3. checks[r] = <<>> /\ brandChecks[r] = <<>> /\ results[r].score = NoScore
  BY <1>2 DEF ReviewedInv, SafetyOf, BrandOf, ReviewOps
<1>4. SafetyOf(r, new)' /\ BrandOf(r, new)'
  BY <1>1, <1>3 DEF SafetyOf, BrandOf, ReviewOps
<1>5. ReviewShape' /\ Alone(r)
  BY <1>1 DEF ReviewedInv, ReviewShape, Alone
<1> QED BY <1>4, <1>5, ReviewedStep

LEMMA ReviewedRest ==
  ASSUME ReviewedInv, UNCHANGED <<requestVars, moderationVars>>
  PROVE  ReviewedInv'
<1>1. UNCHANGED <<checks, brandChecks, told, results, req>>
  BY DEF moderationVars, requestVars
<1>2. PlacedInv'
  BY PlacedRest DEF ReviewedInv
<1>3. ReviewShape'
  BY <1>1 DEF ReviewedInv, ReviewShape
<1>4. \A s \in Requests : SafetyOf(s, req[s])' /\ BrandOf(s, req[s])'
  BY <1>1, OthersReviewed DEF ReviewedInv
<1> QED BY <1>2, <1>3, <1>4 DEF ReviewedInv

-----------------------------------------------------------------------------
LEMMA NothingReviewed ==
  ASSUME ReviewedInv, NEW r \in Requests, req[r].pc = "new"
  PROVE  checks[r] = <<>> /\ brandChecks[r] = <<>> /\ results[r].score = NoScore
  BY DEF ReviewedInv, PlacedInv, RequestsInv, SafetyOf, BrandOf

LEMMA NoRows == ToSet(<<>>) = {} /\ <<>> \in Seq({}) /\ Len(<<>>) = 0 /\ DOMAIN <<>> = {}
  BY DEF ToSet

LEMMA RunModerationReviewed ==
  ASSUME ReviewedInv, NEW r \in Requests, RunModeration(r)
  PROVE  ReviewedInv'
<1>1. PICK x : /\ x = [NewRequest EXCEPT !.op = "moderate", !.pc = "check", !.level = 1]
               /\ Call(r, x)
  BY DEF RunModeration
<1>2. PICK reply \in Replies : told' = [told EXCEPT ![r] = reply]
  BY DEF RunModeration
<1>3. /\ Started(x, ReviewOps) /\ Placed(x) /\ x.op = "moderate" /\ x.pc = "check"
      /\ x.level = 1
  BY <1>1 DEF Started, IsRequest, NewRequest, Placed, Fits, Learning, ReviewOps
<1>4. Moves(r, x)
  BY <1>1, <1>3, CallActs DEF RunModeration
<1>5. UNCHANGED <<checks, brandChecks, results>>
  BY DEF RunModeration
<1>6. ReviewShape' /\ Alone(r) /\ told'[r] = reply
  BY <1>2, <1>5 DEF ReviewedInv, ReviewShape, Alone
<1>7. checks'[r] = <<>> /\ brandChecks'[r] = <<>> /\ results'[r].score = NoScore
  BY <1>5, NothingReviewed DEF RunModeration, Arrives
<1>8. SafetyOf(r, x)'
  <2>1. LeftToHuman(r)'
    BY <1>7, NoRows DEF LeftToHuman
  <2>2. Wrote(r, 0)'
    BY <1>7, NoRows DEF Wrote
  <2>3. x.level - 1 = 0 /\ x.level \in 1..Len(Planned)
    BY <1>3, PlannedIs
  <2> QED BY <1>3, <1>6, <2>1, <2>2, <2>3 DEF SafetyOf
<1>9. BrandOf(r, x)'
  BY <1>3, <1>7 DEF BrandOf
<1> QED BY <1>3, <1>4, <1>6, <1>8, <1>9, ReviewedStep

LEMMA PersistCheckReviewed ==
  ASSUME ReviewedInv, NEW r \in Requests, PersistCheck(r)
  PROVE  ReviewedInv'
<1>1. /\ req[r].op = "moderate" /\ req[r].pc = "check" /\ IsRequest(req[r])
  BY DEF PersistCheck, Doing, ReviewedInv, PlacedInv, RequestsInv
<1>2. PICK n : n = req[r].level
  OBVIOUS
<1>3. n \in 1..Len(Planned) /\ told[r] \in Replies /\ Wrote(r, n - 1) /\ LeftToHuman(r)
  BY <1>1, <1>2 DEF ReviewedInv, SafetyOf
<1>4. PICK check : check = Planned[n]
  OBVIOUS
<1>5. PICK status \in Statuses(told[r], check) :
        checks' = [checks EXCEPT ![r] =
                     Append(@, [type |-> check.type, label |-> check.label, status |-> status])]
  BY <1>2, <1>4 DEF PersistCheck
<1>6. PICK row : row = [type |-> check.type, label |-> check.label, status |-> status]
  OBVIOUS
<1>7. PICK x : /\ x = [req[r] EXCEPT !.level = req[r].level + 1,
                          !.pc = IF req[r].level = Len(Planned) THEN "verdict" ELSE req[r].pc]
               /\ Becomes(r, x)
  BY DEF PersistCheck
<1>8. /\ IsRequest(x) /\ x.op = "moderate" /\ x.user = req[r].user
      /\ n = Len(Planned) => x.pc = "verdict"
      /\ n # Len(Planned) => x.pc = "check" /\ x.level = n + 1
      /\ x.pc \in {"verdict", "check"}
  BY <1>1, <1>2, <1>7 DEF IsRequest
<1>9. Moves(r, x) /\ Placed(x)
  BY <1>1, <1>7, <1>8, BecomesMoves DEF ReviewedInv, Over, Fits, Learning
<1>10. UNCHANGED <<brandChecks, told, results>>
  BY DEF PersistCheck
<1>11. checks'[r] = Append(checks[r], row) /\ \A s \in Requests : s # r => checks'[s] = checks[s]
  BY <1>5, <1>6 DEF ReviewedInv, ReviewShape
<1>12. ReviewShape' /\ Alone(r)
  <2>1. checks' = [s \in Requests |-> checks'[s]]
    BY <1>5 DEF ReviewedInv, ReviewShape
  <2> QED BY <1>10, <1>11, <2>1 DEF ReviewedInv, ReviewShape, Alone
<1>13. /\ Len(checks[r]) = n - 1 /\ \E T : Append(checks[r], row) \in Seq(T)
       /\ Len(Append(checks[r], row)) = n
       /\ \A i \in 1..(n - 1) : Append(checks[r], row)[i] = checks[r][i]
       /\ Append(checks[r], row)[n] = row /\ DOMAIN checks[r] = 1..(n - 1)
  <2>1. PICK S : checks[r] \in Seq(S)
    BY <1>3 DEF Wrote
  <2>2. Len(checks[r]) = n - 1
    BY <1>3 DEF Wrote
  <2>3. Len(Planned) \in Nat
    BY PlannedIs
  <2>4. n - 1 + 1 = n
    BY <1>3, <2>3
  <2>5. PICK s : s = checks[r] /\ s \in Seq(S)
    BY <2>1
  <2>6. /\ DOMAIN s = 1..Len(s) /\ Append(s, row) \in Seq(S \cup {row})
        /\ Len(Append(s, row)) = Len(s) + 1
        /\ \A i \in 1..Len(s) : Append(s, row)[i] = s[i]
        /\ Append(s, row)[Len(s) + 1] = row
    BY ONLY <2>5, Appended
  <2> QED BY <2>2, <2>4, <2>5, <2>6
<1>14. status \in CheckStatuses /\ (Unavailable(told[r], check) => status = "FLAGGED")
  <2>1. check.type \in CheckTypes /\ (OfText(check) => check.label \in ToSet(Texts))
    BY <1>3, <1>4, PlannedIs
  <2> QED BY <1>3, <1>5, <2>1, StatusesAre
<1>15. row.type = check.type /\ row.label = check.label /\ row.status = status
  BY <1>6
<1>16. Wrote(r, n)'
  <2>1. \E S : checks'[r] \in Seq(S)
    BY <1>11, <1>13
  <2>2. Len(checks'[r]) = n
    BY <1>11, <1>13
  <2>3. ASSUME NEW i \in 1..n
        PROVE  /\ checks'[r][i].type = Planned[i].type
               /\ checks'[r][i].label = Planned[i].label
               /\ checks'[r][i].status \in CheckStatuses
    <3>1. CASE i = n
      BY <1>4, <1>11, <1>13, <1>14, <1>15, <3>1
    <3>2. CASE i # n
      <4>1. i \in 1..(n - 1)
        BY <1>3, <3>2, PlannedIs
      <4> QED BY <1>3, <1>11, <1>13, <4>1 DEF Wrote
    <3> QED BY <3>1, <3>2
  <2> QED BY <2>1, <2>2, <2>3 DEF Wrote
<1>17. LeftToHuman(r)'
  <2>1. \A given \in ToSet(checks'[r]) : given \in ToSet(checks[r]) \/ given = row
    <3>1. ASSUME NEW given, given \in ToSet(checks'[r])
          PROVE  given \in ToSet(checks[r]) \/ given = row
      <4>1. DOMAIN checks'[r] = 1..n
        BY <1>11, <1>13
      <4>2. PICK i \in 1..n : given = checks'[r][i]
        BY <3>1, <4>1 DEF ToSet
      <4>3. CASE i = n
        BY <1>11, <1>13, <4>2, <4>3
      <4>4. CASE i # n
        <5>1. i \in 1..(n - 1)
          BY <1>3, <4>4, PlannedIs
        <5> QED BY <1>11, <1>13, <4>2, <5>1 DEF ToSet
      <4> QED BY <4>3, <4>4
    <3> QED BY <3>1
  <2>2. Unavailable(told[r], row) => Unavailable(told[r], check)
    BY <1>15 DEF Unavailable
  <2>3. \A given \in ToSet(checks'[r]) :
          told[r] # Unanswered /\ Unavailable(told[r], given) => given.status = "FLAGGED"
    BY <1>3, <1>14, <1>15, <2>1, <2>2 DEF LeftToHuman
  <2> QED BY <1>10, <2>3 DEF LeftToHuman, Unavailable
<1>18. SafetyOf(r, x)'
  <2>1. n # Len(Planned) => x.level \in 1..Len(Planned) /\ x.level - 1 = n
    <3>1. PICK k \in Nat : k = Len(Planned)
      BY PlannedIs
    <3> QED BY <1>3, <1>8, <3>1
  <2>2. told'[r] \in Replies
    BY <1>3, <1>10
  <2>3. x.pc = "check" => n # Len(Planned)
    BY <1>8
  <2>4. x.pc = "verdict" => n = Len(Planned)
    BY <1>8
  <2>5. x.pc = "check" => told'[r] \in Replies /\ x.level \in 1..Len(Planned) /\ Wrote(r, x.level - 1)'
    BY <1>16, <2>1, <2>2, <2>3
  <2>6. x.pc = "verdict" => Wrote(r, Len(Planned))'
    BY <1>16, <2>4
  <2>7. x.pc # "done"
    BY <1>8
  <2> QED BY <1>8, <1>17, <2>5, <2>6, <2>7 DEF SafetyOf
<1>19. BrandOf(r, x)'
  <2>1. brandChecks[r] = <<>> /\ results[r].score = NoScore
    BY <1>1 DEF ReviewedInv, BrandOf
  <2> QED BY <1>8, <1>10, <2>1 DEF BrandOf
<1> QED BY <1>9, <1>12, <1>18, <1>19, ReviewedStep

LEMMA ReturnVerdictReviewed ==
  ASSUME ReviewedInv, NEW r \in Requests, ReturnVerdict(r)
  PROVE  ReviewedInv'
<1>1. req[r].op = "moderate" /\ req[r].pc = "verdict"
  BY DEF ReturnVerdict, Doing
<1>2. PICK v : v = Verdict(r) /\ results' = [results EXCEPT ![r].verdict = v]
  BY DEF ReturnVerdict
<1>3. told' = [told EXCEPT ![r] = Unanswered] /\ UNCHANGED <<checks, brandChecks>>
  BY DEF ReturnVerdict
<1>4. /\ results' = [s \in Requests |-> results'[s]]
      /\ \A s \in Requests : s # r => results'[s] = results[s]
      /\ results'[r] = [results[r] EXCEPT !.verdict = v]
  BY <1>2 DEF ReviewedInv, ReviewShape
<1>5. /\ results'[r] = [verdict |-> results'[r].verdict, score |-> results'[r].score]
      /\ results'[r].verdict = v /\ results'[r].score = results[r].score
  BY <1>4 DEF ReviewedInv, ReviewShape
<1>6. ReviewShape' /\ Alone(r) /\ told'[r] = Unanswered
  <2>1. \A s \in Requests :
          results'[s] = [verdict |-> results'[s].verdict, score |-> results'[s].score]
    BY <1>4, <1>5 DEF ReviewedInv, ReviewShape
  <2>2. told' = [s \in Requests |-> told'[s]] /\ told'[r] = Unanswered
    BY <1>3 DEF ReviewedInv, ReviewShape
  <2>3. \A s \in Requests : s # r => told'[s] = told[s]
    BY <1>3 DEF ReviewedInv, ReviewShape
  <2> QED BY <1>3, <1>4, <2>1, <2>2, <2>3 DEF ReviewedInv, ReviewShape, Alone
<1>7. PICK new : Moves(r, new) /\ Placed(new) /\ new.op = "moderate" /\ new.pc = "done"
  <2>1. Goto(r, "done")
    BY DEF ReturnVerdict
  <2>2. PICK new : /\ Moves(r, new) /\ new.pc = "done" /\ new.op = req[r].op
                   /\ new.user = req[r].user
    BY <1>1, <2>1, GoesOn DEF ReviewedInv, PlacedInv, Over
  <2> QED BY <1>1, <2>2 DEF Placed, Fits, Learning
<1>8. Wrote(r, Len(Planned)) /\ brandChecks[r] = <<>> /\ results[r].score = NoScore
  BY <1>1 DEF ReviewedInv, SafetyOf, BrandOf
<1>9. SafetyOf(r, new)'
  <2>1. Wrote(r, Len(Planned))'
    BY <1>3, <1>8 DEF Wrote
  <2>2. Verdict(r)' = v
    BY <1>2, <1>3 DEF Verdict
  <2>3. LeftToHuman(r)'
    BY <1>6 DEF LeftToHuman
  <2> QED BY <1>5, <1>7, <2>1, <2>2, <2>3 DEF SafetyOf
<1>10. BrandOf(r, new)'
  BY <1>3, <1>5, <1>7, <1>8 DEF BrandOf
<1> QED BY <1>6, <1>7, <1>9, <1>10, ReviewedStep

LEMMA RunBrandCheckReviewed ==
  ASSUME ReviewedInv, NEW r \in Requests, RunBrandCheck(r)
  PROVE  ReviewedInv'
<1>1. UNCHANGED <<checks, brandChecks, results>>
  BY DEF RunBrandCheck
<1>2. checks'[r] = <<>> /\ brandChecks'[r] = <<>> /\ results'[r].score = NoScore
  BY <1>1, NothingReviewed DEF RunBrandCheck, Arrives
<1>3. ASSUME NEW x, Call(r, x), Started(x, ReviewOps), Placed(x), x.op = "brandCheck",
             ReviewShape', Alone(r), BrandOf(r, x)'
      PROVE  ReviewedInv'
  <2>1. Moves(r, x)
    BY <1>3, CallActs DEF RunBrandCheck
  <2>2. SafetyOf(r, x)'
    BY <1>2, <1>3 DEF SafetyOf
  <2> QED BY <1>3, <2>1, <2>2, ReviewedStep
<1>4. CASE /\ Call(r, [NewRequest EXCEPT !.op = "brandCheck", !.pc = "done"])
           /\ UNCHANGED told
  <2>1. PICK x : x = [NewRequest EXCEPT !.op = "brandCheck", !.pc = "done"] /\ Call(r, x)
    BY <1>4
  <2>2. /\ Started(x, ReviewOps) /\ Placed(x) /\ x.op = "brandCheck" /\ x.pc = "done"
    BY <2>1 DEF Started, IsRequest, NewRequest, Placed, Fits, Learning, ReviewOps
  <2>3. ReviewShape' /\ Alone(r)
    BY <1>1, <1>4 DEF ReviewedInv, ReviewShape, Alone
  <2>4. BrandOf(r, x)'
    BY <1>2, <2>2 DEF BrandOf
  <2> QED BY <1>3, <2>1, <2>2, <2>3, <2>4
<1>5. CASE /\ Call(r, [NewRequest EXCEPT !.op = "brandCheck", !.pc = "score", !.level = 1])
           /\ \E scored \in SUBSET ToSet(Texts) : \E reply \in [scored -> Scores] :
                told' = [told EXCEPT ![r] = reply]
  <2>1. PICK x : /\ x = [NewRequest EXCEPT !.op = "brandCheck", !.pc = "score", !.level = 1]
                 /\ Call(r, x)
    BY <1>5
  <2>2. /\ Started(x, ReviewOps) /\ Placed(x) /\ x.op = "brandCheck" /\ x.pc = "score"
        /\ x.level = 1
    BY <2>1 DEF Started, IsRequest, NewRequest, Placed, Fits, Learning, ReviewOps
  <2>3. PICK scored, reply : reply \in [scored -> Scores] /\ told' = [told EXCEPT ![r] = reply]
    BY <1>5
  <2>4. ReviewShape' /\ Alone(r) /\ told'[r] = reply
    BY <1>1, <2>3 DEF ReviewedInv, ReviewShape, Alone
  <2>5. Scored(r)' /\ Len(brandChecks'[r]) = 0
    BY <1>2, NoRows DEF Scored
  <2>6. x.level \in 1..(Len(Texts) + 2) /\ x.level - 1 = 0
    BY <2>2, TextsIs
  <2>7. \A text \in DOMAIN told'[r] : told'[r][text] \in Scores
    BY <2>3, <2>4
  <2>8. BrandOf(r, x)'
    BY <2>2, <2>5, <2>6, <2>7 DEF BrandOf
  <2> QED BY <1>3, <2>1, <2>2, <2>4, <2>8
<1> QED BY <1>4, <1>5 DEF RunBrandCheck

LEMMA PersistScoreReviewed ==
  ASSUME ReviewedInv, NEW r \in Requests, PersistScore(r)
  PROVE  ReviewedInv'
<1>1. /\ req[r].op = "brandCheck" /\ req[r].pc = "score" /\ IsRequest(req[r])
  BY DEF PersistScore, Doing, ReviewedInv, PlacedInv, RequestsInv
<1>2. PICK n : n = req[r].level
  OBVIOUS
<1>3. /\ n \in 1..(Len(Texts) + 1) /\ Len(brandChecks[r]) = n - 1 /\ Scored(r)
      /\ \A text \in DOMAIN told[r] : told[r][text] \in Scores
  BY <1>1, <1>2, TextsIs DEF ReviewedInv, BrandOf, PersistScore
<1>4. PICK score, label :
        /\ score \in Int
        /\ brandChecks' = [brandChecks EXCEPT ![r] = Append(@, [label |-> label, score |-> score])]
  <2>1. PICK scores : /\ scores = IF n > Len(Texts) THEN Scores \cup {NEUTRAL_SCORE}
                                 ELSE IF Texts[n] \in DOMAIN told[r] THEN {told[r][Texts[n]]}
                                 ELSE {NEUTRAL_SCORE}
                      /\ \E score \in scores :
                           brandChecks' = [brandChecks EXCEPT ![r] = Append(@,
                             [label |-> IF n > Len(Texts) THEN "visual" ELSE Texts[n],
                              score |-> score])]
    BY <1>2 DEF PersistScore
  <2>2. Scores \cup {NEUTRAL_SCORE} \subseteq Int
    BY ModerationAssumption DEF NEUTRAL_SCORE
  <2>3. scores \subseteq Int
    BY <1>3, <2>1, <2>2
  <2> QED BY <2>1, <2>3
<1>5. PICK row : row = [label |-> label, score |-> score]
  OBVIOUS
<1>6. PICK x : x = [req[r] EXCEPT !.level = req[r].level + 1] /\ Becomes(r, x)
  BY DEF PersistScore
<1>7. /\ IsRequest(x) /\ x.op = "brandCheck" /\ x.user = req[r].user
      /\ x.pc = "score" /\ x.level = n + 1
  BY <1>1, <1>2, <1>6 DEF IsRequest
<1>8. Moves(r, x) /\ Placed(x)
  BY <1>1, <1>6, <1>7, BecomesMoves DEF ReviewedInv, Over, Fits, Learning
<1>9. UNCHANGED <<checks, told, results>>
  BY DEF PersistScore
<1>10. /\ brandChecks'[r] = Append(brandChecks[r], row)
       /\ \A s \in Requests : s # r => brandChecks'[s] = brandChecks[s]
       /\ brandChecks' = [s \in Requests |-> brandChecks'[s]]
  BY <1>4, <1>5 DEF ReviewedInv, ReviewShape
<1>11. ReviewShape' /\ Alone(r)
  BY <1>9, <1>10 DEF ReviewedInv, ReviewShape, Alone
<1>12. Len(brandChecks'[r]) = n /\ Scored(r)'
  <2>1. PICK S : brandChecks[r] \in Seq(S)
    BY <1>3 DEF Scored
  <2>2. PICK s : s = brandChecks[r] /\ s \in Seq(S)
    BY <2>1
  <2>3. /\ DOMAIN s = 1..Len(s) /\ Append(s, row) \in Seq(S \cup {row})
        /\ Len(Append(s, row)) = Len(s) + 1
        /\ \A i \in 1..Len(s) : Append(s, row)[i] = s[i]
        /\ Append(s, row)[Len(s) + 1] = row
    BY ONLY <2>2, Appended
  <2>4. Len(s) = n - 1 /\ n - 1 + 1 = n
    BY <1>3, <2>2, TextsIs
  <2>5. row.score \in Int
    BY <1>4, <1>5
  <2>6. DOMAIN Append(s, row) = 1..n
    BY <2>3, <2>4
  <2>7. ASSUME NEW i \in 1..n
        PROVE  Append(s, row)[i].score \in Int
    <3>1. CASE i = n
      BY <2>3, <2>4, <2>5, <3>1
    <3>2. CASE i # n
      <4>1. i \in 1..(n - 1)
        BY <1>3, <3>2, TextsIs
      <4>2. s[i].score \in Int
        BY <1>3, <2>2, <2>3, <2>4, <4>1 DEF Scored
      <4> QED BY <2>3, <2>4, <4>1, <4>2
    <3> QED BY <3>1, <3>2
  <2>8. brandChecks'[r] = Append(s, row)
    BY <1>10, <2>2
  <2>9. Len(brandChecks'[r]) = n /\ \E T : brandChecks'[r] \in Seq(T)
    BY <2>3, <2>4, <2>8
  <2>10. \A i \in DOMAIN brandChecks'[r] : brandChecks'[r][i].score \in Int
    BY <2>6, <2>7, <2>8
  <2> QED BY <2>9, <2>10 DEF Scored
<1>13. SafetyOf(r, x)'
  <2>1. checks[r] = <<>>
    BY <1>1 DEF ReviewedInv, SafetyOf
  <2> QED BY <1>7, <1>9, <2>1 DEF SafetyOf
<1>14. BrandOf(r, x)'
  <2>1. x.level \in 1..(Len(Texts) + 2) /\ x.level - 1 = n
    BY <1>3, <1>7, TextsIs
  <2> QED BY <1>3, <1>7, <1>9, <1>12, <2>1 DEF BrandOf
<1> QED BY <1>8, <1>11, <1>13, <1>14, ReviewedStep

LEMMA ReturnScoreReviewed ==
  ASSUME ReviewedInv, NEW r \in Requests, ReturnScore(r)
  PROVE  ReviewedInv'
<1>1. req[r].op = "brandCheck" /\ req[r].pc = "score"
  BY DEF ReturnScore, Doing
<1>2. PICK m : m = Mean(brandChecks[r]) /\ results' = [results EXCEPT ![r].score = m]
  BY DEF ReturnScore
<1>3. told' = [told EXCEPT ![r] = Unanswered] /\ UNCHANGED <<checks, brandChecks>>
  BY DEF ReturnScore
<1>4. /\ results' = [s \in Requests |-> results'[s]]
      /\ \A s \in Requests : s # r => results'[s] = results[s]
      /\ results'[r] = [results[r] EXCEPT !.score = m]
  BY <1>2 DEF ReviewedInv, ReviewShape
<1>5. /\ results'[r] = [verdict |-> results'[r].verdict, score |-> results'[r].score]
      /\ results'[r].score = m
  BY <1>4 DEF ReviewedInv, ReviewShape
<1>6. ReviewShape' /\ Alone(r)
  <2>1. \A s \in Requests :
          results'[s] = [verdict |-> results'[s].verdict, score |-> results'[s].score]
    BY <1>4, <1>5 DEF ReviewedInv, ReviewShape
  <2>2. /\ told' = [s \in Requests |-> told'[s]]
        /\ \A s \in Requests : s # r => told'[s] = told[s]
    BY <1>3 DEF ReviewedInv, ReviewShape
  <2> QED BY <1>3, <1>4, <2>1, <2>2 DEF ReviewedInv, ReviewShape, Alone
<1>7. PICK new : Moves(r, new) /\ Placed(new) /\ new.op = "brandCheck" /\ new.pc = "done"
  <2>1. Goto(r, "done")
    BY DEF ReturnScore
  <2>2. PICK new : /\ Moves(r, new) /\ new.pc = "done" /\ new.op = req[r].op
                   /\ new.user = req[r].user
    BY <1>1, <2>1, GoesOn DEF ReviewedInv, PlacedInv, Over
  <2> QED BY <1>1, <2>2 DEF Placed, Fits, Learning
<1>8. SafetyOf(r, new)'
  <2>1. checks[r] = <<>>
    BY <1>1 DEF ReviewedInv, SafetyOf
  <2> QED BY <1>3, <1>7, <2>1 DEF SafetyOf
<1>9. BrandOf(r, new)'
  <2>1. Scored(r) /\ Len(brandChecks[r]) > 0
    BY <1>1, TextsIs DEF ReviewedInv, BrandOf, ReturnScore
  <2>2. Scored(r)'
    BY <1>3, <2>1 DEF Scored
  <2>3. brandChecks'[r] = brandChecks[r]
    BY <1>3
  <2> QED BY <1>2, <1>5, <1>7, <2>1, <2>2, <2>3 DEF BrandOf
<1> QED BY <1>6, <1>7, <1>8, <1>9, ReviewedStep

LEMMA ReviewFailsReviewed ==
  ASSUME ReviewedInv, NEW r \in Requests, ReviewFails(r)
  PROVE  ReviewedInv'
<1>1. req[r].op \in ReviewOps /\ req[r].pc \in {"check", "score"}
  BY DEF ReviewFails, ReviewOps
<1>2. told' = [told EXCEPT ![r] = Unanswered] /\ UNCHANGED <<checks, brandChecks, results>>
  BY DEF ReviewFails
<1>3. /\ told' = [s \in Requests |-> told'[s]] /\ told'[r] = Unanswered
      /\ \A s \in Requests : s # r => told'[s] = told[s]
  BY <1>2 DEF ReviewedInv, ReviewShape
<1>4. ReviewShape' /\ Alone(r)
  BY <1>2, <1>3 DEF ReviewedInv, ReviewShape, Alone
<1>5. PICK new : Moves(r, new) /\ Placed(new) /\ new.op = req[r].op /\ new.pc = "refused"
  <2>1. Goto(r, "refused")
    BY DEF ReviewFails
  <2>2. PICK new : /\ Moves(r, new) /\ new.pc = "refused" /\ new.op = req[r].op
                   /\ new.user = req[r].user
    BY <1>1, <2>1, GoesOn DEF ReviewedInv, PlacedInv, Over
  <2> QED BY <1>1, <2>2 DEF Placed, Fits, Learning, ReviewOps
<1>6. SafetyOf(r, new)'
  <2>1. LeftToHuman(r)'
    BY <1>3 DEF LeftToHuman
  <2>2. new.op # "moderate" => checks'[r] = <<>>
    BY <1>2, <1>5 DEF ReviewedInv, SafetyOf
  <2> QED BY <1>5, <2>1, <2>2 DEF SafetyOf
<1>7. BrandOf(r, new)'
  <2>1. new.op # "brandCheck" => brandChecks'[r] = <<>> /\ results'[r].score = NoScore
    BY <1>2, <1>5 DEF ReviewedInv, BrandOf
  <2> QED BY <1>5, <2>1 DEF BrandOf
<1> QED BY <1>4, <1>5, <1>6, <1>7, ReviewedStep

LEMMA ReviewedNext ==
  ASSUME ReviewedInv, [Next]_vars
  PROVE  ReviewedInv'
<1>1. ASSUME UNCHANGED moderationVars, NEW r \in Requests,
             NEW ops, Act(r, ops), ops \cap ReviewOps = {}
      PROVE  ReviewedInv'
  <2>1. PICK new : Moves(r, new) /\ Placed(new) /\ new.op \in ops
    BY <1>1 DEF Act
  <2> QED BY <1>1, <2>1, ReviewedElsewhere
<1>2. /\ (MemoryOps \cup {"edit"}) \cap ReviewOps = {} /\ StudioOps \cap ReviewOps = {}
      /\ OptimizerOps \cap ReviewOps = {} /\ ProductOps \cap ReviewOps = {}
  BY DEF MemoryOps, StudioOps, OptimizerOps, ProductOps, ReviewOps
<1>3. CASE MemoryStep /\ UNCHANGED moderationVars
  <2>1. PICK r \in Requests : Learns(r)
    BY <1>3, MemoryLearns DEF ReviewedInv
  <2>2. Act(r, MemoryOps \cup {"edit"})
    BY <2>1 DEF Learns, Act
  <2> QED BY <1>1, <1>2, <1>3, <2>2
<1>4. CASE StudioStep /\ UNCHANGED moderationVars
  BY <1>1, <1>2, <1>4, StudioActs DEF ReviewedInv
<1>5. CASE (OptimizerStep \/ ProductStep) /\ UNCHANGED moderationVars
  <2>1. CASE UNCHANGED requestVars
    BY <1>5, <2>1, ReviewedRest
  <2> QED BY <1>1, <1>2, <1>5, <2>1, OptimizerActs, ProductActs DEF ReviewedInv
<1>6. CASE ModerationStep
  BY <1>6, RunModerationReviewed, PersistCheckReviewed, ReturnVerdictReviewed,
     RunBrandCheckReviewed, PersistScoreReviewed, ReturnScoreReviewed, ReviewFailsReviewed
     DEF ModerationStep
<1>7. CASE UNCHANGED vars
  BY <1>7, ReviewedRest DEF vars
<1> QED BY <1>3, <1>4, <1>5, <1>6, <1>7 DEF Next

LEMMA ReviewedInit == Init => ReviewedInv
<1> SUFFICES ASSUME Init PROVE ReviewedInv
  OBVIOUS
<1>1. PlacedInv /\ \A r \in Requests : req[r].pc = "new" /\ req[r].op = "none"
  BY PlacedInit DEF Init
<1>2. /\ checks = [r \in Requests |-> <<>>] /\ brandChecks = [r \in Requests |-> <<>>]
      /\ told = [r \in Requests |-> Unanswered] /\ results = [r \in Requests |-> Nothing]
  BY DEF Init, ModerationInit
<1>3. ReviewShape
  BY <1>2 DEF ReviewShape, Nothing
<1>4. \A r \in Requests : SafetyOf(r, req[r])
  BY <1>1, <1>2 DEF SafetyOf
<1>5. \A r \in Requests : BrandOf(r, req[r])
  BY <1>1, <1>2 DEF BrandOf, Nothing
<1> QED BY <1>1, <1>3, <1>4, <1>5 DEF ReviewedInv

LEMMA ReviewedBacks == ReviewedInv => VerdictsAreBacked
<1> SUFFICES ASSUME ReviewedInv, NEW r \in Requests
             PROVE  /\ Done(r, "moderate") =>
                         LET rows == checks[r]
                             found == {row.status : row \in ToSet(rows)}
                         IN /\ Len(rows) = Len(Planned)
                            /\ \A check \in ToSet(Planned) :
                                 \E row \in ToSet(rows) :
                                   row.type = check.type /\ row.label = check.label
                            /\ results[r].verdict = "BLOCKED" <=> "BLOCKED" \in found
                            /\ results[r].verdict = "PASSED" <=> found = {"PASSED"}
                    /\ \A row \in ToSet(checks[r]) :
                         told[r] # Unanswered /\ Unavailable(told[r], row) => row.status = "FLAGGED"
                    /\ Done(r, "brandCheck") =>
                         LET scores == {row.score : row \in ToSet(brandChecks[r])}
                         IN IF scores = {} THEN results[r].score = NoScore
                            ELSE \E low, high \in scores :
                                   low <= results[r].score /\ results[r].score <= high
  BY DEF VerdictsAreBacked
<1>1. ASSUME Done(r, "moderate")
      PROVE  LET rows == checks[r]
                 found == {row.status : row \in ToSet(rows)}
             IN /\ Len(rows) = Len(Planned)
                /\ \A check \in ToSet(Planned) :
                     \E row \in ToSet(rows) : row.type = check.type /\ row.label = check.label
                /\ results[r].verdict = "BLOCKED" <=> "BLOCKED" \in found
                /\ results[r].verdict = "PASSED" <=> found = {"PASSED"}
  <2>1. Wrote(r, Len(Planned)) /\ results[r].verdict = Verdict(r)
    BY <1>1 DEF ReviewedInv, SafetyOf, Done, Doing
  <2>2. PICK rows, S : rows = checks[r] /\ rows \in Seq(S)
    BY <2>1 DEF Wrote
  <2>3. PICK n \in Nat : n = Len(Planned) /\ n >= 2
    BY PlannedIs
  <2>4. Len(rows) = n /\ DOMAIN rows = 1..n /\ DOMAIN Planned = 1..n
    BY <2>1, <2>2, <2>3, PlannedIs DEF Wrote
  <2>5. \A i \in 1..n : /\ rows[i] \in ToSet(rows)
                         /\ rows[i].type = Planned[i].type /\ rows[i].label = Planned[i].label
                         /\ rows[i].status \in CheckStatuses
    BY <2>1, <2>2, <2>3, <2>4 DEF Wrote, ToSet
  <2>6. \A check \in ToSet(Planned) :
          \E row \in ToSet(rows) : row.type = check.type /\ row.label = check.label
    BY <2>4, <2>5 DEF ToSet
  <2>7. PICK found : found = {row.status : row \in ToSet(rows)}
    OBVIOUS
  <2>8. found \subseteq CheckStatuses /\ found # {}
    <3>1. \A row \in ToSet(rows) : row.status \in CheckStatuses
      BY <2>4, <2>5 DEF ToSet
    <3>2. 1 \in 1..n
      BY <2>3
    <3>3. rows[1] \in ToSet(rows)
      BY <2>5, <3>2
    <3> QED BY <2>7, <3>1, <3>3
  <2>9. results[r].verdict = Overall(found)
    BY <2>1, <2>2, <2>7 DEF Verdict
  <2>10. /\ Overall(found) = "BLOCKED" <=> "BLOCKED" \in found
         /\ Overall(found) = "PASSED" <=> found = {"PASSED"}
    BY <2>8 DEF Overall, CheckStatuses
  <2> QED BY <2>2, <2>3, <2>4, <2>6, <2>7, <2>9, <2>10
<1>2. \A row \in ToSet(checks[r]) :
        told[r] # Unanswered /\ Unavailable(told[r], row) => row.status = "FLAGGED"
  <2>1. CASE req[r].op = "moderate"
    BY <2>1 DEF ReviewedInv, SafetyOf, LeftToHuman
  <2>2. CASE req[r].op # "moderate"
    BY <2>2, NoRows DEF ReviewedInv, SafetyOf
  <2> QED BY <2>1, <2>2
<1>3. ASSUME Done(r, "brandCheck")
      PROVE  LET scores == {row.score : row \in ToSet(brandChecks[r])}
             IN IF scores = {} THEN results[r].score = NoScore
                ELSE \E low, high \in scores :
                       low <= results[r].score /\ results[r].score <= high
  <2>1. PICK rows : rows = brandChecks[r]
    OBVIOUS
  <2>2. PICK scores : scores = {row.score : row \in ToSet(rows)}
    OBVIOUS
  <2>3. \/ rows = <<>> /\ results[r].score = NoScore
        \/ Len(rows) > 0 /\ Scored(r) /\ results[r].score = Mean(rows)
    BY <1>3, <2>1 DEF ReviewedInv, BrandOf, Done, Doing
  <2>4. CASE rows = <<>> /\ results[r].score = NoScore
    <3>1. scores = {}
      BY <2>2, <2>4, NoRows
    <3> QED BY <2>1, <2>2, <2>4, <3>1
  <2>5. CASE Len(rows) > 0 /\ Scored(r) /\ results[r].score = Mean(rows)
    <3>1. PICK S : rows \in Seq(S)
      BY <2>1, <2>5 DEF Scored
    <3>2. \A i \in DOMAIN rows : rows[i].score \in Int
      BY <2>1, <2>5 DEF Scored
    <3>3. {rows[i].score : i \in DOMAIN rows} = scores
      BY <2>2 DEF ToSet
    <3>4. \E low, high \in {rows[i].score : i \in DOMAIN rows} :
            low <= Mean(rows) /\ Mean(rows) <= high
      BY <2>5, <3>1, <3>2, MeanWithin
    <3>5. PICK low \in scores, high \in scores : low <= Mean(rows) /\ Mean(rows) <= high
      BY <3>3, <3>4
    <3>6. scores # {}
      BY <3>5
    <3> QED BY <2>1, <2>2, <2>5, <3>5, <3>6
  <2> QED BY <2>3, <2>4, <2>5
<1> QED BY <1>1, <1>2, <1>3

\* The verdict and the score of a run rest on its own rows, one for each thing that is
\* checked, and on what the models said, for any texts, replies and scores and however many
\* attempts write at the same time: nothing that could not be checked has passed.
THEOREM VerdictsAreAlwaysBacked == Spec => []VerdictsAreBacked
<1>1. Init => ReviewedInv
  BY ReviewedInit
<1>2. ReviewedInv /\ [Next]_vars => ReviewedInv'
  BY ReviewedNext
<1>3. ReviewedInv => VerdictsAreBacked
  BY ReviewedBacks
<1> QED BY <1>1, <1>2, <1>3, PTL DEF Spec

-----------------------------------------------------------------------------
(* The products.  What a request has in hand is of its own image and page, and so *)
(* is what it writes: the rows that others have written were so too.              *)

IsFacts(f) ==
  f = [brand |-> f.brand, claims |-> f.claims, of |-> f.of, content |-> f.content]
FoundOn(f, page) ==
  IsFacts(f) /\ f.of \in Alike(page) \cup {NoPage} /\ (f.of = NoPage => f.brand = Unnamed)
IsReading(x) == x \in Readings \/ x = Unread

ProductShape ==
  /\ site = [page \in Pages |-> site[page]]
  /\ snapshots = [url \in NormalUrls |-> snapshots[url]]
  /\ profiles = [image \in Images |-> profiles[image]]
  /\ held = [r \in Requests |-> held[r]]
  /\ bought = [r \in Requests |-> bought[r]]
  /\ handed = [r \in Requests |-> handed[r]]
  /\ \A url \in NormalUrls :
       snapshots[url] = [content |-> snapshots[url].content, facts |-> snapshots[url].facts,
                         fresh |-> snapshots[url].fresh]
  /\ \A r \in Requests :
       held[r] = [vision |-> held[r].vision, facts |-> held[r].facts,
                  content |-> held[r].content, snapshot |-> held[r].snapshot,
                  cached |-> held[r].cached]

GroundedRow(row) ==
  /\ IsReading(row.vision) /\ FoundOn(row.facts, row.url)
  /\ row.brand = row.vision.brand /\ row.fact = Resolved(row.vision, row.facts)
  /\ row.unresolved = Unresolved(row.vision, row.facts)

AtPage == {"fetch", "extract", "save", "renew"}

\* What the request has in hand is of its image and of its page.
HoldsOwn(r, x) ==
  /\ x.op # "profile" => held[r] = NothingHeld
  /\ x.op = "profile" =>
       /\ FoundOn(held[r].facts, x.account) /\ FoundOn(held[r].snapshot.facts, x.account)
       /\ IsReading(held[r].vision)
       /\ x.pc \notin Over => x.user \in Images
       /\ x.pc \in AtPage => x.account \in Pages
       /\ x.pc = "extract" => held[r].facts.of = x.account
       /\ x.account \in Pages \cup {NoPage}
GivenOwn(r, x) ==
  handed[r].known =>
    x.op = "profile" /\ x.pc = "done" /\ GroundedRow(handed[r]) /\ handed[r].url = x.account

PagesGrounded == \A page \in Pages : FoundOn(snapshots[NormalUrl[page]].facts, page)
ImagesGrounded ==
  \A image \in Images :
    /\ IsReading(profiles[image].vision)
    /\ profiles[image].known => GroundedRow(profiles[image])

GroundedInv ==
  /\ PlacedInv /\ ProductShape /\ PagesGrounded /\ ImagesGrounded
  /\ \A r \in Requests : HoldsOwn(r, req[r]) /\ GivenOwn(r, req[r])

ProfilePcs ==
  {"vision", "identify", "snapshot", "fetch", "extract", "save", "renew", "fuse", "done",
   "refused"}

\* A profile is made for the image and the page it was asked for.
GoesOnFor(r, new) ==
  /\ Moves(r, new) /\ Placed(new) /\ new.op = "profile"
  /\ new.account = req[r].account /\ new.user = req[r].user

LEMMA ProfileGoesOn ==
  ASSUME PlacedInv, NEW r \in Requests, req[r].op = "profile", req[r].pc \notin Over,
         NEW pc \in ProfilePcs, Goto(r, pc)
  PROVE  \E new : GoesOnFor(r, new) /\ new.pc = pc
<1>1. req[r].pc \notin {"new"} \cup Over
  BY DEF PlacedInv, RequestsInv
<1>2. PICK new : /\ Moves(r, new) /\ new.pc = pc /\ new.op = req[r].op
                 /\ new.account = req[r].account /\ new.user = req[r].user
  BY <1>1, GoesOn DEF PlacedInv, ProfilePcs
<1>3. Placed(new)
  BY <1>2 DEF Placed, Fits, Learning, ProfilePcs
<1> QED BY <1>2, <1>3 DEF GoesOnFor

LEMMA GroundedStep ==
  ASSUME GroundedInv, NEW r \in Requests, NEW new, Moves(r, new), Placed(new),
         ProductShape', PagesGrounded', ImagesGrounded',
         \A s \in Requests : s # r => held'[s] = held[s] /\ handed'[s] = handed[s],
         HoldsOwn(r, new)', GivenOwn(r, new)'
  PROVE  GroundedInv'
<1>1. PlacedInv'
  BY PlacedStep DEF GroundedInv
<1>2. PICK x : x = Left(new) /\ req'[r] = x
  BY MovesRequest DEF GroundedInv, PlacedInv
<1>3. /\ x.pc = new.pc /\ x.op = new.op /\ x.account = new.account
      /\ x.pc \notin Over => x = new
  BY <1>2 DEF Left, NewRequest, Over
<1>4. HoldsOwn(r, req[r])' /\ GivenOwn(r, req[r])'
  <2>1. HoldsOwn(r, x)'
    BY <1>3 DEF HoldsOwn, AtPage
  <2>2. GivenOwn(r, x)'
    BY <1>3 DEF GivenOwn
  <2> QED BY <1>2, <2>1, <2>2 DEF HoldsOwn, GivenOwn
<1>5. ASSUME NEW s \in Requests, s # r
      PROVE  HoldsOwn(s, req[s])' /\ GivenOwn(s, req[s])'
  <2>1. req'[s] = req[s]
    BY <1>5, MovesRequest DEF GroundedInv, PlacedInv
  <2> QED BY <1>5, <2>1 DEF GroundedInv, HoldsOwn, GivenOwn
<1> QED BY <1>1, <1>4, <1>5 DEF GroundedInv

LEMMA GroundedElsewhere ==
  ASSUME GroundedInv, UNCHANGED productVars, NEW r \in Requests, NEW new,
         Moves(r, new), Placed(new), new.op # "profile"
  PROVE  GroundedInv'
<1>1. UNCHANGED <<site, snapshots, profiles, held, bought, handed>>
  BY DEF productVars
<1>2. req[r].op # "profile"
  BY MovesRequest DEF GroundedInv, PlacedInv, RequestsInv
<1>3. held[r] = NothingHeld /\ ~handed[r].known
  BY <1>2 DEF GroundedInv, HoldsOwn, GivenOwn
<1>4. ProductShape' /\ PagesGrounded' /\ ImagesGrounded'
  BY <1>1 DEF GroundedInv, ProductShape, PagesGrounded, ImagesGrounded
<1>5. HoldsOwn(r, new)' /\ GivenOwn(r, new)'
  BY <1>1, <1>3 DEF HoldsOwn, GivenOwn
<1> QED BY <1>1, <1>4, <1>5, GroundedStep

LEMMA GroundedRest ==
  ASSUME GroundedInv, UNCHANGED <<requestVars, profiles, held, handed>>,
         ProductShape', PagesGrounded'
  PROVE  GroundedInv'
<1>1. UNCHANGED <<req, profiles, held, handed>>
  BY DEF requestVars
<1>2. PlacedInv'
  BY PlacedRest DEF GroundedInv
<1>3. ImagesGrounded'
  BY <1>1 DEF GroundedInv, ImagesGrounded
<1>4. \A r \in Requests : HoldsOwn(r, req[r])' /\ GivenOwn(r, req[r])'
  BY <1>1 DEF GroundedInv, HoldsOwn, GivenOwn
<1> QED BY <1>2, <1>3, <1>4 DEF GroundedInv

\* The step changes what r has in hand to hands, and nothing else but what it pays for.
HeldBecomes(r, hands) ==
  /\ held' = [held EXCEPT ![r] = hands]
  /\ hands = [vision |-> hands.vision, facts |-> hands.facts, content |-> hands.content,
              snapshot |-> hands.snapshot, cached |-> hands.cached]

OnlyHeld(r, hands) ==
  /\ held'[r] = hands /\ \A s \in Requests : s # r => held'[s] = held[s]
  /\ held' = [s \in Requests |-> held'[s]]
  /\ \A s \in Requests :
       held'[s] = [vision |-> held'[s].vision, facts |-> held'[s].facts,
                   content |-> held'[s].content, snapshot |-> held'[s].snapshot,
                   cached |-> held'[s].cached]

LEMMA HeldIs ==
  ASSUME ProductShape, NEW r \in Requests, NEW hands, HeldBecomes(r, hands)
  PROVE  OnlyHeld(r, hands)
<1>1. /\ held'[r] = hands /\ \A s \in Requests : s # r => held'[s] = held[s]
      /\ held' = [s \in Requests |-> held'[s]]
  BY DEF ProductShape, HeldBecomes
<1>2. ASSUME NEW s \in Requests
      PROVE  held'[s] = [vision |-> held'[s].vision, facts |-> held'[s].facts,
                         content |-> held'[s].content, snapshot |-> held'[s].snapshot,
                         cached |-> held'[s].cached]
  <2>1. CASE s = r
    BY <1>1, <2>1 DEF HeldBecomes
  <2>2. CASE s # r
    BY <1>1, <2>2 DEF ProductShape
  <2> QED BY <2>1, <2>2
<1> QED BY <1>1, <1>2 DEF OnlyHeld

LEMMA BoughtIs ==
  ASSUME ProductShape, NEW r \in Requests, NEW what, Buys(r, what)
  PROVE  /\ bought'[r] = bought[r] \cup {what}
         /\ \A s \in Requests : s # r => bought'[s] = bought[s]
         /\ bought' = [s \in Requests |-> bought'[s]]
  BY DEF ProductShape, Buys

LEMMA NothingIsFound == \A page : IsFacts(NoFacts) /\ FoundOn(NoFacts, page)
  BY DEF IsFacts, FoundOn, NoFacts

LEMMA AlikeFound ==
  ASSUME NEW page \in Pages
  PROVE  /\ NormalUrl[page] \in NormalUrls /\ page \in Alike(page) /\ page # NoPage
         /\ \A f, url : NormalUrl[page] = NormalUrl[url] /\ FoundOn(f, url) => FoundOn(f, page)
  BY ProductAssumption DEF Alike, FoundOn, NormalUrls

\* The rest of the rows is kept by a step that takes r on with other things in hand.
LEMMA HeldGrounded ==
  ASSUME GroundedInv, NEW r \in Requests, NEW new, GoesOnFor(r, new), req[r].op = "profile",
         NEW hands, HeldBecomes(r, hands), UNCHANGED <<site, snapshots, profiles, handed>>,
         bought' = [s \in Requests |-> bought'[s]], req[r].pc \notin Over,
         FoundOn(hands.facts, new.account), FoundOn(hands.snapshot.facts, new.account),
         IsReading(hands.vision), new.pc \in AtPage => new.account \in Pages,
         new.pc = "extract" => hands.facts.of = new.account
  PROVE  GroundedInv'
<1>1. OnlyHeld(r, hands)
  BY HeldIs DEF GroundedInv
<1>2. ProductShape'
  BY <1>1 DEF GroundedInv, ProductShape, OnlyHeld
<1>3. PagesGrounded' /\ ImagesGrounded'
  BY DEF GroundedInv, PagesGrounded, ImagesGrounded
<1>4. HoldsOwn(r, new)'
  BY <1>1 DEF GroundedInv, HoldsOwn, GoesOnFor, OnlyHeld
<1>5. GivenOwn(r, new)'
  <2>1. ~handed[r].known
    BY DEF GroundedInv, GivenOwn, Over
  <2> QED BY <2>1 DEF GivenOwn
<1>6. \A s \in Requests : s # r => held'[s] = held[s] /\ handed'[s] = handed[s]
  BY <1>1 DEF OnlyHeld
<1> QED BY <1>2, <1>3, <1>4, <1>5, <1>6, GroundedStep DEF GoesOnFor

LEMMA BuildProfileMoves ==
  ASSUME GroundedInv, NEW r \in Requests, BuildProfile(r)
  PROVE  \E new, image, page :
           /\ image \in Images /\ page \in Pages \cup {NoPage}
           /\ req[r].pc = "new" /\ Call(r, new)
           /\ Moves(r, new) /\ Placed(new) /\ new.op = "profile" /\ new.account = page
           /\ new.user = image
           /\ UNCHANGED <<site, snapshots, profiles, bought>>
           /\ \/ /\ Cached(image, page) /\ new.pc = "done"
                 /\ Hand(r, profiles[image]) /\ UNCHANGED held
              \/ /\ new.pc = IF profiles[image].known THEN "snapshot" ELSE "vision"
                 /\ HeldBecomes(r, [NothingHeld EXCEPT !.vision = profiles[image].vision,
                                                       !.cached = profiles[image].known])
                 /\ UNCHANGED handed
<1>1. PICK image \in Images, page \in Pages \cup {NoPage} :
        LET row == profiles[image]
            request == [NewRequest EXCEPT !.op = "profile", !.account = page, !.user = image]
        IN
        IF Cached(image, page)
        THEN Call(r, [request EXCEPT !.pc = "done"]) /\ Hand(r, row) /\ UNCHANGED held
        ELSE /\ Call(r, [request EXCEPT !.pc = IF row.known THEN "snapshot" ELSE "vision"])
             /\ held' = [held EXCEPT ![r].vision = row.vision, ![r].cached = row.known]
             /\ UNCHANGED handed
  BY DEF BuildProfile
<1>2. PICK y : y = [NewRequest EXCEPT !.op = "profile", !.account = page, !.user = image]
  OBVIOUS
<1>3. y = [pc |-> "new", op |-> "profile", account |-> page, user |-> image,
           value |-> "none", level |-> 0, seen |-> 0, limit |-> 0]
  BY <1>2 DEF NewRequest
<1>4. PICK pc, new :
        /\ new = [y EXCEPT !.pc = pc] /\ Call(r, new)
        /\ \/ /\ Cached(image, page) /\ pc = "done"
              /\ Hand(r, profiles[image]) /\ UNCHANGED held
           \/ /\ pc = IF profiles[image].known THEN "snapshot" ELSE "vision"
              /\ held' = [held EXCEPT ![r].vision = profiles[image].vision,
                                      ![r].cached = profiles[image].known]
              /\ UNCHANGED handed
  BY <1>1, <1>2
<1>5. /\ Started(new, ProductOps) /\ Placed(new) /\ new.op = "profile" /\ new.account = page
      /\ new.user = image /\ new.pc = pc
  BY <1>3, <1>4 DEF Started, IsRequest, Placed, Fits, Learning, ProductOps
<1>6. Moves(r, new) /\ req[r].pc = "new"
  BY <1>4, <1>5, CallActs DEF BuildProfile, Arrives
<1>7. UNCHANGED <<site, snapshots, profiles, bought>>
  BY DEF BuildProfile
<1>8. ASSUME held' = [held EXCEPT ![r].vision = profiles[image].vision,
                                  ![r].cached = profiles[image].known]
      PROVE  HeldBecomes(r, [NothingHeld EXCEPT !.vision = profiles[image].vision,
                                                !.cached = profiles[image].known])
  <2>1. held[r] = NothingHeld
    BY <1>6 DEF GroundedInv, HoldsOwn, PlacedInv, RequestsInv
  <2>2. PICK v, c : v = profiles[image].vision /\ c = profiles[image].known
    OBVIOUS
  <2>3. held' = [held EXCEPT ![r].vision = v, ![r].cached = c]
    BY <1>8, <2>2, Zenon
  <2>4. PICK hands : hands = [NothingHeld EXCEPT !.vision = v, !.cached = c]
    OBVIOUS
  <2>5. held' = [held EXCEPT ![r] = hands]
    BY <2>1, <2>3, <2>4 DEF GroundedInv, ProductShape
  <2>6. hands = [vision |-> hands.vision, facts |-> hands.facts, content |-> hands.content,
                 snapshot |-> hands.snapshot, cached |-> hands.cached]
    BY <2>4 DEF NothingHeld
  <2>7. HeldBecomes(r, hands)
    BY <2>5, <2>6 DEF HeldBecomes
  <2> QED BY <2>2, <2>4, <2>7
<1>9. \/ /\ Cached(image, page) /\ new.pc = "done"
         /\ Hand(r, profiles[image]) /\ UNCHANGED held
      \/ /\ new.pc = IF profiles[image].known THEN "snapshot" ELSE "vision"
         /\ HeldBecomes(r, [NothingHeld EXCEPT !.vision = profiles[image].vision,
                                               !.cached = profiles[image].known])
         /\ UNCHANGED handed
  <2>1. CASE Cached(image, page) /\ pc = "done" /\ Hand(r, profiles[image]) /\ UNCHANGED held
    BY <1>5, <2>1
  <2>2. CASE /\ pc = IF profiles[image].known THEN "snapshot" ELSE "vision"
             /\ held' = [held EXCEPT ![r].vision = profiles[image].vision,
                                     ![r].cached = profiles[image].known]
             /\ UNCHANGED handed
    BY <1>5, <1>8, <2>2
  <2> QED BY <1>4, <2>1, <2>2
<1>10. image \in Images /\ page \in Pages \cup {NoPage} /\ Call(r, new)
  BY <1>4
<1> QED BY <1>5, <1>6, <1>7, <1>9, <1>10

LEMMA HandIs ==
  ASSUME ProductShape, NEW r \in Requests, NEW row, Hand(r, row)
  PROVE  /\ handed'[r] = row /\ \A s \in Requests : s # r => handed'[s] = handed[s]
         /\ handed' = [s \in Requests |-> handed'[s]]
  BY DEF ProductShape, Hand

LEMMA BuildProfileGrounded ==
  ASSUME GroundedInv, NEW r \in Requests, BuildProfile(r)
  PROVE  GroundedInv'
<1>1. PICK new, image, page :
           /\ image \in Images /\ page \in Pages \cup {NoPage}
           /\ Moves(r, new) /\ Placed(new) /\ new.op = "profile" /\ new.account = page
           /\ new.user = image /\ req[r].pc = "new"
           /\ UNCHANGED <<site, snapshots, profiles, bought>>
           /\ \/ /\ Cached(image, page) /\ new.pc = "done"
                 /\ Hand(r, profiles[image]) /\ UNCHANGED held
              \/ /\ new.pc = IF profiles[image].known THEN "snapshot" ELSE "vision"
                 /\ HeldBecomes(r, [NothingHeld EXCEPT !.vision = profiles[image].vision,
                                                       !.cached = profiles[image].known])
                 /\ UNCHANGED handed
  BY BuildProfileMoves
<1>2. PagesGrounded' /\ ImagesGrounded'
  BY <1>1 DEF GroundedInv, PagesGrounded, ImagesGrounded
<1>3. req[r].op # "profile" /\ held[r] = NothingHeld /\ ~handed[r].known
  BY <1>1 DEF GroundedInv, HoldsOwn, GivenOwn, PlacedInv, RequestsInv
<1>4. FoundOn(NothingHeld.facts, page) /\ FoundOn(NothingHeld.snapshot.facts, page)
      /\ IsReading(NothingHeld.vision)
  BY NothingIsFound DEF NothingHeld, NoSnapshot, IsReading
<1>5. CASE Cached(image, page) /\ new.pc = "done" /\ Hand(r, profiles[image]) /\ UNCHANGED held
  <2>1. /\ handed'[r] = profiles[image]
        /\ \A s \in Requests : s # r => handed'[s] = handed[s]
        /\ handed' = [s \in Requests |-> handed'[s]]
    BY <1>5, HandIs DEF GroundedInv
  <2>2. ProductShape'
    BY <1>1, <1>5, <2>1 DEF GroundedInv, ProductShape
  <2>3. HoldsOwn(r, new)'
    BY <1>1, <1>3, <1>4, <1>5 DEF HoldsOwn, AtPage, Over
  <2>4. GroundedRow(profiles[image]) /\ profiles[image].url = page
    BY <1>1, <1>5 DEF GroundedInv, ImagesGrounded, Cached
  <2>5. GivenOwn(r, new)'
    BY <1>1, <1>5, <2>1, <2>4 DEF GivenOwn
  <2> QED BY <1>1, <1>2, <1>5, <2>1, <2>2, <2>3, <2>5, GroundedStep
<1>6. ASSUME new.pc \in {"snapshot", "vision"}, UNCHANGED handed,
             NEW hands, HeldBecomes(r, hands),
             hands = [NothingHeld EXCEPT !.vision = profiles[image].vision,
                                         !.cached = profiles[image].known]
      PROVE  GroundedInv'
  <2>1. OnlyHeld(r, hands)
    BY <1>6, HeldIs DEF GroundedInv
  <2>2. ProductShape'
    BY <1>1, <1>6, <2>1 DEF GroundedInv, ProductShape, OnlyHeld
  <2>3. /\ hands.vision = profiles[image].vision /\ hands.facts = NothingHeld.facts
        /\ hands.snapshot = NothingHeld.snapshot
    BY <1>6 DEF NothingHeld
  <2>4. IsReading(hands.vision)
    BY <1>1, <2>3 DEF GroundedInv, ImagesGrounded
  <2>5. HoldsOwn(r, new)'
    BY <1>1, <1>4, <1>6, <2>1, <2>3, <2>4 DEF HoldsOwn, AtPage, OnlyHeld
  <2>6. GivenOwn(r, new)'
    BY <1>3, <1>6 DEF GivenOwn
  <2>7. \A s \in Requests : s # r => held'[s] = held[s] /\ handed'[s] = handed[s]
    BY <1>6, <2>1 DEF OnlyHeld
  <2> QED BY <1>1, <1>2, <2>2, <2>5, <2>6, <2>7, GroundedStep
<1> QED BY <1>1, <1>5, <1>6

\* Each step of a profile, by the request it goes on with and what that has in hand.
LEMMA AnalyzeImageMoves ==
  ASSUME GroundedInv, NEW r \in Requests, AnalyzeImage(r)
  PROVE  \E new, reading :
           /\ reading \in Readings \cup {Unread}
           /\ GoesOnFor(r, new) /\ new.pc = "identify"
           /\ req[r].op = "profile" /\ req[r].pc = "vision"
           /\ HeldBecomes(r, [held[r] EXCEPT !.vision = reading])
           /\ Buys(r, Image(r)) /\ UNCHANGED <<site, snapshots, profiles, handed>>
<1>1. req[r].op = "profile" /\ req[r].pc = "vision" /\ Goto(r, "identify")
  BY DEF AnalyzeImage, Doing
<1>2. PICK new : GoesOnFor(r, new) /\ new.pc = "identify"
  BY <1>1, ProfileGoesOn DEF GroundedInv, ProfilePcs, Over
<1>3. PICK reading \in Readings \cup {Unread} : held' = [held EXCEPT ![r].vision = reading]
  BY DEF AnalyzeImage
<1>4. HeldBecomes(r, [held[r] EXCEPT !.vision = reading])
  BY <1>3 DEF HeldBecomes, GroundedInv, ProductShape
<1>5. Buys(r, Image(r)) /\ UNCHANGED <<site, snapshots, profiles, handed>>
  BY DEF AnalyzeImage
<1> QED BY <1>1, <1>2, <1>3, <1>4, <1>5

LEMMA HandsAre ==
  ASSUME ProductShape, NEW r \in Requests, NEW v, NEW f, NEW c, NEW s
  PROVE  /\ [held[r] EXCEPT !.vision = v] =
              [vision |-> v, facts |-> held[r].facts, content |-> held[r].content,
               snapshot |-> held[r].snapshot, cached |-> held[r].cached]
         /\ [held[r] EXCEPT !.facts = f] =
              [vision |-> held[r].vision, facts |-> f, content |-> held[r].content,
               snapshot |-> held[r].snapshot, cached |-> held[r].cached]
         /\ [held[r] EXCEPT !.facts = f, !.content = c] =
              [vision |-> held[r].vision, facts |-> f, content |-> c,
               snapshot |-> held[r].snapshot, cached |-> held[r].cached]
         /\ [held[r] EXCEPT !.snapshot = s, !.facts = f] =
              [vision |-> held[r].vision, facts |-> f, content |-> held[r].content,
               snapshot |-> s, cached |-> held[r].cached]
<1>1. PICK h1, h2, h3, h4, h5 :
        held[r] = [vision |-> h1, facts |-> h2, content |-> h3, snapshot |-> h4, cached |-> h5]
  BY DEF ProductShape
<1>2. PICK h : h = held[r]
  OBVIOUS
<1>3. /\ [h EXCEPT !.vision = v] =
           [vision |-> v, facts |-> h2, content |-> h3, snapshot |-> h4, cached |-> h5]
      /\ [h EXCEPT !.facts = f] =
           [vision |-> h1, facts |-> f, content |-> h3, snapshot |-> h4, cached |-> h5]
      /\ [h EXCEPT !.snapshot = s] =
           [vision |-> h1, facts |-> h2, content |-> h3, snapshot |-> s, cached |-> h5]
  BY <1>1, <1>2
<1>4. PICK g1 : g1 = [vision |-> h1, facts |-> f, content |-> h3, snapshot |-> h4, cached |-> h5]
  OBVIOUS
<1>5. PICK g2 : g2 = [vision |-> h1, facts |-> h2, content |-> h3, snapshot |-> s, cached |-> h5]
  OBVIOUS
<1>6. [g1 EXCEPT !.content = c] =
        [vision |-> h1, facts |-> f, content |-> c, snapshot |-> h4, cached |-> h5]
  BY <1>4
<1>7. [g2 EXCEPT !.facts = f] =
        [vision |-> h1, facts |-> f, content |-> h3, snapshot |-> s, cached |-> h5]
  BY <1>5
<1>8. /\ [h EXCEPT !.facts = f, !.content = c] =
           [vision |-> h1, facts |-> f, content |-> c, snapshot |-> h4, cached |-> h5]
      /\ [h EXCEPT !.snapshot = s, !.facts = f] =
           [vision |-> h1, facts |-> f, content |-> h3, snapshot |-> s, cached |-> h5]
  BY <1>3, <1>4, <1>5, <1>6, <1>7, Zenon
<1>9. /\ held[r].vision = h1 /\ held[r].facts = h2 /\ held[r].content = h3
      /\ held[r].snapshot = h4 /\ held[r].cached = h5
  BY <1>1
<1> QED BY <1>2, <1>3, <1>8, <1>9, Zenon

LEMMA Holding ==
  ASSUME GroundedInv, NEW r \in Requests, req[r].op = "profile"
  PROVE  /\ FoundOn(held[r].facts, req[r].account)
         /\ FoundOn(held[r].snapshot.facts, req[r].account)
         /\ IsReading(held[r].vision) /\ req[r].account \in Pages \cup {NoPage}
         /\ req[r].pc \notin Over => req[r].user \in Images
         /\ req[r].pc \in AtPage => req[r].account \in Pages
         /\ req[r].pc = "extract" => held[r].facts.of = req[r].account
  BY DEF GroundedInv, HoldsOwn

LEMMA AnalyzeImageGrounded ==
  ASSUME GroundedInv, NEW r \in Requests, AnalyzeImage(r)
  PROVE  GroundedInv'
<1>1. PICK new, reading : /\ reading \in Readings \cup {Unread}
           /\ GoesOnFor(r, new) /\ new.pc = "identify"
           /\ req[r].op = "profile" /\ req[r].pc = "vision"
           /\ HeldBecomes(r, [held[r] EXCEPT !.vision = reading])
           /\ Buys(r, Image(r)) /\ UNCHANGED <<site, snapshots, profiles, handed>>
  BY AnalyzeImageMoves
<1>2. PICK hands : hands = [held[r] EXCEPT !.vision = reading]
  OBVIOUS
<1>3. /\ hands.facts = held[r].facts /\ hands.snapshot = held[r].snapshot
      /\ hands.vision = reading
  BY <1>2, HandsAre DEF GroundedInv
<1>4. /\ FoundOn(hands.facts, new.account) /\ FoundOn(hands.snapshot.facts, new.account)
      /\ IsReading(hands.vision)
  BY <1>1, <1>3, Holding DEF IsReading, GoesOnFor
<1>5. bought' = [s \in Requests |-> bought'[s]]
  BY <1>1, BoughtIs DEF GroundedInv
<1>6. HeldBecomes(r, hands) /\ req[r].pc \notin Over /\ new.pc \notin AtPage \cup {"extract"}
  BY <1>1, <1>2 DEF Over, AtPage
<1> QED BY <1>1, <1>4, <1>5, <1>6, HeldGrounded

\* A step that only takes r on.
LEMMA OnlyGoesOnGrounded ==
  ASSUME GroundedInv, NEW r \in Requests, NEW new, GoesOnFor(r, new),
         req[r].op = "profile", req[r].pc \notin Over,
         UNCHANGED <<site, profiles, held, bought, handed>>,
         snapshots' = [url \in NormalUrls |-> snapshots'[url]],
         \A url \in NormalUrls :
           /\ snapshots'[url] = [content |-> snapshots'[url].content,
                                  facts |-> snapshots'[url].facts,
                                  fresh |-> snapshots'[url].fresh]
           /\ \/ snapshots'[url].facts = snapshots[url].facts
              \/ url = NormalUrl[req[r].account] /\ snapshots'[url].facts = held[r].facts,
         new.pc \notin AtPage
  PROVE  GroundedInv'
<1>1. ProductShape'
  BY DEF GroundedInv, ProductShape
<1>2. PagesGrounded'
  BY Holding, AlikeFound DEF GroundedInv, PagesGrounded
<1>3. ImagesGrounded'
  BY DEF GroundedInv, ImagesGrounded
<1>4. HoldsOwn(r, new)'
  BY DEF GroundedInv, HoldsOwn, GoesOnFor, AtPage
<1>5. GivenOwn(r, new)'
  <2>1. ~handed[r].known
    BY DEF GroundedInv, GivenOwn, Over
  <2> QED BY <2>1 DEF GivenOwn
<1>6. \A s \in Requests : s # r => held'[s] = held[s] /\ handed'[s] = handed[s]
  OBVIOUS
<1> QED BY <1>1, <1>2, <1>3, <1>4, <1>5, <1>6, GroundedStep DEF GoesOnFor

LEMMA IdentifyGrounded ==
  ASSUME GroundedInv, NEW r \in Requests, Identify(r)
  PROVE  GroundedInv'
<1>1. req[r].op = "profile" /\ req[r].pc = "identify" /\ Goto(r, "snapshot")
  BY DEF Identify, Doing
<1>2. PICK new : GoesOnFor(r, new) /\ new.pc = "snapshot"
  BY <1>1, ProfileGoesOn DEF GroundedInv, ProfilePcs, Over
<1>3. UNCHANGED <<site, snapshots, profiles, held, bought, handed>>
  BY DEF Identify, productVars
<1>4. /\ snapshots' = [url \in NormalUrls |-> snapshots'[url]]
      /\ \A url \in NormalUrls :
           snapshots'[url] = [content |-> snapshots'[url].content,
                               facts |-> snapshots'[url].facts,
                               fresh |-> snapshots'[url].fresh]
  BY <1>3 DEF GroundedInv, ProductShape
<1>5. req[r].pc \notin Over /\ new.pc \notin AtPage
  BY <1>1, <1>2 DEF Over, AtPage
<1> QED BY <1>1, <1>2, <1>3, <1>4, <1>5, OnlyGoesOnGrounded

LEMMA ProfileFailsMoves ==
  ASSUME GroundedInv, NEW r \in Requests, ProfileFails(r)
  PROVE  \E new : /\ GoesOnFor(r, new) /\ new.pc = "refused"
                  /\ req[r].op = "profile" /\ req[r].pc \notin Over
                  /\ HeldBecomes(r, NothingHeld)
                  /\ UNCHANGED <<site, snapshots, profiles, bought, handed>>
<1>1. req[r].op = "profile" /\ req[r].pc \notin Over /\ Goto(r, "refused")
  BY DEF ProfileFails
<1>2. PICK new : GoesOnFor(r, new) /\ new.pc = "refused"
  BY <1>1, ProfileGoesOn DEF GroundedInv, ProfilePcs
<1>3. HeldBecomes(r, NothingHeld)
  BY DEF ProfileFails, HeldBecomes, NothingHeld
<1>4. UNCHANGED <<site, snapshots, profiles, bought, handed>>
  BY DEF ProfileFails
<1> QED BY <1>1, <1>2, <1>3, <1>4

LEMMA NothingHeldIs ==
  \A page : /\ FoundOn(NothingHeld.facts, page) /\ FoundOn(NothingHeld.snapshot.facts, page)
            /\ IsReading(NothingHeld.vision)
  BY NothingIsFound DEF NothingHeld, NoSnapshot, IsReading

LEMMA ProfileFailsGrounded ==
  ASSUME GroundedInv, NEW r \in Requests, ProfileFails(r)
  PROVE  GroundedInv'
<1>1. PICK new : /\ GoesOnFor(r, new) /\ new.pc = "refused"
                 /\ req[r].op = "profile" /\ req[r].pc \notin Over
                 /\ HeldBecomes(r, NothingHeld)
                 /\ UNCHANGED <<site, snapshots, profiles, bought, handed>>
  BY ProfileFailsMoves
<1>2. bought' = [s \in Requests |-> bought'[s]]
  BY <1>1 DEF GroundedInv, ProductShape
<1>3. new.pc \notin AtPage \cup {"extract"}
  BY <1>1 DEF AtPage
<1> QED BY <1>1, <1>2, <1>3, NothingHeldIs, HeldGrounded

\* The request that the look up of r leaves, and what it has in hand.
LooksUp(r, new, hands) ==
  /\ GoesOnFor(r, new) /\ req[r].op = "profile" /\ req[r].pc = "snapshot"
  /\ HeldBecomes(r, hands)
  /\ UNCHANGED <<site, snapshots, profiles, bought, handed>>
  /\ hands.vision = held[r].vision /\ hands.content = held[r].content
  /\ \/ new.pc = "fuse" /\ hands = held[r]
     \/ /\ new.account \in Pages
        /\ hands.snapshot = snapshots[NormalUrl[new.account]]
        /\ \/ new.pc = "fuse" /\ hands.facts = snapshots[NormalUrl[new.account]].facts
           \/ new.pc = "fetch" /\ hands.facts = NoFacts

LEMMA LookUpSnapshotMoves ==
  ASSUME GroundedInv, NEW r \in Requests, LookUpSnapshot(r)
  PROVE  \E new, hands : LooksUp(r, new, hands)
<1>1. req[r].op = "profile" /\ req[r].pc = "snapshot"
  BY DEF LookUpSnapshot, Doing
<1>2. UNCHANGED <<site, snapshots, profiles, bought, handed>>
  BY DEF LookUpSnapshot
<1>3. ASSUME NEW pc \in {"fuse", "fetch"}, Goto(r, pc)
      PROVE  \E new : GoesOnFor(r, new) /\ new.pc = pc
  BY <1>1, <1>3, ProfileGoesOn DEF GroundedInv, ProfilePcs, Over
<1>4. CASE req[r].account = NoPage
  <2>1. Goto(r, "fuse") /\ UNCHANGED held
    BY <1>4 DEF LookUpSnapshot
  <2>2. PICK new : GoesOnFor(r, new) /\ new.pc = "fuse"
    BY <1>3, <2>1
  <2>3. HeldBecomes(r, held[r])
    BY <2>1 DEF HeldBecomes, GroundedInv, ProductShape
  <2> QED BY <1>1, <1>2, <2>2, <2>3 DEF LooksUp
<1>5. CASE req[r].account # NoPage
  <2>1. req[r].account \in Pages
    BY <1>1, <1>5, Holding
  <2>2. PICK s, f, pc :
          /\ s = snapshots[NormalUrl[req[r].account]] /\ pc \in {"fuse", "fetch"}
          /\ \/ pc = "fuse" /\ f = snapshots[NormalUrl[req[r].account]].facts
             \/ pc = "fetch" /\ f = NoFacts
          /\ held' = [held EXCEPT ![r].snapshot = s, ![r].facts = f]
          /\ Goto(r, pc)
    <3>1. PICK s : s = snapshots[NormalUrl[req[r].account]]
      OBVIOUS
    <3>2. /\ held' = [held EXCEPT ![r].snapshot = s,
                        ![r].facts = IF s.fresh THEN s.facts ELSE NoFacts]
          /\ Goto(r, IF s.fresh THEN "fuse" ELSE "fetch")
      BY <1>5, <3>1 DEF LookUpSnapshot
    <3>3. CASE s.fresh
      <4>1. held' = [held EXCEPT ![r].snapshot = s, ![r].facts = s.facts] /\ Goto(r, "fuse")
        BY <3>2, <3>3
      <4> QED BY <3>1, <4>1
    <3>4. CASE ~s.fresh
      <4>1. held' = [held EXCEPT ![r].snapshot = s, ![r].facts = NoFacts] /\ Goto(r, "fetch")
        BY <3>2, <3>4
      <4> QED BY <3>1, <4>1
    <3> QED BY <3>3, <3>4
  <2>3. PICK new : GoesOnFor(r, new) /\ new.pc = pc
    BY <1>3, <2>2
  <2>4. PICK hands : hands = [held[r] EXCEPT !.snapshot = s, !.facts = f]
    OBVIOUS
  <2>5. hands = [vision |-> held[r].vision, facts |-> f, content |-> held[r].content,
                 snapshot |-> s, cached |-> held[r].cached]
    BY <2>4, HandsAre DEF GroundedInv
  <2>6. held' = [held EXCEPT ![r] = hands]
    BY <2>2, <2>4 DEF GroundedInv, ProductShape
  <2>7. HeldBecomes(r, hands)
    BY <2>5, <2>6 DEF HeldBecomes
  <2>8. /\ hands.vision = held[r].vision /\ hands.content = held[r].content
        /\ hands.snapshot = s /\ hands.facts = f
    BY <2>5
  <2>9. new.account = req[r].account
    BY <2>3 DEF GoesOnFor
  <2> QED BY <1>1, <1>2, <2>1, <2>2, <2>3, <2>7, <2>8, <2>9 DEF LooksUp
<1> QED BY <1>4, <1>5

LEMMA LookUpSnapshotGrounded ==
  ASSUME GroundedInv, NEW r \in Requests, LookUpSnapshot(r)
  PROVE  GroundedInv'
<1> USE DEF LooksUp
<1>1. PICK new, hands : LooksUp(r, new, hands)
  BY LookUpSnapshotMoves
<1>2. /\ FoundOn(held[r].facts, req[r].account) /\ FoundOn(held[r].snapshot.facts, req[r].account)
      /\ IsReading(held[r].vision) /\ new.account = req[r].account
  BY <1>1, Holding DEF GoesOnFor
<1>3. FoundOn(hands.facts, new.account) /\ FoundOn(hands.snapshot.facts, new.account)
  <2>1. CASE hands = held[r]
    BY <1>2, <2>1
  <2>2. CASE /\ new.account \in Pages
             /\ hands.snapshot = snapshots[NormalUrl[new.account]]
             /\ hands.facts \in {snapshots[NormalUrl[new.account]].facts, NoFacts}
    <3>1. FoundOn(snapshots[NormalUrl[new.account]].facts, new.account)
      BY <2>2 DEF GroundedInv, PagesGrounded
    <3> QED BY <2>2, <3>1, NothingIsFound
  <2> QED BY <1>1, <2>1, <2>2
<1>4. bought' = [s \in Requests |-> bought'[s]]
  BY <1>1 DEF GroundedInv, ProductShape
<1>5. /\ new.pc \in AtPage => new.account \in Pages
      /\ new.pc # "extract" /\ req[r].pc \notin Over
  BY <1>1 DEF AtPage, Over
<1> QED BY <1>1, <1>2, <1>3, <1>4, <1>5, HeldGrounded

LEMMA FetchPageMoves ==
  ASSUME GroundedInv, NEW r \in Requests, FetchPage(r)
  PROVE  \E new, hands, n :
           /\ GoesOnFor(r, new) /\ req[r].op = "profile" /\ req[r].pc = "fetch"
           /\ new.account \in Pages /\ n = site[new.account]
           /\ HeldBecomes(r, hands)
           /\ UNCHANGED <<site, snapshots, profiles, bought, handed>>
           /\ hands.vision = held[r].vision /\ hands.snapshot = held[r].snapshot
           /\ \/ new.pc = "fuse" /\ hands = held[r]
              \/ new.pc = "renew" /\ hands.facts = held[r].snapshot.facts
              \/ /\ new.pc \in {"save", "extract"} /\ n # held[r].snapshot.content
                 /\ hands.facts = Extracted(new.account, n) /\ hands.content = n
<1>1. req[r].op = "profile" /\ req[r].pc = "fetch"
  BY DEF FetchPage, Doing
<1>2. UNCHANGED <<site, snapshots, profiles, bought, handed>>
  BY DEF FetchPage
<1>3. ASSUME NEW pc \in {"fuse", "renew", "save", "extract"}, Goto(r, pc)
      PROVE  \E new : GoesOnFor(r, new) /\ new.pc = pc
  BY <1>1, <1>3, ProfileGoesOn DEF GroundedInv, ProfilePcs, Over
<1>4. PICK page, n : page = req[r].account /\ n = site[page] /\ page \in Pages
  BY <1>1, Holding DEF AtPage
<1>5. CASE Goto(r, "fuse") /\ UNCHANGED held
  <2>1. PICK new : GoesOnFor(r, new) /\ new.pc = "fuse"
    BY <1>3, <1>5
  <2>2. HeldBecomes(r, held[r])
    BY <1>5 DEF HeldBecomes, GroundedInv, ProductShape
  <2>3. new.account = page
    BY <1>4, <2>1 DEF GoesOnFor
  <2> QED BY <1>1, <1>2, <1>4, <2>1, <2>2, <2>3
<1>6. CASE Goto(r, "renew") /\ held' = [held EXCEPT ![r].facts = held[r].snapshot.facts]
  <2>1. PICK new : GoesOnFor(r, new) /\ new.pc = "renew"
    BY <1>3, <1>6
  <2>2. PICK f : f = held[r].snapshot.facts
    OBVIOUS
  <2>3. held' = [held EXCEPT ![r].facts = f]
    BY <1>6, <2>2, Zenon
  <2>4. PICK hands : hands = [held[r] EXCEPT !.facts = f]
    OBVIOUS
  <2>5. hands = [vision |-> held[r].vision, facts |-> f, content |-> held[r].content,
                 snapshot |-> held[r].snapshot, cached |-> held[r].cached]
    BY <2>4, HandsAre DEF GroundedInv
  <2>6. held' = [held EXCEPT ![r] = hands]
    BY <2>3, <2>4 DEF GroundedInv, ProductShape
  <2>7. HeldBecomes(r, hands)
    BY <2>5, <2>6 DEF HeldBecomes
  <2>8. hands.vision = held[r].vision /\ hands.snapshot = held[r].snapshot /\ hands.facts = f
    BY <2>5
  <2>9. new.account = page
    BY <1>4, <2>1 DEF GoesOnFor
  <2> QED BY <1>1, <1>2, <1>4, <2>1, <2>2, <2>7, <2>8, <2>9
<1>7. CASE /\ n # held[r].snapshot.content
           /\ held' = [held EXCEPT ![r].facts = Extracted(page, n), ![r].content = n]
           /\ Goto(r, IF Contents[n] \in Rich THEN "save" ELSE "extract")
  <2>1. PICK pc \in {"save", "extract"} : Goto(r, pc)
    BY <1>7
  <2>2. PICK new : GoesOnFor(r, new) /\ new.pc = pc
    BY <1>3, <2>1
  <2>3. PICK f : f = Extracted(page, n)
    OBVIOUS
  <2>4. held' = [held EXCEPT ![r].facts = f, ![r].content = n]
    BY <1>7, <2>3, Zenon
  <2>5. PICK hands : hands = [held[r] EXCEPT !.facts = f, !.content = n]
    OBVIOUS
  <2>6. hands = [vision |-> held[r].vision, facts |-> f, content |-> n,
                 snapshot |-> held[r].snapshot, cached |-> held[r].cached]
    BY <2>5, HandsAre DEF GroundedInv
  <2>7. held' = [held EXCEPT ![r] = hands]
    BY <2>4, <2>5 DEF GroundedInv, ProductShape
  <2>8. HeldBecomes(r, hands)
    BY <2>6, <2>7 DEF HeldBecomes
  <2>9. /\ hands.vision = held[r].vision /\ hands.snapshot = held[r].snapshot
        /\ hands.facts = f /\ hands.content = n
    BY <2>6
  <2>10. new.account = page
    BY <1>4, <2>2 DEF GoesOnFor
  <2> QED BY <1>1, <1>2, <1>4, <1>7, <2>2, <2>3, <2>8, <2>9, <2>10
<1> QED BY <1>4, <1>5, <1>6, <1>7 DEF FetchPage

LEMMA FetchPageGrounded ==
  ASSUME GroundedInv, NEW r \in Requests, FetchPage(r)
  PROVE  GroundedInv'
<1>1. PICK new, hands, n :
           /\ GoesOnFor(r, new) /\ req[r].op = "profile" /\ req[r].pc = "fetch"
           /\ new.account \in Pages /\ n = site[new.account]
           /\ HeldBecomes(r, hands)
           /\ UNCHANGED <<site, snapshots, profiles, bought, handed>>
           /\ hands.vision = held[r].vision /\ hands.snapshot = held[r].snapshot
           /\ \/ new.pc = "fuse" /\ hands = held[r]
              \/ new.pc = "renew" /\ hands.facts = held[r].snapshot.facts
              \/ /\ new.pc \in {"save", "extract"} /\ n # held[r].snapshot.content
                 /\ hands.facts = Extracted(new.account, n) /\ hands.content = n
  BY FetchPageMoves
<1>2. /\ FoundOn(held[r].facts, req[r].account) /\ FoundOn(held[r].snapshot.facts, req[r].account)
      /\ IsReading(held[r].vision) /\ new.account = req[r].account
  BY <1>1, Holding DEF GoesOnFor
<1>3. FoundOn(Extracted(new.account, n), new.account) /\ Extracted(new.account, n).of = new.account
  <2>1. new.account # NoPage /\ new.account \in Alike(new.account)
    BY <1>1, AlikeFound
  <2>2. PICK f : f = Extracted(new.account, n)
    OBVIOUS
  <2>3. PICK brand, claims :
          f = [brand |-> brand, claims |-> claims, of |-> new.account, content |-> n]
    BY <2>2 DEF Extracted
  <2>4. IsFacts(f) /\ f.of = new.account
    BY <2>3 DEF IsFacts
  <2> QED BY <2>1, <2>2, <2>4 DEF FoundOn
<1>4. /\ FoundOn(hands.facts, new.account) /\ FoundOn(hands.snapshot.facts, new.account)
      /\ IsReading(hands.vision) /\ (new.pc = "extract" => hands.facts.of = new.account)
  BY <1>1, <1>2, <1>3
<1>5. bought' = [s \in Requests |-> bought'[s]]
  BY <1>1 DEF GroundedInv, ProductShape
<1>6. req[r].pc \notin Over
  BY <1>1 DEF Over
<1> QED BY <1>1, <1>4, <1>5, <1>6, HeldGrounded

LEMMA MergedIs ==
  ASSUME NEW f, IsFacts(f), NEW brand
  PROVE  LET m == Merged(f, brand) IN IsFacts(m) /\ m.of = f.of
<1>1. PICK h1, h2, h3, h4 : f = [brand |-> h1, claims |-> h2, of |-> h3, content |-> h4]
  BY DEF IsFacts
<1>2. PICK b, c : /\ b = (IF f.brand = Unnamed THEN brand ELSE f.brand)
                  /\ c = f.claims \cup ({brand} \ {Unnamed})
  OBVIOUS
<1>3. Merged(f, brand) = [f EXCEPT !.brand = b, !.claims = c]
  BY <1>1, <1>2 DEF Merged
<1>4. PICK g : g = [brand |-> b, claims |-> h2, of |-> h3, content |-> h4]
  OBVIOUS
<1>5. [f EXCEPT !.brand = b] = g
  BY <1>1, <1>4
<1>6. [g EXCEPT !.claims = c] = [brand |-> b, claims |-> c, of |-> h3, content |-> h4]
  BY <1>4
<1>7. [f EXCEPT !.brand = b, !.claims = c] =
        [brand |-> b, claims |-> c, of |-> h3, content |-> h4]
  BY <1>5, <1>6, Zenon
<1>8. PICK m : m = Merged(f, brand)
  OBVIOUS
<1>9. m = [brand |-> b, claims |-> c, of |-> h3, content |-> h4]
  BY <1>3, <1>7, <1>8, Zenon
<1>10. IsFacts(m) /\ m.of = f.of
  BY <1>1, <1>9 DEF IsFacts
<1> QED BY <1>8, <1>10

LEMMA ExtractFactsMoves ==
  ASSUME GroundedInv, NEW r \in Requests, ExtractFacts(r)
  PROVE  \E new, hands :
           /\ GoesOnFor(r, new) /\ req[r].op = "profile" /\ req[r].pc = "extract"
           /\ HeldBecomes(r, hands)
           /\ Buys(r, [of |-> req[r].account, content |-> held[r].content])
           /\ UNCHANGED <<site, snapshots, profiles, handed>>
           /\ new.pc \in {"extract", "save"}
           /\ hands.vision = held[r].vision /\ hands.content = held[r].content
           /\ hands.snapshot = held[r].snapshot
           /\ FoundOn(hands.facts, req[r].account) /\ hands.facts.of = req[r].account
<1>1. req[r].op = "profile" /\ req[r].pc = "extract"
  BY DEF ExtractFacts, Doing
<1>2. /\ Buys(r, [of |-> req[r].account, content |-> held[r].content])
      /\ UNCHANGED <<site, snapshots, profiles, handed>>
  BY DEF ExtractFacts
<1>3. FoundOn(held[r].facts, req[r].account) /\ held[r].facts.of = req[r].account
  BY <1>1, Holding
<1>4. IsRequest(req[r]) /\ PlacedInv
  BY DEF GroundedInv, PlacedInv, RequestsInv
<1>5. req[r].account # NoPage
  BY <1>1, Holding, ProductAssumption DEF AtPage
<1>6. ASSUME NEW x, Becomes(r, x), NEW pc \in {"extract", "save"}, NEW level,
             x = [req[r] EXCEPT !.pc = pc, !.level = level]
      PROVE  GoesOnFor(r, x) /\ x.pc = pc
  <2>1. /\ IsRequest(x) /\ x.pc = pc /\ x.op = "profile"
        /\ x.account = req[r].account /\ x.user = req[r].user
    BY <1>1, <1>4, <1>6 DEF IsRequest
  <2>2. Fits(x.op, x.pc)
    BY <2>1 DEF Fits, Learning
  <2>3. Moves(r, x) /\ Placed(x)
    BY <1>1, <1>4, <1>6, <2>1, <2>2, BecomesMoves DEF Over
  <2> QED BY <2>1, <2>3 DEF GoesOnFor
<1>7. ASSUME NEW brand, held' = [held EXCEPT ![r].facts = Merged(@, brand)],
             Becomes(r, [req[r] EXCEPT !.pc = "save", !.level = 0])
      PROVE  \E new, hands :
           /\ GoesOnFor(r, new) /\ HeldBecomes(r, hands) /\ new.pc \in {"extract", "save"}
           /\ hands.vision = held[r].vision /\ hands.content = held[r].content
           /\ hands.snapshot = held[r].snapshot
           /\ FoundOn(hands.facts, req[r].account) /\ hands.facts.of = req[r].account
  <2>1. PICK new : new = [req[r] EXCEPT !.pc = "save", !.level = 0]
    OBVIOUS
  <2>2. GoesOnFor(r, new) /\ new.pc = "save"
    BY <1>6, <1>7, <2>1
  <2>3. PICK f : f = Merged(held[r].facts, brand)
    OBVIOUS
  <2>4. FoundOn(f, req[r].account) /\ f.of = req[r].account
    BY <1>3, <1>5, <2>3, MergedIs DEF FoundOn
  <2>5. held' = [held EXCEPT ![r].facts = f]
    BY <1>7, <2>3 DEF GroundedInv, ProductShape
  <2>6. PICK hands : hands = [held[r] EXCEPT !.facts = f]
    OBVIOUS
  <2>7. hands = [vision |-> held[r].vision, facts |-> f, content |-> held[r].content,
                 snapshot |-> held[r].snapshot, cached |-> held[r].cached]
    BY <2>6, HandsAre DEF GroundedInv
  <2>8. held' = [held EXCEPT ![r] = hands]
    BY <2>5, <2>6 DEF GroundedInv, ProductShape
  <2>9. HeldBecomes(r, hands)
    BY <2>7, <2>8 DEF HeldBecomes
  <2>10. /\ hands.vision = held[r].vision /\ hands.content = held[r].content
         /\ hands.snapshot = held[r].snapshot /\ hands.facts = f
    BY <2>7
  <2> QED BY <2>2, <2>4, <2>9, <2>10
<1>8. ASSUME UNCHANGED held, NEW pc \in {"extract", "save"},
             Becomes(r, [req[r] EXCEPT !.pc = pc, !.level = 1 - @])
      PROVE  \E new, hands :
           /\ GoesOnFor(r, new) /\ HeldBecomes(r, hands) /\ new.pc \in {"extract", "save"}
           /\ hands.vision = held[r].vision /\ hands.content = held[r].content
           /\ hands.snapshot = held[r].snapshot
           /\ FoundOn(hands.facts, req[r].account) /\ hands.facts.of = req[r].account
  <2>1. PICK level : level = 1 - req[r].level
    OBVIOUS
  <2>2. PICK new : new = [req[r] EXCEPT !.pc = pc, !.level = level]
    OBVIOUS
  <2>3. Becomes(r, new)
    BY <1>4, <1>8, <2>1, <2>2 DEF IsRequest
  <2>4. GoesOnFor(r, new) /\ new.pc = pc
    BY <1>6, <2>2, <2>3
  <2>5. HeldBecomes(r, held[r])
    BY <1>8 DEF HeldBecomes, GroundedInv, ProductShape
  <2> QED BY <1>3, <1>8, <2>4, <2>5
<1>9. \/ \E brand : /\ held' = [held EXCEPT ![r].facts = Merged(@, brand)]
                    /\ Becomes(r, [req[r] EXCEPT !.pc = "save", !.level = 0])
      \/ UNCHANGED held /\ \E pc \in {"extract", "save"} :
           Becomes(r, [req[r] EXCEPT !.pc = pc, !.level = 1 - @])
  BY DEF ExtractFacts
<1>10. PICK new, hands :
           /\ GoesOnFor(r, new) /\ HeldBecomes(r, hands) /\ new.pc \in {"extract", "save"}
           /\ hands.vision = held[r].vision /\ hands.content = held[r].content
           /\ hands.snapshot = held[r].snapshot
           /\ FoundOn(hands.facts, req[r].account) /\ hands.facts.of = req[r].account
  BY <1>7, <1>8, <1>9
<1> QED BY <1>1, <1>2, <1>10

LEMMA ExtractFactsGrounded ==
  ASSUME GroundedInv, NEW r \in Requests, ExtractFacts(r)
  PROVE  GroundedInv'
<1>1. PICK new, hands :
           /\ GoesOnFor(r, new) /\ req[r].op = "profile" /\ req[r].pc = "extract"
           /\ HeldBecomes(r, hands)
           /\ Buys(r, [of |-> req[r].account, content |-> held[r].content])
           /\ UNCHANGED <<site, snapshots, profiles, handed>>
           /\ new.pc \in {"extract", "save"}
           /\ hands.vision = held[r].vision /\ hands.content = held[r].content
           /\ hands.snapshot = held[r].snapshot
           /\ FoundOn(hands.facts, req[r].account) /\ hands.facts.of = req[r].account
  BY ExtractFactsMoves
<1>2. /\ FoundOn(held[r].snapshot.facts, req[r].account) /\ req[r].account \in Pages
      /\ IsReading(held[r].vision) /\ new.account = req[r].account
  BY <1>1, Holding DEF GoesOnFor, AtPage
<1>3. bought' = [s \in Requests |-> bought'[s]]
  BY <1>1, BoughtIs DEF GroundedInv
<1>4. req[r].pc \notin Over
  BY <1>1 DEF Over
<1> QED BY <1>1, <1>2, <1>3, <1>4, HeldGrounded

LEMMA FreshIs ==
  ASSUME ProductShape, NEW url \in NormalUrls, NEW fresh
  PROVE  \E row : /\ row = [snapshots[url] EXCEPT !.fresh = fresh]
                  /\ row = [content |-> row.content, facts |-> row.facts, fresh |-> row.fresh]
                  /\ row.content = snapshots[url].content /\ row.facts = snapshots[url].facts
<1>1. PICK h1, h2, h3 : snapshots[url] = [content |-> h1, facts |-> h2, fresh |-> h3]
  BY DEF ProductShape
<1>2. PICK old : old = snapshots[url]
  OBVIOUS
<1>3. old = [content |-> h1, facts |-> h2, fresh |-> h3]
  BY <1>1, <1>2
<1>4. PICK row : row = [content |-> h1, facts |-> h2, fresh |-> fresh]
  OBVIOUS
<1>5. [old EXCEPT !.fresh = fresh] = row
  BY <1>3, <1>4
<1>6. row.content = old.content /\ row.facts = old.facts
  BY <1>3, <1>4
<1>7. row = [content |-> row.content, facts |-> row.facts, fresh |-> row.fresh]
  BY <1>4
<1> QED BY <1>2, <1>5, <1>6, <1>7

\* A step at the snapshot of the page of r.
SnapshotBecomes(r, new) ==
  /\ GoesOnFor(r, new) /\ new.pc = "fuse"
  /\ req[r].op = "profile" /\ req[r].account \in Pages
  /\ UNCHANGED <<site, profiles, held, bought, handed>>
  /\ snapshots' = [url \in NormalUrls |-> snapshots'[url]]
  /\ \A url \in NormalUrls :
       /\ snapshots'[url] = [content |-> snapshots'[url].content,
                              facts |-> snapshots'[url].facts,
                              fresh |-> snapshots'[url].fresh]
       /\ \/ /\ snapshots'[url].facts = snapshots[url].facts
             /\ snapshots'[url].content = snapshots[url].content
          \/ /\ req[r].pc = "save" /\ url = NormalUrl[req[r].account]
             /\ snapshots'[url].facts = held[r].facts
             /\ snapshots'[url].content = held[r].content
  /\ req[r].pc \in {"save", "renew"}
  /\ req[r].pc = "save" =>
       snapshots'[NormalUrl[req[r].account]].content = held[r].content

LEMMA SnapshotMoves ==
  ASSUME GroundedInv, NEW r \in Requests, StoreSnapshot(r) \/ RenewSnapshot(r)
  PROVE  \E new : SnapshotBecomes(r, new)
<1>1. /\ req[r].op = "profile" /\ req[r].pc \in {"save", "renew"} /\ Goto(r, "fuse")
      /\ UNCHANGED <<site, profiles, held, bought, handed>>
  BY DEF StoreSnapshot, RenewSnapshot, Doing
<1>2. PICK new : GoesOnFor(r, new) /\ new.pc = "fuse"
  BY <1>1, ProfileGoesOn DEF GroundedInv, ProfilePcs, Over
<1>3. req[r].account \in Pages /\ NormalUrl[req[r].account] \in NormalUrls
  BY <1>1, Holding, AlikeFound DEF AtPage
<1>4. PICK at, row :
        /\ at = NormalUrl[req[r].account] /\ at \in NormalUrls /\ snapshots' = [snapshots EXCEPT ![at] = row]
        /\ row = [content |-> row.content, facts |-> row.facts, fresh |-> row.fresh]
        /\ \/ /\ req[r].pc = "renew" /\ row.facts = snapshots[at].facts
              /\ row.content = snapshots[at].content
           \/ /\ req[r].pc = "save" /\ row.facts = held[r].facts
              /\ row.content = held[r].content
  <2>1. CASE StoreSnapshot(r)
    <3>1. PICK row : row = [content |-> held[r].content, facts |-> held[r].facts, fresh |-> TRUE]
      OBVIOUS
    <3>2. snapshots' = [snapshots EXCEPT ![NormalUrl[req[r].account]] = row] /\ req[r].pc = "save"
      BY <2>1, <3>1 DEF StoreSnapshot, Doing
    <3>3. /\ row = [content |-> row.content, facts |-> row.facts, fresh |-> row.fresh]
          /\ row.facts = held[r].facts /\ row.content = held[r].content
      BY <3>1
    <3> QED BY <1>3, <3>2, <3>3
  <2>2. CASE RenewSnapshot(r)
    <3>1. PICK row :
            /\ row = [snapshots[NormalUrl[req[r].account]] EXCEPT !.fresh = TRUE]
            /\ row = [content |-> row.content, facts |-> row.facts, fresh |-> row.fresh]
            /\ row.content = snapshots[NormalUrl[req[r].account]].content
            /\ row.facts = snapshots[NormalUrl[req[r].account]].facts
      BY <1>3, FreshIs DEF GroundedInv
    <3>2. snapshots' = [snapshots EXCEPT ![NormalUrl[req[r].account]] = row] /\ req[r].pc = "renew"
      BY <1>3, <2>2, <3>1 DEF RenewSnapshot, Doing, GroundedInv, ProductShape
    <3> QED BY <1>3, <3>1, <3>2
  <2> QED BY <2>1, <2>2
<1>5. /\ snapshots' = [url \in NormalUrls |-> snapshots'[url]]
      /\ \A url \in NormalUrls : snapshots'[url] = IF url = at THEN row ELSE snapshots[url]
  BY <1>3, <1>4 DEF GroundedInv, ProductShape
<1>6. ASSUME NEW url \in NormalUrls
      PROVE  /\ snapshots'[url] = [content |-> snapshots'[url].content,
                                    facts |-> snapshots'[url].facts,
                                    fresh |-> snapshots'[url].fresh]
             /\ \/ /\ snapshots'[url].facts = snapshots[url].facts
                   /\ snapshots'[url].content = snapshots[url].content
                \/ /\ req[r].pc = "save" /\ url = NormalUrl[req[r].account]
                   /\ snapshots'[url].facts = held[r].facts
                   /\ snapshots'[url].content = held[r].content
  <2>1. CASE url = at
    <3>1. snapshots'[url] = row
      BY <1>5, <2>1
    <3> QED BY <1>4, <2>1, <3>1
  <2>2. CASE url # at
    <3>1. snapshots'[url] = snapshots[url]
      BY <1>5, <2>2
    <3> QED BY <3>1 DEF GroundedInv, ProductShape
  <2> QED BY <2>1, <2>2
<1>7. req[r].pc = "save" => snapshots'[NormalUrl[req[r].account]].content = held[r].content
  BY <1>3, <1>4, <1>5
<1> QED BY <1>1, <1>2, <1>3, <1>5, <1>6, <1>7 DEF SnapshotBecomes

LEMMA SnapshotGrounded ==
  ASSUME GroundedInv, NEW r \in Requests, StoreSnapshot(r) \/ RenewSnapshot(r)
  PROVE  GroundedInv'
<1>1. PICK new :
           /\ GoesOnFor(r, new) /\ new.pc = "fuse"
           /\ req[r].op = "profile" /\ req[r].pc \in {"save", "renew"}
           /\ UNCHANGED <<site, profiles, held, bought, handed>>
           /\ snapshots' = [url \in NormalUrls |-> snapshots'[url]]
           /\ \A url \in NormalUrls :
                /\ snapshots'[url] = [content |-> snapshots'[url].content,
                                       facts |-> snapshots'[url].facts,
                                       fresh |-> snapshots'[url].fresh]
                /\ \/ snapshots'[url].facts = snapshots[url].facts
                   \/ url = NormalUrl[req[r].account] /\ snapshots'[url].facts = held[r].facts
  BY SnapshotMoves DEF SnapshotBecomes
<1>2. req[r].pc \notin Over /\ new.pc \notin AtPage
  BY <1>1 DEF Over, AtPage
<1> QED BY <1>1, <1>2, OnlyGoesOnGrounded

LEMMA WriteProfileMoves ==
  ASSUME GroundedInv, NEW r \in Requests, WriteProfile(r)
  PROVE  \E new :
           /\ GoesOnFor(r, new) /\ req[r].op = "profile" /\ req[r].pc = "fuse"
           /\ HeldBecomes(r, NothingHeld) /\ UNCHANGED <<site, snapshots, bought>>
           /\ req[r].user \in Images
           /\ \/ /\ new.pc = "done" /\ Hand(r, Fused(r))
                 /\ profiles' = [profiles EXCEPT ![req[r].user] = Fused(r)]
              \/ new.pc = "refused" /\ UNCHANGED <<profiles, handed>>
<1>1. /\ req[r].op = "profile" /\ req[r].pc = "fuse"
      /\ UNCHANGED <<site, snapshots, bought>>
  BY DEF WriteProfile, Doing
<1>2. ASSUME NEW pc \in {"done", "refused"}, Goto(r, pc)
      PROVE  \E new : GoesOnFor(r, new) /\ new.pc = pc
  BY <1>1, <1>2, ProfileGoesOn DEF GroundedInv, ProfilePcs, Over
<1>3. HeldBecomes(r, NothingHeld)
  BY DEF WriteProfile, HeldBecomes, NothingHeld
<1>4. req[r].user \in Images
  BY <1>1, Holding DEF Over
<1>5. \/ /\ Goto(r, "done") /\ Hand(r, Fused(r))
         /\ profiles' = [profiles EXCEPT ![req[r].user] = Fused(r)]
      \/ Goto(r, "refused") /\ UNCHANGED <<profiles, handed>>
  BY DEF WriteProfile
<1> QED BY <1>1, <1>2, <1>3, <1>4, <1>5

LEMMA FusedIs ==
  ASSUME GroundedInv, NEW r \in Requests, req[r].op = "profile"
  PROVE  /\ GroundedRow(Fused(r)) /\ Fused(r).known /\ Fused(r).url = req[r].account
         /\ IsReading(Fused(r).vision)
<1>1. PICK v, f, b, c, u : /\ v = held[r].vision /\ f = held[r].facts /\ b = v.brand /\ c = Resolved(v, f)
                        /\ u = Unresolved(v, f)
  OBVIOUS
<1>2. PICK row : row = Fused(r)
  OBVIOUS
<1>3. row = [known |-> TRUE, url |-> req[r].account, vision |-> v, facts |-> f, brand |-> b,
             fact |-> c, unresolved |-> u]
  BY <1>1, <1>2 DEF Fused
<1>4. /\ row.known /\ row.url = req[r].account /\ row.vision = v /\ row.facts = f
      /\ row.brand = b /\ row.fact = c /\ row.unresolved = u
  BY <1>3
<1>5. FoundOn(f, req[r].account) /\ IsReading(v)
  BY <1>1, Holding
<1> QED BY <1>1, <1>2, <1>4, <1>5 DEF GroundedRow

LEMMA WriteProfileGrounded ==
  ASSUME GroundedInv, NEW r \in Requests, WriteProfile(r)
  PROVE  GroundedInv'
<1>1. PICK new :
           /\ GoesOnFor(r, new) /\ req[r].op = "profile" /\ req[r].pc = "fuse"
           /\ HeldBecomes(r, NothingHeld) /\ UNCHANGED <<site, snapshots, bought>>
           /\ req[r].user \in Images
           /\ \/ /\ new.pc = "done" /\ Hand(r, Fused(r))
                 /\ profiles' = [profiles EXCEPT ![req[r].user] = Fused(r)]
              \/ new.pc = "refused" /\ UNCHANGED <<profiles, handed>>
  BY WriteProfileMoves
<1>2. CASE new.pc = "refused" /\ UNCHANGED <<profiles, handed>>
  <2>1. bought' = [s \in Requests |-> bought'[s]]
    BY <1>1 DEF GroundedInv, ProductShape
  <2>2. new.pc \notin AtPage \cup {"extract"} /\ req[r].pc \notin Over
    BY <1>1, <1>2 DEF AtPage, Over
  <2> QED BY <1>1, <1>2, <2>1, <2>2, NothingHeldIs, HeldGrounded
<1>3. CASE /\ new.pc = "done" /\ Hand(r, Fused(r))
           /\ profiles' = [profiles EXCEPT ![req[r].user] = Fused(r)]
  <2>1. PICK row : row = Fused(r)
    OBVIOUS
  <2>2. GroundedRow(row) /\ row.known /\ row.url = req[r].account /\ IsReading(row.vision)
    BY <1>1, <2>1, FusedIs
  <2>3. OnlyHeld(r, NothingHeld)
    BY <1>1, HeldIs DEF GroundedInv
  <2>4. /\ handed'[r] = row
        /\ \A s \in Requests : s # r => handed'[s] = handed[s]
        /\ handed' = [s \in Requests |-> handed'[s]]
    BY <1>3, <2>1, HandIs DEF GroundedInv
  <2>5. /\ profiles' = [image \in Images |-> profiles'[image]]
        /\ \A image \in Images : profiles'[image] \in {row, profiles[image]}
    BY <1>3, <2>1 DEF GroundedInv, ProductShape
  <2>6. ProductShape'
    BY <1>1, <2>3, <2>4, <2>5 DEF GroundedInv, ProductShape, OnlyHeld
  <2>7. PagesGrounded'
    BY <1>1 DEF GroundedInv, PagesGrounded
  <2>8. ImagesGrounded'
    BY <2>2, <2>5 DEF GroundedInv, ImagesGrounded
  <2>9. req[r].account = new.account /\ new.op = "profile" /\ new.account \in Pages \cup {NoPage}
    BY <1>1, Holding DEF GoesOnFor
  <2>10. HoldsOwn(r, new)'
    BY <1>3, <2>3, <2>9, NothingHeldIs DEF HoldsOwn, AtPage, Over, OnlyHeld
  <2>11. GivenOwn(r, new)'
    BY <1>3, <2>2, <2>4, <2>9 DEF GivenOwn
  <2>12. \A s \in Requests : s # r => held'[s] = held[s] /\ handed'[s] = handed[s]
    BY <2>3, <2>4 DEF OnlyHeld
  <2> QED BY <1>1, <2>6, <2>7, <2>8, <2>10, <2>11, <2>12, GroundedStep DEF GoesOnFor
<1> QED BY <1>1, <1>2, <1>3

\* What is done to the pages meanwhile.
LEMMA PagesMove ==
  ASSUME GroundedInv, SnapshotExpires \/ PageChanges
  PROVE  /\ UNCHANGED <<requestVars, profiles, held, bought, handed>> /\ ProductShape'
         /\ \A url \in NormalUrls : /\ snapshots'[url].facts = snapshots[url].facts
                                    /\ snapshots'[url].content = snapshots[url].content
         /\ \A page \in Pages : site'[page] = site[page] \/ site'[page] = site[page] + 1
<1>1. UNCHANGED <<requestVars, profiles, held, bought, handed>>
  BY DEF SnapshotExpires, PageChanges
<1>2. CASE SnapshotExpires
  <2>1. PICK at \in NormalUrls : snapshots' = [snapshots EXCEPT ![at].fresh = FALSE]
    BY <1>2 DEF SnapshotExpires
  <2>2. site' = site
    BY <1>2 DEF SnapshotExpires
  <2>3. PICK row :
          /\ row = [snapshots[at] EXCEPT !.fresh = FALSE]
          /\ row = [content |-> row.content, facts |-> row.facts, fresh |-> row.fresh]
          /\ row.content = snapshots[at].content /\ row.facts = snapshots[at].facts
    BY FreshIs DEF GroundedInv
  <2>4. snapshots' = [snapshots EXCEPT ![at] = row]
    BY <2>1, <2>3 DEF GroundedInv, ProductShape
  <2>5. /\ snapshots' = [url \in NormalUrls |-> snapshots'[url]]
        /\ \A url \in NormalUrls : snapshots'[url] = IF url = at THEN row ELSE snapshots[url]
    BY <2>4 DEF GroundedInv, ProductShape
  <2>6. ASSUME NEW url \in NormalUrls
        PROVE  /\ snapshots'[url] = [content |-> snapshots'[url].content,
                                      facts |-> snapshots'[url].facts,
                                      fresh |-> snapshots'[url].fresh]
               /\ snapshots'[url].facts = snapshots[url].facts
               /\ snapshots'[url].content = snapshots[url].content
    <3>1. CASE url = at
      <4>1. snapshots'[url] = row
        BY <2>5, <3>1
      <4> QED BY <2>3, <3>1, <4>1
    <3>2. CASE url # at
      <4>1. snapshots'[url] = snapshots[url]
        BY <2>5, <3>2
      <4> QED BY <4>1 DEF GroundedInv, ProductShape
    <3> QED BY <3>1, <3>2
  <2>7. ProductShape'
    BY <1>1, <2>2, <2>5, <2>6 DEF GroundedInv, ProductShape
  <2> QED BY <1>1, <2>2, <2>6, <2>7
<1>3. CASE PageChanges
  <2>1. PICK at \in Pages : site' = [site EXCEPT ![at] = @ + 1]
    BY <1>3 DEF PageChanges
  <2>2. snapshots' = snapshots
    BY <1>3 DEF PageChanges
  <2>3. /\ site' = [page \in Pages |-> site'[page]]
        /\ \A page \in Pages : site'[page] = site[page] \/ site'[page] = site[page] + 1
    BY <2>1 DEF GroundedInv, ProductShape
  <2>4. ProductShape'
    BY <1>1, <2>2, <2>3 DEF GroundedInv, ProductShape
  <2> QED BY <1>1, <2>2, <2>3, <2>4
<1> QED BY <1>2, <1>3

LEMMA PagesMoveGrounded ==
  ASSUME GroundedInv, SnapshotExpires \/ PageChanges
  PROVE  GroundedInv'
<1>1. /\ UNCHANGED <<requestVars, profiles, held, handed>> /\ ProductShape'
      /\ \A url \in NormalUrls : snapshots'[url].facts = snapshots[url].facts
  BY PagesMove
<1>2. PagesGrounded'
  BY <1>1, AlikeFound DEF GroundedInv, PagesGrounded
<1> QED BY <1>1, <1>2, GroundedRest

LEMMA GroundedNext ==
  ASSUME GroundedInv, [Next]_vars
  PROVE  GroundedInv'
<1>1. ASSUME UNCHANGED productVars, NEW r \in Requests,
             NEW ops, Act(r, ops), "profile" \notin ops
      PROVE  GroundedInv'
  <2>1. PICK new : Moves(r, new) /\ Placed(new) /\ new.op \in ops
    BY <1>1 DEF Act
  <2> QED BY <1>1, <2>1, GroundedElsewhere
<1>2. /\ "profile" \notin MemoryOps \cup {"edit"} /\ "profile" \notin StudioOps
      /\ "profile" \notin OptimizerOps /\ "profile" \notin ReviewOps
  BY DEF MemoryOps, StudioOps, OptimizerOps, ReviewOps
<1>3. ASSUME UNCHANGED <<requestVars, productVars>>
      PROVE  GroundedInv'
  <2>1. UNCHANGED <<site, snapshots, profiles, held, bought, handed>>
    BY <1>3 DEF productVars
  <2>2. ProductShape' /\ PagesGrounded'
    BY <2>1 DEF GroundedInv, ProductShape, PagesGrounded
  <2> QED BY <1>3, <2>1, <2>2, GroundedRest
<1>4. CASE MemoryStep /\ UNCHANGED productVars
  <2>1. PICK r \in Requests : Learns(r)
    BY <1>4, MemoryLearns DEF GroundedInv
  <2>2. Act(r, MemoryOps \cup {"edit"})
    BY <2>1 DEF Learns, Act
  <2> QED BY <1>1, <1>2, <1>4, <2>2
<1>5. CASE StudioStep /\ UNCHANGED productVars
  BY <1>1, <1>2, <1>5, StudioActs DEF GroundedInv
<1>6. CASE OptimizerStep /\ UNCHANGED productVars
  <2>1. CASE UNCHANGED requestVars
    BY <1>3, <1>6, <2>1
  <2> QED BY <1>1, <1>2, <1>6, <2>1, OptimizerActs DEF GroundedInv
<1>7. CASE ModerationStep /\ UNCHANGED productVars
  BY <1>1, <1>2, <1>7, ReviewActs DEF GroundedInv
<1>8. CASE ProductStep
  BY <1>8, BuildProfileGrounded, AnalyzeImageGrounded, IdentifyGrounded, ProfileFailsGrounded,
     LookUpSnapshotGrounded, FetchPageGrounded, ExtractFactsGrounded, SnapshotGrounded,
     WriteProfileGrounded, PagesMoveGrounded DEF ProductStep
<1>9. CASE UNCHANGED vars
  BY <1>3, <1>9 DEF vars
<1> QED BY <1>4, <1>5, <1>6, <1>7, <1>8, <1>9 DEF Next

LEMMA GroundedInit == Init => GroundedInv
<1> SUFFICES ASSUME Init PROVE GroundedInv
  OBVIOUS
<1>1. PlacedInv /\ \A r \in Requests : req[r].pc = "new" /\ req[r].op = "none"
  BY PlacedInit DEF Init
<1>2. /\ site = [page \in Pages |-> 1] /\ snapshots = [url \in NormalUrls |-> NoSnapshot]
      /\ profiles = [image \in Images |-> NoProfile]
      /\ held = [r \in Requests |-> NothingHeld] /\ bought = [r \in Requests |-> {}]
      /\ handed = [r \in Requests |-> NoProfile]
  BY DEF Init, ProductInit
<1>3. ProductShape
  BY <1>2 DEF ProductShape, NoSnapshot, NothingHeld
<1>4. PagesGrounded
  BY <1>2, NothingIsFound, AlikeFound DEF PagesGrounded, NoSnapshot
<1>5. ImagesGrounded
  BY <1>2 DEF ImagesGrounded, NoProfile, IsReading
<1>6. \A r \in Requests : HoldsOwn(r, req[r]) /\ GivenOwn(r, req[r])
  BY <1>1, <1>2 DEF HoldsOwn, GivenOwn, NoProfile
<1> QED BY <1>1, <1>3, <1>4, <1>5, <1>6 DEF GroundedInv

LEMMA GroundedGives == GroundedInv => ProfilesAreGrounded
<1> SUFFICES ASSUME GroundedInv, NEW r \in Requests, handed[r].known
             PROVE  LET row == handed[r]
                        page == IF row.facts.of = NoPage THEN {}
                                ELSE {row.facts.brand} \cup row.facts.claims
                    IN
                    /\ row.url = req[r].account
                    /\ row.facts.of \in Alike(row.url) \cup {NoPage}
                    /\ row.fact # Unnamed =>
                         /\ row.fact \in {row.vision.brand} \cup page
                         /\ \A other \in {row.vision.brand, row.facts.brand} \ {row.fact, Unnamed} :
                              Gap(row.vision) >= TIE_CONFIDENCE_MARGIN
                    /\ row.brand # Unnamed =>
                         /\ row.brand = row.vision.brand
                         /\ row.facts.brand \notin {Unnamed, row.brand} =>
                              row.unresolved \/ row.fact = row.facts.brand
  BY DEF ProfilesAreGrounded
<1>1. PICK row : row = handed[r]
  OBVIOUS
<1>2. GroundedRow(row) /\ row.url = req[r].account
  BY <1>1 DEF GroundedInv, GivenOwn
<1>3. /\ row.facts.of \in Alike(row.url) \cup {NoPage}
      /\ row.facts.of = NoPage => row.facts.brand = Unnamed
  BY <1>2 DEF GroundedRow, FoundOn
<1>4. Gap(row.vision) \in Int
  <2>1. PICK reading : reading = row.vision
    OBVIOUS
  <2>2. reading \in Readings \/ reading = [brand |-> Unnamed, confidence |-> 0]
    BY <1>2, <2>1 DEF GroundedRow, IsReading, Unread
  <2>3. CASE reading \in Readings
    <3>1. reading.confidence \in 0..100
      BY <2>3, ProductAssumption
    <3> QED BY <2>1, <3>1 DEF Gap, PAGE_CONFIDENCE
  <2>4. CASE reading = [brand |-> Unnamed, confidence |-> 0]
    <3>1. reading.confidence = 0
      BY <2>4
    <3> QED BY <2>1, <3>1 DEF Gap, PAGE_CONFIDENCE
  <2> QED BY <2>2, <2>3, <2>4
<1>5. ASSUME row.fact # Unnamed
      PROVE  /\ row.fact = row.vision.brand \/ (row.fact = row.facts.brand /\ row.facts.of # NoPage)
             /\ \A other \in {row.vision.brand, row.facts.brand} \ {row.fact, Unnamed} :
                  Gap(row.vision) >= TIE_CONFIDENCE_MARGIN
  <2>1. ~Unresolved(row.vision, row.facts)
    BY <1>2, <1>5 DEF GroundedRow, Resolved
  <2>2. row.fact = IF row.facts.brand = Unnamed THEN row.vision.brand ELSE row.facts.brand
    BY <1>2, <2>1 DEF GroundedRow, Resolved
  <2>3. ASSUME NEW other \in {row.vision.brand, row.facts.brand} \ {row.fact, Unnamed}
        PROVE  Gap(row.vision) >= TIE_CONFIDENCE_MARGIN
    <3>1. /\ Unnamed \notin {row.vision.brand, row.facts.brand}
          /\ row.vision.brand # row.facts.brand
      BY <2>2, <2>3
    <3>2. ~(Gap(row.vision) < TIE_CONFIDENCE_MARGIN)
      BY <2>1, <3>1 DEF Unresolved
    <3> QED BY <1>4, <3>2 DEF TIE_CONFIDENCE_MARGIN
  <2> QED BY <1>3, <1>5, <2>2, <2>3
<1>6. /\ row.brand = row.vision.brand
      /\ row.facts.brand # Unnamed => row.unresolved \/ row.fact = row.facts.brand
  BY <1>2 DEF GroundedRow, Resolved
<1> QED BY <1>1, <1>2, <1>3, <1>5, <1>6

\* A campaign is told of its own image and page only, by the brand that was seen; and the
\* fusion keeps nothing as a fact that neither gives or that the other contradicts, for any
\* images, urls, contents and readings and however many requests write the same rows at once.
THEOREM ProfilesAreAlwaysGrounded == Spec => []ProfilesAreGrounded
<1>1. Init => GroundedInv
  BY GroundedInit
<1>2. GroundedInv /\ [Next]_vars => GroundedInv'
  BY GroundedNext
<1>3. GroundedInv => ProfilesAreGrounded
  BY GroundedGives
<1> QED BY <1>1, <1>2, <1>3, PTL DEF Spec

-----------------------------------------------------------------------------
(* The calls that are paid.  Two that have not met were not served at the same     *)
(* time: the one that came later finds what the other has written, unless what is  *)
(* written meanwhile was read before.                                             *)

\* Somebody asked for the page while r was served, or for another url of its snapshot.
Disturbed(r, page) ==
  \E q \in Requests : /\ req[q].op = "profile" /\ req[q].account \in Alike(page)
                      /\ Met(q, r) \/ req[q].account # page

\* What r has paid for, and what became of it.
PaidFor(what, r, x) ==
  /\ x.op = "profile" /\ x.pc # "noSeat" /\ what.content \in Nat
  /\ what.content = 0 =>
       /\ x.pc \notin Over => x.user = what.of
       /\ x.pc = "done" => what.of \in Images /\ profiles[what.of].known
  /\ what.content > 0 =>
       /\ x.account = what.of /\ what.of \in Pages /\ what.content <= site[what.of]
       /\ x.pc \in {"extract", "save", "fuse"} \cup Over
       /\ x.pc \in {"extract", "save"} => held[r].content = what.content
       /\ x.pc \in {"fuse", "done"} =>
            \/ snapshots[NormalUrl[what.of]].content = what.content \/ site[what.of] > what.content
            \/ Disturbed(r, what.of)

\* What s may not pay for again, if r has paid for it and they have not met.
NotAgain(what, r, s, x) ==
  /\ what.content = 0 => /\ ~(x.op = "profile" /\ x.pc = "vision" /\ x.user = what.of)
                         /\ what \in bought[s] => x.pc = "refused"
  /\ what.content > 0 =>
       /\ x.op = "profile" /\ x.pc = "fetch" /\ x.account = what.of =>
            \/ held[s].snapshot.content = what.content \/ site[what.of] > what.content
            \/ Disturbed(r, what.of)
       /\ x.op = "profile" /\ x.pc \in {"extract", "save"} /\ x.account = what.of =>
            /\ held[s].content >= what.content
            /\ held[s].content = what.content =>
                 Disturbed(r, what.of) \/ Disturbed(s, what.of)
       /\ what \in bought[s] /\ x.pc # "refused" =>
            Disturbed(r, what.of) \/ Disturbed(s, what.of)

ReadsOwn(r, x) ==
  x.op = "profile" /\ x.pc \in {"extract", "save"} =>
    held[r].content \in Nat \ {0} /\ held[r].content <= site[x.account]

ReusedInv ==
  /\ GroundedInv
  /\ \A page \in Pages : site[page] \in Nat \ {0}
  /\ \A r \in Requests : ReadsOwn(r, req[r])
  /\ \A r \in Requests : \A what \in bought[r] : PaidFor(what, r, req[r])
  /\ \A r, s \in Requests : \A what \in bought[r] :
       r # s /\ ~Met(r, s) /\ req[r].pc # "refused" => NotAgain(what, r, s, req[s])

\* Two that have not met by the end of a step of one were not served at the same time.
LEMMA Apart ==
  ASSUME PlacedInv, NEW r \in Requests, NEW new, Moves(r, new), NEW s \in Requests, s # r,
         ~(Met(r, s)') \/ ~(Met(s, r)')
  PROVE  s \notin InFlight /\ ~Met(r, s) /\ ~Met(s, r)
<1>1. met \subseteq met'
  BY MovesRequest DEF PlacedInv
<1>2. {r, s} \notin met'
  <2>1. {r, s} = {s, r}
    OBVIOUS
  <2> QED BY <2>1 DEF Met
<1>3. ~Met(r, s) /\ ~Met(s, r)
  <2>1. {r, s} = {s, r} /\ {r, s} \notin met
    BY <1>1, <1>2
  <2> QED BY <2>1 DEF Met
<1>4. s \notin InFlight
  <2>1. CASE Call(r, new)
    BY <1>2, <2>1 DEF Call
  <2>2. CASE r \in InFlight
    BY <1>1, <1>2, <2>2 DEF PlacedInv, RequestsInv
  <2> QED BY <2>1, <2>2 DEF Moves, InFlight
<1> QED BY <1>3, <1>4

LEMMA DisturbedStays ==
  ASSUME PlacedInv, NEW r \in Requests, NEW new, Moves(r, new),
         req[r].op = "profile" => new.account = req[r].account,
         NEW s, NEW page, Disturbed(s, page)
  PROVE  Disturbed(s, page)'
<1>1. PICK q \in Requests : /\ req[q].op = "profile" /\ req[q].account \in Alike(page)
                            /\ Met(q, s) \/ req[q].account # page
  BY DEF Disturbed
<1>2. Met(q, s) => Met(q, s)'
  BY MovesRequest DEF PlacedInv, Met
<1>3. CASE q # r
  <2>1. req'[q] = req[q]
    BY <1>3, MovesRequest DEF PlacedInv
  <2> QED BY <1>1, <1>2, <2>1 DEF Disturbed
<1>4. CASE q = r
  <2>1. req[r].pc # "new"
    BY <1>1, <1>4 DEF PlacedInv, RequestsInv
  <2>2. new.op = "profile" /\ new.account = req[r].account
    BY <1>1, <1>4, <2>1, MovesRequest DEF PlacedInv
  <2>3. req'[r] = Left(new)
    BY MovesRequest DEF PlacedInv
  <2>4. Left(new).op = new.op /\ Left(new).account = new.account
    BY DEF Left, NewRequest, Moves
  <2>5. PICK x : x = Left(new) /\ req'[r] = x
    BY <2>3
  <2>6. x.op = "profile" /\ x.account = req[r].account
    BY <2>2, <2>4, <2>5
  <2> QED BY <1>1, <1>2, <1>4, <2>5, <2>6 DEF Disturbed
<1> QED BY <1>3, <1>4

\* One that was served before, and what it has paid for.
LEMMA ServedBefore ==
  ASSUME ReusedInv, NEW r \in Requests, NEW new, Moves(r, new), NEW s \in Requests, s # r,
         ~(Met(s, r)'), req[s].pc # "refused", NEW what, what \in bought[s]
  PROVE  req[s].pc = "done" /\ PaidFor(what, s, req[s]) /\ NotAgain(what, s, r, req[r])
<1>1. PlacedInv
  BY DEF ReusedInv, GroundedInv
<1>2. s \notin InFlight /\ ~Met(s, r)
  BY <1>1, Apart
<1>3. PaidFor(what, s, req[s])
  BY DEF ReusedInv
<1>4. NotAgain(what, s, r, req[r])
  BY <1>2 DEF ReusedInv
<1>5. req[s].pc # "new"
  BY <1>1, <1>3 DEF PaidFor, PlacedInv, RequestsInv
<1>6. req[s].pc # "noSeat"
  BY <1>3 DEF PaidFor
<1>7. req[s].pc = "done"
  <2>1. req[s].pc \in {"new"} \cup Over
    BY <1>2 DEF InFlight
  <2>2. req[s].pc # "refused"
    OBVIOUS
  <2> QED BY <1>5, <1>6, <2>1, <2>2 DEF Over
<1> QED BY <1>3, <1>4, <1>7

LEMMA ReusedStep ==
  ASSUME ReusedInv, NEW r \in Requests, NEW new, Moves(r, new), GroundedInv',
         req[r].op = "profile" => new.account = req[r].account,
         \A page \in Pages : site'[page] = site[page],
         \A image \in Images : profiles[image].known => profiles'[image].known,
         \A url \in NormalUrls :
           \/ snapshots'[url].content = snapshots[url].content
           \/ /\ req[r].op = "profile" /\ req[r].pc = "save" /\ NormalUrl[req[r].account] = url
              /\ snapshots'[url].content = held[r].content,
         \A s \in Requests : s # r => held'[s] = held[s] /\ bought'[s] = bought[s],
         ReadsOwn(r, new)',
         \A what \in bought'[r] : PaidFor(what, r, new)',
         \A s \in Requests : \A what \in bought[s] :
           s # r /\ ~(Met(s, r)') /\ req[s].pc # "refused" => NotAgain(what, s, r, new)',
         \A s \in Requests : \A what \in bought'[r] \cap bought[s] :
           s # r /\ ~(Met(r, s)') /\ req[s].pc # "refused" /\ what \notin bought[r] =>
             what.content # 0 /\ (Disturbed(r, what.of)' \/ Disturbed(s, what.of)')
  PROVE  ReusedInv'
<1>1. PlacedInv
  BY DEF ReusedInv, GroundedInv
<1>2. PICK x : x = Left(new) /\ req'[r] = x
  BY <1>1, MovesRequest DEF PlacedInv
<1>3. /\ x.pc = new.pc /\ x.op = new.op /\ x.account = new.account
      /\ x.pc \notin Over => x = new
  BY <1>2 DEF Left, NewRequest, Over
<1>4. \A s \in Requests : s # r => req'[s] = req[s]
  BY <1>1, MovesRequest DEF PlacedInv
<1>5. \A s, page : Disturbed(s, page) => Disturbed(s, page)'
  BY <1>1, DisturbedStays
<1>6. \A page \in Pages : site'[page] \in Nat \ {0}
  BY DEF ReusedInv
<1>7. ASSUME NEW s \in Requests
      PROVE  ReadsOwn(s, req[s])'
  <2>1. CASE s = r
    <3>1. ReadsOwn(r, x)'
      BY <1>3 DEF ReadsOwn
    <3> QED BY <1>2, <2>1, <3>1 DEF ReadsOwn
  <2>2. CASE s # r
    <3>1. req'[s] = req[s] /\ held'[s] = held[s] /\ ReadsOwn(s, req[s])
      BY <1>4, <2>2 DEF ReusedInv
    <3>2. req[s].op = "profile" /\ req[s].pc \in {"extract", "save"} => req[s].account \in Pages
      BY DEF ReusedInv, GroundedInv, HoldsOwn, AtPage
    <3> QED BY <3>1, <3>2 DEF ReadsOwn
  <2> QED BY <2>1, <2>2
<1>8. ASSUME NEW s \in Requests, NEW what \in bought'[s]
      PROVE  PaidFor(what, s, req[s])'
  <2>1. CASE s = r
    <3>1. PaidFor(what, r, new)'
      BY <1>8, <2>1
    <3>2. PaidFor(what, r, x)'
      BY <1>3, <3>1 DEF PaidFor
    <3> QED BY <1>2, <2>1, <3>2 DEF PaidFor
  <2>2. CASE s # r
    <3>1. /\ req'[s] = req[s] /\ held'[s] = held[s] /\ what \in bought[s]
          /\ PaidFor(what, s, req[s])
      BY <1>4, <1>8, <2>2 DEF ReusedInv
    <3>2. ASSUME what.content > 0, req[s].pc \in {"fuse", "done"}
          PROVE  \/ snapshots'[NormalUrl[what.of]].content = what.content \/ site'[what.of] > what.content
                 \/ Disturbed(s, what.of)'
      <4>1. /\ what.of \in Pages /\ what.content \in Nat /\ site'[what.of] = site[what.of]
            /\ site[what.of] \in Nat
            /\ \/ snapshots[NormalUrl[what.of]].content = what.content \/ site[what.of] > what.content
               \/ Disturbed(s, what.of)
        BY <3>1, <3>2 DEF PaidFor, ReusedInv
      <4>2. CASE snapshots'[NormalUrl[what.of]].content = snapshots[NormalUrl[what.of]].content
        BY <1>5, <4>1, <4>2
      <4>5. CASE /\ req[r].op = "profile" /\ req[r].pc = "save" /\ req[r].account # what.of
                 /\ NormalUrl[req[r].account] = NormalUrl[what.of]
        <5>1. req[r].account \in Alike(what.of)
          BY <4>1, <4>5, AlikeFound DEF ReusedInv, GroundedInv, HoldsOwn, AtPage, Alike
        <5>2. Disturbed(s, what.of)
          BY <4>5, <5>1 DEF Disturbed
        <5> QED BY <1>5, <5>2
      <4>3. CASE /\ req[r].op = "profile" /\ req[r].pc = "save" /\ req[r].account = what.of
                 /\ snapshots'[NormalUrl[what.of]].content = held[r].content
        <5>1. CASE Met(s, r)
          <6>1. Met(r, s)
            <7>1. {r, s} = {s, r}
              OBVIOUS
            <7> QED BY <5>1, <7>1 DEF Met
          <6>2. Disturbed(s, what.of)
            BY <4>1, <4>3, <6>1, AlikeFound DEF Disturbed
          <6> QED BY <1>5, <6>2
        <5>2. CASE ~Met(s, r)
          <6>1. NotAgain(what, s, r, req[r])
            BY <2>2, <3>1, <3>2, <5>2 DEF ReusedInv
          <6>2. /\ held[r].content \in Nat /\ held[r].content <= site[what.of]
                /\ held[r].content >= what.content
            BY <3>2, <4>3, <6>1 DEF NotAgain, ReusedInv, ReadsOwn
          <6> QED BY <4>1, <4>3, <6>2
        <5> QED BY <5>1, <5>2
      <4> QED BY <4>1, <4>2, <4>3, <4>5, AlikeFound
    <3>3. /\ what.content \in Nat /\ (what.content > 0 => what.of \in Pages)
          /\ (what.content = 0 /\ req[s].pc = "done" =>
                what.of \in Images /\ profiles'[what.of].known)
      BY <3>1 DEF PaidFor
    <3>4. what.content > 0 => site'[what.of] = site[what.of]
      BY <3>3
    <3> QED BY <3>1, <3>2, <3>3, <3>4 DEF PaidFor
  <2> QED BY <2>1, <2>2
<1>9. ASSUME NEW a \in Requests, NEW b \in Requests, NEW what \in bought'[a], a # b,
             ~(Met(a, b)'), req'[a].pc # "refused"
      PROVE  NotAgain(what, a, b, req[b])'
  <2>1. CASE b = r
    <3>1. what \in bought[a] /\ req[a].pc # "refused"
      BY <1>4, <1>9, <2>1
    <3>2. NotAgain(what, a, r, new)'
      BY <1>9, <2>1, <3>1
    <3>3. NotAgain(what, a, r, x)'
      BY <1>3, <3>2 DEF NotAgain, Over
    <3> QED BY <1>2, <2>1, <3>3 DEF NotAgain
  <2>2. CASE a = r
    <3>1. b \notin InFlight /\ ~Met(r, b)
      BY <1>1, <1>9, <2>2, Apart
    <3>2. req'[b] = req[b] /\ bought'[b] = bought[b] /\ req[b].pc \in {"new"} \cup Over
      BY <1>4, <1>9, <2>2, <3>1 DEF InFlight
    <3>3. PaidFor(what, r, new)'
      BY <1>9, <2>2
    <3>4. CASE what \in bought[b] /\ req[b].pc # "refused"
      <4>1. what.content # 0 /\ (Disturbed(r, what.of)' \/ Disturbed(b, what.of)')
        <5>1. CASE what \in bought[r]
          <6>1. req[r].pc # "refused"
            BY DEF Moves, Over
          <6>2. NotAgain(what, r, b, req[b])
            BY <1>9, <2>2, <3>1, <5>1, <6>1 DEF ReusedInv
          <6>3. what.content \in Nat
            BY <3>3 DEF PaidFor
          <6> QED BY <1>5, <3>4, <6>2, <6>3 DEF NotAgain
        <5>2. CASE what \notin bought[r]
          BY <1>9, <2>2, <3>4, <5>2
        <5> QED BY <5>1, <5>2
      <4> QED BY <2>2, <3>2, <4>1 DEF NotAgain, Over
    <3>5. CASE ~(what \in bought[b] /\ req[b].pc # "refused")
      BY <2>2, <3>2, <3>5 DEF NotAgain, Over
    <3> QED BY <3>4, <3>5
  <2>3. CASE a # r /\ b # r
    <3>1. /\ req'[b] = req[b] /\ req'[a] = req[a] /\ bought'[a] = bought[a]
          /\ bought'[b] = bought[b] /\ held'[b] = held[b]
      BY <1>4, <2>3
    <3>2. ~Met(a, b)
      BY <1>1, <1>9, MovesRequest DEF PlacedInv, Met
    <3>3. NotAgain(what, a, b, req[b]) /\ PaidFor(what, a, req[a])
      BY <1>9, <3>1, <3>2 DEF ReusedInv
    <3>4. what.content > 0 => site'[what.of] = site[what.of]
      BY <3>3 DEF PaidFor
    <3> QED BY <1>5, <3>1, <3>3, <3>4 DEF NotAgain
  <2> QED BY <2>1, <2>2, <2>3
<1> QED BY <1>6, <1>7, <1>8, <1>9 DEF ReusedInv

LEMMA MetBoth == ASSUME NEW r, NEW s PROVE Met(r, s)' <=> Met(s, r)'
<1>1. {r, s} = {s, r}
  OBVIOUS
<1> QED BY <1>1 DEF Met

\* What both have paid for before the step.
LEMMA AgainStays ==
  ASSUME ReusedInv, NEW r \in Requests, NEW new, Moves(r, new), NEW s \in Requests, s # r,
         req[r].op = "profile" => new.account = req[r].account,
         ~(Met(s, r)'), req[s].pc # "refused", NEW what, what \in bought[s] \cap bought[r]
  PROVE  what.content # 0 /\ (Disturbed(s, what.of)' \/ Disturbed(r, what.of)')
<1>1. NotAgain(what, s, r, req[r]) /\ PaidFor(what, s, req[s])
  BY ServedBefore
<1>2. req[r].pc # "refused"
  BY DEF Moves, Over
<1>3. what.content \in Nat
  BY <1>1 DEF PaidFor
<1>4. what.content # 0 /\ (Disturbed(s, what.of) \/ Disturbed(r, what.of))
  BY <1>1, <1>2, <1>3 DEF NotAgain
<1>5. \A q, page : Disturbed(q, page) => Disturbed(q, page)'
  BY DisturbedStays DEF ReusedInv, GroundedInv
<1> QED BY <1>4, <1>5

\* A step that pays for nothing, and goes where nothing is asked.
LEMMA ReusedQuiet ==
  ASSUME ReusedInv, NEW r \in Requests, NEW new, Moves(r, new), GroundedInv',
         req[r].op = "profile" => new.account = req[r].account,
         \A page \in Pages : site'[page] = site[page],
         \A image \in Images : profiles[image].known => profiles'[image].known,
         \A url \in NormalUrls :
           \/ snapshots'[url].content = snapshots[url].content
           \/ /\ req[r].op = "profile" /\ req[r].pc = "save" /\ NormalUrl[req[r].account] = url
              /\ snapshots'[url].content = held[r].content,
         \A s \in Requests : s # r => held'[s] = held[s],
         UNCHANGED bought,
         new.op # "profile" \/ new.pc \notin {"vision", "fetch", "extract", "save"},
         \A what \in bought[r] : PaidFor(what, r, new)'
  PROVE  ReusedInv'
<1>1. ReadsOwn(r, new)'
  BY DEF ReadsOwn
<1>2. ASSUME NEW s \in Requests, NEW what \in bought[s],
             s # r, ~(Met(s, r)'), req[s].pc # "refused"
      PROVE  NotAgain(what, s, r, new)'
  <2>1. what \in bought[r] => what.content # 0 /\ (Disturbed(s, what.of)' \/ Disturbed(r, what.of)')
    BY <1>2, AgainStays
  <2> QED BY <2>1 DEF NotAgain
<1>3. \A what \in bought'[r] : PaidFor(what, r, new)'
  OBVIOUS
<1>4. \A s \in Requests : s # r => held'[s] = held[s] /\ bought'[s] = bought[s]
  OBVIOUS
<1>5. \A s \in Requests : \A what \in bought'[r] \cap bought[s] :
        s # r /\ ~(Met(r, s)') /\ req[s].pc # "refused" /\ what \notin bought[r] =>
          what.content # 0 /\ (Disturbed(r, what.of)' \/ Disturbed(s, what.of)')
  OBVIOUS
<1> QED BY <1>1, <1>2, <1>3, <1>4, <1>5, ReusedStep

\* The steps of the other components.
LEMMA ReusedElsewhere ==
  ASSUME ReusedInv, UNCHANGED productVars, NEW r \in Requests, NEW new,
         Moves(r, new), Placed(new), new.op # "profile"
  PROVE  ReusedInv'
<1>1. UNCHANGED <<site, snapshots, profiles, held, bought, handed>>
  BY DEF productVars
<1>2. req[r].op # "profile" /\ GroundedInv'
  BY MovesRequest, GroundedElsewhere DEF ReusedInv, GroundedInv, PlacedInv, RequestsInv
<1>3. \A what \in bought[r] : PaidFor(what, r, new)'
  BY <1>2 DEF ReusedInv, PaidFor
<1> QED BY <1>1, <1>2, <1>3, ReusedQuiet

\* What is done to the pages meanwhile.
LEMMA ReusedRest ==
  ASSUME ReusedInv, GroundedInv', UNCHANGED <<requestVars, profiles, held, bought>>,
         \A url \in NormalUrls : snapshots'[url].content = snapshots[url].content,
         \A page \in Pages : site'[page] = site[page] \/ site'[page] = site[page] + 1
  PROVE  ReusedInv'
<1>1. UNCHANGED <<req, met, profiles, held, bought>>
  BY DEF requestVars
<1>2. \A page \in Pages : site[page] \in Nat \ {0} /\ site'[page] \in Nat \ {0}
                          /\ site'[page] >= site[page]
  BY DEF ReusedInv
<1>3. \A r, s : Met(r, s)' <=> Met(r, s)
  BY <1>1 DEF Met
<1>4. \A s, page : Disturbed(s, page) => Disturbed(s, page)'
  BY <1>1, <1>3 DEF Disturbed
<1>5. ASSUME NEW r \in Requests
      PROVE  ReadsOwn(r, req[r])'
  <2>1. ReadsOwn(r, req[r])
    BY DEF ReusedInv
  <2>2. req[r].op = "profile" /\ req[r].pc \in {"extract", "save"} => req[r].account \in Pages
    BY DEF ReusedInv, GroundedInv, HoldsOwn, AtPage
  <2> QED BY <1>1, <1>2, <2>1, <2>2 DEF ReadsOwn
<1>6. ASSUME NEW r \in Requests, NEW what \in bought[r]
      PROVE  PaidFor(what, r, req[r])'
  <2>1. PaidFor(what, r, req[r])
    BY DEF ReusedInv
  <2>2. what.content > 0 => what.of \in Pages /\ what.content \in Nat
    BY <2>1 DEF PaidFor
  <2>3. what.content > 0 => /\ site[what.of] \in Nat \ {0} /\ site'[what.of] \in Nat \ {0}
                            /\ site'[what.of] >= site[what.of]
                            /\ snapshots'[NormalUrl[what.of]].content = snapshots[NormalUrl[what.of]].content
    BY <1>2, <2>2, AlikeFound
  <2> QED BY <1>1, <1>4, <2>1, <2>2, <2>3 DEF PaidFor
<1>7. ASSUME NEW r \in Requests, NEW s \in Requests, NEW what \in bought[r],
             r # s, ~Met(r, s), req[r].pc # "refused"
      PROVE  NotAgain(what, r, s, req[s])'
  <2>1. NotAgain(what, r, s, req[s]) /\ PaidFor(what, r, req[r])
    BY <1>7 DEF ReusedInv
  <2>2. what.content > 0 => what.of \in Pages /\ what.content \in Nat
    BY <2>1 DEF PaidFor
  <2>3. what.content > 0 => /\ site[what.of] \in Nat \ {0} /\ site'[what.of] \in Nat \ {0}
                            /\ site'[what.of] >= site[what.of]
    BY <1>2, <2>2
  <2>4. what.content > 0 /\ site[what.of] > what.content => site'[what.of] > what.content
    BY <2>2, <2>3
  <2> QED BY <1>1, <1>4, <2>1, <2>4 DEF NotAgain
<1> QED BY <1>1, <1>2, <1>3, <1>5, <1>6, <1>7 DEF ReusedInv

\* What a request that goes on had paid for is as it was, by where it goes.
LEMMA StillPaid ==
  ASSUME ReusedInv, NEW r \in Requests, NEW new, GoesOnFor(r, new), req[r].pc \notin Over,
         \A page \in Pages : site'[page] = site[page], NEW what, what \in bought[r],
         new.pc # "noSeat", what.content > 0 => new.pc \in {"extract", "save", "fuse", "done", "refused"},
         what.content = 0 /\ new.pc = "done" =>
           what.of \in Images /\ profiles'[what.of].known,
         what.content > 0 /\ new.pc \in {"extract", "save"} => held'[r].content = what.content,
         what.content > 0 /\ new.pc \in {"fuse", "done"} =>
           \/ snapshots'[NormalUrl[what.of]].content = what.content \/ site[what.of] > what.content
           \/ Disturbed(r, what.of)
  PROVE  PaidFor(what, r, new)'
<1>1. PaidFor(what, r, req[r])
  BY DEF ReusedInv
<1>2. /\ new.op = "profile" /\ new.account = req[r].account /\ new.user = req[r].user
      /\ Moves(r, new)
  BY DEF GoesOnFor
<1>3. Disturbed(r, what.of) => Disturbed(r, what.of)'
  BY <1>2, DisturbedStays DEF ReusedInv, GroundedInv
<1>4. what.content > 0 => site'[what.of] = site[what.of]
  BY <1>1 DEF PaidFor
<1> QED BY <1>1, <1>2, <1>3, <1>4 DEF PaidFor, Over

LEMMA BuildProfileReused ==
  ASSUME ReusedInv, NEW r \in Requests, BuildProfile(r)
  PROVE  ReusedInv'
<1>1. PICK new, image, page :
           /\ image \in Images /\ page \in Pages \cup {NoPage}
           /\ Moves(r, new) /\ Placed(new) /\ new.op = "profile" /\ new.account = page
           /\ new.user = image /\ req[r].pc = "new"
           /\ UNCHANGED <<site, snapshots, profiles, bought>>
           /\ \/ /\ Cached(image, page) /\ new.pc = "done"
                 /\ Hand(r, profiles[image]) /\ UNCHANGED held
              \/ /\ new.pc = IF profiles[image].known THEN "snapshot" ELSE "vision"
                 /\ HeldBecomes(r, [NothingHeld EXCEPT !.vision = profiles[image].vision,
                                                       !.cached = profiles[image].known])
                 /\ UNCHANGED handed
  BY BuildProfileMoves DEF ReusedInv
<1>2. GroundedInv'
  BY BuildProfileGrounded DEF ReusedInv
<1>3. req[r].op # "profile"
  BY <1>1 DEF ReusedInv, GroundedInv, PlacedInv, RequestsInv
<1>4. bought[r] = {}
  BY <1>3 DEF ReusedInv, PaidFor
<1>5. \A s \in Requests : s # r => held'[s] = held[s]
  <2>1. CASE UNCHANGED held
    BY <2>1
  <2>2. ASSUME NEW hands, HeldBecomes(r, hands)
        PROVE  \A s \in Requests : s # r => held'[s] = held[s]
    BY <2>2, HeldIs DEF ReusedInv, GroundedInv, OnlyHeld
  <2> QED BY <1>1, <2>1, <2>2
<1>6. CASE new.pc # "vision"
  <2>1. new.pc \notin {"vision", "fetch", "extract", "save"}
    BY <1>1, <1>6
  <2> QED BY <1>1, <1>2, <1>3, <1>4, <1>5, <2>1, ReusedQuiet
<1>7. CASE new.pc = "vision"
  <2>1. ~profiles[image].known
    BY <1>1, <1>7
  <2>2. ReadsOwn(r, new)'
    BY <1>7 DEF ReadsOwn
  <2>3. ASSUME NEW s \in Requests, NEW what \in bought[s],
               s # r, ~(Met(s, r)'), req[s].pc # "refused"
        PROVE  NotAgain(what, s, r, new)'
    <3>1. req[s].pc = "done" /\ PaidFor(what, s, req[s])
      BY <1>1, <2>3, ServedBefore
    <3>2. what.content = 0 => new.user # what.of
      BY <1>1, <2>1, <3>1 DEF PaidFor
    <3> QED BY <1>1, <1>4, <1>7, <3>2 DEF NotAgain
  <2>4. /\ \A what \in bought'[r] : PaidFor(what, r, new)'
        /\ \A s \in Requests : s # r => held'[s] = held[s] /\ bought'[s] = bought[s]
        /\ \A s \in Requests : \A what \in bought'[r] \cap bought[s] :
             s # r /\ ~(Met(r, s)') /\ req[s].pc # "refused" /\ what \notin bought[r] =>
               what.content # 0 /\ (Disturbed(r, what.of)' \/ Disturbed(s, what.of)')
        /\ \A page_ \in Pages : site'[page_] = site[page_]
        /\ \A image_ \in Images : profiles[image_].known => profiles'[image_].known
        /\ \A url \in NormalUrls : snapshots'[url].content = snapshots[url].content
    BY <1>1, <1>4, <1>5
  <2> QED BY <1>1, <1>2, <1>3, <2>2, <2>3, <2>4, ReusedStep
<1> QED BY <1>6, <1>7

LEMMA AnalyzeImageReused ==
  ASSUME ReusedInv, NEW r \in Requests, AnalyzeImage(r)
  PROVE  ReusedInv'
<1>1. PICK new, reading : /\ reading \in Readings \cup {Unread}
           /\ GoesOnFor(r, new) /\ new.pc = "identify"
           /\ req[r].op = "profile" /\ req[r].pc = "vision"
           /\ HeldBecomes(r, [held[r] EXCEPT !.vision = reading])
           /\ Buys(r, Image(r)) /\ UNCHANGED <<site, snapshots, profiles, handed>>
  BY AnalyzeImageMoves DEF ReusedInv
<1>2. GroundedInv'
  BY AnalyzeImageGrounded DEF ReusedInv
<1>3. /\ bought'[r] = bought[r] \cup {Image(r)}
      /\ \A s \in Requests : s # r => bought'[s] = bought[s]
  BY <1>1, BoughtIs DEF ReusedInv, GroundedInv
<1>4. \A s \in Requests : s # r => held'[s] = held[s]
  <2>1. PICK hands : hands = [held[r] EXCEPT !.vision = reading]
    OBVIOUS
  <2>2. HeldBecomes(r, hands)
    BY <1>1, <2>1
  <2> QED BY <2>2, HeldIs DEF ReusedInv, GroundedInv, OnlyHeld
<1>5. Image(r).of = req[r].user /\ Image(r).content = 0
  BY DEF Image
<1>6. /\ Moves(r, new) /\ new.op = "profile" /\ new.account = req[r].account
      /\ new.user = req[r].user
  BY <1>1 DEF GoesOnFor
<1>7. \A what \in bought'[r] : PaidFor(what, r, new)'
  <2>1. ASSUME NEW what, what \in bought[r]
        PROVE  PaidFor(what, r, new)'
    <3>1. PaidFor(what, r, req[r])
      BY <2>1 DEF ReusedInv
    <3>2. ~(what.content > 0)
      BY <1>1, <3>1 DEF PaidFor, Over
    <3>3. req[r].pc \notin Over /\ \A page \in Pages : site'[page] = site[page]
      BY <1>1 DEF Over
    <3> QED BY <1>1, <2>1, <3>2, <3>3, StillPaid
  <2>2. ASSUME NEW what, what = Image(r)
        PROVE  PaidFor(what, r, new)'
    BY <1>1, <1>5, <1>6, <2>2 DEF PaidFor
  <2> QED BY <1>3, <2>1, <2>2
<1>8. ASSUME NEW s \in Requests, NEW what \in bought[s],
             s # r, ~(Met(s, r)'), req[s].pc # "refused"
      PROVE  NotAgain(what, s, r, new)' /\ what # Image(r)
  <2>1. NotAgain(what, s, r, req[r])
    BY <1>6, <1>8, ServedBefore
  <2>2. what # Image(r)
    BY <1>1, <1>5, <2>1 DEF NotAgain
  <2>3. what \in bought[r] => what.content # 0 /\ (Disturbed(s, what.of)' \/ Disturbed(r, what.of)')
    BY <1>6, <1>8, AgainStays
  <2>4. what \in bought'[r] => what \in bought[r]
    BY <1>3, <2>2
  <2> QED BY <1>1, <2>2, <2>3, <2>4 DEF NotAgain
<1>9. ASSUME NEW s \in Requests, NEW what \in bought'[r] \cap bought[s],
             s # r, ~(Met(r, s)'), req[s].pc # "refused", what \notin bought[r]
      PROVE  what.content # 0 /\ (Disturbed(r, what.of)' \/ Disturbed(s, what.of)')
  <2>1. what = Image(r)
    BY <1>3, <1>9
  <2>2. ~(Met(s, r)')
    BY <1>9, MetBoth
  <2> QED BY <1>8, <1>9, <2>1, <2>2
<1>10. ReadsOwn(r, new)'
  BY <1>1 DEF ReadsOwn
<1>11. /\ \A page \in Pages : site'[page] = site[page]
       /\ \A image \in Images : profiles[image].known => profiles'[image].known
       /\ \A url \in NormalUrls : snapshots'[url].content = snapshots[url].content
       /\ \A s \in Requests : s # r => held'[s] = held[s] /\ bought'[s] = bought[s]
  BY <1>1, <1>3, <1>4
<1> QED BY <1>2, <1>6, <1>7, <1>8, <1>9, <1>10, <1>11, ReusedStep

LEMMA IdentifyReused ==
  ASSUME ReusedInv, NEW r \in Requests, Identify(r)
  PROVE  ReusedInv'
<1>1. req[r].op = "profile" /\ req[r].pc = "identify" /\ Goto(r, "snapshot")
  BY DEF Identify, Doing
<1>2. PICK new : GoesOnFor(r, new) /\ new.pc = "snapshot"
  BY <1>1, ProfileGoesOn DEF ReusedInv, GroundedInv, ProfilePcs, Over
<1>3. UNCHANGED <<site, snapshots, profiles, held, bought, handed>>
  BY DEF Identify, productVars
<1>4. \A what \in bought[r] : PaidFor(what, r, new)'
  <2>1. ASSUME NEW what, what \in bought[r]
        PROVE  PaidFor(what, r, new)'
    <3>1. PaidFor(what, r, req[r])
      BY <2>1 DEF ReusedInv
    <3>2. ~(what.content > 0)
      BY <1>1, <3>1 DEF PaidFor, Over
    <3>3. req[r].pc \notin Over /\ \A page \in Pages : site'[page] = site[page]
      BY <1>1, <1>3 DEF Over
    <3> QED BY <1>2, <2>1, <3>2, <3>3, StillPaid
  <2> QED BY <2>1
<1>5. Moves(r, new) /\ new.account = req[r].account /\ GroundedInv'
  BY <1>2, IdentifyGrounded DEF GoesOnFor, ReusedInv
<1>6. new.pc \notin {"vision", "fetch", "extract", "save"}
  BY <1>2
<1> QED BY <1>3, <1>4, <1>5, <1>6, ReusedQuiet

LEMMA ProfileFailsReused ==
  ASSUME ReusedInv, NEW r \in Requests, ProfileFails(r)
  PROVE  ReusedInv'
<1>1. PICK new : /\ GoesOnFor(r, new) /\ new.pc = "refused"
                  /\ req[r].op = "profile" /\ req[r].pc \notin Over
                  /\ HeldBecomes(r, NothingHeld)
                  /\ UNCHANGED <<site, snapshots, profiles, bought, handed>>
  BY ProfileFailsMoves DEF ReusedInv
<1>2. \A what \in bought[r] : PaidFor(what, r, new)'
  <2>1. ASSUME NEW what, what \in bought[r]
        PROVE  PaidFor(what, r, new)'
    <3>1. \A page \in Pages : site'[page] = site[page]
      BY <1>1
    <3> QED BY <1>1, <2>1, <3>1, StillPaid
  <2> QED BY <2>1
<1>3. Moves(r, new) /\ new.account = req[r].account /\ GroundedInv'
  BY <1>1, ProfileFailsGrounded DEF GoesOnFor, ReusedInv
<1>4. \A s \in Requests : s # r => held'[s] = held[s]
  BY <1>1, HeldIs DEF ReusedInv, GroundedInv, OnlyHeld
<1>5. new.pc \notin {"vision", "fetch", "extract", "save"}
  BY <1>1
<1> QED BY <1>1, <1>2, <1>3, <1>4, <1>5, ReusedQuiet

LEMMA LookUpSnapshotReused ==
  ASSUME ReusedInv, NEW r \in Requests, LookUpSnapshot(r)
  PROVE  ReusedInv'
<1>1. PICK new, hands :
           /\ GoesOnFor(r, new) /\ req[r].op = "profile" /\ req[r].pc = "snapshot"
           /\ HeldBecomes(r, hands)
           /\ UNCHANGED <<site, snapshots, profiles, bought, handed>>
           /\ \/ new.pc = "fuse"
              \/ /\ new.account \in Pages
                 /\ hands.snapshot = snapshots[NormalUrl[new.account]]
                 /\ new.pc = "fetch"
  <2>1. PICK new, hands : LooksUp(r, new, hands)
    BY LookUpSnapshotMoves DEF ReusedInv
  <2> QED BY <2>1 DEF LooksUp
<1>2. \A what \in bought[r] : PaidFor(what, r, new)'
  <2>1. ASSUME NEW what, what \in bought[r]
        PROVE  PaidFor(what, r, new)'
    <3>1. PaidFor(what, r, req[r])
      BY <2>1 DEF ReusedInv
    <3>2. ~(what.content > 0)
      BY <1>1, <3>1 DEF PaidFor, Over
    <3>3. req[r].pc \notin Over /\ \A page \in Pages : site'[page] = site[page]
      BY <1>1 DEF Over
    <3>4. new.pc \in {"fuse", "fetch"}
      BY <1>1
    <3> QED BY <1>1, <2>1, <3>2, <3>3, <3>4, StillPaid
  <2> QED BY <2>1
<1>3. Moves(r, new) /\ new.account = req[r].account /\ GroundedInv'
  BY <1>1, LookUpSnapshotGrounded DEF GoesOnFor, ReusedInv
<1>4. held'[r] = hands /\ \A s \in Requests : s # r => held'[s] = held[s]
  BY <1>1, HeldIs DEF ReusedInv, GroundedInv, OnlyHeld
<1>5. CASE new.pc = "fuse"
  <2>1. new.pc \notin {"vision", "fetch", "extract", "save"}
    BY <1>5
  <2> QED BY <1>1, <1>2, <1>3, <1>4, <2>1, ReusedQuiet
<1>6. CASE new.pc = "fetch" /\ hands.snapshot = snapshots[NormalUrl[new.account]]
  <2>1. ASSUME NEW s \in Requests, NEW what \in bought[s],
               s # r, ~(Met(s, r)'), req[s].pc # "refused"
        PROVE  NotAgain(what, s, r, new)'
    <3>1. req[s].pc = "done" /\ PaidFor(what, s, req[s])
      BY <1>3, <2>1, ServedBefore
    <3>2. what \in bought[r] => what.content # 0 /\ (Disturbed(s, what.of)' \/ Disturbed(r, what.of)')
      BY <1>3, <2>1, AgainStays
    <3>3. Disturbed(s, what.of) => Disturbed(s, what.of)'
      BY <1>3, DisturbedStays DEF ReusedInv, GroundedInv
    <3>4. ASSUME what.content > 0, new.account = what.of
          PROVE  \/ held'[r].snapshot.content = what.content \/ site'[what.of] > what.content
                 \/ Disturbed(s, what.of)'
      BY <1>1, <1>4, <1>6, <3>1, <3>3, <3>4 DEF PaidFor
    <3> QED BY <1>1, <1>6, <3>2, <3>4 DEF NotAgain
  <2>2. ReadsOwn(r, new)'
    BY <1>6 DEF ReadsOwn
  <2>3. /\ \A what \in bought'[r] : PaidFor(what, r, new)'
        /\ \A s \in Requests : s # r => held'[s] = held[s] /\ bought'[s] = bought[s]
        /\ \A s \in Requests : \A what \in bought'[r] \cap bought[s] :
             s # r /\ ~(Met(r, s)') /\ req[s].pc # "refused" /\ what \notin bought[r] =>
               what.content # 0 /\ (Disturbed(r, what.of)' \/ Disturbed(s, what.of)')
        /\ \A page \in Pages : site'[page] = site[page]
        /\ \A image \in Images : profiles[image].known => profiles'[image].known
        /\ \A url \in NormalUrls : snapshots'[url].content = snapshots[url].content
    BY <1>1, <1>2, <1>4
  <2> QED BY <1>3, <2>1, <2>2, <2>3, ReusedStep
<1> QED BY <1>1, <1>5, <1>6

LEMMA FetchPageReused ==
  ASSUME ReusedInv, NEW r \in Requests, FetchPage(r)
  PROVE  ReusedInv'
<1>1. PICK new, hands, n :
           /\ GoesOnFor(r, new) /\ req[r].op = "profile" /\ req[r].pc = "fetch"
           /\ new.account \in Pages /\ n = site[new.account]
           /\ HeldBecomes(r, hands)
           /\ UNCHANGED <<site, snapshots, profiles, bought, handed>>
           /\ \/ new.pc \in {"fuse", "renew"}
              \/ /\ new.pc \in {"save", "extract"} /\ n # held[r].snapshot.content
                 /\ hands.content = n
  <2>1. PICK new, hands, n :
           /\ GoesOnFor(r, new) /\ req[r].op = "profile" /\ req[r].pc = "fetch"
           /\ new.account \in Pages /\ n = site[new.account]
           /\ HeldBecomes(r, hands)
           /\ UNCHANGED <<site, snapshots, profiles, bought, handed>>
           /\ hands.vision = held[r].vision /\ hands.snapshot = held[r].snapshot
           /\ \/ new.pc = "fuse" /\ hands = held[r]
              \/ new.pc = "renew" /\ hands.facts = held[r].snapshot.facts
              \/ /\ new.pc \in {"save", "extract"} /\ n # held[r].snapshot.content
                 /\ hands.facts = Extracted(new.account, n) /\ hands.content = n
    BY FetchPageMoves DEF ReusedInv
  <2> QED BY <2>1
<1>2. new.pc \in {"fuse", "renew", "save", "extract"}
  BY <1>1
<1>3. \A what \in bought[r] : PaidFor(what, r, new)'
  <2>1. ASSUME NEW what, what \in bought[r]
        PROVE  PaidFor(what, r, new)'
    <3>1. PaidFor(what, r, req[r])
      BY <2>1 DEF ReusedInv
    <3>2. ~(what.content > 0)
      BY <1>1, <3>1 DEF PaidFor, Over
    <3>3. req[r].pc \notin Over /\ \A page \in Pages : site'[page] = site[page]
      BY <1>1 DEF Over
    <3> QED BY <1>1, <1>2, <2>1, <3>2, <3>3, StillPaid
  <2> QED BY <2>1
<1>4. Moves(r, new) /\ new.account = req[r].account /\ GroundedInv' /\ new.op = "profile"
  BY <1>1, FetchPageGrounded DEF GoesOnFor, ReusedInv
<1>5. held'[r] = hands /\ \A s \in Requests : s # r => held'[s] = held[s]
  BY <1>1, HeldIs DEF ReusedInv, GroundedInv, OnlyHeld
<1>6. CASE new.pc \in {"fuse", "renew"}
  <2>1. new.pc \notin {"vision", "fetch", "extract", "save"}
    BY <1>6
  <2> QED BY <1>1, <1>3, <1>4, <1>5, <2>1, ReusedQuiet
<1>7. CASE /\ new.pc \in {"save", "extract"} /\ n # held[r].snapshot.content
           /\ hands.content = n
  <2>1. ASSUME NEW s \in Requests, NEW what \in bought[s],
               s # r, ~(Met(s, r)'), req[s].pc # "refused"
        PROVE  NotAgain(what, s, r, new)'
    <3>1. PaidFor(what, s, req[s]) /\ NotAgain(what, s, r, req[r])
      BY <1>4, <2>1, ServedBefore
    <3>2. what \in bought[r] => what.content # 0 /\ (Disturbed(s, what.of)' \/ Disturbed(r, what.of)')
      BY <1>4, <2>1, AgainStays
    <3>3. Disturbed(s, what.of) => Disturbed(s, what.of)'
      BY <1>4, DisturbedStays DEF ReusedInv, GroundedInv
    <3>4. ASSUME what.content > 0, new.account = what.of
          PROVE  /\ held'[r].content >= what.content
                 /\ held'[r].content = what.content => Disturbed(s, what.of)'
      <4>1. held'[r].content = n /\ n = site[what.of] /\ n \in Nat /\ what.content \in Nat
        BY <1>1, <1>5, <1>7, <3>1, <3>4 DEF ReusedInv, PaidFor
      <4>2. what.content <= n
        BY <3>1, <3>4, <4>1 DEF PaidFor
      <4>3. held[r].snapshot.content = what.content \/ n > what.content \/ Disturbed(s, what.of)
        BY <1>1, <1>4, <3>1, <3>4, <4>1 DEF NotAgain
      <4> QED BY <1>7, <3>3, <4>1, <4>2, <4>3
    <3> QED BY <1>1, <1>7, <3>2, <3>4 DEF NotAgain
  <2>2. ReadsOwn(r, new)'
    <3>1. held'[r].content = n /\ n \in Nat \ {0} /\ n <= site'[new.account]
      BY <1>1, <1>5, <1>7 DEF ReusedInv
    <3> QED BY <3>1 DEF ReadsOwn
  <2>3. /\ \A what \in bought'[r] : PaidFor(what, r, new)'
        /\ \A s \in Requests : s # r => held'[s] = held[s] /\ bought'[s] = bought[s]
        /\ \A s \in Requests : \A what \in bought'[r] \cap bought[s] :
             s # r /\ ~(Met(r, s)') /\ req[s].pc # "refused" /\ what \notin bought[r] =>
               what.content # 0 /\ (Disturbed(r, what.of)' \/ Disturbed(s, what.of)')
        /\ \A page \in Pages : site'[page] = site[page]
        /\ \A image \in Images : profiles[image].known => profiles'[image].known
        /\ \A url \in NormalUrls : snapshots'[url].content = snapshots[url].content
    BY <1>1, <1>3, <1>5
  <2> QED BY <1>4, <2>1, <2>2, <2>3, ReusedStep
<1> QED BY <1>1, <1>6, <1>7

LEMMA ExtractFactsReused ==
  ASSUME ReusedInv, NEW r \in Requests, ExtractFacts(r)
  PROVE  ReusedInv'
<1>1. PICK new, hands :
           /\ GoesOnFor(r, new) /\ req[r].op = "profile" /\ req[r].pc = "extract"
           /\ HeldBecomes(r, hands)
           /\ Buys(r, [of |-> req[r].account, content |-> held[r].content])
           /\ UNCHANGED <<site, snapshots, profiles, handed>>
           /\ new.pc \in {"extract", "save"}
           /\ hands.content = held[r].content
  <2>1. PICK new, hands :
           /\ GoesOnFor(r, new) /\ req[r].op = "profile" /\ req[r].pc = "extract"
           /\ HeldBecomes(r, hands)
           /\ Buys(r, [of |-> req[r].account, content |-> held[r].content])
           /\ UNCHANGED <<site, snapshots, profiles, handed>>
           /\ new.pc \in {"extract", "save"}
           /\ hands.vision = held[r].vision /\ hands.content = held[r].content
           /\ hands.snapshot = held[r].snapshot
           /\ FoundOn(hands.facts, req[r].account) /\ hands.facts.of = req[r].account
    BY ExtractFactsMoves DEF ReusedInv
  <2> QED BY <2>1
<1>2. PICK call : /\ call = [of |-> req[r].account, content |-> held[r].content]
  OBVIOUS
<1>3. call.of = req[r].account /\ call.content = held[r].content
  BY <1>2
<1>4. /\ bought'[r] = bought[r] \cup {call}
      /\ \A s \in Requests : s # r => bought'[s] = bought[s]
  <2>1. Buys(r, call)
    BY <1>1, <1>2
  <2> QED BY <2>1, BoughtIs DEF ReusedInv, GroundedInv
<1>5. /\ held'[r].content = held[r].content
      /\ \A s \in Requests : s # r => held'[s] = held[s]
  BY <1>1, HeldIs DEF ReusedInv, GroundedInv, OnlyHeld
<1>6. /\ Moves(r, new) /\ new.account = req[r].account /\ GroundedInv' /\ new.op = "profile"
      /\ new.user = req[r].user
  BY <1>1, ExtractFactsGrounded DEF GoesOnFor, ReusedInv
<1>7. /\ call.of \in Pages /\ call.content \in Nat /\ call.content > 0
      /\ call.content <= site[call.of]
  <2>1. req[r].account \in Pages
    BY <1>1, Holding DEF AtPage, ReusedInv
  <2>2. ReadsOwn(r, req[r])
    BY DEF ReusedInv
  <2> QED BY <1>1, <1>3, <2>1, <2>2 DEF ReadsOwn
<1>8. \A page \in Pages : site'[page] = site[page]
  BY <1>1
<1>9. \A what \in bought'[r] : PaidFor(what, r, new)'
  <2>1. ASSUME NEW what, what \in bought[r]
        PROVE  PaidFor(what, r, new)'
    <3>1. PaidFor(what, r, req[r])
      BY <2>1 DEF ReusedInv
    <3>2. what.content > 0 => held'[r].content = what.content
      BY <1>1, <1>5, <3>1 DEF PaidFor
    <3>3. req[r].pc \notin Over
      BY <1>1 DEF Over
    <3> QED BY <1>1, <1>8, <2>1, <3>2, <3>3, StillPaid
  <2>2. PaidFor(call, r, new)'
    BY <1>1, <1>3, <1>5, <1>6, <1>7, <1>8 DEF PaidFor, Over
  <2> QED BY <1>4, <2>1, <2>2
<1>10. ASSUME NEW s \in Requests, NEW what \in bought[s],
              s # r, ~(Met(s, r)'), req[s].pc # "refused"
       PROVE  /\ NotAgain(what, s, r, new)'
              /\ what = call => Disturbed(s, what.of)' \/ Disturbed(r, what.of)'
  <2>1. NotAgain(what, s, r, req[r])
    BY <1>6, <1>10, ServedBefore
  <2>2. \A q, page : Disturbed(q, page) => Disturbed(q, page)'
    BY <1>6, DisturbedStays DEF ReusedInv, GroundedInv
  <2>3. what \in bought[r] => what.content # 0 /\ (Disturbed(s, what.of)' \/ Disturbed(r, what.of)')
    BY <1>6, <1>10, AgainStays
  <2>4. what = call => Disturbed(s, what.of)' \/ Disturbed(r, what.of)'
    BY <1>1, <1>3, <1>7, <2>1, <2>2 DEF NotAgain
  <2>5. what.content > 0 /\ new.account = what.of =>
          /\ held'[r].content >= what.content
          /\ held'[r].content = what.content => Disturbed(s, what.of)' \/ Disturbed(r, what.of)'
    BY <1>1, <1>5, <1>6, <2>1, <2>2 DEF NotAgain
  <2>6. what \in bought'[r] => what.content # 0 /\ (Disturbed(s, what.of)' \/ Disturbed(r, what.of)')
    BY <1>4, <1>7, <2>3, <2>4
  <2> QED BY <1>1, <2>4, <2>5, <2>6 DEF NotAgain
<1>11. ASSUME NEW s \in Requests, NEW what \in bought'[r] \cap bought[s],
              s # r, ~(Met(r, s)'), req[s].pc # "refused", what \notin bought[r]
       PROVE  what.content # 0 /\ (Disturbed(r, what.of)' \/ Disturbed(s, what.of)')
  <2>1. what = call
    BY <1>4, <1>11
  <2>2. ~(Met(s, r)')
    BY <1>11, MetBoth
  <2> QED BY <1>7, <1>10, <1>11, <2>1, <2>2
<1>12. ReadsOwn(r, new)'
  BY <1>3, <1>5, <1>6, <1>7, <1>8 DEF ReadsOwn
<1>13. /\ \A image \in Images : profiles[image].known => profiles'[image].known
       /\ \A url \in NormalUrls : snapshots'[url].content = snapshots[url].content
       /\ \A s \in Requests : s # r => held'[s] = held[s] /\ bought'[s] = bought[s]
  BY <1>1, <1>4, <1>5
<1> QED BY <1>6, <1>8, <1>9, <1>10, <1>11, <1>12, <1>13, ReusedStep

LEMMA SnapshotReused ==
  ASSUME ReusedInv, NEW r \in Requests, StoreSnapshot(r) \/ RenewSnapshot(r)
  PROVE  ReusedInv'
<1>1. PICK new :
           /\ GoesOnFor(r, new) /\ new.pc = "fuse"
           /\ req[r].op = "profile" /\ req[r].account \in Pages
           /\ UNCHANGED <<site, profiles, held, bought, handed>>
           /\ \A url \in NormalUrls :
                \/ snapshots'[url].content = snapshots[url].content
                \/ /\ req[r].pc = "save" /\ url = NormalUrl[req[r].account]
                   /\ snapshots'[url].content = held[r].content
           /\ req[r].pc \in {"save", "renew"}
           /\ req[r].pc = "save" =>
                snapshots'[NormalUrl[req[r].account]].content = held[r].content
  <2>1. PICK new : SnapshotBecomes(r, new)
    BY SnapshotMoves DEF ReusedInv
  <2> QED BY <2>1 DEF SnapshotBecomes
<1>2. \A what \in bought[r] : PaidFor(what, r, new)'
  <2>1. ASSUME NEW what, what \in bought[r]
        PROVE  PaidFor(what, r, new)'
    <3>1. PaidFor(what, r, req[r])
      BY <2>1 DEF ReusedInv
    <3>2. what.content > 0 => snapshots'[NormalUrl[what.of]].content = what.content
      BY <1>1, <3>1 DEF PaidFor, Over
    <3>3. req[r].pc \notin Over /\ \A page \in Pages : site'[page] = site[page]
      BY <1>1 DEF Over
    <3> QED BY <1>1, <2>1, <3>2, <3>3, StillPaid
  <2> QED BY <2>1
<1>3. Moves(r, new) /\ new.account = req[r].account /\ GroundedInv'
  BY <1>1, SnapshotGrounded DEF GoesOnFor, ReusedInv
<1>4. new.pc \notin {"vision", "fetch", "extract", "save"}
  BY <1>1
<1>5. \A url \in NormalUrls :
        \/ snapshots'[url].content = snapshots[url].content
        \/ /\ req[r].op = "profile" /\ req[r].pc = "save" /\ NormalUrl[req[r].account] = url
           /\ snapshots'[url].content = held[r].content
  BY <1>1
<1> QED BY <1>1, <1>2, <1>3, <1>4, <1>5, ReusedQuiet

LEMMA WriteProfileReused ==
  ASSUME ReusedInv, NEW r \in Requests, WriteProfile(r)
  PROVE  ReusedInv'
<1>1. PICK new :
           /\ GoesOnFor(r, new) /\ req[r].op = "profile" /\ req[r].pc = "fuse"
           /\ HeldBecomes(r, NothingHeld) /\ UNCHANGED <<site, snapshots, bought>>
           /\ req[r].user \in Images
           /\ \/ /\ new.pc = "done" /\ Hand(r, Fused(r))
                 /\ profiles' = [profiles EXCEPT ![req[r].user] = Fused(r)]
              \/ new.pc = "refused" /\ UNCHANGED <<profiles, handed>>
  BY WriteProfileMoves DEF ReusedInv
<1>2. /\ \A image \in Images : profiles[image].known => profiles'[image].known
      /\ new.pc = "done" => profiles'[req[r].user].known
  <2>1. PICK row : row = Fused(r)
    OBVIOUS
  <2>2. row.known
    BY <1>1, <2>1, FusedIs DEF ReusedInv
  <2>3. CASE profiles' = [profiles EXCEPT ![req[r].user] = row]
    BY <1>1, <2>2, <2>3 DEF ReusedInv, GroundedInv, ProductShape
  <2>4. CASE new.pc = "refused" /\ UNCHANGED <<profiles, handed>>
    BY <2>4
  <2> QED BY <1>1, <2>1, <2>3, <2>4
<1>3. \A what \in bought[r] : PaidFor(what, r, new)'
  <2>1. ASSUME NEW what, what \in bought[r]
        PROVE  PaidFor(what, r, new)'
    <3>1. PaidFor(what, r, req[r])
      BY <2>1 DEF ReusedInv
    <3>2. req[r].pc \notin Over /\ \A page \in Pages : site'[page] = site[page]
      BY <1>1 DEF Over
    <3>3. what.content = 0 /\ new.pc = "done" =>
            what.of \in Images /\ profiles'[what.of].known
      BY <1>1, <1>2, <3>1, <3>2 DEF PaidFor
    <3>4. what.content > 0 =>
            \/ snapshots'[NormalUrl[what.of]].content = what.content \/ site[what.of] > what.content
            \/ Disturbed(r, what.of)
      BY <1>1, <3>1 DEF PaidFor
    <3>5. new.pc \in {"done", "refused"}
      BY <1>1
    <3> QED BY <1>1, <2>1, <3>2, <3>3, <3>4, <3>5, StillPaid
  <2> QED BY <2>1
<1>4. Moves(r, new) /\ new.account = req[r].account /\ GroundedInv'
  BY <1>1, WriteProfileGrounded DEF GoesOnFor, ReusedInv
<1>5. \A s \in Requests : s # r => held'[s] = held[s]
  BY <1>1, HeldIs DEF ReusedInv, GroundedInv, OnlyHeld
<1>6. new.pc \notin {"vision", "fetch", "extract", "save"}
  BY <1>1
<1> QED BY <1>1, <1>2, <1>3, <1>4, <1>5, <1>6, ReusedQuiet

LEMMA ReusedNext ==
  ASSUME ReusedInv, [Next]_vars
  PROVE  ReusedInv'
<1>1. GroundedInv /\ GroundedInv'
  BY GroundedNext DEF ReusedInv
<1>2. ASSUME UNCHANGED productVars, NEW r \in Requests,
             NEW ops, Act(r, ops), "profile" \notin ops
      PROVE  ReusedInv'
  <2>1. PICK new : Moves(r, new) /\ Placed(new) /\ new.op \in ops
    BY <1>2 DEF Act
  <2> QED BY <1>2, <2>1, ReusedElsewhere
<1>3. /\ "profile" \notin MemoryOps \cup {"edit"} /\ "profile" \notin StudioOps
      /\ "profile" \notin OptimizerOps /\ "profile" \notin ReviewOps
  BY DEF MemoryOps, StudioOps, OptimizerOps, ReviewOps
<1>4. ASSUME UNCHANGED <<requestVars, productVars>>
      PROVE  ReusedInv'
  <2>1. UNCHANGED <<requestVars, site, snapshots, profiles, held, bought>>
    BY <1>4 DEF productVars
  <2> QED BY <1>1, <2>1, ReusedRest
<1>5. CASE MemoryStep /\ UNCHANGED productVars
  <2>1. PICK r \in Requests : Learns(r)
    BY <1>1, <1>5, MemoryLearns DEF GroundedInv
  <2>2. Act(r, MemoryOps \cup {"edit"})
    BY <2>1 DEF Learns, Act
  <2> QED BY <1>2, <1>3, <1>5, <2>2
<1>6. CASE StudioStep /\ UNCHANGED productVars
  BY <1>1, <1>2, <1>3, <1>6, StudioActs DEF GroundedInv
<1>7. CASE OptimizerStep /\ UNCHANGED productVars
  <2>1. CASE UNCHANGED requestVars
    BY <1>4, <1>7, <2>1
  <2> QED BY <1>1, <1>2, <1>3, <1>7, <2>1, OptimizerActs DEF GroundedInv
<1>8. CASE ModerationStep /\ UNCHANGED productVars
  BY <1>1, <1>2, <1>3, <1>8, ReviewActs DEF GroundedInv
<1>9. CASE SnapshotExpires \/ PageChanges
  <2>1. /\ UNCHANGED <<requestVars, profiles, held, bought>>
        /\ \A url \in NormalUrls : snapshots'[url].content = snapshots[url].content
        /\ \A page \in Pages : site'[page] = site[page] \/ site'[page] = site[page] + 1
    BY <1>1, <1>9, PagesMove
  <2> QED BY <1>1, <2>1, ReusedRest
<1>10. CASE ProductStep
  BY <1>9, <1>10, BuildProfileReused, AnalyzeImageReused, IdentifyReused, ProfileFailsReused,
     LookUpSnapshotReused, FetchPageReused, ExtractFactsReused, SnapshotReused,
     WriteProfileReused DEF ProductStep
<1>11. CASE UNCHANGED vars
  BY <1>4, <1>11 DEF vars
<1> QED BY <1>5, <1>6, <1>7, <1>8, <1>10, <1>11 DEF Next

LEMMA ReusedInit == Init => ReusedInv
<1> SUFFICES ASSUME Init PROVE ReusedInv
  OBVIOUS
<1>1. GroundedInv
  BY GroundedInit
<1>2. \A r \in Requests : req[r].pc = "new"
  BY PlacedInit DEF Init
<1>3. site = [page \in Pages |-> 1] /\ bought = [r \in Requests |-> {}]
  BY DEF Init, ProductInit
<1> QED BY <1>1, <1>2, <1>3 DEF ReusedInv, ReadsOwn

LEMMA ReusedGives == ReusedInv => AnalysesAreReused
<1> SUFFICES ASSUME ReusedInv, NEW r \in Requests, NEW s \in Requests,
                    NEW what, what \in bought[r] \cap bought[s],
                    r # s, "refused" \notin {req[r].pc, req[s].pc}
             PROVE  IF what.content = 0 THEN Met(r, s)
                    ELSE \E q \in Requests :
                           /\ req[q].account \in Alike(what.of)
                           /\ Met(q, r) \/ Met(q, s) \/ req[q].account # what.of
  BY DEF AnalysesAreReused
<1>1. PaidFor(what, r, req[r])
  BY DEF ReusedInv
<1>2. CASE Met(r, s)
  <2>1. what.content # 0 => req[r].account = what.of /\ what.of \in Alike(what.of)
    BY <1>1, AlikeFound DEF PaidFor
  <2> QED BY <1>2, <2>1
<1>3. CASE ~Met(r, s)
  <2>1. NotAgain(what, r, s, req[s])
    BY <1>3 DEF ReusedInv
  <2>2. what.content # 0 /\ (Disturbed(r, what.of) \/ Disturbed(s, what.of))
    BY <1>1, <2>1 DEF NotAgain, PaidFor
  <2> QED BY <2>2 DEF Disturbed
<1> QED BY <1>2, <1>3

\* No image and no content of a page is paid for twice, except where requests overlapped and
\* one has written what it had read before, or where two urls share a snapshot, for any
\* images, urls and contents, however often a page changes and however many requests.
THEOREM AnalysesAreAlwaysReused == Spec => []AnalysesAreReused
<1>1. Init => ReusedInv
  BY ReusedInit
<1>2. ReusedInv /\ [Next]_vars => ReusedInv'
  BY ReusedNext
<1>3. ReusedInv => AnalysesAreReused
  BY ReusedGives
<1> QED BY <1>1, <1>2, <1>3, PTL DEF Spec

-----------------------------------------------------------------------------
(* The figures.  A request that adds up the figures of its posts finds each of    *)
(* them at least as high as it was when the request began: everything written     *)
(* before is below what it will write, unless it is written without some post.     *)

PostsOf(p) == {i \in DOMAIN PostedOn : PostedOn[i] = p}
Asked(p, n) == {i \in PostsOf(p) : i < n}

\* Of those who had written before request r began, when b had seen each post.
Since(r, b) ==
  /\ b \in 0..reached
  /\ \A p \in Platforms : \A i \in DOMAIN metrics[p] :
       metrics[p][i].by # r /\ ~Met(metrics[p][i].by, r)
         => metrics[p][i].count <= b * Cardinality(PostsOf(p))
  /\ \A p \in DOMAIN fetched[r] : b * fetched[r][p].posts <= fetched[r][p].count

\* A request that has begun to add up writes one row of each platform, at the end.
AddsUp(r) ==
  /\ \A p \in DOMAIN fetched[r] :
       fetched[r][p].count <= reached * Cardinality(Asked(p, req[r].level))
  /\ \A p \in Platforms : \A i \in DOMAIN metrics[p] :
       metrics[p][i].by = r => Len(PostedOn) < req[r].level /\ p \notin DOMAIN fetched[r]
  /\ \E b : Since(r, b)

RowsOf(p) ==
  /\ \A i \in DOMAIN metrics[p] :
       /\ metrics[p][i].count <= reached * Cardinality(PostsOf(p))
       /\ req[metrics[p][i].by].pc # "new"
  /\ \A i, j \in DOMAIN metrics[p] :
       i < j /\ metrics[p][j].count < metrics[p][i].count
       => ~metrics[p][j].whole \/ Met(metrics[p][i].by, metrics[p][j].by)

FiguresInv ==
  /\ TypesInv
  /\ CountOf(metrics[Manual]) = declared
  /\ \A p \in Platforms : RowsOf(p)
  /\ \A r \in Requests : req[r].pc = "sync" => AddsUp(r)
  /\ \A r \in Requests : req[r].pc # "sync" => DOMAIN fetched[r] = {}

LEMMA PostsTyped ==
  /\ DOMAIN PostedOn = 1..Len(PostedOn) /\ Len(PostedOn) \in Nat
  /\ IsFiniteSet(DOMAIN PostedOn) /\ Cardinality(DOMAIN PostedOn) = Len(PostedOn)
  /\ \A i \in DOMAIN PostedOn : PostedOn[i] \in Platforms
  /\ \A T \in SUBSET DOMAIN PostedOn : IsFiniteSet(T) /\ Cardinality(T) \in Nat
<1>1. /\ DOMAIN PostedOn = 1..Len(PostedOn) /\ Len(PostedOn) \in Nat
      /\ \A i \in DOMAIN PostedOn : PostedOn[i] \in Platforms
  BY OptimizerAssumption
<1>2. 1 \in Int /\ Len(PostedOn) \in Int
  BY <1>1
<1>3. /\ IsFiniteSet(1..Len(PostedOn))
      /\ Cardinality(1..Len(PostedOn)) = IF 1 > Len(PostedOn) THEN 0 ELSE Len(PostedOn) - 1 + 1
  BY <1>2, FS_Interval
<1>4. \A T \in SUBSET DOMAIN PostedOn : IsFiniteSet(T) /\ Cardinality(T) \in Nat
  BY <1>1, <1>3, FS_Subset, FS_CardinalityType
<1>5. Cardinality(DOMAIN PostedOn) = Len(PostedOn)
  BY <1>1, <1>3
<1> QED BY <1>1, <1>3, <1>4, <1>5

\* Every post is on one platform.
LEMMA PostsAddUp ==
  ASSUME NEW c \in Nat
  PROVE  SumFunctionOnSet([p \in Platforms |-> c * Cardinality(PostsOf(p))], Platforms)
           = c * Len(PostedOn)
<1>1. PICK D, at : D = DOMAIN PostedOn /\ at = PostedOn
  OBVIOUS
<1>2. /\ IsFiniteSet(D) /\ Cardinality(D) = Len(PostedOn)
      /\ \A x \in D : at[x] \in Platforms
  BY <1>1, PostsTyped
<1>3. IsFiniteSet(Platforms)
  BY OptimizerAssumption
<1>4. SumFunctionOnSet([p \in Platforms |-> c * Cardinality({x \in D : at[x] = p})], Platforms)
        = c * Cardinality(D)
  BY <1>2, <1>3, SumOfParts
<1> QED BY <1>1, <1>2, <1>4 DEF PostsOf

-----------------------------------------------------------------------------
\* All that was declared, and of each platform no more than it has counted.
LEMMA FiguresTrue ==
  ASSUME FiguresInv
  PROVE  FiguresAreTrue
<1> DEFINE f == [p \in Platforms |-> LatestOf(metrics[p])]
           g == [p \in Platforms |-> reached * Cardinality(PostsOf(p))]
<1>1. /\ IsFiniteSet(Platforms) /\ Platforms \subseteq Columns /\ reached \in Nat /\ declared \in Nat
      /\ metrics \in [Columns -> Seq(Rows)]
  BY OptimizerAssumption DEF FiguresInv, TypesInv, FiguresTyped, Columns
<1>2. ASSUME NEW p \in Platforms
      PROVE  f[p] \in Nat /\ g[p] \in Nat /\ f[p] <= g[p]
  <2>1. metrics[p] \in Seq(Rows)
    BY <1>1
  <2>2. PICK n \in Nat : n = Cardinality(PostsOf(p))
    BY PostsTyped DEF PostsOf
  <2>3. reached * n \in Nat
    BY <1>1
  <2>4. CASE metrics[p] = <<>>
    <3>1. f[p] = 0
      BY <2>4 DEF LatestOf
    <3> QED BY <2>2, <2>3, <3>1
  <2>5. CASE metrics[p] # <<>>
    <3>1. Len(metrics[p]) \in DOMAIN metrics[p] /\ metrics[p][Len(metrics[p])] \in Rows
      BY <2>1, <2>5
    <3>2. metrics[p][Len(metrics[p])].count <= reached * Cardinality(PostsOf(p))
      BY <3>1 DEF FiguresInv, RowsOf
    <3>3. f[p] = metrics[p][Len(metrics[p])].count
      BY <2>5 DEF LatestOf
    <3> QED BY <2>2, <2>3, <3>1, <3>2, <3>3 DEF Rows
  <2> QED BY <2>4, <2>5
<1>3. /\ SumFunctionOnSet(f, Platforms) <= SumFunctionOnSet(g, Platforms)
      /\ SumFunctionOnSet(f, Platforms) \in Int
  <2> HIDE DEF f, g
  <2>1. \A p \in Platforms : f[p] \in Int /\ g[p] \in Int
    BY <1>2
  <2> QED BY <1>1, <1>2, <2>1, SumMonotone, SumInt
<1>4. 0 <= SumFunctionOnSet(f, Platforms)
  <2> HIDE DEF f
  <2>1. PICK n \in Nat : n = Cardinality(Platforms)
    BY <1>1, FS_CardinalityType
  <2>2. PICK high \in Nat : \A p \in Platforms : f[p] <= high
    <3>1. PICK m \in Nat : m = Len(PostedOn)
      BY PostsTyped
    <3>2. \A p \in Platforms : Cardinality(PostsOf(p)) \in Nat /\ Cardinality(PostsOf(p)) <= m
      <4>1. \A p \in Platforms : PostsOf(p) \subseteq DOMAIN PostedOn
        BY DEF PostsOf
      <4> QED BY <3>1, <4>1, PostsTyped, FS_Subset
    <3>3. \A k \in Nat : k <= m => reached * k <= reached * m
      BY <1>1
    <3>4. \A p \in Platforms : f[p] <= reached * m
      <4>1. ASSUME NEW p \in Platforms
            PROVE  f[p] <= reached * m
        <5>1. PICK k \in Nat : k = Cardinality(PostsOf(p)) /\ k <= m
          BY <3>2
        <5>2. f[p] \in Nat /\ f[p] <= reached * k
          BY <1>2, <5>1
        <5>3. reached * k \in Nat /\ reached * m \in Nat
          BY <1>1
        <5> QED BY <3>3, <5>1, <5>2, <5>3
      <4> QED BY <4>1
    <3>5. reached * m \in Nat
      BY <1>1
    <3> QED BY <3>4, <3>5
  <2>3. \A p \in Platforms : f[p] \in Int /\ 0 <= f[p] /\ f[p] <= high
    BY <1>2, <2>2
  <2>4. 0 * n <= SumFunctionOnSet(f, Platforms)
    BY <1>1, <2>1, <2>2, <2>3, SumBounds
  <2>5. 0 * n = 0
    OBVIOUS
  <2> QED BY <2>4, <2>5
<1>5. SumFunctionOnSet(g, Platforms) = reached * Len(PostedOn)
  BY <1>1, PostsAddUp
<1>6. OfPlatforms = SumFunctionOnSet(f, Platforms)
  BY DEF OfPlatforms, SumFunction
<1>7. Aggregated = SumFunctionOnSet(f, Platforms) + declared
  BY <1>6 DEF Aggregated, FiguresInv
<1>8. Aggregated \in declared..(declared + reached * Len(PostedOn))
  <2> HIDE DEF f, g
  <2>1. PICK s \in Int, m \in Int : s = SumFunctionOnSet(f, Platforms) /\ m = reached * Len(PostedOn)
    BY <1>1, <1>3, PostsTyped
  <2>2. 0 <= s /\ s <= m /\ Aggregated = s + declared
    BY <1>3, <1>4, <1>5, <1>7, <2>1
  <2> QED BY <1>1, <2>1, <2>2
<1>9. \A p \in Platforms : RowsOf(p)
  BY DEF FiguresInv
<1> QED BY <1>8, <1>9 DEF FiguresAreTrue, RowsOf

\* What a step leaves alone of a request that adds up, and of the rows.
LEMMA AddsUpKept ==
  ASSUME NEW s \in Requests, AddsUp(s), req'[s] = req[s], fetched'[s] = fetched[s],
         met \subseteq met', reached' = reached, \A q \in Platforms : metrics'[q] = metrics[q]
  PROVE  AddsUp(s)'
<1>1. PICK b : Since(s, b)
  BY DEF AddsUp
<1>2. \A q : ~Met(q, s)' => ~Met(q, s)
  BY DEF Met
<1>3. Since(s, b)'
  BY <1>1, <1>2 DEF Since
<1> QED BY <1>3 DEF AddsUp

LEMMA RowsOfKept ==
  ASSUME TypesInv, NEW p \in Platforms, RowsOf(p), met \subseteq met',
         \A s \in Requests : req[s].pc # "new" => req'[s].pc # "new",
         reached' = reached, \A q \in Platforms : metrics'[q] = metrics[q]
  PROVE  RowsOf(p)'
<1>1. metrics[p] \in Seq(Rows)
  BY DEF TypesInv, FiguresTyped, Columns
<1>2. \A i \in DOMAIN metrics[p] : metrics[p][i].by \in Requests
  <2>1. \A i \in DOMAIN metrics[p] : metrics[p][i] \in Rows
    BY <1>1
  <2> QED BY <2>1 DEF Rows
<1> QED BY <1>2 DEF RowsOf, Met

LEMMA FiguresStep ==
  ASSUME FiguresInv, NEW r \in Requests, NEW new, Moves(r, new), TypesInv',
         CountOf(metrics'[Manual]) = declared', \A p \in Platforms : RowsOf(p)',
         new.pc = "sync" => AddsUp(r)', new.pc # "sync" => DOMAIN fetched'[r] = {},
         \A s \in Requests : s # r =>
           fetched'[s] = fetched[s] /\ (req[s].pc = "sync" => AddsUp(s)')
  PROVE  FiguresInv'
<1>1. req'[r].pc = new.pc /\ \A s \in Requests : s # r => req'[s] = req[s]
  BY MovesRequest DEF FiguresInv, TypesInv, PlacedInv
<1> QED BY <1>1 DEF FiguresInv

LEMMA FiguresKept ==
  ASSUME FiguresInv, NEW r \in Requests, NEW new, Moves(r, new), Placed(new),
         UNCHANGED <<reached, declared, metrics>>,
         \A s \in Requests : s # r => fetched'[s] = fetched[s],
         TypesInv',
         new.pc = "sync" => AddsUp(r)', new.pc # "sync" => DOMAIN fetched'[r] = {}
  PROVE  FiguresInv'
<1>1. /\ \A s \in Requests : s # r => req'[s] = req[s]
      /\ met \subseteq met' /\ req'[r].pc = new.pc /\ new.pc # "new"
  BY MovesRequest DEF FiguresInv, TypesInv, PlacedInv, Moves
<1>2. \A s \in Requests : s # r /\ req[s].pc = "sync" => AddsUp(s)'
  BY <1>1, AddsUpKept DEF FiguresInv
<1>3. \A p \in Platforms : RowsOf(p)'
  BY <1>1, RowsOfKept DEF FiguresInv
<1>4. CountOf(metrics'[Manual]) = declared'
  BY DEF FiguresInv
<1> QED BY <1>2, <1>3, <1>4, FiguresStep

\* A step of something else than the figures.
LEMMA FiguresElsewhere ==
  ASSUME FiguresInv, NEW r \in Requests, NEW new, Moves(r, new), Placed(new),
         UNCHANGED <<reached, declared, metrics, fetched>>,
         new.pc # "sync", DOMAIN fetched[r] = {}
  PROVE  FiguresInv'
<1>1. TypesInv'
  BY TypesElsewhere DEF FiguresInv
<1> QED BY <1>1, FiguresKept

LEMMA FiguresRest ==
  ASSUME FiguresInv, UNCHANGED <<requestVars, optimizerVars>>
  PROVE  FiguresInv'
<1>1. UNCHANGED <<req, met, reached, declared, metrics, fetched>>
  BY DEF requestVars, optimizerVars
<1>2. FiguresTyped'
  BY <1>1 DEF FiguresInv, TypesInv, FiguresTyped, Added0
<1>3. TypesInv'
  BY <1>2, TypesRest DEF FiguresInv
<1>4. \A s \in Requests : req[s].pc = "sync" => AddsUp(s)'
  BY <1>1, AddsUpKept DEF FiguresInv
<1>5. \A p \in Platforms : RowsOf(p)'
  BY <1>1, RowsOfKept DEF FiguresInv
<1>6. CountOf(metrics'[Manual]) = declared'
  BY <1>1 DEF FiguresInv
<1> QED BY <1>1, <1>3, <1>4, <1>5, <1>6 DEF FiguresInv

\* A request begins to add up: whatever was written so far is no more than has been seen.
LEMMA SyncBegins ==
  ASSUME FiguresInv, NEW r \in Requests, AnalyzeCampaign(r) \/ MeasureOutcome(r)
  PROVE  FiguresInv'
<1>1. PICK i, x : /\ Call(r, x)
                  /\ \/ x = [NewRequest EXCEPT !.op = "analyze", !.pc = "sync", !.level = 1]
                     \/ x = [NewRequest EXCEPT !.op = "measure", !.pc = "sync", !.level = 1,
                                               !.seen = i]
  BY DEF AnalyzeCampaign, MeasureOutcome
<1>2. Started(x, OptimizerOps) /\ Placed(x) /\ x.level = 1 /\ x.pc = "sync"
  BY <1>1 DEF Started, IsRequest, NewRequest, Placed, Fits, Learning, OptimizerOps
<1>3. Moves(r, x) /\ req[r].pc = "new"
  BY <1>1, <1>2, CallActs DEF AnalyzeCampaign, MeasureOutcome, Arrives
<1>4. UNCHANGED <<reached, declared, metrics, fetched>>
  BY DEF AnalyzeCampaign, MeasureOutcome, optimizerVars
<1>5. TypesInv'
  BY OptimizerOtherTypes DEF OptimizerOther, FiguresInv
<1>6. req'[r] = x /\ met \subseteq met'
  <2>1. req'[r] = Left(x) /\ met \subseteq met'
    BY <1>3, MovesRequest DEF FiguresInv, TypesInv, PlacedInv
  <2> QED BY <1>2, <2>1, LeftIsRequest DEF Started
<1>7. DOMAIN fetched[r] = {}
  BY <1>3 DEF FiguresInv
<1>8. AddsUp(r)'
  <2>1. \A p \in Platforms : \A j \in DOMAIN metrics[p] :
          metrics[p][j].by # r /\ metrics[p][j].count <= reached * Cardinality(PostsOf(p))
    BY <1>3 DEF FiguresInv, RowsOf
  <2>2. reached \in 0..reached
    BY DEF FiguresInv, TypesInv, FiguresTyped
  <2>3. Since(r, reached)'
    <3>1. PICK b : b = reached
      OBVIOUS
    <3>2. Since(r, b)'
      BY <1>4, <1>7, <2>1, <2>2, <3>1 DEF Since
    <3> QED BY <1>4, <3>1, <3>2
  <2>4. \E b : Since(r, b)'
    <3>1. PICK b : b = reached
      OBVIOUS
    <3>2. Since(r, b)'
      BY <1>4, <1>7, <2>1, <2>2, <3>1 DEF Since
    <3> QED BY <3>2
  <2> QED BY <1>4, <1>7, <2>1, <2>4 DEF AddsUp
<1> QED BY <1>2, <1>3, <1>4, <1>5, <1>8, FiguresKept

LEMMA OptimizerFailsFigures ==
  ASSUME FiguresInv, NEW r \in Requests, OptimizerFails(r)
  PROVE  FiguresInv'
<1>1. /\ Goto(r, "refused") /\ req[r].pc \notin {"new"} \cup Over
      /\ fetched' = [fetched EXCEPT ![r] = NothingFetched]
      /\ UNCHANGED <<reached, declared, metrics>>
  BY DEF OptimizerFails, Over
<1>2. PICK new : /\ Moves(r, new) /\ new.pc = "refused" /\ new.op = req[r].op
                 /\ new.user = req[r].user
  BY <1>1, GoesOn DEF FiguresInv, TypesInv, PlacedInv
<1>3. Placed(new)
  BY <1>2 DEF FiguresInv, TypesInv, PlacedInv, Placed, Fits, Learning
<1>4. TypesInv'
  BY OptimizerFailsTypes DEF FiguresInv
<1>5. /\ \A s \in Requests : s # r => fetched'[s] = fetched[s]
      /\ fetched'[r] = NothingFetched /\ DOMAIN NothingFetched = {}
  BY <1>1 DEF FiguresInv, TypesInv, FiguresTyped, NothingFetched
<1> QED BY <1>1, <1>2, <1>3, <1>4, <1>5, FiguresKept

\* The other steps of the optimizer come after the figures.
LEMMA AfterFigures ==
  ASSUME FiguresInv, NEW r \in Requests,
         \/ AllWritten(r) \/ AssertOptimizerRun(r) \/ NothingGenerated(r)
         \/ CreateRecommendation(r) \/ Review(r) \/ WriteReview(r) \/ WriteOutcome(r)
  PROVE  FiguresInv'
<1>1. UNCHANGED <<reached, declared, metrics, fetched>>
  BY DEF AllWritten, AssertOptimizerRun, NothingGenerated, CreateRecommendation, Review,
         WriteReview, WriteOutcome, optimizerVars
<1>2. DOMAIN fetched[r] = {}
  <2>1. req[r].pc # "sync" \/ fetched[r] = NothingFetched
    BY DEF AllWritten, AssertOptimizerRun, NothingGenerated, CreateRecommendation, Review,
           WriteReview, WriteOutcome, Doing, Arrives
  <2> QED BY <2>1 DEF FiguresInv, NothingFetched
<1>3. \E new : Moves(r, new) /\ Placed(new) /\ new.pc # "sync"
  <2>1. ASSUME Review(r)
        PROVE  \E new : Moves(r, new) /\ Placed(new) /\ new.pc # "sync"
    <3>1. PICK i, decision, pc, x :
            /\ Call(r, x) /\ pc \in {"write", "refused"}
            /\ x = [NewRequest EXCEPT !.op = "review", !.seen = i, !.value = decision, !.pc = pc]
      <4>1. PICK i, decision :
              Call(r, [NewRequest EXCEPT !.op = "review", !.seen = i, !.value = decision,
                                         !.pc = IF MayBeDecided(i) THEN "write" ELSE "refused"])
        BY <2>1 DEF Review
      <4>2. PICK pc \in {"write", "refused"} : pc = IF MayBeDecided(i) THEN "write" ELSE "refused"
        OBVIOUS
      <4> QED BY <4>1, <4>2
    <3>2. Started(x, OptimizerOps) /\ Placed(x) /\ x.pc # "sync"
      BY <3>1 DEF Started, IsRequest, NewRequest, Placed, Fits, Learning, OptimizerOps
    <3>3. Moves(r, x)
      BY <2>1, <3>1, <3>2, CallActs DEF Review
    <3> QED BY <3>2, <3>3
  <2>2. ASSUME \/ AllWritten(r) \/ AssertOptimizerRun(r) \/ NothingGenerated(r)
               \/ CreateRecommendation(r) \/ WriteReview(r) \/ WriteOutcome(r)
        PROVE  \E new : Moves(r, new) /\ Placed(new) /\ new.pc # "sync"
    <3>1. PICK pc \in {"aggregate", "refused", "done", "create"} : Goto(r, pc)
      BY <2>2 DEF AllWritten, AssertOptimizerRun, NothingGenerated, CreateRecommendation,
                  WriteReview, WriteOutcome
    <3>2. req[r].pc \notin {"new"} \cup Over
      BY <2>2 DEF AllWritten, AssertOptimizerRun, NothingGenerated, CreateRecommendation,
                  WriteReview, WriteOutcome, Doing, Over
    <3>3. PICK new : /\ Moves(r, new) /\ new.pc = pc /\ new.op = req[r].op
                     /\ new.user = req[r].user
      BY <3>1, <3>2, GoesOn DEF FiguresInv, TypesInv, PlacedInv
    <3>4. Placed(new)
      BY <3>1, <3>3 DEF FiguresInv, TypesInv, PlacedInv, Placed, Fits, Learning
    <3> QED BY <3>1, <3>3, <3>4
  <2> QED BY <2>1, <2>2
<1> QED BY <1>1, <1>2, <1>3, FiguresElsewhere

-----------------------------------------------------------------------------
\* One more post is asked for.
LEMMA AskedOneMore ==
  ASSUME NEW n \in DOMAIN PostedOn
  PROVE  /\ \A p : /\ Cardinality(Asked(p, n)) \in Nat /\ Cardinality(Asked(p, n + 1)) \in Nat
                   /\ Cardinality(Asked(p, n)) <= Cardinality(Asked(p, n + 1))
         /\ Cardinality(Asked(PostedOn[n], n + 1)) = Cardinality(Asked(PostedOn[n], n)) + 1
<1>1. /\ DOMAIN PostedOn = 1..Len(PostedOn) /\ Len(PostedOn) \in Nat
      /\ \A p : \A m : IsFiniteSet(Asked(p, m)) /\ Cardinality(Asked(p, m)) \in Nat
  <2>1. \A p : \A m : Asked(p, m) \in SUBSET DOMAIN PostedOn
    BY DEF Asked, PostsOf
  <2> QED BY <2>1, PostsTyped
<1>2. \A p : Asked(p, n) \subseteq Asked(p, n + 1)
  BY <1>1 DEF Asked, PostsOf
<1>3. /\ Asked(PostedOn[n], n + 1) = Asked(PostedOn[n], n) \cup {n}
      /\ n \notin Asked(PostedOn[n], n)
  BY <1>1 DEF Asked, PostsOf
<1>4. \A p : Cardinality(Asked(p, n)) <= Cardinality(Asked(p, n + 1))
  BY <1>1, <1>2, FS_Subset
<1>5. Cardinality(Asked(PostedOn[n], n + 1)) = Cardinality(Asked(PostedOn[n], n)) + 1
  BY <1>1, <1>3, FS_AddElement
<1> QED BY <1>1, <1>4, <1>5

\* What a request has added up of a platform when its sum became count and posts.
LEMMA SumsGrow ==
  ASSUME NEW sums, Added0(sums), NEW n \in DOMAIN PostedOn, NEW high \in Nat, NEW low \in 0..high,
         \A p \in DOMAIN sums : /\ sums[p].count <= high * Cardinality(Asked(p, n))
                                /\ low * sums[p].posts <= sums[p].count,
         NEW new, Added0(new), DOMAIN new \subseteq DOMAIN sums \cup {PostedOn[n]},
         \A p \in DOMAIN new : p # PostedOn[n] => new[p] = sums[p],
         PostedOn[n] \in DOMAIN new =>
           LET p == PostedOn[n]
               sum == IF p \in DOMAIN sums THEN sums[p] ELSE [count |-> 0, posts |-> 0]
           IN  \/ new[p].count = sum.count /\ new[p].posts = sum.posts
               \/ new[p].count = sum.count + high /\ new[p].posts = sum.posts + 1
  PROVE  \A p \in DOMAIN new : /\ new[p].count <= high * Cardinality(Asked(p, n + 1))
                               /\ low * new[p].posts <= new[p].count
<1>1. \A k, m \in Nat : k <= m => high * k <= high * m
  OBVIOUS
<1>2. \A m \in Nat : /\ high * (m + 1) = high * m + high /\ low * (m + 1) = low * m + low
                     /\ high * m \in Nat /\ low * m \in Nat
  OBVIOUS
<1>3. low * 0 = 0 /\ high * 0 = 0 /\ low <= high /\ low \in Nat
  OBVIOUS
<1>4. ASSUME NEW p \in DOMAIN new, p # PostedOn[n]
      PROVE  new[p].count <= high * Cardinality(Asked(p, n + 1)) /\ low * new[p].posts <= new[p].count
  <2>1. p \in DOMAIN sums /\ new[p] = sums[p] /\ sums[p].count \in Nat
    BY <1>4 DEF Added0
  <2>2. PICK k \in Nat, m \in Nat : k = Cardinality(Asked(p, n)) /\ m = Cardinality(Asked(p, n + 1)) /\ k <= m
    BY AskedOneMore
  <2>3. high * k <= high * m /\ high * k \in Nat /\ high * m \in Nat
    BY <1>1, <1>2, <2>2
  <2> QED BY <2>1, <2>2, <2>3
<1>5. ASSUME PostedOn[n] \in DOMAIN new
      PROVE  /\ new[PostedOn[n]].count <= high * Cardinality(Asked(PostedOn[n], n + 1))
             /\ low * new[PostedOn[n]].posts <= new[PostedOn[n]].count
  <2>1. PICK p : p = PostedOn[n]
    OBVIOUS
  <2>2. PICK k \in Nat : k = Cardinality(Asked(p, n)) /\ Cardinality(Asked(p, n + 1)) = k + 1
    BY <2>1, AskedOneMore
  <2>3. PICK count \in Nat, posts \in Nat :
          /\ count <= high * k /\ low * posts <= count
          /\ \/ new[p].count = count /\ new[p].posts = posts
             \/ new[p].count = count + high /\ new[p].posts = posts + 1
    <3>1. CASE p \in DOMAIN sums
      BY <1>5, <2>1, <2>2, <3>1 DEF Added0
    <3>2. CASE p \notin DOMAIN sums
      <4>1. 0 <= high * k /\ low * 0 <= 0
        BY <1>2, <1>3, <2>2
      <4>2. \/ new[p].count = 0 /\ new[p].posts = 0
            \/ new[p].count = 0 + high /\ new[p].posts = 0 + 1
        BY <1>5, <2>1, <3>2
      <4> QED BY <4>1, <4>2
    <3> QED BY <3>1, <3>2
  <2>4. /\ high * (k + 1) = high * k + high /\ low * (posts + 1) = low * posts + low
        /\ high * k \in Nat /\ low * posts \in Nat
    BY <1>2
  <2>5. PICK a \in Nat, b \in Nat : a = high * k /\ b = low * posts
    BY <2>4
  <2>6. new[p].count <= a + high /\ low * new[p].posts <= new[p].count
    <3>1. CASE new[p].count = count /\ new[p].posts = posts
      BY <2>3, <2>5, <3>1
    <3>2. CASE new[p].count = count + high /\ new[p].posts = posts + 1
      <4>1. low * new[p].posts = b + low
        BY <2>4, <2>5, <3>2
      <4> QED BY <1>3, <2>3, <2>5, <3>2, <4>1
    <3> QED BY <2>3, <3>1, <3>2
  <2> QED BY <2>1, <2>2, <2>4, <2>5, <2>6
<1> QED BY <1>4, <1>5

\* What is added to the sum of a platform: the figures of one post, or nothing.
AddsTo(sums, after, p, count) ==
  /\ DOMAIN after \subseteq DOMAIN sums \cup {p}
  /\ \A q \in DOMAIN after : q # p => after[q] = sums[q]
  /\ p \in DOMAIN after =>
       LET sum == IF p \in DOMAIN sums THEN sums[p] ELSE [count |-> 0, posts |-> 0]
       IN  \/ after[p].count = sum.count /\ after[p].posts = sum.posts
           \/ after[p].count = sum.count + count /\ after[p].posts = sum.posts + 1

LEMMA AddedAnswer ==
  ASSUME NEW sums, Added0(sums), NEW p \in Platforms, NEW count \in Nat, NEW after,
         \/ after = Added(sums, p, count, TRUE)
         \/ after = Added(sums, p, 0, FALSE)
  PROVE  AddsTo(sums, after, p, count)
<1>1. PICK sum : sum = IF p \in DOMAIN sums THEN sums[p] ELSE [count |-> 0, posts |-> 0]
  OBVIOUS
<1>2. sum.count \in Nat /\ sum.posts \in Nat
  <2>1. CASE p \in DOMAIN sums
    BY <1>1, <2>1 DEF Added0
  <2>2. CASE p \notin DOMAIN sums
    <3>1. sum = [count |-> 0, posts |-> 0]
      BY <1>1, <2>2
    <3> QED BY <3>1
  <2> QED BY <2>1, <2>2
<1>3. CASE after = Added(sums, p, count, TRUE)
  <2>1. /\ DOMAIN after = DOMAIN sums \cup {p}
        /\ \A q \in DOMAIN sums : q # p => after[q] = sums[q]
        /\ after[p].count = sum.count + count /\ after[p].posts = sum.posts + 1
    BY <1>1, <1>3 DEF Added
  <2> QED BY <1>1, <2>1 DEF AddsTo
<1>4. CASE after = Added(sums, p, 0, FALSE)
  <2>1. /\ DOMAIN after = DOMAIN sums \cup {p}
        /\ \A q \in DOMAIN sums : q # p => after[q] = sums[q]
        /\ after[p].count = sum.count + 0 /\ after[p].posts = sum.posts + 0
    BY <1>1, <1>4 DEF Added
  <2> QED BY <1>1, <1>2, <2>1 DEF AddsTo
<1> QED BY <1>3, <1>4

LEMMA FetchInsightsFigures ==
  ASSUME FiguresInv, NEW r \in Requests, FetchInsights(r)
  PROVE  FiguresInv'
<1>1. PICK new : /\ Moves(r, new) /\ Placed(new) /\ new.op = req[r].op /\ new.pc = "sync"
                 /\ new.level = req[r].level + 1
  BY FetchInsightsMoves DEF FiguresInv, TypesInv
<1>2. req[r].pc = "sync" /\ AddsUp(r)
  BY DEF FetchInsights, FiguresInv
<1>3. PICK n \in DOMAIN PostedOn : n = req[r].level
  <2>1. req[r].level \in Nat \ {0}
    BY FetchInsightsMoves DEF FiguresInv, TypesInv, Fetching
  <2> QED BY <2>1, PostsTyped DEF FetchInsights
<1>4. req'[r].level = n + 1 /\ met \subseteq met'
  <2>1. req'[r] = Left(new) /\ met \subseteq met'
    BY <1>1, MovesRequest DEF FiguresInv, TypesInv, PlacedInv
  <2> QED BY <1>1, <1>3, <2>1, LeftIsRequest DEF Moves
<1>5. TypesInv' /\ UNCHANGED <<reached, declared, metrics>>
  BY FetchInsightsTypes DEF FiguresInv, FetchInsights
<1>6. Added0(fetched[r]) /\ Added0(fetched'[r]) /\ reached \in Nat
  BY <1>5 DEF FiguresInv, TypesInv, FiguresTyped
<1>7. PICK low : Since(r, low)
  BY <1>2 DEF AddsUp
<1>8. PICK platform : platform = PostedOn[n] /\ platform \in Platforms
  BY PostsTyped
<1>9. /\ \A s \in Requests : s # r => fetched'[s] = fetched[s]
      /\ \/ fetched'[r] = Added(fetched[r], platform, reached, TRUE)
         \/ fetched'[r] = Added(fetched[r], platform, 0, FALSE)
         \/ fetched'[r] = fetched[r]
  <2>1. \/ fetched' = [fetched EXCEPT ![r] = Added(@, platform, reached, TRUE)]
        \/ fetched' = [fetched EXCEPT ![r] = Added(@, platform, 0, FALSE)]
        \/ UNCHANGED fetched
    BY <1>3, <1>8 DEF FetchInsights
  <2> QED BY <2>1 DEF FiguresInv, TypesInv, FiguresTyped
<1>10. /\ DOMAIN fetched'[r] \subseteq DOMAIN fetched[r] \cup {PostedOn[n]}
       /\ \A p \in DOMAIN fetched'[r] : p # PostedOn[n] => fetched'[r][p] = fetched[r][p]
       /\ PostedOn[n] \in DOMAIN fetched'[r] =>
            LET p == PostedOn[n]
                sum == IF p \in DOMAIN fetched[r] THEN fetched[r][p] ELSE [count |-> 0, posts |-> 0]
            IN  \/ fetched'[r][p].count = sum.count /\ fetched'[r][p].posts = sum.posts
                \/ fetched'[r][p].count = sum.count + reached /\ fetched'[r][p].posts = sum.posts + 1
  <2>1. CASE fetched'[r] = Added(fetched[r], platform, reached, TRUE)
    <3>1. PICK sums, after, count : sums = fetched[r] /\ after = fetched'[r] /\ count = reached
      OBVIOUS
    <3>2. AddsTo(sums, after, platform, count)
      BY <1>6, <1>8, <2>1, <3>1, AddedAnswer
    <3> QED BY <1>8, <3>1, <3>2 DEF AddsTo
  <2>2. CASE fetched'[r] = Added(fetched[r], platform, 0, FALSE)
    <3>1. PICK sums, after, count : sums = fetched[r] /\ after = fetched'[r] /\ count = reached
      OBVIOUS
    <3>2. AddsTo(sums, after, platform, count)
      BY <1>6, <1>8, <2>2, <3>1, AddedAnswer
    <3> QED BY <1>8, <3>1, <3>2 DEF AddsTo
  <2>3. CASE fetched'[r] = fetched[r]
    BY <2>3
  <2> QED BY <1>9, <2>1, <2>2, <2>3
<1>11. \A p \in DOMAIN fetched'[r] :
         /\ fetched'[r][p].count <= reached * Cardinality(Asked(p, n + 1))
         /\ low * fetched'[r][p].posts <= fetched'[r][p].count
  <2>1. \A p \in DOMAIN fetched[r] : /\ fetched[r][p].count <= reached * Cardinality(Asked(p, n))
                                     /\ low * fetched[r][p].posts <= fetched[r][p].count
    BY <1>2, <1>3, <1>7 DEF AddsUp, Since
  <2>2. low \in 0..reached
    BY <1>7 DEF Since
  <2>3. PICK sums, after : sums = fetched[r] /\ after = fetched'[r]
    OBVIOUS
  <2>4. Added0(sums) /\ Added0(after)
    BY <1>6, <2>3
  <2> QED BY <1>6, <1>10, <2>1, <2>2, <2>3, <2>4, SumsGrow
<1>12. \A p \in Platforms : \A i \in DOMAIN metrics[p] : metrics[p][i].by # r
  BY <1>2, <1>3, PostsTyped DEF AddsUp
<1>13. AddsUp(r)'
  <2>1. Since(r, low)'
    <3>1. \A q : ~Met(q, r)' => ~Met(q, r)
      BY <1>4 DEF Met
    <3> QED BY <1>5, <1>7, <1>11, <3>1 DEF Since
  <2> QED BY <1>4, <1>5, <1>11, <1>12, <2>1 DEF AddsUp
<1> QED BY <1>1, <1>5, <1>9, <1>13, FiguresKept

-----------------------------------------------------------------------------
\* The row of a platform: of those who had written before it began, none counted more.
LEMMA RowIsAdded ==
  ASSUME FiguresInv, NEW r \in Requests, WriteRow(r)
  PROVE  /\ UNCHANGED <<requestVars, reached, declared>> /\ TypesInv'
         /\ req[r].pc = "sync" /\ req[r].level > Len(PostedOn)
         /\ \E p \in DOMAIN fetched[r] : \E row \in Rows :
              /\ p \in Platforms
              /\ row.by = r /\ row.count = fetched[r][p].count
              /\ row.whole <=> fetched[r][p].posts = Cardinality(PostsOf(p))
              /\ metrics' = [metrics EXCEPT ![p] = Append(@, row)]
              /\ fetched' = [fetched EXCEPT ![r] = [q \in DOMAIN @ \ {p} |-> @[q]]]
<1>1. PICK p \in DOMAIN fetched[r], whole \in BOOLEAN :
        /\ whole <=> fetched[r][p].posts = Cardinality(PostsOf(p))
        /\ metrics' = [metrics EXCEPT ![p] = Append(@, Row(fetched[r][p].count, whole, r))]
        /\ fetched' = [fetched EXCEPT ![r] = [q \in DOMAIN @ \ {p} |-> @[q]]]
  BY DEF WriteRow, PostsOf
<1>2. p \in Platforms /\ fetched[r][p].count \in Nat
  BY DEF FiguresInv, TypesInv, FiguresTyped, Added0
<1>3. PICK row : row = Row(fetched[r][p].count, whole, r)
  OBVIOUS
<1>4. row \in Rows /\ row.by = r /\ row.count = fetched[r][p].count /\ row.whole = whole
  BY <1>2, <1>3 DEF Row, Rows
<1>5. metrics' = [metrics EXCEPT ![p] = Append(@, row)]
  BY <1>1, <1>3
<1>6. TypesInv'
  BY WriteRowTypes DEF FiguresInv
<1>7. /\ UNCHANGED <<requestVars, reached, declared>>
      /\ req[r].pc = "sync" /\ req[r].level > Len(PostedOn)
  BY DEF WriteRow
<1> QED BY <1>1, <1>2, <1>4, <1>5, <1>6, <1>7

LEMMA WriteRowFigures ==
  ASSUME FiguresInv, NEW r \in Requests, WriteRow(r)
  PROVE  FiguresInv'
<1>1. /\ UNCHANGED <<req, met, reached, declared>> /\ TypesInv'
      /\ req[r].pc = "sync" /\ req[r].level > Len(PostedOn)
  BY RowIsAdded DEF requestVars
<1>2. PICK p \in DOMAIN fetched[r], row \in Rows :
        /\ p \in Platforms
        /\ row.by = r /\ row.count = fetched[r][p].count
        /\ row.whole <=> fetched[r][p].posts = Cardinality(PostsOf(p))
        /\ metrics' = [metrics EXCEPT ![p] = Append(@, row)]
        /\ fetched' = [fetched EXCEPT ![r] = [q \in DOMAIN @ \ {p} |-> @[q]]]
  BY RowIsAdded
<1>3. /\ AddsUp(r) /\ PlacedInv /\ reached \in Nat
      /\ metrics \in [Columns -> Seq(Rows)] /\ Platforms \subseteq Columns
      /\ fetched = [s \in Requests |-> fetched[s]] /\ Added0(fetched[r])
  BY <1>1 DEF FiguresInv, TypesInv, FiguresTyped, Columns
<1>4. PICK low : Since(r, low)
  BY <1>3 DEF AddsUp
<1>5. PICK rows \in Seq(Rows), last \in Nat \ {0} : rows = metrics[p] /\ last = Len(rows) + 1
  BY <1>2, <1>3
<1>6. /\ metrics'[p] = Append(rows, row)
      /\ DOMAIN metrics'[p] = DOMAIN rows \cup {last} /\ last \notin DOMAIN rows
      /\ metrics'[p][last] = row /\ \A i \in DOMAIN rows : metrics'[p][i] = rows[i] /\ i < last
      /\ \A q \in Columns : q # p => metrics'[q] = metrics[q]
  <2>1. metrics'[p] = Append(rows, row) /\ \A q \in Columns : q # p => metrics'[q] = metrics[q]
    BY <1>2, <1>3, <1>5
  <2>2. PICK more : more = Append(rows, row)
    OBVIOUS
  <2>3. /\ DOMAIN more = DOMAIN rows \cup {last} /\ last \notin DOMAIN rows
        /\ more[last] = row /\ \A i \in DOMAIN rows : more[i] = rows[i] /\ i < last
    BY <1>5, <2>2
  <2> QED BY <2>1, <2>2, <2>3
<1>7. /\ fetched'[r] = [q \in DOMAIN fetched[r] \ {p} |-> fetched[r][q]]
      /\ \A s \in Requests : s # r => fetched'[s] = fetched[s]
  BY <1>2, <1>3
<1>8. row.count <= reached * Cardinality(PostsOf(p))
  <2>1. Asked(p, req[r].level) = PostsOf(p)
    <3>1. req[r].level \in Nat
      BY <1>1 DEF FiguresInv, TypesInv, PlacedInv, Placed, Fits, Fetching
    <3> QED BY <1>1, <3>1, PostsTyped DEF Asked, PostsOf
  <2> QED BY <1>2, <1>3, <2>1 DEF AddsUp
<1>9. ASSUME row.whole, NEW i \in DOMAIN rows, row.count < rows[i].count
      PROVE  Met(rows[i].by, r)
  <2>1. rows[i].by # r
    BY <1>2, <1>3, <1>5, <1>9 DEF AddsUp
  <2>2. low * Cardinality(PostsOf(p)) <= row.count
    BY <1>2, <1>4, <1>9 DEF Since
  <2>3. PICK n \in Nat, m \in Nat, k \in Int :
          n = rows[i].count /\ m = row.count /\ k = low * Cardinality(PostsOf(p))
    <3>1. rows[i] \in Rows
      BY <1>5, <1>9
    <3>2. low \in Int /\ Cardinality(PostsOf(p)) \in Nat
      BY <1>3, <1>4, PostsTyped DEF Since, PostsOf
    <3>3. low * Cardinality(PostsOf(p)) \in Int
      BY <3>2
    <3> QED BY <3>1, <3>3 DEF Rows
  <2>4. ~ (n <= k)
    BY <1>9, <2>2, <2>3
  <2> QED BY <1>2, <1>4, <1>5, <1>9, <2>1, <2>3, <2>4 DEF Since
<1>10. RowsOf(p)'
  <2>1. \A i \in DOMAIN rows : rows[i].count <= reached * Cardinality(PostsOf(p)) /\ req[rows[i].by].pc # "new"
    BY <1>2, <1>5 DEF FiguresInv, RowsOf
  <2>2. \A i, j \in DOMAIN rows : i < j /\ rows[j].count < rows[i].count
          => ~rows[j].whole \/ Met(rows[i].by, rows[j].by)
    BY <1>2, <1>5 DEF FiguresInv, RowsOf
  <2>3. \A i \in DOMAIN metrics'[p] : /\ metrics'[p][i].count <= reached * Cardinality(PostsOf(p))
                                      /\ req[metrics'[p][i].by].pc # "new"
    BY <1>1, <1>2, <1>6, <1>8, <2>1
  <2>4. ASSUME NEW i \in DOMAIN metrics'[p], NEW j \in DOMAIN metrics'[p], i < j,
               metrics'[p][j].count < metrics'[p][i].count
        PROVE  ~metrics'[p][j].whole \/ Met(metrics'[p][i].by, metrics'[p][j].by)
    <3>1. i \in DOMAIN rows
      <4>1. i \in Int /\ j \in Int /\ j <= last
        BY <1>5, <1>6
      <4> QED BY <1>6, <2>4, <4>1
    <3>2. CASE j \in DOMAIN rows
      <4>1. metrics'[p][j] = rows[j] /\ metrics'[p][i] = rows[i]
        BY <1>6, <3>1, <3>2
      <4> QED BY <2>2, <2>4, <3>1, <3>2, <4>1
    <3>3. CASE j = last
      <4>1. metrics'[p][j] = row /\ metrics'[p][i] = rows[i]
        BY <1>6, <3>1, <3>3
      <4> QED BY <1>2, <1>9, <2>4, <3>1, <4>1
    <3> QED BY <1>6, <3>2, <3>3
  <2> QED BY <1>1, <2>3, <2>4 DEF RowsOf, Met
<1>11. \A q \in Platforms : RowsOf(q)'
  <2>1. ASSUME NEW q \in Platforms, q # p
        PROVE  RowsOf(q)'
    <3>1. metrics'[q] = metrics[q] /\ RowsOf(q)
      BY <1>3, <1>6, <2>1 DEF FiguresInv
    <3> QED BY <1>1, <3>1 DEF RowsOf, Met
  <2> QED BY <1>10, <2>1
<1>12. AddsUp(r)'
  <2>1. \A q \in DOMAIN fetched'[r] : q \in DOMAIN fetched[r] /\ q # p /\ fetched'[r][q] = fetched[r][q]
    BY <1>7
  <2>2. ASSUME NEW q \in Platforms, NEW i \in DOMAIN metrics'[q], metrics'[q][i].by = r
        PROVE  Len(PostedOn) < req[r].level /\ q \notin DOMAIN fetched'[r]
    <3>1. Len(PostedOn) < req[r].level
      BY <1>1
    <3>2. CASE q = p
      BY <2>1, <3>1, <3>2
    <3>3. CASE q # p
      <4>1. metrics'[q] = metrics[q]
        BY <1>3, <1>6, <3>3
      <4> QED BY <1>3, <2>1, <2>2, <3>1, <4>1 DEF AddsUp
    <3> QED BY <3>2, <3>3
  <2>3. Since(r, low)'
    <3>1. ASSUME NEW q \in Platforms, NEW i \in DOMAIN metrics'[q],
                 metrics'[q][i].by # r, ~Met(metrics'[q][i].by, r)
          PROVE  metrics'[q][i].count <= low * Cardinality(PostsOf(q))
      <4>1. CASE q = p
        <5>1. i \in DOMAIN rows /\ metrics'[p][i] = rows[i]
          BY <1>2, <1>6, <3>1, <4>1
        <5> QED BY <1>2, <1>4, <1>5, <3>1, <4>1, <5>1 DEF Since
      <4>2. CASE q # p
        <5>1. metrics'[q] = metrics[q]
          BY <1>3, <1>6, <4>2
        <5> QED BY <1>4, <3>1, <5>1 DEF Since
      <4> QED BY <4>1, <4>2
    <3> QED BY <1>1, <1>4, <2>1, <3>1 DEF Since, Met
  <2> QED BY <1>1, <1>3, <2>1, <2>2, <2>3 DEF AddsUp
<1>13. ASSUME NEW s \in Requests, s # r, req[s].pc = "sync"
       PROVE  AddsUp(s)'
  <2>1. Met(r, s)
    BY <1>1, <1>3, <1>13 DEF PlacedInv, RequestsInv, InFlight, Over, Met
  <2>2. PICK b : Since(s, b)
    BY <1>13 DEF FiguresInv, AddsUp
  <2>3. \A q \in Platforms : \A i \in DOMAIN metrics'[q] :
          metrics'[q][i].by = r \/ (i \in DOMAIN metrics[q] /\ metrics'[q][i] = metrics[q][i])
    <3>1. ASSUME NEW q \in Platforms, NEW i \in DOMAIN metrics'[q]
          PROVE  metrics'[q][i].by = r \/ (i \in DOMAIN metrics[q] /\ metrics'[q][i] = metrics[q][i])
      <4>1. CASE q = p
        BY <1>2, <1>5, <1>6, <3>1, <4>1
      <4>2. CASE q # p
        BY <1>3, <1>6, <3>1, <4>2
      <4> QED BY <4>1, <4>2
    <3> QED BY <3>1
  <2>4. fetched'[s] = fetched[s]
    BY <1>7, <1>13
  <2>5. Since(s, b)'
    <3>1. ASSUME NEW q \in Platforms, NEW i \in DOMAIN metrics'[q],
                 metrics'[q][i].by # s, ~Met(metrics'[q][i].by, s)
          PROVE  metrics'[q][i].count <= b * Cardinality(PostsOf(q))
      BY <2>1, <2>2, <2>3, <3>1 DEF Since
    <3> QED BY <1>1, <2>2, <2>4, <3>1 DEF Since, Met
  <2>6. \A q \in Platforms : \A i \in DOMAIN metrics'[q] :
          metrics'[q][i].by = s => Len(PostedOn) < req[s].level /\ q \notin DOMAIN fetched[s]
    <3>1. AddsUp(s)
      BY <1>13 DEF FiguresInv
    <3> QED BY <1>13, <2>3, <3>1 DEF AddsUp
  <2>7. \A q \in DOMAIN fetched[s] : fetched[s][q].count <= reached * Cardinality(Asked(q, req[s].level))
    BY <1>13 DEF FiguresInv, AddsUp
  <2> QED BY <1>1, <2>4, <2>5, <2>6, <2>7 DEF AddsUp
<1>14. CountOf(metrics'[Manual]) = declared'
  <2>1. Manual \in Columns /\ Manual # p
    BY <1>2, OptimizerAssumption DEF Columns
  <2>2. metrics'[Manual] = metrics[Manual]
    BY <1>6, <2>1
  <2> QED BY <1>1, <2>2 DEF FiguresInv
<1>15. \A s \in Requests : req'[s].pc # "sync" => DOMAIN fetched'[s] = {}
  BY <1>1, <1>7 DEF FiguresInv
<1>16. \A s \in Requests : req'[s].pc = "sync" => AddsUp(s)'
  BY <1>1, <1>12, <1>13
<1> QED BY <1>1, <1>11, <1>14, <1>15, <1>16 DEF FiguresInv

LEMMA RecordConversionFigures ==
  ASSUME FiguresInv, NEW r \in Requests, RecordConversion(r)
  PROVE  FiguresInv'
<1>1. PICK x : Call(r, x) /\ x = [NewRequest EXCEPT !.op = "declare", !.pc = "done"]
  BY DEF RecordConversion
<1>2. Started(x, OptimizerOps) /\ Placed(x) /\ x.pc = "done"
  BY <1>1 DEF Started, IsRequest, NewRequest, Placed, Fits, Learning, OptimizerOps
<1>3. Moves(r, x) /\ req[r].pc = "new"
  BY <1>1, <1>2, CallActs DEF RecordConversion, Arrives
<1>4. PICK n \in {1, 2} : /\ metrics' = [metrics EXCEPT ![Manual] = Append(@, Row(n, TRUE, r))]
                          /\ declared' = declared + n
  BY DEF RecordConversion
<1>5. TypesInv' /\ UNCHANGED <<reached, fetched>>
  BY RecordConversionTypes DEF FiguresInv, RecordConversion
<1>6. /\ metrics \in [Columns -> Seq(Rows)] /\ Manual \in Columns /\ Manual \notin Platforms
      /\ CountOf(metrics[Manual]) = declared /\ declared \in Nat
  BY OptimizerAssumption DEF FiguresInv, TypesInv, FiguresTyped, Columns
<1>7. \A p \in Platforms : metrics'[p] = metrics[p]
  BY <1>4, <1>6 DEF Columns
<1>8. CountOf(metrics'[Manual]) = declared'
  <2>1. PICK row, rows, more, last :
          /\ row \in Rows /\ rows \in Seq(Rows) /\ row.count = n /\ rows = metrics[Manual] /\ more = metrics'[Manual]
          /\ more = Append(rows, row) /\ last = Len(rows) + 1
    <3>1. PICK row : row = Row(n, TRUE, r)
      OBVIOUS
    <3>2. row \in Rows /\ row.count = n
      BY <3>1 DEF Row, Rows
    <3>3. metrics'[Manual] = Append(metrics[Manual], row) /\ metrics[Manual] \in Seq(Rows)
      BY <1>4, <1>6, <3>1
    <3> QED BY <3>2, <3>3
  <2>2. PICK f, g : f = [i \in DOMAIN rows |-> rows[i].count] /\ g = [i \in DOMAIN more |-> more[i].count]
    OBVIOUS
  <2>3. /\ DOMAIN more = DOMAIN rows \cup {last} /\ last \notin DOMAIN rows
        /\ more[last] = row /\ \A i \in DOMAIN rows : more[i] = rows[i]
    BY <2>1
  <2>4. IsFiniteSet(DOMAIN rows)
    <3>1. 1 \in Int /\ Len(rows) \in Int /\ DOMAIN rows = 1..Len(rows)
      BY <2>1
    <3> QED BY <3>1, FS_Interval
  <2>5. /\ g[last] = n /\ g[last] \in Int
        /\ \A i \in DOMAIN rows : f[i] \in Int /\ f[i] = g[i]
    <3>1. \A i \in DOMAIN rows : rows[i] \in Rows
      BY <2>1
    <3>2. \A i \in DOMAIN rows : rows[i].count \in Nat
      BY <3>1 DEF Rows
    <3> QED BY <2>1, <2>2, <2>3, <3>2
  <2>6. SumFunctionOnSet(g, DOMAIN rows \cup {last}) = SumFunctionOnSet(f, DOMAIN rows) + g[last]
    <3>1. PICK S : S = DOMAIN rows
      OBVIOUS
    <3>2. /\ IsFiniteSet(S) /\ last \notin S /\ g[last] \in Int
          /\ \A i \in S : f[i] \in Int /\ f[i] = g[i]
      BY <2>3, <2>4, <2>5, <3>1
    <3>3. PICK T : T = S \cup {last}
      OBVIOUS
    <3>4. last \in T /\ T \ {last} = S /\ IsFiniteSet(T) /\ \A i \in T : g[i] \in Int
      BY <3>2, <3>3, FS_AddElement
    <3>5. SumFunctionOnSet(g, T) = g[last] + SumFunctionOnSet(g, S)
      BY <3>4, SumSplit
    <3>6. SumFunctionOnSet(f, S) = SumFunctionOnSet(g, S) /\ SumFunctionOnSet(g, S) \in Int
      BY <3>2, SumSame, SumInt
    <3>7. SumFunctionOnSet(g, T) = SumFunctionOnSet(f, S) + g[last]
      BY <3>2, <3>5, <3>6
    <3> QED BY <3>1, <3>3, <3>7
  <2>7. CountOf(rows) = SumFunctionOnSet(f, DOMAIN rows) /\ CountOf(more) = SumFunctionOnSet(g, DOMAIN more)
    BY <2>2 DEF CountOf, SumFunction
  <2>8. CountOf(more) = declared + n
    BY <1>6, <2>1, <2>3, <2>5, <2>6, <2>7
  <2> QED BY <1>4, <2>1, <2>8
<1>9. /\ \A s \in Requests : s # r => req'[s] = req[s]
      /\ met \subseteq met' /\ req'[r].pc = "done"
  BY <1>2, <1>3, MovesRequest DEF FiguresInv, TypesInv, PlacedInv
<1>10. \A p \in Platforms : RowsOf(p)'
  <2>1. \A s \in Requests : req[s].pc # "new" => req'[s].pc # "new"
    BY <1>3, <1>9
  <2> QED BY <1>5, <1>7, <1>9, <2>1, RowsOfKept DEF FiguresInv
<1>11. \A s \in Requests : s # r /\ req[s].pc = "sync" => AddsUp(s)'
  BY <1>5, <1>7, <1>9, AddsUpKept DEF FiguresInv
<1>12. DOMAIN fetched'[r] = {}
  BY <1>3, <1>5 DEF FiguresInv
<1> QED BY <1>2, <1>3, <1>5, <1>8, <1>10, <1>11, <1>12, FiguresStep

\* More people see the posts: what was added up before is no more than that.
LEMMA PostsAreSeenFigures ==
  ASSUME FiguresInv, PostsAreSeen
  PROVE  FiguresInv'
<1>1. TypesInv' /\ UNCHANGED <<req, met, declared, metrics, fetched>> /\ reached' = reached + 1
  BY PostsAreSeenTypes DEF FiguresInv, PostsAreSeen, requestVars
<1>2. reached \in Nat /\ metrics \in [Columns -> Seq(Rows)] /\ Platforms \subseteq Columns
  BY DEF FiguresInv, TypesInv, FiguresTyped, Columns
<1>3. \A n \in Nat : (reached + 1) * n = reached * n + n /\ reached * n \in Nat
  BY <1>2
<1>4. \A p \in Platforms : RowsOf(p)'
  <2>1. ASSUME NEW p \in Platforms, NEW i \in DOMAIN metrics[p]
        PROVE  metrics[p][i].count <= (reached + 1) * Cardinality(PostsOf(p))
    <3>1. PICK n \in Nat : n = Cardinality(PostsOf(p))
      BY PostsTyped DEF PostsOf
    <3>2. metrics[p][i].count <= reached * n
      BY <2>1, <3>1 DEF FiguresInv, RowsOf
    <3>3. metrics[p][i].count \in Nat
      <4>1. metrics[p][i] \in Rows
        BY <1>2, <2>1
      <4> QED BY <4>1 DEF Rows
    <3>4. PICK m \in Nat : m = reached * n
      BY <1>3
    <3> QED BY <1>3, <3>1, <3>2, <3>3, <3>4
  <2> QED BY <1>1, <2>1 DEF FiguresInv, RowsOf, Met
<1>5. ASSUME NEW s \in Requests, req[s].pc = "sync"
      PROVE  AddsUp(s)'
  <2>1. AddsUp(s) /\ Added0(fetched[s])
    BY <1>5 DEF FiguresInv, TypesInv, FiguresTyped
  <2>2. PICK b : Since(s, b)
    BY <2>1 DEF AddsUp
  <2>3. b \in 0..(reached + 1)
    BY <1>2, <2>2 DEF Since
  <2>4. Since(s, b)'
    BY <1>1, <2>2, <2>3 DEF Since, Met
  <2>5. ASSUME NEW p \in DOMAIN fetched[s]
        PROVE  fetched[s][p].count <= (reached + 1) * Cardinality(Asked(p, req[s].level))
    <3>1. PICK n \in Nat : n = Cardinality(Asked(p, req[s].level))
      <4>1. Asked(p, req[s].level) \in SUBSET DOMAIN PostedOn
        BY DEF Asked, PostsOf
      <4> QED BY <4>1, PostsTyped
    <3>2. fetched[s][p].count <= reached * n /\ fetched[s][p].count \in Nat
      BY <2>1, <2>5, <3>1 DEF AddsUp, Added0
    <3>3. PICK m \in Nat : m = reached * n
      BY <1>3
    <3> QED BY <1>3, <3>1, <3>2, <3>3
  <2> QED BY <1>1, <2>1, <2>4, <2>5 DEF AddsUp
<1>6. CountOf(metrics'[Manual]) = declared'
  BY <1>1 DEF FiguresInv
<1> QED BY <1>1, <1>4, <1>5, <1>6 DEF FiguresInv

-----------------------------------------------------------------------------
\* A step of another component, by a request that adds up nothing.
LEMMA OthersFigures ==
  ASSUME FiguresInv, UNCHANGED optimizerVars, NEW r \in Requests, NEW new, Moves(r, new),
         Placed(new), new.op \notin OptimizerOps
  PROVE  FiguresInv'
<1>1. new.pc # "sync"
  BY DEF Placed, Fits, OptimizerOps
<1>2. req[r].pc # "sync"
  <2>1. PlacedInv /\ (req[r].pc = "new" \/ new.op = req[r].op)
    BY MovesRequest DEF FiguresInv, TypesInv, PlacedInv
  <2> QED BY <2>1 DEF PlacedInv, Placed, Fits, OptimizerOps
<1>3. DOMAIN fetched[r] = {}
  BY <1>2 DEF FiguresInv
<1> QED BY <1>1, <1>3, FiguresElsewhere DEF optimizerVars

LEMMA OptimizerFigures ==
  ASSUME FiguresInv, OptimizerStep
  PROVE  FiguresInv'
<1>1. CASE PostsAreSeen
  BY <1>1, PostsAreSeenFigures
<1>2. ASSUME NEW r \in Requests,
             \/ RecordConversion(r) \/ FetchInsights(r) \/ WriteRow(r) \/ OptimizerFails(r)
             \/ AnalyzeCampaign(r) \/ MeasureOutcome(r)
      PROVE  FiguresInv'
  BY <1>2, RecordConversionFigures, FetchInsightsFigures, WriteRowFigures,
     OptimizerFailsFigures, SyncBegins
<1>3. ASSUME NEW r \in Requests,
             \/ AllWritten(r) \/ AssertOptimizerRun(r) \/ NothingGenerated(r)
             \/ CreateRecommendation(r) \/ Review(r) \/ WriteReview(r) \/ WriteOutcome(r)
      PROVE  FiguresInv'
  BY <1>3, AfterFigures
<1> QED BY <1>1, <1>2, <1>3 DEF OptimizerStep

LEMMA FiguresNext ==
  ASSUME FiguresInv, [Next]_vars
  PROVE  FiguresInv'
<1>1. CASE MemoryStep /\ UNCHANGED optimizerVars
  <2>1. PICK r \in Requests : Learns(r)
    BY <1>1, MemoryLearns DEF FiguresInv, TypesInv
  <2> QED BY <1>1, <2>1, OthersFigures DEF Learns, MemoryOps, OptimizerOps
<1>2. CASE StudioStep /\ UNCHANGED optimizerVars
  <2>1. PICK r \in Requests : Act(r, StudioOps)
    BY <1>2, StudioActs DEF FiguresInv, TypesInv
  <2> QED BY <1>2, <2>1, OthersFigures DEF Act, StudioOps, OptimizerOps
<1>3. CASE OptimizerStep
  BY <1>3, OptimizerFigures
<1>4. CASE (ProductStep \/ ModerationStep) /\ UNCHANGED optimizerVars
  <2>1. UNCHANGED requestVars \/ \E r \in Requests : Act(r, ProductOps \cup ReviewOps)
    BY <1>4, ProductActs, ReviewActs DEF Act, FiguresInv, TypesInv
  <2>2. CASE UNCHANGED requestVars
    BY <1>4, <2>2, FiguresRest
  <2>3. CASE \E r \in Requests : Act(r, ProductOps \cup ReviewOps)
    BY <1>4, <2>3, OthersFigures DEF Act, ProductOps, ReviewOps, OptimizerOps
  <2> QED BY <2>1, <2>2, <2>3
<1>5. CASE UNCHANGED vars
  BY <1>5, FiguresRest DEF vars
<1> QED BY <1>1, <1>2, <1>3, <1>4, <1>5 DEF Next

LEMMA FiguresInit == Init => FiguresInv
<1> SUFFICES ASSUME Init PROVE FiguresInv
  OBVIOUS
<1>1. TypesInv /\ \A r \in Requests : req[r].pc = "new"
  BY TypesInit, PlacedInit DEF Init
<1>2. /\ reached = 0 /\ declared = 0 /\ fetched = [r \in Requests |-> NothingFetched]
      /\ metrics = [column \in Columns |-> <<>>]
  BY DEF Init, OptimizerInit
<1>3. \A r \in Requests : DOMAIN fetched[r] = {}
  BY <1>2 DEF NothingFetched
<1>4. \A column \in Columns : metrics[column] = <<>>
  BY <1>2
<1>5. \A p \in Platforms : RowsOf(p)
  BY <1>4 DEF RowsOf, Columns
<1>6. CountOf(metrics[Manual]) = declared
  <2>1. metrics[Manual] = <<>> /\ DOMAIN metrics[Manual] = {}
    BY <1>4 DEF Columns
  <2>2. PICK f : f = [i \in DOMAIN metrics[Manual] |-> metrics[Manual][i].count]
    OBVIOUS
  <2>3. SumFunctionOnSet(f, {}) = 0 /\ DOMAIN f = {}
    BY <2>1, <2>2, SumEmpty
  <2>4. CountOf(metrics[Manual]) = SumFunctionOnSet(f, DOMAIN f)
    BY <2>2 DEF CountOf, SumFunction
  <2> QED BY <1>2, <2>3, <2>4
<1> QED BY <1>1, <1>3, <1>5, <1>6 DEF FiguresInv

\* The figures that are shown count everybody once: all the conversions that were declared,
\* and of each platform no more than it has counted, whoever reads the figures while others
\* do; of one platform they fall only where not all its posts answered, or where two
\* requests asked at the same time.
THEOREM FiguresAreAlwaysTrue == Spec => []FiguresAreTrue
<1>1. Init => FiguresInv
  BY FiguresInit
<1>2. FiguresInv /\ [Next]_vars => FiguresInv'
  BY FiguresNext
<1>3. FiguresInv => FiguresAreTrue
  BY FiguresTrue
<1> QED BY <1>1, <1>2, <1>3, PTL DEF Spec
================================================================================
