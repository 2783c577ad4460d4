---------------------- MODULE CampaignLifecycle_proofs ----------------------
(***************************************************************************)
(* Theorems about CampaignLifecycle, for every set of campaigns and        *)
(* requests, every number of attempts, stalls and crashes.                 *)
(*                                                                         *)
(* The first part holds whatever fails: its inductive invariant SafeInv    *)
(* ties the worker to the one active job and the attempt counters to the   *)
(* state of the job.  The second part is about behaviours in which no      *)
(* outcome is lost, the third about those whose requests come one after    *)
(* the other: there the campaign's status says who works on it, and every  *)
(* step is a step of ReviewWorkflow or a stutter.                          *)
(***************************************************************************)
EXTENDS CampaignLifecycle, TLAPS

\* The busy worker holds the only active job, and an idle one holds none.
WorkerHoldsJob ==
  /\ workerPc = "idle" <=> workerJob = NoRequest
  /\ workerPc # "idle" => jobState[workerJob] = "active"
  /\ \A r \in Requests : jobState[r] = "active" => r = workerJob

\* A job exists only once its request is done, and may still be tried while it
\* has attempts left.
JobFollowsRequest ==
  \A r \in Requests :
    /\ reqPc[r] # "done" => jobState[r] = "none"
    /\ jobState[r] \in {"none", "waiting", "active"} => attemptsMade[r] < MaxAttempts

\* Each run but the current one was paid by an attempt or by a stall.
RunsAccounted ==
  \A r \in Requests :
    /\ jobState[r] \in {"none", "waiting"} => runs[r] <= attemptsMade[r] + stalls[r]
    /\ jobState[r] = "active" => runs[r] <= attemptsMade[r] + stalls[r] + 1
    /\ runs[r] <= MaxAttempts + MaxStalls

JobInv == TypeOK /\ WorkerHoldsJob /\ JobFollowsRequest /\ RunsAccounted

LEMMA JobInvInit == Init => JobInv
  BY ConstantsAssumption
  DEF Init, JobInv, TypeOK, WorkerHoldsJob, JobFollowsRequest, RunsAccounted,
      Status, Verdict, RequestPc, JobState, WorkerPc

\* A request handler's step that writes at most the campaign row and its own
\* program counter, and touches no job and no worker.
LEMMA HandlerJobInv ==
  ASSUME JobInv, NEW r \in Requests,
         \/ CreateRow(r) \/ ApproveRead(r) \/ ApproveWrite(r) \/ RejectRead(r)
         \/ RejectWrite(r) \/ RegenerateRead(r) \/ RegenerateArchive(r)
         \/ RegenerateWrite(r) \/ PublishRead(r) \/ PublishWrite(r) \/ Abort(r)
  PROVE  JobInv'
<1> USE DEF JobInv, Goto, jobVars, workerVars, rowVars, environment
<1>1. UNCHANGED <<jobVars, workerVars>>
  BY DEF CreateRow, ApproveRead, ApproveWrite, RejectRead, RejectWrite, RegenerateRead,
         RegenerateArchive, RegenerateWrite, PublishRead, PublishWrite, Abort
<1>2. reqPc[r] # "done" /\ \A q \in Requests : q # r => reqPc'[q] = reqPc[q]
  BY DEF CreateRow, ApproveRead, ApproveWrite, RejectRead, RejectWrite, RegenerateRead,
         RegenerateArchive, RegenerateWrite, PublishRead, PublishWrite, Abort, MayStart,
         InFlight, TypeOK
<1>3. TypeOK'
  <2> USE DEF TypeOK, RequestPc
  <2>1. CASE CreateRow(r)
    BY <2>1 DEF CreateRow, Status
  <2>2. CASE ApproveRead(r) \/ RejectRead(r) \/ RegenerateRead(r) \/ PublishRead(r) \/ Abort(r)
    BY <2>2 DEF ApproveRead, RejectRead, RegenerateRead, PublishRead, Abort
  <2>3. CASE ApproveWrite(r) \/ RejectWrite(r)
    BY <2>3 DEF ApproveWrite, RejectWrite, Status
  <2>4. CASE RegenerateArchive(r)
    BY <2>4 DEF RegenerateArchive
  <2>5. CASE RegenerateWrite(r)
    BY <2>5 DEF RegenerateWrite, Status, Verdict, Piece
  <2>6. CASE PublishWrite(r)
    BY <2>6 DEF PublishWrite, Status
  <2>7. QED
    BY <2>1, <2>2, <2>3, <2>4, <2>5, <2>6
<1>4. WorkerHoldsJob' /\ RunsAccounted'
  BY <1>1 DEF WorkerHoldsJob, RunsAccounted
<1>5. JobFollowsRequest'
  BY <1>1, <1>2 DEF JobFollowsRequest
<1>6. QED
  BY <1>3, <1>4, <1>5

LEMMA EnqueueJobInv ==
  ASSUME JobInv, NEW r \in Requests, Enqueue(r)
  PROVE  JobInv'
<1> USE DEF JobInv, Enqueue, Goto, workerVars, rowVars, environment
<1>1. TypeOK'
  BY DEF TypeOK, RequestPc, JobState
<1>2. jobState[r] = "none" /\ NoRequest \notin Requests
  BY ConstantsAssumption DEF JobFollowsRequest
<1>3. WorkerHoldsJob'
  BY <1>2 DEF WorkerHoldsJob, TypeOK
<1>4. JobFollowsRequest'
  BY <1>2 DEF JobFollowsRequest, TypeOK
<1>5. RunsAccounted'
  BY <1>2 DEF RunsAccounted, TypeOK
<1>6. QED
  BY <1>1, <1>3, <1>4, <1>5

LEMMA TakeJobInv ==
  ASSUME JobInv, NEW j \in Requests, TakeJob(j)
  PROVE  JobInv'
<1> USE DEF JobInv, TakeJob, reqVars, rowVars, environment
<1>1. TypeOK'
  BY DEF TypeOK, JobState, WorkerPc, Outlive, Piece
<1>2. WorkerHoldsJob'
  BY ConstantsAssumption DEF WorkerHoldsJob, TypeOK
<1>3. JobFollowsRequest'
  BY DEF JobFollowsRequest, TypeOK
<1>4. RunsAccounted'
  BY ConstantsAssumption DEF RunsAccounted, JobFollowsRequest, TypeOK
<1>5. QED
  BY <1>1, <1>2, <1>3, <1>4

\* A step of the run in the worker: no job moves.
LEMMA RunStepJobInv ==
  ASSUME JobInv,
         \/ Generated \/ PersistCopy \/ PersistVideo \/ Moderate \/ WriteRejected
         \/ WriteReady \/ MarkCampaignFailed \/ Notified \/ PipelineGivesUp
  PROVE  JobInv'
<1> USE DEF JobInv, WorkerGoto, jobVars, reqVars, rowVars, environment
<1>1. UNCHANGED <<jobVars, reqPc, workerJob>> /\ workerPc # "idle" /\ workerPc' # "idle"
  BY DEF Generated, PersistCopy, PersistVideo, Moderate, WriteRejected, WriteReady,
         MarkCampaignFailed, Notified, PipelineGivesUp, CanThrow
<1>2. workerJob \in Requests /\ JobCampaign \in Campaigns
  BY <1>1 DEF TypeOK, WorkerHoldsJob, JobCampaign
<1>3. TypeOK'
  <2> USE <1>1, <1>2 DEF TypeOK, WorkerPc
  <2>1. CASE Generated \/ Notified \/ PipelineGivesUp
    BY <2>1 DEF Generated, Notified, PipelineGivesUp
  <2>2. CASE PersistCopy \/ PersistVideo
    BY <2>2 DEF PersistCopy, PersistVideo, CreatePiece, Piece
  <2>3. CASE Moderate
    BY <2>3 DEF Moderate, Piece, Verdict
  <2>4. CASE WriteRejected \/ WriteReady
    BY <2>4 DEF WriteRejected, WriteReady, Status, Verdict
  <2>5. CASE MarkCampaignFailed
    BY <2>5 DEF MarkCampaignFailed, Status
  <2>6. QED
    BY <2>1, <2>2, <2>3, <2>4, <2>5
<1>4. WorkerHoldsJob' /\ JobFollowsRequest' /\ RunsAccounted'
  BY <1>1 DEF WorkerHoldsJob, JobFollowsRequest, RunsAccounted
<1>5. QED
  BY <1>3, <1>4

\* The run ends: the job completes, or process() throws.
LEMMA RunEndJobInv ==
  ASSUME JobInv, CompleteJob \/ PipelineRetries \/ FailureHandlerThrows
  PROVE  JobInv'
<1> USE DEF JobInv, WorkerIdle, reqVars, rowVars, environment
<1>1. workerPc # "idle" /\ UNCHANGED <<reqVars, rowVars, livePieces, environment, everApproved>>
  BY DEF CompleteJob, PipelineRetries, FailureHandlerThrows, CanThrow
<1>2. /\ workerJob \in Requests
      /\ jobState[workerJob] = "active"
      /\ attemptsMade[workerJob] < MaxAttempts
      /\ attemptsMade[workerJob] \in Nat
  BY <1>1 DEF TypeOK, WorkerHoldsJob, JobFollowsRequest
<1>3. CASE CompleteJob
  <2>1. TypeOK'
    BY <1>2, <1>3 DEF CompleteJob, TypeOK, JobState, WorkerPc, Verdict
  <2>2. WorkerHoldsJob' /\ JobFollowsRequest' /\ RunsAccounted'
    BY <1>2, <1>3 DEF CompleteJob, TypeOK, WorkerHoldsJob, JobFollowsRequest, RunsAccounted
  <2>3. QED
    BY <2>1, <2>2
<1>4. CASE Rethrow
  <2> USE <1>1, <1>2, <1>4, ConstantsAssumption DEF Rethrow, LastAttempt
  <2>1. TypeOK'
    BY DEF TypeOK, JobState, WorkerPc, Verdict
  <2>2. WorkerHoldsJob'
    BY DEF TypeOK, WorkerHoldsJob
  <2>3. JobFollowsRequest'
    BY DEF TypeOK, JobFollowsRequest
  <2>4. RunsAccounted'
    BY DEF TypeOK, RunsAccounted
  <2>5. QED
    BY <2>1, <2>2, <2>3, <2>4
<1>5. QED
  BY <1>3, <1>4 DEF PipelineRetries, FailureHandlerThrows

LEMMA CrashJobInv ==
  ASSUME JobInv, Crash
  PROVE  JobInv'
<1> USE ConstantsAssumption DEF JobInv, Crash, WorkerIdle, rowVars
<1>1. \A r \in Requests : reqPc'[r] # "done" => reqPc[r] # "done"
  BY DEF InFlight, TypeOK
<1>2. CASE workerPc = "idle"
  <2>1. TypeOK'
    BY <1>2 DEF TypeOK, InFlight, RequestPc, WorkerPc, Verdict
  <2>2. WorkerHoldsJob' /\ RunsAccounted'
    BY <1>2 DEF WorkerHoldsJob, RunsAccounted
  <2>3. JobFollowsRequest'
    BY <1>1, <1>2 DEF JobFollowsRequest
  <2>4. QED
    BY <2>1, <2>2, <2>3
<1>3. CASE workerPc # "idle"
  <2>1. /\ workerJob \in Requests
        /\ jobState[workerJob] = "active"
        /\ attemptsMade[workerJob] < MaxAttempts
        /\ attemptsMade[workerJob] \in Nat
        /\ stalls[workerJob] \in 0..MaxStalls
    BY <1>3 DEF TypeOK, WorkerHoldsJob, JobFollowsRequest
  <2>2. TypeOK'
    BY <1>3, <2>1 DEF TypeOK, InFlight, RequestPc, JobState, WorkerPc, Verdict
  <2>3. WorkerHoldsJob'
    BY <1>3, <2>1 DEF TypeOK, WorkerHoldsJob
  <2>4. JobFollowsRequest'
    BY <1>1, <1>3, <2>1 DEF TypeOK, JobFollowsRequest
  <2>5. RunsAccounted'
    BY <1>3, <2>1 DEF TypeOK, RunsAccounted
  <2>6. QED
    BY <2>2, <2>3, <2>4, <2>5
<1>4. QED
  BY <1>2, <1>3

LEMMA JobInvStep == JobInv /\ [Next]_vars => JobInv'
<1> SUFFICES ASSUME JobInv, [Next]_vars PROVE JobInv'
  OBVIOUS
<1>1. CASE \E r \in Requests : UserStarts(r) \/ Handler(r) \/ Abort(r)
  BY <1>1, HandlerJobInv, EnqueueJobInv DEF UserStarts, Handler
<1>2. CASE Worker
  BY <1>2, TakeJobInv, RunStepJobInv, RunEndJobInv DEF Worker
<1>3. CASE Crash
  BY <1>3, CrashJobInv
<1>4. CASE UNCHANGED vars
  BY <1>4 DEF vars, rowVars, reqVars, jobVars, workerVars, environment, JobInv, TypeOK, WorkerHoldsJob,
              JobFollowsRequest, RunsAccounted
<1>5. QED
  BY <1>1, <1>2, <1>3, <1>4 DEF Next

LEMMA JobInvariant == Spec => []JobInv
  BY JobInvInit, JobInvStep, PTL DEF Spec

\* Every variable keeps its type: attempts and stalls never pass their limits,
\* whatever fails, retries or dies.
THEOREM TypeCorrect == Spec => []TypeOK
<1>1. JobInv => TypeOK
  BY DEF JobInv
<1>2. QED
  BY <1>1, JobInvariant, PTL

\* A job never costs more than MaxAttempts + MaxStalls generations.
THEOREM RunsAreBounded == Spec => []BoundedRuns
<1>1. JobInv => BoundedRuns
  BY DEF JobInv, RunsAccounted, BoundedRuns
<1>2. QED
  BY <1>1, JobInvariant, PTL

-----------------------------------------------------------------------------
(* Reviews and publications, whatever fails.                               *)

\* The verdict about to be written with READY_FOR_REVIEW is not BLOCKED.
ReadyVerdict == workerPc = "readying" => workerVerdict \in {"PASSED", "FLAGGED"}

\* An approved campaign is remembered as such, also once it leaves APPROVED.
ApprovedIsRemembered == \A c \in Campaigns : status[c] = "APPROVED" => c \in everApproved

ReviewInv ==
  JobInv /\ ReadyVerdict /\ ReviewableNeverBlocked /\ ApprovedIsRemembered /\ PublishedWasApproved

LEMMA ReviewInvInit == Init => ReviewInv
  BY JobInvInit
  DEF Init, ReviewInv, ReadyVerdict, ReviewableNeverBlocked, ApprovedIsRemembered,
      PublishedWasApproved

LEMMA HandlerReviewInv ==
  ASSUME ReviewInv, JobInv', NEW r \in Requests,
         UserStarts(r) \/ Handler(r) \/ Abort(r)
  PROVE  ReviewInv'
<1> USE DEF ReviewInv, JobInv, TypeOK, Goto, MayStart, rowVars, workerVars, ReadyVerdict,
            ReviewableNeverBlocked, ApprovedIsRemembered, PublishedWasApproved
<1>1. CASE CreateRow(r)
  BY <1>1 DEF CreateRow
<1>2. CASE Enqueue(r)
  BY <1>2 DEF Enqueue
<1>3. CASE ApproveRead(r) \/ RejectRead(r) \/ RegenerateRead(r)
  BY <1>3 DEF ApproveRead, RejectRead, RegenerateRead
<1>4. CASE ApproveWrite(r)
  BY <1>4 DEF ApproveWrite
<1>5. CASE RejectWrite(r)
  BY <1>5 DEF RejectWrite
<1>6. CASE RegenerateArchive(r)
  BY <1>6 DEF RegenerateArchive
<1>7. CASE RegenerateWrite(r)
  BY <1>7 DEF RegenerateWrite
<1>8. CASE PublishRead(r)
  BY <1>8 DEF PublishRead
<1>9. CASE PublishWrite(r)
  BY <1>9 DEF PublishWrite
<1>10. CASE Abort(r)
  BY <1>10 DEF Abort
<1>11. QED
  BY <1>1, <1>2, <1>3, <1>4, <1>5, <1>6, <1>7, <1>8, <1>9, <1>10 DEF UserStarts, Handler

LEMMA WorkerReviewInv ==
  ASSUME ReviewInv, JobInv', Worker \/ Crash
  PROVE  ReviewInv'
<1> USE DEF ReviewInv, JobInv, TypeOK, WorkerGoto, WorkerIdle, rowVars, reqVars, ReadyVerdict,
            ReviewableNeverBlocked, ApprovedIsRemembered, PublishedWasApproved
<1>1. CASE \E j \in Requests : TakeJob(j)
  BY <1>1 DEF TakeJob
<1>2. CASE Generated \/ PersistCopy \/ PersistVideo \/ Notified \/ PipelineGivesUp
  BY <1>2 DEF Generated, PersistCopy, PersistVideo, Notified, PipelineGivesUp
<1>3. CASE Moderate
  BY <1>3 DEF Moderate
<1>4. CASE WriteRejected
  BY <1>4 DEF WriteRejected
<1>5. CASE WriteReady
  BY <1>5 DEF WriteReady
<1>6. CASE MarkCampaignFailed
  BY <1>6 DEF MarkCampaignFailed
<1>7. CASE CompleteJob \/ PipelineRetries \/ FailureHandlerThrows
  BY <1>7 DEF CompleteJob, PipelineRetries, FailureHandlerThrows, Rethrow
<1>8. CASE Crash
  BY <1>8 DEF Crash
<1>9. QED
  BY <1>1, <1>2, <1>3, <1>4, <1>5, <1>6, <1>7, <1>8 DEF Worker

LEMMA ReviewInvStep == ReviewInv /\ [Next]_vars => ReviewInv'
<1> SUFFICES ASSUME ReviewInv, [Next]_vars PROVE ReviewInv'
  OBVIOUS
<1>1. JobInv'
  BY JobInvStep DEF ReviewInv
<1>2. CASE Next
  BY <1>1, <1>2, HandlerReviewInv, WorkerReviewInv DEF Next
<1>3. CASE UNCHANGED vars
  BY <1>1, <1>3 DEF vars, rowVars, reqVars, workerVars, ReviewInv, ReadyVerdict,
    ReviewableNeverBlocked, ApprovedIsRemembered, PublishedWasApproved
<1>4. QED
  BY <1>2, <1>3

\* The guard of approve() against a BLOCKED verdict is never needed for what it
\* reads: no interleaving, retry or crash shows a blocked campaign for review.
THEOREM ReviewNeverBlocked == Spec => []ReviewableNeverBlocked
<1>1. ReviewInv => ReviewableNeverBlocked
  BY DEF ReviewInv
<1>2. QED
  BY <1>1, ReviewInvInit, ReviewInvStep, PTL DEF Spec

\* Only a campaign that a human approved at some time is ever published.
THEOREM PublicationWasApproved == Spec => []PublishedWasApproved
<1>1. ReviewInv => PublishedWasApproved
  BY DEF ReviewInv
<1>2. QED
  BY <1>1, ReviewInvInit, ReviewInvStep, PTL DEF Spec

-----------------------------------------------------------------------------
(* A campaign in generation is never left behind, if no call of a handler  *)
(* or outcome of the worker is lost.                                       *)

NoLostOutcome == faults \cap {"abort", "crash", "failError"} = {}

StrandInv == JobInv /\ NoStrandedCampaign

\* The faults of a behaviour are chosen once.
LEMMA SameFaults == [Next]_vars => faults' = faults
<1> SUFFICES ASSUME [Next]_vars PROVE faults' = faults
  OBVIOUS
<1> USE DEF environment
<1>1. CASE \E r \in Requests : UserStarts(r) \/ Handler(r) \/ Abort(r)
  BY <1>1 DEF UserStarts, Handler, Abort, CreateRow, Enqueue, ApproveRead, ApproveWrite, RejectRead,
    RejectWrite, RegenerateRead, RegenerateArchive, RegenerateWrite, PublishRead, PublishWrite
<1>2. CASE Worker \/ Crash
  BY <1>2 DEF Worker, TakeJob, Generated, PersistCopy, PersistVideo, Moderate, WriteRejected,
    WriteReady, MarkCampaignFailed, Notified, CompleteJob, PipelineRetries, PipelineGivesUp,
    FailureHandlerThrows, Crash
<1>3. QED
  BY <1>1, <1>2 DEF Next, vars

\* Whoever owes an outcome keeps owing it, or the step wrote the row of its campaign.
LEMMA OwedOrWritten ==
  ASSUME NoLostOutcome, JobInv, Next, NEW r \in Requests, Owes(r)
  PROVE  reqCampaign' = reqCampaign /\ (Owes(r)' \/ status'[reqCampaign[r]] # "IN_PROGRESS")
<1> USE DEF JobInv, TypeOK, NoLostOutcome, Goto, reqVars, jobVars, WorkerGoto, workerVars
<1>1. CASE \E q \in Requests : UserStarts(q) \/ Handler(q) \/ Abort(q)
  <2>1. PICK q \in Requests : UserStarts(q) \/ Handler(q)
    BY <1>1 DEF Abort
  <2>2. CASE Enqueue(q)
    BY <2>2 DEF Enqueue, Owes
  <2>3. CASE UserStarts(q)
    BY <2>3 DEF UserStarts, CreateRow, ApproveRead, RejectRead, RegenerateRead, PublishRead,
                MayStart, Owes
  <2>4. CASE ApproveWrite(q) \/ RejectWrite(q) \/ RegenerateArchive(q) \/ RegenerateWrite(q)
             \/ PublishWrite(q)
    BY <2>4 DEF ApproveWrite, RejectWrite, RegenerateArchive, RegenerateWrite, PublishWrite, Owes
  <2>5. QED
    BY <2>1, <2>2, <2>3, <2>4 DEF Handler
<1>2. CASE \E j \in Requests : TakeJob(j)
  BY <1>2 DEF TakeJob, Owes
<1>3. CASE Generated \/ PersistCopy \/ PersistVideo \/ Moderate \/ PipelineGivesUp
  BY <1>3 DEF Generated, PersistCopy, PersistVideo, Moderate, PipelineGivesUp, CanThrow, Owes
<1>4. CASE WriteRejected \/ WriteReady \/ MarkCampaignFailed
  BY <1>4 DEF WriteRejected, WriteReady, MarkCampaignFailed, Owes, WorkerHoldsJob, JobCampaign
<1>5. CASE Notified \/ CompleteJob
  BY <1>5 DEF Notified, CompleteJob, Owes, WorkerHoldsJob, WorkerIdle
<1>6. CASE PipelineRetries \/ FailureHandlerThrows
  BY <1>6 DEF PipelineRetries, FailureHandlerThrows, Rethrow, CanThrow, Owes, WorkerHoldsJob,
              WorkerIdle
<1>7. CASE Crash
  BY <1>7 DEF Crash
<1>8. QED
  BY <1>1, <1>2, <1>3, <1>4, <1>5, <1>6, <1>7 DEF Next, Worker

\* A campaign enters generation by a request that goes on to enqueue its job.
LEMMA NewGenerationIsOwed ==
  ASSUME JobInv, Next, NEW c \in Campaigns,
         status[c] # "IN_PROGRESS", status'[c] = "IN_PROGRESS"
  PROVE  \E r \in Requests : reqCampaign'[r] = c /\ Owes(r)'
<1> USE DEF JobInv, TypeOK, Goto, rowVars, Owes
<1>1. CASE \E r \in Requests : CreateRow(r) \/ RegenerateWrite(r)
  BY <1>1 DEF CreateRow, RegenerateWrite
<1>2. CASE \E r \in Requests : UserStarts(r) \/ Handler(r) \/ Abort(r)
  BY <1>1, <1>2 DEF UserStarts, Handler, Abort, Enqueue, ApproveRead, ApproveWrite, RejectRead,
    RejectWrite, RegenerateRead, RegenerateArchive, PublishRead, PublishWrite
<1>3. CASE Worker \/ Crash
  BY <1>3 DEF Worker, TakeJob, Generated, PersistCopy, PersistVideo, Moderate, WriteRejected,
    WriteReady, MarkCampaignFailed, Notified, CompleteJob, PipelineRetries, PipelineGivesUp,
    FailureHandlerThrows, Crash
<1>4. QED
  BY <1>2, <1>3 DEF Next

\* With no call lost, a campaign in generation always has somebody who owes it
\* an outcome: also when handlers overlap and notifications fail.
THEOREM NoCampaignStranded == Spec => []NoStrandedCampaign
<1>1. Init => StrandInv
  BY JobInvInit DEF Init, StrandInv, NoStrandedCampaign
<1>2. StrandInv /\ [Next]_vars => StrandInv'
  <2> SUFFICES ASSUME StrandInv, [Next]_vars PROVE StrandInv'
    OBVIOUS
  <2>1. JobInv'
    BY JobInvStep DEF StrandInv
  <2>2. CASE UNCHANGED vars
    BY <2>1, <2>2 DEF vars, rowVars, reqVars, jobVars, workerVars, environment, StrandInv, NoStrandedCampaign, Owes
  <2>3. CASE Next
    <3> SUFFICES ASSUME NoLostOutcome, NEW c \in Campaigns, status'[c] = "IN_PROGRESS"
                 PROVE  \E r \in Requests : reqCampaign'[r] = c /\ Owes(r)'
      BY <2>1, SameFaults DEF StrandInv, NoStrandedCampaign, NoLostOutcome
    <3>1. CASE status[c] = "IN_PROGRESS"
      <4>1. PICK r \in Requests : reqCampaign[r] = c /\ Owes(r)
        BY <3>1 DEF StrandInv, NoStrandedCampaign, NoLostOutcome
      <4>2. QED
        BY <2>3, <4>1, OwedOrWritten DEF StrandInv
    <3>2. CASE status[c] # "IN_PROGRESS"
      BY <2>3, <3>2, NewGenerationIsOwed DEF StrandInv
    <3>3. QED
      BY <3>1, <3>2
  <2>4. QED
    BY <2>2, <2>3
<1>3. StrandInv => NoStrandedCampaign
  BY DEF StrandInv
<1>4. QED
  BY <1>1, <1>2, <1>3, PTL DEF Spec

-----------------------------------------------------------------------------
(* Requests one after the other: one generation at a time, apart from the  *)
(* one before, and the code implements ReviewWorkflow.                     *)

\* The requests on one campaign are handled one after the other.
Serial ==
  \A q, r \in Requests : InFlight(q) /\ InFlight(r) /\ reqCampaign[q] = reqCampaign[r] => q = r

\* What a handler read still holds when it writes.
ReadsStayTrue ==
  \A r \in Requests :
    LET c == reqCampaign[r] IN
    /\ reqPc[r] = "approve_write" => status[c] = "READY_FOR_REVIEW" /\ verdict[c] # "BLOCKED"
    /\ reqPc[r] = "reject_write" => status[c] \in {"READY_FOR_REVIEW", "APPROVED"}
    /\ reqPc[r] \in {"regen_archive", "regen_write"} => status[c] \in {"REJECTED", "FAILED"}
    /\ reqPc[r] = "publish_write" => status[c] = "APPROVED"

\* Nothing is known of a campaign before its row exists.
BeforeCreation == \A c \in Campaigns : status[c] = "NONE" => verdict[c] = "NONE"

\* No piece is live when a new generation starts.
OwnPieces ==
  /\ \A r \in Requests : reqPc[r] = "regen_write" => livePieces[reqCampaign[r]] = {}
  /\ \A c \in Campaigns : "old" \notin livePieces[c]

CleanInv ==
  /\ JobInv /\ ReadyVerdict
  /\ Serial /\ OneGenerationAtATime /\ ReadsStayTrue
  /\ BeforeCreation /\ OwnPieces

LEMMA CleanInvInit == Init => CleanInv
  BY JobInvInit
  DEF Init, CleanInv, ReadyVerdict, Serial, InFlight, OneGenerationAtATime, Owes, ReadsStayTrue,
      BeforeCreation, OwnPieces

\* A request starts: nobody else is handling its campaign.
LEMMA UserStartsClean ==
  ASSUME Orderly, CleanInv, JobInv', NEW r \in Requests, UserStarts(r)
  PROVE  CleanInv'
<1> USE DEF Orderly, CleanInv, JobInv, TypeOK, Goto, MayStart, rowVars, jobVars, workerVars
<1>1. /\ reqPc[r] = "new" /\ UNCHANGED <<jobVars, workerVars, reqCampaign, livePieces, verdict>>
      /\ \A q \in Requests : q # r => reqPc'[q] = reqPc[q]
      /\ \A q \in Requests : reqCampaign[q] = reqCampaign[r] => ~InFlight(q)
      /\ reqPc'[r] \in {"create_enqueue", "approve_write", "reject_write", "regen_archive",
                        "publish_write"}
  BY DEF UserStarts, CreateRow, ApproveRead, RejectRead, RegenerateRead, PublishRead
<1>2. ReadyVerdict' /\ Serial'
  BY <1>1 DEF ReadyVerdict, Serial, InFlight
<1>3. CASE CreateRow(r)
  <2>1. \A q \in Requests : reqCampaign[q] = reqCampaign[r] => ~Owes(q) /\ (Owes(q)' <=> q = r)
    BY <1>1, <1>3 DEF CreateRow, OneGenerationAtATime, Owes, JobFollowsRequest
  <2>2. \A q \in Requests : reqCampaign[q] # reqCampaign[r] => (Owes(q)' <=> Owes(q))
    BY <1>1 DEF Owes
  <2>3. OneGenerationAtATime'
    BY <1>1, <1>3, <2>1, <2>2 DEF CreateRow, OneGenerationAtATime
  <2>4. ReadsStayTrue'
    BY <1>1, <1>3 DEF CreateRow, ReadsStayTrue, InFlight
  <2>5. BeforeCreation' /\ OwnPieces'
    BY <1>1, <1>3 DEF CreateRow, BeforeCreation, OwnPieces
  <2>6. QED
    BY <1>2, <2>3, <2>4, <2>5
<1>4. CASE ApproveRead(r) \/ RejectRead(r) \/ RegenerateRead(r) \/ PublishRead(r)
  <2>1. status' = status /\ reqPc'[r] # "create_enqueue"
    BY <1>1, <1>4 DEF ApproveRead, RejectRead, RegenerateRead, PublishRead
  <2>2. \A q \in Requests : Owes(q)' <=> Owes(q)
    BY <1>1, <2>1 DEF Owes
  <2>3. OneGenerationAtATime'
    BY <1>1, <2>1, <2>2 DEF OneGenerationAtATime
  <2>4. ReadsStayTrue'
    BY <1>1, <1>4, <2>1 DEF ApproveRead, RejectRead, RegenerateRead, PublishRead, ReadsStayTrue
  <2>5. BeforeCreation' /\ OwnPieces'
    BY <1>1, <2>1 DEF BeforeCreation, OwnPieces
  <2>6. QED
    BY <1>2, <2>3, <2>4, <2>5
<1>5. QED
  BY <1>3, <1>4 DEF UserStarts

\* A handler goes on: what it read still holds.
LEMMA HandlerClean ==
  ASSUME Orderly, CleanInv, JobInv', NEW r \in Requests, Handler(r)
  PROVE  CleanInv'
<1> USE DEF CleanInv, JobInv, TypeOK, Goto, rowVars, workerVars
<1>1. /\ InFlight(r) /\ UNCHANGED <<workerVars, reqCampaign, attemptsMade>>
      /\ \A q \in Requests : q # r => reqPc'[q] = reqPc[q] /\ jobState'[q] = jobState[q]
      /\ \A q \in Requests : q # r /\ reqCampaign[q] = reqCampaign[r] => ~InFlight(q)
  BY DEF Handler, Enqueue, ApproveWrite, RejectWrite, RegenerateArchive, RegenerateWrite,
         PublishWrite, jobVars, InFlight, Serial
<1>2. ReadyVerdict' /\ Serial'
  BY <1>1 DEF ReadyVerdict, Serial, InFlight
<1>3. CASE Enqueue(r)
  <2>1. jobState[r] = "none" /\ Owes(r) /\ \A q \in Requests : Owes(q)' <=> Owes(q)
    BY <1>1, <1>3 DEF Enqueue, Owes, JobFollowsRequest
  <2>2. OneGenerationAtATime' /\ ReadsStayTrue'
    BY <1>1, <1>3, <2>1 DEF Enqueue, OneGenerationAtATime, ReadsStayTrue
  <2>3. BeforeCreation' /\ OwnPieces'
    BY <1>1, <1>3 DEF Enqueue, BeforeCreation, OwnPieces
  <2>4. QED
    BY <1>2, <2>2, <2>3
<1>4. CASE ApproveWrite(r) \/ RejectWrite(r) \/ PublishWrite(r)
  <2>1. /\ status[reqCampaign[r]] \in {"READY_FOR_REVIEW", "APPROVED"}
        /\ UNCHANGED <<jobVars, livePieces>> /\ reqPc'[r] = "done"
        /\ \A c \in Campaigns : c # reqCampaign[r] => status'[c] = status[c] /\ verdict'[c] = verdict[c]
        /\ status'[reqCampaign[r]] \in {"REJECTED", "APPROVED", "PUBLISHED"}
    BY <1>4 DEF ApproveWrite, RejectWrite, PublishWrite, ReadsStayTrue
  <2>2. \A q \in Requests : (Owes(q)' => Owes(q)) /\ (Owes(q) => reqCampaign[q] # reqCampaign[r])
    BY <1>1, <2>1 DEF Owes, OneGenerationAtATime, jobVars
  <2>3. OneGenerationAtATime'
    BY <1>1, <2>1, <2>2 DEF OneGenerationAtATime
  <2>4. ReadsStayTrue'
    BY <1>1, <2>1 DEF ReadsStayTrue, InFlight
  <2>5. BeforeCreation' /\ OwnPieces'
    BY <1>1, <2>1 DEF BeforeCreation, OwnPieces, jobVars
  <2>6. QED
    BY <1>2, <2>3, <2>4, <2>5
<1>5. CASE RegenerateArchive(r)
  <2>1. \A q \in Requests : Owes(q)' <=> Owes(q)
    BY <1>1, <1>5 DEF RegenerateArchive, Owes, jobVars
  <2>2. OneGenerationAtATime'
    BY <1>1, <1>5, <2>1 DEF RegenerateArchive, OneGenerationAtATime
  <2>3. ReadsStayTrue'
    BY <1>1, <1>5 DEF RegenerateArchive, ReadsStayTrue
  <2>4. BeforeCreation' /\ OwnPieces'
    BY <1>1, <1>5 DEF RegenerateArchive, BeforeCreation, OwnPieces, jobVars
  <2>5. QED
    BY <1>2, <2>2, <2>3, <2>4
<1>6. CASE RegenerateWrite(r)
  <2>1. \A q \in Requests : reqCampaign[q] = reqCampaign[r] => ~Owes(q) /\ (Owes(q)' <=> q = r)
    BY <1>1, <1>6 DEF RegenerateWrite, OneGenerationAtATime, ReadsStayTrue, Owes, jobVars
  <2>2. \A q \in Requests : reqCampaign[q] # reqCampaign[r] => (Owes(q)' <=> Owes(q))
    BY <1>1, <1>6 DEF RegenerateWrite, Owes, jobVars
  <2>3. OneGenerationAtATime'
    BY <1>1, <1>6, <2>1, <2>2 DEF RegenerateWrite, OneGenerationAtATime
  <2>4. ReadsStayTrue'
    BY <1>1, <1>6 DEF RegenerateWrite, ReadsStayTrue, InFlight
  <2>5. BeforeCreation' /\ OwnPieces'
    BY <1>1, <1>6 DEF RegenerateWrite, BeforeCreation, OwnPieces, InFlight
  <2>6. QED
    BY <1>2, <2>3, <2>4, <2>5
<1>7. QED
  BY <1>3, <1>4, <1>5, <1>6 DEF Handler

\* The worker owns the row and the pieces of its campaign until it wrote an outcome.
LEMMA WorkerClean ==
  ASSUME Orderly, CleanInv, JobInv', Worker
  PROVE  CleanInv'
<1> USE DEF Orderly, CleanInv, JobInv, TypeOK, WorkerGoto, WorkerIdle, JobCampaign, rowVars, reqVars
<1>1. UNCHANGED reqVars /\ Serial'
  BY DEF Worker, TakeJob, Generated, PersistCopy, PersistVideo, Moderate, WriteRejected,
         WriteReady, MarkCampaignFailed, Notified, CompleteJob, PipelineRetries, PipelineGivesUp,
         FailureHandlerThrows, Serial, InFlight
<1>2. CASE \E j \in Requests : TakeJob(j)
  <2>1. PICK j \in Requests : TakeJob(j)
    BY <1>2
  <2>2. Owes(j) /\ \A q \in Requests : Owes(q)' <=> Owes(q)
    BY <2>1 DEF TakeJob, Owes, WorkerHoldsJob
  <2>3. ReadyVerdict' /\ OneGenerationAtATime' /\ ReadsStayTrue'
    BY <2>1, <2>2 DEF TakeJob, ReadyVerdict, OneGenerationAtATime, ReadsStayTrue
  <2>4. BeforeCreation' /\ OwnPieces'
    BY <2>1 DEF TakeJob, BeforeCreation, OwnPieces, Outlive, WorkerHoldsJob
  <2>5. QED
    BY <1>1, <2>3, <2>4
<1>3. CASE Generated \/ PersistCopy \/ PersistVideo \/ Moderate \/ PipelineGivesUp
  <2>1. /\ workerPc \in {"generating", "persisting", "finalizing", "moderating", "rejecting", "readying"}
        /\ workerPc' \in {"persisting", "finalizing", "moderating", "rejecting", "readying", "failing"}
        /\ UNCHANGED <<rowVars, jobVars, workerJob>>
    BY <1>3 DEF Generated, PersistCopy, PersistVideo, Moderate, PipelineGivesUp, CanThrow
  <2>2. /\ workerJob \in Requests /\ jobState[workerJob] = "active" /\ Owes(workerJob)
        /\ status[JobCampaign] = "IN_PROGRESS"
    BY <2>1 DEF WorkerHoldsJob, Owes, OneGenerationAtATime
  <2>3. \A q \in Requests : Owes(q)' <=> Owes(q)
    BY <1>1, <2>1 DEF Owes, jobVars
  <2>4. OneGenerationAtATime' /\ ReadsStayTrue'
    BY <1>1, <2>1, <2>3 DEF OneGenerationAtATime, ReadsStayTrue
  <2>5. ReadyVerdict'
    BY <1>3 DEF Generated, PersistCopy, PersistVideo, Moderate, PipelineGivesUp, ReadyVerdict
  <2>6. \A c \in Campaigns : c # JobCampaign => livePieces'[c] = livePieces[c]
    BY <1>3 DEF Generated, PersistCopy, PersistVideo, Moderate, PipelineGivesUp, CreatePiece
  <2>7. "old" \notin livePieces'[JobCampaign]
    <3>1. JobCampaign \in Campaigns /\ "old" \notin livePieces[JobCampaign]
      BY <2>2 DEF OwnPieces
    <3>2. CASE Generated \/ PipelineGivesUp
      BY <3>1, <3>2 DEF Generated, PipelineGivesUp
    <3>3. CASE PersistCopy \/ PersistVideo
      BY <3>1, <3>3 DEF PersistCopy, PersistVideo, CreatePiece
    <3>4. CASE Moderate
      BY <3>1, <3>4 DEF Moderate
    <3>5. QED
      BY <1>3, <3>2, <3>3, <3>4
  <2>8. \A q \in Requests : reqCampaign[q] = JobCampaign => reqPc[q] # "regen_write"
    BY <2>2 DEF ReadsStayTrue
  <2>9. BeforeCreation' /\ OwnPieces'
    BY <1>1, <2>1, <2>6, <2>7, <2>8 DEF BeforeCreation, OwnPieces
  <2>10. QED
    BY <1>1, <2>4, <2>5, <2>9
<1>4. CASE WriteRejected \/ WriteReady \/ MarkCampaignFailed
  <2>1. /\ workerPc \in {"rejecting", "readying", "failing"}
        /\ workerPc' \in {"notifying", "notifying_failure", "finishing"}
        /\ UNCHANGED <<jobVars, livePieces, workerJob>>
        /\ \A c \in Campaigns : c # JobCampaign => status'[c] = status[c] /\ verdict'[c] = verdict[c]
        /\ status'[JobCampaign] \in {"REJECTED", "READY_FOR_REVIEW", "FAILED"}
        /\ status'[JobCampaign] = "READY_FOR_REVIEW" => workerPc = "readying"
    BY <1>4 DEF WriteRejected, WriteReady, MarkCampaignFailed, WorkerHoldsJob
  <2>2. /\ workerJob \in Requests /\ jobState[workerJob] = "active" /\ Owes(workerJob)
        /\ status[JobCampaign] = "IN_PROGRESS"
    BY <2>1 DEF WorkerHoldsJob, Owes, OneGenerationAtATime
  <2>3. /\ \A q \in Requests : Owes(q)' => Owes(q) /\ q # workerJob
        /\ \A q \in Requests : Owes(q) /\ q # workerJob => reqCampaign[q] # JobCampaign
    BY <1>1, <2>1, <2>2 DEF Owes, OneGenerationAtATime, jobVars, JobFollowsRequest
  <2>4. OneGenerationAtATime'
    BY <1>1, <2>1, <2>3 DEF OneGenerationAtATime
  <2>5. ReadsStayTrue' /\ ReadyVerdict'
    BY <1>1, <2>1, <2>2 DEF ReadsStayTrue, ReadyVerdict
  <2>6. BeforeCreation' /\ OwnPieces'
    BY <1>1, <2>1, <2>2 DEF BeforeCreation, OwnPieces, jobVars
  <2>7. QED
    BY <1>1, <2>4, <2>5, <2>6
<1>5. CASE Notified \/ CompleteJob
  <2>1. UNCHANGED <<rowVars, livePieces>> /\ workerPc \in {"notifying", "notifying_failure", "finishing"}
    BY <1>5 DEF Notified, CompleteJob
  <2>2. \A q \in Requests : Owes(q)' <=> Owes(q)
    BY <1>1, <1>5 DEF Notified, CompleteJob, Owes, jobVars, WorkerHoldsJob
  <2>3. OneGenerationAtATime' /\ ReadsStayTrue' /\ ReadyVerdict'
    BY <1>1, <1>5, <2>1, <2>2 DEF OneGenerationAtATime, ReadsStayTrue, ReadyVerdict, Notified, CompleteJob
  <2>4. BeforeCreation' /\ OwnPieces'
    BY <1>1, <1>5, <2>1 DEF BeforeCreation, OwnPieces, Notified, CompleteJob,
                           jobVars, WorkerHoldsJob
  <2>5. QED
    BY <1>1, <2>3, <2>4
<1>6. CASE PipelineRetries
  <2>1. /\ workerPc \notin {"idle", "notifying", "notifying_failure", "finishing"}
        /\ UNCHANGED <<rowVars, livePieces>> /\ Rethrow /\ ~LastAttempt
    BY <1>6 DEF PipelineRetries, CanThrow
  <2>2. \A q \in Requests : Owes(q)' <=> Owes(q)
    BY <1>1, <2>1 DEF Rethrow, Owes, WorkerHoldsJob
  <2>3. OneGenerationAtATime' /\ ReadsStayTrue' /\ ReadyVerdict'
    BY <1>1, <2>1, <2>2 DEF OneGenerationAtATime, ReadsStayTrue, ReadyVerdict, Rethrow
  <2>4. BeforeCreation' /\ OwnPieces'
    BY <1>1, <2>1 DEF BeforeCreation, OwnPieces, Rethrow, WorkerHoldsJob
  <2>5. QED
    BY <1>1, <2>3, <2>4
<1>7. CASE FailureHandlerThrows
  BY <1>7 DEF FailureHandlerThrows
<1>8. QED
  BY <1>2, <1>3, <1>4, <1>5, <1>6, <1>7 DEF Worker

\* The client gets an error, and the row stays what it is.
LEMMA AbortClean ==
  ASSUME CleanInv, JobInv', NEW r \in Requests, Abort(r)
  PROVE  CleanInv'
<1> USE DEF CleanInv, JobInv, TypeOK, Goto, rowVars, jobVars, workerVars
<1>1. /\ UNCHANGED <<rowVars, jobVars, workerVars, reqCampaign, livePieces>> /\ reqPc'[r] = "done"
      /\ \A q \in Requests : q # r => reqPc'[q] = reqPc[q]
  BY DEF Abort
<1>2. \A q \in Requests : Owes(q)' => Owes(q)
  BY <1>1 DEF Owes
<1>3. ReadyVerdict' /\ Serial' /\ OneGenerationAtATime'
  BY <1>1, <1>2, SameFaults DEF Abort, environment, ReadyVerdict, Serial, InFlight, OneGenerationAtATime, Orderly
<1>4. ReadsStayTrue' /\ BeforeCreation' /\ OwnPieces'
  BY <1>1 DEF ReadsStayTrue, BeforeCreation, OwnPieces
<1>5. QED
  BY <1>3, <1>4

LEMMA CleanInvStep ==
  ASSUME Orderly, CleanInv, [Next]_vars
  PROVE  CleanInv'
<1>1. JobInv'
  BY JobInvStep DEF CleanInv
<1>2. CASE Next
  BY <1>1, <1>2, UserStartsClean, HandlerClean, AbortClean, WorkerClean DEF Next, Crash, Orderly
<1>3. CASE UNCHANGED vars
  BY <1>1, <1>3 DEF vars, rowVars, reqVars, jobVars, workerVars, environment, CleanInv, ReadyVerdict, Serial,
    InFlight, OneGenerationAtATime, Orderly, Owes, ReadsStayTrue, BeforeCreation, OwnPieces
<1>4. QED
  BY <1>2, <1>3

OrderlyInv == Orderly => CleanInv

LEMMA OrderlyInvariant == Spec => []OrderlyInv
<1>1. Init => OrderlyInv
  BY CleanInvInit DEF OrderlyInv
<1>2. OrderlyInv /\ [Next]_vars => OrderlyInv'
  BY SameFaults, CleanInvStep DEF OrderlyInv, Orderly
<1>3. QED
  BY <1>1, <1>2, PTL DEF Spec

\* No campaign is generated twice at once, nor while a human or a platform has it,
\* also when calls of the handlers throw and jobs are retried.
THEOREM GenerationsAreExclusive == Spec => []OneGenerationAtATime
<1>1. OrderlyInv => OneGenerationAtATime
  BY DEF OrderlyInv, CleanInv, OneGenerationAtATime
<1>2. QED
  BY <1>1, OrderlyInvariant, PTL

\* What is live of a campaign is of one generation: a regeneration that starts has
\* archived all that the attempts before it have left.
THEOREM GenerationsAreApart == Spec => []GenerationsStayApart
<1>1. OrderlyInv => GenerationsStayApart
  BY DEF OrderlyInv, CleanInv, OwnPieces, GenerationsStayApart
<1>2. QED
  BY <1>1, OrderlyInvariant, PTL

\* A step of the code is a step of the workflow, or leaves the row's status and
\* verdict alone.
LEMMA StepImplementsWorkflow ==
  ASSUME Orderly, CleanInv, Next
  PROVE  [Workflow!Next]_(Workflow!vars)
<1> USE DEF CleanInv, JobInv, TypeOK, Workflow!Next, Workflow!vars, rowVars, WorkerGoto, JobCampaign
<1>1. CASE \E r \in Requests : UserStarts(r) \/ Handler(r) \/ Abort(r)
  <2>1. PICK r \in Requests : UserStarts(r) \/ Handler(r) \/ Abort(r)
    BY <1>1
  <2>2. CASE CreateRow(r)
    <3>1. reqCampaign[r] \in Campaigns /\ status[reqCampaign[r]] = "NONE"
      BY <2>2 DEF CreateRow
    <3>2. verdict = [verdict EXCEPT ![reqCampaign[r]] = "NONE"]
      BY <3>1 DEF BeforeCreation
    <3>3. Workflow!Generate(reqCampaign[r])
      BY <2>2, <3>1, <3>2 DEF CreateRow, Workflow!Generate
    <3>4. QED
      BY <3>1, <3>3
  <2>3. CASE ApproveWrite(r)
    BY <2>3 DEF ApproveWrite, ReadsStayTrue, Workflow!Approve
  <2>4. CASE RejectWrite(r)
    BY <2>4 DEF RejectWrite, ReadsStayTrue, Workflow!Reject
  <2>5. CASE RegenerateWrite(r)
    BY <2>5 DEF RegenerateWrite, ReadsStayTrue, Workflow!Generate
  <2>6. CASE PublishWrite(r)
    BY <2>6 DEF PublishWrite, ReadsStayTrue, Workflow!Publish
  <2>7. CASE \/ ApproveRead(r) \/ RejectRead(r) \/ RegenerateRead(r) \/ PublishRead(r)
             \/ Enqueue(r) \/ RegenerateArchive(r) \/ Abort(r)
    BY <2>7 DEF ApproveRead, RejectRead, RegenerateRead, PublishRead, Enqueue, RegenerateArchive, Abort
  <2>8. QED
    BY <2>1, <2>2, <2>3, <2>4, <2>5, <2>6, <2>7 DEF UserStarts, Handler
<1>2. CASE WriteRejected \/ WriteReady \/ MarkCampaignFailed
  <2>1. workerJob \in Requests /\ JobCampaign \in Campaigns /\ status[JobCampaign] = "IN_PROGRESS"
    BY <1>2 DEF WriteRejected, WriteReady, MarkCampaignFailed, WorkerHoldsJob, OneGenerationAtATime, Owes
  <2>2. CASE WriteRejected
    BY <2>1, <2>2 DEF WriteRejected, Workflow!Resolve, Workflow!Block
  <2>3. CASE WriteReady
    BY <2>1, <2>3 DEF WriteReady, ReadyVerdict, Workflow!Resolve, Workflow!OpenReview
  <2>4. CASE MarkCampaignFailed
    BY <2>1, <2>4 DEF MarkCampaignFailed, Workflow!Resolve, Workflow!Fail
  <2>5. QED
    BY <1>2, <2>2, <2>3, <2>4
<1>3. CASE (Worker /\ ~(WriteRejected \/ WriteReady \/ MarkCampaignFailed)) \/ Crash
  BY <1>3 DEF Worker, TakeJob, Generated, PersistCopy, PersistVideo, Moderate, Notified,
    CompleteJob, PipelineRetries, PipelineGivesUp, FailureHandlerThrows, Crash
<1>4. QED
  BY <1>1, <1>2, <1>3 DEF Next

\* The code implements the review workflow: reads and writes that are steps apart
\* look like one step on the row.
THEOREM ImplementsReviewWorkflow == Spec => ImplementsWorkflowSafety
<1>1. Init => (Orderly => Workflow!Init)
  BY DEF Init, Workflow!Init
<1>2. OrderlyInv /\ [Next]_vars => [Orderly => Workflow!Next]_(Workflow!vars)
  BY StepImplementsWorkflow DEF OrderlyInv, vars, rowVars, Workflow!vars
<1>3. QED
  BY <1>1, <1>2, OrderlyInvariant, PTL DEF Spec, ImplementsWorkflowSafety
=============================================================================
