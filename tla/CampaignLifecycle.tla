-------------------------- MODULE CampaignLifecycle --------------------------
(***************************************************************************)
(* The life of a campaign: the HTTP handlers of CampaignsService           *)
(* (campaigns/campaigns.service.ts), the BullMQ job queue                  *)
(* (queue/queue.module.ts) and the worker that consumes it                 *)
(* (queue/campaign-generation.processor.ts).                               *)
(*                                                                         *)
(* Every handler is cut where it awaits the database or Redis: a step      *)
(* reads, the next one writes, and the other actors run in between.  A     *)
(* request is used once, and the job it enqueues carries its name.         *)
(***************************************************************************)
EXTENDS Naturals

CONSTANTS
  Campaigns,    \* the campaigns
  Requests,     \* the HTTP requests that may be made; each names a user too
  NoRequest,    \* "no user" in approvedByUserId, "no job" in the worker
  MaxAttempts,  \* defaultJobOptions.attempts of the queue (2 in the code)
  MaxStalls,    \* maxStalledCount of BullMQ (its default, 1)
  MaxCrashes,   \* bound: how many times the process may die
  Environments  \* the sets of faults, one of which a behaviour may meet

(***************************************************************************)
(* "overlap"     two requests on one campaign are handled at the same time *)
(* "abort"       a database or Redis call of a request handler throws      *)
(* "crash"       the process dies                                          *)
(* "lateError"   the pipeline throws after it wrote its first piece, or    *)
(*               while it writes READY_FOR_REVIEW or REJECTED              *)
(* "failError"   writing FAILED throws                                     *)
(* "notifyError" looking up whom to notify throws                          *)
(* "earlierPost" a channel was posted before, by the calendar or by a      *)
(*               request that did not end, and is not posted again         *)
(***************************************************************************)
FaultKinds == {"overlap", "abort", "crash", "lateError", "failError", "notifyError", "earlierPost"}

ASSUME ConstantsAssumption ==
  /\ MaxAttempts \in Nat \ {0}
  /\ MaxStalls \in Nat
  /\ MaxCrashes \in Nat
  /\ Environments \subseteq SUBSET FaultKinds
  /\ NoRequest \notin Requests

VARIABLES
  \* the campaign row
  status, verdict, approver, failureReason,
  livePieces,   \* its ContentPiece rows that are not ARCHIVED
  \* the request handlers
  reqPc, reqCampaign,
  \* the jobs, one per request that enqueues
  jobState, attemptsMade, stalls, runs,
  \* the worker (concurrency 1)
  workerPc, workerJob, workerVerdict,
  faults,       \* those of this behaviour, chosen once
  crashes,
  everApproved  \* history: the campaigns a human approved at some time

rowVars == <<status, verdict, approver, failureReason>>
reqVars == <<reqPc, reqCampaign>>
jobVars == <<jobState, attemptsMade, stalls, runs>>
workerVars == <<workerPc, workerJob, workerVerdict>>
environment == <<faults, crashes>>
vars == <<rowVars, livePieces, reqVars, jobVars, workerVars, environment, everApproved>>

Status == {"NONE", "IN_PROGRESS", "READY_FOR_REVIEW", "APPROVED",
           "REJECTED", "FAILED", "PUBLISHED"}
Verdict == {"NONE", "PASSED", "FLAGGED", "BLOCKED"}
RequestPc == {"new", "create_enqueue", "approve_write", "reject_write",
              "regen_archive", "regen_write", "regen_enqueue",
              "publish_write", "done"}
JobState == {"none", "waiting", "active", "completed", "failed"}
WorkerPc == {"idle", "generating", "persisting", "finalizing", "moderating",
             "rejecting", "readying", "notifying", "failing", "notifying_failure",
             "finishing"}

\* What the properties tell apart in a live piece: written by the run that is
\* in the worker ("fresh"), part of what a run sent to moderation ("moderated"),
\* left by a run that ended before ("stale"), or by an earlier generation ("old").
Piece == {"fresh", "moderated", "stale", "old"}

TypeOK ==
  /\ status \in [Campaigns -> Status]
  /\ verdict \in [Campaigns -> Verdict]
  /\ approver \in [Campaigns -> Requests \cup {NoRequest}]
  /\ failureReason \in [Campaigns -> BOOLEAN]
  /\ livePieces \in [Campaigns -> SUBSET Piece]
  /\ reqPc \in [Requests -> RequestPc]
  /\ reqCampaign \in [Requests -> Campaigns]
  /\ jobState \in [Requests -> JobState]
  /\ attemptsMade \in [Requests -> 0..MaxAttempts]
  /\ stalls \in [Requests -> 0..MaxStalls]
  /\ runs \in [Requests -> Nat]
  /\ workerPc \in WorkerPc
  /\ workerJob \in Requests \cup {NoRequest}
  /\ workerVerdict \in Verdict
  /\ faults \in Environments
  /\ crashes \in 0..MaxCrashes
  /\ everApproved \subseteq Campaigns

Init ==
  /\ status = [c \in Campaigns |-> "NONE"]
  /\ verdict = [c \in Campaigns |-> "NONE"]
  /\ approver = [c \in Campaigns |-> NoRequest]
  /\ failureReason = [c \in Campaigns |-> FALSE]
  /\ livePieces = [c \in Campaigns |-> {}]
  /\ reqPc = [r \in Requests |-> "new"]
  /\ reqCampaign \in [Requests -> Campaigns]
  /\ jobState = [r \in Requests |-> "none"]
  /\ attemptsMade = [r \in Requests |-> 0]
  /\ stalls = [r \in Requests |-> 0]
  /\ runs = [r \in Requests |-> 0]
  /\ workerPc = "idle"
  /\ workerJob = NoRequest
  /\ workerVerdict = "NONE"
  /\ faults \in Environments
  /\ crashes = 0
  /\ everApproved = {}

-----------------------------------------------------------------------------
(* The request handlers.                                                   *)

InFlight(r) == reqPc[r] \notin {"new", "done"}

\* Without "overlap" the users wait for one another: a request on a campaign
\* starts when no other request on it is being handled.
MayStart(r) ==
  /\ reqPc[r] = "new"
  /\ "overlap" \in faults
     \/ \A q \in Requests : reqCampaign[q] = reqCampaign[r] => ~InFlight(q)

Goto(r, pc) == reqPc' = [reqPc EXCEPT ![r] = pc] /\ UNCHANGED reqCampaign

\* create(): the subscription, quota and channel checks passed, the row is in.
CreateRow(r) ==
  LET c == reqCampaign[r] IN
  /\ MayStart(r)
  /\ status[c] = "NONE"
  /\ status' = [status EXCEPT ![c] = "IN_PROGRESS"]
  /\ Goto(r, "create_enqueue")
  /\ UNCHANGED <<verdict, approver, failureReason, livePieces, jobVars,
                 workerVars, environment, everApproved>>

\* generationQueue.add('generate', ...), the last await of create() and regenerate().
Enqueue(r) ==
  /\ reqPc[r] \in {"create_enqueue", "regen_enqueue"}
  /\ jobState' = [jobState EXCEPT ![r] = "waiting"]
  /\ Goto(r, "done")
  /\ UNCHANGED <<rowVars, livePieces, attemptsMade, stalls, runs, workerVars,
                 environment, everApproved>>

\* Mutant of ApproveRead: the status guard of approve() is forgotten.
ApproveReadUnguarded(r) ==
  LET c == reqCampaign[r] IN
  /\ MayStart(r)
  /\ status[c] # "NONE"
  /\ verdict[c] # "BLOCKED"
  /\ Goto(r, "approve_write")
  /\ UNCHANGED <<rowVars, livePieces, jobVars, workerVars, environment, everApproved>>

\* approve(): getById and the two guards ...
ApproveRead(r) ==
  LET c == reqCampaign[r] IN
  /\ MayStart(r)
  /\ status[c] = "READY_FOR_REVIEW"
  /\ verdict[c] # "BLOCKED"
  /\ Goto(r, "approve_write")
  /\ UNCHANGED <<rowVars, livePieces, jobVars, workerVars, environment, everApproved>>

\* ... then an update by id alone.
ApproveWrite(r) ==
  LET c == reqCampaign[r] IN
  /\ reqPc[r] = "approve_write"
  /\ status' = [status EXCEPT ![c] = "APPROVED"]
  /\ approver' = [approver EXCEPT ![c] = r]
  /\ everApproved' = everApproved \cup {c}
  /\ Goto(r, "done")
  /\ UNCHANGED <<verdict, failureReason, livePieces, jobVars, workerVars,
                 environment>>

RejectRead(r) ==
  /\ MayStart(r)
  /\ status[reqCampaign[r]] \in {"READY_FOR_REVIEW", "APPROVED"}
  /\ Goto(r, "reject_write")
  /\ UNCHANGED <<rowVars, livePieces, jobVars, workerVars, environment, everApproved>>

RejectWrite(r) ==
  LET c == reqCampaign[r] IN
  /\ reqPc[r] = "reject_write"
  /\ status' = [status EXCEPT ![c] = "REJECTED"]
  /\ approver' = [approver EXCEPT ![c] = NoRequest]
  /\ Goto(r, "done")
  /\ UNCHANGED <<verdict, failureReason, livePieces, jobVars, workerVars,
                 environment, everApproved>>

\* Mutant of RegenerateRead: a campaign in generation may be regenerated.
RegenerateReadInProgress(r) ==
  /\ MayStart(r)
  /\ status[reqCampaign[r]] \in {"REJECTED", "FAILED", "IN_PROGRESS"}
  /\ Goto(r, "regen_archive")
  /\ UNCHANGED <<rowVars, livePieces, jobVars, workerVars, environment, everApproved>>

\* regenerate(): getById, the status guard and the entitlement checks ...
RegenerateRead(r) ==
  /\ MayStart(r)
  /\ status[reqCampaign[r]] \in {"REJECTED", "FAILED"}
  /\ Goto(r, "regen_archive")
  /\ UNCHANGED <<rowVars, livePieces, jobVars, workerVars, environment, everApproved>>

\* Mutant of RegenerateArchive: the previous generation stays live.
RegenerateKeepsPieces(r) ==
  /\ reqPc[r] = "regen_archive"
  /\ Goto(r, "regen_write")
  /\ UNCHANGED <<rowVars, livePieces, jobVars, workerVars, environment, everApproved>>

\* ... the pieces of the previous generation are archived ...
RegenerateArchive(r) ==
  /\ reqPc[r] = "regen_archive"
  /\ livePieces' = [livePieces EXCEPT ![reqCampaign[r]] = {}]
  /\ Goto(r, "regen_write")
  /\ UNCHANGED <<rowVars, jobVars, workerVars, environment, everApproved>>

\* Mutant of RegenerateWrite: no job is enqueued for the new generation.
RegenerateWriteNoJob(r) ==
  LET c == reqCampaign[r] IN
  /\ reqPc[r] = "regen_write"
  /\ status' = [status EXCEPT ![c] = "IN_PROGRESS"]
  /\ verdict' = [verdict EXCEPT ![c] = "NONE"]
  /\ failureReason' = [failureReason EXCEPT ![c] = FALSE]
  /\ livePieces' = [livePieces EXCEPT ![c] = {"old" : p \in @}]
  /\ Goto(r, "done")
  /\ UNCHANGED <<approver, jobVars, workerVars, environment, everApproved>>

\* ... and the row goes back to IN_PROGRESS (approvedByUserId is left alone): what is
\* still live is of an earlier generation from now on.
RegenerateWrite(r) ==
  LET c == reqCampaign[r] IN
  /\ reqPc[r] = "regen_write"
  /\ status' = [status EXCEPT ![c] = "IN_PROGRESS"]
  /\ verdict' = [verdict EXCEPT ![c] = "NONE"]
  /\ failureReason' = [failureReason EXCEPT ![c] = FALSE]
  /\ livePieces' = [livePieces EXCEPT ![c] = {"old" : p \in @}]
  /\ Goto(r, "regen_enqueue")
  /\ UNCHANGED <<approver, jobVars, workerVars, environment, everApproved>>

\* Mutant of PublishRead: a campaign under review may be published.
PublishReadUnderReview(r) ==
  /\ MayStart(r)
  /\ status[reqCampaign[r]] \in {"READY_FOR_REVIEW", "APPROVED"}
  /\ Goto(r, "publish_write")
  /\ UNCHANGED <<rowVars, livePieces, jobVars, workerVars, environment, everApproved>>

\* publishToMultipleChannels(): every channel checks APPROVED, but one that was
\* posted while the campaign was approved is a success as it is ...
PublishRead(r) ==
  /\ MayStart(r)
  /\ \/ status[reqCampaign[r]] = "APPROVED"
     \/ "earlierPost" \in faults /\ reqCampaign[r] \in everApproved
  /\ Goto(r, "publish_write")
  /\ UNCHANGED <<rowVars, livePieces, jobVars, workerVars, environment, everApproved>>

\* ... and, after the platforms answered, one success publishes the campaign.
PublishWrite(r) ==
  LET c == reqCampaign[r] IN
  /\ reqPc[r] = "publish_write"
  /\ \E hasSuccess \in BOOLEAN :
       status' = IF hasSuccess THEN [status EXCEPT ![c] = "PUBLISHED"] ELSE status
  /\ Goto(r, "done")
  /\ UNCHANGED <<verdict, approver, failureReason, livePieces, jobVars,
                 workerVars, environment, everApproved>>

\* The next call of a handler throws: the client gets an error, nothing is undone.
Abort(r) ==
  /\ "abort" \in faults
  /\ InFlight(r)
  /\ Goto(r, "done")
  /\ UNCHANGED <<rowVars, livePieces, jobVars, workerVars, environment, everApproved>>

-----------------------------------------------------------------------------
(* The worker.                                                             *)

JobCampaign == reqCampaign[workerJob]

WorkerGoto(pc) == workerPc' = pc /\ UNCHANGED <<workerJob, workerVerdict>>

WorkerIdle ==
  /\ workerPc' = "idle"
  /\ workerJob' = NoRequest
  /\ workerVerdict' = "NONE"

\* Pieces left by the run that ended: nothing archives them before a retry.
Outlive(pieces) == {IF p = "fresh" THEN "stale" ELSE p : p \in pieces}

\* BullMQ hands a waiting job to the only slot of the worker.
TakeJob(j) ==
  /\ workerPc = "idle"
  /\ jobState[j] = "waiting"
  /\ jobState' = [jobState EXCEPT ![j] = "active"]
  /\ runs' = [runs EXCEPT ![j] = @ + 1]
  /\ workerPc' = "generating"
  /\ workerJob' = j
  /\ livePieces' = [c \in Campaigns |-> Outlive(livePieces[c])]
  /\ UNCHANGED <<workerVerdict, rowVars, reqVars, attemptsMade, stalls, environment,
                 everApproved>>

\* generateCampaign() or regenerateFromApprovedConcept() returned.
Generated ==
  /\ workerPc = "generating"
  /\ WorkerGoto("persisting")
  /\ UNCHANGED <<rowVars, livePieces, reqVars, jobVars, environment, everApproved>>

CreatePiece == livePieces' = [livePieces EXCEPT ![JobCampaign] = @ \cup {"fresh"}]

\* persistGeneratedContent(): the texts and the image; then the video, if any.
PersistCopy ==
  /\ workerPc = "persisting"
  /\ CreatePiece
  /\ \E hasVideo \in BOOLEAN : WorkerGoto(IF hasVideo THEN "finalizing" ELSE "moderating")
  /\ UNCHANGED <<rowVars, reqVars, jobVars, environment, everApproved>>

PersistVideo ==
  /\ workerPc = "finalizing"
  /\ CreatePiece
  /\ WorkerGoto("moderating")
  /\ UNCHANGED <<rowVars, reqVars, jobVars, environment, everApproved>>

\* Mutant of Moderate: a BLOCKED verdict does not divert the run.
ModerateLetsThrough ==
  /\ workerPc = "moderating"
  /\ \E v \in {"PASSED", "FLAGGED", "BLOCKED"} : workerVerdict' = v
  /\ workerPc' = "readying"
  /\ livePieces' = [livePieces EXCEPT ![JobCampaign] =
                       {IF p = "fresh" THEN "moderated" ELSE p : p \in @}]
  /\ UNCHANGED <<workerJob, rowVars, reqVars, jobVars, environment, everApproved>>

\* runCampaignModeration on the texts of this run.
Moderate ==
  /\ workerPc = "moderating"
  /\ \E v \in {"PASSED", "FLAGGED", "BLOCKED"} :
       /\ workerVerdict' = v
       /\ workerPc' = IF v = "BLOCKED" THEN "rejecting" ELSE "readying"
  /\ livePieces' = [livePieces EXCEPT ![JobCampaign] =
                       {IF p = "fresh" THEN "moderated" ELSE p : p \in @}]
  /\ UNCHANGED <<workerJob, rowVars, reqVars, jobVars, environment, everApproved>>

\* The three outcomes are written by id, whatever the row holds by now.
WriteRejected ==
  /\ workerPc = "rejecting"
  /\ status' = [status EXCEPT ![JobCampaign] = "REJECTED"]
  /\ verdict' = [verdict EXCEPT ![JobCampaign] = "BLOCKED"]
  /\ WorkerGoto("finishing")
  /\ UNCHANGED <<approver, failureReason, livePieces, reqVars, jobVars, environment, everApproved>>

WriteReady ==
  /\ workerPc = "readying"
  /\ status' = [status EXCEPT ![JobCampaign] = "READY_FOR_REVIEW"]
  /\ verdict' = [verdict EXCEPT ![JobCampaign] = workerVerdict]
  /\ WorkerGoto("notifying")
  /\ UNCHANGED <<approver, failureReason, livePieces, reqVars, jobVars, environment, everApproved>>

MarkCampaignFailed ==
  /\ workerPc = "failing"
  /\ status' = [status EXCEPT ![JobCampaign] = "FAILED"]
  /\ failureReason' = [failureReason EXCEPT ![JobCampaign] = TRUE]
  /\ WorkerGoto("notifying_failure")
  /\ UNCHANGED <<verdict, approver, livePieces, reqVars, jobVars, environment, everApproved>>

\* notifyOrganization() returned and so does process() ...
Notified ==
  /\ workerPc \in {"notifying", "notifying_failure"}
  /\ WorkerGoto("finishing")
  /\ UNCHANGED <<rowVars, livePieces, reqVars, jobVars, environment, everApproved>>

\* ... and BullMQ moves the job to completed.
CompleteJob ==
  /\ workerPc = "finishing"
  /\ jobState' = [jobState EXCEPT ![workerJob] = "completed"]
  /\ WorkerIdle
  /\ UNCHANGED <<attemptsMade, stalls, runs, rowVars, livePieces, reqVars,
                 environment, everApproved>>

\* Mutant of LastAttempt: the attempt being made is not counted.
LastAttemptOffByOne == attemptsMade[workerJob] >= MaxAttempts

LastAttempt == attemptsMade[workerJob] + 1 >= MaxAttempts

\* process() throws: BullMQ counts the attempt and retries while some are left.
Rethrow ==
  /\ attemptsMade' = [attemptsMade EXCEPT ![workerJob] = @ + 1]
  /\ jobState' = [jobState EXCEPT ![workerJob] = IF LastAttempt THEN "failed" ELSE "waiting"]
  /\ UNCHANGED <<stalls, runs>>
  /\ WorkerIdle

\* Where the pipeline may throw, and whether trying again is pointless
\* (PlanLimitExceededException, or a message that starts with QUALITY_GATE:).
CanThrow(definitive) ==
  \/ workerPc = "generating"
  \/ workerPc = "finalizing" /\ (definitive \/ "lateError" \in faults)
  \/ workerPc \in {"persisting", "moderating", "rejecting", "readying"}
     /\ ~definitive /\ "lateError" \in faults
  \/ workerPc = "notifying" /\ ~definitive /\ "notifyError" \in faults

\* processInternal() throws and attempts are left: nothing is written.
PipelineRetries ==
  /\ CanThrow(FALSE)
  /\ ~LastAttempt
  /\ Rethrow
  /\ UNCHANGED <<rowVars, livePieces, reqVars, environment, everApproved>>

\* Mutant of PipelineGivesUp: the error is swallowed without markCampaignFailed().
PipelineForgets ==
  /\ CanThrow(TRUE) \/ (CanThrow(FALSE) /\ LastAttempt)
  /\ WorkerGoto("finishing")
  /\ UNCHANGED <<rowVars, livePieces, reqVars, jobVars, environment, everApproved>>

\* processInternal() throws for good: markCampaignFailed() is next.
PipelineGivesUp ==
  /\ CanThrow(TRUE) \/ (CanThrow(FALSE) /\ LastAttempt)
  /\ WorkerGoto("failing")
  /\ UNCHANGED <<rowVars, livePieces, reqVars, jobVars, environment, everApproved>>

\* markCampaignFailed() throws inside the catch, so process() throws.
FailureHandlerThrows ==
  /\ \/ workerPc = "failing" /\ "failError" \in faults
     \/ workerPc = "notifying_failure" /\ "notifyError" \in faults
  /\ Rethrow
  /\ UNCHANGED <<rowVars, livePieces, reqVars, environment, everApproved>>

\* The process dies: the handlers are gone, and BullMQ finds the active job
\* stalled; it puts it back MaxStalls times, then fails it without process().
Crash ==
  /\ "crash" \in faults
  /\ crashes < MaxCrashes
  /\ crashes' = crashes + 1
  /\ reqPc' = [r \in Requests |-> IF InFlight(r) THEN "done" ELSE reqPc[r]]
  /\ UNCHANGED reqCampaign
  /\ IF workerPc = "idle"
       THEN UNCHANGED <<jobState, stalls>>
       ELSE IF stalls[workerJob] < MaxStalls
         THEN /\ stalls' = [stalls EXCEPT ![workerJob] = @ + 1]
              /\ jobState' = [jobState EXCEPT ![workerJob] = "waiting"]
         ELSE /\ jobState' = [jobState EXCEPT ![workerJob] = "failed"]
              /\ UNCHANGED stalls
  /\ WorkerIdle
  /\ UNCHANGED <<attemptsMade, runs, rowVars, livePieces, faults, everApproved>>

-----------------------------------------------------------------------------
Handler(r) ==
  Enqueue(r) \/ ApproveWrite(r) \/ RejectWrite(r) \/ RegenerateArchive(r)
  \/ RegenerateWrite(r) \/ PublishWrite(r)

UserStarts(r) ==
  CreateRow(r) \/ ApproveRead(r) \/ RejectRead(r) \/ RegenerateRead(r) \/ PublishRead(r)

Worker ==
  \/ \E j \in Requests : TakeJob(j)
  \/ Generated \/ PersistCopy \/ PersistVideo \/ Moderate
  \/ WriteRejected \/ WriteReady \/ MarkCampaignFailed \/ Notified \/ CompleteJob
  \/ PipelineRetries \/ PipelineGivesUp \/ FailureHandlerThrows

Next ==
  \/ \E r \in Requests : UserStarts(r) \/ Handler(r) \/ Abort(r)
  \/ Worker
  \/ Crash

Spec == Init /\ [][Next]_vars

\* The process runs: a handler that started goes on, and the worker consumes
\* its queue.  Nothing obliges a user to send a request.
Fairness == WF_vars(Worker) /\ \A r \in Requests : WF_vars(Handler(r))
FairSpec == Spec /\ Fairness

-----------------------------------------------------------------------------
(* What holds whatever fails.                                              *)

\* approve() has a guard against a BLOCKED verdict and says it should never
\* fire.  It does not: a campaign under review was never blocked, whichever
\* jobs, retries and handlers wrote its row.
ReviewableNeverBlocked ==
  \A c \in Campaigns : status[c] = "READY_FOR_REVIEW" => verdict[c] \in {"PASSED", "FLAGGED"}

\* No campaign is published, or about to be, that no human ever approved:
\* the worker, its retries and its crashes never open the way to PUBLISHED.
PublishedWasApproved ==
  \A c \in Campaigns :
    \/ status[c] = "PUBLISHED"
    \/ \E r \in Requests : reqCampaign[r] = c /\ reqPc[r] = "publish_write"
    => c \in everApproved

\* One job pays for at most attempts + stalls generations, however its
\* failures (retried by BullMQ) and its stalls (redelivered) alternate.
BoundedRuns == \A r \in Requests : runs[r] <= MaxAttempts + MaxStalls

-----------------------------------------------------------------------------
(* What holds when some of the faults are excluded: each property names them. *)

\* A generation whose outcome is still to be written.
Owes(r) ==
  \/ reqPc[r] \in {"create_enqueue", "regen_enqueue"}
  \/ jobState[r] = "waiting"
  \/ jobState[r] = "active" /\ workerPc \notin {"notifying", "notifying_failure", "finishing"}

\* A campaign in generation has somebody who will write its outcome: two
\* overlapping regenerate() calls, a retried job, or an error while pieces or an
\* outcome are written, never leave it behind.
NoStrandedCampaign ==
  faults \cap {"abort", "crash", "failError"} = {} =>
    \A c \in Campaigns :
      status[c] = "IN_PROGRESS" => \E r \in Requests : reqCampaign[r] = c /\ Owes(r)

\* Requests come one after the other, and a job that has written its outcome has ended.
Orderly == faults \subseteq {"abort", "lateError"}

\* One generation of a campaign at a time, and only while it is IN_PROGRESS:
\* no late job overwrites a review, an approval or a publication, also when calls of
\* the handlers throw and jobs are retried.
OneGenerationAtATime ==
  Orderly => \A r \in Requests : Owes(r) =>
    /\ status[reqCampaign[r]] = "IN_PROGRESS"
    /\ \A q \in Requests : Owes(q) /\ reqCampaign[q] = reqCampaign[r] => q = r

\* regenerate() archives the pieces of the generation before
\* (campaigns.service.ts:244-251): what is live, and so reviewed and published, is of
\* one generation, although the retries of its job may have left some of it.
GenerationsStayApart ==
  Orderly => \A c \in Campaigns : "old" \notin livePieces[c]

\* "pour forcer un passage par la génération + modération à chaque fois"
\* (campaigns.service.ts:154-157): everything a reviewer sees, approves or publishes
\* went through moderation.
ReviewedContentWasModerated ==
  \A c \in Campaigns :
    status[c] \in {"READY_FOR_REVIEW", "APPROVED", "PUBLISHED"}
      => livePieces[c] \subseteq {"moderated"}

\* The promise of the product, as a specification of the campaign row, also when the
\* pipeline throws late ...
Workflow == INSTANCE ReviewWorkflow
ImplementsWorkflowSafety ==
  /\ Orderly => Workflow!Init
  /\ [][Orderly => Workflow!Next]_(Workflow!vars)
\* ... with its liveness, if no call of a handler throws: a campaign that enters
\* generation leaves it.
ImplementsWorkflow ==
  /\ ImplementsWorkflowSafety
  /\ faults \subseteq {"lateError"} => Workflow!Fairness

=============================================================================
