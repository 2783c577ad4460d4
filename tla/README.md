# Campaign-ai: TLA+ models

Campaign-ai is a NestJS application (`src/backend`) over PostgreSQL (Prisma) and
Redis (BullMQ), with a Next.js frontend. A marketing team describes a product;
a worker generates a campaign with external AI providers, moderates it, and asks
a human to approve it; an approved campaign is published on the connected social
networks. This directory models the protocols behind that: what several
requests, the worker, the crons and the outside world do to the same rows.

There is one backend process (`docker-compose.prod.yml`): HTTP handlers, crons
and the queue worker share it and die together. Node runs one callback at a time,
so a step of a model is what runs between two awaits, and every await of the
database, of Redis or of a provider is a point where the other actors run. No
handler of the modelled code takes a database lock, so what a handler
read may be stale when it writes.

## Inventory

| part | state | operations | what is hard |
|---|---|---|---|
| Campaigns (`campaigns/`) | `Campaign` row: status, verdict, approver, failure reason | create, approve, reject, regenerate | read-then-write by id; row and job written separately |
| Generation worker (`queue/`) | BullMQ jobs, attempts, stalls; one worker slot | process, retry, give up, mark failed | retries over partial results, redelivery after a crash, outcome written by id |
| Publishing (`social/publishing.service.ts`) | `PublishedPost` per (campaign, connection) | publish to one or several channels, with retries and polling | a real post cannot be undone; two publications of one channel |
| Editorial calendar | `CalendarEntry` | schedule, cancel, reschedule, cron | the cron works on the list it read |
| Plans and entitlements (`plans/`) | credits used and bought, quotas, counters | assert..., consume | check and use are separate steps |
| AI gateway (`ai/ai-gateway/`) | `AiGeneration` rows, credits | generate with fallback over providers | a provider is paid before its answer is recorded |
| Billing (`billing/`) | subscription status, plan, extra credits | checkout, webhooks, trial expiry cron | webhooks duplicated and out of order |
| Teams (`teams/`) | memberships, invitations | invite, accept, change role, remove | at least one owner, at most the plan's seats |
| Social connections (`social/`) | OAuth tokens, status | connect, disconnect, refresh, cron | a refresh in flight while the user disconnects |
| Token encryption (`common/crypto`, `scripts/`) | the key each token is encrypted with | rotate, deploy | the script runs beside the application |
| Platform adapters (`social/adapters/`) | what exists at the platforms | publish under `withRetry` | an answer lost after something was made |
| Creative pipeline (`ai/ai-orchestrator/`, `creative-*`, `video-direction/`) | concept, blueprint, shot plan of one generation | generate, gate, revise, film | what was approved is what is filmed and paid |
| Video quality loop (`ai/video-judge/`) | current video, repair history, budget | judge, repair, re-judge, escalate | bounded repairs, never deliver a regression |
| Content studio (`content-studio/`) | pieces, versions, current version | create, edit, vary, select, archive | version numbers, edits after moderation |
| Moderation (`moderation/`) | checks, verdict | moderate a campaign | which failures block, flag or pass |
| Brand brain (`brand/`) | knowledge, contradictions, rules | observe, scan, resolve, correct, promote | the scan compares what it read before |
| Optimizer and analytics ingestion | figures, recommendations | fetch, declare, analyse, decide, measure | figures counted twice, decisions twice |
| Product intelligence | profiles of images, snapshots of pages | analyse, fetch, extract, fuse | caches keyed by the wrong thing, paid twice |

The other parts keep single rows or no state; see *Not modelled*.

What makes each part correct:

- **Campaigns**: generation -> moderation -> human review -> publication, no
  short cut; a campaign in generation gets an outcome; one generation at a time.
- **Publishing**: a channel is posted to at most once; only approved campaigns.
- **Credits**: the debt is bounded by the calls in progress; a generation is
  charged at most once, a failed one never.
- **Billing**: the status converges to what Stripe says; a payment counts once.
- **Teams**: never without an owner, never above the seats.
- **Connections**: a revoked connection stays revoked.
- **Key rotation**: no token is lost or replaced by an older one.
- **Pipeline**: nothing is filmed that the gates did not approve.
- **Quality loop**: terminates within its budget, never goes on from a worse
  video, delivers what was judged.
- **Moderation**: the verdict rests on the checks of its own run.
- **Brand brain**: two contradictory pieces of knowledge are not both in use unseen.
- **Optimizer**: everybody is counted once, a recommendation is decided once.
- **Product intelligence**: a profile speaks of its own image and page; paid once.

## Plan

In the order of what matters most: what reaches the public, what is paid for,
what is shared by several people. Everything planned is done.

| composition | component modules | checked by | abstract specification | proofs |
|---|---|---|---|---|
| `CampaignLifecycle` | | `MCCampaignLifecycle` | `ReviewWorkflow` | `CampaignLifecycle_proofs` |
| `Publishing` | | `MCPublishing` | `ChannelDelivery` | `Publishing_proofs` |
| `Storyboard` | `AiGateway` | `MCAiGateway`, `MCStoryboard` | `CreditAccount` | `Storyboard_proofs` |
| `VideoProduction` | `CreativePlans`, `CreativePipeline`; `VideoAnalyzer`, `VideoJudge`, `RepairPolicy`, `QualityLoop` | `MCVideoProduction` | | `VideoProduction_proofs` |
| `Workspace` | `Requests`; `Subscription`, `Teams`; `Connections`; `PlatformAdapters` | `MCWorkspace` | | `Workspace_proofs` |
| `Knowledge` | `Requests`; `BrandMemory`, `ContentStudio`; `Optimizer`; `ProductIntelligence`; `Moderation` | `MCKnowledge` | | `Knowledge_proofs` |

`PlanCatalog` (`plans/plan-catalog.ts`) is used by all of them: the limits of each plan, the
cost of each task in credits, the channels a plan allows, and what one may buy. Its numbers are
those of the code. `CatalogIsConsistent` is what `plan-catalog.ts` says they have in common
(the recommended upgrade of a plan gives at least as much of everything, for more credits),
an assumption on constants that TLC evaluates in every run. `Orders` is `Array.sort`; `Sums`
and `Requests_proofs` hold the lemmas that several proofs rest on.

The compositions meet at rows that one of them owns and the others take as
input: the verdict of `Moderation` is an input of `CampaignLifecycle`; the platform
of `Publishing` is what `PlatformAdapters` shows of a platform; the clips that
`Storyboard` delivers are those `VideoProduction` films in one step. Composing
them in one state space would multiply interleavings of steps that touch
nothing in common.

## CampaignLifecycle

`CampaignLifecycle.tla` is the life of campaigns: the handlers of
`CampaignsService`, the campaign's side of `PublishingService`, the queue and
`CampaignGenerationProcessor`.

| state | code |
|---|---|
| `status`, `verdict`, `approver`, `failureReason` | the columns of `Campaign` |
| `livePieces` | its `ContentPiece` rows that are not ARCHIVED, by what the properties tell apart |
| `reqPc`, `reqCampaign` | where each HTTP request is, and the campaign it is about |
| `jobState`, `attemptsMade`, `stalls` | BullMQ's record of the job a request enqueued |
| `workerPc`, `workerJob`, `workerVerdict` | the worker's slot (BullMQ's default concurrency, 1) and the locals of `process()` |
| `faults` | which kinds of fault this behaviour may meet, chosen once |
| `runs`, `everApproved`, `crashes` | history and bound, not in the code |

`ApproveRead`/`ApproveWrite`, `RejectRead`/`RejectWrite` and
`RegenerateRead`/`Archive`/`Write`/`Enqueue` are the handlers cut at their
awaits. Requests are used once; a handler whose guard refuses changes nothing and
is not modelled. The worker goes through `TakeJob`, `Generated`, `PersistCopy`,
`PersistVideo`, `Moderate`, one of `WriteRejected` / `WriteReady` /
`MarkCampaignFailed`, `Notified`, `CompleteJob`; `CanThrow` says where it may
throw, and `PipelineRetries`, `PipelineGivesUp`, `FailureHandlerThrows` are the
three ends of the catch block. `Crash` is the death of the process: the
handlers disappear, BullMQ redelivers the active job `MaxStalls` times and then
fails it without calling `process()`. The order of the queue is not modelled:
any waiting job may be taken, which also covers the delay of the backoff.

The variable `faults` says what may go wrong in a behaviour, and each property which of it it
needs away, because most promises of this code depend on it: overlapping requests on one
campaign, calls of a handler that throw ("abort"), the death of the process, a pipeline that
throws after it wrote something ("lateError"), FAILED that cannot be written, a notification
lookup that throws, a channel that was posted before and so needs no approval (`Publishing` has
the details). `Environments` is the set of those sets that a run looks at.

`ReviewWorkflow.tla` is the promise in seven actions, taken from the comments of
the service and of the schema. `ImplementsWorkflow` is the refinement, with the
identity on `status` and `verdict`.

### Runs

| run | instance | result |
|---|---|---|
| `lifecycle_base` | 1 campaign; 4 requests with late errors, with or without aborted calls; or 3 with every fault and a crash, or 2 and 2 crashes | `ImplementsWorkflow` (with its liveness: a generation resolves), `OneGenerationAtATime`, `GenerationsStayApart`, `NoStrandedCampaign`, and what no fault breaks: `BoundedRuns`, `ReviewableNeverBlocked`, `PublishedWasApproved` |
| `lifecycle_retry` | 1 campaign, 3 requests, late errors | violated: `ReviewedContentWasModerated` |

**Finding** (`lifecycle_retry`): `persistGeneratedContent()`
(`campaign-generation.processor.ts:136`) only adds pieces, the moderation looks at what its own
attempt has generated, and a retry of the job archives nothing. An attempt that throws after it
stored a piece leaves it, unmoderated, beside those of the next attempt when the campaign is
READY_FOR_REVIEW. `campaigns.service.ts:155-157` wants "forcer un passage par la génération +
modération à chaque fois", and `campaigns.service.ts:244-251` describes that mixing as the defect
that `regenerate()` was corrected for: what the retries mix, the next `regenerate()` archives
(`GenerationsStayApart`), but until then it is shown. In the trace the first attempt stores a
piece and throws, the second stores and moderates its own, and both are live under review.

Bounds: rows of different campaigns only meet in the queue, whose slot one
campaign with two jobs already contends for, so one campaign is enough; four
requests allow create, approve or reject, then regenerate and review again, which is
where the promises can break without every fault; what no fault breaks is about one job and
its campaign, which three requests make and disturb. `InOrder` has requests arrive in the order
of their names, as nothing else tells them apart. `MaxAttempts = 2` and `MaxStalls = 1` are the
values of the code and of BullMQ's default. Deadlock is not checked: requests are used once, so
every behaviour comes to rest.

Seen while modelling, without a run of its own:

- with "notifyError" a notification that throws after READY_FOR_REVIEW makes the
  job run again, and the second run overwrites an approval given meanwhile
  (`notifications.service.ts:72` reads the members outside any try);
- with "overlap" `ImplementsWorkflow` fails: `approve` overwrites a concurrent reject
  (`campaigns.service.ts:172`, its guard at 158-170 has read another status);
- with "abort" the liveness of `ImplementsWorkflow` fails: a job that could not be
  enqueued leaves its campaign IN_PROGRESS (`campaigns.service.ts:128`).

Fairness: weak fairness of the worker and of each handler that started. The
process runs and BullMQ polls; no user is obliged to do anything. A behaviour in
which the worker is starved by later jobs does not arise, since requests are
finitely many.

### Proofs

`CampaignLifecycle_proofs.tla` proves, for any campaigns, requests, attempts,
stalls, crashes and faults, from `ConstantsAssumption` alone:

- `TypeCorrect` and `RunsAreBounded`, from the inductive invariant `JobInv`: the
  busy worker holds the only active job, a job that may still run has attempts
  left, and each of its runs was paid by an attempt or a stall. Without these
  links `attemptsMade` could pass its limit and the bound on runs is not
  inductive.
- `ReviewNeverBlocked` and `PublicationWasApproved`, from `ReviewInv`, which adds
  that the verdict the worker is about to write with READY_FOR_REVIEW is not
  BLOCKED and that an APPROVED campaign is remembered.
- `NoCampaignStranded`, whose statement excludes aborted calls, crashes and a FAILED that
  cannot be written, by two lemmas: who owes an outcome goes on owing it unless the step
  writes it, and who puts a campaign in generation owes it.
- `GenerationsAreExclusive`, `GenerationsAreApart` and `ImplementsReviewWorkflow`, whose
  statements allow `Orderly` behaviours (aborted calls and late errors, but no overlap), from
  `CleanInv`: the status of a campaign says which handler or job works on it, what a handler
  read is still true when it writes, and what is live is of the job that is at work or was
  last. Every step is then a step of `ReviewWorkflow` or a stutter.

The liveness of `ImplementsWorkflow` is only model-checked, and with late errors alone: an aborted
call may leave a campaign without a job.

## Publishing

`Publishing.tla` is the publication of one campaign: `publishToChannel` cut at
its awaits, the requests that call it for several channels, the calendar and its
cron, the platforms and the reviewer.

| state | code |
|---|---|
| `campaign`, `post`, `entry` | status of `Campaign`, of the `PublishedPost` of each channel, of each `CalendarEntry` |
| `due` | the entries whose `scheduledAt` has passed |
| `editing` | where a user's cancel or reschedule is |
| `callPc`, `tries` | where each call of `publishToChannel` is; its retries, then its polls |
| `batchPc`, `batchChannels` | the HTTP requests (`publishToMultipleChannels`) and their channels |
| `tickPc`, `todo`, `tickEntry` | the runs of the cron (`publishDueEntries`), their list and current entry |
| `posted`, `job` | the platform: what a call really posted, and its asynchronous processing |

A call belongs to a request or to a run of the cron. `ReadPost`,
`CheckApproved`, `Connect`, `CheckQuota`, `Upsert` are its steps up to the
platform; `PlatformAccepts`, `PlatformRefuses`, `AnswerLost` are the answers of
`adapter.publish()` under `withRetry`; `Poll` is `pollAsyncStatus`; `WriteFailed`
and `RecordSuccess` are its two ends. What may go wrong is chosen by `Faults`
again. `attemptCount`, the content of a post and the memory logged after a
publication are left out. The review is reduced to approve and reject: the rest
of a campaign's life is `CampaignLifecycle`.

`ChannelDelivery.tla` is what the service promises of one channel (attempt,
deliver, confirm or refuse); `live` is mapped to the channels some call posted to.

| run | instance | result |
|---|---|---|
| `publishing_base` | 2 channels (one asynchronous), 1 request, calendar, no fault | implements `ChannelDelivery` with its liveness; one post per channel, only while approved; one success publishes the campaign |
| `publishing_faults` | 1 asynchronous channel, all faults but a slow platform, 1 mishap (a failed query or a crash) | PUBLISHED rows are backed by a post, due entries settle |
| `publishing_slow` | 1 asynchronous channel, a slow platform alone | violated: `UnconfirmedStaysPending`, the row says PUBLISHED while the platform still processes |
| `publishing_double_click` | overlap only | violated: both calls post |

**Finding** (`publishing_slow`): `pollAsyncStatus` returns PROCESSING after its last poll, its
caller throws on FAILED alone (`publishing.service.ts:141`) and records the success. The comment
at 193-197 says that "dans ce cas, la publication reste PENDING côté Campaign-ai et devra être
vérifiée manuellement", and `tiktok.adapter.ts:120-121` that PUBLISHED is returned "que lorsque
TikTok a confirmé le traitement complet". Nothing looks at the row again when the platform
refuses the video after that.

Bounds: rows are per channel and calls meet only on a channel or at the campaign's
status, so two channels and a request beside the calendar show every meeting; retries and
polls are counted to 2 instead of 3 and 5, which keeps first, middle and last.
Deadlock is not checked: requests are used once and the calendar runs dry.

Fairness: weak fairness of each call, request, cron run and user's write in
progress, since the process runs them, and of the platform's processing, which
ends. No user is obliged to act.

Seen while modelling, without a run of its own:

- a post made by the calendar leaves the campaign APPROVED; when the reviewer then
  rejects it, a repeated publication returns the existing post without looking at
  the status (`publishing.service.ts:72`) and line 231 sets PUBLISHED whatever it is.
  `schema.prisma:260` says "Le passage à PUBLISHED ne peut jamais sauter l'étape
  APPROVED";
- with "dbError" `AtMostOnePost` fails: a post that could not be recorded stays
  PENDING, and only PUBLISHED stops the next call;
- with "refusal" `BatchSuccessPublishes` fails: `Promise.all` rejects when one
  channel's call throws, after another channel was posted;
- with a quota of 1 the two channels of one request are both counted before any
  of them is posted;
- an entry is marked PUBLISHED when `publishToChannel` returned, also with a
  FAILED row, and an entry canceled while the cron publishes it is overwritten;
- once one channel published the campaign, a FAILED channel cannot be tried again,
  since the status is no longer APPROVED.

`Publishing_proofs.tla` proves, for any channels, requests, entries, cron runs,
retries, polls and mishaps, from `ConstantsAssumption`:

- `TypeCorrect`, which bounds retries and polls, whatever fails.
- `PublishedRowsAreLive`, assuming the platform is not slow: who is about to write
  PUBLISHED has posted, and posts are never undone.
- `OnlyApprovedIsPosted` (`PostsOnlyApproved`), from `ApprovedInv`: a call past the check
  works on a campaign that is still approved, and the platform processes only what a call
  waits for. It assumes that no review withdraws the approval meanwhile and that no call leaves
  the platform at work behind it: the platform is not slow, no poll fails and the process
  lives. Queries and calls may fail.
- `NeverPostedTwice` and `ImplementsChannelDelivery`, assuming `FaultFree`: one
  call at a time runs on a channel, the row is PENDING exactly while that call is
  between its upsert and its end, and the platform shows nothing before it said so.

## AiGateway and Storyboard

`AiGateway.tla` is `executeTracked`, through which every AI call of an
organization goes, with the checks and the charge of `EntitlementsService` and
the two webhooks of Stripe that touch credits.

| state | code |
|---|---|
| `used`, `extra` | `aiCreditsUsed` and `extraCredits` of `Subscription` |
| `call` | each caller's `executeTracked`: where it is, task, place in the chain of providers, status of its `AiGeneration` row, what it is about to take from the packs |
| `clips` | the SUCCEEDED `generateVideo` rows of each campaign, which the quotas count |
| `owed`, `bought`, `renewed` | history: the cost of all SUCCEEDED rows, the packs, what new cycles reset |
| `mishaps` | bound |

A call goes through `AssertCredits`, `OpenGeneration` (the quotas and the RUNNING
row), `ProviderAnswers` or `ProviderFails`, `MarkSucceeded`, `ReadBalance`,
`WriteBalance`. A query that throws inside the loop over the providers counts as
a failed provider (`QueryThrows`), so a SUCCEEDED row may end FAILED. `Abandon`
is the death of the process or of a job. `OpenGeneration` reads and writes in one
step because nobody reads RUNNING rows: its guard and its row are never seen apart.
`MarkSucceeded` is where the quota changes. Free tasks (cost 0) are not charged.

Left out: the budget in dollars (unset by default), the quota of images and the
order of providers by reliability; `moderateText`, which is free, is in
`Moderation` by its outcomes. A network
retry is the same call to a provider that takes longer. A `consumeCredits` that
throws has not committed: a lost acknowledgement of a commit would charge for a
generation that ends FAILED, and is not modelled.

`CreditAccount.tla` is what an organization may rely on, whatever columns hold
its credits: one balance, spent only by calls let in while it was positive, each
once. `balance` is mapped to included - used + extra, `open` to the calls past
the check.

`Storyboard.tla` is `generateShotPlanVideoOrDegrade` over the gateway: shots run in
parallel, wave by wave, each a caller of `AiGateway`.

| state | code |
|---|---|
| `board` | per campaign: where the method is, `remainingSlots`, wave, `quotaExhausted`, whether a shot failed technically, runs of the job |
| `shot` | per shot: where `generateSingleShot` is, attempt, quality of `best` |
| `paid` | history: clips that came back for the shot in this run |

`ReadSlots`, `LaunchWave`, `NoSlotLeft`, `Recover`, `EndWave`, `Throw`, `Deliver` are
the method; `ClipArrives`, `AnalysisEnds`, `QuotaReached`, `VideoFails` one shot;
`RunAgain` and `Crash` the queue and the process. `DependencyWaves` puts a shot in
the wave after those it depends on, for dependencies without a cycle; the
plans of today have none, so there is one wave. Three qualities stand for what
`analyze` may say, among them a high score that did not pass.

### Runs

| run | instance | result |
|---|---|---|
| `gateway_base` | 3 callers (2 of one campaign), a clip of 2 credits, a text of 1 with a fallback, 1 included, a pack, 1 renewal, 1 mishap | implements `CreditAccount`; `SpendingIsBounded` (debts, packs and clips overshoot by no more than the calls in progress), `ChargedForResultsOnly` |
| `storyboard_base` | 2 shots, ceiling of 3 clips, 9 credits, 2 runs, 1 mishap | two clips per shot at most, storyboards end, only the quota discards a clip |

Bounds: calls meet only at the balance and at the two quotas, so three callers
show two of them racing on one campaign while a third uses the same credits; the
balance of 1 is what makes each call the last that is let in. `MaxBought`,
`MaxRenewed` and `MaxMishaps` cap packs, renewals and failures. Shots meet only at
the ceiling and at the credits, so two in one wave show it; waves are in sequence.
The gateway is checked for deadlock; storyboards end, so theirs may stop.

Fairness (`Storyboard` only): weak fairness of each method in progress and each
call, since the process runs its promises and providers answer or time out. A
crash is not fair; it is one of the outcomes `StoryboardsEnd` allows.

Seen while modelling, without a run of its own:

- the clips of a campaign do pass `maxVideoShotsPerCampaign`: `clips <= MaxShots` fails
  in `storyboard_base` when second attempts run in parallel, since the slots were
  counted for first attempts (`entitlements.service.ts:258-263` says the single
  read removes the race); the last part of `SpendingIsBounded` is what does hold;
- `extra >= 0` fails in `gateway_base`: two `consumeCredits` read the same pack;
- when the second attempt of a shot is refused by the video quota,
  `generateSingleShot()` returns without looking at `best`
  (`ai-orchestrator.service.ts:1182`), so the paid clip of the first attempt is not
  in the video, although any other error keeps it (line 1188) and
  `ai-orchestrator.service.spec.ts:1317-1320` says "jamais perdre un clip réussi à
  cause d'un plafond atteint ensuite"; this is the exception in `ClipsLostOnlyToQuota`;
- `best` is chosen by `qualityScore` alone, so a first clip that failed one test may
  be kept rather than a second one that passed.

### Proofs

`Storyboard_proofs.tla` proves of the gateway, from `GatewayAssumption` alone and so for any
callers, campaigns, tasks, costs, chains, packs and quotas:

- `TypeCorrect`, from `TypeInv`, which adds that a call takes no more than its cost
  from the packs (otherwise `aiCreditsUsed` could go below zero).
- `ImplementsCreditAccount`: each step of a call lets in, pays, leaves or does
  nothing to the account. That the two columns together lose exactly the cost,
  though `fromExtra` is stale, is the heart of it.
- `OverdraftTheorem`. The bound is not inductive; `OverdraftInv` is: what is left,
  plus the worst of all callers, exceeds the worst of those let in. A call let in
  pays for itself from its own share.
- `PacksTheorem`, the same argument (`PacksInv`) for the calls that have read a pack
  and not yet written.
- `ClipsTheorem`, from `ClipsInv`, which counts RUNNING clips with SUCCEEDED ones.
- `SpendingTheorem`: the three bounds together are `SpendingIsBounded`.
- `ResultsTheorem` (`ChargedForResultsOnly`), from `ResultsInv`: what was charged, and what
  the calls in progress may still charge, is owed by rows that SUCCEEDED. What calls may
  still charge is a sum over the callers, of which `Sums` proves what one step changes.

From `StoryboardAssumption` it proves that every step of a storyboard is a step of
the gateway (`ImplementsGateway`), so the theorems above hold of it, and

- `TwoClipsTheorem`, from `PaidInv`: a shot has paid no more clips than its attempts so
  far, and a failed shot, which is tried once more, has paid none.
- `ClipsLostTheorem` (`ClipsLostOnlyToQuota`), from `LostInv`: only the shots of the wave
  that runs are in progress, and one that ended without a result though it has a clip met
  the quota.

Only `StoryboardsEnd` is left to TLC, as all liveness.

## Video production

`VideoProduction.tla` is what one job of the worker does with its video: the
pipeline of `AiOrchestratorService` (`CreativePipeline`) makes a raw video, the
quality loop (`QualityLoop`) judges and repairs it, the worker escalates to a new
storyboard or a new concept when the loop is exhausted, and the delivery gate
decides. What is pure in it is written as operators on the answers of the
models: `CreativePlans` (intelligence, concept, gates, blueprint, shot plan,
pruning, pre-flight, cost estimate), `VideoAnalyzer` (the quality of a clip),
`VideoJudge` (nineteen criteria, weights, verdict) and `RepairPolicy` (severity,
priority, history, root cause, level of escalation, delivery gate).

| state | code |
|---|---|
| `gen` (`CreativePipeline`) | the locals of `generateCampaign` and of the regenerations: where they are, what was approved, clips and voice |
| `params`, `cut` (`QualityLoop`) | the parameters of the loop; clips, assembled video, voice and transcript as they are now, each clip a scene and the take it is |
| `loop`, `history` | the locals of `VideoQualityLoopService.run`; the repair history it keeps across escalations |
| `job` | where the worker is, which escalations were used, the outcome and its trace |

`StartGeneration` to `Film` are the pipeline in its order, with `NarrationSettles`
/ `AwaitNarration` for the voice that is made meanwhile; `CallFails` is a call that
throws. `Finalize`, `JudgeVideo`, `RepairSubtitles`, `RegenerateAudio`,
`RegenerateClip`, `EndRepairs`, `LoopThrows` are the loop; `Adopt` is the choice
between a new judgment and the state before the repair. `StartJob`, `EnterLoop`,
`EscalateStoryboard`, `EscalateConcept`, `GiveUp`, `DeliverIncomplete`, `Deliver`,
`DeliverRaw`, `RecordFails` are the worker.

| run | instance | result |
|---|---|---|
| `video_base` | 2 channels, ceiling of 6 clips, 2 repairs, a concept of 3 scenes, real or mock voice, three levels of credits, four outcomes of a judgment | `FilmedPlanIsApproved`, `DeliveredIsComplete`, `OperativeMatchesCut`, `OperativeNeverDrops`, `RepairsAreWarranted`, `ProductionEnds` |

Bounds: the answers of the models are chosen so that each branch is taken (an
answer that cannot be used, a gate below its target, a plan that repeats itself,
a storyboard to prune or to revise); the four measurements are a good video, one
whose borders are cut, one with a false claim and one that is dull, which
between them reach PASS, each kind of repair, a repair that makes things worse
and each level of escalation. The levels of credits allow none, some and all of the
repairs. The clips have one quality: `VideoAnalyzer`'s other answers only change
scores that the measurements already vary. A job runs once, since what the
queue does with it afterwards is `CampaignLifecycle`'s; hence no deadlock check.

Fairness: `WF_vars(Next)`. There is one job, every call it awaits answers or
fails (calls have time limits), and each answer is one of the disjuncts, so the
only thing assumed is that the process runs. `ProductionEnds` then needs the
budget of the repairs, the two escalations and the single revisions to be bounded
together, which no one place of the code says.

Seen while modelling, without a run of its own:

- clips are concatenated in the order of their generation priority
  (`ai-orchestrator.service.ts:1076-1093`), while `shot-risk.ts:46-48` says that
  priority only sorts the loop that generates them, and the judge attributes a
  defect to the scene at that place of the plan (`video-judge.service.ts:635-664`);
- a storyboard may be escalated after a concept (`campaign-generation.processor.ts:763`,
  against the comment at 679), and then with the first blueprint (770), so a voice
  regenerated afterwards speaks of the old concept: the exception in
  `DeliveredIsComplete`;
- moderation (136-165) looks at the on-screen text of the first plan, not of the
  one an escalation made;
- a repair that was undone is remembered by its own criterion, so one that improved
  it counts as effective; a judgment that passes may be undone for a lower score;
- `setVideoClips` runs before the recomposition that may throw, after which clips and
  video differ (the loop then ends, so nothing goes on from them);
- several clip defects regenerate the same worst scene in one pass, since
  `perShotQuality` is never updated; the root cause PRODUCT_FIDELITY cannot be reached;
- the trace says PASSED before the delivery gate refuses, and the asset stays;
- where the loop is skipped after an escalation, the first raw video is returned;
- when a new voice cannot be transcribed, the transcript of the former one is kept;
- a judge whose calls for images and for texts all fail can still say PASS, since the
  criteria it could not see are neutral;
- a narration that fails is noticed once the clips are filmed and paid.

### Proofs

`VideoProduction_proofs.tla` proves, for any answers of the models, plans, budgets,
levels of credits and measurements:

- `RepairsAreUndoneWhole` (`OperativeMatchesCut`) and `RepairsNeverMakeWorse`
  (`OperativeNeverDrops`), both from `LoopInv`. Neither is inductive alone: when a
  judgment is undone, what is restored is `preRepair`, so one must know that from the
  first repair on `preRepair` is the cut of the judgment the loop goes by, and that a
  first pass has none to go back to.

- `OnlyApprovedPlansAreFilmed` (`FilmedPlanIsApproved`), from `ApprovedInv`: wherever the
  pipeline is, the blueprint it holds is of the concept that passed its gate and the shot
  plan of that blueprint (`Matching`), and what pruning and revision leave can still be
  filmed (`FilmablePlan`). That the pruning ends with two scenes or more of the plan it
  began with is `PruningLeavesTwo`.
- `DeliveriesAreComplete` (`DeliveredIsComplete`), from `DeliveryInv`, with `LoopFits`: what
  the loop judges is of the generation that the worker goes by.
- `RepairsAlwaysWarranted` (`RepairsAreWarranted`), from `WarrantedInv`: the repairs made are
  within the budget, which is a number, and no step that is left to do is one that the
  history forbids (`Allowed`). `RankedAre` shows that what the loop repairs is a ranking of
  all the defects that were found, each once.
- `StarterNeverStarts`, a theorem about the code's numbers: an organization that has the
  credits of one month of the starter plan never starts a video. `plan-catalog.ts:115-119`
  says that these 920 credits pay three campaigns with video;
  `cost-control.service.ts:76-85` asks for 1361 before it lets one begin.

`PipelineAssumption` says what an answer of a model is: a record of the answers that the
code accepts at that call. Rankings are sorts of finite sets (`InOrder`) and the first of a
list that fits is a choice (`FirstOf`), because a theorem about a recursive definition is
out of the prover's reach. Only `ProductionEnds` is left to TLC.

## Workspace

`Workspace.tla` is an organization while several of its members, Stripe, the
platforms and the crons act on it: `Subscription`, `Teams` (which reads the plan
of the first for its seats), `Connections` and `PlatformAdapters`. All four speak of
requests in the same way, `Requests.tla`: a request (or a run of a cron or of a
script) arrives, is cut at its awaits, and ends.

| state | code |
|---|---|
| `req` (`Requests`) | each request: where it is, its operation and arguments, what it has read |
| `desk`, `met` | the component each request is for, and the pairs of requests that were in flight together (history, so that a property can except exactly the overlap that breaks it) |
| `row` (`Subscription`) | the `Subscription` row |
| `stripe`, `mail` | what Stripe holds, and the webhooks it has still to deliver |
| `members`, `token`, `invitations` (`Teams`) | the role of each user, the role in the token he carries, the `Invitation` rows |
| `connections`, `deployed` (`Connections`) | the `SocialConnection` rows with the key of their tokens; the key the application runs with |
| `age`, `issued`, `stored` | how old each token is; the newest that the platform gave, and the newest that was ever written to the row (history) |
| `made`, `given`, `lost` (`PlatformAdapters`) | what exists at the platform, the id returned, the answers that were lost |

- `Subscription`: `Checkout`, `CreateCustomer`, `CreateSession`, `ChangePlan`,
  `CancelOrResume`, `CancelTrial`, `CallStripe`, `WriteRow`, `Administrate` are the
  handlers; `DeliverPack`, `DeliverSubscription`, `DeliverInvoice`, `ReadRecovery`,
  `WriteRecovery` the webhooks, in any order and perhaps twice; `ListOverdueTrials`,
  `ExpireTrial` the cron; `PayCheckout`, `StripeChanges`, `TrialEnds` the world.
- `Teams`: `Invite`, `LookUpInvited`, `CreateInvitation`; `Accept`, `ExpireInvitation`,
  `TakeSeat`, `Join`; `AnswerInvitation`, `WriteInvitation` (revoke, resend);
  `ChangeMember`, `NotLastOwner`, `WriteMember`; `DeleteAccount`,
  `LeaveOrganization`; `LogIn` and `InvitationEnds`. The caller's role is that of his
  token, which lives 7 days, whatever he is now.
- `Connections`: `Callback`, `ExchangeCode`, `WriteCallback`, `CallbackFails`; `Disconnect`;
  `GetActiveConnection` (a use, which refreshes a token that expires soon),
  `RefreshExpiringSoon` and `RefreshConnectionById` (the cron), `RefreshAccessToken`,
  `WriteRefresh`, `RefreshFails`, `WriteExpired`; `ReadConnections`, `RotateConnection`,
  `RotationEnds` (the script), `DeployKey`. What the platform gives and the write of the row are
  two steps (`social-connections.service.ts:68` and 70, 162 and 164), and a refresh uses the
  refresh token that it has read: two of them may write in the other order than they were
  given theirs, and a token whose write fails is known to nobody.
- `PlatformAdapters`: `Publish`, `PlatformAnswers`, `AnswersWithoutId`, `AnswerIsLost`,
  `CallIsRefused` for the sequence of calls of each platform. An answer without an id makes
  some adapters throw after the thing is there (`ThrowWithoutId`: TikTok without a
  `publish_id`, Google Ads without `results[0]`, and an answer that cannot be parsed), and others
  go on (`GoOnWithoutId`: LinkedIn's 'unknown', Meta's and Google Ads' undefined).

| run | instance | result |
|---|---|---|
| `workspace_base` | 3 requests over 3 users, the plans trial (2 seats), starter and growth (3), 1 account at LinkedIn | `OwnerRemains`, `RowFollowsStripe`, `TokensSurviveRotation`, `TriesPostOnce`, `SeatsWithinPlan`, `StatusIsWarranted` |
| `workspace_last_seat` | the same | `InvitedCanJoin` is violated: an invitation is counted against its own acceptance |

Bounds: three requests are for the team, three for the accounts, two for a team of
two owners, two for the subscription, one for each of subscription and team, one
alone for the subscription (where a webhook comes twice), or one publication (whose
platform is any of the four, in `Callback` LinkedIn is the one that may or may not give a
refresh token). The properties relate pairs of requests, so a third is the bystander.
`MaxNews = 2` lets news cross, `MaxTokens = 3` two that renew a token meet beside an older one,
`MaxAttempts = 3` is the code's. `OneTokenAges` lets one of the tokens come to its end. The constraint `RowIsFollowed` stops following the
subscription once something older or foreign was written over the row, after which
no property says anything of it. `Alike` (permutations of users) is sound: no
constant tells them apart, and the properties here have no liveness. Requests are used once, hence no deadlock check, and no fairness: these
components promise nothing about when.

`DeployKey` happens when no request is in flight under the old key: a deployment drains the
process it replaces.

Seen while modelling, without a run of its own:

- two owners who demote or remove each other both count two owners: the
  organization is left without one (`teams.service.ts:194`); so is one whose sole owner deletes his
  account while an invitation is pending (`privacy.service.ts:74` counts users only);
- a demoted or removed owner acts as one until his token ends; a smaller plan
  does not look at the seats in use;
- the billing page always creates a checkout, so an organization may have two
  subscriptions at Stripe whose events write the same row; two overlapping
  `getOrCreateCustomer` make two customers, and the invoices of the first are not found;
- events overwrite `suspended`; reactivation sets `active` whatever Stripe says; a late
  write of `changePlan` overwrites `past_due` or `canceled`; a pack delivered twice is
  credited twice;
- of two refreshes at the same time the later write wins, although its token may be the older
  one, which some platforms have revoked by then;
- a refresh under way revives a connection that was just revoked, also from the cron, which
  reads the row again without its status; a publication whose refresh lost to another marks
  the refreshed connection EXPIRED;
- **rotation of the key**: the comment of `rotate-token-encryption-key.ts:17-19` says that a
  connection created or refreshed during the rotation "resterait cohérente". The script
  reads all rows first and writes each later: a token refreshed in between is
  overwritten by the older one, and one created or refreshed after its row was passed stays
  under the old key and cannot be decrypted after the deployment; meanwhile the
  application cannot read the rows already rotated;
- Google Ads' exchange stores the placeholder `pending-customer-id-selection`; Google Ads
  leaves budgets and campaigns behind when a later call fails, and a retry makes new ones;
  an answer without an id leaves a post nobody knows of, recorded as 'unknown' or undefined by
  LinkedIn and Meta and as FAILED for the others; Meta gives no refresh token;
  the time limit of a call throws a plain error, which is not retried.

### Proofs

`Workspace_proofs.tla` proves, for any number of requests,
of users (finitely many, as `TeamsAssumption` says), of accounts and of plans, with
all four components acting:

- `AnOwnerRemains` (`OwnerRemains`), from `OwnerInv`: unless two changes of members
  overlapped or an account deletion was carried out, there is an owner, and what each change in flight
  has read still holds (`Fits`): if it saw an owner there is another one, otherwise its
  user is a member and no owner.
- `SeatsStayWithinPlan` (`SeatsWithinPlan`), from `SeatsInv`: a request that has counted the
  seats finds as many taken as it has counted, but for those that requests it has met took
  since (`SeatFits`); who took one stays among those it has met (`TakersStay`). That
  each plan one may have limits its seats (`SeatsAreLimited`) needs `BillingInv`, by
  which the row, the subscriptions at Stripe and the webhooks speak of the plans on sale.
- `RowAlwaysFollowsStripe` (`RowFollowsStripe`), from `RowInv`. As long as nothing older or
  foreign was written over the row and there is one subscription, there are two numbers, of
  the last change of its plan and of its last change (`Follows`): what is numbered from
  there on, webhook or answer that a request holds, says what Stripe has now (`HooksTell`,
  `Awaits`), and the row was written from there or the webhook that will is under way
  (`PlanThere`, `StatusThere`). `PacksInv` counts the packs whose webhook did not come yet;
  `TrialInv` says what the cron knows of a trial that it has listed.
- `StatusesAreWarranted` (`StatusIsWarranted`): each status that is written has the reason the
  code gives, whatever the other requests wrote in between.
- `PublicationsPostOnce` (`TriesPostOnce`): another try of a publication is made only where all
  its copies are of lost answers, so that it leaves one for each and at most one more; an
  answer without an id ends the tries.
- `RotationLosesNothing` (`TokensSurviveRotation`), from `ConnectionsInv`: as long as
  nothing was connected or refreshed from the first rotation on, each row has the newest token
  that was written to it unless two that renewed it met, what a rotation has read is what is
  there, and each row has the new key or is still to be written by the rotation under way.

All need facts about requests in general (`RequestsInv`: requests arrive in order, those in flight
together have met). Each component is shown once to move one request or none
(`TeamsServe`, `SubscriptionServes`, `ConnectionsServe`, `AdaptersServe`), so that a
property of one need not look into the others. No invariant or action property of these
components is only model-checked.

## Knowledge

`Knowledge.tla` is what an organization knows, with those who write it and draw on
it at the same time; it uses `Requests` too.

| module | state | code |
|---|---|---|
| `BrandMemory` | `memory`, `recent`, `contradictions`, `comparing`; `missed` (history) | the `BrandMemoryEntry` rows of one category, their order by `lastObservedAt` and their contradictions; what the scan of a request has still to compare |
| `ContentStudio` | `piece`, `versions` | a `ContentPiece` and its versions |
| `Optimizer` | `metrics`, `recommendations`; `fetched` (locals); `reached`, `declared` (the world) | the rows of figures per platform and of declared conversions; `OptimizationRecommendation` |
| `ProductIntelligence` | `profiles`, `snapshots`; `held` (locals); `site` (the world); `bought`, `handed` (history) | the profile of an image and the snapshot of a page |
| `Moderation` | `checks`, `brandChecks`, `results`; `told` (the answers of the models) | the rows of `ModerationCheck` and `BrandConsistencyCheck`, and what the worker is told |

- `BrandMemory`: `RecordObservation`, `LookUpObserved`, `StoreObservation`; the scan
  `ReadCandidates`, `Leave`, `AlreadyRecorded`, `RecordContradiction`, `MarkContradicted`,
  `ScanFails`; `ConfirmEntry`, `DismissEntry`, `PromoteToRule`, `CorrectEntry`;
  `Resolve`, `KeepEntries`, `DropEntry`.
- `ContentStudio`: `CreatePiece` to `MakeReady`; `EditContent`, `ValidateTextBody`
  (against the rules of the memory), `CreateEdited`, `CreateVaried`, `SetCurrent`,
  `LearnFromEdit` (which observes in the memory), `SelectVersion`, `Archive`.
- `Optimizer`: `FetchInsights`, `WriteRow`, `AllWritten`, `RecordConversion`,
  `AnalyzeCampaign`, `AssertOptimizerRun`, `CreateRecommendation`, `Review`, `MeasureOutcome`,
  `WriteOutcome`. What it observes of performance goes to another category of the
  memory by the same `RecordObservation`, and is not repeated here.
- `ProductIntelligence`: `BuildProfile`, `AnalyzeImage`, `Identify`, `LookUpSnapshot`,
  `FetchPage`, `ExtractFacts`, `StoreSnapshot`, `RenewSnapshot`, `WriteProfile`, beside
  `PageChanges` and `SnapshotExpires`.
- `Moderation`: `RunModeration`, `PersistCheck` (the checks write in any order, since they
  run together), `ReturnVerdict`; `RunBrandCheck`, `PersistScore`, `ReturnScore`; `ReviewFails`.
  A request is one attempt of the job.

| run | instance | result |
|---|---|---|
| `knowledge_base` | 3 requests at the memory, or 2 after a contradiction; 2 at the studio, or 1 there and 1 at the memory; 2 at the optimizer, or 1 after something was applied; 2 at the products; 2 reviews | `KnowledgeAgrees`, `EvidenceAddsUp`, `RevisionsAreNumbered`, `FiguresAreTrue`, `RecommendationsStand`, `AnalysesAreReused`, `ProfilesAreGrounded`, `VerdictsAreBacked` |

Bounds: two keys on the opposite sides of one question, which is what a contradiction
needs, and a third entry for what two observations at once may create; three
requests, of which the first makes a contradiction, let its resolution cross an
observation and a scan; from a contradiction that is there already two suffice. Elsewhere
the properties relate pairs of requests. What was applied before is measured by one
request alone, since what is applied meanwhile is measured beside another. Three posts on two platforms give a platform whose figures
are a sum; two images, two urls of one page and one of another, two contents and two brands give a profile that
could be of another image, page or brand. The six answers of the moderation are clean, a text left out, a mild and a
grave claim, a check that is unavailable, and one that finds something while another is
unavailable. No fairness and no deadlock check, for the reasons given for `Workspace`.
The target of a scan and its candidates are read in one step. A scan compares an entry with the
`MAX_CANDIDATES_PER_SCAN` others that were observed last (`contradiction.service.ts:56-64`; 30 in
the code, 1 in the run, so that two keys and the entries that observations at once create pass
it); the pairs beyond are in `missed`, and `KnowledgeAgrees` promises nothing of them. A snapshot is
found by the normal form of a url (`NormalUrl`, `product-intelligence.service.ts:217-231`), but the
url itself is fetched: of the three urls two have the same form and may still lead to different
things. `Alikes` permutes the two images and these two urls, which no other constant tells
apart, and no property here is liveness; `OneUrlChanges` bounds what comes to lead
to another content to one of them.

Seen while modelling, without a run of its own:

- brand memory: a scan can set an enforced RULE to CONTRADICTED, after which it is not
  enforced; a dismissed entry that is observed again is scanned and knocks out
  active ones; a pair recorded once as dependent on its context is never flagged again
  after a correction makes the contexts equal; resolving one of two contradictions
  reactivates an entry that is still contradicted; two opposite resolutions at once dismiss
  both entries; the next observation overwrites a person's correction; one edit that replaces "long"
  by "court" makes two observations that contradict each other although they agree;
  `promote` reads and writes the metadata, and loses terms forbidden meanwhile;
- studio: two edits at once have the same number; choosing a variation checks no rule;
- optimizer: `getSnapshotBefore` (`optimizer-outcome.service.ts:73-77`) keeps only the
  latest declared conversion while `getAggregatedMetric` sums all of them (the defect
  `analytics-ingestion.service.ts:231-240` says was corrected), so an unchanged
  campaign shows an impact; insights that fail give an empty latest row, which sets the
  figures of the platform to zero; `simulateInsights` is never reached;
- brand memory, again: the order of the scan was added so that pairs beyond the cap are left out
  reproducibly (comment at `contradiction.service.ts:58-62`), and they stay uncompared until one
  of the two is observed again;
- products: the brand that every prompt is given as the truth is the one seen on the image
  (`product-intelligence.service.ts:73`, `product-grounding.ts:12, 39`), also where the fusion
  preferred that of the page (URL_PREFERRED): only a conflict that it could not resolve
  is listed in the prompt, and what it decided (`productFacts`) is read by no prompt
  (`ProfilesAreGrounded` says which of the two one may rely on);
- products: a profile is reused for ever, also one built while the page could not be
  read, and the 7 days of a snapshot are not consulted then; an extraction that could
  not be parsed is cached with its content; the claims of both brands are kept, so a
  conflict "ne jamais affirmer" (`product-grounding.ts:33-36`) stands beside the page's
  "Marque : X" (28-31); the status of a page is not checked, a 404 is read as the page;
  two first analyses of one image both pay and the second violates the unique key; an old
  content stored late replaces the newer one;
- moderation: a text that is missing in the answer about misleading claims is PASSED
  (`moderation.service.ts:186`), although lines 78-81 mean it to be FLAGGED ("revue
  manuelle requise"): that fallback cannot be reached since the map has every label. The
  rows of failed attempts and of earlier generations are listed with the last one's,
  and nothing tells them apart; when one of the two checks throws, the other goes on
  writing; scores are neither clamped nor validated.

### Proofs

`Knowledge_proofs.tla` proves all eight, for any number of requests, keys, entries, pieces,
posts, images, pages and answers, and whatever the other components do meanwhile:

- `PlacedInv` is what they share: each request serves the component it arrived at.
- `RevisionsNumbered`, from `StudioInv`: a request that is about to write a version has read
  the last one, unless it met another edit.
- `RecommendationsStandAlways`, from `RowsInv`: what was decided stays decided, and what
  was applied is measured once.
- `KnowledgeStaysInAgreement`, from `AgreesInv`: for two entries on the opposite sides of
  one question that are in use, the scan that would have found them has still to come, failed,
  left the pair out as there were too many, or ran while one of them was not there yet
  (`Missed`, and the lemma `LeavesOut`). Opposition is symmetric (`MemoryAssumption`),
  and `OpposedBefore` is what an organization begins with.
- `EvidenceAlwaysAddsUp`, from `EvidenceInv`, which is about sums over the requests: what an
  entry counts is what the observations brought that are done, but for those that crossed.
  A request that read before another wrote loses what the other brought; `LeastSubset` names
  those that were lost.
- `VerdictsAreAlwaysBacked`, from `ReviewedInv`: what a review returns is what the rows of
  its own run say.
- `ProfilesAreAlwaysGrounded`, from `GroundedInv`: whatever a request holds is of its own
  image and of a url with its own normal form, also when another request wrote the row that it
  read; the brand is the one that was seen, and where the page names another the conflict
  is listed or the fusion's fact is the page's.
- `AnalysesAreAlwaysReused`, from `ReusedInv`: of two requests that have not met, the later
  finds what the earlier wrote, unless a request for the same page wrote meanwhile what it had
  read before (`Disturbed`).
- `FiguresAreAlwaysTrue`, from `TypesInv` and `FiguresInv`: the figures of a post never go
  down, and a row is the sum of figures that were each true since the request that
  wrote it began (`Since`, `AddsUp`). `SumOfParts` in `Sums` compares two such sums.

The last but one was found to be wrong as it was first stated: with three requests the
second may write an older content over the one the third was about to reuse; the property now
says so. Choices that the code makes in order are written as IFs rather than as a CASE,
whose branches the prover would have to show exclusive.

## What is proved and what is not

The type invariants of `CampaignLifecycle`, `Publishing` and `AiGateway` are proved rather
than run, as TLC would only repeat the proof.
`Workspace`, `VideoProduction` and `Knowledge` have no separate type invariant: what
the proofs need of the shape of a value (`IsRequest`, `IsConnection`, `IsLoop`) is in
their inductive invariants.

Every invariant and every action property that a passing run checks is stated by a theorem,
for every value of the constants. Both refinements (`ImplementsWorkflow`,
`ImplementsDelivery`) are proved step by step for their safety part. Only model-checked are
their liveness and `BatchSuccessPublishes`, `DueEntriesSettle`, `StoryboardsEnd` and
`ProductionEnds`, which need fairness and ENABLED. Out of the prover's reach is also what a
recursive definition computes; no module proved about declares a recursive operator, and
what a sum over a finite set does when one of its terms changes is proved by `Sums` from the
definition of a fold. What a theorem needs away of the faults is in its statement or in that of
its property: overlap for the lifecycle (`Orderly`), every fault for `NeverPostedTwice` and
`ImplementsChannelDelivery` (`FaultFree`).

## Not modelled

- Prompts: string templates. Reports, notifications beyond their throw, e-mails: wording.
- ffmpeg, storage, health checks: pure I/O, whose failure is a call that throws.
- Analytics and AI economics: read-only queries.
- Click tracking and Meta CAPI: one insert and one outgoing call. Product import: reads a
  shop and returns the result. Templates: a catalogue and a counter.
- Web research and fact verification: the pipeline reads a conflict or none, an input here.
- The counts of images and of active campaigns, and the budget in dollars: the same
  check-then-use as the quotas that are modelled. Their limits are in `PlanCatalog`; the channels
  that a plan allows are an assumption on the channels of a campaign.
- The order of providers by reliability: any provider may fail.
- Passwords and sessions: libraries'. Privacy exports, audit, admin lists, support and help:
  single rows and queries.
- Assets of the studio: one row each.
- The frontend: presentation, and calls of the handlers modelled here.

One hazard has no property: a piece edited after its moderation is published as it is
(`ReviewedContentWasModerated` is about what the worker stores). The code makes no promise to check; `ContentStudio` models the edit, compared only with the
rules of the brand.
