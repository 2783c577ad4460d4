----------------------------- MODULE Publishing -----------------------------
(***************************************************************************)
(* The publication of one campaign on its channels: PublishingService      *)
(* (social/publishing.service.ts) called by HTTP requests                  *)
(* (publishToMultipleChannels) and by the cron of the editorial calendar   *)
(* (editorial-calendar/), the platforms behind the adapters, and the       *)
(* reviewer who may change his mind.                                       *)
(*                                                                         *)
(* Every call of publishToChannel is cut at its awaits.  A batch is one    *)
(* HTTP request and names a channel once; a tick is one run of the cron at *)
(* a time, and two ticks are two runs that overlap.                        *)
(***************************************************************************)
EXTENDS Naturals, FiniteSets

CONSTANTS
  Channels,      \* the connected accounts (SocialConnection)
  AsyncChannels, \* those whose adapter has checkPublishStatus (TikTok)
  Batches,       \* the HTTP requests
  Ticks,         \* the runs of publishDueEntries that may be active together
  Entries,       \* the calendar entries that may be created
  EntryChannel,  \* the channel of each
  NoEntry,
  MaxTries,      \* maxAttempts given to withRetry (3 in the code)
  MaxPolls,      \* maxAttempts of pollAsyncStatus (5 in the code)
  Quota,         \* maxSocialPosts of the plan
  MaxMishaps,    \* bound: how many queries may fail and processes die, together
  Faults         \* which of the events below may happen

(***************************************************************************)
(* "overlap"    a channel is published by two calls at the same time       *)
(* "review"     the reviewer acts while a call is running                  *)
(* "refusal"    subscription, connection or plan refuse a call             *)
(* "dbError"    a query fails (three times where the code tries again)     *)
(* "lostAnswer" the platform posts, and the adapter gets an error          *)
(* "slow"       the platform is still processing after the last poll       *)
(* "pollError"  the poll itself fails                                      *)
(* "editRace"   an entry is canceled or moved while the cron handles it    *)
(* "crash"      the process dies                                           *)
(***************************************************************************)
FaultKinds ==
  {"overlap", "review", "refusal", "dbError", "lostAnswer", "slow", "pollError", "editRace", "crash"}

ASSUME ConstantsAssumption ==
  /\ AsyncChannels \subseteq Channels
  /\ EntryChannel \in [Entries -> Channels]
  /\ NoEntry \notin Entries
  /\ Batches \cap Ticks = {}
  /\ MaxTries \in Nat \ {0}
  /\ MaxPolls \in Nat \ {0}
  /\ Quota \in Nat
  /\ MaxMishaps \in Nat
  /\ Faults \subseteq FaultKinds

VARIABLES
  campaign,       \* Campaign.status
  post,           \* PublishedPost.status of each channel
  entry, due,     \* CalendarEntry.status; the entries whose time has come
  editing,        \* what a user is doing to an entry (cancel, reschedule)
  callPc, tries,  \* the calls of publishToChannel
  batchPc, batchChannels,
  tickPc, todo, tickEntry,
  mishaps,
  posted,         \* the platform: how often a call really posted
  job             \* the platform: asynchronous processing of a call's post

rowVars == <<campaign, post>>
calendarVars == <<entry, due, editing>>
callVars == <<callPc, tries>>
batchVars == <<batchPc, batchChannels>>
tickVars == <<tickPc, todo, tickEntry>>
platformVars == <<posted, job>>
vars == <<rowVars, calendarVars, callVars, batchVars, tickVars, mishaps, platformVars>>

CampaignStatus == {"READY_FOR_REVIEW", "APPROVED", "REJECTED", "PUBLISHED"}
PostStatus == {"NONE", "PENDING", "PUBLISHED", "FAILED"}
EntryStatus == {"NONE", "SCHEDULED", "PUBLISHED", "MISSED", "CANCELED"}
CallPc == {"idle", "reading", "checking", "connecting", "counting", "upserting", "calling",
           "polling", "failing", "recording", "published", "failed", "threw"}

\* A call belongs to a batch or to a tick.
Calls == (Batches \X Channels) \cup (Ticks \X Entries)
ChannelOf(k) == IF k[1] \in Batches THEN k[2] ELSE EntryChannel[k[2]]

\* A call that has not returned; it published or failed, or threw.
Running(k) == callPc[k] \notin {"idle", "published", "failed", "threw"}
Returned(k) == callPc[k] \in {"published", "failed"}

\* More than any counter of tries or polls may say.
TryLimit == IF MaxTries > MaxPolls THEN MaxTries ELSE MaxPolls

TypeOK ==
  /\ campaign \in CampaignStatus
  /\ post \in [Channels -> PostStatus]
  /\ entry \in [Entries -> EntryStatus]
  /\ due \subseteq Entries
  /\ editing \in [Entries -> {"no", "canceling", "moving"}]
  /\ callPc \in [Calls -> CallPc]
  /\ tries \in [Calls -> 0..(TryLimit - 1)]
  /\ batchPc \in [Batches -> {"idle", "running", "marking", "done", "threw"}]
  /\ batchChannels \in [Batches -> SUBSET Channels]
  /\ tickPc \in [Ticks -> {"idle", "listed", "publishing", "missing"}]
  /\ todo \in [Ticks -> SUBSET Entries]
  /\ tickEntry \in [Ticks -> Entries \cup {NoEntry}]
  /\ mishaps \in 0..MaxMishaps
  /\ posted \in [Calls -> 0..2]
  /\ job \in [Calls -> {"none", "processing", "done", "rejected"}]

Init ==
  /\ campaign = "READY_FOR_REVIEW"
  /\ post = [ch \in Channels |-> "NONE"]
  /\ entry = [e \in Entries |-> "NONE"]
  /\ due = {}
  /\ editing = [e \in Entries |-> "no"]
  /\ callPc = [k \in Calls |-> "idle"]
  /\ tries = [k \in Calls |-> 0]
  /\ batchPc = [b \in Batches |-> "idle"]
  /\ batchChannels = [b \in Batches |-> {}]
  /\ tickPc = [t \in Ticks |-> "idle"]
  /\ todo = [t \in Ticks |-> {}]
  /\ tickEntry = [t \in Ticks |-> NoEntry]
  /\ mishaps = 0
  /\ posted = [k \in Calls |-> 0]
  /\ job = [k \in Calls |-> "none"]

-----------------------------------------------------------------------------
(* publishToChannel                                                        *)

CallGoto(k, pc) == callPc' = [callPc EXCEPT ![k] = pc]

\* A loop of tries or polls ends, and its counter with it.
Leave(k, pc) == CallGoto(k, pc) /\ tries' = [tries EXCEPT ![k] = 0]

\* A query that fails, or the death of the process; each of them counts.
Mishap(kind) ==
  /\ kind \in Faults
  /\ mishaps < MaxMishaps
  /\ mishaps' = mishaps + 1

\* Without "overlap" a call starts when no other one publishes its channel.
ChannelFree(ch) ==
  "overlap" \in Faults \/ \A k \in Calls : ChannelOf(k) = ch => ~Running(k)

\* Mutant of ReadPost: the row is not looked at.
ReadPostNothing(k) ==
  /\ callPc[k] = "reading"
  /\ CallGoto(k, "checking")
  /\ UNCHANGED <<rowVars, calendarVars, tries, batchVars, tickVars, mishaps, platformVars>>

\* Idempotence first: a post that succeeded is returned as it is.
ReadPost(k) ==
  /\ callPc[k] = "reading"
  /\ CallGoto(k, IF post[ChannelOf(k)] = "PUBLISHED" THEN "published" ELSE "checking")
  /\ UNCHANGED <<rowVars, calendarVars, tries, batchVars, tickVars, mishaps, platformVars>>

\* Mutant of CheckApproved: a campaign under review will do.
CheckApprovedUnderReview(k) ==
  /\ callPc[k] = "checking"
  /\ CallGoto(k, IF campaign = "REJECTED" THEN "threw" ELSE "connecting")
  /\ UNCHANGED <<rowVars, calendarVars, tries, batchVars, tickVars, mishaps, platformVars>>

\* assertCampaignApproved
CheckApproved(k) ==
  /\ callPc[k] = "checking"
  /\ CallGoto(k, IF campaign = "APPROVED" THEN "connecting" ELSE "threw")
  /\ UNCHANGED <<rowVars, calendarVars, tries, batchVars, tickVars, mishaps, platformVars>>

\* getActiveConnection found an active connection.
Connect(k) ==
  /\ callPc[k] = "connecting"
  /\ CallGoto(k, "counting")
  /\ UNCHANGED <<rowVars, calendarVars, tries, batchVars, tickVars, mishaps, platformVars>>

\* assertSocialPostQuotaAvailable counts the posts that are PUBLISHED.
CheckQuota(k) ==
  /\ callPc[k] = "counting"
  /\ LET count == Cardinality({ch \in Channels : post[ch] = "PUBLISHED"})
     IN  CallGoto(k, IF count >= Quota THEN "threw" ELSE "upserting")
  /\ UNCHANGED <<rowVars, calendarVars, tries, batchVars, tickVars, mishaps, platformVars>>

\* The row is created, or goes back to PENDING whatever it says by now.
Upsert(k) ==
  /\ callPc[k] = "upserting"
  /\ post' = [post EXCEPT ![ChannelOf(k)] = "PENDING"]
  /\ CallGoto(k, "calling")
  /\ UNCHANGED <<campaign, calendarVars, tries, batchVars, tickVars, mishaps, platformVars>>

Posts(k) == posted' = [posted EXCEPT ![k] = IF @ = 0 THEN 1 ELSE 2]

\* adapter.publish() answers: the post is there, or its processing started.
PlatformAccepts(k) ==
  /\ callPc[k] = "calling"
  /\ IF ChannelOf(k) \in AsyncChannels
       THEN /\ job' = [job EXCEPT ![k] = "processing"]
            /\ Leave(k, "polling")
            /\ UNCHANGED posted
       ELSE /\ Posts(k)
            /\ Leave(k, "recording")
            /\ UNCHANGED job
  /\ UNCHANGED <<rowVars, calendarVars, batchVars, tickVars, mishaps>>

\* withRetry tries again after a retryable error only, MaxTries times in all.
AfterError(k, retryable) ==
  IF retryable /\ tries[k] + 1 < MaxTries
    THEN tries' = [tries EXCEPT ![k] = @ + 1] /\ UNCHANGED callPc
    ELSE Leave(k, "failing")

PlatformRefuses(k) ==
  /\ callPc[k] = "calling"
  /\ \E retryable \in BOOLEAN : AfterError(k, retryable)
  /\ UNCHANGED <<rowVars, calendarVars, batchVars, tickVars, mishaps, platformVars>>

\* The post is there, but the answer was a 5xx or never came.
AnswerLost(k) ==
  /\ "lostAnswer" \in Faults
  /\ callPc[k] = "calling"
  /\ Posts(k)
  /\ \E retryable \in BOOLEAN : AfterError(k, retryable)
  /\ UNCHANGED <<rowVars, calendarVars, batchVars, tickVars, mishaps, job>>

\* The platform ends its processing on its own time.
PlatformFinishes(k) ==
  /\ job[k] = "processing"
  /\ \/ job' = [job EXCEPT ![k] = "done"] /\ Posts(k)
     \/ job' = [job EXCEPT ![k] = "rejected"] /\ UNCHANGED posted
  /\ UNCHANGED <<rowVars, calendarVars, callVars, batchVars, tickVars, mishaps>>

\* Mutants of Poll: any answer is believed; PROCESSING counts as FAILED.
PollBelieves(k) ==
  /\ callPc[k] = "polling"
  /\ CallGoto(k, IF job[k] = "rejected" THEN "failing" ELSE "recording")
  /\ UNCHANGED <<rowVars, calendarVars, tries, batchVars, tickVars, mishaps, platformVars>>

PollGivesUp(k) ==
  /\ callPc[k] = "polling"
  /\ CallGoto(k, IF job[k] = "done" THEN "recording" ELSE "failing")
  /\ UNCHANGED <<rowVars, calendarVars, tries, batchVars, tickVars, mishaps, platformVars>>

\* pollAsyncStatus: after the last poll PROCESSING is returned, and only FAILED
\* is an error for the caller.
Poll(k) ==
  /\ callPc[k] = "polling"
  /\ CASE job[k] = "done" -> Leave(k, "recording")
       [] job[k] = "rejected" -> Leave(k, "failing")
       [] OTHER ->
            IF tries[k] + 1 < MaxPolls
              THEN tries' = [tries EXCEPT ![k] = @ + 1] /\ UNCHANGED callPc
              ELSE "slow" \in Faults /\ Leave(k, "recording")
  /\ UNCHANGED <<rowVars, calendarVars, batchVars, tickVars, mishaps, platformVars>>

PollFails(k) ==
  /\ "pollError" \in Faults
  /\ callPc[k] = "polling"
  /\ Leave(k, "failing")
  /\ UNCHANGED <<rowVars, calendarVars, batchVars, tickVars, mishaps, platformVars>>

WriteFailed(k) ==
  /\ callPc[k] = "failing"
  /\ post' = [post EXCEPT ![ChannelOf(k)] = "FAILED"]
  /\ CallGoto(k, "failed")
  /\ UNCHANGED <<campaign, calendarVars, tries, batchVars, tickVars, mishaps, platformVars>>

\* recordPublishSuccess
RecordSuccess(k) ==
  /\ callPc[k] = "recording"
  /\ post' = [post EXCEPT ![ChannelOf(k)] = "PUBLISHED"]
  /\ CallGoto(k, "published")
  /\ UNCHANGED <<campaign, calendarVars, tries, batchVars, tickVars, mishaps, platformVars>>

\* The subscription, the connection or the plan does not allow the call.
Refused(k) ==
  /\ "refusal" \in Faults
  /\ callPc[k] \in {"checking", "connecting", "counting"}
  /\ CallGoto(k, "threw")
  /\ UNCHANGED <<rowVars, calendarVars, tries, batchVars, tickVars, mishaps, platformVars>>

\* A query of the call fails for good: no catch around any of them.
QueryFails(k) ==
  /\ Mishap("dbError")
  /\ callPc[k] \in {"reading", "checking", "connecting", "counting", "upserting",
                    "failing", "recording"}
  /\ CallGoto(k, "threw")
  /\ UNCHANGED <<rowVars, calendarVars, tries, batchVars, tickVars, platformVars>>

-----------------------------------------------------------------------------
(* publishToMultipleChannels                                               *)

CallsOf(b) == {b} \X batchChannels[b]

StartBatch(b) ==
  /\ batchPc[b] = "idle"
  /\ \E chosen \in (SUBSET Channels) \ {{}} :
       /\ \A ch \in chosen : ChannelFree(ch)
       /\ batchChannels' = [batchChannels EXCEPT ![b] = chosen]
       /\ callPc' = [k \in Calls |-> IF k \in {b} \X chosen THEN "reading" ELSE callPc[k]]
  /\ batchPc' = [batchPc EXCEPT ![b] = "running"]
  /\ UNCHANGED <<rowVars, calendarVars, tries, tickVars, mishaps, platformVars>>

\* Promise.all: the first call that throws ends the request, the others go on.
BatchThrows(b) ==
  /\ batchPc[b] = "running"
  /\ \E k \in CallsOf(b) : callPc[k] = "threw"
  /\ batchPc' = [batchPc EXCEPT ![b] = "threw"]
  /\ UNCHANGED <<rowVars, calendarVars, callVars, batchChannels, tickVars, mishaps, platformVars>>

\* Mutant of HasSuccess: every channel must have succeeded.
HasSuccessOfAll(b) == \A k \in CallsOf(b) : callPc[k] = "published"

\* results.some((r) => r.status === 'PUBLISHED')
HasSuccess(b) == \E k \in CallsOf(b) : callPc[k] = "published"

BatchReturns(b) ==
  /\ batchPc[b] = "running"
  /\ \A k \in CallsOf(b) : Returned(k)
  /\ batchPc' = [batchPc EXCEPT ![b] = IF HasSuccess(b) THEN "marking" ELSE "done"]
  /\ UNCHANGED <<rowVars, calendarVars, callVars, batchChannels, tickVars, mishaps, platformVars>>

\* The campaign becomes PUBLISHED, whatever its status is by now.
MarkCampaign(b) ==
  /\ batchPc[b] = "marking"
  /\ \/ /\ campaign' = "PUBLISHED"
        /\ batchPc' = [batchPc EXCEPT ![b] = "done"]
        /\ UNCHANGED mishaps
     \/ /\ Mishap("dbError")
        /\ UNCHANGED campaign
        /\ batchPc' = [batchPc EXCEPT ![b] = "threw"]
  /\ UNCHANGED <<post, calendarVars, callVars, batchChannels, tickVars, platformVars>>

-----------------------------------------------------------------------------
(* The calendar: its users ...                                             *)

Schedule(e) ==
  /\ entry[e] = "NONE"
  /\ entry' = [entry EXCEPT ![e] = "SCHEDULED"]
  /\ UNCHANGED <<rowVars, due, editing, callVars, batchVars, tickVars, mishaps, platformVars>>

TimeComes(e) ==
  /\ entry[e] = "SCHEDULED"
  /\ e \notin due
  /\ due' = due \cup {e}
  /\ UNCHANGED <<rowVars, entry, editing, callVars, batchVars, tickVars, mishaps, platformVars>>

\* Some run of the cron listed the entry.
CronHas(e) == \E t \in Ticks : e \in todo[t] \/ tickEntry[t] = e

EditRead(e, edit) ==
  /\ entry[e] = "SCHEDULED"
  /\ editing[e] = "no"
  /\ "editRace" \in Faults \/ ~CronHas(e)
  /\ editing' = [editing EXCEPT ![e] = edit]
  /\ UNCHANGED <<rowVars, entry, due, callVars, batchVars, tickVars, mishaps, platformVars>>

CancelRead(e) == EditRead(e, "canceling")
RescheduleRead(e) == EditRead(e, "moving")

CancelWrite(e) ==
  /\ editing[e] = "canceling"
  /\ entry' = [entry EXCEPT ![e] = "CANCELED"]
  /\ editing' = [editing EXCEPT ![e] = "no"]
  /\ UNCHANGED <<rowVars, due, callVars, batchVars, tickVars, mishaps, platformVars>>

RescheduleWrite(e) ==
  /\ editing[e] = "moving"
  /\ due' = due \ {e}
  /\ editing' = [editing EXCEPT ![e] = "no"]
  /\ UNCHANGED <<rowVars, entry, callVars, batchVars, tickVars, mishaps, platformVars>>

\* ... and its cron: the list of the due entries ...
ListDue(t) ==
  LET found == {e \in due : entry[e] = "SCHEDULED"} IN
  /\ tickPc[t] = "idle"
  /\ found # {}
  /\ "overlap" \in Faults \/ \A u \in Ticks : tickPc[u] = "idle"
  /\ "editRace" \in Faults \/ \A e \in found : editing[e] = "no"
  /\ todo' = [todo EXCEPT ![t] = found]
  /\ tickPc' = [tickPc EXCEPT ![t] = "listed"]
  /\ UNCHANGED <<rowVars, calendarVars, callVars, batchVars, tickEntry, mishaps, platformVars>>

\* ... is worked off one by one, without a second look at the entry ...
PublishEntry(t) ==
  /\ tickPc[t] = "listed"
  /\ \E e \in todo[t] :
       /\ ChannelFree(EntryChannel[e])
       /\ todo' = [todo EXCEPT ![t] = @ \ {e}]
       /\ tickEntry' = [tickEntry EXCEPT ![t] = e]
       /\ CallGoto(<<t, e>>, "reading")
  /\ tickPc' = [tickPc EXCEPT ![t] = "publishing"]
  /\ UNCHANGED <<rowVars, calendarVars, tries, batchVars, mishaps, platformVars>>

ListEnds(t) ==
  /\ tickPc[t] = "listed"
  /\ todo[t] = {}
  /\ tickPc' = [tickPc EXCEPT ![t] = "idle"]
  /\ UNCHANGED <<rowVars, calendarVars, callVars, batchVars, todo, tickEntry, mishaps, platformVars>>

TickCall(t) == <<t, tickEntry[t]>>

\* ... and marked PUBLISHED when the call returned, whatever it returned.
MarkPublished(t) ==
  /\ tickPc[t] = "publishing"
  /\ Returned(TickCall(t))
  /\ \/ /\ entry' = [entry EXCEPT ![tickEntry[t]] = "PUBLISHED"]
        /\ tickPc' = [tickPc EXCEPT ![t] = "listed"]
        /\ tickEntry' = [tickEntry EXCEPT ![t] = NoEntry]
        /\ UNCHANGED mishaps
     \/ /\ Mishap("dbError")
        /\ tickPc' = [tickPc EXCEPT ![t] = "missing"]
        /\ UNCHANGED <<entry, tickEntry>>
  /\ UNCHANGED <<rowVars, due, editing, callVars, batchVars, todo, platformVars>>

\* Mutant of CallThrew: the catch block only logs.
CallThrewLogged(t) ==
  /\ tickPc[t] = "publishing"
  /\ callPc[TickCall(t)] = "threw"
  /\ tickPc' = [tickPc EXCEPT ![t] = "listed"]
  /\ tickEntry' = [tickEntry EXCEPT ![t] = NoEntry]
  /\ UNCHANGED <<rowVars, calendarVars, callVars, batchVars, todo, mishaps, platformVars>>

\* The catch block.
CallThrew(t) ==
  /\ tickPc[t] = "publishing"
  /\ callPc[TickCall(t)] = "threw"
  /\ tickPc' = [tickPc EXCEPT ![t] = "missing"]
  /\ UNCHANGED <<rowVars, calendarVars, callVars, batchVars, todo, tickEntry, mishaps, platformVars>>

\* markMissed, whose failure ends the run of the cron.
MarkMissed(t) ==
  /\ tickPc[t] = "missing"
  /\ \/ /\ entry' = [entry EXCEPT ![tickEntry[t]] = "MISSED"]
        /\ tickPc' = [tickPc EXCEPT ![t] = "listed"]
        /\ UNCHANGED <<todo, mishaps>>
     \/ /\ Mishap("dbError")
        /\ UNCHANGED entry
        /\ tickPc' = [tickPc EXCEPT ![t] = "idle"]
        /\ todo' = [todo EXCEPT ![t] = {}]
  /\ tickEntry' = [tickEntry EXCEPT ![t] = NoEntry]
  /\ UNCHANGED <<rowVars, due, editing, callVars, batchVars, platformVars>>

-----------------------------------------------------------------------------
(* The reviewer, whose handlers are those of CampaignLifecycle, and mishaps. *)

Publishing == (\E k \in Calls : Running(k)) \/ (\E b \in Batches : batchPc[b] \in {"running", "marking"})

Approve ==
  /\ campaign = "READY_FOR_REVIEW"
  /\ "review" \in Faults \/ ~Publishing
  /\ campaign' = "APPROVED"
  /\ UNCHANGED <<post, calendarVars, callVars, batchVars, tickVars, mishaps, platformVars>>

Reject ==
  /\ campaign \in {"READY_FOR_REVIEW", "APPROVED"}
  /\ "review" \in Faults \/ ~Publishing
  /\ campaign' = "REJECTED"
  /\ UNCHANGED <<post, calendarVars, callVars, batchVars, tickVars, mishaps, platformVars>>

\* The process dies: its calls, requests and ticks are gone.
Crash ==
  /\ Mishap("crash")
  /\ callPc' = [k \in Calls |-> IF Running(k) THEN "threw" ELSE callPc[k]]
  /\ tries' = [k \in Calls |-> 0]
  /\ batchPc' = [b \in Batches |-> IF batchPc[b] \in {"running", "marking"} THEN "threw"
                                   ELSE batchPc[b]]
  /\ tickPc' = [t \in Ticks |-> "idle"]
  /\ todo' = [t \in Ticks |-> {}]
  /\ tickEntry' = [t \in Ticks |-> NoEntry]
  /\ editing' = [e \in Entries |-> "no"]
  /\ UNCHANGED <<rowVars, entry, due, batchChannels, platformVars>>

-----------------------------------------------------------------------------
CallStep(k) ==
  \/ ReadPost(k) \/ CheckApproved(k) \/ Connect(k) \/ CheckQuota(k) \/ Upsert(k)
  \/ PlatformAccepts(k) \/ PlatformRefuses(k) \/ AnswerLost(k) \/ Poll(k) \/ PollFails(k)
  \/ WriteFailed(k) \/ RecordSuccess(k) \/ Refused(k) \/ QueryFails(k)

BatchStep(b) == BatchThrows(b) \/ BatchReturns(b) \/ MarkCampaign(b)

TickStep(t) ==
  ListDue(t) \/ PublishEntry(t) \/ ListEnds(t) \/ MarkPublished(t) \/ CallThrew(t) \/ MarkMissed(t)

EditWrite(e) == CancelWrite(e) \/ RescheduleWrite(e)

Users ==
  \/ Approve \/ Reject
  \/ \E b \in Batches : StartBatch(b)
  \/ \E e \in Entries : Schedule(e) \/ TimeComes(e) \/ CancelRead(e) \/ RescheduleRead(e)

Next ==
  \/ Users
  \/ \E k \in Calls : CallStep(k) \/ PlatformFinishes(k)
  \/ \E b \in Batches : BatchStep(b)
  \/ \E t \in Ticks : TickStep(t)
  \/ \E e \in Entries : EditWrite(e)
  \/ Crash

Spec == Init /\ [][Next]_vars

\* The process runs what it started and the cron fires; a platform that
\* processes a post ends doing so.
Fairness ==
  /\ \A k \in Calls : WF_vars(CallStep(k)) /\ WF_vars(PlatformFinishes(k))
  /\ \A b \in Batches : WF_vars(BatchStep(b))
  /\ \A t \in Ticks : WF_vars(TickStep(t))
  /\ \A e \in Entries : WF_vars(EditWrite(e))

FairSpec == Spec /\ Fairness

-----------------------------------------------------------------------------
(* What holds whatever fails, a slow platform excepted.                    *)

Live(ch) == \E k \in Calls : ChannelOf(k) = ch /\ posted[k] > 0

\* A row says PUBLISHED only when the post is really there, although rows are
\* rewritten by crossing calls, calls are tried again and processes die.
\* (Needs: no "slow".)
PublishedIsLive == \A ch \in Channels : post[ch] = "PUBLISHED" => Live(ch)

\* The cron settles every entry whose time has come: published or missed (or
\* moved or canceled by a user), whatever the publication does and after every
\* crash or failed query, be it that of its own catch block.
DueEntriesSettle ==
  \A e \in Entries :
    e \in due /\ entry[e] = "SCHEDULED" ~> e \notin due \/ entry[e] # "SCHEDULED"

-----------------------------------------------------------------------------
(* What the comments of pollAsyncStatus and of the adapter say of a slow platform. *)

\* "la publication reste PENDING côté Campaign-ai": no row says PUBLISHED of a
\* post the platform still processes.
UnconfirmedStaysPending ==
  \A k \in Calls : job[k] = "processing" => post[ChannelOf(k)] # "PUBLISHED"

-----------------------------------------------------------------------------
(* What holds when nothing fails.                                          *)

\* "ne publie jamais deux fois sur la plateforme": one post per channel,
\* however often requests and calendar ask for it.
AtMostOnePost ==
  /\ \A k \in Calls : posted[k] <= 1
  /\ \A j, k \in Calls :
       posted[j] > 0 /\ posted[k] > 0 /\ ChannelOf(j) = ChannelOf(k) => j = k

\* Requests, calendar and its retries post nothing of a campaign that is not
\* approved at that time.
PostsOnlyApproved ==
  [][posted' # posted => campaign \in {"APPROVED", "PUBLISHED"}]_vars

\* A request that posted on one channel makes the campaign PUBLISHED, whatever
\* its other channels answer.
BatchSuccessPublishes ==
  \A b \in Batches : \A ch \in Channels :
    posted[<<b, ch>>] > 0 ~> campaign = "PUBLISHED"

\* The promise of an idempotent publication, channel by channel.
Delivery == INSTANCE ChannelDelivery WITH live <- {ch \in Channels : Live(ch)}
ImplementsDelivery == Delivery!Spec
ImplementsDeliverySafety == Delivery!SafetySpec

=============================================================================
