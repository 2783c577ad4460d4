------------------------- MODULE Publishing_proofs -------------------------
(***************************************************************************)
(* Theorems about Publishing, for every set of channels, requests, cron    *)
(* runs and calendar entries.                                              *)
(***************************************************************************)
EXTENDS Publishing, TLAPS

LEMMA CallsAreTyped ==
  \A k \in Calls : ChannelOf(k) \in Channels
  BY ConstantsAssumption DEF Calls, ChannelOf

LEMMA TypeInit == Init => TypeOK
  BY ConstantsAssumption
  DEF Init, TypeOK, TryLimit, CampaignStatus, PostStatus, EntryStatus, CallPc

\* The steps of a call write the row of its channel and its own state.
LEMMA CallType ==
  ASSUME TypeOK, NEW k \in Calls, CallStep(k) \/ PlatformFinishes(k)
  PROVE  TypeOK'
<1> USE CallsAreTyped, ConstantsAssumption
    DEF TypeOK, Mishap, Leave, CallGoto, CallPc, PostStatus, TryLimit, rowVars, calendarVars, callVars,
        batchVars, tickVars, platformVars
<1>1. CASE ReadPost(k) \/ CheckApproved(k) \/ Connect(k) \/ CheckQuota(k) \/ Refused(k)
            \/ QueryFails(k) \/ PollFails(k)
  BY <1>1 DEF ReadPost, CheckApproved, Connect, CheckQuota, Refused, QueryFails, PollFails
<1>2. CASE Upsert(k) \/ WriteFailed(k) \/ RecordSuccess(k)
  BY <1>2 DEF Upsert, WriteFailed, RecordSuccess
<1>3. CASE PlatformAccepts(k)
  BY <1>3 DEF PlatformAccepts, Posts
<1>4. CASE PlatformRefuses(k) \/ AnswerLost(k)
  BY <1>4 DEF PlatformRefuses, AnswerLost, AfterError, Posts
<1>5. CASE Poll(k)
  BY <1>5 DEF Poll
<1>6. CASE PlatformFinishes(k)
  BY <1>6 DEF PlatformFinishes, Posts
<1>7. QED
  BY <1>1, <1>2, <1>3, <1>4, <1>5, <1>6 DEF CallStep

LEMMA BatchType ==
  ASSUME TypeOK, NEW b \in Batches, StartBatch(b) \/ BatchStep(b)
  PROVE  TypeOK'
<1> USE DEF TypeOK, Mishap, rowVars, calendarVars, callVars, batchVars, tickVars, platformVars
<1>1. CASE StartBatch(b)
  BY <1>1 DEF StartBatch, CallPc
<1>2. CASE BatchThrows(b) \/ BatchReturns(b)
  BY <1>2 DEF BatchThrows, BatchReturns
<1>3. CASE MarkCampaign(b)
  BY <1>3, ConstantsAssumption DEF MarkCampaign, CampaignStatus
<1>4. QED
  BY <1>1, <1>2, <1>3 DEF BatchStep

LEMMA TickType ==
  ASSUME TypeOK, NEW t \in Ticks, TickStep(t)
  PROVE  TypeOK'
<1> USE DEF TypeOK, Mishap, rowVars, calendarVars, callVars, batchVars, tickVars, platformVars
<1>1. CASE ListDue(t)
  BY <1>1 DEF ListDue
<1>2. CASE PublishEntry(t)
  <2>1. PICK e \in todo[t] :
          /\ todo' = [todo EXCEPT ![t] = @ \ {e}]
          /\ tickEntry' = [tickEntry EXCEPT ![t] = e]
          /\ callPc' = [callPc EXCEPT ![<<t, e>>] = "reading"]
    BY <1>2 DEF PublishEntry, CallGoto
  <2>2. e \in Entries
    OBVIOUS
  <2>3. callPc' \in [Calls -> CallPc]
    BY <2>1 DEF CallPc
  <2>4. tickEntry' \in [Ticks -> Entries \cup {NoEntry}]
    BY <2>1, <2>2
  <2>5. todo' \in [Ticks -> SUBSET Entries]
    BY <2>1
  <2>6. QED
    BY <1>2, <2>3, <2>4, <2>5 DEF PublishEntry
<1>3. CASE ListEnds(t) \/ CallThrew(t)
  BY <1>3 DEF ListEnds, CallThrew
<1>4. CASE MarkPublished(t) \/ MarkMissed(t)
  BY <1>4, ConstantsAssumption DEF MarkPublished, MarkMissed, EntryStatus
<1>5. QED
  BY <1>1, <1>2, <1>3, <1>4 DEF TickStep

LEMMA EntryType ==
  ASSUME TypeOK, NEW e \in Entries,
         Schedule(e) \/ TimeComes(e) \/ CancelRead(e) \/ RescheduleRead(e) \/ EditWrite(e)
  PROVE  TypeOK'
  BY DEF TypeOK, rowVars, calendarVars, callVars, batchVars, tickVars, platformVars, EntryStatus,
         Schedule, TimeComes, CancelRead, RescheduleRead, EditRead, EditWrite, CancelWrite,
         RescheduleWrite

LEMMA OtherType ==
  ASSUME TypeOK, Approve \/ Reject \/ Crash \/ UNCHANGED vars
  PROVE  TypeOK'
<1> USE DEF TypeOK, Mishap, rowVars, calendarVars, callVars, batchVars, tickVars, platformVars
<1>1. CASE Approve \/ Reject
  BY <1>1 DEF Approve, Reject, CampaignStatus
<1>2. CASE Crash
  BY <1>2, ConstantsAssumption DEF Crash, Mishap, CallPc, TryLimit
<1>3. CASE UNCHANGED vars
  BY <1>3 DEF vars
<1>4. QED
  BY <1>1, <1>2, <1>3

LEMMA TypeStep == TypeOK /\ [Next]_vars => TypeOK'
  BY CallType, BatchType, TickType, EntryType, OtherType DEF Next, Users

\* Every variable keeps its type, and no call is retried or polled too often
\* (withRetry, pollAsyncStatus), whatever fails.
THEOREM TypeCorrect == Spec => []TypeOK
  BY TypeInit, TypeStep, PTL DEF Spec

-----------------------------------------------------------------------------
(* A row that says PUBLISHED is backed by a post.                          *)

\* Who is about to write PUBLISHED has a post, and so has a finished job.
SuccessIsBacked ==
  \A k \in Calls : callPc[k] = "recording" \/ job[k] = "done" => posted[k] > 0

LiveInv == TypeOK /\ SuccessIsBacked /\ PublishedIsLive

LEMMA LiveInvCall ==
  ASSUME "slow" \notin Faults, LiveInv, NEW k \in Calls, CallStep(k) \/ PlatformFinishes(k)
  PROVE  SuccessIsBacked' /\ PublishedIsLive'
<1> USE CallsAreTyped
    DEF LiveInv, TypeOK, SuccessIsBacked, PublishedIsLive, Live, Mishap, Leave, CallGoto, rowVars,
        calendarVars, callVars, batchVars, tickVars, platformVars
<1>1. CASE ReadPost(k) \/ CheckApproved(k) \/ Connect(k) \/ CheckQuota(k) \/ Refused(k)
            \/ QueryFails(k) \/ PollFails(k)
  BY <1>1 DEF ReadPost, CheckApproved, Connect, CheckQuota, Refused, QueryFails, PollFails
<1>2. CASE Upsert(k) \/ WriteFailed(k)
  BY <1>2 DEF Upsert, WriteFailed
<1>3. CASE RecordSuccess(k)
  BY <1>3 DEF RecordSuccess
<1>4. CASE PlatformAccepts(k)
  BY <1>4 DEF PlatformAccepts, Posts
<1>5. CASE PlatformRefuses(k)
  BY <1>5 DEF PlatformRefuses, AfterError
<1>6. CASE AnswerLost(k)
  BY <1>6 DEF AnswerLost, AfterError, Posts
<1>7. CASE Poll(k)
  BY <1>7 DEF Poll
<1>8. CASE PlatformFinishes(k)
  BY <1>8 DEF PlatformFinishes, Posts
<1>9. QED
  BY <1>1, <1>2, <1>3, <1>4, <1>5, <1>6, <1>7, <1>8 DEF CallStep

LEMMA LiveInvOther ==
  ASSUME LiveInv,
         \/ Approve \/ Reject \/ Crash \/ UNCHANGED vars
         \/ \E b \in Batches : StartBatch(b) \/ BatchStep(b)
         \/ \E t \in Ticks : TickStep(t)
         \/ \E e \in Entries :
              Schedule(e) \/ TimeComes(e) \/ CancelRead(e) \/ RescheduleRead(e) \/ EditWrite(e)
  PROVE  SuccessIsBacked' /\ PublishedIsLive'
<1>1. /\ UNCHANGED <<post, posted, job>>
      /\ \A k \in Calls : callPc'[k] = "recording" => callPc[k] = "recording"
  <2> USE DEF LiveInv, TypeOK, rowVars, calendarVars, callVars, batchVars, tickVars, platformVars
  <2>1. CASE Approve \/ Reject \/ UNCHANGED vars
    BY <2>1 DEF Approve, Reject, vars
  <2>2. CASE Crash
    BY <2>2 DEF Crash, Mishap
  <2>3. ASSUME NEW b \in Batches, StartBatch(b) \/ BatchStep(b)
        PROVE  <1>1
    BY <2>3 DEF StartBatch, BatchStep, BatchThrows, BatchReturns, MarkCampaign
  <2>4. ASSUME NEW t \in Ticks, TickStep(t)
        PROVE  <1>1
    BY <2>4 DEF TickStep, ListDue, PublishEntry, ListEnds, MarkPublished, CallThrew, MarkMissed,
                CallGoto
  <2>5. ASSUME NEW e \in Entries,
               Schedule(e) \/ TimeComes(e) \/ CancelRead(e) \/ RescheduleRead(e) \/ EditWrite(e)
        PROVE  <1>1
    BY <2>5 DEF Schedule, TimeComes, CancelRead, RescheduleRead, EditRead, EditWrite, CancelWrite,
                RescheduleWrite
  <2>6. QED
    BY <2>1, <2>2, <2>3, <2>4, <2>5
<1>2. QED
  BY <1>1 DEF LiveInv, SuccessIsBacked, PublishedIsLive, Live

\* However calls cross, are retried or die, a row says PUBLISHED only when the
\* platform shows a post, provided the platform finishes within the polls.
THEOREM PublishedRowsAreLive ==
  ASSUME "slow" \notin Faults
  PROVE  Spec => []PublishedIsLive
<1>1. Init => LiveInv
  BY TypeInit DEF Init, LiveInv, SuccessIsBacked, PublishedIsLive
<1>2. LiveInv /\ [Next]_vars => LiveInv'
  <2>1. LiveInv /\ [Next]_vars => SuccessIsBacked' /\ PublishedIsLive'
    BY LiveInvCall, LiveInvOther DEF Next, Users
  <2>2. QED
    BY <2>1, TypeStep DEF LiveInv
<1>3. LiveInv => PublishedIsLive
  BY DEF LiveInv
<1>4. QED
  BY <1>1, <1>2, <1>3, PTL DEF Spec

-----------------------------------------------------------------------------
(* A call is started once at a time, so a row that is PENDING has one.     *)

\* A request that did not start has no call, and a run of the cron is busy with
\* at most the call of its current entry.
CallsFollowCallers ==
  /\ \A b \in Batches : \A ch \in Channels :
       batchPc[b] = "idle" => callPc[<<b, ch>>] = "idle"
  /\ \A t \in Ticks : \A e \in Entries :
       Running(<<t, e>>) => tickPc[t] = "publishing" /\ tickEntry[t] = e

OwnInv == TypeOK /\ CallsFollowCallers

LEMMA CallKinds ==
  /\ \A b \in Batches : \A ch \in Channels : <<b, ch>> \in Calls
  /\ \A t \in Ticks : \A e \in Entries : <<t, e>> \in Calls
  /\ \A b \in Batches : \A t \in Ticks : b # t
  BY ConstantsAssumption DEF Calls

LEMMA OwnInvInit == Init => OwnInv
  BY TypeInit, CallKinds DEF Init, OwnInv, CallsFollowCallers, Running

\* A step of a call starts none, and only an idle call is not Running before.
LEMMA CallStepsRun ==
  ASSUME TypeOK, NEW k \in Calls, CallStep(k) \/ PlatformFinishes(k)
  PROVE  /\ UNCHANGED <<batchVars, tickVars>>
         /\ \A j \in Calls : j # k => callPc'[j] = callPc[j]
         /\ callPc'[k] # callPc[k] => Running(k) /\ callPc'[k] # "idle"
<1> USE DEF TypeOK, Mishap, Leave, CallGoto, Running, rowVars, calendarVars, callVars, batchVars, tickVars,
        platformVars
<1>1. CASE ReadPost(k) \/ CheckApproved(k) \/ Connect(k) \/ CheckQuota(k) \/ Refused(k)
            \/ QueryFails(k) \/ PollFails(k)
  BY <1>1 DEF ReadPost, CheckApproved, Connect, CheckQuota, Refused, QueryFails, PollFails
<1>2. CASE Upsert(k) \/ WriteFailed(k) \/ RecordSuccess(k)
  BY <1>2 DEF Upsert, WriteFailed, RecordSuccess
<1>3. CASE PlatformAccepts(k)
  BY <1>3 DEF PlatformAccepts
<1>4. CASE PlatformRefuses(k) \/ AnswerLost(k)
  BY <1>4 DEF PlatformRefuses, AnswerLost, AfterError
<1>5. CASE Poll(k)
  BY <1>5 DEF Poll
<1>6. CASE PlatformFinishes(k)
  BY <1>6 DEF PlatformFinishes
<1>7. QED
  BY <1>1, <1>2, <1>3, <1>4, <1>5, <1>6 DEF CallStep

LEMMA OwnInvStep == OwnInv /\ [Next]_vars => CallsFollowCallers'
<1> SUFFICES ASSUME OwnInv, [Next]_vars
             PROVE  CallsFollowCallers'
  OBVIOUS
<1> USE CallKinds DEF OwnInv, CallsFollowCallers
<1>1. ASSUME NEW k \in Calls, CallStep(k) \/ PlatformFinishes(k)
      PROVE  CallsFollowCallers'
  <2>1. ASSUME NEW b \in Batches, NEW ch \in Channels, batchPc'[b] = "idle"
        PROVE  callPc'[<<b, ch>>] = "idle"
    BY <1>1, <2>1, CallStepsRun DEF Running, batchVars
  <2>2. ASSUME NEW t \in Ticks, NEW e \in Entries, Running(<<t, e>>)'
        PROVE  tickPc'[t] = "publishing" /\ tickEntry'[t] = e
    BY <1>1, <2>2, CallStepsRun DEF Running, tickVars
  <2>3. QED
    BY <2>1, <2>2
<1>2. ASSUME NEW b \in Batches, StartBatch(b)
      PROVE  CallsFollowCallers'
  <2>1. PICK chosen \in SUBSET Channels :
          callPc' = [k \in Calls |-> IF k \in {b} \X chosen THEN "reading" ELSE callPc[k]]
    BY <1>2 DEF StartBatch
  <2>2. UNCHANGED tickVars /\ batchPc' = [batchPc EXCEPT ![b] = "running"]
    BY <1>2 DEF StartBatch
  <2>3. QED
    BY <2>1, <2>2 DEF Running, tickVars, TypeOK
<1>3. ASSUME NEW b \in Batches, BatchStep(b)
      PROVE  CallsFollowCallers'
  BY <1>3 DEF BatchStep, BatchThrows, BatchReturns, MarkCampaign, Running, callVars, tickVars,
              TypeOK
<1>4. ASSUME NEW t \in Ticks, TickStep(t)
      PROVE  CallsFollowCallers'
  <2> USE DEF TypeOK, Running, callVars, batchVars
  <2>1. CASE ListDue(t) \/ ListEnds(t) \/ CallThrew(t)
    BY <2>1 DEF ListDue, ListEnds, CallThrew, TickCall
  <2>2. CASE PublishEntry(t)
    <3>1. PICK e \in Entries :
            /\ tickEntry' = [tickEntry EXCEPT ![t] = e]
            /\ callPc' = [callPc EXCEPT ![<<t, e>>] = "reading"]
      BY <2>2 DEF PublishEntry, CallGoto
    <3>2. /\ UNCHANGED batchPc
          /\ tickPc[t] = "listed"
          /\ tickPc' = [tickPc EXCEPT ![t] = "publishing"]
      BY <2>2 DEF PublishEntry
    <3>3. QED
      BY <3>1, <3>2
  <2>3. CASE MarkPublished(t) \/ MarkMissed(t)
    BY <2>3 DEF MarkPublished, MarkMissed, TickCall, Returned
  <2>4. QED
    BY <1>4, <2>1, <2>2, <2>3 DEF TickStep
<1>5. ASSUME NEW e \in Entries,
             Schedule(e) \/ TimeComes(e) \/ CancelRead(e) \/ RescheduleRead(e) \/ EditWrite(e)
      PROVE  CallsFollowCallers'
  BY <1>5 DEF Schedule, TimeComes, CancelRead, RescheduleRead, EditRead, EditWrite, CancelWrite,
              RescheduleWrite, Running, callVars, batchVars, tickVars
<1>6. CASE Approve \/ Reject \/ UNCHANGED vars
  BY <1>6 DEF Approve, Reject, vars, Running, callVars, batchVars, tickVars
<1>7. CASE Crash
  BY <1>7 DEF Crash, Mishap, Running, TypeOK
<1>8. QED
  BY <1>1, <1>2, <1>3, <1>4, <1>5, <1>6, <1>7 DEF Next, Users

\* A row that is PENDING has a call that will settle it, while no query fails for
\* good and no process dies.
PendingHasCaller ==
  \A ch \in Channels :
    post[ch] = "PENDING" =>
      \E k \in Calls : ChannelOf(k) = ch /\ callPc[k] \in {"calling", "polling", "failing", "recording"}

\* The calls that will write their row.
Settling(k) == callPc[k] \in {"calling", "polling", "failing", "recording"}

\* Only WriteFailed and RecordSuccess end a call that is to write its row.
LEMMA PendingStep ==
  ASSUME "dbError" \notin Faults, "crash" \notin Faults, OwnInv, PendingHasCaller, [Next]_vars
  PROVE  PendingHasCaller'
<1> USE DEF OwnInv, PendingHasCaller
<1>1. ASSUME NEW k \in Calls, CallStep(k) \/ PlatformFinishes(k)
      PROVE  PendingHasCaller'
  <2> USE CallsAreTyped
      DEF TypeOK, Mishap, Leave, CallGoto, rowVars, calendarVars, callVars, batchVars, tickVars, platformVars
  <2>1. CASE ReadPost(k) \/ CheckApproved(k) \/ Connect(k) \/ CheckQuota(k) \/ Refused(k)
    BY <2>1 DEF ReadPost, CheckApproved, Connect, CheckQuota, Refused
  <2>2. CASE QueryFails(k)
    BY <2>2 DEF QueryFails, Mishap
  <2>3. CASE Upsert(k)
    BY <2>3 DEF Upsert
  <2>4. CASE WriteFailed(k) \/ RecordSuccess(k)
    BY <2>4 DEF WriteFailed, RecordSuccess
  <2>5. CASE PlatformAccepts(k)
    BY <2>5 DEF PlatformAccepts
  <2>6. CASE PlatformRefuses(k) \/ AnswerLost(k)
    BY <2>6 DEF PlatformRefuses, AnswerLost, AfterError
  <2>7. CASE Poll(k) \/ PollFails(k)
    BY <2>7 DEF Poll, PollFails
  <2>8. CASE PlatformFinishes(k)
    BY <2>8 DEF PlatformFinishes
  <2>9. QED
    BY <1>1, <2>1, <2>2, <2>3, <2>4, <2>5, <2>6, <2>7, <2>8 DEF CallStep
<1>2. ASSUME UNCHANGED post, \A k \in Calls : Settling(k) => callPc'[k] = callPc[k]
      PROVE  PendingHasCaller'
  BY <1>2 DEF Settling
<1>3. ASSUME NEW b \in Batches, StartBatch(b)
      PROVE  PendingHasCaller'
  <2>1. PICK chosen \in SUBSET Channels :
          callPc' = [k \in Calls |-> IF k \in {b} \X chosen THEN "reading" ELSE callPc[k]]
    BY <1>3 DEF StartBatch
  <2>2. \A ch \in chosen : callPc[<<b, ch>>] = "idle"
    BY <1>3 DEF StartBatch, CallsFollowCallers
  <2>3. \A k \in Calls : Settling(k) => callPc'[k] = callPc[k]
    BY <2>1, <2>2 DEF Settling
  <2>4. QED
    BY <1>2, <1>3, <2>3 DEF StartBatch, rowVars
<1>4. ASSUME NEW b \in Batches, BatchStep(b)
      PROVE  PendingHasCaller'
  BY <1>2, <1>4 DEF BatchStep, BatchThrows, BatchReturns, MarkCampaign, rowVars, callVars
<1>5. ASSUME NEW t \in Ticks, TickStep(t)
      PROVE  PendingHasCaller'
  <2>1. CASE PublishEntry(t)
    <3>1. PICK e \in Entries : callPc' = [callPc EXCEPT ![<<t, e>>] = "reading"]
      BY <2>1 DEF PublishEntry, CallGoto, TypeOK
    <3>2. ~Running(<<t, e>>)
      BY <2>1 DEF PublishEntry, CallsFollowCallers
    <3>3. \A k \in Calls : Settling(k) => callPc'[k] = callPc[k]
      BY <3>1, <3>2 DEF Settling, Running, TypeOK
    <3>4. QED
      BY <1>2, <2>1, <3>3 DEF PublishEntry, rowVars
  <2>2. CASE ListDue(t) \/ ListEnds(t) \/ MarkPublished(t) \/ CallThrew(t) \/ MarkMissed(t)
    BY <1>2, <2>2 DEF ListDue, ListEnds, MarkPublished, CallThrew, MarkMissed, rowVars, callVars
  <2>3. QED
    BY <1>5, <2>1, <2>2 DEF TickStep
<1>6. ASSUME NEW e \in Entries,
             Schedule(e) \/ TimeComes(e) \/ CancelRead(e) \/ RescheduleRead(e) \/ EditWrite(e)
      PROVE  PendingHasCaller'
  BY <1>2, <1>6 DEF Schedule, TimeComes, CancelRead, RescheduleRead, EditRead, EditWrite,
                    CancelWrite, RescheduleWrite, rowVars, callVars
<1>7. CASE Approve \/ Reject \/ UNCHANGED vars
  BY <1>2, <1>7 DEF Approve, Reject, vars, rowVars, callVars
<1>8. ~Crash
  BY DEF Crash, Mishap, TypeOK
<1>9. QED
  BY <1>1, <1>3, <1>4, <1>5, <1>6, <1>7, <1>8 DEF Next, Users

-----------------------------------------------------------------------------
(* Nothing fails: one call works on a channel at a time, and what the row   *)
(* and the platform say follows from where it is.                          *)

FaultFree == Faults = {}

Serial ==
  \A j, k \in Calls : Running(j) /\ Running(k) /\ ChannelOf(j) = ChannelOf(k) => j = k

\* The idempotence check was true and stays true until the row is PENDING.
PostFollowsCall ==
  \A k \in Calls :
    /\ callPc[k] \in {"checking", "connecting", "counting", "upserting"}
         => post[ChannelOf(k)] \in {"NONE", "FAILED"}
    /\ Settling(k) => post[ChannelOf(k)] = "PENDING"

\* A channel is not posted to before the platform said so to the call.
LiveFollowsCall ==
  /\ \A ch \in Channels : post[ch] \in {"NONE", "FAILED"} => ~Live(ch)
  /\ \A k \in Calls :
       \/ callPc[k] \in {"calling", "failing"}
       \/ callPc[k] = "polling" /\ job[k] # "done"
       => ~Live(ChannelOf(k))
  /\ \A k \in Calls : job[k] = "processing" => callPc[k] = "polling"

CleanInv ==
  /\ OwnInv
  /\ SuccessIsBacked
  /\ PublishedIsLive
  /\ PendingHasCaller
  /\ Serial
  /\ PostFollowsCall
  /\ LiveFollowsCall
  /\ AtMostOnePost

LEMMA CleanInvInit == Init => CleanInv
<1> SUFFICES ASSUME Init
             PROVE  CleanInv
  OBVIOUS
<1>1. OwnInv
  BY OwnInvInit
<1>2. SuccessIsBacked /\ PublishedIsLive /\ PendingHasCaller /\ PostFollowsCall
  BY CallsAreTyped
  DEF Init, SuccessIsBacked, PublishedIsLive, PendingHasCaller, PostFollowsCall, Settling
<1>3. Serial /\ LiveFollowsCall /\ AtMostOnePost
  BY DEF Init, Serial, Running, LiveFollowsCall, AtMostOnePost, Live
<1>4. QED
  BY <1>1, <1>2, <1>3 DEF CleanInv

\* A step that at most starts calls, each on a channel nobody publishes.
LEMMA StartsClean ==
  ASSUME CleanInv, UNCHANGED <<post, posted, job>>,
         \A k \in Calls :
           \/ callPc'[k] = callPc[k]
           \/ /\ callPc'[k] = "reading"
              /\ \A j \in Calls : ChannelOf(j) = ChannelOf(k) => ~Running(j)
              /\ \A j \in Calls :
                   callPc'[j] = "reading" /\ callPc[j] # "reading" /\ ChannelOf(j) = ChannelOf(k)
                     => j = k
  PROVE  /\ Serial'
         /\ PostFollowsCall'
         /\ LiveFollowsCall'
         /\ AtMostOnePost'
<1>1. Serial'
  BY DEF CleanInv, Serial, Running
<1>2. PostFollowsCall'
  BY DEF CleanInv, PostFollowsCall, Settling
<1>3. LiveFollowsCall' /\ AtMostOnePost'
  BY DEF CleanInv, LiveFollowsCall, AtMostOnePost, Live, Running
<1>4. QED
  BY <1>1, <1>2, <1>3

\* Every step but those of the calls only starts calls.
LEMMA OtherStepsStart ==
  ASSUME FaultFree, CleanInv,
         \/ Users \/ UNCHANGED vars
         \/ \E b \in Batches : BatchStep(b)
         \/ \E t \in Ticks : TickStep(t)
         \/ \E e \in Entries : EditWrite(e)
  PROVE  /\ UNCHANGED <<post, posted, job>>
         /\ \A k \in Calls :
              \/ callPc'[k] = callPc[k]
              \/ /\ callPc'[k] = "reading"
                 /\ \A j \in Calls : ChannelOf(j) = ChannelOf(k) => ~Running(j)
                 /\ \A j \in Calls :
                      callPc'[j] = "reading" /\ callPc[j] # "reading" /\ ChannelOf(j) = ChannelOf(k)
                        => j = k
<1> DEFINE Starts(k) ==
             /\ callPc'[k] = "reading"
             /\ \A j \in Calls : ChannelOf(j) = ChannelOf(k) => ~Running(j)
             /\ \A j \in Calls :
                  callPc'[j] = "reading" /\ callPc[j] # "reading" /\ ChannelOf(j) = ChannelOf(k)
                    => j = k
<1> USE DEF rowVars, calendarVars, callVars, batchVars, tickVars, platformVars
<1>1. ASSUME NEW b \in Batches, StartBatch(b)
      PROVE  /\ UNCHANGED <<post, posted, job>>
             /\ \A k \in Calls : callPc'[k] = callPc[k] \/ Starts(k)
  <2>1. PICK chosen \in SUBSET Channels :
          /\ \A ch \in chosen : ChannelFree(ch)
          /\ callPc' = [k \in Calls |-> IF k \in {b} \X chosen THEN "reading" ELSE callPc[k]]
    BY <1>1 DEF StartBatch
  <2>2. \A k \in {b} \X chosen : ChannelOf(k) \in chosen /\ k = <<b, ChannelOf(k)>>
    BY DEF ChannelOf
  <2>3. \A k \in Calls : callPc'[k] # callPc[k] => k \in {b} \X chosen
    BY <2>1
  <2>4. \A k \in Calls : callPc'[k] = "reading" /\ callPc[k] # "reading" => k \in {b} \X chosen
    BY <2>1
  <2>5. \A ch \in chosen : \A j \in Calls : ChannelOf(j) = ch => ~Running(j)
    BY <2>1 DEF ChannelFree, FaultFree
  <2>6. ASSUME NEW k \in Calls, callPc'[k] # callPc[k]
        PROVE  Starts(k)
    <3>1. k \in {b} \X chosen /\ callPc'[k] = "reading"
      BY <2>1, <2>3, <2>6
    <3>2. QED
      BY <3>1, <2>2, <2>4, <2>5
  <2>7. QED
    BY <1>1, <2>6 DEF StartBatch
<1>2. ASSUME NEW t \in Ticks, PublishEntry(t)
      PROVE  /\ UNCHANGED <<post, posted, job>>
             /\ \A k \in Calls : callPc'[k] = callPc[k] \/ Starts(k)
  <2>1. PICK e \in Entries :
          /\ ChannelFree(EntryChannel[e])
          /\ callPc' = [callPc EXCEPT ![<<t, e>>] = "reading"]
    BY <1>2 DEF PublishEntry, CallGoto, CleanInv, OwnInv, TypeOK
  <2>2. <<t, e>> \in Calls /\ ChannelOf(<<t, e>>) = EntryChannel[e]
    BY CallKinds DEF ChannelOf
  <2>3. \A j \in Calls : ChannelOf(j) = EntryChannel[e] => ~Running(j)
    BY <2>1 DEF ChannelFree, FaultFree
  <2>4. \A k \in Calls : callPc'[k] = IF k = <<t, e>> THEN "reading" ELSE callPc[k]
    BY <2>1, <2>2 DEF CleanInv, OwnInv, TypeOK
  <2>5. QED
    BY <1>2, <2>2, <2>3, <2>4 DEF PublishEntry
<1>3. ASSUME UNCHANGED <<post, posted, job, callPc>>
      PROVE  /\ UNCHANGED <<post, posted, job>>
             /\ \A k \in Calls : callPc'[k] = callPc[k] \/ Starts(k)
  BY <1>3
<1>4. ASSUME NEW b \in Batches, BatchStep(b)
      PROVE  UNCHANGED <<post, posted, job, callPc>>
  BY <1>4 DEF BatchStep, BatchThrows, BatchReturns, MarkCampaign
<1>5. ASSUME NEW t \in Ticks,
             ListDue(t) \/ ListEnds(t) \/ MarkPublished(t) \/ CallThrew(t) \/ MarkMissed(t)
      PROVE  UNCHANGED <<post, posted, job, callPc>>
  BY <1>5 DEF ListDue, ListEnds, MarkPublished, CallThrew, MarkMissed
<1>6. ASSUME NEW e \in Entries,
             Schedule(e) \/ TimeComes(e) \/ CancelRead(e) \/ RescheduleRead(e) \/ EditWrite(e)
      PROVE  UNCHANGED <<post, posted, job, callPc>>
  BY <1>6 DEF Schedule, TimeComes, CancelRead, RescheduleRead, EditRead, EditWrite, CancelWrite,
              RescheduleWrite
<1>7. ASSUME Approve \/ Reject \/ UNCHANGED vars
      PROVE  UNCHANGED <<post, posted, job, callPc>>
  BY <1>7 DEF Approve, Reject, vars
<1>8. QED
  BY <1>1, <1>2, <1>3, <1>4, <1>5, <1>6, <1>7 DEF Users, TickStep

\* What a step of call k leaves alone: the other calls, whose channels have no
\* other Running call, and the rows and posts of the other channels.
LEMMA CallIsAlone ==
  ASSUME CleanInv, NEW k \in Calls, Running(k)
  PROVE  \A j \in Calls : Running(j) /\ j # k => ChannelOf(j) # ChannelOf(k)
  BY DEF CleanInv, Serial

\* The steps of a call that write no row and change nothing on the platform.
LEMMA ReadsClean ==
  ASSUME FaultFree, CleanInv, NEW k \in Calls,
         ReadPost(k) \/ CheckApproved(k) \/ Connect(k) \/ CheckQuota(k)
         \/ PlatformRefuses(k) \/ Poll(k)
  PROVE  /\ UNCHANGED <<post, posted, job>>
         /\ PostFollowsCall' /\ LiveFollowsCall' /\ AtMostOnePost'
<1> USE CallsAreTyped
    DEF Mishap, Leave, CallGoto, rowVars, calendarVars, callVars, batchVars, tickVars, platformVars
<1>1. UNCHANGED <<post, posted, job>>
  BY DEF ReadPost, CheckApproved, Connect, CheckQuota, PlatformRefuses, Poll
<1>2. AtMostOnePost'
  BY <1>1 DEF CleanInv, AtMostOnePost
<1>3. CASE ReadPost(k)
  <2>1. callPc[k] = "reading" /\ Running(k)
    BY <1>3 DEF ReadPost, Running
  <2>2. post[ChannelOf(k)] # "PENDING"
    BY <2>1, CallIsAlone DEF CleanInv, PendingHasCaller, Running
  <2>3. post[ChannelOf(k)] # "PUBLISHED" => post[ChannelOf(k)] \in {"NONE", "FAILED"}
    BY <2>2 DEF CleanInv, OwnInv, TypeOK, PostStatus
  <2>4. QED
    BY <1>1, <1>2, <1>3, <2>1, <2>3
    DEF ReadPost, CleanInv, OwnInv, TypeOK, PostFollowsCall, LiveFollowsCall, Live, Settling
<1>4. CASE CheckApproved(k) \/ Connect(k) \/ CheckQuota(k)
  BY <1>1, <1>2, <1>4
  DEF CheckApproved, Connect, CheckQuota, CleanInv, OwnInv, TypeOK, PostFollowsCall,
      LiveFollowsCall, Live, Settling
<1>5. CASE PlatformRefuses(k)
  BY <1>1, <1>2, <1>5
  DEF PlatformRefuses, AfterError, Leave, CleanInv, OwnInv, TypeOK, PostFollowsCall, LiveFollowsCall,
      Live, Settling
<1>6. CASE Poll(k)
  BY <1>1, <1>2, <1>6
  DEF Poll, Leave, FaultFree, CleanInv, OwnInv, TypeOK, PostFollowsCall, LiveFollowsCall, Live, Settling
<1>7. QED
  BY <1>1, <1>2, <1>3, <1>4, <1>5, <1>6

\* The steps that write the row of the channel.
LEMMA RowWritesClean ==
  ASSUME CleanInv, NEW k \in Calls, Upsert(k) \/ WriteFailed(k) \/ RecordSuccess(k)
  PROVE  /\ UNCHANGED <<posted, job>>
         /\ \/ Delivery!Attempt(ChannelOf(k))
            \/ Delivery!Settle(ChannelOf(k))
         /\ PostFollowsCall' /\ LiveFollowsCall' /\ AtMostOnePost'
<1> DEFINE ch == ChannelOf(k)
<1> USE CallsAreTyped
    DEF Mishap, Leave, CallGoto, rowVars, calendarVars, callVars, batchVars, tickVars, platformVars
<1>1. UNCHANGED <<posted, job>>
  BY DEF Upsert, WriteFailed, RecordSuccess
<1>2. AtMostOnePost'
  BY <1>1 DEF CleanInv, AtMostOnePost
<1>3. Running(k)
  BY DEF Upsert, WriteFailed, RecordSuccess, Running
<1>4. /\ \A j \in Calls : j # k => callPc'[j] = callPc[j]
      /\ \A c \in Channels : c # ch => post'[c] = post[c]
      /\ \A c \in Channels : Live(c)' <=> Live(c)
  BY <1>1 DEF Upsert, WriteFailed, RecordSuccess, CleanInv, OwnInv, TypeOK, Live
<1>5. \/ post'[ch] = "PENDING" /\ callPc'[k] = "calling" /\ post[ch] \in {"NONE", "FAILED"}
      \/ post'[ch] = "FAILED" /\ callPc'[k] = "failed" /\ post[ch] = "PENDING" /\ ~Live(ch)
      \/ post'[ch] = "PUBLISHED" /\ callPc'[k] = "published" /\ post[ch] = "PENDING" /\ Live(ch)
  <2> USE DEF CleanInv, OwnInv, TypeOK, PostFollowsCall, Settling
  <2>1. CASE Upsert(k)
    BY <2>1 DEF Upsert
  <2>2. CASE WriteFailed(k)
    BY <2>2 DEF WriteFailed, LiveFollowsCall
  <2>3. CASE RecordSuccess(k)
    <3>1. Live(ch)
      BY <2>3 DEF RecordSuccess, SuccessIsBacked, Live
    <3>2. QED
      BY <2>3, <3>1 DEF RecordSuccess
  <2>4. QED
    BY <2>1, <2>2, <2>3
<1>6. PostFollowsCall'
  BY <1>3, <1>4, <1>5, CallIsAlone DEF CleanInv, PostFollowsCall, Settling, Running
<1>7. LiveFollowsCall'
  <2>1. \A c \in Channels : post'[c] \in {"NONE", "FAILED"} => ~Live(c)'
    BY <1>4, <1>5 DEF CleanInv, LiveFollowsCall
  <2>2. ASSUME NEW j \in Calls,
               \/ callPc'[j] \in {"calling", "failing"}
               \/ callPc'[j] = "polling" /\ job'[j] # "done"
        PROVE  ~Live(ChannelOf(j))'
    BY <1>1, <1>4, <1>5, <2>2 DEF CleanInv, LiveFollowsCall
  <2>3. \A j \in Calls : job'[j] = "processing" => callPc'[j] = "polling"
    BY <1>1, <1>4, <1>3 DEF CleanInv, LiveFollowsCall, Upsert, WriteFailed, RecordSuccess
  <2>4. QED
    BY <2>1, <2>2, <2>3 DEF LiveFollowsCall
<1>8. Delivery!Attempt(ch) \/ Delivery!Settle(ch)
  <2>1. post' = [post EXCEPT ![ch] = post'[ch]]
    BY DEF Upsert, WriteFailed, RecordSuccess, CleanInv, OwnInv, TypeOK
  <2>2. {c \in Channels : Live(c)}' = {c \in Channels : Live(c)}
    BY <1>4
  <2>3. QED
    BY <1>5, <2>1, <2>2
    DEF Delivery!Attempt, Delivery!Settle, Delivery!Confirm, Delivery!Refuse
<1>9. QED
  BY <1>1, <1>2, <1>6, <1>7, <1>8

\* The steps of the platform: one more post, or the state of a job.
LEMMA PlatformClean ==
  ASSUME CleanInv, NEW k \in Calls, PlatformAccepts(k) \/ PlatformFinishes(k)
  PROVE  /\ UNCHANGED post
         /\ UNCHANGED posted \/ Delivery!Deliver(ChannelOf(k))
         /\ PostFollowsCall' /\ LiveFollowsCall' /\ AtMostOnePost'
<1> DEFINE ch == ChannelOf(k)
<1> USE CallsAreTyped
    DEF Mishap, Leave, CallGoto, rowVars, calendarVars, callVars, batchVars, tickVars, platformVars
<1>1. /\ UNCHANGED post
      /\ \A j \in Calls : j # k => callPc'[j] = callPc[j] /\ job'[j] = job[j]
      /\ callPc[k] \in {"calling", "polling"}
      /\ callPc'[k] \in {"polling", "recording"}
      /\ job'[k] = "processing" => callPc'[k] = "polling"
      /\ \/ UNCHANGED posted /\ callPc'[k] = "polling" /\ job'[k] # "done"
         \/ Posts(k) /\ (callPc'[k] = "polling" => job'[k] = "done")
  BY DEF PlatformAccepts, PlatformFinishes, CleanInv, OwnInv, TypeOK, LiveFollowsCall
<1>2. ~Live(ch) /\ post[ch] = "PENDING" /\ Running(k)
  BY <1>1 DEF CleanInv, LiveFollowsCall, PostFollowsCall, Settling, Running, PlatformAccepts,
              PlatformFinishes
<1>3. PostFollowsCall'
  BY <1>1, <1>2 DEF CleanInv, PostFollowsCall, Settling
<1>4. CASE UNCHANGED posted /\ callPc'[k] = "polling" /\ job'[k] # "done"
  BY <1>1, <1>2, <1>3, <1>4 DEF CleanInv, LiveFollowsCall, AtMostOnePost, Live
<1>5. CASE Posts(k) /\ (callPc'[k] = "polling" => job'[k] = "done")
  <2>0. posted[k] = 0
    BY <1>2 DEF Live, CleanInv, OwnInv, TypeOK
  <2>1. posted' = [posted EXCEPT ![k] = 1]
    BY <1>5, <2>0 DEF Posts
  <2>2. \A j \in Calls : posted'[j] = IF j = k THEN 1 ELSE posted[j]
    BY <2>1 DEF CleanInv, OwnInv, TypeOK
  <2>3. \A c \in Channels : Live(c)' <=> Live(c) \/ c = ch
    BY <2>2 DEF Live
  <2>4. AtMostOnePost'
    BY <1>2, <2>2 DEF CleanInv, AtMostOnePost, Live
  <2>5. ASSUME NEW j \in Calls,
               \/ callPc'[j] \in {"calling", "failing"}
               \/ callPc'[j] = "polling" /\ job'[j] # "done"
        PROVE  ~Live(ChannelOf(j))'
    <3>1. j # k
      BY <1>1, <1>5, <2>5
    <3>2. Running(j) /\ ~Live(ChannelOf(j))
      BY <1>1, <2>5, <3>1 DEF Running, CleanInv, LiveFollowsCall
    <3>3. QED
      BY <1>2, <2>3, <3>1, <3>2, CallIsAlone
  <2>6. LiveFollowsCall'
    BY <1>1, <1>2, <2>3, <2>5 DEF CleanInv, LiveFollowsCall
  <2>7. Delivery!Deliver(ch)
    <3>1. {c \in Channels : Live(c)}' = {c \in Channels : Live(c)} \cup {ch}
      BY <2>3
    <3>2. QED
      BY <1>1, <1>2, <3>1 DEF Delivery!Deliver
  <2>8. QED
    BY <1>1, <1>3, <2>4, <2>6, <2>7
<1>6. QED
  BY <1>1, <1>4, <1>5

\* A step of a call keeps the invariant and is a step of ChannelDelivery.
LEMMA CallStepClean ==
  ASSUME FaultFree, CleanInv, NEW k \in Calls, CallStep(k) \/ PlatformFinishes(k)
  PROVE  /\ PostFollowsCall' /\ LiveFollowsCall' /\ AtMostOnePost'
         /\ [Delivery!Next]_(Delivery!vars)
<1> DEFINE live == {c \in Channels : Live(c)}
<1> USE CallsAreTyped
<1>1. CASE ReadPost(k) \/ CheckApproved(k) \/ Connect(k) \/ CheckQuota(k)
            \/ PlatformRefuses(k) \/ Poll(k)
  <2>1. UNCHANGED <<post, live>>
    BY <1>1, ReadsClean DEF Live
  <2>2. QED
    BY <1>1, <2>1, ReadsClean DEF Delivery!vars
<1>2. CASE Upsert(k) \/ WriteFailed(k) \/ RecordSuccess(k)
  BY <1>2, RowWritesClean DEF Delivery!Next
<1>3. CASE PlatformAccepts(k) \/ PlatformFinishes(k)
  <2>1. UNCHANGED posted => UNCHANGED live
    BY DEF Live
  <2>2. QED
    BY <1>3, <2>1, PlatformClean DEF Delivery!Next, Delivery!vars
<1>4. ~(AnswerLost(k) \/ PollFails(k) \/ Refused(k) \/ QueryFails(k))
  BY DEF FaultFree, AnswerLost, PollFails, Refused, QueryFails, Mishap
<1>5. QED
  BY <1>1, <1>2, <1>3, <1>4 DEF CallStep

LEMMA CleanInvStep ==
  ASSUME FaultFree, CleanInv, [Next]_vars
  PROVE  CleanInv' /\ [Delivery!Next]_(Delivery!vars)
<1>1. OwnInv'
  BY TypeStep, OwnInvStep DEF CleanInv, OwnInv
<1>2. PendingHasCaller'
  BY PendingStep DEF FaultFree, CleanInv
<1>3. SuccessIsBacked' /\ PublishedIsLive'
  <2>1. LiveInv /\ "slow" \notin Faults
    BY DEF FaultFree, LiveInv, CleanInv, OwnInv
  <2>2. QED
    BY <2>1, LiveInvCall, LiveInvOther DEF Next, Users
<1>4. ASSUME NEW k \in Calls, CallStep(k) \/ PlatformFinishes(k)
      PROVE  /\ Serial' /\ PostFollowsCall' /\ LiveFollowsCall' /\ AtMostOnePost'
             /\ [Delivery!Next]_(Delivery!vars)
  <2>1. TypeOK
    BY DEF CleanInv, OwnInv
  <2>2. Serial'
    BY <1>4, <2>1, CallStepsRun DEF CleanInv, Serial, Running
  <2>3. QED
    BY <1>4, <2>2, CallStepClean
<1>5. ASSUME \/ Users \/ UNCHANGED vars
             \/ \E b \in Batches : BatchStep(b)
             \/ \E t \in Ticks : TickStep(t)
             \/ \E e \in Entries : EditWrite(e)
      PROVE  /\ Serial' /\ PostFollowsCall' /\ LiveFollowsCall' /\ AtMostOnePost'
             /\ [Delivery!Next]_(Delivery!vars)
  <2>1. UNCHANGED <<post, posted, job>>
    BY <1>5, OtherStepsStart
  <2>2. {c \in Channels : Live(c)}' = {c \in Channels : Live(c)}
    BY <2>1 DEF Live
  <2>3. [Delivery!Next]_(Delivery!vars)
    BY <2>1, <2>2 DEF Delivery!vars
  <2>4. Serial' /\ PostFollowsCall' /\ LiveFollowsCall' /\ AtMostOnePost'
    BY <1>5, OtherStepsStart, StartsClean
  <2>5. QED
    BY <2>3, <2>4
<1>6. ~Crash
  BY DEF Crash, Mishap, FaultFree, CleanInv, OwnInv, TypeOK
<1>7. QED
  BY <1>1, <1>2, <1>3, <1>4, <1>5, <1>6 DEF Next, CleanInv

\* Without faults no channel is posted to twice, however often requests and
\* calendar ask for it.
THEOREM NeverPostedTwice ==
  ASSUME FaultFree
  PROVE  Spec => []AtMostOnePost
<1>1. CleanInv /\ [Next]_vars => CleanInv'
  BY CleanInvStep
<1>2. CleanInv => AtMostOnePost
  BY DEF CleanInv
<1>3. QED
  BY CleanInvInit, <1>1, <1>2, PTL DEF Spec

\* Without faults publishToChannel, cut at its awaits and shared by requests
\* and calendar, implements the idempotent publication of ChannelDelivery.
THEOREM ImplementsChannelDelivery ==
  ASSUME FaultFree
  PROVE  Spec => ImplementsDeliverySafety
<1>1. CleanInv /\ [Next]_vars => CleanInv' /\ [Delivery!Next]_(Delivery!vars)
  BY CleanInvStep
<1>2. Init => Delivery!Init
  BY DEF Init, Delivery!Init, Live
<1>3. QED
  BY CleanInvInit, <1>1, <1>2, PTL DEF Spec, ImplementsDeliverySafety, Delivery!SafetySpec

-----------------------------------------------------------------------------
(* Nothing is posted of a campaign that is not approved.                   *)

\* The calls that assertCampaignApproved let through.
Checked(k) ==
  callPc[k] \in {"connecting", "counting", "upserting", "calling", "polling", "failing",
                 "recording"}

\* Such a call works on an approved campaign, and the platform processes only what
\* a call waits for.
ApprovedInv ==
  /\ OwnInv
  /\ \A k \in Calls : Checked(k) => campaign \in {"APPROVED", "PUBLISHED"}
  /\ \A k \in Calls : job[k] = "processing" => callPc[k] = "polling"

LEMMA ApprovedInvInit == Init => ApprovedInv
  BY OwnInvInit DEF Init, ApprovedInv, Checked

\* A step of a call changes no campaign, goes past the check only when it is approved,
\* and leaves "polling" only when the platform is done.
LEMMA ApprovedCall ==
  ASSUME "slow" \notin Faults, "pollError" \notin Faults, ApprovedInv, NEW k \in Calls, CallStep(k) \/ PlatformFinishes(k)
  PROVE  /\ \A j \in Calls : Checked(j)' => campaign' \in {"APPROVED", "PUBLISHED"}
         /\ \A j \in Calls : job'[j] = "processing" => callPc'[j] = "polling"
         /\ posted' # posted => campaign \in {"APPROVED", "PUBLISHED"}
<1> USE DEF ApprovedInv, OwnInv, TypeOK, Checked, Mishap, Leave, CallGoto, rowVars, calendarVars, callVars,
            batchVars, tickVars, platformVars
<1>1. CASE ReadPost(k) \/ CheckApproved(k) \/ Connect(k) \/ CheckQuota(k) \/ Refused(k)
            \/ QueryFails(k)
  BY <1>1 DEF ReadPost, CheckApproved, Connect, CheckQuota, Refused, QueryFails
<1>2. CASE Upsert(k) \/ WriteFailed(k) \/ RecordSuccess(k)
  BY <1>2 DEF Upsert, WriteFailed, RecordSuccess
<1>3. CASE PlatformAccepts(k)
  BY <1>3 DEF PlatformAccepts
<1>4. CASE PlatformRefuses(k) \/ AnswerLost(k)
  BY <1>4 DEF PlatformRefuses, AnswerLost, AfterError
<1>5. CASE Poll(k)
  BY <1>5 DEF Poll
<1>6. CASE PlatformFinishes(k)
  BY <1>6 DEF PlatformFinishes
<1>7. ~PollFails(k)
  BY DEF PollFails
<1>8. QED
  BY <1>1, <1>2, <1>3, <1>4, <1>5, <1>6, <1>7 DEF CallStep

\* The other steps start calls that did not run, or change the campaign when no call
\* runs, or mark it PUBLISHED.
LEMMA ApprovedOther ==
  ASSUME "review" \notin Faults, "crash" \notin Faults, ApprovedInv,
         \/ Users \/ UNCHANGED vars \/ Crash
         \/ \E b \in Batches : BatchStep(b)
         \/ \E t \in Ticks : TickStep(t)
         \/ \E e \in Entries : EditWrite(e)
  PROVE  /\ \A j \in Calls : Checked(j)' => campaign' \in {"APPROVED", "PUBLISHED"}
         /\ \A j \in Calls : job'[j] = "processing" => callPc'[j] = "polling"
         /\ UNCHANGED posted
<1> USE DEF rowVars, calendarVars, callVars, batchVars, tickVars, platformVars
<1> DEFINE Kept ==
             /\ \A j \in Calls : Checked(j)' => campaign' \in {"APPROVED", "PUBLISHED"}
             /\ \A j \in Calls : job'[j] = "processing" => callPc'[j] = "polling"
             /\ UNCHANGED posted
<1>1. ASSUME UNCHANGED <<campaign, posted, job>>,
             NEW started \in SUBSET Calls, \A k \in started : ~Running(k),
             \A k \in Calls : callPc'[k] = IF k \in started THEN "reading" ELSE callPc[k]
      PROVE  Kept
  <2>1. \A k \in started : job[k] # "processing"
    BY <1>1 DEF ApprovedInv, Running
  <2>2. QED
    BY <1>1, <2>1 DEF ApprovedInv, Checked
<1>2. ASSUME NEW b \in Batches, StartBatch(b)
      PROVE  Kept
  <2>1. PICK chosen \in SUBSET Channels :
          callPc' = [k \in Calls |-> IF k \in {b} \X chosen THEN "reading" ELSE callPc[k]]
    BY <1>2 DEF StartBatch
  <2>2. \A ch \in chosen : callPc[<<b, ch>>] = "idle"
    BY <1>2 DEF StartBatch, ApprovedInv, OwnInv, CallsFollowCallers
  <2>3. {b} \X chosen \in SUBSET Calls /\ \A k \in {b} \X chosen : ~Running(k)
    BY <2>2, CallKinds DEF Running
  <2>4. UNCHANGED <<campaign, posted, job>>
    BY <1>2 DEF StartBatch
  <2>5. QED
    BY <1>1, <2>1, <2>3, <2>4
<1>3. ASSUME NEW t \in Ticks, PublishEntry(t)
      PROVE  Kept
  <2>1. PICK e \in Entries : callPc' = [callPc EXCEPT ![<<t, e>>] = "reading"]
    BY <1>3 DEF PublishEntry, CallGoto, ApprovedInv, OwnInv, TypeOK
  <2>2. {<<t, e>>} \in SUBSET Calls /\ ~Running(<<t, e>>)
    BY <1>3, CallKinds DEF PublishEntry, ApprovedInv, OwnInv, CallsFollowCallers
  <2>3. \A k \in Calls : callPc'[k] = IF k \in {<<t, e>>} THEN "reading" ELSE callPc[k]
    BY <2>1 DEF ApprovedInv, OwnInv, TypeOK
  <2>4. UNCHANGED <<campaign, posted, job>>
    BY <1>3 DEF PublishEntry
  <2>5. QED
    BY <1>1, <2>2, <2>3, <2>4
<1>4. ASSUME UNCHANGED <<callPc, posted, job>>,
             \/ UNCHANGED campaign
             \/ campaign' = "PUBLISHED"
             \/ \A k \in Calls : ~Running(k)
      PROVE  Kept
  BY <1>4 DEF ApprovedInv, Checked, Running
<1>5. CASE Approve \/ Reject \/ UNCHANGED vars
  BY <1>4, <1>5 DEF Approve, Reject, Publishing, vars
<1>6. ASSUME NEW b \in Batches, BatchStep(b)
      PROVE  Kept
  BY <1>4, <1>6 DEF BatchStep, BatchThrows, BatchReturns, MarkCampaign
<1>7. ASSUME NEW t \in Ticks,
             ListDue(t) \/ ListEnds(t) \/ MarkPublished(t) \/ CallThrew(t) \/ MarkMissed(t)
      PROVE  Kept
  BY <1>4, <1>7 DEF ListDue, ListEnds, MarkPublished, CallThrew, MarkMissed
<1>8. ASSUME NEW e \in Entries,
             Schedule(e) \/ TimeComes(e) \/ CancelRead(e) \/ RescheduleRead(e) \/ EditWrite(e)
      PROVE  Kept
  BY <1>4, <1>8 DEF Schedule, TimeComes, CancelRead, RescheduleRead, EditRead, EditWrite,
                    CancelWrite, RescheduleWrite
<1>9. ~Crash
  BY DEF Crash, Mishap, ApprovedInv, OwnInv, TypeOK
<1>10. QED
  BY <1>2, <1>3, <1>5, <1>6, <1>7, <1>8, <1>9 DEF Users, TickStep

\* While the reviewer does not act on a campaign that is being published, and the
\* platform ends within the polls, nothing is posted of a campaign that is not approved at
\* that moment: whatever calls cross, are refused, tried again or fail.
THEOREM OnlyApprovedIsPosted ==
  ASSUME "review" \notin Faults, "slow" \notin Faults, "pollError" \notin Faults,
         "crash" \notin Faults
  PROVE  Spec => PostsOnlyApproved
<1>1. ASSUME ApprovedInv, [Next]_vars
      PROVE  ApprovedInv' /\ (posted' # posted => campaign \in {"APPROVED", "PUBLISHED"})
  <2>1. OwnInv'
    BY <1>1, TypeStep, OwnInvStep DEF ApprovedInv, OwnInv
  <2>2. ASSUME NEW k \in Calls, CallStep(k) \/ PlatformFinishes(k)
        PROVE  ApprovedInv' /\ (posted' # posted => campaign \in {"APPROVED", "PUBLISHED"})
    BY <1>1, <2>1, <2>2, ApprovedCall DEF ApprovedInv
  <2>3. ASSUME \/ Users \/ UNCHANGED vars \/ Crash
               \/ \E b \in Batches : BatchStep(b)
               \/ \E t \in Ticks : TickStep(t)
               \/ \E e \in Entries : EditWrite(e)
        PROVE  ApprovedInv' /\ (posted' # posted => campaign \in {"APPROVED", "PUBLISHED"})
    BY <1>1, <2>1, <2>3, ApprovedOther DEF ApprovedInv
  <2>4. \/ \E k \in Calls : CallStep(k) \/ PlatformFinishes(k)
        \/ Users \/ UNCHANGED vars \/ Crash
        \/ \E b \in Batches : BatchStep(b)
        \/ \E t \in Ticks : TickStep(t)
        \/ \E e \in Entries : EditWrite(e)
    BY <1>1 DEF Next
  <2>5. QED
    BY <2>2, <2>3, <2>4
<1>2. ApprovedInv /\ [Next]_vars
        => ApprovedInv' /\ [posted' # posted => campaign \in {"APPROVED", "PUBLISHED"}]_vars
  BY <1>1
<1>3. QED
  BY ApprovedInvInit, <1>2, PTL DEF Spec, PostsOnlyApproved
=============================================================================
