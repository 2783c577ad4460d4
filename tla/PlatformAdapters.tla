---------------------------- MODULE PlatformAdapters -----------------------------
(* What a publication does at a platform (social/adapters), with the attempts of  *)
(* withRetry (social/retry.util.ts).  A platform makes a thing for each call that *)
(* it accepts, whether its answer comes or not, and nothing here is taken back.     *)
EXTENDS Requests

CONSTANT MaxAttempts   \* maxAttempts of withRetry (3 in the code)

ASSUME AttemptsAssumption == MaxAttempts \in Nat \ {0}

VARIABLES
  made,   \* what each request has made at its platform, and in which attempt
  given,  \* the thing whose id each request returns, 0 for none
  lost    \* how many answers to its last call were lost (history)

adapterVars == <<made, given, lost>>

\* The calls of one attempt, each with the answer of the one before.
GoogleAdsCalls == <<"campaignBudget", "campaign", "adGroup", "ad">>
MetaCalls == <<"post">>
TikTokCalls == <<"video">>
LinkedInCalls == <<"share">>
Calls(platform) ==
  CASE platform = "GOOGLE_ADS" -> GoogleAdsCalls
    [] platform = "META" -> MetaCalls
    [] platform = "TIKTOK" -> TikTokCalls
    [] platform = "LINKEDIN" -> LinkedInCalls
Adapters == {"GOOGLE_ADS", "META", "TIKTOK", "LINKEDIN"}
\* Those that throw before they call: without a developer token, without a video.
MayRefuseAtOnce == {"GOOGLE_ADS", "TIKTOK"}
\* What they do with an answer that names nothing: throw, as TikTok for want of a publish_id,
\* Google Ads of results[0] and all that parse one where it cannot be parsed; or go on without
\* the name, as LinkedIn ('unknown'), Meta and Google Ads (undefined).
ThrowWithoutId == {"GOOGLE_ADS", "META", "TIKTOK"}
GoOnWithoutId == {"GOOGLE_ADS", "META", "LINKEDIN"}

AdaptersInit ==
  /\ made = [r \in Requests |-> <<>>]
  /\ given = [r \in Requests |-> 0]
  /\ lost = [r \in Requests |-> 0]

NextCall(r) == Calls(req[r].account)[req[r].level]
IsLast(r) == req[r].level = Len(Calls(req[r].account))
\* level is the call and limit the attempt.
Makes(r) == made' = [made EXCEPT ![r] = Append(@, [what |-> NextCall(r), attempt |-> req[r].limit])]

\* withRetry begins again with the first call, after a SocialApiError that says so.
AfterCallError(r, retryable) ==
  Becomes(r, IF retryable /\ req[r].limit < MaxAttempts
             THEN [req[r] EXCEPT !.level = 1, !.limit = @ + 1]
             ELSE [req[r] EXCEPT !.pc = "refused"])

Publish(r) ==
  /\ Arrives(r, "platform")
  /\ \E platform \in Adapters :
       LET request == [NewRequest EXCEPT !.op = "publish", !.account = platform] IN
       \/ Call(r, [request EXCEPT !.pc = "call", !.level = 1, !.limit = 1])
       \/ platform \in MayRefuseAtOnce /\ Call(r, [request EXCEPT !.pc = "refused"])
  /\ UNCHANGED adapterVars

\* The next call is made with the answer, or there is none left.
AnswerTaken(r) ==
  IF IsLast(r) THEN Goto(r, "done") ELSE Becomes(r, [req[r] EXCEPT !.level = @ + 1])

PlatformAnswers(r) ==
  /\ Doing(r, "publish", "call")
  /\ Makes(r)
  /\ AnswerTaken(r)
  /\ given' = IF IsLast(r) THEN [given EXCEPT ![r] = Len(made[r]) + 1] ELSE given
  /\ UNCHANGED lost

\* Mutant: it is asked again for the id.
AfterNoIdAgain(r) == AfterCallError(r, TRUE)
\* None of these errors is a SocialApiError that may be retried.
AfterNoId(r) == AfterCallError(r, FALSE)
\* The thing is made, and the answer does not say which.
AnswersWithoutId(r) ==
  /\ Doing(r, "publish", "call")
  /\ Makes(r)
  /\ \/ req[r].account \in ThrowWithoutId /\ AfterNoId(r)
     \/ req[r].account \in GoOnWithoutId /\ AnswerTaken(r)
  /\ UNCHANGED <<given, lost>>

\* The thing is there, but a 5xx is answered (retryable), or nothing in time (not).
AnswerIsLost(r) ==
  /\ Doing(r, "publish", "call")
  /\ Makes(r)
  /\ lost' = IF IsLast(r) THEN [lost EXCEPT ![r] = @ + 1] ELSE lost
  /\ \E retryable \in BOOLEAN : AfterCallError(r, retryable)
  /\ UNCHANGED given

CallIsRefused(r) ==
  /\ Doing(r, "publish", "call")
  /\ \E retryable \in BOOLEAN : AfterCallError(r, retryable)
  /\ UNCHANGED adapterVars

AdaptersStep ==
  \E r \in Requests :
    \/ Publish(r) \/ PlatformAnswers(r) \/ AnswersWithoutId(r) \/ AnswerIsLost(r)
    \/ CallIsRefused(r)

-----------------------------------------------------------------------------
Copies(r) ==
  {i \in DOMAIN made[r] : made[r][i].what = Calls(req[r].account)[Len(Calls(req[r].account))]}

\* Of what a publication makes, the last call's is what is published.  Another try is made
\* only of one whose copies are all of lost answers: an answer that names nothing, or cannot be
\* read, leaves its copy alone, unknown to the caller or not.  So there is one for each answer
\* that was lost and at most one more, an id that is returned is that one's, and no attempt
\* makes two of anything: which is all that Publishing supposes of a platform.
TriesPostOnce ==
  \A r \in Requests :
    /\ Doing(r, "publish", "call") => Cardinality(Copies(r)) <= lost[r]
    /\ Cardinality(Copies(r)) <= lost[r] + 1
    /\ Done(r, "publish") => Copies(r) # {}
    /\ given[r] # 0 => Done(r, "publish") /\ given[r] \in Copies(r) /\ given[r] = Len(made[r])
    /\ \A i, j \in DOMAIN made[r] : made[r][i] = made[r][j] => i = j
================================================================================
