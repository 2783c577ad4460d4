------------------------------- MODULE Moderation --------------------------------
(* What the worker has checked before a campaign is shown to a human: the safety  *)
(* of its texts and of its image (moderation/moderation.service.ts), and beside    *)
(* that how they fit the brand (brand-consistency/brand-consistency.service.ts).   *)
(* Each request is a run of one of the two, by one attempt of the job; a run that   *)
(* throws leaves the rows that it has written to the next attempt's.               *)
EXTENDS Requests, SequencesExt

CONSTANTS
  Texts,     \* the texts of the campaign, by their labels
  Replies,   \* what the models may answer of the texts
  Scores,    \* what they may say of how a text fits the brand
  Unanswered     \* the answer of a call that fails, or that is no JSON

\* moderateText: whether the text is flagged; a call that fails is recorded as such, and thrown.
TextModerations == {"yes", "no", "unavailable"}

\* A reply gives for each text whether it is toxic, and for those it speaks of how severe
\* their false claims are ("none" also when none is quoted); and whether the campaign
\* achieves its objective.
ASSUME ModerationAssumption ==
  /\ Texts \in Seq(ToSet(Texts))
  /\ Scores \subseteq 0..100
  /\ \A reply \in Replies :
       /\ reply.toxic \in [ToSet(Texts) -> TextModerations]
       /\ \/ reply.claims = Unanswered
          \/ \A text \in DOMAIN reply.claims : reply.claims[text] \in {"none", "low", "high"}
       /\ reply.objective \in {"achieved", "missed", "unavailable"}

VARIABLES
  checks,       \* the rows of ModerationCheck, by the run that wrote them
  brandChecks,  \* those of BrandConsistencyCheck
  told,         \* what each run was told by the models
  results       \* what each run returned: a verdict, or a score (history)

moderationVars == <<checks, brandChecks, told, results>>

NoScore == -1
Nothing == [verdict |-> "none", score |-> NoScore]

ModerationInit ==
  /\ checks = [r \in Requests |-> <<>>]
  /\ brandChecks = [r \in Requests |-> <<>>]
  /\ told = [r \in Requests |-> Unanswered]
  /\ results = [r \in Requests |-> Nothing]

-----------------------------------------------------------------------------
(* The safety.                                                              *)

\* Mutant: a text that cannot be checked is as good as one that is clean.
PassedUnlessToxic(reply, text) == IF reply.toxic[text] = "yes" THEN "BLOCKED" ELSE "PASSED"
\* checkToxicity
Toxicity(reply, text) ==
  [yes |-> "BLOCKED", no |-> "PASSED", unavailable |-> "FLAGGED"][reply.toxic[text]]

\* checkMisleadingClaimsBatch: a text that the answer leaves out passes.
MisleadingClaims(reply, text) ==
  IF reply.claims = Unanswered THEN "FLAGGED"
  ELSE IF text \notin DOMAIN reply.claims THEN "PASSED"
  ELSE [none |-> "PASSED", low |-> "FLAGGED", high |-> "BLOCKED"][reply.claims[text]]

\* checkObjectiveAchievement
ObjectiveAchievement(reply) ==
  [achieved |-> "PASSED", missed |-> "BLOCKED", unavailable |-> "FLAGGED"][reply.objective]

\* checkTrademarkInImage never blocks.
TrademarkStatuses == {"PASSED", "FLAGGED"}

\* The checks of a run, in the order in which they are written: two for each text, one
\* for the image, one for the campaign.
Planned ==
  [n \in 1..(2 * Len(Texts)) |-> [type |-> IF n % 2 = 1 THEN "TOXICITY" ELSE "MISLEADING_CLAIMS",
                                   label |-> Texts[(n + 1) \div 2]]]
  \o <<[type |-> "TRADEMARK_IMAGE", label |-> "visual"],
       [type |-> "OBJECTIVE_ACHIEVEMENT", label |-> "campaign"]>>

Statuses(reply, check) ==
  CASE check.type = "TOXICITY" -> {Toxicity(reply, check.label)}
    [] check.type = "MISLEADING_CLAIMS" -> {MisleadingClaims(reply, check.label)}
    [] check.type = "TRADEMARK_IMAGE" -> TrademarkStatuses
    [] check.type = "OBJECTIVE_ACHIEVEMENT" -> {ObjectiveAchievement(reply)}

\* runCampaignModeration: the calls for all the texts are awaited together, and none of
\* them throws.
RunModeration(r) ==
  /\ Arrives(r, "review")
  /\ Call(r, [NewRequest EXCEPT !.op = "moderate", !.pc = "check", !.level = 1])
  /\ \E reply \in Replies : told' = [told EXCEPT ![r] = reply]
  /\ UNCHANGED <<checks, brandChecks, results>>

PersistCheck(r) ==
  /\ Doing(r, "moderate", "check")
  /\ LET check == Planned[req[r].level] IN
     \E status \in Statuses(told[r], check) :
       checks' = [checks EXCEPT ![r] =
                    Append(@, [type |-> check.type, label |-> check.label, status |-> status])]
  /\ Becomes(r, [req[r] EXCEPT !.level = @ + 1,
                               !.pc = IF req[r].level = Len(Planned) THEN "verdict" ELSE @])
  /\ UNCHANGED <<brandChecks, told, results>>

\* computeOverallVerdict
Overall(statuses) ==
  IF "BLOCKED" \in statuses THEN "BLOCKED"
  ELSE IF "FLAGGED" \in statuses THEN "FLAGGED" ELSE "PASSED"

\* Mutant: all that is stored of the campaign is counted.
VerdictOfAll(r) == Overall(UNION {{row.status : row \in ToSet(checks[s])} : s \in Requests})
Verdict(r) == Overall({row.status : row \in ToSet(checks[r])})

ReturnVerdict(r) ==
  /\ Doing(r, "moderate", "verdict")
  /\ results' = [results EXCEPT ![r].verdict = Verdict(r)]
  /\ told' = [told EXCEPT ![r] = Unanswered]
  /\ Goto(r, "done")
  /\ UNCHANGED <<checks, brandChecks>>

-----------------------------------------------------------------------------
(* The brand.                                                               *)

NEUTRAL_SCORE == 50

\* runCampaignBrandCheck: without a brand kit there is nothing to compare with; else one
\* call scores the texts that its answer speaks of.
RunBrandCheck(r) ==
  /\ Arrives(r, "review")
  /\ \/ /\ Call(r, [NewRequest EXCEPT !.op = "brandCheck", !.pc = "done"])
        /\ UNCHANGED told
     \/ /\ Call(r, [NewRequest EXCEPT !.op = "brandCheck", !.pc = "score", !.level = 1])
        /\ \E scored \in SUBSET ToSet(Texts) : \E reply \in [scored -> Scores] :
             told' = [told EXCEPT ![r] = reply]
  /\ UNCHANGED <<checks, brandChecks, results>>

\* The texts, and then the image; what could not be scored is neither good nor bad.
PersistScore(r) ==
  /\ Doing(r, "brandCheck", "score")
  /\ req[r].level <= Len(Texts) + 1
  /\ LET n == req[r].level
         scores == IF n > Len(Texts) THEN Scores \cup {NEUTRAL_SCORE}
                   ELSE IF Texts[n] \in DOMAIN told[r] THEN {told[r][Texts[n]]}
                   ELSE {NEUTRAL_SCORE}
     IN \E score \in scores :
          brandChecks' = [brandChecks EXCEPT ![r] = Append(@,
            [label |-> IF n > Len(Texts) THEN "visual" ELSE Texts[n], score |-> score])]
  /\ Becomes(r, [req[r] EXCEPT !.level = @ + 1])
  /\ UNCHANGED <<checks, told, results>>

\* Math.round of the mean.
Mean(rows) ==
  LET total == SumFunction([i \in DOMAIN rows |-> rows[i].score])
  IN (2 * total + Len(rows)) \div (2 * Len(rows))

ReturnScore(r) ==
  /\ Doing(r, "brandCheck", "score")
  /\ req[r].level > Len(Texts) + 1
  /\ results' = [results EXCEPT ![r].score = Mean(brandChecks[r])]
  /\ told' = [told EXCEPT ![r] = Unanswered]
  /\ Goto(r, "done")
  /\ UNCHANGED <<checks, brandChecks>>

\* A row cannot be written, or a score is no number: the attempt of the job fails.
ReviewFails(r) ==
  /\ req[r].op \in {"moderate", "brandCheck"} /\ req[r].pc \in {"check", "score"}
  /\ told' = [told EXCEPT ![r] = Unanswered]
  /\ Goto(r, "refused")
  /\ UNCHANGED <<checks, brandChecks, results>>

ModerationStep ==
  \E r \in Requests :
    \/ RunModeration(r) \/ PersistCheck(r) \/ ReturnVerdict(r)
    \/ RunBrandCheck(r) \/ PersistScore(r) \/ ReturnScore(r) \/ ReviewFails(r)

-----------------------------------------------------------------------------
Unavailable(reply, check) ==
  CASE check.type = "TOXICITY" -> reply.toxic[check.label] = "unavailable"
    [] check.type = "MISLEADING_CLAIMS" -> reply.claims = Unanswered
    [] check.type = "OBJECTIVE_ACHIEVEMENT" -> reply.objective = "unavailable"
    [] OTHER -> FALSE

\* The verdict that decides whether a human sees the campaign rests on one row for each
\* thing that is checked and on nothing else: not on the rows of an attempt that failed half
\* way, nor of one that still writes after another attempt has begun
\* (moderation.service.ts:99).  What cannot be checked is left to the human, neither passed
\* nor blocked (moderation.service.ts:153, 264), except a text that is left out of the
\* answer about the claims (moderation.service.ts:186).  The score of the brand is within
\* what the run has scored, and no run without a brand kit has one.
VerdictsAreBacked ==
  \A r \in Requests :
    /\ Done(r, "moderate") =>
         LET rows == checks[r]
             found == {row.status : row \in ToSet(rows)}
         IN /\ Len(rows) = Len(Planned)
            /\ \A check \in ToSet(Planned) :
                 \E row \in ToSet(rows) : row.type = check.type /\ row.label = check.label
            /\ results[r].verdict = "BLOCKED" <=> "BLOCKED" \in found
            /\ results[r].verdict = "PASSED" <=> found = {"PASSED"}
    /\ \A row \in ToSet(checks[r]) :
         told[r] # Unanswered /\ Unavailable(told[r], row) => row.status = "FLAGGED"
    /\ Done(r, "brandCheck") =>
         LET scores == {row.score : row \in ToSet(brandChecks[r])}
         IN IF scores = {} THEN results[r].score = NoScore
            ELSE \E low, high \in scores : low <= results[r].score /\ results[r].score <= high
================================================================================
