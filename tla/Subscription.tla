----------------------------- MODULE Subscription ------------------------------
(* The subscription of one organization: its row in the database, written by the  *)
(* billing pages (billing/stripe.service.ts), by the webhooks of Stripe, by the   *)
(* cron of the trials (trial-expiry.service.ts) and by the platform's staff       *)
(* (admin.service.ts), and Stripe itself, which is external: it keeps             *)
(* subscriptions of its own, and each change of one is a numbered piece of news   *)
(* that a webhook brings, after any delay, in any order, and maybe twice.         *)
EXTENDS Requests, PlanCatalog

CONSTANTS
  Plans,            \* the plans one may subscribe to on one's own
  PACK,             \* the credits of a pack
  MaxNews,          \* bound: how many changes happen at Stripe
  MaxRedeliveries   \* bound: how many webhooks are delivered again

ASSUME SubscriptionAssumption ==
  /\ Plans \subseteq SoldPlans
  /\ PACK \in {CREDIT_PACKS[pack] : pack \in DOMAIN CREDIT_PACKS}
  /\ MaxNews \in Nat /\ MaxRedeliveries \in Nat

VARIABLES
  row,      \* the subscription of the organization in the database
  stripe,   \* the customers, the subscriptions and the sessions at Stripe
  mail      \* the webhooks under way

billingVars == <<row, stripe, mail>>

\* news is the number of the change at Stripe that the row was last written from, and
\* detached whether something else was ever written over it (history).
NewRow == [plan |-> "trial", status |-> "trialing", cancelAtPeriodEnd |-> FALSE,
           customer |-> 0, subscription |-> 0, extraCredits |-> 0,
           news |-> 0, detached |-> FALSE]

\* A subscription that was paid for, at Stripe.
Subscribed(plan, customer) ==
  [status |-> "active", plan |-> plan, cancelAtPeriodEnd |-> FALSE, customer |-> customer]
NewStripe == [customers |-> 0, subs |-> <<>>, sessions |-> {}, packs |-> 0,
              trialOver |-> FALSE, news |-> 0, redelivered |-> 0]

\* An organization on its trial, or one whose first subscription is in the row.
SubscriptionInit ==
  /\ \/ row = NewRow /\ stripe = NewStripe
     \/ \E plan \in Plans :
          /\ row = [NewRow EXCEPT !.plan = plan, !.status = "active",
                                  !.customer = 1, !.subscription = 1]
          /\ stripe = [NewStripe EXCEPT !.customers = 1, !.subs = <<Subscribed(plan, 1)>>,
                                           !.trialOver = TRUE]
  /\ mail = {}

\* assertActiveSubscription
ActiveSubscription == row.status \notin {"expired", "canceled", "past_due", "suspended"}

\* The row is written from the news of this number.
Written(new, news) ==
  row' = [new EXCEPT !.news = IF news > row.news THEN news ELSE @,
                     !.detached = @ \/ news < row.news]
Detached(new) == row' = [new EXCEPT !.detached = TRUE]

-----------------------------------------------------------------------------
(* Stripe.                                                                  *)

News == stripe.news + 1
Running(i) == stripe.subs[i].status # "canceled"

\* What a webhook brings: the subscription as it was when the news was made.
Webhook(kind, news, i, sub) ==
  [kind |-> kind, news |-> news, sub |-> i, object |-> sub, read |-> FALSE, again |-> FALSE]

\* Subscription i becomes sub, and a webhook of each kind goes out.
Changed(i, sub, kinds) ==
  /\ stripe' = [stripe EXCEPT !.subs[i] = sub, !.news = News]
  /\ mail' = mail \cup {Webhook(kind, News, i, sub) : kind \in kinds}

\* A session of the checkout is paid for.
PayCheckout ==
  /\ stripe.news < MaxNews
  /\ \E session \in stripe.sessions :
       \/ /\ session.plan = "pack"
          /\ stripe' = [stripe EXCEPT !.packs = @ + 1, !.news = News,
                                      !.sessions = @ \ {session}]
          /\ mail' = mail \cup {Webhook("pack", News, 0, session)}
       \/ /\ session.plan # "pack"
          /\ LET sub == Subscribed(session.plan, session.customer)
             IN /\ stripe' = [stripe EXCEPT !.subs = Append(@, sub), !.news = News,
                                            !.sessions = @ \ {session}]
                /\ mail' = mail \cup {Webhook("checkout", News, Len(stripe.subs) + 1, sub)}
  /\ UNCHANGED <<row, requestVars>>

\* A renewal that is paid, one that is not, a late payment, a cancellation in the
\* portal, and the end of a subscription that was canceled or is not paid.
StripeChanges ==
  /\ stripe.news < MaxNews
  /\ \E i \in DOMAIN stripe.subs :
       LET sub == stripe.subs[i]
       IN \/ /\ sub.status = "active"
             /\ Changed(i, sub, {"cycle"})
          \/ /\ sub.status = "active"
             /\ Changed(i, [sub EXCEPT !.status = "past_due"], {"failed", "updated"})
          \/ /\ sub.status = "past_due"
             /\ \E kind \in {"cycle", "recovered"} :
                  Changed(i, [sub EXCEPT !.status = "active"], {kind, "updated"})
          \/ /\ Running(i)
             /\ Changed(i, [sub EXCEPT !.cancelAtPeriodEnd = ~@], {"updated"})
          \/ /\ Running(i) /\ (sub.status = "past_due" \/ sub.cancelAtPeriodEnd)
             /\ Changed(i, [sub EXCEPT !.status = "canceled"], {"deleted"})
  /\ UNCHANGED <<row, requestVars>>

\* The days of the trial go by.
TrialEnds ==
  /\ ~stripe.trialOver
  /\ stripe' = [stripe EXCEPT !.trialOver = TRUE]
  /\ UNCHANGED <<row, mail, requestVars>>

-----------------------------------------------------------------------------
(* handleWebhookEvent.                                                      *)

\* Mutant: an update leaves the planned cancellation as it is.
OnSubscriptionUpdatedKeepsCancellation(sub) ==
  [row EXCEPT !.status = sub.status, !.plan = sub.plan]
OnSubscriptionUpdated(sub) ==
  [row EXCEPT !.status = sub.status, !.plan = sub.plan,
              !.cancelAtPeriodEnd = sub.cancelAtPeriodEnd]
OnCheckoutCompleted(i, sub) ==
  [row EXCEPT !.plan = sub.plan, !.subscription = i, !.status = "active",
              !.cancelAtPeriodEnd = FALSE]
OnSubscriptionDeleted == [row EXCEPT !.status = "canceled", !.cancelAtPeriodEnd = FALSE]

\* The webhook is answered; Stripe may send it again all the same.
Answered(hook) ==
  \/ /\ mail' = mail \ {hook} /\ UNCHANGED stripe
  \/ /\ stripe.redelivered < MaxRedeliveries
     /\ stripe' = [stripe EXCEPT !.redelivered = @ + 1]
     /\ mail' = (mail \ {hook}) \cup {[hook EXCEPT !.again = TRUE, !.read = FALSE]}

\* onCheckoutCompleted of a pack increments what is there.
DeliverPack ==
  \E hook \in mail :
    /\ hook.kind = "pack"
    /\ row' = [row EXCEPT !.extraCredits = @ + PACK, !.detached = @ \/ hook.again]
    /\ Answered(hook)
    /\ UNCHANGED requestVars

DeliverSubscription ==
  \E hook \in mail :
    /\ \/ /\ hook.kind = "checkout"
          /\ Written(OnCheckoutCompleted(hook.sub, hook.object), hook.news)
       \/ /\ hook.kind = "updated"
          /\ Written(OnSubscriptionUpdated(hook.object), hook.news)
       \/ /\ hook.kind = "deleted"
          /\ Written(OnSubscriptionDeleted, hook.news)
    /\ Answered(hook)
    /\ UNCHANGED requestVars

\* onPaymentFailed and onPaymentSucceeded look the row up by the customer.
DeliverInvoice ==
  \E hook \in mail :
    /\ hook.kind \in {"failed", "cycle"}
    /\ IF hook.object.customer # row.customer THEN UNCHANGED row
       ELSE Written([row EXCEPT !.status = IF hook.kind = "failed" THEN "past_due"
                                           ELSE "active"], hook.news)
    /\ Answered(hook)
    /\ UNCHANGED requestVars

\* A payment that is not of a new cycle: the status is read before it is written.
ReadRecovery ==
  \E hook \in mail :
    /\ hook.kind = "recovered" /\ ~hook.read
    /\ IF hook.object.customer = row.customer /\ row.status = "past_due"
       THEN mail' = (mail \ {hook}) \cup {[hook EXCEPT !.read = TRUE]} /\ UNCHANGED stripe
       ELSE Answered(hook)
    /\ UNCHANGED <<row, requestVars>>

WriteRecovery ==
  \E hook \in mail :
    /\ hook.kind = "recovered" /\ hook.read
    /\ Written([row EXCEPT !.status = "active"], hook.news)
    /\ Answered(hook)
    /\ UNCHANGED requestVars

-----------------------------------------------------------------------------
(* The billing pages.                                                       *)

\* createCheckoutSession and createCreditPackCheckoutSession: the customer is made at
\* Stripe when the row has none.
Checkout(r) ==
  /\ Arrives(r, "billing")
  /\ \E plan \in Plans \cup {"pack"} :
       Call(r, [NewRequest EXCEPT !.op = "checkout", !.pc = "customer",
                             !.value = plan, !.seen = row.customer])
  /\ UNCHANGED billingVars

CreateCustomer(r) ==
  /\ Doing(r, "checkout", "customer") /\ req[r].seen = 0
  /\ stripe' = [stripe EXCEPT !.customers = @ + 1]
  /\ row' = [row EXCEPT !.customer = stripe.customers + 1]
  /\ Becomes(r, [req[r] EXCEPT !.seen = stripe.customers + 1])
  /\ UNCHANGED mail

CreateSession(r) ==
  /\ Doing(r, "checkout", "customer") /\ req[r].seen # 0
  /\ stripe' = [stripe EXCEPT !.sessions = @ \cup
                  {[plan |-> req[r].value, customer |-> req[r].seen, by |-> r]}]
  /\ Goto(r, "done")
  /\ UNCHANGED <<row, mail>>

\* changePlan, cancelSubscription and resumeSubscription: the subscription is read, it
\* is changed at Stripe, and then the row is written.
ChangePlan(r) ==
  /\ Arrives(r, "billing")
  /\ row.subscription # 0
  /\ \E plan \in Plans :
       Call(r, [NewRequest EXCEPT !.op = "changePlan", !.pc = "stripe",
                             !.value = plan, !.seen = row.subscription])
  /\ UNCHANGED billingVars

CancelOrResume(r) ==
  /\ Arrives(r, "billing")
  /\ row.subscription # 0
  /\ \E op \in {"cancelNow", "cancelAtEnd", "resume"} :
       Call(r, [NewRequest EXCEPT !.op = op, !.pc = "stripe",
                                             !.seen = row.subscription])
  /\ UNCHANGED billingVars

\* Without a subscription at Stripe the row alone is canceled.
CancelTrial(r) ==
  /\ Arrives(r, "billing")
  /\ row.subscription = 0
  /\ Call(r, [NewRequest EXCEPT !.op = "cancelTrial", !.pc = "write"])
  /\ UNCHANGED billingVars

\* The call of Stripe; it refuses to change a subscription that has ended.
Requested(r, sub) ==
  CASE req[r].op = "changePlan" -> [sub EXCEPT !.plan = req[r].value]
    [] req[r].op = "cancelNow" -> [sub EXCEPT !.status = "canceled"]
    [] OTHER -> [sub EXCEPT !.cancelAtPeriodEnd = req[r].op = "cancelAtEnd"]

CallStripe(r) ==
  /\ req[r].op \in {"changePlan", "cancelNow", "cancelAtEnd", "resume"}
  /\ req[r].pc = "stripe"
  /\ IF Running(req[r].seen)
     THEN /\ stripe.news < MaxNews
          /\ \E sub \in {Requested(r, stripe.subs[req[r].seen])} :
               /\ Changed(req[r].seen, sub,
                          {IF req[r].op = "cancelNow" THEN "deleted" ELSE "updated"})
               /\ Becomes(r, [req[r] EXCEPT !.pc = "write", !.level = News, !.value = sub])
     ELSE Goto(r, "refused") /\ UNCHANGED <<stripe, mail>>
  /\ UNCHANGED row

\* What Stripe answered is written; a row without a subscription follows no news.
WriteRow(r) ==
  /\ req[r].pc = "write"
  /\ \/ /\ req[r].op = "changePlan"
        /\ Written([row EXCEPT !.plan = req[r].value.plan, !.status = req[r].value.status],
                   req[r].level)
     \/ /\ req[r].op = "cancelNow"
        /\ Written([row EXCEPT !.status = "canceled", !.cancelAtPeriodEnd = FALSE],
                   req[r].level)
     \/ /\ req[r].op \in {"cancelAtEnd", "resume"}
        /\ Written([row EXCEPT !.cancelAtPeriodEnd = req[r].op = "cancelAtEnd"],
                   req[r].level)
     \/ /\ req[r].op = "cancelTrial"
        /\ Written([row EXCEPT !.status = "canceled"], 0)
  /\ Goto(r, "done")
  /\ UNCHANGED <<stripe, mail>>

-----------------------------------------------------------------------------
(* The cron of the trials, and the staff.                                   *)

\* Mutant: the cron takes each trial whose days are over.
OverdueWhateverPaid == stripe.trialOver
\* expireOverdueTrials: the trials that are over are listed, and expired one by one.
Overdue == row.status = "trialing" /\ row.subscription = 0 /\ stripe.trialOver

ListOverdueTrials(r) ==
  /\ Arrives(r, "billing")
  /\ Overdue
  /\ Call(r, [NewRequest EXCEPT !.op = "expireTrial", !.pc = "listed"])
  /\ UNCHANGED billingVars

ExpireTrial(r) ==
  /\ Doing(r, "expireTrial", "listed")
  /\ Written([row EXCEPT !.status = "expired"], 0)
  /\ Goto(r, "done")
  /\ UNCHANGED <<stripe, mail>>

\* suspendOrganization and reactivateOrganization, whatever Stripe says.
Administrate(r) ==
  /\ Arrives(r, "billing")
  /\ \E status \in {"suspended", "active"} :
       Detached([row EXCEPT !.status = status])
  /\ Call(r, [NewRequest EXCEPT !.op = "administrate", !.pc = "done"])
  /\ UNCHANGED <<stripe, mail>>

SubscriptionStep ==
  \/ PayCheckout \/ StripeChanges \/ TrialEnds
  \/ DeliverPack \/ DeliverSubscription \/ DeliverInvoice \/ ReadRecovery \/ WriteRecovery
  \/ \E r \in Requests :
       \/ Checkout(r) \/ CreateCustomer(r) \/ CreateSession(r)
       \/ ChangePlan(r) \/ CancelOrResume(r) \/ CancelTrial(r) \/ CallStripe(r) \/ WriteRow(r)
       \/ ListOverdueTrials(r) \/ ExpireTrial(r) \/ Administrate(r)

-----------------------------------------------------------------------------
\* Whoever wrote the row, and whatever was written in between: once all the news has
\* arrived, the row says of the subscription what Stripe says, and the packs paid for
\* are there.  Only a write that carried older news than the row, a second delivery, the
\* staff, or a second subscription can part them (stripe.service.ts:194); only such a
\* write can expire the trial of an organization that pays (trial-expiry.service.ts:72).
RowFollowsStripe ==
  /\ mail = {} /\ ~row.detached /\ Len(stripe.subs) = 1
     /\ (\A r \in InFlight : desk[r] # "billing")
       => LET sub == stripe.subs[1]
          IN /\ row.status = sub.status /\ row.plan = sub.plan
             /\ sub.status # "canceled" => row.cancelAtPeriodEnd = sub.cancelAtPeriodEnd
             /\ row.extraCredits = stripe.packs * PACK
  /\ row.status = "expired" => stripe.trialOver /\ (row.detached \/ row.subscription = 0)
================================================================================
