-------------------------- MODULE Storyboard_proofs --------------------------
(***************************************************************************)
(* Theorems about AiGateway, for any callers, tasks, costs, chains of      *)
(* providers, packs and quotas; and about Storyboard, for any shots,       *)
(* waves, ranks and quotas.                                                *)
(***************************************************************************)
EXTENDS Storyboard, FiniteSetTheorems, Sums, TLAPS

-----------------------------------------------------------------------------
(* Sets of callers: how many there are.                                    *)

LEMMA CallersAreCounted ==
  ASSUME NEW S, S \subseteq Callers
  PROVE  IsFiniteSet(S) /\ Cardinality(S) \in Nat
  BY GatewayAssumption, FS_Subset, FS_CardinalityType

LEMMA SmallerIsFewer ==
  ASSUME NEW S, NEW T, T \subseteq Callers, S \subseteq T
  PROVE  Cardinality(S) <= Cardinality(T)
  BY CallersAreCounted, FS_Subset

LEMMA OneMore ==
  ASSUME NEW T, T \subseteq Callers, NEW S, S \subseteq T, NEW c \in T \ S
  PROVE  Cardinality(S \cup {c}) = Cardinality(S) + 1 /\ Cardinality(S) + 1 <= Cardinality(T)
<1>1. Cardinality(S \cup {c}) = Cardinality(S) + 1
  BY CallersAreCounted, FS_AddElement
<1>2. Cardinality(S \cup {c}) <= Cardinality(T)
  BY SmallerIsFewer
<1>3. QED
  BY <1>1, <1>2

LEMMA OneLess ==
  ASSUME NEW S, S \subseteq Callers, NEW c \in S
  PROVE  Cardinality(S \ {c}) = Cardinality(S) - 1
  BY CallersAreCounted, FS_RemoveElement

\* What the calls of a set may cost at most.
Worst(S) == MaxCost * Cardinality(S)

LEMMA WorstType ==
  ASSUME NEW S, S \subseteq Callers
  PROVE  Worst(S) \in Nat
<1>1. Cardinality(S) \in Nat /\ MaxCost \in Nat
  BY CallersAreCounted, GatewayAssumption
<1>2. QED
  BY <1>1 DEF Worst

LEMMA WorstGrows ==
  ASSUME NEW T, T \subseteq Callers, NEW S, S \subseteq T
  PROVE  Worst(S) <= Worst(T)
<1> DEFINE m == Cardinality(S)
           n == Cardinality(T)
<1>1. m \in Nat /\ n \in Nat /\ m <= n /\ MaxCost \in Nat
  BY CallersAreCounted, SmallerIsFewer, GatewayAssumption
<1> HIDE DEF m, n
<1>2. PICK d \in Nat : n = m + d
  <2>1. n - m \in Nat /\ n = m + (n - m)
    BY <1>1
  <2>2. QED
    BY <2>1
<1>3. MaxCost * n = MaxCost * m + MaxCost * d
  BY <1>1, <1>2
<1>4. MaxCost * d \in Nat /\ MaxCost * m \in Nat
  BY <1>1
<1>5. QED
  BY <1>3, <1>4 DEF Worst, m, n

LEMMA WorstOfOneMore ==
  ASSUME NEW S, S \subseteq Callers, NEW c \in Callers \ S
  PROVE  Worst(S \cup {c}) = Worst(S) + MaxCost /\ Worst(S) + MaxCost <= Worst(Callers)
<1> DEFINE m == Cardinality(S)
<1>1. m \in Nat /\ Cardinality(S \cup {c}) = m + 1 /\ MaxCost \in Nat
  BY CallersAreCounted, OneMore, GatewayAssumption
<1> HIDE DEF m
<1>2. MaxCost * (m + 1) = MaxCost * m + MaxCost
  BY <1>1
<1>3. Worst(S \cup {c}) = Worst(S) + MaxCost
  BY <1>1, <1>2 DEF Worst, m
<1>4. QED
  BY <1>3, WorstGrows

LEMMA WorstOfOneLess ==
  ASSUME NEW S, S \subseteq Callers, NEW c \in S
  PROVE  Worst(S \ {c}) = Worst(S) - MaxCost
<1>1. (S \ {c}) \cup {c} = S /\ S \ {c} \subseteq Callers /\ c \in Callers \ (S \ {c})
  OBVIOUS
<1>2. Worst(S) = Worst(S \ {c}) + MaxCost
  BY <1>1, WorstOfOneMore
<1>3. Worst(S) \in Nat /\ Worst(S \ {c}) \in Nat /\ MaxCost \in Nat
  BY WorstType, GatewayAssumption
<1>4. QED
  BY <1>2, <1>3

-----------------------------------------------------------------------------
(* Types, and how much a call takes from the packs.                        *)

\* What consumeCredits is about to take from the packs is no more than the cost: the
\* rest, which it adds to aiCreditsUsed, is never negative.
TakesAtMostTheCost == \A c \in Callers : call[c].fromExtra <= Cost[call[c].task]

TypeInv == GatewayTypeOK /\ TakesAtMostTheCost

LEMMA TypeInit == GatewayInit => TypeInv
  BY GatewayAssumption
  DEF GatewayInit, TypeInv, GatewayTypeOK, TakesAtMostTheCost, NoCall, CallPc, Outcomes

CallRecord == [pc : CallPc, task : Tasks, provider : Nat,
               row : {"NONE", "RUNNING", "SUCCEEDED"}, fromExtra : Int]
WellFormed(r) ==
  r \in CallRecord /\ r.provider <= Chain[r.task] /\ r.fromExtra <= Cost[r.task]

LEMMA CallsAreWellFormed == TypeInv => \A c \in Callers : WellFormed(call[c])
  BY DEF TypeInv, GatewayTypeOK, TakesAtMostTheCost, WellFormed, CallRecord

LEMMA UpdateType ==
  ASSUME TypeInv, NEW c \in Callers, NEW r, WellFormed(r), Update(c, r)
  PROVE  /\ call' \in [Callers -> CallRecord]
         /\ \A d \in Callers : /\ call'[d].provider <= Chain[call'[d].task]
                               /\ call'[d].fromExtra <= Cost[call'[d].task]
  BY DEF TypeInv, GatewayTypeOK, TakesAtMostTheCost, WellFormed, Update, CallRecord

LEMMA NoCallIsWellFormed ==
  ASSUME NEW pc \in {"idle", "asserting"} \cup Outcomes, NEW task \in Tasks
  PROVE  WellFormed(NoCall(pc)) /\ WellFormed([NoCall(pc) EXCEPT !.task = task])
  BY GatewayAssumption DEF WellFormed, CallRecord, NoCall, CallPc, Outcomes

\* Each step of a call writes a well-formed record.
LEMMA CallStepUpdates ==
  ASSUME TypeInv, NEW c \in Callers, CallStep(c)
  PROVE  \E r : WellFormed(r) /\ Update(c, r)
<1> DEFINE t == call[c].task
<1>1. WellFormed(call[c]) /\ Chain[t] \in Nat /\ Cost[t] \in Nat /\ extra \in Int
  BY CallsAreWellFormed, GatewayAssumption DEF TypeInv, GatewayTypeOK, WellFormed, CallRecord
<1>2. ASSUME NEW pc \in CallPc, NEW row \in {"NONE", "RUNNING", "SUCCEEDED"}
      PROVE  WellFormed([call[c] EXCEPT !.pc = pc, !.row = row])
  BY <1>1, <1>2 DEF WellFormed, CallRecord
<1>3. ASSUME NEW pc \in CallPc
      PROVE  WellFormed([call[c] EXCEPT !.pc = pc])
  BY <1>1, <1>3 DEF WellFormed, CallRecord
<1>4. ASSUME NEW outcome \in Outcomes
      PROVE  WellFormed(NoCall(outcome))
  BY <1>4, NoCallIsWellFormed, GatewayAssumption
<1>5. ASSUME NEW pc \in CallPc, NEW n \in Nat, n <= Chain[t], AfterFailure(c, pc, n)
      PROVE  \E r : WellFormed(r) /\ Update(c, r)
  <2>1. WellFormed([pc |-> pc, task |-> t, provider |-> n, row |-> call[c].row,
                    fromExtra |-> 0])
    BY <1>1, <1>5 DEF WellFormed, CallRecord
  <2>2. QED
    BY <1>5, <2>1 DEF AfterFailure
<1>6. CASE NextProvider(c)
  <2>1. call[c].provider \in Nat /\ call[c].provider <= Chain[t]
    BY <1>1 DEF WellFormed, CallRecord
  <2>2. call[c].provider < Chain[t] => call[c].provider + 1 <= Chain[t]
    BY <1>1, <2>1
  <2>3. QED
    BY <1>5, <1>6, <2>1, <2>2 DEF NextProvider, CallPc
<1>7. CASE AssertCredits(c) \/ ProviderAnswers(c)
  BY <1>3, <1>4, <1>7 DEF AssertCredits, ProviderAnswers, Goto, Finish, CallPc, Outcomes
<1>8. CASE OpenGeneration(c)
  <2>1. WellFormed([call[c] EXCEPT !.pc = "calling", !.row = "RUNNING"])
    BY <1>2 DEF CallPc
  <2>2. QED
    BY <1>4, <1>8, <2>1 DEF OpenGeneration, Finish, Outcomes
<1>9. CASE MarkSucceeded(c)
  <2>1. WellFormed([call[c] EXCEPT !.row = "SUCCEEDED", !.pc = "reading"])
    BY <1>1 DEF WellFormed, CallRecord, CallPc
  <2>2. QED
    BY <1>4, <1>9, <2>1 DEF MarkSucceeded, Finish, Outcomes
<1>10. CASE ReadBalance(c)
  <2> DEFINE n == IF extra < Cost[t] THEN extra ELSE Cost[t]
  <2>1. n \in Int /\ n <= Cost[t]
    BY <1>1
  <2>2. Update(c, [call[c] EXCEPT !.pc = "writing", !.fromExtra = n])
    BY <1>10 DEF ReadBalance
  <2> HIDE DEF n
  <2>3. WellFormed([call[c] EXCEPT !.pc = "writing", !.fromExtra = n])
    BY <1>1, <2>1 DEF WellFormed, CallRecord, CallPc
  <2>4. QED
    BY <2>2, <2>3
<1>11. CASE WriteBalance(c) \/ MarkFailed(c)
  BY <1>4, <1>11 DEF WriteBalance, MarkFailed, Finish, Outcomes
<1>12. CASE ProviderFails(c)
  BY <1>6, <1>12 DEF ProviderFails
<1>13. CASE QueryThrows(c)
  <2>1. Finish(c, "threw") \/ NextProvider(c)
    BY <1>13 DEF QueryThrows
  <2>2. CASE Finish(c, "threw")
    BY <1>4, <2>2 DEF Finish, Outcomes
  <2>3. QED
    BY <1>6, <2>1, <2>2
<1>14. QED
  BY <1>7, <1>8, <1>9, <1>10, <1>11, <1>12, <1>13 DEF CallStep

LEMMA SetRowType ==
  ASSUME TypeInv, NEW c \in Callers, NEW n \in {-1, 1},
         NEW from \in {"RUNNING", "SUCCEEDED"}, SetRow(c, from, n)
  PROVE  clips' \in [Campaigns -> Int] /\ owed' \in Int
<1> USE GatewayAssumption DEF TypeInv, GatewayTypeOK
<1> DEFINE change == IF call[c].row = from THEN n ELSE 0
<1>1. change \in Int /\ CampaignOf[c] \in Campaigns /\ Cost[call[c].task] \in Int
  OBVIOUS
<1>2. /\ clips' = IF call[c].task = "generateVideo"
                    THEN [clips EXCEPT ![CampaignOf[c]] = @ + change] ELSE clips
      /\ owed' = owed + change * Cost[call[c].task]
  BY DEF SetRow
<1> HIDE DEF change
<1>3. change * Cost[call[c].task] \in Int
  BY <1>1
<1>4. clips[CampaignOf[c]] + change \in Int
  BY <1>1
<1>5. QED
  BY <1>1, <1>2, <1>3, <1>4

LEMMA CallType ==
  ASSUME TypeInv, NEW c \in Callers, CallStep(c)
  PROVE  TypeInv'
<1>1. /\ call' \in [Callers -> CallRecord]
      /\ \A d \in Callers : /\ call'[d].provider <= Chain[call'[d].task]
                            /\ call'[d].fromExtra <= Cost[call'[d].task]
  BY CallStepUpdates, UpdateType
<1>2. clips' \in [Campaigns -> Int] /\ owed' \in Int
  <2>1. CASE MarkSucceeded(c) \/ MarkFailed(c)
    BY <2>1, SetRowType DEF MarkSucceeded, MarkFailed
  <2>2. CASE ~(MarkSucceeded(c) \/ MarkFailed(c))
    BY <2>2 DEF CallStep, AssertCredits, OpenGeneration, ProviderAnswers, ProviderFails,
                ReadBalance, WriteBalance, QueryThrows, TypeInv, GatewayTypeOK
  <2>3. QED
    BY <2>1, <2>2
<1>3. /\ used' \in Nat /\ extra' \in Int /\ bought' \in Nat /\ renewed' \in Nat
  <2>1. CASE WriteBalance(c)
    <3>1. /\ Cost[call[c].task] - call[c].fromExtra \in Nat
          /\ call[c].fromExtra \in Int
      BY GatewayAssumption DEF TypeInv, GatewayTypeOK, TakesAtMostTheCost
    <3>2. QED
      BY <2>1, <3>1 DEF WriteBalance, TypeInv, GatewayTypeOK
  <2>2. CASE ~WriteBalance(c)
    BY <2>2 DEF CallStep, AssertCredits, OpenGeneration, ProviderAnswers, ProviderFails,
                MarkSucceeded, ReadBalance, MarkFailed, QueryThrows, TypeInv, GatewayTypeOK,
                ledgerVars
  <2>3. QED
    BY <2>1, <2>2
<1>4. mishaps' \in 0..MaxMishaps
  BY GatewayAssumption
  DEF CallStep, AssertCredits, OpenGeneration, ProviderAnswers, ProviderFails, MarkSucceeded,
      ReadBalance, WriteBalance, MarkFailed, QueryThrows, TypeInv, GatewayTypeOK
<1>5. QED
  BY <1>1, <1>2, <1>3, <1>4 DEF TypeInv, GatewayTypeOK, TakesAtMostTheCost, CallRecord

LEMMA OtherType ==
  ASSUME TypeInv,
         \/ \E C \in SUBSET Callers : Abandon(C) \/ \E task \in Tasks : Start(C, task)
         \/ Webhook
         \/ UNCHANGED gatewayVars
  PROVE  TypeInv'
<1> USE GatewayAssumption
    DEF TypeInv, GatewayTypeOK, TakesAtMostTheCost, ledgerVars, NoCall, CallPc, Outcomes
<1>1. CASE \E C \in SUBSET Callers : Abandon(C)
  BY <1>1 DEF Abandon
<1>2. CASE \E C \in SUBSET Callers : \E task \in Tasks : Start(C, task)
  BY <1>2 DEF Start, Begin
<1>3. CASE Webhook
  BY <1>3 DEF Webhook, NewCycle, BuyPack
<1>4. CASE UNCHANGED gatewayVars
  BY <1>4 DEF gatewayVars
<1>5. QED
  BY <1>1, <1>2, <1>3, <1>4

LEMMA TypeStep == TypeInv /\ [GatewayNext]_gatewayVars => TypeInv'
  BY CallType, OtherType DEF GatewayNext

\* Every variable keeps its type: no call falls back on a provider beyond its chain
\* (executeTracked), and aiCreditsUsed never goes below zero (consumeCredits).
THEOREM TypeCorrect == GatewaySpec => []GatewayTypeOK
<1>1. GatewaySpec => []TypeInv
  BY TypeInit, TypeStep, PTL DEF GatewaySpec
<1>2. TypeInv => GatewayTypeOK
  BY DEF TypeInv
<1>3. QED
  BY <1>1, <1>2, PTL

-----------------------------------------------------------------------------
(* The two columns of the subscription implement one account.              *)

OpenPc == {"opening", "calling", "marking", "reading", "writing", "failing"}

LEMMA AdmittedPc == TypeInv => Admitted = {c \in Callers : call[c].pc \in OpenPc}
  BY DEF TypeInv, GatewayTypeOK, CallPc, Outcomes, Admitted, InProgress, OpenPc

LEMMA AdmittedPcNext == TypeInv' => Admitted' = {c \in Callers : call'[c].pc \in OpenPc}
  BY DEF TypeInv, GatewayTypeOK, CallPc, Outcomes, Admitted, InProgress, OpenPc

LEMMA UpdateAdmits ==
  ASSUME TypeInv, TypeInv', NEW c \in Callers, NEW r, Update(c, r)
  PROVE  /\ call'[c] = r
         /\ r.pc \in OpenPc => Admitted' = Admitted \cup {c}
         /\ r.pc \notin OpenPc => Admitted' = Admitted \ {c}
<1>1. call'[c] = r /\ \A d \in Callers \ {c} : call'[d] = call[d]
  BY DEF TypeInv, GatewayTypeOK, Update
<1>2. /\ Admitted = {d \in Callers : call[d].pc \in OpenPc}
      /\ Admitted' = {d \in Callers : call'[d].pc \in OpenPc}
  BY AdmittedPc, AdmittedPcNext
<1>3. QED
  BY <1>1, <1>2

LEMMA NoCallCloses ==
  ASSUME TypeInv, TypeInv', NEW c \in Callers, NEW pc \in Outcomes, Finish(c, pc)
  PROVE  Admitted' = Admitted \ {c}
  BY UpdateAdmits DEF Finish, NoCall, OpenPc, Outcomes

LEMMA NextProviderStaysOpen ==
  ASSUME TypeInv, TypeInv', NEW c \in Callers, NextProvider(c)
  PROVE  Admitted' = Admitted \cup {c}
<1>1. ASSUME NEW pc \in {"calling", "failing"}, NEW n, AfterFailure(c, pc, n)
      PROVE  Admitted' = Admitted \cup {c}
  BY <1>1, UpdateAdmits DEF AfterFailure, OpenPc
<1>2. QED
  BY <1>1 DEF NextProvider

LEMMA CallAccount ==
  ASSUME TypeInv, TypeInv', NEW c \in Callers, CallStep(c)
  PROVE  Account!Next \/ (UNCHANGED Available /\ Admitted' = Admitted)
<1> DEFINE Same == UNCHANGED Available /\ Admitted' = Admitted
<1>1. call[c] \in CallRecord /\ (c \in Admitted <=> call[c].pc \in OpenPc)
  BY AdmittedPc DEF TypeInv, GatewayTypeOK, CallRecord
<1>2. ASSUME Admitted' = Admitted \ {c}, UNCHANGED Available
      PROVE  Account!Next
  BY <1>2 DEF Account!Next, Account!Leave
<1>3. CASE AssertCredits(c)
  <2>1. UNCHANGED Available /\ c \notin Admitted
    BY <1>1, <1>3 DEF AssertCredits, Available, ledgerVars, OpenPc
  <2>2. CASE Available <= 0
    BY <1>2, <1>3, <2>1, <2>2, NoCallCloses DEF AssertCredits, Outcomes
  <2>3. CASE ~(Available <= 0)
    <3>1. Available > 0
      BY <2>3, GatewayAssumption DEF TypeInv, GatewayTypeOK, Available
    <3>2. Update(c, [call[c] EXCEPT !.pc = "opening"])
      BY <1>3, <2>3 DEF AssertCredits, Goto
    <3>3. Admitted' = Admitted \cup {c}
      BY <1>1, <3>2, UpdateAdmits DEF CallRecord, OpenPc
    <3>4. QED
      BY <2>1, <3>1, <3>3 DEF Account!Next, Account!LetIn
  <2>4. QED
    BY <2>2, <2>3
<1>4. CASE OpenGeneration(c)
  <2>1. UNCHANGED Available /\ c \in Admitted
    BY <1>1, <1>4 DEF OpenGeneration, Available, ledgerVars, OpenPc
  <2>2. CASE Finish(c, "noVideo")
    BY <1>2, <2>1, <2>2, NoCallCloses DEF Outcomes
  <2>3. CASE Update(c, [call[c] EXCEPT !.pc = "calling", !.row = "RUNNING"])
    <3>1. [call[c] EXCEPT !.pc = "calling", !.row = "RUNNING"].pc \in OpenPc
      BY <1>1 DEF CallRecord, OpenPc
    <3>2. Admitted' = Admitted \cup {c}
      BY <2>3, <3>1, UpdateAdmits
    <3>3. QED
      BY <2>1, <3>2
  <2>4. QED
    BY <1>4, <2>2, <2>3 DEF OpenGeneration
<1>5. CASE ProviderAnswers(c)
  <2>1. UNCHANGED Available /\ c \in Admitted
    BY <1>1, <1>5 DEF ProviderAnswers, Available, ledgerVars, OpenPc
  <2>2. Admitted' = Admitted \cup {c}
    BY <1>1, <1>5, UpdateAdmits DEF ProviderAnswers, Goto, CallRecord, OpenPc
  <2>3. QED
    BY <2>1, <2>2
<1>6. CASE ProviderFails(c)
  <2>1. UNCHANGED Available /\ c \in Admitted
    BY <1>1, <1>6 DEF ProviderFails, Available, ledgerVars, OpenPc
  <2>2. QED
    BY <1>6, <2>1, NextProviderStaysOpen DEF ProviderFails
<1>7. CASE MarkSucceeded(c)
  <2>1. UNCHANGED Available /\ c \in Admitted
    BY <1>1, <1>7 DEF MarkSucceeded, Available, ledgerVars, OpenPc
  <2>2. CASE Finish(c, "returned")
    BY <1>2, <2>1, <2>2, NoCallCloses DEF Outcomes
  <2>3. CASE Update(c, [call[c] EXCEPT !.row = "SUCCEEDED", !.pc = "reading"])
    <3>1. [call[c] EXCEPT !.row = "SUCCEEDED", !.pc = "reading"].pc \in OpenPc
      BY <1>1 DEF CallRecord, OpenPc
    <3>2. Admitted' = Admitted \cup {c}
      BY <2>3, <3>1, UpdateAdmits
    <3>3. QED
      BY <2>1, <3>2
  <2>4. QED
    BY <1>7, <2>2, <2>3 DEF MarkSucceeded
<1>8. CASE ReadBalance(c)
  <2>1. UNCHANGED Available /\ c \in Admitted
    BY <1>1, <1>8 DEF ReadBalance, Available, ledgerVars, OpenPc
  <2>2. PICK n : Update(c, [call[c] EXCEPT !.pc = "writing", !.fromExtra = n])
    BY <1>8 DEF ReadBalance
  <2>3. [call[c] EXCEPT !.pc = "writing", !.fromExtra = n].pc \in OpenPc
    BY <1>1 DEF CallRecord, OpenPc
  <2>4. Admitted' = Admitted \cup {c}
    BY <2>2, <2>3, UpdateAdmits
  <2>5. QED
    BY <2>1, <2>4
<1>9. CASE WriteBalance(c)
  <2> DEFINE n == Cost[call[c].task]
  <2>1. c \in Admitted /\ n \in 0..MaxCost
    BY <1>1, <1>9, GatewayAssumption DEF WriteBalance, OpenPc, CallRecord
  <2>2. Available' = Available - n
    <3>1. /\ used \in Int /\ extra \in Int /\ call[c].fromExtra \in Int /\ n \in Int
          /\ Included \in Int
      BY <1>1, <2>1, GatewayAssumption DEF TypeInv, GatewayTypeOK, CallRecord
    <3>2. QED
      BY <1>9, <3>1 DEF WriteBalance, Available
  <2>3. Admitted' = Admitted \ {c}
    BY <1>9, NoCallCloses DEF WriteBalance, Outcomes
  <2>4. QED
    BY <2>1, <2>2, <2>3 DEF Account!Next, Account!Pay
<1>10. CASE MarkFailed(c)
  BY <1>2, <1>10, NoCallCloses DEF MarkFailed, Available, ledgerVars, Outcomes
<1>11. CASE QueryThrows(c)
  <2>1. UNCHANGED Available
    BY <1>11 DEF QueryThrows, Available, ledgerVars
  <2>2. CASE Finish(c, "threw")
    BY <1>2, <2>1, <2>2, NoCallCloses DEF Outcomes
  <2>3. CASE call[c].pc \in {"marking", "reading", "writing"} /\ NextProvider(c)
    BY <1>1, <2>1, <2>3, NextProviderStaysOpen DEF OpenPc
  <2>4. QED
    BY <1>11, <2>2, <2>3 DEF QueryThrows
<1>12. QED
  BY <1>3, <1>4, <1>5, <1>6, <1>7, <1>8, <1>9, <1>10, <1>11 DEF CallStep

LEMMA OtherAccount ==
  ASSUME TypeInv, TypeInv',
         \/ \E C \in SUBSET Callers : Abandon(C) \/ \E task \in Tasks : Start(C, task)
         \/ Webhook
         \/ UNCHANGED gatewayVars
  PROVE  Account!Next \/ (UNCHANGED Available /\ Admitted' = Admitted)
<1>1. /\ Admitted = {c \in Callers : call[c].pc \in OpenPc}
      /\ Admitted' = {c \in Callers : call'[c].pc \in OpenPc}
  BY AdmittedPc, AdmittedPcNext
<1>2. CASE \E C \in SUBSET Callers : Abandon(C)
  <2>1. PICK C \in SUBSET Callers : Abandon(C)
    BY <1>2
  <2>2. Admitted' = Admitted \ C
    BY <1>1, <2>1 DEF Abandon, NoCall, OpenPc
  <2>3. UNCHANGED Available
    BY <2>1 DEF Abandon, Available, ledgerVars
  <2>4. QED
    BY <2>2, <2>3 DEF Account!Next, Account!Leave
<1>3. CASE \E C \in SUBSET Callers : \E task \in Tasks : Start(C, task)
  <2>1. PICK C \in SUBSET Callers, task \in Tasks : Start(C, task)
    BY <1>3
  <2>2. \A c \in Callers : call'[c].pc \in OpenPc <=> call[c].pc \in OpenPc
    BY <2>1 DEF Start, Begin, NoCall, InProgress, Outcomes, OpenPc
  <2>3. QED
    BY <1>1, <2>1, <2>2 DEF Start, Available, ledgerVars
<1>4. CASE Webhook
  <2>1. call' = call
    BY <1>4 DEF Webhook, NewCycle, BuyPack
  <2>2. Available' \in Int /\ Available' >= Available
    <3> USE GatewayAssumption DEF Available, TypeInv, GatewayTypeOK
    <3>1. CASE NewCycle
      BY <3>1 DEF NewCycle
    <3>2. CASE \E n \in Packs : BuyPack(n)
      <4>1. PICK n \in Packs : BuyPack(n)
        BY <3>2
      <4>2. n \in Nat
        OBVIOUS
      <4>3. QED
        BY <4>1, <4>2 DEF BuyPack
    <3>3. QED
      BY <1>4, <3>1, <3>2 DEF Webhook
  <2>3. QED
    BY <1>1, <2>1, <2>2 DEF Account!Next, Account!Deposit
<1>5. CASE UNCHANGED gatewayVars
  BY <1>1, <1>5 DEF gatewayVars, ledgerVars, Available
<1>6. QED
  BY <1>2, <1>3, <1>4, <1>5

LEMMA AccountStep ==
  TypeInv /\ TypeInv' /\ [GatewayNext]_gatewayVars => [Account!Next]_(Account!vars)
  BY CallAccount, OtherAccount DEF GatewayNext, Account!vars

LEMMA AccountInit == GatewayInit => Account!Init
  BY GatewayAssumption
  DEF GatewayInit, Account!Init, Available, Admitted, InProgress, NoCall, Outcomes

\* The two columns that consumeCredits updates from a stale read are one account: only
\* calls that assertCreditsAvailable let in pay, each once and at most MaxCost.
THEOREM ImplementsCreditAccount == GatewaySpec => ImplementsAccount
  BY TypeInit, TypeStep, AccountInit, AccountStep, PTL
  DEF GatewaySpec, ImplementsAccount, Account!Spec

-----------------------------------------------------------------------------
(* How far the account may be overdrawn.  A call that is let in reserves   *)
(* nothing, so the bound counts what all admitted calls may still take.    *)

OverdraftInv == Available + Worst(Callers) > Worst(Admitted)

LEMMA AvailableType == TypeInv => Available \in Int
  BY GatewayAssumption DEF TypeInv, GatewayTypeOK, Available

LEMMA OverdraftStep ==
  ASSUME TypeInv, TypeInv', OverdraftInv, [Account!Next]_(Account!vars)
  PROVE  OverdraftInv'
<1>1. /\ Admitted \subseteq Callers /\ Admitted' \subseteq Callers
      /\ Worst(Admitted) \in Nat /\ Worst(Admitted') \in Nat /\ Worst(Callers) \in Nat
      /\ Available \in Int /\ MaxCost \in Nat
  BY WorstType, AvailableType, GatewayAssumption DEF Admitted
<1>2. Available + Worst(Callers) > Worst(Admitted)
  BY DEF OverdraftInv
<1>3. ASSUME Available' \in Int, Available' + Worst(Callers) > Worst(Admitted')
      PROVE  OverdraftInv'
  BY <1>3 DEF OverdraftInv, Worst
<1>4. CASE \E c \in Callers : Account!LetIn(c)
  <2>1. PICK c \in Callers \ Admitted :
          Available > 0 /\ Admitted' = Admitted \cup {c} /\ Available' = Available
    BY <1>4 DEF Account!LetIn
  <2>2. Worst(Admitted') = Worst(Admitted) + MaxCost /\ Worst(Admitted') <= Worst(Callers)
    BY <1>1, <2>1, WorstOfOneMore
  <2>3. QED
    BY <1>1, <1>3, <2>1, <2>2
<1>5. CASE \E c \in Callers : \E n \in 0..MaxCost : Account!Pay(c, n)
  <2>1. PICK c \in Admitted, n \in 0..MaxCost :
          Available' = Available - n /\ Admitted' = Admitted \ {c}
    BY <1>5 DEF Account!Pay
  <2>2. Worst(Admitted') = Worst(Admitted) - MaxCost
    BY <1>1, <2>1, WorstOfOneLess
  <2>3. QED
    BY <1>1, <1>2, <1>3, <2>1, <2>2
<1>6. CASE \/ \E C \in SUBSET Callers : Account!Leave(C)
           \/ Account!Deposit
           \/ UNCHANGED Account!vars
  <2>1. Available' \in Int /\ Available' >= Available /\ Admitted' \subseteq Admitted
    BY <1>1, <1>6 DEF Account!Leave, Account!Deposit, Account!vars
  <2>2. Worst(Admitted') <= Worst(Admitted)
    BY <1>1, <2>1, WorstGrows
  <2>3. QED
    BY <1>1, <1>2, <1>3, <2>1, <2>2
<1>7. QED
  BY <1>4, <1>5, <1>6 DEF Account!Next

LEMMA OverdraftInit == GatewayInit => OverdraftInv
<1>1. SUFFICES ASSUME GatewayInit PROVE OverdraftInv
  OBVIOUS
<1>2. Admitted = {} /\ Available \in Nat
  BY <1>1, AccountInit DEF Account!Init
<1>3. Worst(Admitted) = 0
  BY <1>2, FS_EmptySet, GatewayAssumption DEF Worst
<1>4. Worst(Callers) >= 1
  <2>1. PICK c \in Callers : TRUE
    BY GatewayAssumption
  <2>2. Worst({}) + MaxCost <= Worst(Callers) /\ Worst({}) \in Nat /\ Worst(Callers) \in Nat
    BY <2>1, WorstOfOneMore, WorstType
  <2>3. QED
    BY <2>2, GatewayAssumption
<1>5. QED
  <2>1. Worst(Callers) \in Nat
    BY WorstType
  <2>2. QED
    BY <1>2, <1>3, <1>4, <2>1 DEF OverdraftInv

\* assertCreditsAvailable and consumeCredits are far apart, and calls that run together
\* pass the first on the same balance: yet the account is never overdrawn by more than
\* one call each.
THEOREM OverdraftTheorem == GatewaySpec => []OverdraftIsBounded
<1>1. TypeInv /\ OverdraftInv /\ [GatewayNext]_gatewayVars => TypeInv' /\ OverdraftInv'
  BY TypeStep, AccountStep, OverdraftStep
<1>2. GatewaySpec => [](TypeInv /\ OverdraftInv)
  BY TypeInit, OverdraftInit, <1>1, PTL DEF GatewaySpec
<1>3. TypeInv /\ OverdraftInv => OverdraftIsBounded
  <2>1. SUFFICES ASSUME TypeInv, OverdraftInv PROVE OverdraftIsBounded
    OBVIOUS
  <2>2. Worst(Admitted) \in Nat /\ Worst(Callers) \in Nat /\ Available \in Int
    BY <2>1, WorstType, AvailableType DEF Admitted
  <2>3. Available > -Worst(Callers)
    BY <2>1, <2>2 DEF OverdraftInv
  <2>4. QED
    BY <2>3 DEF OverdraftIsBounded, Worst
<1>4. QED
  BY <1>2, <1>3, PTL

-----------------------------------------------------------------------------
(* The packs.                                                              *)

\* The calls that have read a balance of packs and are about to take from it.
Taking == {c \in Callers : call[c].pc = "writing" /\ call[c].fromExtra > 0}

PacksInv == extra + Worst(Callers) > Worst(Taking)

LEMMA TakingType ==
  /\ Taking \subseteq Callers /\ Taking' \subseteq Callers
  /\ Worst(Taking) \in Nat /\ Worst(Taking') \in Nat /\ Worst(Callers) \in Nat
  BY WorstType DEF Taking

LEMMA UpdateTakes ==
  ASSUME TypeInv, NEW c \in Callers, NEW r, Update(c, r)
  PROVE  /\ r.pc = "writing" /\ r.fromExtra > 0 => Taking' = Taking \cup {c}
         /\ ~(r.pc = "writing" /\ r.fromExtra > 0) => Taking' = Taking \ {c}
<1>1. call'[c] = r /\ \A d \in Callers \ {c} : call'[d] = call[d]
  BY DEF TypeInv, GatewayTypeOK, Update
<1>2. QED
  BY <1>1 DEF Taking

LEMMA FewerTaking ==
  ASSUME TypeInv, PacksInv, extra' \in Int, extra' >= extra, Taking' \subseteq Taking
  PROVE  PacksInv'
<1>1. extra \in Int
  BY DEF TypeInv, GatewayTypeOK
<1>2. Worst(Taking') <= Worst(Taking)
  BY TakingType, WorstGrows
<1>3. extra' + Worst(Callers) > Worst(Taking')
  BY <1>1, <1>2, TakingType DEF PacksInv
<1>4. QED
  BY <1>3 DEF PacksInv, Worst

LEMMA PacksReadBalance ==
  ASSUME TypeInv, PacksInv, NEW c \in Callers, ReadBalance(c)
  PROVE  PacksInv'
<1> DEFINE n == IF extra < Cost[call[c].task] THEN extra ELSE Cost[call[c].task]
           r == [call[c] EXCEPT !.pc = "writing", !.fromExtra = n]
<1>1. extra \in Int /\ extra' = extra /\ call[c] \in CallRecord /\ c \notin Taking
  BY DEF ReadBalance, ledgerVars, TypeInv, GatewayTypeOK, CallRecord, Taking
<1>2. n \in Int /\ n <= extra
  BY <1>1, GatewayAssumption DEF CallRecord
<1>3. Update(c, r)
  BY DEF ReadBalance
<1>4. r.fromExtra = n
  BY <1>1 DEF CallRecord
<1> HIDE DEF n, r
<1>5. CASE Taking' = Taking \cup {c} /\ n > 0
  <2>1. Worst(Taking') <= Worst(Callers)
    BY <1>1, <1>5, TakingType, WorstOfOneMore
  <2>2. extra' + Worst(Callers) > Worst(Taking')
    BY <1>1, <1>2, <1>5, <2>1, TakingType
  <2>3. QED
    BY <2>2 DEF PacksInv, Worst
<1>6. CASE Taking' = Taking \ {c}
  BY <1>1, <1>6, FewerTaking
<1>7. QED
  BY <1>3, <1>4, <1>5, <1>6, UpdateTakes

LEMMA PacksWriteBalance ==
  ASSUME TypeInv, PacksInv, NEW c \in Callers, WriteBalance(c)
  PROVE  PacksInv'
<1> DEFINE n == call[c].fromExtra
<1>1. /\ extra \in Int /\ n \in Int /\ n <= MaxCost /\ MaxCost \in Nat
      /\ extra' = extra - n
  <2>1. call[c] \in CallRecord /\ n <= Cost[call[c].task]
    BY DEF TypeInv, GatewayTypeOK, TakesAtMostTheCost, CallRecord
  <2>2. Cost[call[c].task] \in 0..MaxCost
    BY <2>1, GatewayAssumption DEF CallRecord
  <2>3. QED
    BY <2>1, <2>2, GatewayAssumption DEF WriteBalance, TypeInv, GatewayTypeOK, CallRecord
<1>2. Taking' = Taking \ {c}
  BY UpdateTakes DEF WriteBalance, Finish, NoCall, Outcomes
<1>3. CASE n > 0
  <2>1. c \in Taking
    BY <1>3 DEF WriteBalance, Taking
  <2>2. Worst(Taking') = Worst(Taking) - MaxCost
    BY <1>2, <2>1, TakingType, WorstOfOneLess
  <2>3. extra' + Worst(Callers) > Worst(Taking')
    BY <1>1, <2>2, TakingType DEF PacksInv
  <2>4. QED
    BY <2>3 DEF PacksInv, Worst
<1>4. CASE ~(n > 0)
  <2>1. extra' \in Int /\ extra' >= extra
    BY <1>1, <1>4
  <2>2. QED
    BY <1>2, <2>1, FewerTaking
<1>5. QED
  BY <1>3, <1>4

LEMMA PacksOther ==
  ASSUME TypeInv, TypeInv', PacksInv, [GatewayNext]_gatewayVars,
         \A c \in Callers : ~ReadBalance(c) /\ ~WriteBalance(c)
  PROVE  PacksInv'
<1>1. extra' \in Int
  BY DEF TypeInv, GatewayTypeOK
<1>2. ASSUME NEW c \in Callers, CallStep(c)
      PROVE  extra' = extra /\ Taking' \subseteq Taking
  <2>1. extra' = extra
    BY <1>2 DEF CallStep, AssertCredits, OpenGeneration, ProviderAnswers, ProviderFails,
                MarkSucceeded, MarkFailed, QueryThrows, ledgerVars
  <2>2. call'[c].pc # "writing"
    <3>1. ASSUME NEW r, Update(c, r), r.pc # "writing"
          PROVE  call'[c].pc # "writing"
      BY <3>1 DEF Update, TypeInv, GatewayTypeOK
    <3>2. call[c] \in CallRecord
      BY DEF TypeInv, GatewayTypeOK, CallRecord
    <3>3. ASSUME NEW pc \in Outcomes, Finish(c, pc)
          PROVE  call'[c].pc # "writing"
      BY <3>1, <3>3 DEF Finish, NoCall, Outcomes
    <3>4. ASSUME NextProvider(c)
          PROVE  call'[c].pc # "writing"
      BY <3>1, <3>4 DEF NextProvider, AfterFailure
    <3>5. CASE AssertCredits(c) \/ ProviderAnswers(c)
      BY <3>1, <3>2, <3>3, <3>5
      DEF AssertCredits, ProviderAnswers, Goto, CallRecord, Outcomes
    <3>6. CASE OpenGeneration(c)
      <4>1. [call[c] EXCEPT !.pc = "calling", !.row = "RUNNING"].pc # "writing"
        BY <3>2 DEF CallRecord
      <4>2. QED
        BY <3>1, <3>3, <3>6, <4>1 DEF OpenGeneration, Outcomes
    <3>7. CASE MarkSucceeded(c)
      <4>1. [call[c] EXCEPT !.row = "SUCCEEDED", !.pc = "reading"].pc # "writing"
        BY <3>2 DEF CallRecord
      <4>2. QED
        BY <3>1, <3>3, <3>7, <4>1 DEF MarkSucceeded, Outcomes
    <3>8. CASE ProviderFails(c) \/ MarkFailed(c) \/ QueryThrows(c)
      BY <3>3, <3>4, <3>8 DEF ProviderFails, MarkFailed, QueryThrows, Outcomes
    <3>9. QED
      BY <1>2, <3>5, <3>6, <3>7, <3>8 DEF CallStep
  <2>3. \A d \in Callers \ {c} : call'[d] = call[d]
    BY <1>2
    DEF CallStep, AssertCredits, OpenGeneration, ProviderAnswers, ProviderFails, MarkSucceeded,
        MarkFailed, QueryThrows, NextProvider, AfterFailure, Goto, Finish, Update,
        TypeInv, GatewayTypeOK
  <2>4. QED
    BY <2>1, <2>2, <2>3 DEF Taking
<1>3. ASSUME NEW C \in SUBSET Callers, Abandon(C) \/ \E task \in Tasks : Start(C, task)
      PROVE  extra' = extra /\ Taking' \subseteq Taking
  BY <1>3 DEF Abandon, Start, Begin, NoCall, Taking, ledgerVars
<1>4. CASE Webhook
  <2>1. Taking' = Taking
    BY <1>4 DEF Webhook, NewCycle, BuyPack, Taking
  <2>2. extra' >= extra
    <3>1. CASE NewCycle
      BY <3>1 DEF NewCycle, TypeInv, GatewayTypeOK
    <3>2. CASE \E n \in Packs : BuyPack(n)
      <4>1. PICK n \in Packs : extra' = extra + n
        BY <3>2 DEF BuyPack
      <4>2. n \in Nat /\ extra \in Int
        BY GatewayAssumption DEF TypeInv, GatewayTypeOK
      <4>3. QED
        BY <4>1, <4>2
    <3>3. QED
      BY <1>4, <3>1, <3>2 DEF Webhook
  <2>3. QED
    BY <1>1, <2>1, <2>2, FewerTaking
<1>5. CASE UNCHANGED gatewayVars
  <2>1. extra' = extra /\ Taking' = Taking
    BY <1>5 DEF gatewayVars, ledgerVars, Taking
  <2>2. QED
    BY <1>1, <2>1, FewerTaking
<1>6. ASSUME extra' = extra, Taking' \subseteq Taking
      PROVE  PacksInv'
  BY <1>1, <1>6, FewerTaking
<1>7. QED
  BY <1>2, <1>3, <1>4, <1>5, <1>6 DEF GatewayNext

LEMMA PacksInit == GatewayInit => PacksInv
<1>1. SUFFICES ASSUME GatewayInit PROVE PacksInv
  OBVIOUS
<1>2. extra = 0 /\ Taking = {}
  BY <1>1 DEF GatewayInit, Taking, NoCall
<1>3. Worst(Taking) = 0 /\ Worst(Callers) >= 1
  <2>1. PICK c \in Callers : TRUE
    BY GatewayAssumption
  <2>2. Worst({}) + MaxCost <= Worst(Callers)
    BY <2>1, WorstOfOneMore
  <2>3. Worst({}) = 0
    BY FS_EmptySet, GatewayAssumption DEF Worst
  <2>4. QED
    BY <1>2, <2>2, <2>3, TakingType, GatewayAssumption
<1>4. QED
  BY <1>2, <1>3, TakingType DEF PacksInv

\* consumeCredits reads the packs and decrements them later by what it read: calls that
\* read the same pack bring it below zero, by no more than one call each.
THEOREM PacksTheorem == GatewaySpec => []PacksOverdraftIsBounded
<1>1. TypeInv /\ PacksInv /\ [GatewayNext]_gatewayVars => TypeInv' /\ PacksInv'
  BY TypeStep, PacksReadBalance, PacksWriteBalance, PacksOther
<1>2. GatewaySpec => [](TypeInv /\ PacksInv)
  BY TypeInit, PacksInit, <1>1, PTL DEF GatewaySpec
<1>3. TypeInv /\ PacksInv => PacksOverdraftIsBounded
  <2>1. SUFFICES ASSUME TypeInv, PacksInv PROVE PacksOverdraftIsBounded
    OBVIOUS
  <2>2. extra > -Worst(Callers)
    BY <2>1, TakingType DEF PacksInv, TypeInv, GatewayTypeOK
  <2>3. QED
    BY <2>2 DEF PacksOverdraftIsBounded, Worst
<1>4. QED
  BY <1>2, <1>3, PTL

-----------------------------------------------------------------------------
(* The clips of a campaign.  Those being made count from the moment their  *)
(* RUNNING row is written, and until then the quota does not see them.     *)

CallersOf(k) == {c \in Callers : CampaignOf[c] = k}
Filming(k) == {c \in CallersOf(k) : call[c].task = "generateVideo" /\ call[c].row = "RUNNING"}

ClipsInv ==
  \A k \in Campaigns :
    clips[k] + Cardinality(Filming(k)) < MaxShots + Cardinality(CallersOf(k))

LEMMA FilmingType ==
  ASSUME NEW k \in Campaigns
  PROVE  /\ Filming(k) \subseteq CallersOf(k) /\ Filming(k)' \subseteq CallersOf(k)
         /\ CallersOf(k) \subseteq Callers
         /\ Cardinality(Filming(k)) \in Nat /\ Cardinality(Filming(k)') \in Nat
         /\ Cardinality(CallersOf(k)) \in Nat
  BY CallersAreCounted DEF Filming, CallersOf

\* What a step may do to the clips of a campaign.
NoMore(k) == clips'[k] <= clips[k] /\ Filming(k)' \subseteq Filming(k)
Opens(k) == clips'[k] = clips[k] /\ clips[k] < MaxShots
Counts(k) ==
  \E c \in Filming(k) : clips'[k] = clips[k] + 1 /\ Filming(k)' = Filming(k) \ {c}

LEMMA ClipsFromSteps ==
  ASSUME TypeInv, TypeInv', ClipsInv, NEW k \in Campaigns, NoMore(k) \/ Opens(k) \/ Counts(k)
  PROVE  clips'[k] + Cardinality(Filming(k)') < MaxShots + Cardinality(CallersOf(k))
<1>1. /\ clips[k] \in Int /\ clips'[k] \in Int /\ MaxShots \in Nat
      /\ clips[k] + Cardinality(Filming(k)) < MaxShots + Cardinality(CallersOf(k))
  BY GatewayAssumption DEF TypeInv, GatewayTypeOK, ClipsInv
<1>2. CASE NoMore(k)
  <2>1. Cardinality(Filming(k)') <= Cardinality(Filming(k))
    BY <1>2, FilmingType, SmallerIsFewer DEF NoMore
  <2>2. QED
    BY <1>1, <1>2, <2>1, FilmingType DEF NoMore
<1>3. CASE Opens(k)
  <2>1. Cardinality(Filming(k)') <= Cardinality(CallersOf(k))
    BY FilmingType, SmallerIsFewer
  <2>2. QED
    BY <1>1, <1>3, <2>1, FilmingType DEF Opens
<1>4. CASE Counts(k)
  <2>1. PICK c \in Filming(k) : clips'[k] = clips[k] + 1 /\ Filming(k)' = Filming(k) \ {c}
    BY <1>4 DEF Counts
  <2>2. Cardinality(Filming(k)') = Cardinality(Filming(k)) - 1
    BY <2>1, FilmingType, OneLess
  <2>3. QED
    BY <1>1, <2>1, <2>2, FilmingType
<1>5. QED
  BY <1>2, <1>3, <1>4

LEMMA UpdateFilms ==
  ASSUME TypeInv, NEW c \in Callers, NEW r, Update(c, r), NEW k \in Campaigns
  PROVE  /\ r.row # "RUNNING" => Filming(k)' = Filming(k) \ {c}
         /\ r.row = call[c].row /\ r.task = call[c].task => Filming(k)' = Filming(k)
<1>1. call'[c] = r /\ \A d \in Callers \ {c} : call'[d] = call[d]
  BY DEF TypeInv, GatewayTypeOK, Update
<1>2. QED
  BY <1>1 DEF Filming, CallersOf

LEMMA FinishFilms ==
  ASSUME TypeInv, NEW c \in Callers, NEW pc, Finish(c, pc), NEW k \in Campaigns
  PROVE  Filming(k)' = Filming(k) \ {c}
  BY UpdateFilms DEF Finish, NoCall

LEMMA NextProviderFilms ==
  ASSUME TypeInv, NEW c \in Callers, NextProvider(c), NEW k \in Campaigns
  PROVE  Filming(k)' = Filming(k)
<1>1. ASSUME NEW pc, NEW n, AfterFailure(c, pc, n)
      PROVE  Filming(k)' = Filming(k)
  BY <1>1, UpdateFilms DEF AfterFailure
<1>2. QED
  BY <1>1 DEF NextProvider

LEMMA CallClips ==
  ASSUME TypeInv, NEW c \in Callers, CallStep(c), NEW k \in Campaigns
  PROVE  NoMore(k) \/ Opens(k) \/ Counts(k)
<1> DEFINE video == call[c].task = "generateVideo"
<1>1. call[c] \in CallRecord /\ clips \in [Campaigns -> Int] /\ clips[k] \in Int
  BY DEF TypeInv, GatewayTypeOK, CallRecord
<1>2. ASSUME clips' = clips, Filming(k)' \subseteq Filming(k)
      PROVE  NoMore(k)
  BY <1>1, <1>2 DEF NoMore
<1>3. ASSUME NEW pc, Goto(c, pc)
      PROVE  Filming(k)' = Filming(k)
  BY <1>1, <1>3, UpdateFilms DEF Goto, CallRecord
<1>4. CASE AssertCredits(c) \/ ProviderAnswers(c)
  BY <1>2, <1>3, <1>4, FinishFilms DEF AssertCredits, ProviderAnswers
<1>5. CASE OpenGeneration(c)
  <2>1. clips' = clips
    BY <1>5 DEF OpenGeneration
  <2>2. CASE Finish(c, "noVideo")
    BY <1>2, <2>1, <2>2, FinishFilms
  <2>3. CASE Update(c, [call[c] EXCEPT !.pc = "calling", !.row = "RUNNING"]) /\ ~Finish(c, "noVideo")
    <3>1. \A d \in Callers : d # c => call'[d] = call[d]
      BY <2>3 DEF TypeInv, GatewayTypeOK, Update
    <3>2. call'[c].task = call[c].task
      BY <1>1, <2>3 DEF TypeInv, GatewayTypeOK, Update, CallRecord
    <3>3. CASE video /\ CampaignOf[c] = k
      <4>1. VideoAllowed(k)
        BY <1>5, <2>3, <3>3 DEF OpenGeneration
      <4>2. QED
        BY <2>1, <4>1 DEF VideoAllowed, Opens
    <3>4. CASE ~(video /\ CampaignOf[c] = k)
      <4>1. Filming(k)' \subseteq Filming(k)
        BY <3>1, <3>2, <3>4 DEF Filming, CallersOf
      <4>2. QED
        BY <1>2, <2>1, <4>1
    <3>5. QED
      BY <3>3, <3>4
  <2>4. QED
    BY <1>5, <2>2, <2>3 DEF OpenGeneration
<1>6. CASE ReadBalance(c)
  <2>1. PICK n : Update(c, [call[c] EXCEPT !.pc = "writing", !.fromExtra = n])
    BY <1>6 DEF ReadBalance
  <2> DEFINE r == [call[c] EXCEPT !.pc = "writing", !.fromExtra = n]
  <2>2. r.row = call[c].row /\ r.task = call[c].task
    BY <1>1 DEF CallRecord
  <2>3. Filming(k)' = Filming(k)
    BY <2>1, <2>2, UpdateFilms
  <2>4. QED
    BY <1>2, <1>6, <2>3 DEF ReadBalance
<1>7. CASE WriteBalance(c)
  BY <1>2, <1>7, FinishFilms DEF WriteBalance
<1>8. CASE ProviderFails(c)
  BY <1>2, <1>8, NextProviderFilms DEF ProviderFails
<1>9. CASE QueryThrows(c)
  BY <1>2, <1>9, NextProviderFilms, FinishFilms DEF QueryThrows
<1>10. CASE MarkFailed(c)
  <2>1. Filming(k)' = Filming(k) \ {c}
    BY <1>10, FinishFilms DEF MarkFailed
  <2>2. clips'[k] <= clips[k]
    BY <1>1, <1>10 DEF MarkFailed, SetRow
  <2>3. QED
    BY <2>1, <2>2 DEF NoMore
<1>11. CASE MarkSucceeded(c)
  <2>1. Filming(k)' = Filming(k) \ {c}
    <3>1. CASE Finish(c, "returned")
      BY <3>1, FinishFilms
    <3>2. CASE Update(c, [call[c] EXCEPT !.row = "SUCCEEDED", !.pc = "reading"])
      <4>1. [call[c] EXCEPT !.row = "SUCCEEDED", !.pc = "reading"].row # "RUNNING"
        BY <1>1 DEF CallRecord
      <4>2. QED
        BY <3>2, <4>1, UpdateFilms
    <3>3. QED
      BY <1>11, <3>1, <3>2 DEF MarkSucceeded
  <2>2. CASE c \in Filming(k)
    <3>1. clips'[k] = clips[k] + 1
      BY <1>1, <1>11, <2>2 DEF MarkSucceeded, SetRow, Filming, CallersOf
    <3>2. QED
      BY <2>1, <2>2, <3>1 DEF Counts
  <2>3. CASE c \notin Filming(k)
    <3>1. clips'[k] <= clips[k]
      BY <1>1, <1>11, <2>3 DEF MarkSucceeded, SetRow, Filming, CallersOf
    <3>2. QED
      BY <2>1, <3>1 DEF NoMore
  <2>4. QED
    BY <2>2, <2>3
<1>12. QED
  BY <1>4, <1>5, <1>6, <1>7, <1>8, <1>9, <1>10, <1>11 DEF CallStep

LEMMA OtherClips ==
  ASSUME TypeInv, NEW k \in Campaigns,
         \/ \E C \in SUBSET Callers : Abandon(C) \/ \E task \in Tasks : Start(C, task)
         \/ Webhook
         \/ UNCHANGED gatewayVars
  PROVE  NoMore(k)
<1>1. clips' = clips
  BY DEF Abandon, Start, Webhook, NewCycle, BuyPack, gatewayVars
<1>2. Filming(k)' \subseteq Filming(k)
  <2>1. CASE \E C \in SUBSET Callers : Abandon(C)
    BY <2>1 DEF Abandon, NoCall, Filming, CallersOf
  <2>2. CASE \E C \in SUBSET Callers : \E task \in Tasks : Start(C, task)
    BY <2>2 DEF Start, Begin, NoCall, Filming, CallersOf
  <2>3. CASE Webhook \/ UNCHANGED gatewayVars
    BY <2>3 DEF Webhook, NewCycle, BuyPack, gatewayVars, Filming
  <2>4. QED
    BY <2>1, <2>2, <2>3
<1>3. QED
  BY <1>1, <1>2 DEF NoMore, TypeInv, GatewayTypeOK

LEMMA ClipsStep ==
  TypeInv /\ TypeInv' /\ ClipsInv /\ [GatewayNext]_gatewayVars => ClipsInv'
<1>1. SUFFICES ASSUME TypeInv, TypeInv', ClipsInv, [GatewayNext]_gatewayVars, NEW k \in Campaigns
               PROVE  clips'[k] + Cardinality(Filming(k)') < MaxShots + Cardinality(CallersOf(k))
  BY DEF ClipsInv, Filming, CallersOf
<1>2. NoMore(k) \/ Opens(k) \/ Counts(k)
  BY <1>1, CallClips, OtherClips DEF GatewayNext
<1>3. QED
  BY <1>1, <1>2, ClipsFromSteps

LEMMA ClipsInit == GatewayInit => ClipsInv
<1>1. SUFFICES ASSUME GatewayInit, NEW k \in Campaigns
               PROVE  clips[k] + Cardinality(Filming(k)) < MaxShots + Cardinality(CallersOf(k))
  BY DEF ClipsInv
<1>2. clips[k] = 0 /\ Filming(k) = {}
  BY <1>1 DEF GatewayInit, NoCall, Filming, CallersOf
<1>3. QED
  BY <1>2, FS_EmptySet, FilmingType, GatewayAssumption

\* The clips that run together for a campaign all pass assertVideoQuotaAvailable: they
\* are more than maxVideoShotsPerCampaign by no more than those calls.
THEOREM ClipsTheorem == GatewaySpec => []ClipsOvershootIsBounded
<1>1. TypeInv /\ ClipsInv /\ [GatewayNext]_gatewayVars => TypeInv' /\ ClipsInv'
  BY TypeStep, ClipsStep
<1>2. GatewaySpec => [](TypeInv /\ ClipsInv)
  BY TypeInit, ClipsInit, <1>1, PTL DEF GatewaySpec
<1>3. TypeInv /\ ClipsInv => ClipsOvershootIsBounded
  <2>1. SUFFICES ASSUME TypeInv, ClipsInv, NEW k \in Campaigns
                 PROVE  clips[k] < MaxShots + Cardinality(CallersOf(k))
    BY DEF ClipsOvershootIsBounded, CallersOf
  <2>2. clips[k] + Cardinality(Filming(k)) < MaxShots + Cardinality(CallersOf(k))
    BY <2>1 DEF ClipsInv
  <2>3. QED
    BY <2>1, <2>2, FilmingType, GatewayAssumption DEF TypeInv, GatewayTypeOK
<1>4. QED
  BY <1>2, <1>3, PTL

\* The three bounds together: whatever calls overlap, an organization overdraws its credits
\* and its packs by no more than one call each, and films no more clips than its plan plus
\* the calls in flight.
THEOREM SpendingTheorem == GatewaySpec => []SpendingIsBounded
<1>1. OverdraftIsBounded /\ PacksOverdraftIsBounded /\ ClipsOvershootIsBounded
        => SpendingIsBounded
  BY DEF SpendingIsBounded
<1>2. QED
  BY <1>1, OverdraftTheorem, PacksTheorem, ClipsTheorem, PTL

-----------------------------------------------------------------------------
(* Nobody is charged for more than results.                                *)

\* What may still be charged for the row of a call.
Due(x) == IF x.row = "SUCCEEDED" THEN Cost[x.task] ELSE 0
Dues == [c \in Callers |-> Due(call[c])]

\* Where a call is, its row is this far.
Marked(x) ==
  /\ x.pc \in {"calling", "marking", "failing"} => x.row # "NONE"
  /\ x.pc \in {"reading", "writing"} => x.row = "SUCCEEDED"

\* What is charged, and all that may still be charged, was a result.
ResultsInv ==
  /\ TypeInv
  /\ \A c \in Callers : Marked(call[c])
  /\ Charged + SumFunctionOnSet(Dues, Callers) <= owed

LEMMA DueType ==
  ASSUME TypeInv
  PROVE  /\ IsFiniteSet(Callers) /\ Charged \in Int /\ owed \in Int
         /\ \A c \in Callers : Dues[c] = Due(call[c]) /\ Due(call[c]) \in Nat /\ Dues[c] \in Int
         /\ SumFunctionOnSet(Dues, Callers) \in Int
<1>1. IsFiniteSet(Callers) /\ Charged \in Int /\ owed \in Int
  BY GatewayAssumption DEF TypeInv, GatewayTypeOK, Charged
<1>2. \A c \in Callers : Dues[c] = Due(call[c]) /\ Due(call[c]) \in Nat
  BY GatewayAssumption DEF TypeInv, GatewayTypeOK, Dues, Due
<1>3. PICK dues : dues = Dues /\ \A c \in Callers : dues[c] \in Int
  BY <1>2
<1>4. SumFunctionOnSet(dues, Callers) \in Int
  BY <1>1, <1>3, SumInt
<1> QED BY <1>1, <1>2, <1>3, <1>4

LEMMA DueTypeNext ==
  ASSUME TypeInv'
  PROVE  /\ Charged' \in Int /\ owed' \in Int
         /\ \A c \in Callers : Dues'[c] = Due(call'[c]) /\ Due(call'[c]) \in Nat /\ Dues'[c] \in Int
         /\ SumFunctionOnSet(Dues', Callers) \in Int
<1>1. Charged' \in Int /\ owed' \in Int
  BY GatewayAssumption DEF TypeInv, GatewayTypeOK, Charged
<1>2. \A c \in Callers : Dues'[c] = Due(call'[c]) /\ Due(call'[c]) \in Nat
  BY GatewayAssumption DEF TypeInv, GatewayTypeOK, Dues, Due
<1>3. PICK dues : dues = Dues' /\ \A c \in Callers : dues[c] \in Int
  BY <1>2
<1>4. IsFiniteSet(Callers)
  BY GatewayAssumption
<1>5. SumFunctionOnSet(dues, Callers) \in Int
  BY <1>3, <1>4, SumInt
<1> QED BY <1>1, <1>2, <1>3, <1>5

\* One call changes: what it owes now takes the place of what it owed.
LEMMA DuesChange ==
  ASSUME ResultsInv, TypeInv', NEW c \in Callers, NEW x, Update(c, x),
         Marked(x),
         Charged' + Due(x) - owed' <= Charged + Due(call[c]) - owed
  PROVE  ResultsInv'
<1>1. call'[c] = x /\ \A d \in Callers : d # c => call'[d] = call[d]
  BY DEF ResultsInv, TypeInv, GatewayTypeOK, Update
<1>2. PICK f, g, m, n :
        f = Dues /\ g = Dues' /\ m = SumFunctionOnSet(Dues, Callers) /\ n = SumFunctionOnSet(Dues', Callers)
  OBVIOUS
<1>3. /\ IsFiniteSet(Callers) /\ m \in Int /\ n \in Int /\ Charged \in Int /\ owed \in Int
      /\ Charged' \in Int /\ owed' \in Int
      /\ \A d \in Callers : f[d] \in Int /\ g[d] \in Int /\ (d # c => f[d] = g[d])
      /\ f[c] = Due(call[c]) /\ g[c] = Due(x)
  BY <1>1, <1>2, DueType, DueTypeNext DEF ResultsInv
<1>4. SumFunctionOnSet(g, Callers) = SumFunctionOnSet(f, Callers) + g[c] - f[c]
  BY <1>3, SumChange
<1>5. n = m + Due(x) - Due(call[c])
  BY <1>2, <1>3, <1>4
<1>6. Charged + m <= owed
  BY <1>2 DEF ResultsInv
<1>7. Due(x) \in Int /\ Due(call[c]) \in Int
  BY <1>3
<1>8. Charged' + n <= owed'
  BY <1>3, <1>5, <1>6, <1>7
<1>9. \A d \in Callers : Marked(call'[d])
  BY <1>1 DEF ResultsInv
<1> QED BY <1>2, <1>8, <1>9 DEF ResultsInv

Forgotten(x) == x.row = "NONE" /\ x.pc \in {"idle", "asserting"} \cup Outcomes

\* Some calls are forgotten, and what was due of them with them.
LEMMA DuesFall ==
  ASSUME ResultsInv, TypeInv', Charged' = Charged, owed' = owed,
         \A c \in Callers : call'[c] = call[c] \/ Forgotten(call'[c])
  PROVE  ResultsInv'
<1>1. PICK f, g, m, n :
        f = Dues /\ g = Dues' /\ m = SumFunctionOnSet(Dues, Callers) /\ n = SumFunctionOnSet(Dues', Callers)
  OBVIOUS
<1>2. /\ IsFiniteSet(Callers) /\ m \in Int /\ n \in Int /\ Charged \in Int /\ owed \in Int
      /\ \A c \in Callers : f[c] \in Int /\ g[c] \in Int
  BY <1>1, DueType, DueTypeNext DEF ResultsInv
<1>3. \A c \in Callers : g[c] <= f[c]
  <2>1. ASSUME NEW c \in Callers
        PROVE  g[c] <= f[c]
    <3>1. f[c] = Due(call[c]) /\ f[c] \in Nat /\ g[c] = Due(call'[c])
      BY <1>1, DueType, DueTypeNext DEF ResultsInv
    <3>2. CASE call'[c] = call[c]
      BY <3>1, <3>2
    <3>3. CASE Forgotten(call'[c])
      BY <3>1, <3>3 DEF Due, Forgotten
    <3> QED BY <3>2, <3>3
  <2> QED BY <2>1
<1>4. SumFunctionOnSet(g, Callers) <= SumFunctionOnSet(f, Callers)
  BY <1>2, <1>3, SumMonotone
<1>5. Charged' + n <= owed'
  BY <1>1, <1>2, <1>4 DEF ResultsInv
<1>6. \A c \in Callers : Marked(call'[c])
  BY DEF ResultsInv, Marked, Forgotten, Outcomes
<1> QED BY <1>1, <1>5, <1>6 DEF ResultsInv

LEMMA CallResults ==
  ASSUME ResultsInv, TypeInv', NEW c \in Callers, CallStep(c)
  PROVE  ResultsInv'
<1> DEFINE t == call[c].task
<1>1. /\ Cost[t] \in Nat /\ used \in Int /\ extra \in Int /\ bought \in Int /\ renewed \in Int
      /\ owed \in Int /\ call[c] \in CallRecord /\ call[c].fromExtra \in Int
  BY GatewayAssumption DEF ResultsInv, TypeInv, GatewayTypeOK, CallRecord
<1>2. Due(call[c]) = IF call[c].row = "SUCCEEDED" THEN Cost[t] ELSE 0
  BY DEF Due
<1>3. /\ \A pc : Due(NoCall(pc)) = 0
      /\ \A pc \in Outcomes : Marked(NoCall(pc))
      /\ {"returned", "threw"} \subseteq Outcomes
  BY DEF Due, NoCall, Marked, Outcomes
<1>4. \A x : Update(c, x) /\ Due(x) = Due(call[c]) /\ UNCHANGED <<ledgerVars, owed>>
             /\ Marked(x)
             => ResultsInv'
  <2>1. ASSUME NEW x, Update(c, x), Due(x) = Due(call[c]), UNCHANGED <<ledgerVars, owed>>,
               Marked(x)
        PROVE  ResultsInv'
    <3>1. Charged' = Charged /\ owed' = owed
      BY <2>1 DEF Charged, ledgerVars
    <3>2. PICK a \in Int, b \in Int, d \in Int : a = Charged /\ b = owed /\ d = Due(call[c])
      BY DueType DEF ResultsInv
    <3>3. Charged' + Due(x) - owed' <= Charged + Due(call[c]) - owed
      BY <2>1, <3>1, <3>2
    <3> QED BY <2>1, <3>3, DuesChange
  <2> QED BY <2>1
<1>5. ASSUME NEW pc, Finish(c, pc), pc \in Outcomes, UNCHANGED <<ledgerVars, owed>>
      PROVE  ResultsInv'
  <2>1. \A d \in Callers : call'[d] = call[d] \/ Forgotten(call'[d])
    BY <1>5 DEF Forgotten, Finish, Update, NoCall, Outcomes, ResultsInv, TypeInv, GatewayTypeOK
  <2>2. Charged' = Charged
    BY <1>5 DEF Charged, ledgerVars
  <2> QED BY <1>5, <2>1, <2>2, DuesFall
<1>6. ASSUME NEW pc, Goto(c, pc), UNCHANGED <<ledgerVars, owed>>,
             Marked([call[c] EXCEPT !.pc = pc])
      PROVE  ResultsInv'
  <2>1. PICK x : x = [call[c] EXCEPT !.pc = pc]
    OBVIOUS
  <2>2. Due(x) = Due(call[c]) /\ x.pc = pc /\ x.row = call[c].row
    BY <1>1, <2>1 DEF Due, CallRecord
  <2>3. Update(c, x)
    BY <1>6, <2>1 DEF Goto
  <2> QED BY <1>4, <1>6, <2>1, <2>2, <2>3
<1>7. ASSUME NextProvider(c), UNCHANGED <<ledgerVars, owed>>, call[c].row # "NONE"
      PROVE  ResultsInv'
  <2>1. PICK pc, n : pc \in {"calling", "failing"} /\ AfterFailure(c, pc, n)
    BY <1>7 DEF NextProvider
  <2>2. PICK x : Update(c, x) /\ x = [pc |-> pc, task |-> t, provider |-> n, row |-> call[c].row,
                                      fromExtra |-> 0]
    BY <2>1 DEF AfterFailure
  <2>3. Due(x) = Due(call[c]) /\ Marked(x)
    BY <1>7, <2>1, <2>2 DEF Due, Marked
  <2> QED BY <1>4, <1>7, <2>2, <2>3
<1>8. CASE AssertCredits(c) \/ ProviderAnswers(c)
  <2>1. UNCHANGED <<ledgerVars, owed>> /\ (\/ Finish(c, "noCredits") \/ Goto(c, "opening")
                                             \/ (call[c].pc = "calling" /\ Goto(c, "marking")))
    BY <1>8 DEF AssertCredits, ProviderAnswers
  <2>2. /\ Marked([call[c] EXCEPT !.pc = "opening"])
        /\ call[c].pc = "calling" => Marked([call[c] EXCEPT !.pc = "marking"])
    BY <1>1 DEF ResultsInv, Marked, CallRecord
  <2> QED BY <1>5, <1>6, <1>8, <2>1, <2>2 DEF Outcomes, AssertCredits, ProviderAnswers
<1>9. CASE OpenGeneration(c)
  <2>1. CASE Finish(c, "noVideo")
    BY <1>5, <1>9, <2>1 DEF OpenGeneration, Outcomes
  <2>2. CASE ~Finish(c, "noVideo")
    <3>1. PICK x : Update(c, x) /\ x = [call[c] EXCEPT !.pc = "calling", !.row = "RUNNING"]
      BY <1>9, <2>2 DEF OpenGeneration
    <3>2. Due(x) = 0 /\ Marked(x)
      BY <1>1, <3>1 DEF Due, Marked, CallRecord
    <3>3. Charged' = Charged /\ owed' = owed
      BY <1>9 DEF OpenGeneration, Charged, ledgerVars
    <3>4. PICK a \in Int, b \in Int, d \in Nat : a = Charged /\ b = owed /\ d = Due(call[c])
      BY DueType DEF ResultsInv
    <3>5. Charged' + Due(x) - owed' <= Charged + Due(call[c]) - owed
      BY <3>2, <3>3, <3>4
    <3> QED BY <3>1, <3>2, <3>5, DuesChange
  <2> QED BY <2>1, <2>2
<1>10. CASE ProviderFails(c)
  BY <1>7, <1>10 DEF ProviderFails, ResultsInv, Marked
<1>11. CASE MarkSucceeded(c)
  <2>1. owed' = owed + (IF call[c].row = "RUNNING" THEN 1 ELSE 0) * Cost[t]
    BY <1>11 DEF MarkSucceeded, SetRow
  <2>2. owed' = owed + (IF call[c].row = "RUNNING" THEN Cost[t] ELSE 0)
    BY <1>1, <2>1
  <2>3. PICK x : Update(c, x) /\ Due(x) = Cost[t] /\ Marked(x)
    <3>1. CASE Cost[t] > 0
      <4>1. PICK x : Update(c, x) /\ x = [call[c] EXCEPT !.row = "SUCCEEDED", !.pc = "reading"]
        BY <1>11, <3>1 DEF MarkSucceeded
      <4>2. Due(x) = Cost[t] /\ Marked(x)
        BY <1>1, <4>1 DEF Due, Marked, CallRecord
      <4> QED BY <4>1, <4>2
    <3>2. CASE ~(Cost[t] > 0)
      <4>1. Update(c, NoCall("returned")) /\ Cost[t] = 0
        BY <1>1, <1>11, <3>2 DEF MarkSucceeded, Finish
      <4> QED BY <1>3, <4>1
    <3> QED BY <3>1, <3>2
  <2>4. Charged' = Charged
    BY <1>11 DEF MarkSucceeded, Charged, ledgerVars
  <2>5. Due(x) - owed' <= Due(call[c]) - owed
    <3>1. call[c].row \in {"RUNNING", "SUCCEEDED"}
      BY <1>1, <1>11 DEF MarkSucceeded, ResultsInv, Marked, CallRecord
    <3> QED BY <1>1, <1>2, <2>2, <2>3, <3>1
  <2>6. Charged' + Due(x) - owed' <= Charged + Due(call[c]) - owed
    <3>1. PICK a \in Int, b \in Int, d \in Int, e \in Int, h \in Int :
            a = Charged /\ b = owed /\ d = Due(call[c]) /\ e = owed' /\ h = Due(x)
      BY <1>1, <2>3, DueType, DueTypeNext DEF ResultsInv
    <3> QED BY <2>4, <2>5, <3>1
  <2> QED BY <2>3, <2>6, DuesChange
<1>12. CASE ReadBalance(c)
  <2>1. PICK x, n : /\ Update(c, x) /\ x = [call[c] EXCEPT !.pc = "writing", !.fromExtra = n]
                    /\ UNCHANGED <<ledgerVars, owed>> /\ call[c].pc = "reading"
    BY <1>12 DEF ReadBalance
  <2>2. Due(x) = Due(call[c]) /\ Marked(x)
    BY <1>1, <2>1 DEF Due, CallRecord, ResultsInv, Marked
  <2> QED BY <1>4, <2>1, <2>2
<1>13. CASE WriteBalance(c)
  <2>1. /\ call[c].row = "SUCCEEDED" /\ Update(c, NoCall("returned")) /\ owed' = owed
        /\ extra' = extra - call[c].fromExtra
        /\ used' = used + (Cost[t] - call[c].fromExtra) /\ UNCHANGED <<bought, renewed>>
    BY <1>13 DEF WriteBalance, Finish, ResultsInv, Marked
  <2>2. Charged' = Charged + Cost[t]
    BY <1>1, <2>1 DEF Charged
  <2>3. Charged' + Due(NoCall("returned")) - owed' <= Charged + Due(call[c]) - owed
    <3>1. PICK a \in Int, b \in Int : a = Charged /\ b = owed
      BY DueType DEF ResultsInv
    <3>2. Due(NoCall("returned")) = 0 /\ Due(call[c]) = Cost[t]
      BY <1>2, <1>3, <2>1
    <3> QED BY <1>1, <2>1, <2>2, <3>1, <3>2
  <2>4. Marked(NoCall("returned"))
    BY <1>3
  <2> QED BY <2>1, <2>3, <2>4, DuesChange
<1>14. CASE MarkFailed(c)
  <2>1. /\ Update(c, NoCall("threw"))
        /\ owed' = owed + (IF call[c].row = "SUCCEEDED" THEN -1 ELSE 0) * Cost[t]
    BY <1>14 DEF MarkFailed, SetRow, Finish
  <2>2. owed' = owed - (IF call[c].row = "SUCCEEDED" THEN Cost[t] ELSE 0)
    BY <1>1, <2>1
  <2>3. Charged' = Charged
    BY <1>14 DEF MarkFailed, Charged, ledgerVars
  <2>4. Charged' + Due(NoCall("threw")) - owed' <= Charged + Due(call[c]) - owed
    <3>1. PICK a \in Int, b \in Int, d \in Int : a = Charged /\ b = owed /\ d = Due(call[c])
      BY DueType DEF ResultsInv
    <3>2. owed' = b - d /\ Due(NoCall("threw")) = 0
      BY <1>2, <1>3, <2>2, <3>1
    <3> QED BY <2>3, <3>1, <3>2
  <2>5. Marked(NoCall("threw"))
    BY <1>3
  <2> QED BY <2>1, <2>4, <2>5, DuesChange
<1>15. CASE QueryThrows(c)
  BY <1>5, <1>7, <1>15 DEF QueryThrows, Outcomes, ResultsInv, Marked
<1> QED BY <1>8, <1>9, <1>10, <1>11, <1>12, <1>13, <1>14, <1>15 DEF CallStep

LEMMA OtherResults ==
  ASSUME ResultsInv, TypeInv',
         \/ \E C \in SUBSET Callers : Abandon(C) \/ \E task \in Tasks : Start(C, task)
         \/ Webhook
         \/ UNCHANGED gatewayVars
  PROVE  ResultsInv'
<1>1. /\ used \in Int /\ extra \in Int /\ bought \in Int /\ renewed \in Int
      /\ \A c \in Callers : call[c] \in CallRecord
      /\ \A n \in Packs : n \in Int
  BY GatewayAssumption DEF ResultsInv, TypeInv, GatewayTypeOK, CallRecord
<1>2. CASE \E C \in SUBSET Callers : Abandon(C) \/ \E task \in Tasks : Start(C, task)
  <2>1. Charged' = Charged /\ owed' = owed
    BY <1>2 DEF Abandon, Start, Charged, ledgerVars
  <2>2. \A c \in Callers : call'[c] = call[c] \/ Forgotten(call'[c])
    BY <1>2 DEF Forgotten, Abandon, Start, Begin, NoCall
  <2> QED BY <2>1, <2>2, DuesFall
<1>3. CASE Webhook \/ UNCHANGED gatewayVars
  <2>1. Charged' = Charged
    <3>1. CASE NewCycle
      BY <1>1, <3>1 DEF NewCycle, Charged
    <3>2. CASE \E n \in Packs : BuyPack(n)
      BY <1>1, <3>2 DEF BuyPack, Charged
    <3>3. CASE UNCHANGED gatewayVars
      BY <3>3 DEF gatewayVars, ledgerVars, Charged
    <3> QED BY <1>3, <3>1, <3>2, <3>3 DEF Webhook
  <2>2. owed' = owed /\ call' = call
    BY <1>3 DEF Webhook, NewCycle, BuyPack, gatewayVars
  <2> QED BY <2>1, <2>2, DuesFall
<1> QED BY <1>2, <1>3

LEMMA ResultsInit == GatewayInit => ResultsInv
<1> SUFFICES ASSUME GatewayInit PROVE ResultsInv
  OBVIOUS
<1>1. TypeInv /\ Charged = 0 /\ owed = 0 /\ \A c \in Callers : call[c] = NoCall("idle")
  BY TypeInit DEF GatewayInit, Charged
<1>2. \A c \in Callers : Due(call[c]) = 0 /\ Marked(call[c])
  BY <1>1 DEF Due, NoCall, Marked
<1>3. PICK f, g : f = Dues /\ g = [c \in Callers |-> 0]
  OBVIOUS
<1>4. IsFiniteSet(Callers) /\ \A c \in Callers : f[c] \in Int /\ 0 <= f[c] /\ f[c] <= 0
  BY <1>2, <1>3, GatewayAssumption DEF Dues
<1>5. PICK n \in Nat : n = Cardinality(Callers)
  BY CallersAreCounted
<1>6. 0 * n <= SumFunctionOnSet(f, Callers) /\ SumFunctionOnSet(f, Callers) <= 0 * n
  BY <1>4, <1>5, SumBounds
<1>7. SumFunctionOnSet(f, Callers) \in Int
  BY <1>4, SumInt
<1>8. Charged + SumFunctionOnSet(Dues, Callers) <= owed
  BY <1>1, <1>3, <1>6, <1>7
<1> QED BY <1>1, <1>2, <1>8 DEF ResultsInv

LEMMA ResultsStep == ResultsInv /\ [GatewayNext]_gatewayVars => ResultsInv'
<1> SUFFICES ASSUME ResultsInv, [GatewayNext]_gatewayVars PROVE ResultsInv'
  OBVIOUS
<1>1. TypeInv'
  BY TypeStep DEF ResultsInv
<1> QED BY <1>1, CallResults, OtherResults DEF GatewayNext

LEMMA ResultsAreDue ==
  ASSUME ResultsInv
  PROVE  ChargedForResultsOnly
<1>1. PICK f, n : f = Dues /\ n = Cardinality(Callers) /\ n \in Nat
  BY CallersAreCounted
<1>2. /\ IsFiniteSet(Callers) /\ \A c \in Callers : f[c] \in Int /\ 0 <= f[c] /\ f[c] <= MaxCost
      /\ MaxCost \in Int
  <2>1. \A c \in Callers : Cost[call[c].task] \in 0..MaxCost /\ f[c] = Due(call[c])
    BY <1>1, GatewayAssumption, DueType DEF ResultsInv, TypeInv, GatewayTypeOK
  <2> QED BY <2>1, GatewayAssumption DEF Due
<1>3. 0 * Cardinality(Callers) <= SumFunctionOnSet(f, Callers)
  BY <1>2, SumBounds
<1>4. PICK m \in Int : m = SumFunctionOnSet(f, Callers) /\ 0 <= m
  BY <1>1, <1>2, <1>3, DueType DEF ResultsInv
<1>5. Charged + m <= owed /\ Charged \in Int /\ owed \in Int
  BY <1>1, <1>4, DueType DEF ResultsInv
<1> QED BY <1>4, <1>5 DEF ChargedForResultsOnly

\* Whatever throws, and in whatever order calls charge, fall back on another provider, packs
\* arrive and cycles begin: an organization is never charged for more than its SUCCEEDED
\* generations, for any calls and costs.
THEOREM ResultsTheorem == GatewaySpec => []ChargedForResultsOnly
<1>1. GatewaySpec => []ResultsInv
  BY ResultsInit, ResultsStep, PTL DEF GatewaySpec
<1> QED BY <1>1, ResultsAreDue, PTL

-----------------------------------------------------------------------------
(* Every step of a storyboard is a step of the gateway: what was shown of  *)
(* its callers holds of the shots too.                                     *)

LEMMA BeginStarts ==
  ASSUME NEW C \in SUBSET Callers, NEW task \in Tasks, Begin(C, task), KeepLedger
  PROVE  GatewayNext
  BY DEF KeepLedger, Start, GatewayNext

LEMMA ShotsAreCallers ==
  /\ \A k : ToLaunch(k) \subseteq Callers /\ FailedShots(k) \subseteq Callers
  /\ \A s \in Shots : {s} \in SUBSET Callers
  /\ "generateVideo" \in Tasks
  BY StoryboardAssumption, GatewayAssumption
  DEF ToLaunch, FailedShots, WaveShots, ShotsOf

LEMMA BoardGateway ==
  ASSUME NEW k \in Campaigns, BoardStep(k) \/ RunAgain(k)
  PROVE  [GatewayNext]_gatewayVars
<1>1. ASSUME NEW S \in SUBSET Callers, Launch(S)
      PROVE  GatewayNext
  BY <1>1, BeginStarts, ShotsAreCallers DEF Launch
<1>2. CASE LaunchWave(k) \/ Recover(k)
  BY <1>1, <1>2, ShotsAreCallers DEF LaunchWave, Recover
<1>3. CASE ReadSlots(k) \/ NoSlotLeft(k) \/ EndWave(k) \/ Throw(k) \/ Deliver(k) \/ RunAgain(k)
  BY <1>3 DEF ReadSlots, NoSlotLeft, EndWave, Throw, Deliver, RunAgain
<1>4. QED
  BY <1>2, <1>3 DEF BoardStep

LEMMA ShotGateway ==
  ASSUME NEW s \in Shots, ShotStep(s)
  PROVE  [GatewayNext]_gatewayVars
<1>1. ASSUME NEW best, SecondAttempt(s, best)
      PROVE  GatewayNext
  BY <1>1, BeginStarts, ShotsAreCallers DEF SecondAttempt
<1>2. ASSUME NEW pc, NEW best, End(s, pc, best)
      PROVE  UNCHANGED gatewayVars
  BY <1>2 DEF End
<1>3. ASSUME NEW q, Judge(s, q)
      PROVE  [GatewayNext]_gatewayVars
  BY <1>1, <1>2, <1>3 DEF Judge
<1>4. CASE ClipArrives(s)
  <2>1. CASE Start({s}, "analyzeImage")
    <3>1. "analyzeImage" \in Tasks
      BY <2>1, StoryboardAssumption, GatewayAssumption DEF Start, Begin
    <3>2. QED
      BY <2>1, <3>1, ShotsAreCallers DEF GatewayNext
  <2>2. CASE \E q \in Qualities : Judge(s, q)
    BY <1>3, <2>2
  <2>3. QED
    BY <1>4, <2>1, <2>2 DEF ClipArrives
<1>5. CASE AnalysisEnds(s)
  BY <1>3, <1>5 DEF AnalysisEnds
<1>6. CASE QuotaReached(s)
  BY <1>2, <1>6 DEF QuotaReached
<1>7. CASE VideoFails(s)
  BY <1>1, <1>2, <1>7 DEF VideoFails, AfterError
<1>8. QED
  BY <1>4, <1>5, <1>6, <1>7 DEF ShotStep

LEMMA GatewayStepOrStutter == [Next]_vars => [GatewayNext]_gatewayVars
<1>1. CASE \E k \in Campaigns : BoardStep(k) \/ RunAgain(k)
  BY <1>1, BoardGateway
<1>2. CASE \E s \in Shots : ShotStep(s)
  BY <1>2, ShotGateway
<1>3. CASE \E c \in Callers : GatewayStep(c)
  BY <1>3 DEF GatewayStep, GatewayNext
<1>4. CASE Crash
  BY <1>4 DEF Crash, GatewayNext
<1>5. CASE UNCHANGED vars
  BY <1>5 DEF vars
<1>6. QED
  BY <1>1, <1>2, <1>3, <1>4, <1>5 DEF Next

\* generateSingleShot reaches providers and credits through executeTracked only: its
\* launches, second attempts, recoveries and crashes are steps of the gateway.
THEOREM ImplementsGateway == Spec => GatewaySpec
<1>1. Init => GatewayInit
  BY DEF Init
<1>2. QED
  BY <1>1, GatewayStepOrStutter, PTL DEF Spec, GatewaySpec

-----------------------------------------------------------------------------
(* How many clips a shot pays.                                             *)

ShotRecord == [pc : {"waiting", "video", "judging"} \cup Settled,
               attempt : {0, 1}, best : Qualities \cup {NoClip}]
BoardRecord == [pc : {"idle", "next", "wave", "recovery", "delivered", "threw"},
                slots : Int, wave : Nat, quota : BOOLEAN, fatal : BOOLEAN, runs : Nat]

ShotType ==
  /\ shot \in [Shots -> ShotRecord]
  /\ paid \in [Shots -> Nat]
  /\ board \in [Campaigns -> BoardRecord]

\* A shot pays a clip per attempt at most; while it has no best clip it has paid none.
PaysPerAttempt(s) ==
  /\ paid[s] <= 2
  /\ shot[s].pc = "video" => paid[s] <= shot[s].attempt
  /\ shot[s].pc = "video" /\ shot[s].best = NoClip => paid[s] = 0
  /\ shot[s].pc = "judging" => paid[s] <= shot[s].attempt + 1
  /\ shot[s].pc = "failed" => paid[s] = 0

\* The shots of the waves to come have neither started nor paid.
WaitsForItsWave(s) ==
  LET b == board[CampaignOf[s]] IN
  \/ b.pc \in {"idle", "delivered", "threw"}
  \/ WaveOf[s] < b.wave
  \/ WaveOf[s] = b.wave /\ b.pc \in {"wave", "recovery"}
  \/ shot[s].pc = "waiting" /\ paid[s] = 0

PaidInv == ShotType /\ \A s \in Shots : PaysPerAttempt(s) /\ WaitsForItsWave(s)

LEMMA StoryboardConstants ==
  /\ Shots \subseteq Callers
  /\ \A s \in Shots : CampaignOf[s] \in Campaigns /\ WaveOf[s] \in Nat
  BY StoryboardAssumption, GatewayAssumption

LEMMA PaidInit == Init => PaidInv
  BY StoryboardConstants
  DEF Init, PaidInv, ShotType, ShotRecord, BoardRecord, PaysPerAttempt, WaitsForItsWave, NewShot

LEMMA NewShotType ==
  ASSUME NEW pc \in {"waiting", "video", "judging"} \cup Settled
  PROVE  NewShot(pc) \in ShotRecord
  BY DEF NewShot, ShotRecord

\* Shots that are launched have paid nothing in this run.
LEMMA PaidLaunch ==
  ASSUME PaidInv, NEW k \in Campaigns, NEW S \in SUBSET ShotsOf(k), Launch(S), UNCHANGED paid,
         \A s \in S : paid[s] = 0 /\ WaveOf[s] = board[k].wave,
         NEW b \in BoardRecord, board' = [board EXCEPT ![k] = b],
         b.pc \in {"wave", "recovery"}, b.wave = board[k].wave,
         board[k].pc \in {"next", "wave"}
  PROVE  PaidInv'
<1>1. /\ S \subseteq Shots
      /\ shot' = [s \in Shots |-> IF s \in S THEN NewShot("video") ELSE shot[s]]
  BY DEF Launch, ShotsOf
<1>2. ShotType'
  BY <1>1, NewShotType DEF PaidInv, ShotType
<1>3. ASSUME NEW s \in Shots
      PROVE  PaysPerAttempt(s)' /\ WaitsForItsWave(s)'
  <2>1. PaysPerAttempt(s)'
    BY <1>1 DEF PaidInv, ShotType, PaysPerAttempt, NewShot
  <2>2. WaitsForItsWave(s)'
    BY <1>1, StoryboardConstants
    DEF PaidInv, ShotType, BoardRecord, WaitsForItsWave, ShotsOf
  <2>3. QED
    BY <2>1, <2>2
<1>4. QED
  BY <1>2, <1>3 DEF PaidInv

LEMMA PaidBoard ==
  ASSUME TypeInv, PaidInv, NEW k \in Campaigns, BoardStep(k) \/ RunAgain(k)
  PROVE  PaidInv'
<1>1. /\ board[k] \in BoardRecord /\ board \in [Campaigns -> BoardRecord]
      /\ \A s \in Shots : PaysPerAttempt(s) /\ WaitsForItsWave(s)
  BY DEF PaidInv, ShotType
<1>2. ASSUME NEW b \in BoardRecord, board' = [board EXCEPT ![k] = b],
             UNCHANGED <<shot, paid>>,
             \/ b.pc \in {"idle", "delivered", "threw"}
             \/ b.pc = board[k].pc /\ b.wave = board[k].wave
             \/ /\ board[k].pc \in {"wave", "recovery"}
                /\ b.pc = "next" /\ b.wave = board[k].wave + 1
      PROVE  PaidInv'
  <2>1. ShotType'
    BY <1>2 DEF PaidInv, ShotType
  <2>2. ASSUME NEW s \in Shots
        PROVE  PaysPerAttempt(s)' /\ WaitsForItsWave(s)'
    <3>1. PaysPerAttempt(s)'
      BY <1>1, <1>2 DEF PaysPerAttempt
    <3>2. CASE CampaignOf[s] = k
      <4>1. board'[CampaignOf[s]] = b /\ WaveOf[s] \in Nat /\ board[k].wave \in Nat
        BY <1>1, <1>2, <3>2, StoryboardConstants DEF BoardRecord
      <4>2. WaitsForItsWave(s)
        BY <1>1
      <4>3. WaitsForItsWave(s)'
        BY <1>2, <3>2, <4>1, <4>2 DEF WaitsForItsWave
      <4>4. QED
        BY <3>1, <4>3
    <3>3. CASE CampaignOf[s] # k
      <4>1. board'[CampaignOf[s]] = board[CampaignOf[s]]
        BY <1>1, <1>2, <3>3, StoryboardConstants
      <4>2. WaitsForItsWave(s)'
        BY <1>1, <1>2, <4>1 DEF WaitsForItsWave
      <4>3. QED
        BY <3>1, <4>2
    <3>4. QED
      BY <3>2, <3>3
  <2>3. QED
    BY <2>1, <2>2 DEF PaidInv
<1>3. CASE ReadSlots(k)
  <2>1. SlotsLeft(k) \in Int
    BY GatewayAssumption DEF SlotsLeft, TypeInv, GatewayTypeOK
  <2>2. ShotType'
    BY <1>1, <1>3, <2>1, NewShotType DEF ReadSlots, PaidInv, ShotType, BoardRecord
  <2>3. ASSUME NEW s \in Shots
        PROVE  PaysPerAttempt(s)' /\ WaitsForItsWave(s)'
    BY <1>1, <1>3, StoryboardConstants
    DEF ReadSlots, PaysPerAttempt, WaitsForItsWave, NewShot, ShotsOf
  <2>4. QED
    BY <2>2, <2>3 DEF PaidInv
<1>4. CASE LaunchWave(k)
  <2> DEFINE b == [board[k] EXCEPT !.pc = "wave"]
  <2>1. /\ b \in BoardRecord /\ b.pc = "wave" /\ b.wave = board[k].wave
        /\ board' = [board EXCEPT ![k] = b]
    BY <1>1, <1>4 DEF LaunchWave, BoardRecord
  <2>2. ToLaunch(k) \in SUBSET ShotsOf(k)
    BY DEF ToLaunch
  <2>3. \A s \in ToLaunch(k) : paid[s] = 0 /\ WaveOf[s] = board[k].wave
    BY <1>1, <1>4, StoryboardConstants
    DEF LaunchWave, ToLaunch, ShotsOf, WaitsForItsWave, BoardRecord
  <2> HIDE DEF b
  <2>4. QED
    BY <1>4, <2>1, <2>2, <2>3, PaidLaunch DEF LaunchWave
<1>5. CASE Recover(k)
  <2>1. PICK q \in BOOLEAN :
          board' = [board EXCEPT ![k].pc = "recovery", ![k].fatal = TRUE, ![k].quota = q]
    BY <1>1, <1>5 DEF Recover, BoardRecord
  <2> DEFINE b == [board[k] EXCEPT !.pc = "recovery", !.fatal = TRUE, !.quota = q]
  <2>2. /\ b \in BoardRecord /\ b.pc = "recovery" /\ b.wave = board[k].wave
        /\ board' = [board EXCEPT ![k] = b]
    BY <1>1, <2>1 DEF BoardRecord
  <2>3. FailedShots(k) \in SUBSET ShotsOf(k)
    BY DEF FailedShots, WaveShots
  <2>4. \A s \in FailedShots(k) : paid[s] = 0 /\ WaveOf[s] = board[k].wave
    BY <1>1 DEF FailedShots, WaveShots, ShotsOf, PaysPerAttempt
  <2> HIDE DEF b
  <2>5. QED
    BY <1>5, <2>2, <2>3, <2>4, PaidLaunch DEF Recover
<1>6. CASE NoSlotLeft(k) \/ Throw(k) \/ Deliver(k) \/ RunAgain(k)
  <2>1. PICK b : /\ b \in BoardRecord /\ board' = [board EXCEPT ![k] = b]
                 /\ \/ b.pc \in {"idle", "delivered", "threw"}
                    \/ b.pc = board[k].pc /\ b.wave = board[k].wave
    <3>1. ASSUME NEW pc \in {"idle", "delivered", "threw"}
          PROVE  /\ [board[k] EXCEPT !.pc = pc] \in BoardRecord
                 /\ [board[k] EXCEPT !.pc = pc].pc = pc
      BY <1>1, <3>1 DEF BoardRecord
    <3>2. /\ [board[k] EXCEPT !.quota = TRUE] \in BoardRecord
          /\ [board[k] EXCEPT !.quota = TRUE].pc = board[k].pc
          /\ [board[k] EXCEPT !.quota = TRUE].wave = board[k].wave
      BY <1>1 DEF BoardRecord
    <3>3. QED
      BY <1>6, <3>1, <3>2 DEF NoSlotLeft, Throw, Deliver, RunAgain
  <2>2. UNCHANGED <<shot, paid>>
    BY <1>6 DEF NoSlotLeft, Throw, Deliver, RunAgain
  <2>3. QED
    BY <1>2, <2>1, <2>2
<1>7. CASE EndWave(k)
  <2>1. PICK n \in Nat, q \in BOOLEAN :
          board' = [board EXCEPT ![k].pc = "next", ![k].wave = @ + 1, ![k].slots = @ - n,
                                 ![k].quota = q]
    <3>1. Cardinality({s \in WaveShots(k) : shot[s].pc = "done"}) \in Nat
      BY CallersAreCounted, StoryboardConstants DEF WaveShots, ShotsOf
    <3>2. QED
      BY <1>1, <1>7, <3>1 DEF EndWave, BoardRecord
  <2> DEFINE b == [board[k] EXCEPT !.pc = "next", !.wave = @ + 1, !.slots = @ - n, !.quota = q]
  <2>2. /\ b \in BoardRecord /\ b.pc = "next" /\ b.wave = board[k].wave + 1
        /\ board' = [board EXCEPT ![k] = b]
    BY <1>1, <2>1 DEF BoardRecord
  <2> HIDE DEF b
  <2>3. QED
    BY <1>2, <1>7, <2>2 DEF EndWave
<1>8. QED
  BY <1>3, <1>4, <1>5, <1>6, <1>7 DEF BoardStep

\* A step of one shot leaves its board alone, and the shot has started.
LEMMA PaidOneShot ==
  ASSUME PaidInv, NEW s \in Shots, shot[s].pc # "waiting", UNCHANGED board,
         NEW r \in ShotRecord, NEW n \in Nat,
         shot' = [shot EXCEPT ![s] = r], paid' = [paid EXCEPT ![s] = n],
         PaysPerAttempt(s)'
  PROVE  PaidInv'
<1>1. ShotType'
  BY DEF PaidInv, ShotType
<1>2. ASSUME NEW t \in Shots
      PROVE  PaysPerAttempt(t)' /\ WaitsForItsWave(t)'
  <2>1. CASE t = s
    BY <2>1 DEF PaidInv, WaitsForItsWave
  <2>2. CASE t # s
    BY <2>2 DEF PaidInv, ShotType, PaysPerAttempt, WaitsForItsWave
  <2>3. QED
    BY <2>1, <2>2
<1>3. QED
  BY <1>1, <1>2 DEF PaidInv

LEMMA BetterIsAClip ==
  ASSUME NEW q \in Qualities, NEW best \in Qualities \cup {NoClip}
  PROVE  Better(q, best) \in Qualities /\ Better(q, best) # NoClip
  BY DEF Better, Qualities, NoClip

\* After the clip of an attempt was judged.
LEMMA PaidJudge ==
  ASSUME PaidInv, NEW s \in Shots, NEW q \in Qualities, Judge(s, q), UNCHANGED board,
         shot[s].pc \in {"video", "judging"},
         NEW n \in Nat, paid' = [paid EXCEPT ![s] = n], n <= shot[s].attempt + 1
  PROVE  PaidInv'
<1> DEFINE best == Better(q, shot[s].best)
<1>1. /\ shot[s] \in ShotRecord /\ shot \in [Shots -> ShotRecord]
      /\ paid \in [Shots -> Nat]
  BY DEF PaidInv, ShotType
<1>2. best \in Qualities /\ best # NoClip
  BY <1>1, BetterIsAClip DEF ShotRecord
<1> HIDE DEF best
<1>3. CASE End(s, "done", best)
  <2> DEFINE r == [shot[s] EXCEPT !.pc = "done", !.best = best]
  <2>1. r \in ShotRecord /\ r.pc = "done" /\ shot' = [shot EXCEPT ![s] = r]
    BY <1>1, <1>2, <1>3 DEF End, ShotRecord, Settled
  <2> HIDE DEF r
  <2>2. n <= 2
    BY <1>1 DEF ShotRecord
  <2>3. PaysPerAttempt(s)'
    BY <1>1, <2>1, <2>2 DEF PaysPerAttempt
  <2>4. QED
    BY <2>1, <2>3, PaidOneShot
<1>4. CASE shot[s].attempt # 1 /\ SecondAttempt(s, best)
  <2> DEFINE r == [pc |-> "video", attempt |-> 1, best |-> best]
  <2>1. r \in ShotRecord /\ shot' = [shot EXCEPT ![s] = r] /\ n <= 1
    BY <1>1, <1>2, <1>4 DEF SecondAttempt, ShotRecord
  <2>2. PaysPerAttempt(s)'
    BY <1>1, <1>2, <2>1 DEF PaysPerAttempt
  <2>3. QED
    BY <2>1, <2>2, PaidOneShot
<1>5. QED
  BY <1>3, <1>4 DEF Judge, best

LEMMA PaidShot ==
  ASSUME PaidInv, NEW s \in Shots, ShotStep(s)
  PROVE  PaidInv'
<1>1. /\ shot[s] \in ShotRecord /\ shot \in [Shots -> ShotRecord]
      /\ paid \in [Shots -> Nat] /\ PaysPerAttempt(s) /\ paid[s] \in Nat
      /\ shot[s].attempt \in {0, 1}
  BY DEF PaidInv, ShotType, ShotRecord
<1>2. paid = [paid EXCEPT ![s] = paid[s]]
  BY <1>1
<1>3. CASE ClipArrives(s)
  <2>1. /\ paid' = [paid EXCEPT ![s] = paid[s] + 1] /\ UNCHANGED board
        /\ shot[s].pc = "video"
        /\ paid[s] + 1 \in Nat /\ paid[s] + 1 <= shot[s].attempt + 1
    BY <1>1, <1>3 DEF ClipArrives, PaysPerAttempt
  <2>2. CASE \E q \in Qualities : Judge(s, q)
    BY <1>1, <2>1, <2>2, PaidJudge
  <2>3. CASE shot' = [shot EXCEPT ![s].pc = "judging"]
    <3> DEFINE r == [shot[s] EXCEPT !.pc = "judging"]
    <3>1. /\ r \in ShotRecord /\ shot' = [shot EXCEPT ![s] = r]
          /\ r.pc = "judging" /\ r.attempt = shot[s].attempt
      BY <1>1, <2>3 DEF ShotRecord
    <3> HIDE DEF r
    <3>2. PaysPerAttempt(s)'
      BY <1>1, <2>1, <3>1 DEF PaysPerAttempt
    <3>3. QED
      BY <1>1, <2>1, <3>1, <3>2, PaidOneShot
  <2>4. QED
    BY <1>3, <2>2, <2>3 DEF ClipArrives
<1>4. CASE AnalysisEnds(s)
  <2>1. /\ UNCHANGED <<board, paid>> /\ shot[s].pc = "judging"
        /\ paid[s] <= shot[s].attempt + 1
    BY <1>1, <1>4 DEF AnalysisEnds, PaysPerAttempt
  <2>2. \E q \in Qualities : Judge(s, q)
    BY <1>4 DEF AnalysisEnds, Unusable, Qualities
  <2>3. QED
    BY <1>1, <1>2, <2>1, <2>2, PaidJudge
<1>5. ASSUME NEW pc \in {"quota", "done", "failed"}, NEW best \in Qualities \cup {NoClip},
             End(s, pc, best), UNCHANGED <<board, paid>>, shot[s].pc = "video",
             pc = "failed" => paid[s] = 0
      PROVE  PaidInv'
  <2> DEFINE r == [shot[s] EXCEPT !.pc = pc, !.best = best]
  <2>1. r \in ShotRecord /\ r.pc = pc /\ shot' = [shot EXCEPT ![s] = r]
    BY <1>1, <1>5 DEF End, ShotRecord, Settled
  <2> HIDE DEF r
  <2>2. PaysPerAttempt(s)'
    BY <1>1, <1>5, <2>1 DEF PaysPerAttempt
  <2>3. QED
    BY <1>1, <1>2, <1>5, <2>1, <2>2, PaidOneShot
<1>6. CASE QuotaReached(s)
  BY <1>1, <1>5, <1>6 DEF QuotaReached, ShotRecord
<1>7. CASE VideoFails(s)
  <2>1. UNCHANGED <<board, paid>> /\ shot[s].pc = "video"
    BY <1>7 DEF VideoFails
  <2>2. CASE shot[s].best # NoClip
    BY <1>1, <1>5, <1>7, <2>1, <2>2 DEF VideoFails, AfterError, ShotRecord
  <2>3. CASE shot[s].best = NoClip
    <3>1. paid[s] = 0
      BY <1>1, <2>1, <2>3 DEF PaysPerAttempt
    <3>2. CASE SecondAttempt(s, NoClip)
      <4> DEFINE r == [pc |-> "video", attempt |-> 1, best |-> NoClip]
      <4>1. r \in ShotRecord /\ shot' = [shot EXCEPT ![s] = r]
        BY <3>2 DEF SecondAttempt, ShotRecord
      <4>2. PaysPerAttempt(s)'
        BY <1>1, <2>1, <3>1, <4>1 DEF PaysPerAttempt
      <4>3. QED
        BY <1>1, <1>2, <2>1, <4>1, <4>2, PaidOneShot
    <3>3. CASE End(s, "failed", NoClip)
      BY <1>5, <2>1, <3>1, <3>3
    <3>4. QED
      BY <1>7, <2>3, <3>2, <3>3 DEF VideoFails, AfterError
  <2>4. QED
    BY <2>2, <2>3
<1>8. QED
  BY <1>3, <1>4, <1>6, <1>7 DEF ShotStep

LEMMA PaidCrash ==
  ASSUME PaidInv, Crash
  PROVE  PaidInv'
<1>1. /\ board' = [k \in Campaigns |->
                    IF board[k].pc \in {"delivered", "threw"} THEN board[k]
                    ELSE [board[k] EXCEPT !.pc = "idle"]]
      /\ UNCHANGED paid
  BY DEF Crash
<1>2. board' \in [Campaigns -> BoardRecord]
  BY <1>1 DEF PaidInv, ShotType, BoardRecord
<1>3. \A k \in Campaigns : board'[k].pc \in {"idle", "delivered", "threw"}
  BY <1>1 DEF PaidInv, ShotType, BoardRecord
<1>4. ShotType'
  BY <1>1, <1>2, NewShotType DEF Crash, PaidInv, ShotType
<1>5. ASSUME NEW s \in Shots
      PROVE  PaysPerAttempt(s)' /\ WaitsForItsWave(s)'
  <2>1. WaitsForItsWave(s)'
    BY <1>3, StoryboardConstants DEF WaitsForItsWave
  <2>2. PaysPerAttempt(s)'
    BY <1>1 DEF Crash, PaidInv, PaysPerAttempt, NewShot
  <2>3. QED
    BY <2>1, <2>2
<1>6. QED
  BY <1>4, <1>5 DEF PaidInv

LEMMA PaidStep == TypeInv /\ PaidInv /\ [Next]_vars => PaidInv'
<1>1. ASSUME PaidInv, UNCHANGED storyboardVars
      PROVE  PaidInv'
  BY <1>1
  DEF storyboardVars, PaidInv, ShotType, PaysPerAttempt, WaitsForItsWave
<1>2. QED
  BY <1>1, PaidBoard, PaidShot, PaidCrash DEF Next, GatewayStep, vars

\* Second attempts, recoveries, failed analyses and runs of the job add up to no more
\* than two clips paid for a shot in a run.
THEOREM TwoClipsTheorem == Spec => []TwoClipsPerShot
<1>1. Init => TypeInv /\ PaidInv
  BY TypeInit, PaidInit DEF Init
<1>2. TypeInv /\ PaidInv /\ [Next]_vars => TypeInv' /\ PaidInv'
  BY TypeStep, GatewayStepOrStutter, PaidStep
<1>3. PaidInv => TwoClipsPerShot
  BY DEF PaidInv, PaysPerAttempt, TwoClipsPerShot
<1>4. QED
  BY <1>1, <1>2, <1>3, PTL DEF Spec

-----------------------------------------------------------------------------
(* What becomes of the clips.                                              *)

\* A shot that has a clip, and is neither in progress nor done, met the quota; only the
\* shots of the current wave are in progress.
KeepsItsClip(s) ==
  LET b == board[CampaignOf[s]] IN
  /\ shot[s].pc \in {"waiting", "failed"} => shot[s].best = NoClip
  /\ shot[s].pc \in {"video", "judging"} =>
       b.pc \in {"wave", "recovery"} /\ WaveOf[s] = b.wave
  /\ shot[s].pc = "quota" /\ b.pc \in {"next", "wave", "recovery"} => call[s].pc = "noVideo"

LostInv == \A s \in Shots : KeepsItsClip(s)

LEMMA LostInit == Init => LostInv
  BY StoryboardConstants DEF Init, LostInv, KeepsItsClip, NewShot

LEMMA ClipKept ==
  ASSUME NEW s \in Shots, KeepsItsClip(s), shot'[s] = shot[s], call'[s] = call[s],
         board'[CampaignOf[s]] = board[CampaignOf[s]]
  PROVE  KeepsItsClip(s)'
  BY DEF KeepsItsClip

LEMMA LostLaunch ==
  ASSUME PaidInv, LostInv, NEW k \in Campaigns, NEW S \in SUBSET ShotsOf(k), Launch(S),
         \A s \in S : WaveOf[s] = board[k].wave,
         NEW b \in BoardRecord, board' = [board EXCEPT ![k] = b],
         b.pc \in {"wave", "recovery"}, b.wave = board[k].wave,
         board[k].pc \in {"next", "wave"}
  PROVE  LostInv'
<1>1. /\ S \subseteq Shots /\ board \in [Campaigns -> BoardRecord]
      /\ shot' = [s \in Shots |-> IF s \in S THEN NewShot("video") ELSE shot[s]]
  BY DEF Launch, ShotsOf, PaidInv, ShotType
<1>2. \A s \in Shots \ S : call'[s] = call[s]
  BY StoryboardConstants DEF Launch, Begin
<1>3. ASSUME NEW s \in Shots
      PROVE  KeepsItsClip(s)'
  <2>1. CampaignOf[s] \in Campaigns /\ KeepsItsClip(s)
    BY StoryboardConstants DEF LostInv
  <2>2. CASE s \in S
    <3>1. board'[CampaignOf[s]] = b
      BY <1>1, <2>2 DEF ShotsOf
    <3>2. shot'[s].pc = "video"
      BY <1>1, <2>2 DEF NewShot
    <3> QED BY <2>2, <3>1, <3>2 DEF KeepsItsClip
  <2>3. CASE s \notin S /\ CampaignOf[s] = k
    <3>1. board'[CampaignOf[s]] = b /\ shot'[s] = shot[s] /\ call'[s] = call[s]
      BY <1>1, <1>2, <2>1, <2>3
    <3> QED BY <2>1, <2>3, <3>1 DEF KeepsItsClip
  <2>4. CASE s \notin S /\ CampaignOf[s] # k
    <3>1. /\ board'[CampaignOf[s]] = board[CampaignOf[s]]
          /\ shot'[s] = shot[s] /\ call'[s] = call[s]
      BY <1>1, <1>2, <2>1, <2>4
    <3> QED BY <2>1, <3>1, ClipKept
  <2> QED BY <2>2, <2>3, <2>4
<1> QED BY <1>3 DEF LostInv

LEMMA LostBoard ==
  ASSUME TypeInv, PaidInv, LostInv, NEW k \in Campaigns, BoardStep(k) \/ RunAgain(k)
  PROVE  LostInv'
<1>1. /\ board[k] \in BoardRecord /\ board \in [Campaigns -> BoardRecord]
      /\ \A s \in Shots : KeepsItsClip(s) /\ CampaignOf[s] \in Campaigns
      /\ shot \in [Shots -> ShotRecord]
  BY StoryboardConstants DEF PaidInv, ShotType, LostInv
<1>2. ASSUME NEW b \in BoardRecord, board' = [board EXCEPT ![k] = b],
             UNCHANGED <<shot, call>>,
             \/ b.pc \in {"idle", "delivered", "threw"} /\ board[k].pc \in {"next", "threw"}
             \/ b.pc = board[k].pc /\ b.wave = board[k].wave
             \/ board[k].pc \in {"wave", "recovery"} /\ b.pc = "next" /\ WaveSettled(k)
      PROVE  LostInv'
  <2>1. ASSUME NEW s \in Shots
        PROVE  KeepsItsClip(s)'
    <3>1. CASE CampaignOf[s] = k
      <4>1. board'[CampaignOf[s]] = b /\ KeepsItsClip(s) /\ board[CampaignOf[s]] = board[k]
        BY <1>1, <1>2, <3>1
      <4>2. WaveSettled(k) /\ WaveOf[s] = board[k].wave => shot[s].pc \in {"waiting"} \cup Settled
        BY <3>1 DEF WaveSettled, WaveShots, ShotsOf
      <4> QED BY <1>2, <4>1, <4>2 DEF KeepsItsClip, Settled
    <3>2. CASE CampaignOf[s] # k
      <4>1. board'[CampaignOf[s]] = board[CampaignOf[s]]
        BY <1>1, <1>2, <3>2
      <4> QED BY <1>1, <1>2, <4>1, ClipKept
    <3> QED BY <3>1, <3>2
  <2> QED BY <2>1 DEF LostInv
<1>3. CASE ReadSlots(k)
  <2>1. ASSUME NEW s \in Shots
        PROVE  KeepsItsClip(s)'
    <3>1. call' = call
      BY <1>3 DEF ReadSlots, gatewayVars
    <3>2. CASE CampaignOf[s] = k
      <4>1. shot'[s] = NewShot("waiting")
        BY <1>3, <3>2 DEF ReadSlots, ShotsOf
      <4> QED BY <4>1 DEF KeepsItsClip, NewShot
    <3>3. CASE CampaignOf[s] # k
      <4>1. shot'[s] = shot[s] /\ board'[CampaignOf[s]] = board[CampaignOf[s]]
        BY <1>1, <1>3, <3>3 DEF ReadSlots, ShotsOf
      <4> QED BY <1>1, <3>1, <4>1, ClipKept
    <3> QED BY <3>2, <3>3
  <2> QED BY <2>1 DEF LostInv
<1>4. CASE LaunchWave(k)
  <2>1. PICK b : b = [board[k] EXCEPT !.pc = "wave"]
    OBVIOUS
  <2>2. /\ b \in BoardRecord /\ b.pc = "wave" /\ b.wave = board[k].wave
        /\ board' = [board EXCEPT ![k] = b]
    BY <1>1, <1>4, <2>1 DEF LaunchWave, BoardRecord
  <2>3. ToLaunch(k) \in SUBSET ShotsOf(k) /\ \A s \in ToLaunch(k) : WaveOf[s] = board[k].wave
    BY DEF ToLaunch
  <2> QED BY <1>4, <2>2, <2>3, LostLaunch DEF LaunchWave
<1>5. CASE Recover(k)
  <2>1. PICK q \in BOOLEAN :
          board' = [board EXCEPT ![k].pc = "recovery", ![k].fatal = TRUE, ![k].quota = q]
    BY <1>1, <1>5 DEF Recover, BoardRecord
  <2>2. PICK b : b = [board[k] EXCEPT !.pc = "recovery", !.fatal = TRUE, !.quota = q]
    OBVIOUS
  <2>3. /\ b \in BoardRecord /\ b.pc = "recovery" /\ b.wave = board[k].wave
        /\ board' = [board EXCEPT ![k] = b]
    BY <1>1, <2>1, <2>2 DEF BoardRecord
  <2>4. /\ FailedShots(k) \in SUBSET ShotsOf(k)
        /\ \A s \in FailedShots(k) : WaveOf[s] = board[k].wave
    BY DEF FailedShots, WaveShots
  <2> QED BY <1>5, <2>3, <2>4, LostLaunch DEF Recover
<1>6. CASE NoSlotLeft(k)
  <2>1. PICK b : b = [board[k] EXCEPT !.quota = TRUE]
    OBVIOUS
  <2>2. /\ b \in BoardRecord /\ b.pc = board[k].pc /\ b.wave = board[k].wave
        /\ board' = [board EXCEPT ![k] = b]
    BY <1>1, <1>6, <2>1 DEF NoSlotLeft, BoardRecord
  <2> QED BY <1>2, <1>6, <2>2 DEF NoSlotLeft, gatewayVars
<1>7. CASE Throw(k) \/ Deliver(k) \/ RunAgain(k)
  <2>1. PICK pc \in {"idle", "delivered", "threw"} : board' = [board EXCEPT ![k].pc = pc]
    BY <1>7 DEF Throw, Deliver, RunAgain
  <2>2. PICK b : b = [board[k] EXCEPT !.pc = pc]
    OBVIOUS
  <2>3. b \in BoardRecord /\ b.pc = pc /\ board' = [board EXCEPT ![k] = b]
    BY <1>1, <2>1, <2>2 DEF BoardRecord
  <2>4. board[k].pc \in {"next", "threw"} /\ UNCHANGED <<shot, call>>
    BY <1>7 DEF Throw, Deliver, RunAgain, WavesOver, gatewayVars
  <2> QED BY <1>2, <2>3, <2>4
<1>8. CASE EndWave(k)
  <2>1. PICK n \in Nat, q \in BOOLEAN :
          board' = [board EXCEPT ![k].pc = "next", ![k].wave = @ + 1, ![k].slots = @ - n,
                                 ![k].quota = q]
    <3>1. Cardinality({s \in WaveShots(k) : shot[s].pc = "done"}) \in Nat
      BY CallersAreCounted, StoryboardConstants DEF WaveShots, ShotsOf
    <3> QED BY <1>1, <1>8, <3>1 DEF EndWave, BoardRecord
  <2>2. PICK b : b = [board[k] EXCEPT !.pc = "next", !.wave = @ + 1, !.slots = @ - n, !.quota = q]
    OBVIOUS
  <2>3. b \in BoardRecord /\ b.pc = "next" /\ board' = [board EXCEPT ![k] = b]
    BY <1>1, <2>1, <2>2 DEF BoardRecord
  <2>4. board[k].pc \in {"wave", "recovery"} /\ WaveSettled(k) /\ UNCHANGED <<shot, call>>
    BY <1>8 DEF EndWave, gatewayVars
  <2> QED BY <1>2, <2>3, <2>4
<1> QED BY <1>3, <1>4, <1>5, <1>6, <1>7, <1>8 DEF BoardStep

\* A step of one shot.
LEMMA LostOneShot ==
  ASSUME PaidInv, LostInv, NEW s \in Shots, UNCHANGED board, NEW x, shot' = [shot EXCEPT ![s] = x],
         \A t \in Shots : t # s => call'[t] = call[t],
         KeepsItsClip(s)'
  PROVE  LostInv'
<1>1. \A t \in Shots : t # s => shot'[t] = shot[t]
  BY DEF PaidInv, ShotType
<1> QED BY <1>1, ClipKept DEF LostInv

LEMMA LostShot ==
  ASSUME PaidInv, LostInv, NEW s \in Shots, ShotStep(s)
  PROVE  LostInv'
<1>1. /\ shot[s] \in ShotRecord /\ shot \in [Shots -> ShotRecord] /\ KeepsItsClip(s)
      /\ shot[s].pc \in {"video", "judging"} /\ UNCHANGED board
  BY DEF PaidInv, ShotType, LostInv, ShotStep, ClipArrives, AnalysisEnds, QuotaReached, VideoFails
<1>2. ASSUME NEW x, shot' = [shot EXCEPT ![s] = x], \A t \in Shots : t # s => call'[t] = call[t],
             \/ x.pc \in {"video", "judging", "done"}
             \/ x.pc = "failed" /\ x.best = NoClip
             \/ x.pc = "quota" /\ call'[s].pc = "noVideo"
      PROVE  LostInv'
  <2>1. shot'[s] = x
    BY <1>1, <1>2
  <2>2. KeepsItsClip(s)'
    BY <1>1, <1>2, <2>1 DEF KeepsItsClip
  <2> QED BY <1>1, <1>2, <2>2, LostOneShot
<1>3. ASSUME NEW task, Begin({s}, task)
      PROVE  \A t \in Shots : t # s => call'[t] = call[t]
  BY <1>3, StoryboardConstants DEF Begin
<1>4. ASSUME NEW pc, NEW best, End(s, pc, best),
             \/ pc = "done" \/ (pc = "failed" /\ best = NoClip)
             \/ (pc = "quota" /\ call[s].pc = "noVideo")
      PROVE  LostInv'
  <2>1. PICK x : x = [shot[s] EXCEPT !.pc = pc, !.best = best]
    OBVIOUS
  <2>2. x.pc = pc /\ x.best = best /\ shot' = [shot EXCEPT ![s] = x]
    BY <1>1, <1>4, <2>1 DEF End, ShotRecord
  <2>3. call' = call
    BY <1>4 DEF End, gatewayVars
  <2> QED BY <1>2, <1>4, <2>2, <2>3
<1>5. ASSUME NEW best, SecondAttempt(s, best)
      PROVE  LostInv'
  <2>1. PICK x : x = [pc |-> "video", attempt |-> 1, best |-> best]
    OBVIOUS
  <2> QED BY <1>2, <1>3, <1>5, <2>1 DEF SecondAttempt
<1>6. ASSUME NEW q, Judge(s, q)
      PROVE  LostInv'
  BY <1>4, <1>5, <1>6 DEF Judge
<1>7. CASE ClipArrives(s)
  <2>1. CASE Start({s}, "analyzeImage") /\ shot' = [shot EXCEPT ![s].pc = "judging"]
    <3>1. PICK x : x = [shot[s] EXCEPT !.pc = "judging"]
      OBVIOUS
    <3>2. x.pc = "judging" /\ shot' = [shot EXCEPT ![s] = x]
      BY <1>1, <2>1, <3>1 DEF ShotRecord
    <3> QED BY <1>2, <1>3, <2>1, <3>2 DEF Start
  <2> QED BY <1>6, <1>7, <2>1 DEF ClipArrives
<1>8. CASE AnalysisEnds(s)
  BY <1>6, <1>8 DEF AnalysisEnds
<1>9. CASE QuotaReached(s)
  BY <1>4, <1>9 DEF QuotaReached
<1>10. CASE VideoFails(s)
  BY <1>4, <1>5, <1>10 DEF VideoFails, AfterError
<1> QED BY <1>7, <1>8, <1>9, <1>10 DEF ShotStep

LEMMA LostGateway ==
  ASSUME TypeInv, LostInv, NEW c \in Callers, GatewayStep(c)
  PROVE  LostInv'
<1>1. call[c].pc # "noVideo"
  BY DEF GatewayStep, CallStep, AssertCredits, OpenGeneration, ProviderAnswers, ProviderFails,
         MarkSucceeded, ReadBalance, WriteBalance, MarkFailed, QueryThrows
<1>2. \A s \in Shots : s # c => call'[s] = call[s]
  <2>1. PICK x : Update(c, x)
    BY CallStepUpdates DEF GatewayStep
  <2> QED BY <2>1, StoryboardConstants DEF Update, TypeInv, GatewayTypeOK
<1>3. UNCHANGED <<board, shot>>
  BY DEF GatewayStep, storyboardVars
<1> QED BY <1>1, <1>2, <1>3 DEF LostInv, KeepsItsClip

LEMMA LostCrash ==
  ASSUME PaidInv, LostInv, Crash
  PROVE  LostInv'
<1>1. \A k \in Campaigns : board'[k].pc = "idle" \/ (board[k].pc \in {"delivered", "threw"} /\ board'[k] = board[k])
  BY DEF Crash, PaidInv, ShotType, BoardRecord
<1>2. ASSUME NEW s \in Shots
      PROVE  KeepsItsClip(s)'
  <2>1. CampaignOf[s] \in Campaigns /\ KeepsItsClip(s)
    BY StoryboardConstants DEF LostInv
  <2>2. CASE board'[CampaignOf[s]].pc = "idle"
    <3>1. shot'[s] = NewShot("waiting")
      BY <2>2 DEF Crash
    <3> QED BY <3>1 DEF KeepsItsClip, NewShot
  <2>3. CASE board'[CampaignOf[s]].pc # "idle"
    <3>1. shot'[s] = shot[s]
      BY <2>3 DEF Crash
    <3> QED BY <1>1, <2>1, <2>3, <3>1 DEF KeepsItsClip
  <2> QED BY <2>2, <2>3
<1> QED BY <1>2 DEF LostInv

LEMMA LostStep == TypeInv /\ PaidInv /\ LostInv /\ [Next]_vars => LostInv'
<1>1. ASSUME LostInv, UNCHANGED vars
      PROVE  LostInv'
  BY <1>1 DEF vars, gatewayVars, storyboardVars, LostInv, KeepsItsClip
<1> QED BY <1>1, LostBoard, LostShot, LostGateway, LostCrash DEF Next

\* Once the waves are over, whatever clips failed, were retried, recovered or judged, a shot
\* that got a clip is in the video, unless its second attempt met the quota.
THEOREM ClipsLostTheorem == Spec => []ClipsLostOnlyToQuota
<1>1. Init => TypeInv /\ PaidInv /\ LostInv
  BY TypeInit, PaidInit, LostInit DEF Init
<1>2. TypeInv /\ PaidInv /\ LostInv /\ [Next]_vars => TypeInv' /\ PaidInv' /\ LostInv'
  BY TypeStep, GatewayStepOrStutter, PaidStep, LostStep
<1>3. PaidInv /\ LostInv => ClipsLostOnlyToQuota
  <2>1. ASSUME PaidInv, LostInv, NEW k \in Campaigns, WavesOver(k), NEW s \in Discarded(k)
        PROVE  call[s].pc = "noVideo"
    <3>1. /\ s \in Shots /\ CampaignOf[s] = k /\ shot[s].best # NoClip /\ shot[s].pc # "done"
          /\ board[k].pc = "next" /\ KeepsItsClip(s)
      BY <2>1 DEF Discarded, Clips, ShotsOf, WavesOver, LostInv
    <3>2. shot[s].pc \in {"waiting", "video", "judging"} \cup Settled
      BY <2>1, <3>1 DEF PaidInv, ShotType, ShotRecord
    <3> QED BY <3>1, <3>2 DEF KeepsItsClip, Settled
  <2> QED BY <2>1 DEF ClipsLostOnlyToQuota
<1> QED BY <1>1, <1>2, <1>3, PTL DEF Spec
=============================================================================
