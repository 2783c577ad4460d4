---------------------------- MODULE CreditAccount ----------------------------
(***************************************************************************)
(* What the AI gateway promises of an organization's credits, whatever     *)
(* columns hold them: one balance; a call is let in only while the balance *)
(* is positive, and pays at most once, for a call that was let in.         *)
(***************************************************************************)
EXTENDS Integers

CONSTANTS Callers, MaxCost

VARIABLES
  balance,  \* what is left of the plan's quota and of the packs
  open      \* the callers that were let in and have neither paid nor given up

vars == <<balance, open>>

Init == balance \in Nat /\ open = {}

LetIn(c) ==
  /\ c \notin open
  /\ balance > 0
  /\ open' = open \cup {c}
  /\ UNCHANGED balance

Pay(c, n) ==
  /\ c \in open
  /\ balance' = balance - n
  /\ open' = open \ {c}

\* Calls that fail, or whose process dies, leave without paying.
Leave(C) == open' = open \ C /\ UNCHANGED balance

\* A pack, or the quota of a new billing cycle.
Deposit == balance' \in Int /\ balance' >= balance /\ UNCHANGED open

Next ==
  \/ \E c \in Callers : LetIn(c) \/ \E n \in 0..MaxCost : Pay(c, n)
  \/ \E C \in SUBSET Callers : Leave(C)
  \/ Deposit

Spec == Init /\ [][Next]_vars
=============================================================================
