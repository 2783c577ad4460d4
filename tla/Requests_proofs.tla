--------------------------- MODULE Requests_proofs ---------------------------
(* What every step of a request keeps, whatever it does: the theorems about the   *)
(* workspace and about the knowledge of an organization rest on it.               *)
EXTENDS Requests, TLAPS

\* A request keeps the fields it began with.
IsRequest(x) ==
  x = [pc |-> x.pc, op |-> x.op, account |-> x.account, user |-> x.user,
       value |-> x.value, level |-> x.level, seen |-> x.seen, limit |-> x.limit]

RequestsInv ==
  /\ req = [r \in Requests |-> req[r]]
  /\ \A r \in Requests : IsRequest(req[r])
  /\ \A r \in Requests : req[r].pc = "new" => req[r].op = "none"
  /\ \A r \in Requests, s \in Requests : s < r /\ req[s].pc = "new" => req[r].pc = "new"
  /\ \A r, s \in InFlight : r # s => {r, s} \in met

-----------------------------------------------------------------------------
(* A step of request r, which is new from then on.                          *)

Moves(r, new) ==
  /\ IsRequest(new) /\ new.pc # "new"
  /\ \/ /\ req[r].pc = "new" /\ Call(r, new)
        /\ \A s \in Requests : s < r => req[s].pc # "new"
     \/ req[r].pc \notin {"new"} \cup Over /\ Becomes(r, new) /\ new.op = req[r].op

LEMMA LeftIsRequest ==
  ASSUME NEW x, IsRequest(x)
  PROVE  /\ IsRequest(Left(x)) /\ Left(x).pc = x.pc /\ Left(x).op = x.op
         /\ x.pc \notin {"done", "refused"} => Left(x) = x
  BY DEF IsRequest, Left, NewRequest

LEMMA MovesRequest ==
  ASSUME RequestsInv, NEW r \in Requests, NEW new, Moves(r, new)
  PROVE  /\ RequestsInv'
         /\ req'[r] = Left(new) /\ req'[r].op = new.op /\ req'[r].pc = new.pc
         /\ \A s \in Requests : s # r => req'[s] = req[s]
         /\ met \subseteq met'
         /\ req[r].pc = "new" \/ (new.op = req[r].op /\ r \in InFlight)
<1>1. req' = [req EXCEPT ![r] = Left(new)]
  BY DEF Moves, Call, Becomes
<1>2. /\ IsRequest(Left(new)) /\ Left(new).pc = new.pc /\ Left(new).op = new.op
  BY LeftIsRequest DEF Moves
<1>3. /\ req'[r] = Left(new)
      /\ \A s \in Requests : s # r => req'[s] = req[s]
      /\ req' = [s \in Requests |-> req'[s]]
  BY <1>1 DEF RequestsInv
<1>4. met \subseteq met'
  BY DEF Moves, Call, Becomes
<1>5. \A s \in Requests : IsRequest(req'[s])
  BY <1>2, <1>3 DEF RequestsInv
<1>6. new.pc # "new"
  BY DEF Moves
<1>7. \A s \in Requests : req'[s].pc = "new" => req'[s].op = "none"
  BY <1>2, <1>3, <1>6 DEF RequestsInv
<1>8. ASSUME NEW s \in Requests, NEW t \in Requests, t < s, req'[t].pc = "new"
       PROVE  req'[s].pc = "new"
  <2>1. t # r /\ req[t].pc = "new" /\ req[s].pc = "new"
    BY <1>2, <1>3, <1>6, <1>8 DEF RequestsInv
  <2>2. s # r
    BY <1>8, <2>1 DEF Moves, Over
  <2> QED BY <1>3, <2>1, <2>2
<1>9. ASSUME NEW s \in InFlight', NEW t \in InFlight', s # t
      PROVE  {s, t} \in met'
  <2>1. CASE req[r].pc = "new"
    <3>1. met' = met \cup {{r, q} : q \in InFlight}
      BY <2>1, <1>6 DEF Moves, Call, Becomes
    <3>2. \A q \in InFlight' : q = r \/ q \in InFlight
      BY <1>3 DEF InFlight
    <3>3. {s, t} = {t, s}
      OBVIOUS
    <3> QED BY <1>9, <3>1, <3>2, <3>3 DEF RequestsInv
  <2>2. CASE req[r].pc # "new"
    <3>1. r \in InFlight
      BY <2>2 DEF Moves, InFlight
    <3>2. \A q \in InFlight' : q \in InFlight
      BY <1>3, <3>1 DEF InFlight
    <3> QED BY <1>4, <1>9, <3>2 DEF RequestsInv
  <2> QED BY <2>1, <2>2
<1>10. req[r].pc = "new" \/ (new.op = req[r].op /\ r \in InFlight)
  BY DEF Moves, InFlight
<1> QED BY <1>2, <1>3, <1>4, <1>5, <1>7, <1>8, <1>9, <1>10 DEF RequestsInv

\* A request that does one of these arrives or goes on.
Serves(r, ops) == \E new : Moves(r, new) /\ new.op \in ops

\* A request that arrives, and one that goes on.
Started(x, ops) == IsRequest(x) /\ x.pc # "new" /\ x.op \in ops

LEMMA InOrder ==
  ASSUME NEW r \in Requests, NEW d, Arrives(r, d)
  PROVE  req[r].pc = "new" /\ \A s \in Requests : s < r => req[s].pc # "new"
<1>1. \A s \in Requests : s < r => s \in 1..(r - 1)
  BY RequestsAssumption DEF Requests
<1> QED BY <1>1 DEF Arrives

LEMMA ArrivesServes ==
  ASSUME NEW r \in Requests, NEW d, Arrives(r, d), NEW new, Call(r, new),
         NEW ops, Started(new, ops)
  PROVE  Serves(r, ops)
  BY InOrder DEF Serves, Moves, Started

LEMMA BecomesServes ==
  ASSUME NEW r \in Requests, req[r].pc \notin {"new"} \cup Over, NEW new, Becomes(r, new),
         NEW ops, Started(new, ops), new.op = req[r].op
  PROVE  Serves(r, ops)
  BY DEF Serves, Moves, Started

LEMMA GotoMoves ==
  ASSUME RequestsInv, NEW r \in Requests, req[r].pc \notin {"new"} \cup Over,
         NEW pc, Goto(r, pc), pc # "new"
  PROVE  Moves(r, [req[r] EXCEPT !.pc = pc])
<1>1. IsRequest(req[r])
  BY DEF RequestsInv
<1>2. /\ IsRequest([req[r] EXCEPT !.pc = pc])
      /\ [req[r] EXCEPT !.pc = pc].pc = pc /\ [req[r] EXCEPT !.pc = pc].op = req[r].op
  BY <1>1 DEF IsRequest
<1> QED BY <1>2 DEF Moves, Goto

LEMMA GotoServes ==
  ASSUME RequestsInv, NEW r \in Requests, req[r].pc \notin {"new"} \cup Over,
         NEW ops, req[r].op \in ops, NEW pc, Goto(r, pc), pc # "new"
  PROVE  Serves(r, ops)
<1>1. Moves(r, [req[r] EXCEPT !.pc = pc])
  BY GotoMoves
<1>2. [req[r] EXCEPT !.pc = pc].op = req[r].op
  BY DEF RequestsInv, IsRequest
<1> QED BY <1>1, <1>2 DEF Serves

LEMMA ArrivesMoves ==
  ASSUME NEW r \in Requests, NEW d, Arrives(r, d), NEW new, Call(r, new),
         NEW ops, Started(new, ops)
  PROVE  Moves(r, new)
  BY InOrder DEF Moves, Started

\* The request that goes on is the one it was, but for where it is.
LEMMA GoesOn ==
  ASSUME RequestsInv, NEW r \in Requests, NEW pc, Goto(r, pc), pc # "new",
         req[r].pc \notin {"new"} \cup Over
  PROVE  \E new : /\ Moves(r, new) /\ new.pc = pc /\ new.op = req[r].op
                  /\ new.account = req[r].account /\ new.user = req[r].user
                  /\ new.value = req[r].value /\ new.level = req[r].level
                  /\ new.seen = req[r].seen /\ new.limit = req[r].limit
<1>1. Moves(r, [req[r] EXCEPT !.pc = pc])
  BY GotoMoves
<1>2. IsRequest(req[r])
  BY DEF RequestsInv
<1>3. LET new == [req[r] EXCEPT !.pc = pc]
      IN /\ new.pc = pc /\ new.op = req[r].op
         /\ new.account = req[r].account /\ new.user = req[r].user
         /\ new.value = req[r].value /\ new.level = req[r].level
         /\ new.seen = req[r].seen /\ new.limit = req[r].limit
  BY <1>2 DEF IsRequest
<1> QED BY <1>1, <1>3

LEMMA RequestsInitInv ==
  ASSUME RequestsInit
  PROVE  RequestsInv /\ \A r \in Requests : req[r].pc = "new" /\ req[r].op = "none"
<1>1. req = [r \in Requests |-> NewRequest]
  BY DEF RequestsInit
<1>2. IsRequest(NewRequest) /\ NewRequest.pc = "new" /\ NewRequest.op = "none"
  BY DEF IsRequest, NewRequest
<1> QED BY <1>1, <1>2 DEF RequestsInv, InFlight

\* What is no step of a request.
LEMMA RequestsRest ==
  ASSUME RequestsInv, UNCHANGED requestVars
  PROVE  RequestsInv'
  BY DEF RequestsInv, InFlight, requestVars
==============================================================================
