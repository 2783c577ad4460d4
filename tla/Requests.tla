------------------------------- MODULE Requests --------------------------------
(* The requests that are served at the same time: HTTP calls and the runs of the  *)
(* crons.  A handler is a sequence of awaited calls, and others run between them; *)
(* what it has read before is in its locals.                                      *)
EXTENDS Integers, FiniteSets, Sequences

CONSTANTS
  MaxRequests,   \* bound: how many there are
  Desks          \* the component each request may be for: a set of [Requests -> STRING]

ASSUME RequestsAssumption == MaxRequests \in Nat

\* The requests, in the order in which they arrive.
Requests == 1..MaxRequests

VARIABLES
  desk,   \* the component that each request of this behaviour is for
  req,    \* what each request does, where it is, and what it has read
  met     \* the pairs of requests that were served at the same time (history)

requestVars == <<desk, req, met>>

\* account, user, value and level are arguments of the handlers, seen and limit are what
\* they have read.
NewRequest == [pc |-> "new", op |-> "none", account |-> "none", user |-> "none",
               value |-> "none", level |-> 0, seen |-> 0, limit |-> 0]

RequestsInit ==
  /\ desk \in Desks
  /\ req = [r \in Requests |-> NewRequest]
  /\ met = {}

\* A handler is done, or it threw (noSeat: for want of a seat).
Over == {"done", "refused", "noSeat"}
InFlight == {r \in Requests : req[r].pc \notin {"new"} \cup Over}
Doing(r, op, pc) == req[r].op = op /\ req[r].pc = pc
Done(r, op) == Doing(r, op, "done")

\* What a handler had read is gone with it.
Left(request) ==
  IF request.pc \notin {"done", "refused"} THEN request
  ELSE [NewRequest EXCEPT !.pc = request.pc, !.op = request.op,
                            !.account = request.account]

\* Request r arrives, and is for this component.
Arrives(r, component) ==
  /\ req[r].pc = "new" /\ desk[r] = component
  /\ \A s \in 1..(r - 1) : req[s].pc # "new"

\* A handler is called, and is the request from now on.
Call(r, request) ==
  /\ req' = [req EXCEPT ![r] = Left(request)]
  /\ met' = met \cup {{r, s} : s \in InFlight}
  /\ UNCHANGED desk

\* The handler goes on.
Becomes(r, request) ==
  /\ req' = [req EXCEPT ![r] = Left(request)]
  /\ UNCHANGED <<desk, met>>

Goto(r, pc) == Becomes(r, [req[r] EXCEPT !.pc = pc])

Met(r, s) == r # s /\ {r, s} \in met
================================================================================
