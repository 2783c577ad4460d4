--------------------------- MODULE Workspace_proofs ----------------------------
(* An organization keeps an owner, its team stays within the seats of its plan, the *)
(* row of its subscription follows Stripe, a publication is posted once, the        *)
(* rotation of the key loses no token, and no status of an account is written       *)
(* without reason, for every number of users, of accounts and of requests that are  *)
(* served at the same time, and whatever the other components do meanwhile.         *)
EXTENDS Workspace, Requests_proofs, FiniteSetTheorems, TLAPS

\* The two ways in which an organization may be left without an owner.
Exempt ==
  \/ \E r, s \in Requests : Met(r, s) /\ req[r].op \in Losing /\ req[s].op \in Losing
  \/ \E r \in Requests : Done(r, "deleteAccount")

\* What a change of a member has read still holds of the team when it is written.
Fits(x, team) ==
  x.op \in Losing /\ x.pc \in {"owners", "rank"} =>
    /\ x.user \in Users
    /\ x.pc = "owners" => x.seen = "OWNER"
    /\ x.pc = "rank" => IF x.seen = "OWNER"
                        THEN \E v \in Users : v # x.user /\ team[v] = "OWNER"
                        ELSE team[x.user] \notin {NoRole, "OWNER"}

OwnerInv ==
  /\ members = [u \in Users |-> members[u]]
  /\ RequestsInv
  /\ Exempt \/ (Owners # {} /\ \A r \in Requests : Fits(req[r], members))

-----------------------------------------------------------------------------
LEMMA MovesExempt ==
  ASSUME RequestsInv, NEW r \in Requests, NEW new, Moves(r, new), Exempt
  PROVE  Exempt'
<1>1. /\ met \subseteq met' /\ req'[r].op = new.op
      /\ \A s \in Requests : s # r => req'[s] = req[s]
      /\ req[r].pc = "new" \/ (new.op = req[r].op /\ r \in InFlight)
      /\ req[r].pc = "new" => req[r].op = "none"
  BY MovesRequest DEF RequestsInv
<1>2. CASE \E q, s \in Requests : Met(q, s) /\ req[q].op \in Losing /\ req[s].op \in Losing
  <2>1. PICK q, s \in Requests : Met(q, s) /\ req[q].op \in Losing /\ req[s].op \in Losing
    BY <1>2
  <2>2. \A t \in Requests : req[t].op \in Losing => req'[t].op \in Losing
    BY <1>1 DEF Losing
  <2>3. Met(q, s)'
    BY <1>1, <2>1 DEF Met
  <2> QED BY <2>1, <2>2, <2>3 DEF Exempt
<1>3. CASE \E q \in Requests : Done(q, "deleteAccount")
  <2>1. PICK q \in Requests : Done(q, "deleteAccount")
    BY <1>3
  <2>2. q # r
    BY <1>1, <2>1 DEF Done, Doing, InFlight, Over
  <2> QED BY <1>1, <2>1, <2>2 DEF Exempt, Done, Doing
<1> QED BY <1>2, <1>3 DEF Exempt

\* What the requests of each component do; Losing is what else the team does.
TeamOps == {"invite", "accept", "revoke", "resend", "deleteAccount"}
BillingOps == {"checkout", "changePlan", "cancelNow", "cancelAtEnd", "resume", "cancelTrial",
               "expireTrial", "administrate"}
SocialOps == {"callback", "disconnect", "use", "cron", "rotate"}
PlatformOps == {"publish"}

\* Requests that change no member leave the invariant alone.
LEMMA ServesInv ==
  ASSUME OwnerInv, NEW r \in Requests, NEW ops, Serves(r, ops), ops \cap Losing = {},
         UNCHANGED members
  PROVE  OwnerInv'
<1>1. PICK new : Moves(r, new) /\ new.op \notin Losing
  BY DEF Serves
<1>2. /\ RequestsInv' /\ req'[r].op = new.op
      /\ \A s \in Requests : s # r => req'[s] = req[s]
  BY <1>1, MovesRequest DEF OwnerInv
<1>3. Exempt => Exempt'
  BY <1>1, MovesExempt DEF OwnerInv
<1>4. (Owners # {})' = (Owners # {})
  BY DEF Owners
<1>5. ASSUME \A s \in Requests : Fits(req[s], members)
      PROVE  \A s \in Requests : Fits(req'[s], members')
  BY <1>1, <1>2, <1>5 DEF Fits
<1> QED BY <1>2, <1>3, <1>4, <1>5 DEF OwnerInv

LEMMA StillInv ==
  ASSUME OwnerInv, UNCHANGED <<members, requestVars>>
  PROVE  OwnerInv'
  BY DEF OwnerInv, RequestsInv, Exempt, Fits, Owners, InFlight, Met, Done, Doing, requestVars

-----------------------------------------------------------------------------
(* The changes of members.                                                  *)

LEMMA TwoOwners ==
  ASSUME NEW u, ~(Cardinality(Owners) <= 1)
  PROVE  \E v \in Users : v # u /\ members[v] = "OWNER"
<1> SUFFICES ASSUME Owners \subseteq {u} PROVE FALSE
  BY DEF Owners
<1>1. IsFiniteSet({u}) /\ Cardinality({u}) = 1
  BY FS_Singleton
<1>2. Cardinality(Owners) <= Cardinality({u})
  BY <1>1, FS_Subset
<1> QED BY <1>1, <1>2

\* What changeRole and removeMember read and are given.
ChangeOf(op, user, value, level, seen, pc) ==
  [NewRequest EXCEPT !.op = op, !.user = user, !.value = value, !.level = level,
                     !.seen = seen, !.pc = pc]

LEMMA ChangeRequest ==
  ASSUME NEW op, NEW user, NEW value, NEW level, NEW seen, NEW pc
  PROVE  LET x == ChangeOf(op, user, value, level, seen, pc)
         IN IsRequest(x) /\ x.pc = pc /\ x.op = op /\ x.user = user /\ x.seen = seen
<1>1. ASSUME NEW x, x = ChangeOf(op, user, value, level, seen, pc)
      PROVE  IsRequest(x) /\ x.pc = pc /\ x.op = op /\ x.user = user /\ x.seen = seen
  BY <1>1 DEF ChangeOf, NewRequest, IsRequest
<1> QED BY <1>1

LEMMA ChangeMemberMoves ==
  ASSUME NEW r \in Requests, ChangeMember(r)
  PROVE  \E u, new :
           /\ u \in Members
           /\ Moves(r, new) /\ new.op \in Losing /\ new.user = u /\ new.seen = members[u]
           /\ new.pc = IF members[u] = "OWNER" THEN "owners" ELSE "rank"
<1>1. PICK u \in Members, callerRole \in CallerRoles, op \in Losing :
        \E role \in (IF op = "changeRole" THEN Roles ELSE {"none"}) :
          Call(r, [NewRequest EXCEPT !.op = op, !.user = u, !.value = role,
                     !.level = RoleLevel(callerRole), !.seen = members[u],
                     !.pc = IF members[u] = "OWNER" THEN "owners" ELSE "rank"])
  BY DEF ChangeMember
<1>2. PICK role :
        Call(r, [NewRequest EXCEPT !.op = op, !.user = u, !.value = role,
                   !.level = RoleLevel(callerRole), !.seen = members[u],
                   !.pc = IF members[u] = "OWNER" THEN "owners" ELSE "rank"])
  BY <1>1
<1> DEFINE pc == IF members[u] = "OWNER" THEN "owners" ELSE "rank"
           new == ChangeOf(op, u, role, RoleLevel(callerRole), members[u], pc)
<1>3. Call(r, new)
  BY <1>2 DEF ChangeOf
<1>4. IsRequest(new) /\ new.pc = pc /\ new.op = op /\ new.user = u /\ new.seen = members[u]
  <2> HIDE DEF pc
  <2> QED BY ChangeRequest
<1>5. /\ pc # "new" /\ req[r].pc = "new"
      /\ \A s \in Requests : s < r => req[s].pc # "new"
  BY InOrder DEF ChangeMember
<1> HIDE DEF new
<1> QED BY <1>3, <1>4, <1>5 DEF Moves

LEMMA ChangeMemberInv ==
  ASSUME OwnerInv, NEW r \in Requests, ChangeMember(r)
  PROVE  OwnerInv'
<1>1. PICK u, new :
        /\ u \in Members
        /\ Moves(r, new) /\ new.op \in Losing /\ new.user = u /\ new.seen = members[u]
        /\ new.pc = IF members[u] = "OWNER" THEN "owners" ELSE "rank"
  BY ChangeMemberMoves
<1>2. /\ RequestsInv' /\ req'[r] = new
      /\ \A s \in Requests : s # r => req'[s] = req[s]
  BY <1>1, MovesRequest, LeftIsRequest DEF OwnerInv, Moves
<1>3. Exempt => Exempt'
  BY <1>1, MovesExempt DEF OwnerInv
<1>4. UNCHANGED members
  BY DEF ChangeMember, teamVars
<1>5. Fits(new, members)
  BY <1>1 DEF Fits, Members
<1>6. ASSUME \A s \in Requests : Fits(req[s], members)
      PROVE  \A s \in Requests : Fits(req'[s], members')
  BY <1>2, <1>4, <1>5, <1>6
<1> QED BY <1>2, <1>3, <1>4, <1>6 DEF OwnerInv, Owners

LEMMA NotLastOwnerInv ==
  ASSUME OwnerInv, NEW r \in Requests, NotLastOwner(r)
  PROVE  OwnerInv'
<1>1. /\ req[r].op \in Losing /\ req[r].pc = "owners" /\ UNCHANGED members
      /\ \E p \in {"refused", "rank"} :
           Goto(r, p) /\ (p = "rank" => ~(Cardinality(Owners) <= 1))
  BY DEF NotLastOwner, teamVars
<1>2. PICK pc \in {"refused", "rank"} :
        Goto(r, pc) /\ (pc = "rank" => ~(Cardinality(Owners) <= 1))
  BY <1>1
<1> DEFINE new == [req[r] EXCEPT !.pc = pc]
<1>3. /\ IsRequest(new) /\ new.pc = pc /\ new.op = req[r].op
      /\ new.user = req[r].user /\ new.seen = req[r].seen
  BY DEF OwnerInv, RequestsInv, IsRequest
<1>4. Moves(r, new)
  BY <1>1, <1>2, GotoMoves DEF Over, OwnerInv
<1> HIDE DEF new
<1>5. /\ RequestsInv' /\ req'[r].pc = pc /\ (pc = "rank" => req'[r] = new)
      /\ \A s \in Requests : s # r => req'[s] = req[s]
  BY <1>3, <1>4, MovesRequest, LeftIsRequest DEF OwnerInv
<1>6. Exempt => Exempt'
  BY <1>4, MovesExempt DEF OwnerInv
<1>7. ASSUME Fits(req[r], members)
      PROVE  Fits(req'[r], members)
  <2>1. CASE pc = "refused"
    BY <1>5, <2>1 DEF Fits
  <2>2. CASE pc = "rank"
    <3>1. req[r].user \in Users /\ req[r].seen = "OWNER"
      BY <1>1, <1>7 DEF Fits
    <3>2. \E v \in Users : v # req[r].user /\ members[v] = "OWNER"
      BY <1>2, <2>2, TwoOwners
    <3> QED BY <1>3, <1>5, <2>2, <3>1, <3>2 DEF Fits
  <2> QED BY <2>1, <2>2
<1>8. ASSUME \A s \in Requests : Fits(req[s], members)
      PROVE  \A s \in Requests : Fits(req'[s], members')
  BY <1>1, <1>5, <1>7, <1>8
<1>9. Owners' = Owners
  BY <1>1 DEF Owners
<1> QED BY <1>1, <1>5, <1>6, <1>8, <1>9 DEF OwnerInv

\* A second change that is under way when this one writes was served at the same time.
LEMMA WriteMemberInv ==
  ASSUME OwnerInv, NEW r \in Requests, WriteMember(r)
  PROVE  OwnerInv'
<1> DEFINE role == IF req[r].op = "changeRole" THEN req[r].value ELSE NoRole
<1>1. /\ req[r].op \in Losing /\ req[r].pc = "rank"
      /\ \/ Goto(r, "refused") /\ UNCHANGED members
         \/ Goto(r, "done") /\ members' = [members EXCEPT ![req[r].user] = role]
  BY DEF WriteMember
<1>2. PICK pc \in {"refused", "done"} : Goto(r, pc)
  BY <1>1
<1> DEFINE new == [req[r] EXCEPT !.pc = pc]
<1>3. new.pc = pc /\ new.op = req[r].op
  BY DEF OwnerInv, RequestsInv, IsRequest
<1>4. Moves(r, new)
  BY <1>1, <1>2, GotoMoves DEF Over, OwnerInv
<1>5. /\ RequestsInv' /\ req'[r].pc = pc /\ req'[r].op = req[r].op
      /\ \A s \in Requests : s # r => req'[s] = req[s]
      /\ met \subseteq met' /\ r \in InFlight
  <2> HIDE DEF new
  <2> QED BY <1>1, <1>3, <1>4, MovesRequest DEF OwnerInv
<1>6. members' = [u \in Users |-> members'[u]]
  BY <1>1 DEF OwnerInv
<1>7. CASE Exempt
  BY <1>4, <1>5, <1>6, <1>7, MovesExempt DEF OwnerInv
<1>8. CASE ~Exempt
  <2>1. Owners # {} /\ \A s \in Requests : Fits(req[s], members)
    BY <1>8 DEF OwnerInv
  <2>2. \A s \in Requests : s # r /\ req[s].op \in Losing => req[s].pc \notin {"owners", "rank"}
    <3> SUFFICES ASSUME NEW s \in Requests, s # r, req[s].op \in Losing,
                        req[s].pc \in {"owners", "rank"}
                 PROVE  FALSE
      OBVIOUS
    <3>1. s \in InFlight
      BY DEF InFlight, Over
    <3>2. Met(r, s)
      BY <1>5, <3>1 DEF OwnerInv, RequestsInv, Met
    <3> QED BY <1>1, <1>8, <3>2 DEF Exempt
  <2>3. \A s \in Requests : Fits(req'[s], members')
    BY <1>5, <2>2 DEF Fits
  <2>4. Owners' # {}
    <3>1. CASE UNCHANGED members
      BY <2>1, <3>1 DEF Owners
    <3>2. CASE members' = [members EXCEPT ![req[r].user] = role]
      <4>1. Fits(req[r], members)
        BY <2>1
      <4>2. \E v \in Users : v # req[r].user /\ members[v] = "OWNER"
        <5>1. CASE req[r].seen = "OWNER"
          BY <1>1, <4>1, <5>1 DEF Fits
        <5>2. CASE req[r].seen # "OWNER"
          BY <1>1, <2>1, <4>1, <5>2 DEF Fits, Owners
        <5> QED BY <5>1, <5>2
      <4>3. PICK v \in Users : v # req[r].user /\ members[v] = "OWNER"
        BY <4>2
      <4>4. members'[v] = "OWNER"
        BY <3>2, <4>3 DEF OwnerInv
      <4> QED BY <4>4 DEF Owners
    <3> QED BY <1>1, <3>1, <3>2
  <2> QED BY <1>5, <1>6, <2>3, <2>4 DEF OwnerInv
<1> QED BY <1>7, <1>8

LEMMA JoinInv ==
  ASSUME OwnerInv, NEW r \in Requests, Join(r)
  PROVE  OwnerInv'
<1>1. /\ req[r].op = "accept" /\ req[r].pc = "write"
      /\ \/ Goto(r, "refused") /\ UNCHANGED members
         \/ /\ req[r].user \notin Members
            /\ Goto(r, "done") /\ members' = [members EXCEPT ![req[r].user] = req[r].value]
  BY DEF Join, Doing
<1>2. PICK pc \in {"refused", "done"} : Goto(r, pc)
  BY <1>1
<1> DEFINE new == [req[r] EXCEPT !.pc = pc]
<1>3. new.pc = pc /\ new.op = "accept"
  BY <1>1 DEF OwnerInv, RequestsInv, IsRequest
<1>4. Moves(r, new)
  BY <1>1, <1>2, GotoMoves DEF Over, OwnerInv
<1>5. /\ RequestsInv' /\ req'[r].op = "accept"
      /\ \A s \in Requests : s # r => req'[s] = req[s]
  <2> HIDE DEF new
  <2> QED BY <1>3, <1>4, MovesRequest DEF OwnerInv
<1>6. members' = [u \in Users |-> members'[u]]
  BY <1>1 DEF OwnerInv
<1>7. \A v \in Users : members[v] # NoRole => members'[v] = members[v]
  BY <1>1 DEF OwnerInv, Members
<1>8. \A v \in Users : members[v] = "OWNER" => members'[v] = "OWNER"
  BY <1>7, TeamsAssumption DEF ROLE_HIERARCHY
<1>9. ASSUME NEW s \in Requests, Fits(req[s], members)
      PROVE  Fits(req'[s], members')
  <2>1. CASE s = r
    BY <1>5, <2>1 DEF Fits, Losing
  <2>2. CASE s # r
    BY <1>5, <1>7, <1>8, <1>9, <2>2 DEF Fits
  <2> QED BY <2>1, <2>2
<1>10. Owners # {} => Owners' # {}
  BY <1>8 DEF Owners
<1>11. Exempt => Exempt'
  BY <1>4, MovesExempt DEF OwnerInv
<1> QED BY <1>5, <1>6, <1>9, <1>10, <1>11 DEF OwnerInv

LEMMA LeaveOrganizationInv ==
  ASSUME OwnerInv, NEW r \in Requests, LeaveOrganization(r)
  PROVE  OwnerInv'
<1>1. /\ req[r].op = "deleteAccount" /\ req[r].pc = "write" /\ Goto(r, "done")
      /\ members' = [members EXCEPT ![req[r].user] = NoRole]
  BY DEF LeaveOrganization, Doing
<1> DEFINE new == [req[r] EXCEPT !.pc = "done"]
<1>2. new.pc = "done" /\ new.op = "deleteAccount"
  BY <1>1 DEF OwnerInv, RequestsInv, IsRequest
<1>3. Moves(r, new)
  BY <1>1, GotoMoves DEF Over, OwnerInv
<1>4. RequestsInv' /\ req'[r].op = "deleteAccount" /\ req'[r].pc = "done"
  <2> HIDE DEF new
  <2> QED BY <1>2, <1>3, MovesRequest DEF OwnerInv
<1>5. members' = [u \in Users |-> members'[u]]
  BY <1>1 DEF OwnerInv
<1> QED BY <1>4, <1>5 DEF OwnerInv, Exempt, Done, Doing

-----------------------------------------------------------------------------
(* The other requests for the team.                                         *)

LEMMA InviteServes ==
  ASSUME NEW r \in Requests, Invite(r)
  PROVE  Serves(r, TeamOps)
<1>1. PICK role, u, x : Call(r, x) /\ x = [NewRequest EXCEPT
           !.op = "invite", !.user = u, !.value = role,
           !.pc = IF ActiveSubscription THEN "seat" ELSE "refused"]
  BY DEF Invite
<1>2. Started(x, TeamOps)
  BY <1>1 DEF Started, NewRequest, IsRequest, TeamOps
<1> QED BY <1>1, <1>2, ArrivesServes DEF Invite

LEMMA AcceptServes ==
  ASSUME NEW r \in Requests, Accept(r)
  PROVE  Serves(r, TeamOps)
<1>1. PICK i, x : Call(r, x) /\ x = [NewRequest EXCEPT
           !.op = "accept", !.user = invitations[i].user, !.value = invitations[i].role,
           !.seen = i, !.pc = IF invitations[i].late THEN "expire"
                              ELSE IF invitations[i].user \in Members THEN "refused"
                              ELSE "seat"]
  BY DEF Accept
<1>2. Started(x, TeamOps)
  BY <1>1 DEF Started, NewRequest, IsRequest, TeamOps
<1> QED BY <1>1, <1>2, ArrivesServes DEF Accept

LEMMA AnswerInvitationServes ==
  ASSUME NEW r \in Requests, AnswerInvitation(r)
  PROVE  Serves(r, TeamOps)
<1>1. PICK i, op, x : /\ op \in {"revoke", "resend"} /\ Call(r, x)
                      /\ x = [NewRequest EXCEPT !.op = op, !.pc = "write", !.seen = i]
  BY DEF AnswerInvitation
<1>2. Started(x, TeamOps)
  BY <1>1 DEF Started, NewRequest, IsRequest, TeamOps
<1> QED BY <1>1, <1>2, ArrivesServes DEF AnswerInvitation

LEMMA DeleteAccountServes ==
  ASSUME NEW r \in Requests, DeleteAccount(r)
  PROVE  Serves(r, TeamOps)
<1>1. PICK u, x : Call(r, x) /\ x = [NewRequest EXCEPT
           !.op = "deleteAccount", !.user = u,
           !.pc = IF members[u] = "OWNER" /\ Cardinality(Members) > 1 THEN "refused"
                  ELSE "write"]
  BY DEF DeleteAccount
<1>2. Started(x, TeamOps)
  BY <1>1 DEF Started, NewRequest, IsRequest, TeamOps
<1> QED BY <1>1, <1>2, ArrivesServes DEF DeleteAccount

LEMMA TakeSeatServes ==
  ASSUME RequestsInv, NEW r \in Requests, TakeSeat(r)
  PROVE  Serves(r, TeamOps)
<1>1. PICK limit, level, pc, x :
        /\ Becomes(r, x) /\ pc \in {"noSeat", "lookup", "write"}
        /\ x = [req[r] EXCEPT !.limit = limit, !.level = level, !.pc = pc]
  BY DEF TakeSeat
<1>2. IsRequest(req[r]) /\ req[r].op \in {"invite", "accept"}
  BY DEF TakeSeat, RequestsInv
<1>3. Started(x, TeamOps) /\ x.op = req[r].op
  BY <1>1, <1>2 DEF Started, IsRequest, TeamOps
<1> QED BY <1>1, <1>3, BecomesServes DEF TakeSeat, Over

LEMMA InvitationsServes ==
  ASSUME RequestsInv, NEW r \in Requests,
         \/ ExpireInvitation(r) \/ LookUpInvited(r) \/ CreateInvitation(r)
         \/ WriteInvitation(r)
  PROVE  Serves(r, TeamOps)
<1>1. /\ req[r].op \in {"invite", "accept", "revoke", "resend"}
      /\ req[r].pc \in {"expire", "lookup", "write"}
      /\ \E pc \in {"refused", "write", "done"} : Goto(r, pc)
  BY DEF ExpireInvitation, LookUpInvited, CreateInvitation, WriteInvitation, Doing
<1> QED BY <1>1, GotoServes DEF Over, TeamOps

LEMMA ChangesServe ==
  ASSUME RequestsInv, NEW r \in Requests,
         \/ ChangeMember(r) \/ NotLastOwner(r) \/ WriteMember(r) \/ Join(r)
         \/ LeaveOrganization(r)
  PROVE  Serves(r, TeamOps \cup Losing)
<1>1. CASE ChangeMember(r)
  BY <1>1, ChangeMemberMoves DEF Serves
<1>2. CASE ~ChangeMember(r)
  <2>1. /\ req[r].op \in TeamOps \cup Losing /\ req[r].pc \in {"owners", "rank", "write"}
        /\ \E pc \in {"rank", "refused", "done"} : Goto(r, pc)
    BY <1>2 DEF NotLastOwner, WriteMember, Join, LeaveOrganization, Doing, TeamOps
  <2> QED BY <2>1, GotoServes DEF Over
<1> QED BY <1>1, <1>2

LEMMA InvitingServes ==
  ASSUME RequestsInv, NEW r \in Requests,
         \/ Invite(r) \/ Accept(r) \/ AnswerInvitation(r) \/ DeleteAccount(r) \/ TakeSeat(r)
         \/ ExpireInvitation(r) \/ LookUpInvited(r) \/ CreateInvitation(r)
         \/ WriteInvitation(r)
  PROVE  Serves(r, TeamOps) /\ UNCHANGED members
<1>1. Serves(r, TeamOps)
  BY InviteServes, AcceptServes, AnswerInvitationServes, DeleteAccountServes,
     TakeSeatServes, InvitationsServes
<1>2. UNCHANGED members
  BY DEF Invite, Accept, AnswerInvitation, DeleteAccount, TakeSeat, ExpireInvitation,
         LookUpInvited, CreateInvitation, WriteInvitation, teamVars
<1> QED BY <1>1, <1>2

LEMMA TeamsServe ==
  ASSUME RequestsInv, TeamsStep
  PROVE  UNCHANGED requestVars \/ \E r \in Requests : Serves(r, TeamOps \cup Losing)
<1>1. CASE (\E u \in Users : LogIn(u)) \/ \E i \in Requests : InvitationEnds(i)
  BY <1>1 DEF LogIn, InvitationEnds
<1>2. \A r : Serves(r, TeamOps) => Serves(r, TeamOps \cup Losing)
  BY DEF Serves
<1> QED BY <1>1, <1>2, ChangesServe, InvitingServes DEF TeamsStep

LEMMA TeamsStepInv ==
  ASSUME OwnerInv, TeamsStep
  PROVE  OwnerInv'
<1>1. CASE (\E u \in Users : LogIn(u)) \/ \E i \in Requests : InvitationEnds(i)
  BY <1>1, StillInv DEF LogIn, InvitationEnds
<1>2. ASSUME NEW r \in Requests,
             \/ ChangeMember(r) \/ NotLastOwner(r) \/ WriteMember(r) \/ Join(r)
             \/ LeaveOrganization(r)
      PROVE  OwnerInv'
  BY <1>2, ChangeMemberInv, NotLastOwnerInv, WriteMemberInv, JoinInv, LeaveOrganizationInv
<1>3. TeamOps \cap Losing = {}
  BY DEF TeamOps, Losing
<1>4. RequestsInv
  BY DEF OwnerInv
<1> QED BY <1>1, <1>2, <1>3, <1>4, InvitingServes, ServesInv DEF TeamsStep

-----------------------------------------------------------------------------
(* The subscription.                                                        *)

LEMMA CheckoutServes ==
  ASSUME NEW r \in Requests, Checkout(r)
  PROVE  Serves(r, BillingOps)
<1>1. PICK plan, x : /\ Call(r, x)
                   /\ x = [NewRequest EXCEPT !.op = "checkout", !.pc = "customer",
                                      !.value = plan, !.seen = row.customer]
  BY DEF Checkout
<1>2. Started(x, BillingOps)
  BY <1>1 DEF Started, NewRequest, IsRequest, BillingOps
<1> QED BY <1>1, <1>2, ArrivesServes DEF Checkout

LEMMA ChangePlanServes ==
  ASSUME NEW r \in Requests, ChangePlan(r)
  PROVE  Serves(r, BillingOps)
<1>1. PICK plan, x : /\ Call(r, x)
                   /\ x = [NewRequest EXCEPT !.op = "changePlan", !.pc = "stripe",
                                      !.value = plan, !.seen = row.subscription]
  BY DEF ChangePlan
<1>2. Started(x, BillingOps)
  BY <1>1 DEF Started, NewRequest, IsRequest, BillingOps
<1> QED BY <1>1, <1>2, ArrivesServes DEF ChangePlan

LEMMA CancelOrResumeServes ==
  ASSUME NEW r \in Requests, CancelOrResume(r)
  PROVE  Serves(r, BillingOps)
<1>1. PICK op, x : /\ op \in {"cancelNow", "cancelAtEnd", "resume"} /\ Call(r, x)
                 /\ x = [NewRequest EXCEPT !.op = op, !.pc = "stripe",
                                    !.seen = row.subscription]
  BY DEF CancelOrResume
<1>2. Started(x, BillingOps)
  BY <1>1 DEF Started, NewRequest, IsRequest, BillingOps
<1> QED BY <1>1, <1>2, ArrivesServes DEF CancelOrResume

LEMMA CancelTrialServes ==
  ASSUME NEW r \in Requests, CancelTrial(r)
  PROVE  Serves(r, BillingOps)
<1>1. PICK x : /\ Call(r, x)
             /\ x = [NewRequest EXCEPT !.op = "cancelTrial", !.pc = "write"]
  BY DEF CancelTrial
<1>2. Started(x, BillingOps)
  BY <1>1 DEF Started, NewRequest, IsRequest, BillingOps
<1> QED BY <1>1, <1>2, ArrivesServes DEF CancelTrial

LEMMA ListOverdueTrialsServes ==
  ASSUME NEW r \in Requests, ListOverdueTrials(r)
  PROVE  Serves(r, BillingOps)
<1>1. PICK x : /\ Call(r, x)
             /\ x = [NewRequest EXCEPT !.op = "expireTrial", !.pc = "listed"]
  BY DEF ListOverdueTrials
<1>2. Started(x, BillingOps)
  BY <1>1 DEF Started, NewRequest, IsRequest, BillingOps
<1> QED BY <1>1, <1>2, ArrivesServes DEF ListOverdueTrials

LEMMA AdministrateServes ==
  ASSUME NEW r \in Requests, Administrate(r)
  PROVE  Serves(r, BillingOps)
<1>1. PICK x : /\ Call(r, x)
             /\ x = [NewRequest EXCEPT !.op = "administrate", !.pc = "done"]
  BY DEF Administrate
<1>2. Started(x, BillingOps)
  BY <1>1 DEF Started, NewRequest, IsRequest, BillingOps
<1> QED BY <1>1, <1>2, ArrivesServes DEF Administrate

LEMMA CreateCustomerServes ==
  ASSUME RequestsInv, NEW r \in Requests, CreateCustomer(r)
  PROVE  Serves(r, BillingOps)
<1>1. PICK x : Becomes(r, x) /\ x = [req[r] EXCEPT !.seen = stripe.customers + 1]
  BY DEF CreateCustomer
<1>2. IsRequest(req[r]) /\ req[r].op = "checkout" /\ req[r].pc = "customer"
  BY DEF CreateCustomer, Doing, RequestsInv
<1>3. Started(x, BillingOps) /\ x.op = req[r].op
  BY <1>1, <1>2 DEF Started, IsRequest, BillingOps
<1> QED BY <1>1, <1>2, <1>3, BecomesServes DEF Over

LEMMA CallStripeServes ==
  ASSUME RequestsInv, NEW r \in Requests, CallStripe(r)
  PROVE  Serves(r, BillingOps)
<1>1. /\ IsRequest(req[r]) /\ req[r].pc = "stripe"
      /\ req[r].op \in {"changePlan", "cancelNow", "cancelAtEnd", "resume"}
  BY DEF CallStripe, RequestsInv
<1>2. CASE Goto(r, "refused")
  BY <1>1, <1>2, GotoServes DEF Over, BillingOps
<1>3. CASE ~Goto(r, "refused")
  <2>1. PICK level, sub, x :
          Becomes(r, x) /\ x = [req[r] EXCEPT !.pc = "write", !.level = level, !.value = sub]
    BY <1>3 DEF CallStripe
  <2>2. Started(x, BillingOps) /\ x.op = req[r].op
    BY <1>1, <2>1 DEF Started, IsRequest, BillingOps
  <2> QED BY <1>1, <2>1, <2>2, BecomesServes DEF Over
<1> QED BY <1>2, <1>3

LEMMA BillingServes ==
  ASSUME RequestsInv, NEW r \in Requests, CreateSession(r) \/ WriteRow(r) \/ ExpireTrial(r)
  PROVE  Serves(r, BillingOps)
<1>1. /\ req[r].op \in {"checkout", "changePlan", "cancelNow", "cancelAtEnd", "resume",
                        "cancelTrial", "expireTrial"}
      /\ req[r].pc \in {"customer", "write", "listed"} /\ Goto(r, "done")
  BY DEF CreateSession, WriteRow, ExpireTrial, Doing
<1> QED BY <1>1, GotoServes DEF Over, BillingOps

LEMMA SubscriptionServes ==
  ASSUME RequestsInv, SubscriptionStep
  PROVE  UNCHANGED requestVars \/ \E r \in Requests : Serves(r, BillingOps)
<1>1. CASE PayCheckout \/ StripeChanges \/ TrialEnds \/ DeliverPack \/ DeliverSubscription
  BY <1>1
     DEF PayCheckout, StripeChanges, TrialEnds, DeliverPack, DeliverSubscription
<1>2. CASE DeliverInvoice \/ ReadRecovery \/ WriteRecovery
  BY <1>2 DEF DeliverInvoice, ReadRecovery, WriteRecovery
<1>3. ASSUME NEW r \in Requests,
             \/ Checkout(r) \/ ChangePlan(r) \/ CancelOrResume(r) \/ CancelTrial(r)
             \/ ListOverdueTrials(r) \/ Administrate(r)
      PROVE  Serves(r, BillingOps)
  BY <1>3, CheckoutServes, ChangePlanServes, CancelOrResumeServes, CancelTrialServes,
     ListOverdueTrialsServes, AdministrateServes
<1>4. ASSUME NEW r \in Requests,
             \/ CreateCustomer(r) \/ CreateSession(r) \/ CallStripe(r) \/ WriteRow(r)
             \/ ExpireTrial(r)
      PROVE  Serves(r, BillingOps)
  BY <1>4, CreateCustomerServes, CallStripeServes, BillingServes
<1> QED BY <1>1, <1>2, <1>3, <1>4 DEF SubscriptionStep

-----------------------------------------------------------------------------
(* The social accounts and the platforms.                                   *)

LEMMA CallbackServes ==
  ASSUME NEW r \in Requests, Callback(r)
  PROVE  Serves(r, SocialOps)
<1>1. PICK k, x : /\ Call(r, x)
                /\ x = [NewRequest EXCEPT !.op = "callback", !.pc = "exchange", !.account = k]
  BY DEF Callback
<1>2. Started(x, SocialOps)
  BY <1>1 DEF Started, NewRequest, IsRequest, SocialOps
<1> QED BY <1>1, <1>2, ArrivesServes DEF Callback

LEMMA DisconnectServes ==
  ASSUME NEW r \in Requests, Disconnect(r)
  PROVE  Serves(r, SocialOps)
<1>1. PICK k, x : /\ Call(r, x)
                /\ x = [NewRequest EXCEPT !.op = "disconnect", !.pc = "write", !.account = k]
  BY DEF Disconnect
<1>2. Started(x, SocialOps)
  BY <1>1 DEF Started, NewRequest, IsRequest, SocialOps
<1> QED BY <1>1, <1>2, ArrivesServes DEF Disconnect

LEMMA GetActiveConnectionServes ==
  ASSUME NEW r \in Requests, GetActiveConnection(r)
  PROVE  Serves(r, SocialOps)
<1>1. PICK k, seen, limit, pc, x :
        /\ Call(r, x) /\ pc \in {"refresh", "done", "refused"}
        /\ x = [NewRequest EXCEPT !.op = "use", !.account = k, !.seen = seen,
                                  !.limit = limit, !.pc = pc]
  BY DEF GetActiveConnection
<1>2. Started(x, SocialOps)
  BY <1>1 DEF Started, NewRequest, IsRequest, SocialOps
<1> QED BY <1>1, <1>2, ArrivesServes DEF GetActiveConnection

LEMMA RefreshExpiringSoonServes ==
  ASSUME NEW r \in Requests, RefreshExpiringSoon(r)
  PROVE  Serves(r, SocialOps)
<1>1. PICK value, x : /\ Call(r, x)
                    /\ x = [NewRequest EXCEPT !.op = "cron", !.pc = "next", !.value = value]
  BY DEF RefreshExpiringSoon
<1>2. Started(x, SocialOps)
  BY <1>1 DEF Started, NewRequest, IsRequest, SocialOps
<1> QED BY <1>1, <1>2, ArrivesServes DEF RefreshExpiringSoon

LEMMA ReadConnectionsServes ==
  ASSUME NEW r \in Requests, ReadConnections(r)
  PROVE  Serves(r, SocialOps)
<1>1. PICK value, x : /\ Call(r, x)
                    /\ x = [NewRequest EXCEPT !.op = "rotate", !.pc = "rotate", !.value = value]
  BY DEF ReadConnections
<1>2. Started(x, SocialOps)
  BY <1>1 DEF Started, NewRequest, IsRequest, SocialOps
<1> QED BY <1>1, <1>2, ArrivesServes DEF ReadConnections

LEMMA RefreshConnectionByIdServes ==
  ASSUME RequestsInv, NEW r \in Requests, RefreshConnectionById(r)
  PROVE  Serves(r, SocialOps)
<1>1. IsRequest(req[r]) /\ req[r].op = "cron" /\ req[r].pc = "next"
  BY DEF RefreshConnectionById, Doing, RequestsInv
<1>2. CASE Goto(r, "done")
  BY <1>1, <1>2, GotoServes DEF Over, SocialOps
<1>3. CASE ~Goto(r, "done")
  <2>1. PICK k, value, seen, limit, x :
          /\ Becomes(r, x)
          /\ x = [req[r] EXCEPT !.pc = "refresh", !.account = k, !.value = value,
                                !.seen = seen, !.limit = limit]
    BY <1>3 DEF RefreshConnectionById
  <2>2. Started(x, SocialOps) /\ x.op = req[r].op
    BY <1>1, <2>1 DEF Started, IsRequest, SocialOps
  <2> QED BY <1>1, <2>1, <2>2, BecomesServes DEF Over
<1> QED BY <1>2, <1>3

LEMMA RotateConnectionServes ==
  ASSUME RequestsInv, NEW r \in Requests, RotateConnection(r)
  PROVE  Serves(r, SocialOps)
<1>1. IsRequest(req[r]) /\ req[r].op = "rotate" /\ req[r].pc = "rotate"
  BY DEF RotateConnection, Doing, RequestsInv
<1>2. PICK value, x : Becomes(r, x) /\ x = [req[r] EXCEPT !.value = value]
  BY DEF RotateConnection
<1>3. Started(x, SocialOps) /\ x.op = req[r].op
  BY <1>1, <1>2 DEF Started, IsRequest, SocialOps
<1> QED BY <1>1, <1>2, <1>3, BecomesServes DEF Over

LEMMA TokenGivenMoves ==
  ASSUME RequestsInv, NEW r \in Requests, req[r].pc \notin {"new"} \cup Over,
         NEW refresh, TokenGiven(r, refresh)
  PROVE  \E new : /\ Moves(r, new) /\ new.pc = "store" /\ new.op = req[r].op
                  /\ new.account = req[r].account /\ new.value = req[r].value
                  /\ new.seen = req[r].seen /\ new.level = NewToken(req[r].account)
<1>1. PICK newest, limit, new :
        /\ newest = NewToken(req[r].account) /\ Becomes(r, new)
        /\ new = [req[r] EXCEPT !.pc = "store", !.level = newest, !.limit = limit]
  BY DEF TokenGiven
<1>2. IsRequest(req[r])
  BY DEF RequestsInv
<1>3. /\ IsRequest(new) /\ new.pc = "store" /\ new.op = req[r].op
      /\ new.account = req[r].account /\ new.value = req[r].value
      /\ new.seen = req[r].seen /\ new.level = newest
  BY <1>1, <1>2 DEF IsRequest
<1> QED BY <1>1, <1>3 DEF Moves

LEMMA ExchangesServe ==
  ASSUME RequestsInv, NEW r \in Requests, ExchangeCode(r) \/ RefreshAccessToken(r)
  PROVE  Serves(r, SocialOps)
<1>1. /\ req[r].op \in {"callback", "use", "cron"} /\ req[r].pc \in {"exchange", "refresh"}
      /\ \E refresh : TokenGiven(r, refresh)
  BY DEF ExchangeCode, RefreshAccessToken, Doing, Refreshing, Refreshers
<1> QED BY <1>1, TokenGivenMoves DEF Serves, Over, SocialOps

LEMMA SocialServes ==
  ASSUME RequestsInv, NEW r \in Requests,
         \/ WriteCallback(r) \/ CallbackFails(r) \/ WriteDisconnect(r) \/ WriteRefresh(r)
         \/ RefreshFails(r) \/ WriteExpired(r) \/ RotationEnds(r)
  PROVE  Serves(r, SocialOps)
<1>1. /\ req[r].op \in {"callback", "disconnect", "use", "cron", "rotate"}
      /\ req[r].pc \in {"write", "exchange", "store", "refresh", "expire", "rotate"}
      /\ \E pc \in {"done", "refused", "next", "expire"} : Goto(r, pc)
  BY DEF WriteCallback, CallbackFails, WriteDisconnect, WriteRefresh, RefreshFails, WriteExpired,
         RotationEnds, Doing, Refreshing, Refreshers, AfterRefresh
<1> QED BY <1>1, GotoServes DEF Over, SocialOps

LEMMA ConnectionsServe ==
  ASSUME RequestsInv, ConnectionsStep
  PROVE  UNCHANGED requestVars \/ \E r \in Requests : Serves(r, SocialOps)
<1>1. CASE TimePasses \/ DeployKey
  BY <1>1 DEF TimePasses, DeployKey
<1>2. ASSUME NEW r \in Requests,
             \/ Callback(r) \/ Disconnect(r) \/ GetActiveConnection(r)
             \/ RefreshExpiringSoon(r) \/ ReadConnections(r)
      PROVE  Serves(r, SocialOps)
  BY <1>2, CallbackServes, DisconnectServes, GetActiveConnectionServes,
     RefreshExpiringSoonServes, ReadConnectionsServes
<1>3. ASSUME NEW r \in Requests,
             \/ ExchangeCode(r) \/ WriteCallback(r) \/ CallbackFails(r) \/ WriteDisconnect(r)
             \/ RefreshConnectionById(r) \/ RefreshAccessToken(r) \/ WriteRefresh(r)
             \/ RefreshFails(r) \/ WriteExpired(r) \/ RotateConnection(r) \/ RotationEnds(r)
      PROVE  Serves(r, SocialOps)
  BY <1>3, RefreshConnectionByIdServes, RotateConnectionServes, ExchangesServe, SocialServes
<1> QED BY <1>1, <1>2, <1>3 DEF ConnectionsStep

LEMMA PublishServes ==
  ASSUME NEW r \in Requests, Publish(r)
  PROVE  Serves(r, PlatformOps)
<1>1. PICK platform, pc, level, limit, x :
        /\ Call(r, x) /\ pc \in {"call", "refused"}
        /\ \/ x = [[NewRequest EXCEPT !.op = "publish", !.account = platform] EXCEPT
                     !.pc = pc, !.level = level, !.limit = limit]
           \/ x = [[NewRequest EXCEPT !.op = "publish", !.account = platform] EXCEPT !.pc = pc]
  BY DEF Publish
<1>2. Started(x, PlatformOps)
  BY <1>1 DEF Started, NewRequest, IsRequest, PlatformOps
<1> QED BY <1>1, <1>2, ArrivesServes DEF Publish

LEMMA AfterCallErrorServes ==
  ASSUME RequestsInv, NEW r \in Requests, Doing(r, "publish", "call"), NEW retryable,
         AfterCallError(r, retryable)
  PROVE  Serves(r, PlatformOps)
<1>1. IsRequest(req[r]) /\ req[r].op = "publish" /\ req[r].pc = "call"
  BY DEF Doing, RequestsInv
<1>2. PICK limit, x :
        /\ Becomes(r, x)
        /\ \/ x = [req[r] EXCEPT !.level = 1, !.limit = limit]
           \/ x = [req[r] EXCEPT !.pc = "refused"]
  BY DEF AfterCallError
<1>3. Started(x, PlatformOps) /\ x.op = req[r].op
  BY <1>1, <1>2 DEF Started, IsRequest, PlatformOps
<1> QED BY <1>1, <1>2, <1>3, BecomesServes DEF Over

LEMMA AnswerTakenServes ==
  ASSUME RequestsInv, NEW r \in Requests, Doing(r, "publish", "call"), AnswerTaken(r)
  PROVE  Serves(r, PlatformOps)
<1>1. IsRequest(req[r]) /\ req[r].op = "publish" /\ req[r].pc = "call"
  BY DEF Doing, RequestsInv
<1>2. CASE Goto(r, "done")
  BY <1>1, <1>2, GotoServes DEF Over, PlatformOps
<1>3. CASE ~Goto(r, "done")
  <2>1. PICK level, x : Becomes(r, x) /\ x = [req[r] EXCEPT !.level = level]
    BY <1>3 DEF AnswerTaken
  <2>2. Started(x, PlatformOps) /\ x.op = req[r].op
    BY <1>1, <2>1 DEF Started, IsRequest, PlatformOps
  <2> QED BY <1>1, <2>1, <2>2, BecomesServes DEF Over
<1> QED BY <1>2, <1>3

LEMMA AdaptersServe ==
  ASSUME RequestsInv, AdaptersStep
  PROVE  \E r \in Requests : Serves(r, PlatformOps)
<1>1. ASSUME NEW r \in Requests, AnswersWithoutId(r) \/ AnswerIsLost(r) \/ CallIsRefused(r)
      PROVE  Serves(r, PlatformOps)
  BY <1>1, AfterCallErrorServes, AnswerTakenServes
     DEF AnswersWithoutId, AfterNoId, AnswerIsLost, CallIsRefused
<1>2. ASSUME NEW r \in Requests, PlatformAnswers(r)
      PROVE  Serves(r, PlatformOps)
  BY <1>2, AnswerTakenServes DEF PlatformAnswers
<1> QED BY <1>1, <1>2, PublishServes DEF AdaptersStep

-----------------------------------------------------------------------------
(* The workspace.                                                           *)

LEMMA InitInv == Init => OwnerInv
<1> SUFFICES ASSUME Init PROVE OwnerInv
  OBVIOUS
<1>1. req = [r \in Requests |-> NewRequest]
  BY DEF Init, RequestsInit
<1>2. IsRequest(NewRequest) /\ NewRequest.pc = "new" /\ NewRequest.op = "none"
  BY DEF IsRequest, NewRequest
<1>3. RequestsInv
  BY <1>1, <1>2 DEF RequestsInv, InFlight
<1>4. \A r \in Requests : Fits(req[r], members)
  BY <1>1, <1>2 DEF Fits, Losing
<1>5. members \in [Users -> DOMAIN ROLE_HIERARCHY \cup {NoRole}] /\ Owners # {}
  BY TeamsAssumption DEF Init, TeamsInit, Owners
<1> QED BY <1>3, <1>4, <1>5 DEF OwnerInv

LEMMA NextInv ==
  ASSUME OwnerInv, [Next]_vars
  PROVE  OwnerInv'
<1>1. CASE UNCHANGED vars
  BY <1>1, StillInv DEF vars, teamVars
<1>2. CASE TeamsStep
  BY <1>2, TeamsStepInv
<1>3. CASE \/ SubscriptionStep /\ UNCHANGED teamVars
           \/ ConnectionsStep /\ UNCHANGED teamVars
           \/ AdaptersStep /\ UNCHANGED teamVars
  <2>1. RequestsInv /\ UNCHANGED members
    BY <1>3 DEF OwnerInv, teamVars
  <2>2. \/ UNCHANGED requestVars
        \/ \E r \in Requests : Serves(r, BillingOps) \/ Serves(r, SocialOps)
                                \/ Serves(r, PlatformOps)
    BY <1>3, <2>1, SubscriptionServes, ConnectionsServe, AdaptersServe
  <2>3. /\ BillingOps \cap Losing = {} /\ SocialOps \cap Losing = {}
        /\ PlatformOps \cap Losing = {}
    BY DEF BillingOps, SocialOps, PlatformOps, Losing
  <2> QED BY <2>1, <2>2, <2>3, StillInv, ServesInv
<1> QED BY <1>1, <1>2, <1>3 DEF Next

\* However many requests are served at the same time, an organization with members has an
\* owner, unless two changes of members overlapped or an account was deleted
\* (teams.service.ts:194).
THEOREM AnOwnerRemains == Spec => []OwnerRemains
<1>1. Init => OwnerInv
  BY InitInv
<1>2. OwnerInv /\ [Next]_vars => OwnerInv'
  BY NextInv
<1>3. OwnerInv => OwnerRemains
  BY DEF OwnerInv, OwnerRemains, Exempt
<1> QED BY <1>1, <1>2, <1>3, PTL DEF Spec

-----------------------------------------------------------------------------
(* What a publication makes at a platform.                                  *)

CallNames == {"campaignBudget", "campaign", "adGroup", "ad", "post", "video", "share"}
Things == [what : CallNames, attempt : Nat]
LastCall(platform) == Calls(platform)[Len(Calls(platform))]
CopiesIn(things, platform) == {i \in DOMAIN things : things[i].what = LastCall(platform)}

\* What publication x has made: nothing twice in an attempt, and the call that is next is
\* still to be made in this one.
PostSound(x, things, id, losses) ==
  /\ things \in Seq(Things) /\ id \in Nat /\ losses \in Nat
  /\ x.op # "publish" => things = <<>> /\ id = 0
  /\ x.op = "publish" =>
       /\ x.pc \in {"call", "done", "refused"} /\ x.account \in Adapters
       /\ \A i, j \in DOMAIN things : things[i] = things[j] => i = j
       /\ id # 0 => x.pc = "done" /\ id = Len(things) /\ id \in CopiesIn(things, x.account)
       /\ x.pc = "done" => CopiesIn(things, x.account) # {}
       /\ Cardinality(CopiesIn(things, x.account)) <= losses + (IF x.pc = "call" THEN 0 ELSE 1)
       /\ x.pc = "call" =>
            /\ x.level \in 1..Len(Calls(x.account)) /\ x.limit \in Nat
            /\ \A i \in DOMAIN things :
                 /\ things[i].attempt <= x.limit
                 /\ things[i].attempt = x.limit =>
                      \E k \in 1..(x.level - 1) : things[i].what = Calls(x.account)[k]

PostsInv ==
  /\ RequestsInv
  /\ made = [r \in Requests |-> made[r]]
  /\ given = [r \in Requests |-> given[r]]
  /\ lost = [r \in Requests |-> lost[r]]
  /\ \A r \in Requests : PostSound(req[r], made[r], given[r], lost[r])

LEMMA CallsDiffer ==
  ASSUME NEW platform \in Adapters
  PROVE  /\ Calls(platform) \in Seq(CallNames) /\ Len(Calls(platform)) \in Nat \ {0}
         /\ \A i, j \in 1..Len(Calls(platform)) : Calls(platform)[i] = Calls(platform)[j] => i = j
<1>1. CASE platform = "GOOGLE_ADS"
  <2>1. Calls(platform) = GoogleAdsCalls
    BY <1>1 DEF Calls
  <2>2. /\ GoogleAdsCalls \in Seq(CallNames) /\ Len(GoogleAdsCalls) = 4
        /\ \A i, j \in 1..4 : GoogleAdsCalls[i] = GoogleAdsCalls[j] => i = j
    <3> DEFINE c == <<"campaignBudget", "campaign", "adGroup", "ad">>
    <3>1. /\ c \in Seq(CallNames) /\ Len(c) = 4
          /\ c[1] = "campaignBudget" /\ c[2] = "campaign" /\ c[3] = "adGroup" /\ c[4] = "ad"
      BY DEF CallNames
    <3> HIDE DEF c
    <3>2. \A i \in 1..4 : i = 1 \/ i = 2 \/ i = 3 \/ i = 4
      OBVIOUS
    <3>3. \A i, j \in 1..4 : c[i] = c[j] => i = j
      BY <3>1, <3>2
    <3>4. GoogleAdsCalls = c
      BY DEF c, GoogleAdsCalls
    <3> QED BY <3>1, <3>3, <3>4
  <2> QED BY <2>1, <2>2
<1>2. ASSUME NEW call \in CallNames, Calls(platform) = <<call>>
      PROVE  /\ Calls(platform) \in Seq(CallNames) /\ Len(Calls(platform)) \in Nat \ {0}
             /\ \A i, j \in 1..Len(Calls(platform)) :
                  Calls(platform)[i] = Calls(platform)[j] => i = j
  <2>1. <<call>> \in Seq(CallNames) /\ Len(<<call>>) = 1
    OBVIOUS
  <2>2. \A i, j \in 1..1 : i = j
    OBVIOUS
  <2> QED BY <1>2, <2>1, <2>2
<1>3. CASE platform # "GOOGLE_ADS"
  <2>1. PICK call \in CallNames : Calls(platform) = <<call>>
    BY <1>3 DEF CallNames, Calls, Adapters, MetaCalls, TikTokCalls, LinkedInCalls
  <2> QED BY <1>2, <2>1
<1> QED BY <1>1, <1>3

LEMMA CopiesFinite ==
  ASSUME NEW things \in Seq(Things), NEW platform
  PROVE  IsFiniteSet(CopiesIn(things, platform)) /\ Cardinality(CopiesIn(things, platform)) \in Nat
<1>1. IsFiniteSet(1..Len(things))
  BY FS_Interval
<1>2. CopiesIn(things, platform) \subseteq 1..Len(things)
  BY DEF CopiesIn
<1> QED BY <1>1, <1>2, FS_Subset, FS_CardinalityType

NextThing(x) == [what |-> Calls(x.account)[x.level], attempt |-> x.limit]

Posted(x, things, more, losses) ==
  /\ more \in Seq(Things) /\ Len(more) = Len(things) + 1
  /\ \A i, j \in DOMAIN more : more[i] = more[j] => i = j
  /\ \A i \in DOMAIN more :
       /\ more[i].attempt <= x.limit
       /\ more[i].attempt = x.limit => \E k \in 1..x.level : more[i].what = Calls(x.account)[k]
  /\ x.level = Len(Calls(x.account)) => Len(more) \in CopiesIn(more, x.account)
  /\ x.level # Len(Calls(x.account)) => Cardinality(CopiesIn(more, x.account)) <= losses
  /\ Cardinality(CopiesIn(more, x.account)) <= losses + 1

\* The call that is next is made.
LEMMA OneMorePost ==
  ASSUME NEW x, NEW things, NEW losses, PostSound(x, things, 0, losses),
         x.op = "publish", x.pc = "call",
         NEW more, more = Append(things, NextThing(x))
  PROVE  Posted(x, things, more, losses)
<1> DEFINE n == Len(things) + 1
           thing == NextThing(x)
<1>1. /\ things \in Seq(Things) /\ x.account \in Adapters /\ x.limit \in Nat /\ losses \in Nat
      /\ x.level \in 1..Len(Calls(x.account))
      /\ \A i, j \in DOMAIN things : things[i] = things[j] => i = j
      /\ Cardinality(CopiesIn(things, x.account)) <= losses
      /\ \A i \in DOMAIN things :
           /\ things[i].attempt <= x.limit
           /\ things[i].attempt = x.limit =>
                \E k \in 1..(x.level - 1) : things[i].what = Calls(x.account)[k]
  BY DEF PostSound
<1>2. /\ Calls(x.account) \in Seq(CallNames) /\ Len(Calls(x.account)) \in Nat \ {0}
      /\ \A i, j \in 1..Len(Calls(x.account)) : Calls(x.account)[i] = Calls(x.account)[j] => i = j
  BY <1>1, CallsDiffer
<1>3. thing \in Things /\ thing.what = Calls(x.account)[x.level] /\ thing.attempt = x.limit
  BY <1>1, <1>2 DEF Things, NextThing
<1> HIDE DEF thing
<1>4. /\ more \in Seq(Things) /\ Len(more) = n /\ more[n] = thing /\ DOMAIN more = 1..n
      /\ \A i \in 1..Len(things) : more[i] = things[i]
      /\ DOMAIN things = 1..Len(things) /\ Len(things) \in Nat
  BY <1>1, <1>3 DEF thing
<1>5. \A i \in 1..Len(things) : things[i] # thing
  <2> SUFFICES ASSUME NEW i \in 1..Len(things), things[i] = thing PROVE FALSE
    OBVIOUS
  <2>1. PICK k \in 1..(x.level - 1) : things[i].what = Calls(x.account)[k]
    BY <1>1, <1>3, <1>4
  <2>2. /\ x.level \in Nat \ {0} /\ x.level <= Len(Calls(x.account))
        /\ k \in 1..Len(Calls(x.account)) /\ k # x.level
    BY <1>1, <1>2
  <2>3. Calls(x.account)[k] = Calls(x.account)[x.level]
    BY <1>3, <2>1
  <2> QED BY <1>2, <2>2, <2>3
<1>6. \A i, j \in DOMAIN more : more[i] = more[j] => i = j
  BY <1>1, <1>4, <1>5
<1>7. \A i \in DOMAIN more :
        /\ more[i].attempt <= x.limit
        /\ more[i].attempt = x.limit => \E k \in 1..x.level : more[i].what = Calls(x.account)[k]
  BY <1>1, <1>3, <1>4
<1>8. /\ x.level = Len(Calls(x.account)) =>
           CopiesIn(more, x.account) = CopiesIn(things, x.account) \cup {n}
      /\ x.level # Len(Calls(x.account)) =>
           CopiesIn(more, x.account) = CopiesIn(things, x.account)
  BY <1>1, <1>2, <1>3, <1>4 DEF CopiesIn, LastCall
<1>9. Cardinality(CopiesIn(things, x.account) \cup {n}) = Cardinality(CopiesIn(things, x.account)) + 1
  <2>1. n \notin CopiesIn(things, x.account)
    BY <1>4 DEF CopiesIn
  <2> QED BY <1>1, <2>1, CopiesFinite, FS_AddElement
<1>10. Cardinality(CopiesIn(things, x.account)) \in Nat
  BY <1>1, CopiesFinite
<1> HIDE DEF n
<1>11. /\ x.level # Len(Calls(x.account)) => Cardinality(CopiesIn(more, x.account)) <= losses
       /\ Cardinality(CopiesIn(more, x.account)) <= losses + 1
  <2>1. CASE x.level = Len(Calls(x.account))
    <3>1. Cardinality(CopiesIn(more, x.account)) = Cardinality(CopiesIn(things, x.account)) + 1
      BY <1>8, <1>9, <2>1
    <3> QED BY <1>1, <1>10, <2>1, <3>1
  <2>2. CASE x.level # Len(Calls(x.account))
    <3>1. Cardinality(CopiesIn(more, x.account)) = Cardinality(CopiesIn(things, x.account))
      BY <1>8, <2>2
    <3> QED BY <1>1, <1>10, <2>2, <3>1
  <2> QED BY <2>1, <2>2
<1>12. x.level = Len(Calls(x.account)) => Len(more) \in CopiesIn(more, x.account)
  BY <1>4, <1>8
<1> QED BY <1>4, <1>6, <1>7, <1>11, <1>12 DEF n, Posted

\* Of a publication that is over, how it ended and where is known.
LEMMA LeftSound ==
  ASSUME NEW x, NEW things, NEW id, NEW losses, PostSound(x, things, id, losses), x.pc \in Over
  PROVE  PostSound(Left(x), things, id, losses)
<1>1. Left(x).op = x.op /\ Left(x).pc = x.pc /\ (x.op = "publish" => Left(x).account = x.account)
  BY DEF Left, NewRequest, Over, PostSound
<1> QED BY <1>1 DEF PostSound, Over

LEMMA PostStep ==
  ASSUME PostsInv, NEW r \in Requests, NEW new, Moves(r, new),
         made' = [s \in Requests |-> made'[s]], given' = [s \in Requests |-> given'[s]],
         lost' = [s \in Requests |-> lost'[s]],
         \A s \in Requests : s # r => /\ made'[s] = made[s] /\ given'[s] = given[s]
                                      /\ lost'[s] = lost[s],
         PostSound(new, made'[r], given'[r], lost'[r])
  PROVE  PostsInv'
<1>1. /\ RequestsInv' /\ req'[r] = Left(new)
      /\ \A s \in Requests : s # r => req'[s] = req[s]
  BY MovesRequest DEF PostsInv
<1>2. PostSound(Left(new), made'[r], given'[r], lost'[r])
  <2>1. CASE new.pc \in Over
    BY <2>1, LeftSound
  <2>2. CASE new.pc \notin Over
    BY <2>2 DEF Left, Over
  <2> QED BY <2>1, <2>2
<1>3. \A s \in Requests : PostSound(req'[s], made'[s], given'[s], lost'[s])
  <2>1. ASSUME NEW s \in Requests, s # r
        PROVE  PostSound(req'[s], made'[s], given'[s], lost'[s])
    <3>1. PostSound(req[s], made[s], given[s], lost[s])
      BY DEF PostsInv
    <3> QED BY <1>1, <2>1, <3>1
  <2> QED BY <1>1, <1>2, <2>1
<1> QED BY <1>1, <1>3 DEF PostsInv

LEMMA PublishPosts ==
  ASSUME PostsInv, NEW r \in Requests, Publish(r)
  PROVE  PostsInv'
<1> DEFINE request(platform) == [NewRequest EXCEPT !.op = "publish", !.account = platform]
<1>1. PICK platform, x :
        /\ platform \in Adapters /\ Call(r, x)
        /\ \/ x = [request(platform) EXCEPT !.pc = "call", !.level = 1, !.limit = 1]
           \/ x = [request(platform) EXCEPT !.pc = "refused"]
  BY DEF Publish
<1>2. /\ IsRequest(x) /\ x.op = "publish" /\ x.account = platform
      /\ x.pc = "refused" \/ (x.pc = "call" /\ x.level = 1 /\ x.limit = 1)
  BY <1>1 DEF NewRequest, IsRequest
<1> HIDE DEF request
<1>3. Moves(r, x)
  BY <1>1, <1>2, InOrder DEF Publish, Moves
<1>4. /\ made[r] = <<>> /\ given[r] = 0 /\ lost[r] \in Nat
      /\ UNCHANGED <<made, given, lost>>
  BY InOrder DEF Publish, adapterVars, PostsInv, RequestsInv, PostSound
<1>5. CopiesIn(<<>>, platform) = {} /\ Cardinality({}) = 0
  BY FS_EmptySet DEF CopiesIn
<1>6. x.pc = "call" => x.level \in 1..Len(Calls(x.account)) /\ x.limit \in Nat
  BY <1>1, <1>2, CallsDiffer
<1>7. PostSound(x, <<>>, 0, lost[r])
  <2>1. Cardinality(CopiesIn(<<>>, x.account)) = 0
    BY <1>2, <1>5
  <2>2. <<>> \in Seq(Things) /\ DOMAIN <<>> = {}
    OBVIOUS
  <2> QED BY <1>1, <1>2, <1>4, <1>6, <2>1, <2>2 DEF PostSound
<1>8. PostSound(x, made'[r], given'[r], lost'[r])
  BY <1>4, <1>7
<1> QED BY <1>3, <1>4, <1>8, PostStep DEF PostsInv

\* The request goes on after an error: with the first call of the next attempt, or not.
LEMMA AfterCallErrorPosts ==
  ASSUME PostsInv, NEW r \in Requests, Doing(r, "publish", "call"), NEW retryable,
         AfterCallError(r, retryable)
  PROVE  \E new : /\ Moves(r, new) /\ new.op = "publish" /\ new.account = req[r].account
                  /\ \/ new.pc = "refused"
                     \/ retryable /\ new.pc = "call" /\ new.level = 1 /\ new.limit = req[r].limit + 1
<1>1. IsRequest(req[r]) /\ req[r].op = "publish" /\ req[r].pc = "call"
  BY DEF Doing, PostsInv, RequestsInv
<1>2. PICK x :
        /\ Becomes(r, x)
        /\ \/ retryable /\ x = [req[r] EXCEPT !.level = 1, !.limit = req[r].limit + 1]
           \/ x = [req[r] EXCEPT !.pc = "refused"]
  BY DEF AfterCallError
<1>3. /\ IsRequest(x) /\ x.op = "publish" /\ x.account = req[r].account
      /\ \/ x.pc = "refused"
         \/ retryable /\ x.pc = "call" /\ x.level = 1 /\ x.limit = req[r].limit + 1
  BY <1>1, <1>2 DEF IsRequest
<1> QED BY <1>1, <1>2, <1>3 DEF Moves, Over

LEMMA CallIsRefusedPosts ==
  ASSUME PostsInv, NEW r \in Requests, CallIsRefused(r)
  PROVE  PostsInv'
<1>1. PICK new : /\ Moves(r, new) /\ new.op = "publish" /\ new.account = req[r].account
                 /\ \/ new.pc = "refused"
                    \/ new.pc = "call" /\ new.level = 1 /\ new.limit = req[r].limit + 1
  BY AfterCallErrorPosts DEF CallIsRefused
<1>2. /\ PostSound(req[r], made[r], given[r], lost[r]) /\ UNCHANGED <<made, given, lost>>
      /\ req[r].op = "publish" /\ req[r].pc = "call"
  BY DEF CallIsRefused, Doing, adapterVars, PostsInv
<1>3. new.pc = "call" => new.level \in 1..Len(Calls(new.account)) /\ new.limit \in Nat
  BY <1>1, <1>2, CallsDiffer DEF PostSound
<1>4. /\ Cardinality(CopiesIn(made[r], req[r].account)) \in Nat
      /\ \A i \in DOMAIN made[r] : made[r][i].attempt \in Nat
  <2>1. made[r] \in Seq(Things)
    BY <1>2 DEF PostSound
  <2>2. \A i \in DOMAIN made[r] : made[r][i] \in Things
    BY <2>1
  <2> QED BY <2>1, <2>2, CopiesFinite DEF Things
<1>5. PostSound(new, made[r], given[r], lost[r])
  <2>1. CASE new.pc = "refused"
    BY <1>1, <1>2, <1>4, <2>1 DEF PostSound
  <2>2. CASE new.pc = "call"
    <3>1. \A i \in DOMAIN made[r] : made[r][i].attempt < new.limit
      BY <1>1, <1>2, <1>4, <2>2 DEF PostSound
    <3> QED BY <1>1, <1>2, <1>3, <1>4, <2>2, <3>1 DEF PostSound
  <2> QED BY <1>1, <2>1, <2>2
<1> QED BY <1>1, <1>2, <1>5, PostStep DEF PostsInv

\* The thing is made, and an error follows: a lost answer, or one that names nothing, after
\* which there is no other try.
LEMMA MadePosts ==
  ASSUME PostsInv, NEW r \in Requests, Doing(r, "publish", "call"), Makes(r),
         NEW retryable, AfterCallError(r, retryable), UNCHANGED given,
         \/ lost' = IF IsLast(r) THEN [lost EXCEPT ![r] = @ + 1] ELSE lost
         \/ UNCHANGED lost /\ retryable = FALSE
  PROVE  PostsInv'
<1>1. PICK new : /\ Moves(r, new) /\ new.op = "publish" /\ new.account = req[r].account
                 /\ \/ new.pc = "refused"
                    \/ retryable /\ new.pc = "call" /\ new.level = 1
                       /\ new.limit = req[r].limit + 1
  BY AfterCallErrorPosts
<1>2. /\ PostSound(req[r], made[r], given[r], lost[r])
      /\ req[r].op = "publish" /\ req[r].pc = "call" /\ given[r] = 0 /\ given'[r] = 0
  BY DEF Doing, PostsInv, PostSound
<1>3. PICK more : /\ more = Append(made[r], NextThing(req[r]))
                  /\ made' = [made EXCEPT ![r] = more]
  BY DEF Makes, NextCall, NextThing
<1>4. /\ more \in Seq(Things)
      /\ \A i, j \in DOMAIN more : more[i] = more[j] => i = j
      /\ \A i \in DOMAIN more : more[i].attempt <= req[r].limit
      /\ ~IsLast(r) => Cardinality(CopiesIn(more, req[r].account)) <= lost[r]
      /\ Cardinality(CopiesIn(more, req[r].account)) <= lost[r] + 1
  <2>1. PICK x, things : x = req[r] /\ things = made[r]
    OBVIOUS
  <2>2. PostSound(x, things, 0, lost[r]) /\ x.op = "publish" /\ x.pc = "call"
    BY <1>2, <2>1
  <2>3. more = Append(things, NextThing(x))
    BY <1>3, <2>1
  <2>4. Posted(x, things, more, lost[r])
    BY <2>2, <2>3, OneMorePost
  <2> QED BY <2>1, <2>4 DEF Posted, IsLast
<1>5. /\ made'[r] = more /\ lost[r] \in Nat
      /\ made' = [s \in Requests |-> made'[s]] /\ lost' = [s \in Requests |-> lost'[s]]
      /\ \A s \in Requests : s # r => made'[s] = made[s] /\ lost'[s] = lost[s]
      /\ \/ lost'[r] = lost[r] + 1
         \/ lost'[r] = lost[r] /\ (new.pc = "refused" \/ ~IsLast(r))
  BY <1>1, <1>2, <1>3 DEF PostsInv, PostSound
<1>6. /\ Cardinality(CopiesIn(more, req[r].account)) \in Nat
      /\ \A i \in DOMAIN more : more[i].attempt \in Nat
      /\ req[r].limit \in Nat /\ req[r].account \in Adapters
  <2>1. Cardinality(CopiesIn(more, req[r].account)) \in Nat
    BY <1>4, CopiesFinite
  <2>2. \A i \in DOMAIN more : more[i] \in Things
    BY <1>4
  <2> QED BY <1>2, <2>1, <2>2 DEF PostSound, Things
<1>7. new.pc = "call" => /\ new.level \in 1..Len(Calls(new.account)) /\ new.limit \in Nat
                         /\ \A i \in DOMAIN more : more[i].attempt < new.limit
  BY <1>1, <1>4, <1>6, CallsDiffer
<1>8. Cardinality(CopiesIn(more, new.account)) <= lost'[r] + (IF new.pc = "call" THEN 0 ELSE 1)
  BY <1>1, <1>4, <1>5, <1>6
<1>9. PostSound(new, made'[r], given'[r], lost'[r])
  <2>1. lost'[r] \in Nat
    BY <1>5
  <2> QED BY <1>1, <1>2, <1>4, <1>5, <1>6, <1>7, <1>8, <2>1 DEF PostSound
<1> QED BY <1>1, <1>5, <1>9, PostStep DEF PostsInv

\* The thing is made, and the answer is taken, with the id or without.
LEMMA TakenPosts ==
  ASSUME PostsInv, NEW r \in Requests, Doing(r, "publish", "call"), Makes(r), AnswerTaken(r),
         UNCHANGED lost,
         \/ UNCHANGED given
         \/ IsLast(r) /\ given' = [given EXCEPT ![r] = Len(made[r]) + 1]
  PROVE  PostsInv'
<1>1. /\ PostSound(req[r], made[r], given[r], lost[r]) /\ IsRequest(req[r])
      /\ req[r].op = "publish" /\ req[r].pc = "call" /\ given[r] = 0
  BY DEF Doing, PostsInv, RequestsInv, PostSound
<1>2. PICK more : /\ more = Append(made[r], NextThing(req[r]))
                  /\ made' = [made EXCEPT ![r] = more]
  BY DEF Makes, NextCall, NextThing
<1>3. PICK x, things : x = req[r] /\ things = made[r]
  OBVIOUS
<1>4. /\ more \in Seq(Things) /\ Len(more) = Len(things) + 1
      /\ \A i, j \in DOMAIN more : more[i] = more[j] => i = j
      /\ \A i \in DOMAIN more :
           /\ more[i].attempt <= x.limit
           /\ more[i].attempt = x.limit => \E k \in 1..x.level : more[i].what = Calls(x.account)[k]
      /\ x.level = Len(Calls(x.account)) => Len(more) \in CopiesIn(more, x.account)
      /\ x.level # Len(Calls(x.account)) =>
           Cardinality(CopiesIn(more, x.account)) <= lost[r]
      /\ Cardinality(CopiesIn(more, x.account)) <= lost[r] + 1
  <2>1. PostSound(x, things, 0, lost[r]) /\ x.op = "publish" /\ x.pc = "call"
    BY <1>1, <1>3
  <2>2. more = Append(things, NextThing(x))
    BY <1>2, <1>3
  <2>3. Posted(x, things, more, lost[r])
    BY <2>1, <2>2, OneMorePost
  <2> QED BY <2>3 DEF Posted
<1>5. /\ made'[r] = more /\ made' = [s \in Requests |-> made'[s]]
      /\ \A s \in Requests : s # r => made'[s] = made[s]
  BY <1>2 DEF PostsInv
<1>6. /\ x.account \in Adapters /\ x.level \in 1..Len(Calls(x.account)) /\ x.limit \in Nat
      /\ Len(Calls(x.account)) \in Nat /\ lost[r] \in Nat /\ Len(things) \in Nat
  BY <1>1, <1>3, CallsDiffer DEF PostSound
<1>7. CASE x.level = Len(Calls(x.account))
  <2>1. Goto(r, "done")
    BY <1>3, <1>7 DEF AnswerTaken, IsLast
  <2>2. PICK new : Moves(r, new) /\ new.op = "publish" /\ new.pc = "done" /\ new.account = x.account
    BY <1>1, <1>3, <2>1, GoesOn DEF PostsInv, Over
  <2>3. /\ given'[r] = 0 \/ given'[r] = Len(more)
        /\ given' = [s \in Requests |-> given'[s]]
        /\ \A s \in Requests : s # r => given'[s] = given[s]
    BY <1>1, <1>3, <1>4 DEF PostsInv
  <2>4. PostSound(new, more, given'[r], lost[r])
    BY <1>4, <1>6, <1>7, <2>2, <2>3 DEF PostSound
  <2> QED BY <1>1, <1>5, <2>2, <2>3, <2>4, PostStep DEF PostsInv
<1>8. CASE x.level # Len(Calls(x.account))
  <2>1. UNCHANGED given /\ Becomes(r, [req[r] EXCEPT !.level = req[r].level + 1])
    BY <1>3, <1>8 DEF AnswerTaken, IsLast
  <2>2. PICK new : Becomes(r, new) /\ new = [req[r] EXCEPT !.level = req[r].level + 1]
    BY <2>1
  <2>3. /\ IsRequest(new) /\ new.op = "publish" /\ new.pc = "call" /\ new.account = x.account
        /\ new.level = x.level + 1 /\ new.limit = x.limit
    BY <1>1, <1>3, <2>2 DEF IsRequest
  <2>4. Moves(r, new)
    BY <1>1, <2>2, <2>3 DEF Moves, Over
  <2>5. new.level \in 1..Len(Calls(new.account)) /\ 1..(new.level - 1) = 1..x.level
    BY <1>6, <1>8, <2>3
  <2>6. Cardinality(CopiesIn(more, new.account)) <= lost[r]
    BY <1>4, <1>8, <2>3
  <2>7. PostSound(new, more, 0, lost[r])
    BY <1>4, <1>6, <2>3, <2>5, <2>6 DEF PostSound
  <2> QED BY <1>1, <1>5, <2>1, <2>4, <2>7, PostStep DEF PostsInv
<1> QED BY <1>7, <1>8

LEMMA AdaptersPosts ==
  ASSUME PostsInv, AdaptersStep
  PROVE  PostsInv'
<1>1. ASSUME NEW r \in Requests, PlatformAnswers(r)
      PROVE  PostsInv'
  BY <1>1, TakenPosts DEF PlatformAnswers
<1>2. ASSUME NEW r \in Requests, AnswersWithoutId(r)
      PROVE  PostsInv'
  BY <1>2, MadePosts, TakenPosts DEF AnswersWithoutId, AfterNoId
<1>3. ASSUME NEW r \in Requests, AnswerIsLost(r)
      PROVE  PostsInv'
  BY <1>3, MadePosts DEF AnswerIsLost
<1> QED BY <1>1, <1>2, <1>3, PublishPosts, CallIsRefusedPosts DEF AdaptersStep

\* The requests of the other components.
LEMMA ElsewherePosts ==
  ASSUME PostsInv, NEW r \in Requests, NEW ops, Serves(r, ops), ops \cap PlatformOps = {},
         UNCHANGED adapterVars
  PROVE  PostsInv'
<1>1. PICK new : Moves(r, new) /\ new.op # "publish"
  BY DEF Serves, PlatformOps
<1>2. req[r].op # "publish"
  BY <1>1, MovesRequest DEF PostsInv, RequestsInv
<1>3. PostSound(new, made[r], given[r], lost[r])
  BY <1>1, <1>2 DEF PostsInv, PostSound
<1> QED BY <1>1, <1>3, PostStep DEF PostsInv, adapterVars

LEMMA RestPosts ==
  ASSUME PostsInv, UNCHANGED <<requestVars, adapterVars>>
  PROVE  PostsInv'
<1>1. RequestsInv'
  BY RequestsRest DEF PostsInv
<1> QED BY <1>1 DEF PostsInv, requestVars, adapterVars

LEMMA PostsInit == Init => PostsInv
<1> SUFFICES ASSUME Init PROVE PostsInv
  OBVIOUS
<1>1. RequestsInv /\ \A r \in Requests : req[r].op = "none"
  BY RequestsInitInv DEF Init
<1>2. \A r \in Requests : PostSound(req[r], made[r], given[r], lost[r])
  BY <1>1 DEF Init, AdaptersInit, PostSound
<1> QED BY <1>1, <1>2 DEF PostsInv, Init, AdaptersInit

LEMMA PostsNext ==
  ASSUME PostsInv, [Next]_vars
  PROVE  PostsInv'
<1>1. CASE UNCHANGED vars
  BY <1>1, RestPosts DEF vars
<1>2. CASE AdaptersStep
  BY <1>2, AdaptersPosts
<1>3. CASE /\ TeamsStep \/ SubscriptionStep \/ ConnectionsStep
           /\ UNCHANGED adapterVars
  <2>1. \/ UNCHANGED requestVars
        \/ \E r \in Requests : Serves(r, TeamOps \cup Losing) \/ Serves(r, BillingOps)
                                \/ Serves(r, SocialOps)
    BY <1>3, TeamsServe, SubscriptionServes, ConnectionsServe DEF PostsInv
  <2>2. /\ (TeamOps \cup Losing) \cap PlatformOps = {} /\ BillingOps \cap PlatformOps = {}
        /\ SocialOps \cap PlatformOps = {}
    BY DEF TeamOps, Losing, BillingOps, SocialOps, PlatformOps
  <2> QED BY <1>3, <2>1, <2>2, RestPosts, ElsewherePosts
<1> QED BY <1>1, <1>2, <1>3 DEF Next

\* However many publications are tried at the same time and however often each of them, a
\* platform shows one thing for each answer that was lost and at most one more: an answer
\* without an id, or that cannot be read, never leads to another try (retry.util.ts:20).
THEOREM PublicationsPostOnce == Spec => []TriesPostOnce
<1>1. PostsInv => TriesPostOnce
  <2> SUFFICES ASSUME PostsInv, NEW r \in Requests
               PROVE  /\ Doing(r, "publish", "call") => Cardinality(Copies(r)) <= lost[r]
                      /\ Cardinality(Copies(r)) <= lost[r] + 1
                      /\ Done(r, "publish") => Copies(r) # {}
                      /\ given[r] # 0 => /\ Done(r, "publish") /\ given[r] \in Copies(r)
                                         /\ given[r] = Len(made[r])
                      /\ \A i, j \in DOMAIN made[r] : made[r][i] = made[r][j] => i = j
    BY DEF TriesPostOnce
  <2>1. PostSound(req[r], made[r], given[r], lost[r])
    BY DEF PostsInv
  <2>2. Copies(r) = CopiesIn(made[r], req[r].account)
    BY DEF Copies, CopiesIn, LastCall
  <2>3. CASE req[r].op # "publish"
    <3>1. made[r] = <<>> /\ given[r] = 0 /\ lost[r] \in Nat
      BY <2>1, <2>3 DEF PostSound
    <3>2. Copies(r) = {} /\ Cardinality({}) = 0
      BY <3>1, FS_EmptySet DEF Copies
    <3> QED BY <2>3, <3>1, <3>2 DEF Done, Doing
  <2>4. CASE req[r].op = "publish"
    <3>1. lost[r] \in Nat /\ Cardinality(Copies(r)) \in Nat
      BY <2>1, <2>2, CopiesFinite DEF PostSound
    <3> QED BY <2>1, <2>2, <2>4, <3>1 DEF PostSound, Done, Doing
  <2> QED BY <2>3, <2>4
<1> QED BY <1>1, PostsInit, PostsNext, PTL DEF Spec

------------------------------------------------------------------------------
(* The tokens and the statuses of the social accounts.                         *)

\* What gives an account a new token.
Renewing == {"callback"} \cup Refreshers

\* An account was connected or refreshed after a rotation had begun.
Renewed ==
  \E r, s \in Requests : /\ Met(r, s) \/ s > r
                         /\ req[r].op = "rotate" /\ req[s].op \in Renewing

\* Two that renew a token were served at the same time.
Overlapped ==
  \E r, s \in Requests : Met(r, s) /\ req[r].op \in Renewing /\ req[s].op \in Renewing

IsConnection(c) ==
  c = [status |-> c.status, token |-> c.token, expires |-> c.expires,
       refresh |-> c.refresh, key |-> c.key]

RowsInv ==
  /\ connections = [k \in Accounts |-> connections[k]]
  /\ \A k \in Accounts : IsConnection(connections[k])
  /\ issued \in [Accounts -> 0..MaxTokens]
  /\ stored \in [Accounts -> 0..MaxTokens]
  /\ \A k \in Accounts : stored[k] <= issued[k]

\* The accounts a request is about are there, and the token it was given.
Sound(x) ==
  x.pc \notin Over =>
    /\ x.op = "disconnect" =>
         x.account \in Accounts /\ connections[x.account].status # "none"
    /\ x.op \in Renewing /\ x.pc \in {"exchange", "refresh", "store", "expire"} =>
         x.account \in Accounts
    /\ x.op \in Renewing /\ x.pc = "store" => x.level \in 1..issued[x.account]
    /\ x.op = "cron" => x.value \subseteq Accounts

\* Every row there is has the new key, or is still to be written by this rotation, and
\* what the rotation has read of it is what is there, as far as the token goes.
Rotates(x, rows) ==
  x.op = "rotate" =>
    /\ x.pc \in {"rotate", "done"}
    /\ \A k \in Accounts :
         rows[k].status # "none" =>
           \/ rows[k].key = "new"
           \/ x.pc = "rotate" /\ \E read \in x.value : read.of = k
    /\ x.pc = "rotate" =>
         \A read \in x.value :
           /\ read.of \in Accounts /\ IsConnection(read.row)
           /\ read.row.token = rows[read.of].token

\* Without a renewal from the first rotation on.
RotationInv ==
  /\ \A r \in Requests : Rotates(req[r], connections)
  /\ \A r \in Requests, s \in InFlight : req[r].op = "rotate" => req[s].op \notin Renewing
  /\ deployed = "new" => \E r \in Requests : Done(r, "rotate")

\* The token that a request is going to write is no older than that of the row.
NewestBy(x) == x.op \in Renewing /\ x.pc = "store" => x.level >= stored[x.account]

\* Without two renewals at the same time.
NewestInv ==
  /\ \A k \in Accounts : connections[k].token = stored[k]
  /\ \A r \in Requests : NewestBy(req[r])

ConnectionsInv ==
  /\ RequestsInv
  /\ RowsInv
  /\ \A r \in Requests : Sound(req[r])
  /\ Renewed \/ RotationInv
  /\ Renewed \/ Overlapped \/ NewestInv

-----------------------------------------------------------------------------
(* What a step of any request keeps.                                        *)

LEMMA MovesRenewed ==
  ASSUME RequestsInv, NEW r \in Requests, NEW new, Moves(r, new), Renewed
  PROVE  Renewed'
<1>1. /\ met \subseteq met' /\ req'[r].op = new.op
      /\ \A s \in Requests : s # r => req'[s] = req[s]
      /\ req[r].pc = "new" \/ new.op = req[r].op
      /\ req[r].pc = "new" => req[r].op = "none"
  BY MovesRequest DEF RequestsInv
<1>2. PICK q, s \in Requests : /\ Met(q, s) \/ s > q
                               /\ req[q].op = "rotate" /\ req[s].op \in Renewing
  BY DEF Renewed
<1>3. \A t \in Requests : req[t].op # "none" => req'[t].op = req[t].op
  BY <1>1
<1>4. Met(q, s) => Met(q, s)'
  BY <1>1 DEF Met
<1>5. "none" \notin Renewing
  BY DEF Renewing, Refreshers
<1> QED BY <1>2, <1>3, <1>4, <1>5 DEF Renewed

LEMMA MovesOverlapped ==
  ASSUME RequestsInv, NEW r \in Requests, NEW new, Moves(r, new), Overlapped
  PROVE  Overlapped'
<1>1. /\ met \subseteq met' /\ req'[r].op = new.op
      /\ \A s \in Requests : s # r => req'[s] = req[s]
      /\ req[r].pc = "new" \/ new.op = req[r].op
      /\ req[r].pc = "new" => req[r].op = "none"
  BY MovesRequest DEF RequestsInv
<1>2. PICK q, s \in Requests : Met(q, s) /\ req[q].op \in Renewing /\ req[s].op \in Renewing
  BY DEF Overlapped
<1>3. \A t \in Requests : req[t].op \in Renewing => req'[t].op \in Renewing
  BY <1>1 DEF Renewing, Refreshers
<1>4. Met(q, s)'
  BY <1>1, <1>2 DEF Met
<1> QED BY <1>2, <1>3, <1>4 DEF Overlapped

\* A rotation that begins while a renewal is under way, or a renewal after one.
LEMMA MovesFlight ==
  ASSUME RequestsInv, NEW r \in Requests, NEW new, Moves(r, new), ~Renewed',
         \A q \in Requests, s \in InFlight : req[q].op = "rotate" => req[s].op \notin Renewing
  PROVE  \A q \in Requests, s \in InFlight' : req'[q].op = "rotate" => req'[s].op \notin Renewing
<1> SUFFICES ASSUME NEW q \in Requests, NEW s \in InFlight', req'[q].op = "rotate",
                    req'[s].op \in Renewing
             PROVE  FALSE
  OBVIOUS
<1>1. /\ met \subseteq met' /\ req'[r].op = new.op /\ RequestsInv'
      /\ \A t \in Requests : t # r => req'[t] = req[t]
      /\ req[r].pc = "new" \/ (new.op = req[r].op /\ r \in InFlight)
  BY MovesRequest
<1>2. s \in Requests /\ q # s
  BY DEF InFlight, Renewing, Refreshers
<1>3. ~ Met(q, s)' /\ ~(s > q)
  BY <1>2 DEF Renewed
<1>4. s < q
  BY <1>2, <1>3, RequestsAssumption DEF Requests
<1>5. q \notin InFlight'
  BY <1>1, <1>2, <1>3 DEF RequestsInv, Met
<1>6. CASE req[r].pc # "new"
  <2>1. req[q].op = "rotate" /\ req[s].op \in Renewing /\ s \in InFlight
    BY <1>1, <1>2, <1>6 DEF InFlight
  <2> QED BY <2>1
<1>7. CASE req[r].pc = "new" /\ s # r
  <2>1. req[s].op \in Renewing /\ s \in InFlight
    BY <1>1, <1>2, <1>7 DEF InFlight
  <2>2. q = r
    BY <1>1, <1>7, <2>1
  <2>3. {r, s} \in met'
    BY <1>7, <2>1 DEF Moves, Call, Becomes
  <2> QED BY <1>3, <2>2, <2>3, <1>2 DEF Met
<1>8. CASE req[r].pc = "new" /\ s = r
  <2>1. q # r /\ req[q].op = "rotate" /\ req[q].pc = "new"
    BY <1>1, <1>2, <1>4, <1>8 DEF RequestsInv
  <2> QED BY <2>1 DEF RequestsInv
<1> QED BY <1>6, <1>7, <1>8

StatusKept == \A k \in Accounts : connections[k].status # "none" => connections'[k].status # "none"

LEMMA StepInv ==
  ASSUME ConnectionsInv, NEW r \in Requests, NEW new, Moves(r, new),
         RowsInv', StatusKept, Sound(req[r])', UNCHANGED deployed,
         \A k \in Accounts : issued[k] <= issued'[k],
         ~Renewed' /\ RotationInv => \A q \in Requests : Rotates(req'[q], connections'),
         ~Renewed' /\ ~Overlapped' /\ NewestInv => NewestInv'
  PROVE  ConnectionsInv'
<1>1. /\ RequestsInv' /\ req'[r].op = new.op
      /\ \A t \in Requests : t # r => req'[t] = req[t]
      /\ req[r].pc = "new" \/ (new.op = req[r].op /\ r \in InFlight)
      /\ req[r].pc = "new" => req[r].op = "none"
  BY MovesRequest DEF ConnectionsInv, RequestsInv
<1>2. Renewed => Renewed'
  BY MovesRenewed DEF ConnectionsInv
<1>3. ASSUME NEW s \in Requests, s # r
      PROVE  Sound(req[s])'
  <2>1. req'[s] = req[s] /\ Sound(req[s])
    BY <1>1, <1>3 DEF ConnectionsInv
  <2>2. /\ req[s].account \in Accounts /\ connections[req[s].account].status # "none"
             => connections'[req[s].account].status # "none"
        /\ req[s].account \in Accounts /\ req[s].level \in 1..issued[req[s].account]
             => req[s].level \in 1..issued'[req[s].account]
    BY DEF StatusKept, ConnectionsInv, RowsInv
  <2> QED BY <2>1, <2>2 DEF Sound
<1>4. ASSUME ~Renewed'
      PROVE  RotationInv'
  <2>1. RotationInv
    BY <1>2, <1>4 DEF ConnectionsInv
  <2>2. \A q \in Requests, s \in InFlight' : req'[q].op = "rotate" => req'[s].op \notin Renewing
    BY <1>4, <2>1, MovesFlight DEF ConnectionsInv, RotationInv
  <2>3. deployed' = "new" => \E q \in Requests : Done(q, "rotate")'
    <3> SUFFICES ASSUME deployed' = "new" PROVE \E q \in Requests : Done(q, "rotate")'
      OBVIOUS
    <3>1. PICK q \in Requests : Done(q, "rotate")
      BY <2>1 DEF RotationInv
    <3>2. q # r
      BY <1>1, <3>1 DEF Done, Doing, InFlight, Over
    <3> QED BY <1>1, <3>1, <3>2 DEF Done, Doing
  <2> QED BY <1>4, <2>1, <2>2, <2>3 DEF RotationInv
<1>5. Renewed' \/ Overlapped' \/ NewestInv'
  BY <1>2, MovesOverlapped DEF ConnectionsInv
<1> QED BY <1>1, <1>3, <1>4, <1>5 DEF ConnectionsInv

\* A request that has no token to write leaves the newest where they are.
LEMMA NewestKept ==
  ASSUME ConnectionsInv, NEW r \in Requests, NEW new, Moves(r, new), UNCHANGED stored,
         \A k \in Accounts : connections'[k].token = connections[k].token,
         NewestBy(Left(new)), NewestInv
  PROVE  NewestInv'
<1>1. /\ req'[r] = Left(new)
      /\ \A t \in Requests : t # r => req'[t] = req[t]
  BY MovesRequest DEF ConnectionsInv
<1> QED BY <1>1 DEF NewestInv, NewestBy

LEMMA NothingToStore ==
  ASSUME NEW r, NEW new, Moves(r, new), new.pc # "store" \/ new.op \notin Renewing
  PROVE  NewestBy(Left(new))
  BY LeftIsRequest DEF Moves, NewestBy

\* A step that writes no row: of a rotation, it is what it has read that counts.
LEMMA ReadInv ==
  ASSUME ConnectionsInv, NEW r \in Requests, NEW new, Moves(r, new),
         UNCHANGED <<connections, stored, deployed>>, RowsInv',
         \A k \in Accounts : issued[k] <= issued'[k],
         Sound(Left(new))', NewestBy(Left(new)),
         RotationInv => Rotates(Left(new), connections)
  PROVE  ConnectionsInv'
<1>1. /\ req'[r] = Left(new)
      /\ \A t \in Requests : t # r => req'[t] = req[t]
  BY MovesRequest DEF ConnectionsInv
<1>2. StatusKept
  BY DEF StatusKept
<1>3. Sound(req[r])'
  BY <1>1 DEF Sound
<1>4. ASSUME RotationInv
      PROVE  \A q \in Requests : Rotates(req'[q], connections')
  <2>1. \A q \in Requests : Rotates(req'[q], connections)
    BY <1>1, <1>4 DEF RotationInv
  <2> QED BY <2>1 DEF Rotates
<1>5. NewestInv => NewestInv'
  BY NewestKept
<1> QED BY <1>2, <1>3, <1>4, <1>5, StepInv

\* A renewal writes a row: there is no rotation, or it is said to be renewed.
LEMMA RenewalInv ==
  ASSUME ConnectionsInv, NEW r \in Requests, NEW new, Moves(r, new),
         r \in InFlight, req[r].op \in Renewing,
         RowsInv', StatusKept, Sound(req[r])', UNCHANGED <<deployed, issued>>,
         ~Overlapped' /\ NewestInv => NewestInv'
  PROVE  ConnectionsInv'
<1>1. /\ req'[r].op = req[r].op
      /\ \A t \in Requests : t # r => req'[t] = req[t]
  BY MovesRequest DEF ConnectionsInv, InFlight
<1>2. ASSUME RotationInv
      PROVE  \A q \in Requests : Rotates(req'[q], connections')
  <2>1. \A q \in Requests : req[q].op # "rotate"
    BY <1>2 DEF RotationInv
  <2>2. \A q \in Requests : req'[q].op # "rotate"
    BY <1>1, <2>1
  <2> QED BY <2>2 DEF Rotates
<1>3. \A k \in Accounts : issued[k] <= issued'[k]
  BY DEF ConnectionsInv, RowsInv
<1> QED BY <1>2, <1>3, StepInv

\* The requests of the other components.
LEMMA ElsewhereInv ==
  ASSUME ConnectionsInv, NEW r \in Requests, NEW ops, Serves(r, ops), ops \cap SocialOps = {},
         UNCHANGED connectionVars
  PROVE  ConnectionsInv'
<1>1. PICK new : Moves(r, new) /\ new.op \notin SocialOps
  BY DEF Serves
<1>2. Left(new).op \notin SocialOps
  BY <1>1, LeftIsRequest DEF Moves
<1>3. /\ Sound(Left(new))' /\ Rotates(Left(new), connections) /\ NewestBy(Left(new))
  BY <1>2 DEF Sound, Rotates, NewestBy, SocialOps, Renewing, Refreshers
<1>4. RowsInv' /\ \A k \in Accounts : issued[k] <= issued'[k]
  BY DEF connectionVars, ConnectionsInv, RowsInv
<1> QED BY <1>1, <1>3, <1>4, ReadInv DEF connectionVars

LEMMA RestInv ==
  ASSUME ConnectionsInv, UNCHANGED <<connections, issued, stored, deployed, requestVars>>
  PROVE  ConnectionsInv'
<1>1. RequestsInv' /\ (RotationInv => RotationInv') /\ (Renewed => Renewed')
  BY DEF ConnectionsInv, RequestsInv, RotationInv, Rotates, Renewed, requestVars, InFlight,
         Met, Done, Doing
<1>2. (Overlapped => Overlapped') /\ (NewestInv => NewestInv')
  BY DEF Overlapped, Met, NewestInv, NewestBy, requestVars
<1> QED BY <1>1, <1>2 DEF ConnectionsInv, RowsInv, Sound, requestVars

LEMMA LeftKeeps ==
  ASSUME NEW x, IsRequest(x)
  PROVE  (Sound(x) => Sound(Left(x))) /\ (Rotates(x, connections) => Rotates(Left(x), connections))
<1>1. CASE x.pc \in {"done", "refused"}
  BY <1>1, LeftIsRequest DEF Sound, Rotates, Over
<1>2. CASE x.pc \notin {"done", "refused"}
  BY <1>2 DEF Left
<1> QED BY <1>1, <1>2

\* A request for the accounts that arrives, or goes on without writing a row.
LEMMA ReaderInv ==
  ASSUME ConnectionsInv, NEW r \in Requests, NEW new, Moves(r, new),
         UNCHANGED connectionVars, Sound(new), new.pc # "store",
         RotationInv => Rotates(new, connections)
  PROVE  ConnectionsInv'
<1>1. Sound(Left(new)) /\ (RotationInv => Rotates(Left(new), connections))
  BY LeftKeeps DEF Moves
<1>2. Sound(Left(new))'
  BY <1>1 DEF Sound, connectionVars
<1>3. RowsInv' /\ \A k \in Accounts : issued[k] <= issued'[k]
  BY DEF connectionVars, ConnectionsInv, RowsInv
<1> QED BY <1>1, <1>2, <1>3, NothingToStore, ReadInv DEF connectionVars

\* The platform gives a token: it is the newest there is.
LEMMA TokenGivenInv ==
  ASSUME ConnectionsInv, NEW r \in Requests, req[r].op \in Renewing,
         req[r].pc \in {"exchange", "refresh"}, NEW refresh, TokenGiven(r, refresh)
  PROVE  ConnectionsInv'
<1>1. /\ req[r].account \in Accounts /\ (req[r].op = "cron" => req[r].value \subseteq Accounts)
      /\ UNCHANGED <<connections, stored, deployed>>
      /\ issued' = [issued EXCEPT ![req[r].account] = @ + 1]
      /\ NewToken(req[r].account) <= MaxTokens
  BY DEF TokenGiven, ConnectionsInv, Sound, Over
<1>2. PICK new : /\ Moves(r, new) /\ new.pc = "store" /\ new.op = req[r].op
                 /\ new.account = req[r].account /\ new.value = req[r].value
                 /\ new.level = NewToken(req[r].account)
  BY TokenGivenMoves DEF ConnectionsInv, Over
<1>3. /\ RowsInv' /\ \A k \in Accounts : issued[k] <= issued'[k]
      /\ new.level \in 1..issued'[req[r].account] /\ new.level >= stored[req[r].account]
  <2>1. /\ issued \in [Accounts -> 0..MaxTokens] /\ stored \in [Accounts -> 0..MaxTokens]
        /\ \A k \in Accounts : stored[k] <= issued[k]
        /\ MaxTokens \in Nat
    BY ConnectionsAssumption DEF ConnectionsInv, RowsInv
  <2>2. issued[req[r].account] + 1 \in 1..MaxTokens
    BY <1>1, <2>1 DEF NewToken
  <2>3. issued' \in [Accounts -> 0..MaxTokens]
    BY <1>1, <2>1, <2>2
  <2>4. issued'[req[r].account] = new.level /\ \A k \in Accounts : issued[k] <= issued'[k]
    BY <1>1, <1>2, <2>1 DEF NewToken
  <2>5. RowsInv'
    BY <1>1, <2>1, <2>3, <2>4 DEF ConnectionsInv, RowsInv
  <2> QED BY <1>1, <1>2, <2>1, <2>2, <2>4, <2>5 DEF NewToken
<1>4. Left(new) = new
  BY <1>2, LeftIsRequest DEF Moves
<1>5. Sound(Left(new))' /\ NewestBy(Left(new)) /\ Rotates(Left(new), connections)
  BY <1>1, <1>2, <1>3, <1>4 DEF Sound, NewestBy, Rotates, Renewing, Refreshers
<1> QED BY <1>1, <1>2, <1>3, <1>5, ReadInv

LEMMA ExchangesInv ==
  ASSUME ConnectionsInv, NEW r \in Requests, ExchangeCode(r) \/ RefreshAccessToken(r)
  PROVE  ConnectionsInv'
<1>1. /\ req[r].op \in Renewing /\ req[r].pc \in {"exchange", "refresh"}
      /\ \E refresh : TokenGiven(r, refresh)
  BY DEF ExchangeCode, RefreshAccessToken, Doing, Refreshing, Refreshers, Renewing
<1> QED BY <1>1, TokenGivenInv

-----------------------------------------------------------------------------
(* The requests for the accounts.                                           *)

LEMMA CallbackInv ==
  ASSUME ConnectionsInv, NEW r \in Requests, Callback(r)
  PROVE  ConnectionsInv'
<1>1. PICK k, x : /\ k \in Accounts /\ Call(r, x)
                  /\ x = [NewRequest EXCEPT !.op = "callback", !.pc = "exchange", !.account = k]
  BY DEF Callback
<1>2. Started(x, SocialOps) /\ x.op = "callback" /\ x.account = k /\ x.pc = "exchange"
  BY <1>1 DEF Started, NewRequest, IsRequest, SocialOps
<1>3. Moves(r, x)
  BY <1>1, <1>2, ArrivesMoves DEF Callback
<1>4. Sound(x) /\ Rotates(x, connections)
  BY <1>1, <1>2 DEF Sound, Rotates
<1> QED BY <1>2, <1>3, <1>4, ReaderInv DEF Callback

LEMMA DisconnectInv ==
  ASSUME ConnectionsInv, NEW r \in Requests, Disconnect(r)
  PROVE  ConnectionsInv'
<1>1. PICK k, x : /\ k \in Accounts /\ connections[k].status # "none" /\ Call(r, x)
                  /\ x = [NewRequest EXCEPT !.op = "disconnect", !.pc = "write", !.account = k]
  BY DEF Disconnect
<1>2. Started(x, SocialOps) /\ x.op = "disconnect" /\ x.account = k /\ x.pc = "write"
  BY <1>1 DEF Started, NewRequest, IsRequest, SocialOps
<1>3. Moves(r, x)
  BY <1>1, <1>2, ArrivesMoves DEF Disconnect
<1>4. Sound(x) /\ Rotates(x, connections)
  BY <1>1, <1>2 DEF Sound, Rotates, Renewing, Refreshers
<1> QED BY <1>2, <1>3, <1>4, ReaderInv DEF Disconnect

LEMMA GetActiveConnectionInv ==
  ASSUME ConnectionsInv, NEW r \in Requests, GetActiveConnection(r)
  PROVE  ConnectionsInv'
<1>1. PICK k, seen, limit, pc, x :
        /\ k \in Accounts /\ Call(r, x) /\ pc \in {"refresh", "done", "refused"}
        /\ x = [NewRequest EXCEPT !.op = "use", !.account = k, !.seen = seen,
                                  !.limit = limit, !.pc = pc]
  BY DEF GetActiveConnection
<1>2. Started(x, SocialOps) /\ x.op = "use" /\ x.account = k /\ x.pc = pc
  BY <1>1 DEF Started, NewRequest, IsRequest, SocialOps
<1>3. Moves(r, x)
  BY <1>1, <1>2, ArrivesMoves DEF GetActiveConnection
<1>4. Sound(x) /\ Rotates(x, connections)
  BY <1>1, <1>2 DEF Sound, Rotates, Over
<1> QED BY <1>1, <1>2, <1>3, <1>4, ReaderInv DEF GetActiveConnection

LEMMA RefreshExpiringSoonInv ==
  ASSUME ConnectionsInv, NEW r \in Requests, RefreshExpiringSoon(r)
  PROVE  ConnectionsInv'
<1>1. PICK value, x :
        /\ value \subseteq Accounts /\ Call(r, x)
        /\ x = [NewRequest EXCEPT !.op = "cron", !.pc = "next", !.value = value]
  BY DEF RefreshExpiringSoon
<1>2. Started(x, SocialOps) /\ x.op = "cron" /\ x.pc = "next" /\ x.value = value
  BY <1>1 DEF Started, NewRequest, IsRequest, SocialOps
<1>3. Moves(r, x)
  BY <1>1, <1>2, ArrivesMoves DEF RefreshExpiringSoon
<1>4. Sound(x) /\ Rotates(x, connections)
  BY <1>1, <1>2 DEF Sound, Rotates
<1> QED BY <1>2, <1>3, <1>4, ReaderInv DEF RefreshExpiringSoon

LEMMA ReadConnectionsInv ==
  ASSUME ConnectionsInv, NEW r \in Requests, ReadConnections(r)
  PROVE  ConnectionsInv'
<1> DEFINE value == {[of |-> k, row |-> connections[k]] :
                       k \in {a \in Accounts : connections[a].status # "none"}}
<1>1. PICK x : Call(r, x) /\ x = [NewRequest EXCEPT !.op = "rotate", !.pc = "rotate",
                                                   !.value = value]
  BY DEF ReadConnections
<1>2. Started(x, SocialOps) /\ x.op = "rotate" /\ x.pc = "rotate" /\ x.value = value
  <2> HIDE DEF value
  <2> QED BY <1>1 DEF Started, NewRequest, IsRequest, SocialOps
<1>3. Moves(r, x)
  BY <1>1, <1>2, ArrivesMoves DEF ReadConnections
<1>4. \A k \in Accounts : connections[k].status # "none" => \E read \in value : read.of = k
  <2> SUFFICES ASSUME NEW k \in Accounts, connections[k].status # "none"
               PROVE  \E read \in value : read.of = k
    OBVIOUS
  <2>1. [of |-> k, row |-> connections[k]] \in value
    OBVIOUS
  <2>2. [of |-> k, row |-> connections[k]].of = k
    OBVIOUS
  <2> HIDE DEF value
  <2> QED BY <2>1, <2>2
<1>5. \A read \in value : /\ read.of \in Accounts /\ IsConnection(read.row)
                          /\ read.row.token = connections[read.of].token
  BY DEF ConnectionsInv, RowsInv
<1>6. Sound(x) /\ Rotates(x, connections)
  <2> HIDE DEF value
  <2> QED BY <1>2, <1>4, <1>5 DEF Sound, Rotates, Renewing, Refreshers
<1> QED BY <1>2, <1>3, <1>6, ReaderInv DEF ReadConnections

LEMMA RefreshConnectionByIdInv ==
  ASSUME ConnectionsInv, NEW r \in Requests, RefreshConnectionById(r)
  PROVE  ConnectionsInv'
<1>1. /\ IsRequest(req[r]) /\ req[r].op = "cron" /\ req[r].pc = "next"
      /\ req[r].value \subseteq Accounts
  BY DEF RefreshConnectionById, Doing, ConnectionsInv, RequestsInv, Sound, Over
<1>2. CASE Goto(r, "done")
  <2>1. PICK new : Moves(r, new) /\ new.pc = "done" /\ new.op = "cron"
    BY <1>1, <1>2, GoesOn DEF ConnectionsInv, Over
  <2>2. Sound(new) /\ Rotates(new, connections)
    BY <2>1 DEF Sound, Rotates, Over
  <2> QED BY <2>1, <2>2, ReaderInv DEF RefreshConnectionById
<1>3. CASE ~Goto(r, "done")
  <2>1. PICK k, value, seen, limit, x :
          /\ k \in Accounts /\ value \subseteq Accounts /\ Becomes(r, x)
          /\ x = [req[r] EXCEPT !.pc = "refresh", !.account = k, !.value = value,
                                !.seen = seen, !.limit = limit]
    <3>1. PICK k \in req[r].value :
            Becomes(r, [req[r] EXCEPT !.pc = "refresh", !.account = k,
                          !.value = req[r].value \ {k}, !.seen = connections[k].expires,
                          !.limit = ReadTokens(k)])
      BY <1>3 DEF RefreshConnectionById
    <3>2. k \in Accounts /\ req[r].value \ {k} \subseteq Accounts
      BY <1>1
    <3> QED BY <3>1, <3>2
  <2>2. /\ IsRequest(x) /\ x.pc = "refresh" /\ x.op = "cron" /\ x.account = k
        /\ x.value = value
    BY <1>1, <2>1 DEF IsRequest
  <2>3. Moves(r, x)
    BY <1>1, <2>1, <2>2 DEF Moves, Over
  <2>4. Sound(x) /\ Rotates(x, connections)
    BY <2>1, <2>2 DEF Sound, Rotates
  <2> QED BY <2>2, <2>3, <2>4, ReaderInv DEF RefreshConnectionById
<1> QED BY <1>2, <1>3

LEMMA RefreshFailsInv ==
  ASSUME ConnectionsInv, NEW r \in Requests, RefreshFails(r)
  PROVE  ConnectionsInv'
<1>1. /\ req[r].op \in Refreshers /\ req[r].pc \in {"refresh", "store"}
      /\ req[r].account \in Accounts /\ (req[r].op = "cron" => req[r].value \subseteq Accounts)
  BY DEF RefreshFails, Refreshing, ConnectionsInv, Sound, Over, Renewing
<1>2. PICK pc \in {"expire", "refused", "done", "next"} : Goto(r, pc)
  BY DEF RefreshFails, AfterRefresh
<1>3. PICK new : /\ Moves(r, new) /\ new.pc = pc /\ new.op = req[r].op
                 /\ new.account = req[r].account /\ new.value = req[r].value
  BY <1>1, <1>2, GoesOn DEF ConnectionsInv, Over
<1>4. Sound(new) /\ Rotates(new, connections)
  BY <1>1, <1>3 DEF Sound, Rotates, Refreshers
<1> QED BY <1>2, <1>3, <1>4, ReaderInv DEF RefreshFails

LEMMA CallbackFailsInv ==
  ASSUME ConnectionsInv, NEW r \in Requests, CallbackFails(r)
  PROVE  ConnectionsInv'
<1>1. /\ req[r].op = "callback" /\ req[r].pc \in {"exchange", "store"} /\ Goto(r, "refused")
      /\ UNCHANGED connectionVars
  BY DEF CallbackFails, Doing
<1>2. PICK new : Moves(r, new) /\ new.pc = "refused" /\ new.op = "callback"
  BY <1>1, GoesOn DEF ConnectionsInv, Over
<1>3. Sound(new) /\ Rotates(new, connections)
  BY <1>2 DEF Sound, Over, Rotates
<1> QED BY <1>1, <1>2, <1>3, ReaderInv

LEMMA RotationEndsInv ==
  ASSUME ConnectionsInv, NEW r \in Requests, RotationEnds(r)
  PROVE  ConnectionsInv'
<1>1. req[r].op = "rotate" /\ req[r].pc = "rotate" /\ req[r].value = {} /\ Goto(r, "done")
  BY DEF RotationEnds, Doing
<1>2. PICK new : Moves(r, new) /\ new.pc = "done" /\ new.op = "rotate"
  BY <1>1, GoesOn DEF ConnectionsInv, Over
<1>3. Sound(new)
  BY <1>2 DEF Sound, Over
<1>4. ASSUME RotationInv
      PROVE  Rotates(new, connections)
  BY <1>1, <1>2, <1>4 DEF RotationInv, Rotates
<1> QED BY <1>2, <1>3, <1>4, ReaderInv DEF RotationEnds

-----------------------------------------------------------------------------
(* The writes.                                                              *)

LEMMA StoreRows ==
  ASSUME RowsInv, NEW k \in Accounts, NEW got \in 1..issued[k], NEW refresh,
         Store(k, got, refresh), UNCHANGED issued
  PROVE  /\ RowsInv' /\ StatusKept
         /\ connections'[k].token = got /\ connections'[k].expires = got
         /\ connections'[k].status = "ACTIVE"
         /\ stored'[k] = IF stored[k] < got THEN got ELSE stored[k]
         /\ \A a \in Accounts :
              a # k => connections'[a] = connections[a] /\ stored'[a] = stored[a]
<1> DEFINE c == [status |-> "ACTIVE", token |-> got, expires |-> got,
                 refresh |-> refresh, key |-> deployed]
           top == IF stored[k] < got THEN got ELSE stored[k]
<1>1. /\ connections' = [connections EXCEPT ![k] = c]
      /\ stored' = [stored EXCEPT ![k] = top]
  BY DEF Store
<1>2. IsConnection(c) /\ c.status = "ACTIVE" /\ c.token = got /\ c.expires = got
  BY DEF IsConnection
<1>3. top \in 0..MaxTokens /\ top <= issued[k]
  BY ConnectionsAssumption DEF RowsInv
<1> HIDE DEF c
<1>4. /\ connections' = [a \in Accounts |-> connections'[a]] /\ connections'[k] = c
      /\ \A a \in Accounts : a # k => connections'[a] = connections[a]
  BY <1>1 DEF RowsInv
<1>5. stored'[k] = top /\ \A a \in Accounts : a # k => stored'[a] = stored[a]
  BY <1>1 DEF RowsInv
<1>6. stored' \in [Accounts -> 0..MaxTokens]
  BY <1>1, <1>3 DEF RowsInv
<1>7. RowsInv'
  <2> HIDE DEF top
  <2> QED BY <1>2, <1>3, <1>4, <1>5, <1>6 DEF RowsInv
<1>8. StatusKept
  BY <1>2, <1>4 DEF StatusKept
<1> QED BY <1>2, <1>4, <1>5, <1>7, <1>8

\* The newest token is written, or another renewal was under way.
LEMMA StoreNewest ==
  ASSUME ConnectionsInv, NewestInv, ~Overlapped', NEW r \in Requests, NEW new, Moves(r, new),
         req[r].op \in Renewing, req[r].pc = "store", req[r].account \in Accounts,
         StoreTokens(r), new.pc # "store"
  PROVE  NewestInv'
<1> DEFINE k == req[r].account
           got == req[r].level
<1>1. /\ got \in 1..issued[k] /\ UNCHANGED issued /\ Store(k, got, req[r].limit = 2)
      /\ got >= stored[k]
  BY DEF ConnectionsInv, Sound, Over, StoreTokens, NewestInv, NewestBy
<1>2. /\ connections'[k].token = got
      /\ stored'[k] = IF stored[k] < got THEN got ELSE stored[k]
      /\ \A a \in Accounts :
           a # k => connections'[a] = connections[a] /\ stored'[a] = stored[a]
  BY <1>1, StoreRows DEF ConnectionsInv
<1>3. stored'[k] = got
  BY <1>1, <1>2 DEF ConnectionsInv, RowsInv
<1>4. \A a \in Accounts : connections'[a].token = stored'[a]
  BY <1>2, <1>3 DEF NewestInv
<1>5. /\ req'[r].pc = new.pc /\ req'[r].op = req[r].op /\ met \subseteq met'
      /\ \A t \in Requests : t # r => req'[t] = req[t]
  BY MovesRequest DEF ConnectionsInv, InFlight, Over
<1>6. ASSUME NEW q \in Requests, req'[q].op \in Renewing, req'[q].pc = "store"
      PROVE  FALSE
  <2>1. q # r /\ req'[q] = req[q]
    BY <1>5, <1>6
  <2>2. q \in InFlight /\ r \in InFlight
    BY <1>6, <2>1 DEF InFlight, Over
  <2>3. Met(q, r)'
    BY <1>5, <2>1, <2>2 DEF ConnectionsInv, RequestsInv, Met
  <2> QED BY <1>5, <1>6, <2>3 DEF Overlapped
<1> QED BY <1>4, <1>6 DEF NewestInv, NewestBy

\* The status alone is written.
LEMMA StatusRows ==
  ASSUME RowsInv, NEW k \in Accounts, NEW status, status # "none",
         connections' = [connections EXCEPT ![k].status = status], UNCHANGED <<issued, stored>>
  PROVE  /\ RowsInv' /\ StatusKept
         /\ \A a \in Accounts : connections'[a].token = connections[a].token
         /\ \A a \in Accounts : connections'[a].key = connections[a].key
<1>1. IsConnection(connections[k])
  BY DEF RowsInv
<1>2. /\ IsConnection(connections'[k]) /\ connections'[k].status = status
      /\ connections'[k].token = connections[k].token
      /\ connections'[k].key = connections[k].key
  BY <1>1 DEF RowsInv, IsConnection
<1>3. \A a \in Accounts : a # k => connections'[a] = connections[a]
  BY DEF RowsInv
<1>4. connections' = [a \in Accounts |-> connections'[a]]
  BY DEF RowsInv
<1> QED BY <1>2, <1>3, <1>4 DEF RowsInv, StatusKept

LEMMA WriteCallbackInv ==
  ASSUME ConnectionsInv, NEW r \in Requests, WriteCallback(r)
  PROVE  ConnectionsInv'
<1>1. /\ req[r].op = "callback" /\ req[r].pc = "store" /\ req[r].account \in Accounts
      /\ req[r].level \in 1..issued[req[r].account] /\ Goto(r, "done") /\ StoreTokens(r)
  BY DEF WriteCallback, Doing, ConnectionsInv, Sound, Over, Renewing
<1>2. PICK new : Moves(r, new) /\ new.pc = "done"
  BY <1>1, GoesOn DEF ConnectionsInv, Over
<1>3. Sound(req[r])'
  BY <1>2, MovesRequest DEF ConnectionsInv, Sound, Over
<1>4. RowsInv' /\ StatusKept /\ UNCHANGED <<deployed, issued>>
  BY <1>1, StoreRows DEF ConnectionsInv, StoreTokens
<1>5. ~Overlapped' /\ NewestInv => NewestInv'
  BY <1>1, <1>2, StoreNewest DEF Renewing
<1> QED BY <1>1, <1>2, <1>3, <1>4, <1>5, RenewalInv DEF InFlight, Over, Renewing

LEMMA WriteRefreshInv ==
  ASSUME ConnectionsInv, NEW r \in Requests, WriteRefresh(r)
  PROVE  ConnectionsInv'
<1>1. /\ req[r].op \in Refreshers /\ req[r].pc = "store" /\ req[r].account \in Accounts
      /\ req[r].level \in 1..issued[req[r].account] /\ StoreTokens(r)
      /\ (req[r].op = "cron" => req[r].value \subseteq Accounts)
  BY DEF WriteRefresh, Refreshing, ConnectionsInv, Sound, Over, Renewing
<1>2. PICK pc \in {"done", "next"} : Goto(r, pc)
  BY DEF WriteRefresh, AfterRefresh
<1>3. PICK new : /\ Moves(r, new) /\ new.pc = pc /\ new.op = req[r].op
                 /\ new.value = req[r].value
  BY <1>1, <1>2, GoesOn DEF ConnectionsInv, Over
<1>4. Sound(new)'
  BY <1>1, <1>3 DEF Sound, Refreshers
<1>5. Sound(req[r])'
  <2>1. pc = "next" => req'[r] = new
    BY <1>3, MovesRequest DEF ConnectionsInv, Left
  <2>2. pc = "done" => req'[r].pc = "done"
    BY <1>3, MovesRequest DEF ConnectionsInv
  <2> QED BY <1>4, <2>1, <2>2 DEF Sound, Over
<1>6. RowsInv' /\ StatusKept /\ UNCHANGED <<deployed, issued>>
  BY <1>1, StoreRows DEF ConnectionsInv, StoreTokens
<1>7. ~Overlapped' /\ NewestInv => NewestInv'
  BY <1>1, <1>2, <1>3, StoreNewest DEF Renewing
<1> QED BY <1>1, <1>3, <1>5, <1>6, <1>7, RenewalInv DEF InFlight, Over, Renewing

LEMMA WriteExpiredInv ==
  ASSUME ConnectionsInv, NEW r \in Requests, WriteExpired(r)
  PROVE  ConnectionsInv'
<1>1. /\ req[r].op = "use" /\ req[r].pc = "expire" /\ req[r].account \in Accounts
      /\ Goto(r, "refused") /\ UNCHANGED <<deployed, issued, stored>>
      /\ connections' = [connections EXCEPT ![req[r].account].status = "EXPIRED"]
  BY DEF WriteExpired, Doing, ConnectionsInv, Sound, Over, Renewing, Refreshers
<1>2. PICK new : Moves(r, new) /\ new.pc = "refused"
  BY <1>1, GoesOn DEF ConnectionsInv, Over
<1>3. Sound(req[r])'
  BY <1>2, MovesRequest DEF ConnectionsInv, Sound, Over
<1>4. /\ RowsInv' /\ StatusKept
      /\ \A a \in Accounts : connections'[a].token = connections[a].token
  BY <1>1, StatusRows DEF ConnectionsInv
<1>5. NewestInv => NewestInv'
  BY <1>1, <1>2, <1>4, NothingToStore, NewestKept
<1> QED BY <1>1, <1>2, <1>3, <1>4, <1>5, RenewalInv DEF InFlight, Over, Renewing, Refreshers

LEMMA WriteDisconnectInv ==
  ASSUME ConnectionsInv, NEW r \in Requests, WriteDisconnect(r)
  PROVE  ConnectionsInv'
<1>1. /\ req[r].op = "disconnect" /\ req[r].pc = "write" /\ req[r].account \in Accounts
      /\ connections[req[r].account].status # "none"
      /\ Goto(r, "done") /\ UNCHANGED <<deployed, issued, stored>>
      /\ connections' = [connections EXCEPT ![req[r].account].status = "REVOKED"]
  BY DEF WriteDisconnect, Doing, ConnectionsInv, Sound, Over
<1>2. PICK new : Moves(r, new) /\ new.pc = "done" /\ new.op = "disconnect"
  BY <1>1, GoesOn DEF ConnectionsInv, Over
<1>3. /\ Sound(req[r])' /\ req'[r].op = "disconnect"
      /\ \A t \in Requests : t # r => req'[t] = req[t]
  BY <1>2, MovesRequest DEF ConnectionsInv, Sound, Over
<1>4. /\ RowsInv' /\ StatusKept
      /\ \A a \in Accounts : connections'[a].token = connections[a].token
      /\ \A a \in Accounts : connections'[a].key = connections[a].key
  BY <1>1, StatusRows DEF ConnectionsInv
<1>5. \A a \in Accounts : connections'[a].status # "none" => connections[a].status # "none"
  BY <1>1 DEF ConnectionsInv, RowsInv
<1>6. ASSUME RotationInv
      PROVE  \A q \in Requests : Rotates(req'[q], connections')
  <2> SUFFICES ASSUME NEW q \in Requests
               PROVE  Rotates(req'[q], connections')
    OBVIOUS
  <2>1. CASE q = r
    BY <1>3, <2>1 DEF Rotates
  <2>2. CASE q # r
    <3>1. Rotates(req[q], connections) /\ req'[q] = req[q]
      BY <1>3, <1>6, <2>2 DEF RotationInv
    <3> QED BY <1>4, <1>5, <3>1 DEF Rotates
  <2> QED BY <2>1, <2>2
<1>7. NewestInv => NewestInv'
  BY <1>1, <1>2, <1>4, NothingToStore, NewestKept
<1>8. \A k \in Accounts : issued[k] <= issued'[k]
  BY <1>1 DEF ConnectionsInv, RowsInv
<1> QED BY <1>1, <1>2, <1>3, <1>4, <1>6, <1>7, <1>8, StepInv

\* Both tokens of a row and its key are written.
Rewritten(a, newToken, refresh, key) ==
  [connections EXCEPT ![a].token = newToken, ![a].refresh = refresh, ![a].key = key]

LEMMA TokenRows ==
  ASSUME RowsInv, NEW a, NEW newToken, NEW refresh, NEW key, UNCHANGED <<issued, stored>>,
         connections' = Rewritten(a, newToken, refresh, key)
  PROVE  /\ RowsInv' /\ StatusKept
         /\ \A k \in Accounts : connections'[k].status = connections[k].status
         /\ \A k \in Accounts : connections'[k].expires = connections[k].expires
         /\ \A k \in Accounts : k # a => connections'[k] = connections[k]
         /\ a \in Accounts => connections'[a].token = newToken /\ connections'[a].key = key
<1> DEFINE b == [connections EXCEPT ![a].token = newToken]
           c == [b EXCEPT ![a].refresh = refresh]
           d == [c EXCEPT ![a].key = key]
<1>1. /\ b = [k \in Accounts |-> b[k]]
      /\ \A k \in Accounts : k # a => b[k] = connections[k]
      /\ a \in Accounts => /\ IsConnection(b[a]) /\ b[a].token = newToken
                           /\ b[a].status = connections[a].status
                           /\ b[a].expires = connections[a].expires
  <2>1. a \in Accounts => IsConnection(connections[a])
    BY DEF RowsInv
  <2>2. \A k \in Accounts : k # a => b[k] = connections[k]
    BY DEF RowsInv
  <2>3. b = [k \in Accounts |-> b[k]]
    BY DEF RowsInv
  <2>4. a \in Accounts => b[a] = [connections[a] EXCEPT !.token = newToken]
    BY DEF RowsInv
  <2> HIDE DEF b
  <2> QED BY <2>1, <2>2, <2>3, <2>4 DEF IsConnection
<1>2. /\ c = [k \in Accounts |-> c[k]]
      /\ \A k \in Accounts : k # a => c[k] = connections[k]
      /\ a \in Accounts => /\ IsConnection(c[a]) /\ c[a].token = newToken
                           /\ c[a].status = connections[a].status
                           /\ c[a].expires = connections[a].expires
  <2> HIDE DEF b
  <2> QED BY <1>1 DEF IsConnection
<1>3. /\ d = [k \in Accounts |-> d[k]]
      /\ \A k \in Accounts : k # a => d[k] = connections[k]
      /\ a \in Accounts => /\ IsConnection(d[a]) /\ d[a].token = newToken /\ d[a].key = key
                           /\ d[a].status = connections[a].status
                           /\ d[a].expires = connections[a].expires
  <2> HIDE DEF c
  <2> QED BY <1>2 DEF IsConnection
<1>4. connections' = d
  BY DEF Rewritten
<1> HIDE DEF d
<1>5. RowsInv'
  BY <1>3, <1>4 DEF RowsInv
<1>6. \A k \in Accounts : /\ connections'[k].status = connections[k].status
                          /\ connections'[k].expires = connections[k].expires
  BY <1>3, <1>4
<1> QED BY <1>3, <1>4, <1>5, <1>6 DEF StatusKept

\* What a rotation has read of the rows stays true of them.
TokensKept ==
  \A k \in Accounts :
    /\ connections'[k].status = connections[k].status
    /\ connections'[k].token = connections[k].token
    /\ connections[k].key = "new" => connections'[k].key = "new"

LEMMA RotatesKept ==
  ASSUME NEW x, Rotates(x, connections), TokensKept
  PROVE  Rotates(x, connections')
<1> SUFFICES ASSUME x.op = "rotate"
             PROVE  Rotates(x, connections')
  BY DEF Rotates
<1>1. x.pc \in {"rotate", "done"}
  BY DEF Rotates
<1>2. ASSUME NEW k \in Accounts, connections'[k].status # "none"
      PROVE  connections'[k].key = "new" \/ (x.pc = "rotate" /\ \E read \in x.value : read.of = k)
  BY <1>2 DEF Rotates, TokensKept
<1>3. ASSUME x.pc = "rotate", NEW read \in x.value
      PROVE  /\ read.of \in Accounts /\ IsConnection(read.row)
             /\ read.row.token = connections'[read.of].token
  BY <1>3 DEF Rotates, TokensKept
<1> QED BY <1>1, <1>2, <1>3 DEF Rotates

\* The token that is written is the one that is there.
LEMMA RotateConnectionInv ==
  ASSUME ConnectionsInv, NEW r \in Requests, RotateConnection(r)
  PROVE  ConnectionsInv'
<1>1. /\ req[r].op = "rotate" /\ req[r].pc = "rotate" /\ IsRequest(req[r])
      /\ UNCHANGED <<deployed, issued, stored>>
  BY DEF RotateConnection, Doing, ConnectionsInv, RequestsInv
<1>2. PICK read \in req[r].value :
        /\ connections' = [connections EXCEPT ![read.of].token = Rotated(read.row).token,
                             ![read.of].refresh = Rotated(read.row).refresh,
                             ![read.of].key = Rotated(read.row).key]
        /\ Becomes(r, [req[r] EXCEPT !.value = req[r].value \ {read}])
  BY DEF RotateConnection
<1>3. PICK new : /\ Becomes(r, new) /\ IsRequest(new) /\ new.pc = "rotate"
                 /\ new.op = "rotate" /\ new.value = req[r].value \ {read}
  <2>1. LET x == [req[r] EXCEPT !.value = req[r].value \ {read}]
        IN /\ IsRequest(x) /\ x.pc = "rotate" /\ x.op = "rotate"
           /\ x.value = req[r].value \ {read}
    BY <1>1 DEF IsRequest
  <2> QED BY <1>2, <2>1
<1>4. Moves(r, new)
  BY <1>1, <1>3 DEF Moves, Over
<1>5. /\ req'[r] = new
      /\ \A t \in Requests : t # r => req'[t] = req[t]
  BY <1>3, <1>4, MovesRequest DEF ConnectionsInv, Left
<1>6. Sound(req[r])'
  BY <1>3, <1>5 DEF Sound, Renewing, Refreshers
<1>7. connections' = Rewritten(read.of, Rotated(read.row).token, Rotated(read.row).refresh,
                              Rotated(read.row).key)
  BY <1>2 DEF Rewritten
<1>8. /\ RowsInv' /\ StatusKept
      /\ \A k \in Accounts : connections'[k].status = connections[k].status
      /\ \A k \in Accounts : k # read.of => connections'[k] = connections[k]
      /\ read.of \in Accounts => /\ connections'[read.of].token = Rotated(read.row).token
                                 /\ connections'[read.of].key = Rotated(read.row).key
  BY <1>1, <1>7, TokenRows DEF ConnectionsInv
<1>9. ASSUME RotationInv
      PROVE  /\ \A k \in Accounts : connections'[k].token = connections[k].token
             /\ \A q \in Requests : Rotates(req'[q], connections')
  <2>1. /\ read.of \in Accounts /\ IsConnection(read.row)
        /\ read.row.token = connections[read.of].token
    BY <1>1, <1>9 DEF RotationInv, Rotates
  <2>2. Rotated(read.row).token = read.row.token /\ Rotated(read.row).key = "new"
    BY <2>1 DEF Rotated, IsConnection
  <2>3. TokensKept
    BY <1>8, <2>1, <2>2 DEF TokensKept
  <2>4. connections'[read.of].key = "new"
    BY <1>8, <2>1, <2>2
  <2>5. \A q \in Requests : Rotates(req'[q], connections')
    <3>1. ASSUME NEW q \in Requests, q # r
          PROVE  Rotates(req'[q], connections')
      <4>1. PICK x : x = req[q]
        OBVIOUS
      <4>2. Rotates(x, connections) /\ req'[q] = x
        BY <1>5, <1>9, <3>1, <4>1 DEF RotationInv
      <4>3. Rotates(x, connections')
        BY <2>3, <4>2, RotatesKept
      <4> QED BY <4>2, <4>3 DEF Rotates
    <3>2. Rotates(req'[r], connections')
      <4>1. PICK x : x = req[r]
        OBVIOUS
      <4>2. Rotates(x, connections)
        BY <1>9, <4>1 DEF RotationInv
      <4>3. Rotates(x, connections')
        BY <2>3, <4>2, RotatesKept
      <4>4. x.op = "rotate" /\ x.pc = "rotate" /\ new.value = x.value \ {read}
        BY <1>1, <1>3, <4>1
      <4>5. ASSUME NEW k \in Accounts, connections'[k].status # "none"
            PROVE  connections'[k].key = "new" \/ \E other \in new.value : other.of = k
        BY <2>4, <4>3, <4>4, <4>5 DEF Rotates
      <4>6. \A other \in new.value :
              /\ other.of \in Accounts /\ IsConnection(other.row)
              /\ other.row.token = connections'[other.of].token
        BY <4>3, <4>4 DEF Rotates
      <4> QED BY <1>3, <1>5, <4>5, <4>6 DEF Rotates
    <3> QED BY <3>1, <3>2
  <2> QED BY <2>3, <2>5 DEF TokensKept
<1>10. ASSUME ~Renewed', NewestInv
       PROVE  NewestInv'
  <2>1. RotationInv
    BY <1>4, <1>10, MovesRenewed DEF ConnectionsInv
  <2> QED BY <1>1, <1>3, <1>4, <1>9, <1>10, <2>1, NothingToStore, NewestKept
<1>11. \A k \in Accounts : issued[k] <= issued'[k]
  BY <1>1 DEF ConnectionsInv, RowsInv
<1> QED BY <1>1, <1>4, <1>6, <1>8, <1>9, <1>10, <1>11, StepInv

\* What is deployed is deployed after a rotation, with nothing under way.
LEMMA DeployKeyInv ==
  ASSUME ConnectionsInv, DeployKey
  PROVE  ConnectionsInv'
<1>1. /\ UNCHANGED <<connections, issued, stored, requestVars>>
      /\ \E r \in Requests : Done(r, "rotate")
  BY DEF DeployKey
<1>2. RequestsInv' /\ (RotationInv => RotationInv') /\ (Renewed => Renewed')
  BY <1>1 DEF ConnectionsInv, RequestsInv, RotationInv, Rotates, Renewed, requestVars, InFlight,
              Met, Done, Doing
<1>3. (Overlapped => Overlapped') /\ (NewestInv => NewestInv')
  BY <1>1 DEF Overlapped, Met, NewestInv, NewestBy, requestVars
<1> QED BY <1>1, <1>2, <1>3 DEF ConnectionsInv, RowsInv, Sound, requestVars

LEMMA ConnectionsStepInv ==
  ASSUME ConnectionsInv, ConnectionsStep
  PROVE  ConnectionsInv'
<1>1. CASE TimePasses
  BY <1>1, RestInv DEF TimePasses
<1> QED BY <1>1, DeployKeyInv, CallbackInv, CallbackFailsInv, ExchangesInv, WriteCallbackInv, DisconnectInv, WriteDisconnectInv,
           GetActiveConnectionInv, RefreshExpiringSoonInv, RefreshConnectionByIdInv,
           WriteRefreshInv, RefreshFailsInv, WriteExpiredInv, ReadConnectionsInv,
           RotateConnectionInv, RotationEndsInv DEF ConnectionsStep

-----------------------------------------------------------------------------
LEMMA ConnectionsInitInv == Init => ConnectionsInv
<1> SUFFICES ASSUME Init PROVE ConnectionsInv
  OBVIOUS
<1>1. req = [r \in Requests |-> NewRequest] /\ deployed = "old"
  BY DEF Init, RequestsInit, ConnectionsInit
<1>2. RequestsInv
  BY InitInv DEF OwnerInv
<1>3. NewRequest.pc = "new" /\ NewRequest.op = "none"
  BY DEF NewRequest
<1>4. \A r \in Requests : Sound(req[r]) /\ Rotates(req[r], connections)
  BY <1>1, <1>3 DEF Sound, Rotates, Renewing, Refreshers
<1>5. \A k \in Accounts : IsConnection(connections[k]) /\ connections[k].token \in 0..MaxTokens
  <2>1. IsConnection(NoConnection) /\ NoConnection.token \in 0..MaxTokens
    BY ConnectionsAssumption DEF IsConnection, NoConnection
  <2>2. ASSUME NEW c, c = [NoConnection EXCEPT !.status = "ACTIVE", !.token = 1,
                                               !.expires = 1, !.refresh = TRUE]
        PROVE  IsConnection(c) /\ c.token \in 0..MaxTokens
    <3>1. IsConnection(c)
      BY <2>2 DEF IsConnection, NoConnection
    <3>2. c.token = 1
      BY <2>2 DEF NoConnection
    <3> QED BY <3>1, <3>2, ConnectionsAssumption
  <2> QED BY <2>1, <2>2 DEF Init, ConnectionsInit
<1>6. /\ connections = [k \in Accounts |-> connections[k]]
      /\ issued = [k \in Accounts |-> connections[k].token] /\ stored = issued
  BY DEF Init, ConnectionsInit
<1>7. RowsInv
  BY <1>5, <1>6 DEF RowsInv
<1>8. RotationInv
  BY <1>1, <1>3, <1>4 DEF RotationInv, InFlight
<1>9. NewestInv
  BY <1>1, <1>3, <1>6 DEF NewestInv, NewestBy
<1> QED BY <1>2, <1>4, <1>7, <1>8, <1>9 DEF ConnectionsInv

LEMMA ConnectionsNextInv ==
  ASSUME ConnectionsInv, [Next]_vars
  PROVE  ConnectionsInv'
<1>1. CASE UNCHANGED vars
  BY <1>1, RestInv DEF vars, connectionVars
<1>2. CASE ConnectionsStep
  BY <1>2, ConnectionsStepInv
<1>3. CASE /\ TeamsStep \/ SubscriptionStep \/ AdaptersStep
           /\ UNCHANGED connectionVars
  <2>1. RequestsInv
    BY DEF ConnectionsInv
  <2>2. \/ UNCHANGED requestVars
        \/ \E r \in Requests : Serves(r, TeamOps \cup Losing) \/ Serves(r, BillingOps)
                                \/ Serves(r, PlatformOps)
    BY <1>3, <2>1, TeamsServe, SubscriptionServes, AdaptersServe
  <2>3. /\ (TeamOps \cup Losing) \cap SocialOps = {} /\ BillingOps \cap SocialOps = {}
        /\ PlatformOps \cap SocialOps = {}
    BY DEF TeamOps, Losing, BillingOps, SocialOps, PlatformOps
  <2>4. CASE UNCHANGED requestVars
    BY <1>3, <2>4, RestInv DEF connectionVars
  <2> QED BY <1>3, <2>2, <2>3, <2>4, ElsewhereInv
<1> QED BY <1>1, <1>2, <1>3 DEF Next

\* A rotation of the key loses no token, however many accounts there are and however many
\* rotations run, unless one was renewed after the first had begun
\* (rotate-token-encryption-key.ts:17); and no older token is left in a row, unless two that
\* renewed one were served at the same time (social-connections.service.ts:70, :164).
THEOREM RotationLosesNothing == Spec => []TokensSurviveRotation
<1>1. ConnectionsInv => TokensSurviveRotation
  <2> SUFFICES ASSUME ConnectionsInv, NEW k \in Accounts
               PROVE  /\ ~Readable(k) /\ deployed = "new" /\ connections[k].status # "none"
                           => Renewed
                      /\ connections[k].token < stored[k] => Renewed \/ Overlapped
    BY DEF Renewed, Renewing, Overlapped, TokensSurviveRotation
  <2>1. RotationInv /\ deployed = "new" /\ connections[k].status # "none" => Readable(k)
    BY DEF RotationInv, Rotates, Done, Doing, Readable
  <2>2. NewestInv => ~(connections[k].token < stored[k])
    BY DEF ConnectionsInv, NewestInv, RowsInv
  <2> QED BY <2>1, <2>2 DEF ConnectionsInv
<1> QED BY <1>1, ConnectionsInitInv, ConnectionsNextInv, PTL DEF Spec

-----------------------------------------------------------------------------
(* What the status of a row says, and what a refresh that is under way has read. *)

AgesInv ==
  /\ age = [k \in Accounts |-> age[k]]
  /\ \A k \in Accounts : age[k] = [t \in 1..MaxTokens |-> age[k][t]]

TokensInv ==
  \A k \in Accounts :
    connections[k].status # "none" => connections[k].expires \in 1..MaxTokens

\* Another request renewed the token meanwhile.
MetRenewal(r) == \E s \in Requests : Met(r, s) /\ req[s].op \in Renewing

\* Another request disconnected the account meanwhile.
MetDisconnection(r, k) ==
  \E s \in Requests : Met(r, s) /\ Done(s, "disconnect") /\ req[s].account = k

\* A publication that refreshes goes by the token of the row, or there is a newer one.
UseSound(r) ==
  req[r].op = "use" /\ req[r].pc \in {"refresh", "store", "expire"} =>
    /\ connections[req[r].account].status # "none" /\ req[r].seen \in 1..MaxTokens
    /\ req[r].pc = "expire" => age[req[r].account][req[r].seen] = "over"
    /\ connections[req[r].account].expires = req[r].seen \/ MetRenewal(r)

\* The accounts that a request is going to refresh.
Held(x) ==
  {k \in Accounts : \/ x.op \in Refreshers /\ x.pc \in {"refresh", "store"} /\ k = x.account
                    \/ x.op = "cron" /\ x.pc \notin Over /\ k \in x.value}

\* None of them is revoked, unless it became so meanwhile.
HeldSound(r) ==
  \A k \in Held(req[r]) : connections[k].status # "REVOKED" \/ MetDisconnection(r, k)

StatusInv ==
  /\ AgesInv
  /\ TokensInv
  /\ \A r \in Requests : UseSound(r)
  /\ \A r \in Requests : HeldSound(r)

LEMMA MetKept ==
  ASSUME RequestsInv, NEW r \in Requests, NEW new, Moves(r, new), NEW q \in Requests
  PROVE  /\ MetRenewal(q) => MetRenewal(q)'
         /\ \A k : MetDisconnection(q, k) => MetDisconnection(q, k)'
<1>1. /\ met \subseteq met' /\ req'[r].op = new.op
      /\ \A s \in Requests : s # r => req'[s] = req[s]
      /\ req[r].pc = "new" \/ (new.op = req[r].op /\ r \in InFlight)
      /\ req[r].pc = "new" => req[r].op = "none"
  BY MovesRequest DEF RequestsInv
<1>2. ASSUME NEW s \in Requests, Met(q, s)
      PROVE  Met(q, s)'
  BY <1>1, <1>2 DEF Met
<1>3. ASSUME NEW s \in Requests, req[s].op \in Renewing
      PROVE  req'[s].op \in Renewing
  BY <1>1, <1>3 DEF Renewing, Refreshers
<1>4. ASSUME NEW s \in Requests, Done(s, "disconnect")
      PROVE  req'[s] = req[s]
  BY <1>1, <1>4 DEF Done, Doing, InFlight, Over
<1>5. MetRenewal(q) => MetRenewal(q)'
  BY <1>2, <1>3 DEF MetRenewal
<1>6. ASSUME NEW k, MetDisconnection(q, k)
      PROVE  MetDisconnection(q, k)'
  <2>1. PICK s \in Requests : Met(q, s) /\ Done(s, "disconnect") /\ req[s].account = k
    BY <1>6 DEF MetDisconnection
  <2>2. Met(q, s)' /\ req'[s] = req[s]
    BY <1>2, <1>4, <2>1
  <2> QED BY <2>1, <2>2 DEF MetDisconnection, Done, Doing
<1> QED BY <1>5, <1>6

\* What a step of request r may do to the rows, as far as the others are concerned.
Disturbs(r) ==
  /\ StatusKept
  /\ \A k \in Accounts : connections'[k].expires = connections[k].expires
                         \/ (r \in InFlight /\ req[r].op \in Renewing)
  /\ \A k \in Accounts : connections'[k].status = "REVOKED" =>
       \/ connections[k].status = "REVOKED"
       \/ r \in InFlight /\ Done(r, "disconnect")' /\ req'[r].account = k

LEMMA OthersKept ==
  ASSUME ConnectionsInv, StatusInv, NEW r \in Requests, NEW new, Moves(r, new),
         UNCHANGED age, Disturbs(r), NEW q \in Requests, q # r
  PROVE  UseSound(q)' /\ HeldSound(q)'
<1>1. /\ req'[q] = req[q] /\ req'[r].op = new.op
      /\ req[r].pc = "new" \/ (new.op = req[r].op /\ r \in InFlight)
      /\ met \subseteq met'
  BY MovesRequest DEF ConnectionsInv
<1>2. /\ MetRenewal(q) => MetRenewal(q)'
      /\ \A k : MetDisconnection(q, k) => MetDisconnection(q, k)'
  BY MetKept DEF ConnectionsInv
<1>3. r \in InFlight /\ q \in InFlight => Met(q, r)'
  BY <1>1 DEF ConnectionsInv, RequestsInv, Met
<1>4. ASSUME req[q].op = "use", req[q].pc \in {"refresh", "store", "expire"}
      PROVE  /\ connections'[req[q].account].status # "none"
             /\ connections'[req[q].account].expires = req[q].seen \/ MetRenewal(q)'
  <2>1. req[q].account \in Accounts /\ q \in InFlight
    BY <1>4 DEF ConnectionsInv, Sound, Over, InFlight, Renewing, Refreshers
  <2>2. ASSUME r \in InFlight, req[r].op \in Renewing
        PROVE  MetRenewal(q)'
    <3>1. req'[r].op \in Renewing
      BY <1>1, <2>2 DEF InFlight
    <3> QED BY <1>3, <2>1, <2>2, <3>1 DEF MetRenewal
  <2>3. ASSUME connections'[req[q].account].expires = connections[req[q].account].expires
        PROVE  connections'[req[q].account].expires = req[q].seen \/ MetRenewal(q)'
    BY <1>2, <1>4, <2>3 DEF StatusInv, UseSound
  <2>4. connections'[req[q].account].status # "none"
    BY <1>4, <2>1 DEF StatusInv, UseSound, Disturbs, StatusKept
  <2> QED BY <2>1, <2>2, <2>3, <2>4 DEF Disturbs
<1>5. UseSound(q)'
  BY <1>1, <1>4 DEF StatusInv, UseSound
<1>6. ASSUME NEW k \in Held(req[q]), connections'[k].status = "REVOKED"
      PROVE  MetDisconnection(q, k)'
  <2>1. q \in InFlight /\ k \in Accounts
    <3>1. req[q].pc = "new" => req[q].op = "none"
      BY DEF ConnectionsInv, RequestsInv
    <3> QED BY <1>6, <3>1 DEF Held, InFlight, Over, Refreshers
  <2>2. CASE connections[k].status = "REVOKED"
    BY <1>2, <1>6, <2>2 DEF StatusInv, HeldSound
  <2>3. CASE r \in InFlight /\ Done(r, "disconnect")' /\ req'[r].account = k
    BY <1>3, <2>1, <2>3 DEF MetDisconnection
  <2> QED BY <1>6, <2>1, <2>2, <2>3 DEF Disturbs
<1>7. HeldSound(q)'
  BY <1>1, <1>6 DEF HeldSound, Held
<1> QED BY <1>5, <1>7

\* One step of one request.
LEMMA StatusStep ==
  ASSUME ConnectionsInv, StatusInv, NEW r \in Requests, NEW new, Moves(r, new),
         UNCHANGED age, Disturbs(r), TokensInv', UseSound(r)', HeldSound(r)'
  PROVE  StatusInv'
<1>1. AgesInv'
  BY DEF StatusInv, AgesInv
<1>2. \A q \in Requests : UseSound(q)' /\ HeldSound(q)'
  BY OthersKept
<1> QED BY <1>1, <1>2 DEF StatusInv

\* A request that writes no row, and is not going to refresh more than before.
LEMMA ReaderStatus ==
  ASSUME ConnectionsInv, StatusInv, NEW r \in Requests, NEW new, Moves(r, new),
         UNCHANGED <<age, connections>>, UseSound(r)', HeldSound(r)'
  PROVE  StatusInv'
<1>1. TokensInv' /\ Disturbs(r)
  BY DEF StatusInv, TokensInv, Disturbs, StatusKept
<1> QED BY <1>1, StatusStep

LEMMA NoRefresher ==
  ASSUME NEW r \in Requests, req'[r].op \notin Refreshers
  PROVE  UseSound(r)' /\ HeldSound(r)'
  BY DEF UseSound, HeldSound, Held, Refreshers

LEMMA FewerHeld ==
  ASSUME RequestsInv, StatusInv, NEW r \in Requests, NEW new, Moves(r, new),
         Held(req'[r]) \subseteq Held(req[r]),
         \A k \in Held(req[r]) : connections'[k].status = "REVOKED" => connections[k].status = "REVOKED"
  PROVE  HeldSound(r)'
<1>1. \A k : MetDisconnection(r, k) => MetDisconnection(r, k)'
  BY MetKept
<1>2. ASSUME NEW k \in Held(req'[r]), connections'[k].status = "REVOKED"
      PROVE  MetDisconnection(r, k)'
  BY <1>1, <1>2 DEF StatusInv, HeldSound
<1> QED BY <1>2 DEF HeldSound, Held

-----------------------------------------------------------------------------
(* Each step.                                                               *)

\* A request for an account that arrives, as it was called.
LEMMA ArrivesStatus ==
  ASSUME ConnectionsInv, StatusInv, NEW r \in Requests, NEW d, Arrives(r, d),
         NEW x, Call(r, x), Started(x, SocialOps), UNCHANGED connectionVars,
         x.op = "use" /\ x.pc = "refresh" =>
           /\ x.account \in Accounts /\ connections[x.account].status # "none"
           /\ x.seen = connections[x.account].expires,
         \A k \in Held(x) : connections[k].status # "REVOKED",
         x.op = "use" => x.pc \notin {"store", "expire"}
  PROVE  StatusInv'
<1>1. Moves(r, x) /\ IsRequest(x)
  BY ArrivesMoves DEF Started
<1>2. req'[r] = Left(x) /\ req'[r].op = x.op /\ req'[r].pc = x.pc
  BY <1>1, MovesRequest DEF ConnectionsInv
<1>3. UseSound(r)' /\ HeldSound(r)'
  <2>1. CASE x.pc \in {"done", "refused"}
    BY <1>2, <2>1 DEF UseSound, HeldSound, Held, Over
  <2>2. CASE x.pc \notin {"done", "refused"}
    <3>1. req'[r] = x
      BY <1>2, <2>2 DEF Left
    <3>2. HeldSound(r)'
      BY <3>1 DEF HeldSound, Held, connectionVars
    <3>3. UseSound(r)'
      BY <3>1 DEF UseSound, connectionVars, StatusInv, TokensInv
    <3> QED BY <3>2, <3>3
  <2> QED BY <2>1, <2>2
<1> QED BY <1>1, <1>3, ReaderStatus DEF connectionVars

LEMMA CallbackStatus ==
  ASSUME ConnectionsInv, StatusInv, NEW r \in Requests, Callback(r)
  PROVE  StatusInv'
<1>1. PICK k, x : /\ Call(r, x)
                  /\ x = [NewRequest EXCEPT !.op = "callback", !.pc = "exchange", !.account = k]
  BY DEF Callback
<1>2. Started(x, SocialOps) /\ x.op = "callback"
  BY <1>1 DEF Started, NewRequest, IsRequest, SocialOps
<1>3. Held(x) = {}
  BY <1>2 DEF Held, Refreshers
<1> QED BY <1>1, <1>2, <1>3, ArrivesStatus DEF Callback

LEMMA DisconnectStatus ==
  ASSUME ConnectionsInv, StatusInv, NEW r \in Requests, Disconnect(r)
  PROVE  StatusInv'
<1>1. PICK k, x : /\ Call(r, x)
                  /\ x = [NewRequest EXCEPT !.op = "disconnect", !.pc = "write", !.account = k]
  BY DEF Disconnect
<1>2. Started(x, SocialOps) /\ x.op = "disconnect"
  BY <1>1 DEF Started, NewRequest, IsRequest, SocialOps
<1>3. Held(x) = {}
  BY <1>2 DEF Held, Refreshers
<1> QED BY <1>1, <1>2, <1>3, ArrivesStatus DEF Disconnect

LEMMA ReadConnectionsStatus ==
  ASSUME ConnectionsInv, StatusInv, NEW r \in Requests, ReadConnections(r)
  PROVE  StatusInv'
<1>1. PICK value, x : /\ Call(r, x)
                      /\ x = [NewRequest EXCEPT !.op = "rotate", !.pc = "rotate", !.value = value]
  BY DEF ReadConnections
<1>2. Started(x, SocialOps) /\ x.op = "rotate"
  BY <1>1 DEF Started, NewRequest, IsRequest, SocialOps
<1>3. Held(x) = {}
  BY <1>2 DEF Held, Refreshers
<1> QED BY <1>1, <1>2, <1>3, ArrivesStatus DEF ReadConnections

LEMMA GetActiveConnectionStatus ==
  ASSUME ConnectionsInv, StatusInv, NEW r \in Requests, GetActiveConnection(r)
  PROVE  StatusInv'
<1>1. PICK k, limit, pc, x :
        /\ k \in Accounts /\ connections[k].status = "ACTIVE"
        /\ Call(r, x) /\ pc \in {"refresh", "done", "refused"}
        /\ x = [NewRequest EXCEPT !.op = "use", !.account = k, !.seen = connections[k].expires,
                                  !.limit = limit, !.pc = pc]
  BY DEF GetActiveConnection
<1>2. /\ Started(x, SocialOps) /\ x.op = "use" /\ x.account = k
      /\ x.seen = connections[k].expires /\ x.pc = pc
  BY <1>1 DEF Started, NewRequest, IsRequest, SocialOps
<1>3. Held(x) \subseteq {k}
  BY <1>2 DEF Held
<1> QED BY <1>1, <1>2, <1>3, ArrivesStatus DEF GetActiveConnection

LEMMA RefreshExpiringSoonStatus ==
  ASSUME ConnectionsInv, StatusInv, NEW r \in Requests, RefreshExpiringSoon(r)
  PROVE  StatusInv'
<1>1. PICK value, x :
        /\ \A k \in value : connections[k].status = "ACTIVE"
        /\ Call(r, x)
        /\ x = [NewRequest EXCEPT !.op = "cron", !.pc = "next", !.value = value]
  <2>1. \A k \in {a \in Accounts : Listed(a)} : connections[k].status = "ACTIVE"
    BY DEF Listed
  <2> QED BY <2>1 DEF RefreshExpiringSoon
<1>2. Started(x, SocialOps) /\ x.op = "cron" /\ x.pc = "next" /\ x.value = value
  BY <1>1 DEF Started, NewRequest, IsRequest, SocialOps
<1>3. Held(x) \subseteq value
  BY <1>2 DEF Held
<1> QED BY <1>1, <1>2, <1>3, ArrivesStatus DEF RefreshExpiringSoon

\* A request that goes on where it is not going to use what it has read.
LEMMA GoesOnStatus ==
  ASSUME ConnectionsInv, NEW r \in Requests, NEW pc, Goto(r, pc),
         req[r].pc \notin {"new"} \cup Over, pc \in {"done", "refused", "next"}
  PROVE  /\ \E new : Moves(r, new)
         /\ UseSound(r)' /\ Held(req'[r]) \subseteq Held(req[r])
         /\ req'[r].op = req[r].op /\ req'[r].pc = pc
<1>1. PICK new : /\ Moves(r, new) /\ new.pc = pc /\ new.op = req[r].op
                 /\ new.account = req[r].account /\ new.value = req[r].value
  BY GoesOn DEF ConnectionsInv
<1>2. req'[r] = Left(new) /\ req'[r].op = new.op /\ req'[r].pc = pc
  BY <1>1, MovesRequest DEF ConnectionsInv
<1>3. UseSound(r)'
  BY <1>2 DEF UseSound
<1>4. Held(req'[r]) \subseteq Held(req[r])
  <2>1. CASE pc = "next"
    <3>1. req'[r] = new
      BY <1>1, <1>2, <2>1 DEF Left
    <3> QED BY <1>1, <2>1, <3>1 DEF Held
  <2>2. CASE pc # "next"
    BY <1>2, <2>2 DEF Held, Over
  <2> QED BY <2>1, <2>2
<1> QED BY <1>1, <1>2, <1>3, <1>4

LEMMA RefreshConnectionByIdStatus ==
  ASSUME ConnectionsInv, StatusInv, NEW r \in Requests, RefreshConnectionById(r)
  PROVE  StatusInv'
<1>1. /\ IsRequest(req[r]) /\ req[r].op = "cron" /\ req[r].pc = "next"
      /\ req[r].value \subseteq Accounts /\ UNCHANGED connectionVars
  BY DEF RefreshConnectionById, Doing, ConnectionsInv, RequestsInv, Sound, Over
<1>2. CASE Goto(r, "done")
  <2>1. /\ \E new : Moves(r, new)
        /\ UseSound(r)' /\ Held(req'[r]) \subseteq Held(req[r])
    BY <1>1, <1>2, GoesOnStatus DEF Over
  <2> QED BY <1>1, <2>1, FewerHeld, ReaderStatus DEF connectionVars, ConnectionsInv
<1>3. CASE ~Goto(r, "done")
  <2>1. PICK k \in req[r].value :
          Becomes(r, [req[r] EXCEPT !.pc = "refresh", !.account = k,
                        !.value = req[r].value \ {k}, !.seen = connections[k].expires,
                        !.limit = ReadTokens(k)])
    BY <1>3 DEF RefreshConnectionById
  <2>2. PICK x : /\ Becomes(r, x) /\ IsRequest(x) /\ x.pc = "refresh" /\ x.op = "cron"
                 /\ x.account = k /\ x.value = req[r].value \ {k}
    <3>1. ASSUME NEW x, x = [req[r] EXCEPT !.pc = "refresh", !.account = k,
                        !.value = req[r].value \ {k}, !.seen = connections[k].expires,
                        !.limit = ReadTokens(k)]
          PROVE  /\ IsRequest(x) /\ x.pc = "refresh" /\ x.op = "cron"
                 /\ x.account = k /\ x.value = req[r].value \ {k}
      BY <1>1, <3>1 DEF IsRequest
    <3> QED BY <2>1, <3>1
  <2>3. Moves(r, x)
    BY <1>1, <2>2 DEF Moves, Over
  <2>4. req'[r] = x
    BY <2>2, <2>3, MovesRequest DEF ConnectionsInv, Left
  <2>5. Held(req'[r]) \subseteq Held(req[r])
    BY <1>1, <2>2, <2>4 DEF Held, Over
  <2>6. UseSound(r)'
    BY <2>2, <2>4 DEF UseSound
  <2> QED BY <1>1, <2>3, <2>5, <2>6, FewerHeld, ReaderStatus DEF connectionVars, ConnectionsInv
<1> QED BY <1>2, <1>3

\* A publication finds its token over: what it has read of its age stays so.
LEMMA RefreshFailsStatus ==
  ASSUME ConnectionsInv, StatusInv, NEW r \in Requests, RefreshFails(r)
  PROVE  StatusInv'
<1>1. /\ req[r].op \in Refreshers /\ req[r].pc \in {"refresh", "store"} /\ UNCHANGED connectionVars
  BY DEF RefreshFails, Refreshing
<1>2. PICK pc \in {"expire", "refused", "done", "next"} :
        /\ Goto(r, pc)
        /\ pc = "expire" => req[r].op = "use" /\ age[req[r].account][req[r].seen] = "over"
  BY DEF RefreshFails, AfterRefresh
<1>3. CASE pc # "expire"
  <2>1. /\ \E new : Moves(r, new)
        /\ UseSound(r)' /\ Held(req'[r]) \subseteq Held(req[r])
    BY <1>1, <1>2, <1>3, GoesOnStatus DEF Over
  <2> QED BY <1>1, <2>1, FewerHeld, ReaderStatus DEF connectionVars, ConnectionsInv
<1>4. CASE pc = "expire"
  <2>1. PICK new : /\ Moves(r, new) /\ new.pc = pc /\ new.op = req[r].op
                   /\ new.account = req[r].account /\ new.seen = req[r].seen
    BY <1>1, <1>2, GoesOn DEF ConnectionsInv, Over
  <2>2. req'[r] = new
    BY <1>4, <2>1, MovesRequest DEF ConnectionsInv, Left
  <2>3. MetRenewal(r) => MetRenewal(r)'
    BY <2>1, MetKept DEF ConnectionsInv
  <2>4. UseSound(r)
    BY DEF StatusInv
  <2>5. UseSound(r)'
    BY <1>1, <1>2, <1>4, <2>1, <2>2, <2>3, <2>4 DEF UseSound, connectionVars
  <2>6. HeldSound(r)'
    BY <1>2, <1>4, <2>1, <2>2 DEF HeldSound, Held
  <2> QED BY <1>1, <2>1, <2>5, <2>6, ReaderStatus DEF connectionVars
<1> QED BY <1>3, <1>4

LEMMA CallbackFailsStatus ==
  ASSUME ConnectionsInv, StatusInv, NEW r \in Requests, CallbackFails(r)
  PROVE  StatusInv'
<1>1. /\ req[r].op = "callback" /\ req[r].pc \in {"exchange", "store"} /\ Goto(r, "refused")
      /\ UNCHANGED connectionVars
  BY DEF CallbackFails, Doing
<1>2. (\E new : Moves(r, new)) /\ req'[r].op = "callback"
  BY <1>1, GoesOnStatus DEF Over
<1> QED BY <1>1, <1>2, NoRefresher, ReaderStatus DEF connectionVars, Refreshers

\* A token is given, and not written yet.
LEMMA ExchangesStatus ==
  ASSUME ConnectionsInv, StatusInv, NEW r \in Requests, ExchangeCode(r) \/ RefreshAccessToken(r)
  PROVE  StatusInv'
<1>1. /\ req[r].op \in Renewing /\ req[r].pc \in {"exchange", "refresh"}
      /\ req[r].op \in Refreshers => req[r].pc = "refresh"
      /\ \E refresh : TokenGiven(r, refresh)
      /\ UNCHANGED <<age, connections>>
  BY DEF ExchangeCode, RefreshAccessToken, TokenGiven, Doing, Refreshing, Refreshers, Renewing
<1>2. PICK new : /\ Moves(r, new) /\ new.pc = "store" /\ new.op = req[r].op
                 /\ new.account = req[r].account /\ new.value = req[r].value
                 /\ new.seen = req[r].seen
  BY <1>1, TokenGivenMoves DEF ConnectionsInv, Over
<1>3. req'[r] = new
  BY <1>2, MovesRequest DEF ConnectionsInv, Left
<1>4. MetRenewal(r) => MetRenewal(r)'
  BY <1>2, MetKept DEF ConnectionsInv
<1>5. UseSound(r)'
  <2>1. UseSound(r)
    BY DEF StatusInv
  <2> QED BY <1>1, <1>2, <1>3, <1>4, <2>1 DEF UseSound, Refreshers
<1>6. Held(req'[r]) \subseteq Held(req[r])
  BY <1>1, <1>2, <1>3 DEF Held, Over
<1>7. HeldSound(r)'
  BY <1>1, <1>2, <1>6, FewerHeld DEF ConnectionsInv
<1> QED BY <1>1, <1>2, <1>5, <1>7, ReaderStatus

LEMMA RotationEndsStatus ==
  ASSUME ConnectionsInv, StatusInv, NEW r \in Requests, RotationEnds(r)
  PROVE  StatusInv'
<1>1. req[r].op = "rotate" /\ req[r].pc = "rotate" /\ Goto(r, "done") /\ UNCHANGED connectionVars
  BY DEF RotationEnds, Doing
<1>2. (\E new : Moves(r, new)) /\ req'[r].op = "rotate"
  BY <1>1, GoesOnStatus DEF Over
<1> QED BY <1>1, <1>2, NoRefresher, ReaderStatus DEF connectionVars, Refreshers

-----------------------------------------------------------------------------
(* The writes.                                                              *)

LEMMA StoreStatus ==
  ASSUME ConnectionsInv, StatusInv, NEW r \in Requests, req[r].op \in Renewing,
         req[r].pc = "store", StoreTokens(r)
  PROVE  /\ TokensInv' /\ req[r].account \in Accounts /\ UNCHANGED age
         /\ connections'[req[r].account].status = "ACTIVE"
         /\ \A a \in Accounts : a # req[r].account => connections'[a] = connections[a]
<1> DEFINE k == req[r].account
           got == req[r].level
<1>1. /\ k \in Accounts /\ got \in 1..issued[k] /\ UNCHANGED <<age, issued>>
      /\ Store(k, got, req[r].limit = 2)
  BY DEF ConnectionsInv, Sound, Over, StoreTokens
<1>2. /\ connections'[k].expires = got /\ connections'[k].status = "ACTIVE"
      /\ \A a \in Accounts : a # k => connections'[a] = connections[a]
  BY <1>1, StoreRows DEF ConnectionsInv
<1>3. got \in 1..MaxTokens
  BY <1>1, ConnectionsAssumption DEF ConnectionsInv, RowsInv
<1> QED BY <1>1, <1>2, <1>3 DEF StatusInv, TokensInv

LEMMA WrittenStatus ==
  ASSUME RowsInv, TokensInv, NEW k \in Accounts, NEW status, status # "none",
         connections[k].status # "none",
         connections' = [connections EXCEPT ![k].status = status]
  PROVE  /\ TokensInv'
         /\ connections'[k].status = status
         /\ \A a \in Accounts : connections'[a].expires = connections[a].expires
         /\ \A a \in Accounts : a # k => connections'[a] = connections[a]
<1>1. IsConnection(connections[k])
  BY DEF RowsInv
<1>2. connections'[k].status = status /\ connections'[k].expires = connections[k].expires
  BY <1>1 DEF RowsInv, IsConnection
<1>3. \A a \in Accounts : a # k => connections'[a] = connections[a]
  BY DEF RowsInv
<1> QED BY <1>2, <1>3 DEF TokensInv

LEMMA WriteCallbackStatus ==
  ASSUME ConnectionsInv, StatusInv, NEW r \in Requests, WriteCallback(r)
  PROVE  StatusInv'
<1>1. req[r].op = "callback" /\ req[r].pc = "store" /\ StoreTokens(r) /\ Goto(r, "done")
  BY DEF WriteCallback, Doing
<1>2. (\E new : Moves(r, new)) /\ req'[r].op = "callback"
  BY <1>1, GoesOnStatus DEF Over
<1>3. UseSound(r)' /\ HeldSound(r)'
  BY <1>2, NoRefresher DEF Refreshers
<1>4. TokensInv' /\ UNCHANGED age /\ Disturbs(r)
  BY <1>1, StoreStatus DEF Disturbs, StatusKept, InFlight, Over, Renewing
<1> QED BY <1>2, <1>3, <1>4, StatusStep

LEMMA WriteRefreshStatus ==
  ASSUME ConnectionsInv, StatusInv, NEW r \in Requests, WriteRefresh(r)
  PROVE  StatusInv'
<1>1. /\ req[r].op \in Refreshers /\ req[r].op \in Renewing /\ req[r].pc = "store"
      /\ StoreTokens(r)
  BY DEF WriteRefresh, Refreshing, Renewing
<1>2. PICK pc \in {"done", "next"} : Goto(r, pc)
  BY DEF WriteRefresh, AfterRefresh
<1>3. /\ \E new : Moves(r, new)
      /\ UseSound(r)' /\ Held(req'[r]) \subseteq Held(req[r])
  BY <1>1, <1>2, GoesOnStatus DEF Over
<1>4. /\ TokensInv' /\ UNCHANGED age /\ connections'[req[r].account].status = "ACTIVE"
      /\ \A a \in Accounts : a # req[r].account => connections'[a] = connections[a]
  BY <1>1, StoreStatus
<1>5. \A k \in Accounts : connections'[k].status = "REVOKED" => connections[k].status = "REVOKED"
  BY <1>4
<1>6. Disturbs(r)
  BY <1>1, <1>4, <1>5 DEF Disturbs, StatusKept, InFlight, Over
<1>7. HeldSound(r)'
  BY <1>3, <1>5, FewerHeld DEF ConnectionsInv, Held
<1> QED BY <1>3, <1>4, <1>6, <1>7, StatusStep

LEMMA WriteExpiredStatus ==
  ASSUME ConnectionsInv, StatusInv, NEW r \in Requests, WriteExpired(r)
  PROVE  StatusInv'
<1>1. /\ req[r].op = "use" /\ req[r].pc = "expire" /\ req[r].account \in Accounts
      /\ Goto(r, "refused") /\ UNCHANGED age
      /\ connections' = [connections EXCEPT ![req[r].account].status = "EXPIRED"]
      /\ connections[req[r].account].status # "none"
  BY DEF WriteExpired, Doing, ConnectionsInv, Sound, Over, Renewing, Refreshers, StatusInv,
         UseSound
<1>2. /\ \E new : Moves(r, new)
      /\ UseSound(r)' /\ Held(req'[r]) \subseteq Held(req[r])
  BY <1>1, GoesOnStatus DEF Over
<1>3. /\ TokensInv' /\ connections'[req[r].account].status = "EXPIRED"
      /\ \A a \in Accounts : connections'[a].expires = connections[a].expires
      /\ \A a \in Accounts : a # req[r].account => connections'[a] = connections[a]
  BY <1>1, WrittenStatus DEF ConnectionsInv, StatusInv
<1>4. \A k \in Accounts : connections'[k].status = "REVOKED" => connections[k].status = "REVOKED"
  BY <1>3
<1>5. Disturbs(r)
  BY <1>3, <1>4 DEF Disturbs, StatusKept
<1>6. HeldSound(r)'
  BY <1>2, <1>4, FewerHeld DEF ConnectionsInv, Held
<1> QED BY <1>1, <1>2, <1>3, <1>5, <1>6, StatusStep

LEMMA WriteDisconnectStatus ==
  ASSUME ConnectionsInv, StatusInv, NEW r \in Requests, WriteDisconnect(r)
  PROVE  StatusInv'
<1>1. /\ req[r].op = "disconnect" /\ req[r].pc = "write" /\ req[r].account \in Accounts
      /\ connections[req[r].account].status # "none"
      /\ Goto(r, "done") /\ UNCHANGED age
      /\ connections' = [connections EXCEPT ![req[r].account].status = "REVOKED"]
  BY DEF WriteDisconnect, Doing, ConnectionsInv, Sound, Over
<1>2. PICK new : Moves(r, new) /\ new.pc = "done" /\ new.op = "disconnect"
                 /\ new.account = req[r].account
  BY <1>1, GoesOn DEF ConnectionsInv, Over
<1>3. /\ req'[r] = Left(new) /\ req'[r].op = "disconnect" /\ req'[r].pc = "done"
  BY <1>2, MovesRequest DEF ConnectionsInv
<1>4. req'[r].account = req[r].account
  BY <1>2, <1>3 DEF Left, NewRequest
<1>5. UseSound(r)' /\ HeldSound(r)'
  BY <1>3, NoRefresher DEF Refreshers
<1>6. /\ TokensInv' /\ connections'[req[r].account].status = "REVOKED"
      /\ \A a \in Accounts : connections'[a].expires = connections[a].expires
      /\ \A a \in Accounts : a # req[r].account => connections'[a] = connections[a]
  BY <1>1, WrittenStatus DEF ConnectionsInv, StatusInv
<1>7. Disturbs(r)
  BY <1>1, <1>3, <1>4, <1>6 DEF Disturbs, StatusKept, InFlight, Over, Done, Doing
<1> QED BY <1>1, <1>2, <1>5, <1>6, <1>7, StatusStep

LEMMA RotateConnectionStatus ==
  ASSUME ConnectionsInv, StatusInv, NEW r \in Requests, RotateConnection(r)
  PROVE  /\ StatusInv'
         /\ \A k \in Accounts : connections'[k].status = connections[k].status
<1>1. /\ req[r].op = "rotate" /\ req[r].pc = "rotate" /\ IsRequest(req[r])
      /\ UNCHANGED <<age, issued, stored>>
  BY DEF RotateConnection, Doing, ConnectionsInv, RequestsInv
<1>2. PICK read \in req[r].value :
        /\ connections' = [connections EXCEPT ![read.of].token = Rotated(read.row).token,
                             ![read.of].refresh = Rotated(read.row).refresh,
                             ![read.of].key = Rotated(read.row).key]
        /\ Becomes(r, [req[r] EXCEPT !.value = req[r].value \ {read}])
  BY DEF RotateConnection
<1>3. PICK new : /\ Becomes(r, new) /\ IsRequest(new) /\ new.pc = "rotate" /\ new.op = "rotate"
  <2>1. LET x == [req[r] EXCEPT !.value = req[r].value \ {read}]
        IN IsRequest(x) /\ x.pc = "rotate" /\ x.op = "rotate"
    BY <1>1 DEF IsRequest
  <2> QED BY <1>2, <2>1
<1>4. Moves(r, new)
  BY <1>1, <1>3 DEF Moves, Over
<1>5. req'[r].op = "rotate"
  BY <1>3, <1>4, MovesRequest DEF ConnectionsInv
<1>6. UseSound(r)' /\ HeldSound(r)'
  BY <1>5, NoRefresher DEF Refreshers
<1>7. connections' = Rewritten(read.of, Rotated(read.row).token, Rotated(read.row).refresh,
                              Rotated(read.row).key)
  BY <1>2 DEF Rewritten
<1>8. /\ \A k \in Accounts : connections'[k].status = connections[k].status
      /\ \A k \in Accounts : connections'[k].expires = connections[k].expires
  BY <1>1, <1>7, TokenRows DEF ConnectionsInv
<1>9. TokensInv' /\ Disturbs(r)
  BY <1>1, <1>8 DEF StatusInv, TokensInv, Disturbs, StatusKept
<1> QED BY <1>1, <1>4, <1>6, <1>8, <1>9, StatusStep

\* A token that is over stays so.
LEMMA TimePassesStatus ==
  ASSUME ConnectionsInv, StatusInv, TimePasses
  PROVE  StatusInv'
<1>1. PICK k \in Accounts, t \in 1..MaxTokens :
        /\ age[k][t] # "over"
        /\ \E next : age' = [age EXCEPT ![k][t] = next]
        /\ UNCHANGED <<connections, requestVars>>
  BY DEF TimePasses
<1>2. PICK next : age' = [age EXCEPT ![k][t] = next]
  BY <1>1
<1>3. /\ AgesInv'
      /\ \A a \in Accounts, u \in 1..MaxTokens : age[a][u] = "over" => age'[a][u] = "over"
  <2> DEFINE ages == [age[k] EXCEPT ![t] = next]
  <2>1. /\ ages = [u \in 1..MaxTokens |-> ages[u]]
        /\ \A u \in 1..MaxTokens : u # t => ages[u] = age[k][u]
    BY DEF StatusInv, AgesInv
  <2>2. age' = [age EXCEPT ![k] = ages]
    BY <1>2
  <2> HIDE DEF ages
  <2>3. age'[k] = ages /\ \A a \in Accounts : a # k => age'[a] = age[a]
    BY <2>2 DEF StatusInv, AgesInv
  <2>4. age' = [a \in Accounts |-> age'[a]]
    BY <2>2 DEF StatusInv, AgesInv
  <2>5. AgesInv'
    BY <2>1, <2>3, <2>4 DEF StatusInv, AgesInv
  <2> QED BY <1>1, <2>1, <2>3, <2>5
<1>4. TokensInv'
  BY <1>1 DEF StatusInv, TokensInv
<1>5. ASSUME NEW r \in Requests
      PROVE  UseSound(r)' /\ HeldSound(r)'
  <2>1. UseSound(r)'
    <3>1. req[r].op = "use" /\ req[r].pc \in {"refresh", "store", "expire"} => req[r].account \in Accounts
      BY DEF ConnectionsInv, Sound, Over, Renewing, Refreshers
    <3>2. MetRenewal(r) => MetRenewal(r)'
      BY <1>1 DEF MetRenewal, Met, requestVars
    <3> QED BY <1>1, <1>3, <3>1, <3>2 DEF StatusInv, UseSound, requestVars
  <2>2. HeldSound(r)'
    <3>1. \A a : MetDisconnection(r, a) => MetDisconnection(r, a)'
      BY <1>1 DEF MetDisconnection, Met, Done, Doing, requestVars
    <3>2. Held(req'[r]) = Held(req[r]) /\ UNCHANGED connections
      BY <1>1 DEF requestVars
    <3> QED BY <3>1, <3>2 DEF StatusInv, HeldSound, Held
  <2> QED BY <2>1, <2>2
<1> QED BY <1>3, <1>4, <1>5 DEF StatusInv

LEMMA RestStatus ==
  ASSUME StatusInv, UNCHANGED <<connections, age, requestVars>>
  PROVE  StatusInv'
<1>1. ASSUME NEW r \in Requests
      PROVE  UseSound(r)' /\ HeldSound(r)'
  <2>1. MetRenewal(r)' = MetRenewal(r)
    BY DEF MetRenewal, Met, requestVars
  <2>2. UseSound(r)'
    BY <2>1 DEF StatusInv, UseSound, requestVars
  <2>3. HeldSound(r)'
    <3>1. \A k : MetDisconnection(r, k) => MetDisconnection(r, k)'
      BY DEF MetDisconnection, Met, Done, Doing, requestVars
    <3>2. Held(req'[r]) = Held(req[r])
      BY DEF requestVars
    <3> QED BY <3>1, <3>2 DEF StatusInv, HeldSound, Held
  <2> QED BY <2>2, <2>3
<1> QED BY <1>1 DEF StatusInv, AgesInv, TokensInv

\* The requests of the other components.
LEMMA ElsewhereStatus ==
  ASSUME ConnectionsInv, StatusInv, NEW r \in Requests, NEW ops, Serves(r, ops),
         ops \cap SocialOps = {}, UNCHANGED connectionVars
  PROVE  StatusInv'
<1>1. PICK new : Moves(r, new) /\ new.op \notin SocialOps
  BY DEF Serves
<1>2. req'[r].op \notin Refreshers
  BY <1>1, MovesRequest DEF ConnectionsInv, SocialOps, Refreshers
<1> QED BY <1>1, <1>2, NoRefresher, ReaderStatus DEF connectionVars

-----------------------------------------------------------------------------
(* What a step does to a status.                                            *)

Reconnects(k) == connections[k].status = "REVOKED" /\ connections'[k].status = "ACTIVE"
Expires(k) == connections[k].status # "EXPIRED" /\ connections'[k].status = "EXPIRED"

ReconnectionWarranted(k) ==
  \E r \in Requests :
    /\ req'[r] # req[r] /\ req[r].account = k
    /\ \/ req[r].op = "callback"
       \/ \E s \in Requests : Met(r, s) /\ Done(s, "disconnect") /\ req[s].account = k
ExpiryWarranted(k) ==
  \/ TokenAge(k) = "over"
  \/ \E r, s \in Requests : Met(r, s) /\ req[r].op = "use"
                                      /\ req[s].op \in {"callback"} \cup Refreshers
Warranted ==
  \A k \in Accounts :
    (Reconnects(k) => ReconnectionWarranted(k)) /\ (Expires(k) => ExpiryWarranted(k))

LEMMA WriteCallbackWarranted ==
  ASSUME ConnectionsInv, StatusInv, NEW r \in Requests, WriteCallback(r)
  PROVE  Warranted
<1>1. req[r].op = "callback" /\ req[r].pc = "store" /\ StoreTokens(r) /\ Goto(r, "done")
  BY DEF WriteCallback, Doing
<1>2. req'[r] # req[r]
  BY <1>1, GoesOnStatus DEF Over
<1>3. /\ connections'[req[r].account].status = "ACTIVE"
      /\ \A a \in Accounts : a # req[r].account => connections'[a] = connections[a]
  BY <1>1, StoreStatus DEF Renewing
<1> QED BY <1>1, <1>2, <1>3 DEF Warranted, Reconnects, Expires, ReconnectionWarranted

LEMMA WriteRefreshWarranted ==
  ASSUME ConnectionsInv, StatusInv, NEW r \in Requests, WriteRefresh(r)
  PROVE  Warranted
<1>1. /\ req[r].op \in Refreshers /\ req[r].op \in Renewing /\ req[r].pc = "store"
      /\ StoreTokens(r)
  BY DEF WriteRefresh, Refreshing, Renewing
<1>2. PICK pc \in {"done", "next"} : Goto(r, pc)
  BY DEF WriteRefresh, AfterRefresh
<1>3. req'[r] # req[r]
  BY <1>1, <1>2, GoesOnStatus DEF Over
<1>4. /\ connections'[req[r].account].status = "ACTIVE" /\ req[r].account \in Accounts
      /\ \A a \in Accounts : a # req[r].account => connections'[a] = connections[a]
  BY <1>1, StoreStatus
<1>5. req[r].account \in Held(req[r])
  BY <1>1, <1>4 DEF Held
<1>6. connections[req[r].account].status = "REVOKED" => MetDisconnection(r, req[r].account)
  BY <1>5 DEF StatusInv, HeldSound
<1> QED BY <1>1, <1>3, <1>4, <1>6 DEF Warranted, Reconnects, Expires, ReconnectionWarranted,
                                       MetDisconnection

LEMMA WriteExpiredWarranted ==
  ASSUME ConnectionsInv, StatusInv, NEW r \in Requests, WriteExpired(r)
  PROVE  Warranted
<1>1. /\ req[r].op = "use" /\ req[r].pc = "expire" /\ req[r].account \in Accounts
      /\ connections' = [connections EXCEPT ![req[r].account].status = "EXPIRED"]
      /\ connections[req[r].account].status # "none"
  BY DEF WriteExpired, Doing, ConnectionsInv, Sound, Over, Renewing, Refreshers, StatusInv,
         UseSound
<1>2. /\ connections'[req[r].account].status = "EXPIRED"
      /\ \A a \in Accounts : a # req[r].account => connections'[a] = connections[a]
  BY <1>1, WrittenStatus DEF ConnectionsInv, StatusInv
<1>3. TokenAge(req[r].account) = "over" \/ MetRenewal(r)
  BY <1>1 DEF StatusInv, UseSound, TokenAge
<1> QED BY <1>1, <1>2, <1>3 DEF Warranted, Reconnects, Expires, ExpiryWarranted, MetRenewal,
                                 Renewing

LEMMA WriteDisconnectWarranted ==
  ASSUME ConnectionsInv, StatusInv, NEW r \in Requests, WriteDisconnect(r)
  PROVE  Warranted
<1>1. /\ req[r].account \in Accounts /\ connections[req[r].account].status # "none"
      /\ connections' = [connections EXCEPT ![req[r].account].status = "REVOKED"]
  BY DEF WriteDisconnect, Doing, ConnectionsInv, Sound, Over
<1>2. /\ connections'[req[r].account].status = "REVOKED"
      /\ \A a \in Accounts : a # req[r].account => connections'[a] = connections[a]
  BY <1>1, WrittenStatus DEF ConnectionsInv, StatusInv
<1> QED BY <1>2 DEF Warranted, Reconnects, Expires


\* A step that leaves the statuses alone has nothing to warrant.
LEMMA SameStatusWarranted ==
  ASSUME \A k \in Accounts : connections'[k].status = connections[k].status
  PROVE  Warranted
  BY DEF Warranted, Reconnects, Expires

LEMMA ConnectionsStepStatus ==
  ASSUME ConnectionsInv, StatusInv, ConnectionsStep
  PROVE  StatusInv' /\ Warranted
<1>1. CASE UNCHANGED connections
  <2>1. Warranted
    BY <1>1, SameStatusWarranted
  <2>2. CASE TimePasses
    BY <2>1, <2>2, TimePassesStatus
  <2>3. CASE DeployKey
    BY <2>1, <2>3, RestStatus DEF DeployKey
  <2> QED BY <2>1, <2>2, <2>3, CallbackStatus, CallbackFailsStatus, ExchangesStatus, WriteCallbackStatus, DisconnectStatus,
             WriteDisconnectStatus, GetActiveConnectionStatus, RefreshExpiringSoonStatus,
             RefreshConnectionByIdStatus, WriteRefreshStatus, RefreshFailsStatus,
             WriteExpiredStatus, ReadConnectionsStatus, RotateConnectionStatus,
             RotationEndsStatus DEF ConnectionsStep
<1>2. ASSUME NEW r \in Requests,
             \/ WriteCallback(r) \/ WriteDisconnect(r) \/ WriteRefresh(r) \/ WriteExpired(r)
             \/ RotateConnection(r)
      PROVE  StatusInv' /\ Warranted
  BY <1>2, WriteCallbackStatus, WriteCallbackWarranted, WriteDisconnectStatus,
     WriteDisconnectWarranted, WriteRefreshStatus, WriteRefreshWarranted, WriteExpiredStatus,
     WriteExpiredWarranted, RotateConnectionStatus, SameStatusWarranted
<1>3. CASE ~ UNCHANGED connections
  BY <1>2, <1>3 DEF ConnectionsStep, TimePasses, DeployKey, Callback, ExchangeCode,
                    CallbackFails, RefreshAccessToken, TokenGiven, Disconnect,
                    GetActiveConnection, RefreshExpiringSoon, RefreshConnectionById,
                    RefreshFails, ReadConnections, RotationEnds, connectionVars
<1> QED BY <1>1, <1>3

LEMMA StatusInit == Init => StatusInv
<1> SUFFICES ASSUME Init PROVE StatusInv
  OBVIOUS
<1>1. /\ req = [r \in Requests |-> NewRequest]
      /\ age = [k \in Accounts |-> [t \in 1..MaxTokens |-> "fresh"]]
  BY DEF Init, RequestsInit, ConnectionsInit
<1>2. NewRequest.pc = "new" /\ NewRequest.op = "none"
  BY DEF NewRequest
<1>3. \A r \in Requests : UseSound(r) /\ HeldSound(r)
  BY <1>1, <1>2 DEF UseSound, HeldSound, Held, Refreshers
<1>4. ASSUME NEW k \in Accounts
      PROVE  connections[k].status # "none" => connections[k].expires \in 1..MaxTokens
  <2>1. PICK c : /\ c = connections[k]
                 /\ \/ c = NoConnection
                    \/ c = [NoConnection EXCEPT !.status = "ACTIVE", !.token = 1,
                                                !.expires = 1, !.refresh = TRUE]
    BY DEF Init, ConnectionsInit
  <2>2. CASE c = NoConnection
    BY <2>1, <2>2 DEF NoConnection
  <2>3. CASE c = [NoConnection EXCEPT !.status = "ACTIVE", !.token = 1, !.expires = 1,
                                      !.refresh = TRUE]
    <3>1. c.token = 1 /\ c.expires = 1
      BY <2>3 DEF NoConnection
    <3> QED BY <2>1, <3>1, ConnectionsAssumption
  <2> QED BY <2>1, <2>2, <2>3
<1>5. TokensInv
  BY <1>1, <1>4 DEF TokensInv
<1>6. AgesInv
  BY <1>1 DEF AgesInv
<1> QED BY <1>3, <1>5, <1>6 DEF StatusInv

LEMMA StatusNext ==
  ASSUME ConnectionsInv, StatusInv, [Next]_vars
  PROVE  StatusInv' /\ Warranted
<1>1. CASE UNCHANGED vars
  BY <1>1, RestStatus, SameStatusWarranted DEF vars, connectionVars
<1>2. CASE ConnectionsStep
  BY <1>2, ConnectionsStepStatus
<1>3. CASE /\ TeamsStep \/ SubscriptionStep \/ AdaptersStep
           /\ UNCHANGED connectionVars
  <2>1. Warranted
    BY <1>3, SameStatusWarranted DEF connectionVars
  <2>2. \/ UNCHANGED requestVars
        \/ \E r \in Requests : Serves(r, TeamOps \cup Losing) \/ Serves(r, BillingOps)
                                \/ Serves(r, PlatformOps)
    BY <1>3, TeamsServe, SubscriptionServes, AdaptersServe DEF ConnectionsInv
  <2>3. /\ (TeamOps \cup Losing) \cap SocialOps = {} /\ BillingOps \cap SocialOps = {}
        /\ PlatformOps \cap SocialOps = {}
    BY DEF TeamOps, Losing, BillingOps, SocialOps, PlatformOps
  <2>4. CASE UNCHANGED requestVars
    BY <1>3, <2>1, <2>4, RestStatus DEF connectionVars
  <2> QED BY <1>3, <2>1, <2>2, <2>3, <2>4, ElsewhereStatus
<1> QED BY <1>1, <1>2, <1>3 DEF Next

\* An account that was disconnected is connected again by its owner alone, unless a
\* refresh was under way while it was disconnected, and one whose token works is not shown
\* as expired, unless it was renewed meanwhile (social-connections.service.ts:141, :152);
\* however many accounts and requests there are.
THEOREM StatusesAreWarranted == Spec => StatusIsWarranted
<1>1. ConnectionsInv /\ StatusInv /\ [Next]_vars =>
        [\A k \in Accounts :
           /\ connections[k].status = "REVOKED" /\ connections'[k].status = "ACTIVE" =>
                \E r \in Requests :
                  /\ req'[r] # req[r] /\ req[r].account = k
                  /\ \/ req[r].op = "callback"
                     \/ \E s \in Requests : Met(r, s) /\ Done(s, "disconnect") /\ req[s].account = k
           /\ connections[k].status # "EXPIRED" /\ connections'[k].status = "EXPIRED" =>
                \/ TokenAge(k) = "over"
                \/ \E r, s \in Requests : Met(r, s) /\ req[r].op = "use"
                                                    /\ req[s].op \in {"callback"} \cup Refreshers
        ]_<<connectionVars, requestVars>>
  BY StatusNext DEF Warranted, Reconnects, Expires, ReconnectionWarranted, ExpiryWarranted
<1>2. ConnectionsInv /\ StatusInv /\ [Next]_vars => ConnectionsInv' /\ StatusInv'
  BY ConnectionsNextInv, StatusNext
<1> QED BY <1>1, <1>2, ConnectionsInitInv, StatusInit, PTL DEF Spec, StatusIsWarranted

-----------------------------------------------------------------------------
(* The subscription, and the seats of its plan.                                *)

\* The plans that the organization may have.
Kept == SoldPlans \cup {"trial"}

Subs == [status : {"active", "past_due", "canceled"}, plan : Kept,
         cancelAtPeriodEnd : BOOLEAN, customer : Nat]

IsRow(x) ==
  /\ x = [plan |-> x.plan, status |-> x.status, cancelAtPeriodEnd |-> x.cancelAtPeriodEnd,
          customer |-> x.customer, subscription |-> x.subscription,
          extraCredits |-> x.extraCredits, news |-> x.news, detached |-> x.detached]
  /\ x.plan \in Kept /\ x.customer \in Nat /\ x.subscription \in Nat
  /\ x.extraCredits \in Int /\ x.news \in Nat /\ x.detached \in BOOLEAN

IsStripe(x) ==
  /\ x = [customers |-> x.customers, subs |-> x.subs, sessions |-> x.sessions,
          packs |-> x.packs, trialOver |-> x.trialOver, news |-> x.news,
          redelivered |-> x.redelivered]
  /\ x.customers \in Nat /\ x.subs \in Seq(Subs) /\ x.packs \in Nat /\ x.news \in Nat
  /\ \A session \in x.sessions :
       session.plan \in Kept \cup {"pack"} /\ session.customer \in Nat

\* A webhook brings a subscription that there is, as it was.
IsHook(x, count, news) ==
  /\ x = [kind |-> x.kind, news |-> x.news, sub |-> x.sub, object |-> x.object,
          read |-> x.read, again |-> x.again]
  /\ x.kind \in {"pack", "checkout", "updated", "deleted", "failed", "cycle", "recovered"}
  /\ x.news \in 1..news /\ x.read \in BOOLEAN /\ x.again \in BOOLEAN
  /\ x.kind # "pack" => x.object \in Subs /\ x.sub \in 1..count

Books ==
  /\ IsRow(row) /\ IsStripe(stripe) /\ row.subscription \in 0..Len(stripe.subs)
  /\ \A hook \in mail : IsHook(hook, Len(stripe.subs), stripe.news)

\* The calls of the billing pages that change a subscription at Stripe.
ChangeOps == {"changePlan", "cancelNow", "cancelAtEnd", "resume"}

\* What a request for the subscription holds.
BillingSound(x, count, news) ==
  /\ x.op = "checkout" /\ x.pc = "customer" =>
       x.value \in Kept \cup {"pack"} /\ x.seen \in Nat
  /\ x.op = "changePlan" /\ x.pc = "stripe" => x.value \in Kept
  /\ x.op \in ChangeOps /\ x.pc = "stripe" => x.seen \in 1..count
  /\ x.op \in ChangeOps /\ x.pc = "write" => x.level \in 1..news
  /\ x.op = "changePlan" /\ x.pc = "write" => x.value \in Subs

BillingInv ==
  /\ RequestsInv /\ Books
  /\ \A r \in Requests : BillingSound(req[r], Len(stripe.subs), stripe.news)

-----------------------------------------------------------------------------
\* More subscriptions and more news leave what is known of the others alone.
LEMMA BillingGrows ==
  ASSUME NEW x, NEW n \in Nat, NEW m \in Nat, NEW n2 \in Nat, NEW m2 \in Nat,
         n <= n2, m <= m2, BillingSound(x, n, m)
  PROVE  BillingSound(x, n2, m2)
  BY DEF BillingSound

LEMMA HookGrows ==
  ASSUME NEW x, NEW n \in Nat, NEW m \in Nat, NEW n2 \in Nat, NEW m2 \in Nat,
         n <= n2, m <= m2, IsHook(x, n, m)
  PROVE  IsHook(x, n2, m2)
  BY DEF IsHook

LEMMA BooksCounted ==
  ASSUME Books
  PROVE  /\ Len(stripe.subs) \in Nat /\ stripe.news \in Nat /\ stripe.subs \in Seq(Subs)
         /\ DOMAIN stripe.subs = 1..Len(stripe.subs)
         /\ \A i \in 1..Len(stripe.subs) : stripe.subs[i] \in Subs
<1>1. stripe.subs \in Seq(Subs) /\ stripe.news \in Nat
  BY DEF Books, IsStripe
<1> QED BY <1>1

\* What is left of a request that is over is sound.
LEMMA BillingLeft ==
  ASSUME NEW x, IsRequest(x), NEW n, NEW m,
         x.pc \notin {"done", "refused"} => BillingSound(x, n, m)
  PROVE  BillingSound(Left(x), n, m)
<1>1. CASE x.pc \in {"done", "refused"}
  <2>1. Left(x).pc = x.pc
    BY LeftIsRequest
  <2> QED BY <1>1, <2>1 DEF BillingSound
<1>2. CASE x.pc \notin {"done", "refused"}
  BY <1>2, LeftIsRequest
<1> QED BY <1>1, <1>2

\* Nothing is taken back at Stripe.
Grows == Len(stripe.subs) <= Len(stripe'.subs) /\ stripe.news <= stripe'.news

LEMMA BillingStep ==
  ASSUME BillingInv, Books', Grows, NEW r \in Requests, NEW new, Moves(r, new),
         NEW n, NEW m, n = Len(stripe'.subs), m = stripe'.news,
         new.pc \notin {"done", "refused"} => BillingSound(new, n, m)
  PROVE  BillingInv'
<1>1. /\ RequestsInv' /\ req'[r] = Left(new)
      /\ \A s \in Requests : s # r => req'[s] = req[s]
  BY MovesRequest DEF BillingInv
<1>2. PICK n0, m0 : n0 = Len(stripe.subs) /\ m0 = stripe.news
  OBVIOUS
<1>3. n0 \in Nat /\ m0 \in Nat
  BY <1>2, BooksCounted DEF BillingInv
<1>4. n \in Nat /\ m \in Nat
  <2>1. stripe'.subs \in Seq(Subs) /\ stripe'.news \in Nat
    BY DEF Books, IsStripe
  <2> QED BY <2>1
<1>5. n0 <= n /\ m0 <= m
  BY <1>2 DEF Grows
<1>6. ASSUME NEW s \in Requests
      PROVE  BillingSound(req'[s], n, m)
  <2>1. CASE s = r
    <3>1. IsRequest(new)
      BY DEF Moves
    <3> QED BY <1>1, <2>1, <3>1, BillingLeft
  <2>2. CASE s # r
    <3>1. PICK x : x = req[s]
      OBVIOUS
    <3>2. BillingSound(x, n0, m0)
      BY <1>2, <3>1 DEF BillingInv
    <3>3. BillingSound(x, n, m)
      BY <1>3, <1>4, <1>5, <3>2, BillingGrows
    <3> QED BY <1>1, <2>2, <3>1, <3>3
  <2> QED BY <2>1, <2>2
<1> QED BY <1>1, <1>6 DEF BillingInv

LEMMA BillingRest ==
  ASSUME BillingInv, Books', Grows, UNCHANGED requestVars
  PROVE  BillingInv'
<1>1. RequestsInv' /\ req' = req
  BY RequestsRest DEF BillingInv, requestVars
<1>2. PICK n0, m0, n, m : /\ n0 = Len(stripe.subs) /\ m0 = stripe.news
                          /\ n = Len(stripe'.subs) /\ m = stripe'.news
  OBVIOUS
<1>3. n0 \in Nat /\ m0 \in Nat
  BY <1>2, BooksCounted DEF BillingInv
<1>4. n \in Nat /\ m \in Nat
  <2>1. stripe'.subs \in Seq(Subs) /\ stripe'.news \in Nat
    BY DEF Books, IsStripe
  <2> QED BY <1>2, <2>1
<1>5. n0 <= n /\ m0 <= m
  BY <1>2 DEF Grows
<1>6. ASSUME NEW s \in Requests
      PROVE  BillingSound(req'[s], n, m)
  <2>1. PICK x : x = req[s]
    OBVIOUS
  <2>2. BillingSound(x, n0, m0)
    BY <1>2, <2>1 DEF BillingInv
  <2>3. BillingSound(x, n, m)
    BY <1>3, <1>4, <1>5, <2>2, BillingGrows
  <2> QED BY <1>1, <2>1, <2>3
<1> QED BY <1>1, <1>2, <1>6 DEF BillingInv

-----------------------------------------------------------------------------
(* The webhooks.                                                            *)

\* What the row is after a write from the news of number n.
WrittenFrom(new, n) ==
  /\ IsRow(row')
  /\ row'.plan = new.plan /\ row'.status = new.status
  /\ row'.cancelAtPeriodEnd = new.cancelAtPeriodEnd /\ row'.customer = new.customer
  /\ row'.subscription = new.subscription /\ row'.extraCredits = new.extraCredits
  /\ row'.news = IF n > row.news THEN n ELSE row.news
  /\ row'.detached <=> (row.detached \/ n < row.news)

LEMMA WrittenRow ==
  ASSUME IsRow(row), NEW new, IsRow(new), new.news = row.news, new.detached = row.detached,
         NEW n \in Nat, Written(new, n)
  PROVE  WrittenFrom(new, n)
<1>1. PICK a, b : /\ a = IF n > row.news THEN n ELSE row.news
                  /\ b = (row.detached \/ n < row.news)
  OBVIOUS
<1>2. row' = [new EXCEPT !.news = a, !.detached = b]
  BY <1>1 DEF Written
<1>3. a \in Nat /\ b \in BOOLEAN
  BY <1>1 DEF IsRow
<1>4. IsRow(row') /\ row'.news = a /\ row'.detached = b
  BY <1>2, <1>3 DEF IsRow
<1>5. /\ row'.plan = new.plan /\ row'.status = new.status
      /\ row'.cancelAtPeriodEnd = new.cancelAtPeriodEnd /\ row'.customer = new.customer
      /\ row'.subscription = new.subscription /\ row'.extraCredits = new.extraCredits
  BY <1>2 DEF IsRow
<1>6. row'.detached <=> (row.detached \/ n < row.news)
  BY <1>1, <1>4
<1> QED BY <1>1, <1>4, <1>5, <1>6 DEF WrittenFrom

\* Stripe is what it was, but for the count of the webhooks that came again.
StripeStill ==
  /\ stripe'.customers = stripe.customers /\ stripe'.subs = stripe.subs
  /\ stripe'.sessions = stripe.sessions /\ stripe'.packs = stripe.packs
  /\ stripe'.trialOver = stripe.trialOver /\ stripe'.news = stripe.news

\* A webhook is gone from the mail, but for one that says the same again.
Taken(hook) ==
  \/ mail' = mail \ {hook}
  \/ \E h : /\ mail' = (mail \ {hook}) \cup {h}
            /\ h.kind = hook.kind /\ h.news = hook.news /\ h.sub = hook.sub
            /\ h.object = hook.object /\ h.again = TRUE /\ h.read = FALSE

LEMMA AnsweredBooks ==
  ASSUME Books, NEW hook \in mail, Answered(hook), IsRow(row'),
         row'.subscription \in 0..Len(stripe.subs)
  PROVE  Books' /\ Grows /\ StripeStill /\ Taken(hook)
<1>1. PICK n, m : n = Len(stripe.subs) /\ m = stripe.news
  OBVIOUS
<1>2. \A h \in mail : IsHook(h, n, m)
  BY <1>1 DEF Books
<1>3. IsStripe(stripe') /\ StripeStill
  <2>1. IsStripe(stripe)
    BY DEF Books
  <2>2. CASE UNCHANGED stripe
    BY <2>1, <2>2 DEF IsStripe, StripeStill
  <2>3. CASE stripe' = [stripe EXCEPT !.redelivered = @ + 1]
    <3>1. PICK d : stripe' = [stripe EXCEPT !.redelivered = d]
      BY <2>3
    <3>2. /\ stripe'.customers = stripe.customers /\ stripe'.subs = stripe.subs
          /\ stripe'.sessions = stripe.sessions /\ stripe'.packs = stripe.packs
          /\ stripe'.trialOver = stripe.trialOver /\ stripe'.news = stripe.news
          /\ stripe' = [customers |-> stripe'.customers, subs |-> stripe'.subs,
                        sessions |-> stripe'.sessions, packs |-> stripe'.packs,
                        trialOver |-> stripe'.trialOver, news |-> stripe'.news,
                        redelivered |-> stripe'.redelivered]
      BY <2>1, <3>1 DEF IsStripe
    <3> QED BY <2>1, <3>2 DEF IsStripe, StripeStill
  <2> QED BY <2>2, <2>3 DEF Answered
<1>4. Grows
  <2>1. n \in Nat /\ m \in Nat
    BY <1>1, BooksCounted
  <2> QED BY <1>1, <1>3, <2>1 DEF Grows, StripeStill
<1>5. Taken(hook) /\ \A h \in mail' : IsHook(h, n, m)
  <2>1. CASE mail' = mail \ {hook}
    BY <1>2, <2>1 DEF Taken
  <2>2. CASE mail' = (mail \ {hook}) \cup {[hook EXCEPT !.again = TRUE, !.read = FALSE]}
    <3>1. PICK h : h = [hook EXCEPT !.again = TRUE, !.read = FALSE]
      OBVIOUS
    <3>2. IsHook(hook, n, m)
      BY <1>2
    <3>3. /\ h.kind = hook.kind /\ h.news = hook.news /\ h.sub = hook.sub
          /\ h.object = hook.object /\ h.again = TRUE /\ h.read = FALSE
          /\ h = [kind |-> h.kind, news |-> h.news, sub |-> h.sub, object |-> h.object,
                  read |-> h.read, again |-> h.again]
      BY <3>1, <3>2 DEF IsHook
    <3>4. IsHook(h, n, m)
      BY <3>2, <3>3 DEF IsHook
    <3> QED BY <1>2, <2>2, <3>1, <3>3, <3>4 DEF Taken
  <2> QED BY <2>1, <2>2 DEF Answered
<1> QED BY <1>1, <1>3, <1>4, <1>5 DEF Books, StripeStill

\* The row that a webhook writes, but for its number.
Says(new, hook) ==
  /\ IsRow(new) /\ new.news = row.news /\ new.detached = row.detached
  /\ new.customer = row.customer /\ new.extraCredits = row.extraCredits
  /\ \/ /\ hook.kind = "checkout" /\ new.plan = hook.object.plan /\ new.status = "active"
        /\ new.cancelAtPeriodEnd = FALSE /\ new.subscription = hook.sub
     \/ /\ hook.kind = "updated" /\ new.plan = hook.object.plan
        /\ new.status = hook.object.status
        /\ new.cancelAtPeriodEnd = hook.object.cancelAtPeriodEnd
        /\ new.subscription = row.subscription
     \/ /\ hook.kind = "deleted" /\ new.plan = row.plan /\ new.status = "canceled"
        /\ new.cancelAtPeriodEnd = FALSE /\ new.subscription = row.subscription
     \/ /\ hook.kind \in {"failed", "cycle", "recovered"} /\ new.plan = row.plan
        /\ new.status = IF hook.kind = "failed" THEN "past_due" ELSE "active"
        /\ new.cancelAtPeriodEnd = row.cancelAtPeriodEnd
        /\ new.subscription = row.subscription

\* A webhook is delivered, and writes what it says.
Delivered(hook, new) ==
  /\ hook \in mail /\ Says(new, hook) /\ WrittenFrom(new, hook.news)
  /\ StripeStill /\ Taken(hook)

LEMMA DeliveredBooks ==
  ASSUME Books, NEW hook \in mail, NEW new, Says(new, hook), Written(new, hook.news),
         Answered(hook)
  PROVE  Books' /\ Grows /\ Delivered(hook, new)
<1>1. PICK n, m : n = Len(stripe.subs) /\ m = stripe.news
  OBVIOUS
<1>2. IsHook(hook, n, m) /\ IsRow(row) /\ row.subscription \in 0..n /\ n \in Nat
  BY <1>1, BooksCounted DEF Books
<1>3. hook.news \in Nat /\ (hook.kind = "checkout" => hook.sub \in 1..n)
  BY <1>2 DEF IsHook
<1>4. WrittenFrom(new, hook.news)
  BY <1>2, <1>3, WrittenRow DEF Says
<1>5. IsRow(row') /\ row'.subscription \in 0..n
  BY <1>2, <1>3, <1>4 DEF WrittenFrom, Says
<1> QED BY <1>1, <1>4, <1>5, AnsweredBooks DEF Delivered

LEMMA DeliverSubscriptionBooks ==
  ASSUME Books, DeliverSubscription
  PROVE  Books' /\ Grows /\ \E hook, new : Delivered(hook, new)
<1>1. PICK hook \in mail :
        /\ \/ /\ hook.kind = "checkout"
              /\ Written(OnCheckoutCompleted(hook.sub, hook.object), hook.news)
           \/ /\ hook.kind = "updated"
              /\ Written(OnSubscriptionUpdated(hook.object), hook.news)
           \/ /\ hook.kind = "deleted"
              /\ Written(OnSubscriptionDeleted, hook.news)
        /\ Answered(hook)
  BY DEF DeliverSubscription
<1>2. PICK n, m : n = Len(stripe.subs) /\ m = stripe.news
  OBVIOUS
<1>3. IsHook(hook, n, m) /\ IsRow(row) /\ n \in Nat
  BY <1>2, BooksCounted DEF Books
<1>4. /\ hook.kind \in {"checkout", "updated", "deleted"}
      /\ hook.object \in Subs /\ hook.sub \in Nat
  BY <1>1, <1>3 DEF IsHook
<1>5. CASE hook.kind = "checkout"
  <2>1. PICK new : new = OnCheckoutCompleted(hook.sub, hook.object) /\ Written(new, hook.news)
    BY <1>1, <1>5
  <2>2. Says(new, hook)
    BY <1>3, <1>4, <1>5, <2>1 DEF Says, OnCheckoutCompleted, IsRow, Subs
  <2> QED BY <1>1, <2>1, <2>2, DeliveredBooks
<1>6. CASE hook.kind = "updated"
  <2>1. PICK new : new = OnSubscriptionUpdated(hook.object) /\ Written(new, hook.news)
    BY <1>1, <1>6
  <2>2. Says(new, hook)
    BY <1>3, <1>4, <1>6, <2>1 DEF Says, OnSubscriptionUpdated, IsRow, Subs
  <2> QED BY <1>1, <2>1, <2>2, DeliveredBooks
<1>7. CASE hook.kind = "deleted"
  <2>1. PICK new : new = OnSubscriptionDeleted /\ Written(new, hook.news)
    BY <1>1, <1>7
  <2>2. Says(new, hook)
    BY <1>3, <1>4, <1>7, <2>1 DEF Says, OnSubscriptionDeleted, IsRow
  <2> QED BY <1>1, <2>1, <2>2, DeliveredBooks
<1> QED BY <1>4, <1>5, <1>6, <1>7

LEMMA PaymentSays ==
  ASSUME IsRow(row), NEW hook, hook.kind \in {"failed", "cycle", "recovered"}, NEW new,
         new = [row EXCEPT !.status = IF hook.kind = "failed" THEN "past_due" ELSE "active"]
  PROVE  Says(new, hook)
<1>1. PICK status : status = IF hook.kind = "failed" THEN "past_due" ELSE "active"
  OBVIOUS
<1>2. new = [row EXCEPT !.status = status]
  BY <1>1
<1>3. /\ IsRow(new) /\ new.news = row.news /\ new.detached = row.detached
      /\ new.customer = row.customer /\ new.extraCredits = row.extraCredits
      /\ new.plan = row.plan /\ new.status = status
      /\ new.cancelAtPeriodEnd = row.cancelAtPeriodEnd
      /\ new.subscription = row.subscription
  BY <1>2 DEF IsRow
<1> QED BY <1>1, <1>3 DEF Says

\* A webhook that finds nothing to write.
Ignored(hook) ==
  /\ hook \in mail /\ hook.kind \in {"failed", "cycle", "recovered"} /\ UNCHANGED row
  /\ StripeStill
  /\ \/ Taken(hook)
     \/ mail' = (mail \ {hook}) \cup {[hook EXCEPT !.read = TRUE]}

LEMMA DeliverInvoiceBooks ==
  ASSUME Books, DeliverInvoice
  PROVE  Books' /\ Grows /\ \E hook : Ignored(hook) \/ \E new : Delivered(hook, new)
<1>1. PICK hook \in mail :
        /\ hook.kind \in {"failed", "cycle"} /\ Answered(hook)
        /\ IF hook.object.customer # row.customer THEN UNCHANGED row
           ELSE Written([row EXCEPT !.status = IF hook.kind = "failed" THEN "past_due"
                                               ELSE "active"], hook.news)
  BY DEF DeliverInvoice
<1>2. IsRow(row) /\ row.subscription \in 0..Len(stripe.subs)
  BY DEF Books
<1>3. CASE UNCHANGED row
  <2>1. IsRow(row') /\ row'.subscription \in 0..Len(stripe.subs)
    BY <1>2, <1>3
  <2>2. Books' /\ Grows /\ StripeStill /\ Taken(hook)
    BY <1>1, <2>1, AnsweredBooks
  <2> QED BY <1>1, <1>3, <2>2 DEF Ignored
<1>4. CASE ~ UNCHANGED row
  <2>1. PICK new : /\ new = [row EXCEPT !.status = IF hook.kind = "failed" THEN "past_due"
                                                   ELSE "active"]
                   /\ Written(new, hook.news)
    BY <1>1, <1>4
  <2>2. Says(new, hook)
    BY <1>1, <1>2, <2>1, PaymentSays
  <2> QED BY <1>1, <2>1, <2>2, DeliveredBooks
<1> QED BY <1>3, <1>4

LEMMA ReadRecoveryBooks ==
  ASSUME Books, ReadRecovery
  PROVE  Books' /\ Grows /\ \E hook : Ignored(hook)
<1>1. PICK hook \in mail :
        /\ hook.kind = "recovered" /\ UNCHANGED row
        /\ \/ mail' = (mail \ {hook}) \cup {[hook EXCEPT !.read = TRUE]} /\ UNCHANGED stripe
           \/ Answered(hook)
  BY DEF ReadRecovery
<1>2. IsRow(row) /\ row.subscription \in 0..Len(stripe.subs)
  BY DEF Books
<1>3. CASE Answered(hook)
  <2>1. IsRow(row') /\ row'.subscription \in 0..Len(stripe.subs)
    BY <1>1, <1>2
  <2>2. Books' /\ Grows /\ StripeStill /\ Taken(hook)
    BY <1>3, <2>1, AnsweredBooks
  <2> QED BY <1>1, <2>2 DEF Ignored
<1>4. CASE mail' = (mail \ {hook}) \cup {[hook EXCEPT !.read = TRUE]} /\ UNCHANGED stripe
  <2>1. PICK n, m : n = Len(stripe.subs) /\ m = stripe.news
    OBVIOUS
  <2>2. PICK h : h = [hook EXCEPT !.read = TRUE]
    OBVIOUS
  <2>3. IsHook(hook, n, m)
    BY <2>1 DEF Books
  <2>4. IsHook(h, n, m)
    BY <2>2, <2>3 DEF IsHook
  <2>5. Books'
    BY <1>1, <1>4, <2>1, <2>2, <2>4 DEF Books
  <2>6. Grows
    BY <1>4, BooksCounted DEF Grows
  <2> QED BY <1>1, <1>4, <2>5, <2>6 DEF Ignored, StripeStill
<1> QED BY <1>1, <1>3, <1>4

LEMMA WriteRecoveryBooks ==
  ASSUME Books, WriteRecovery
  PROVE  Books' /\ Grows /\ \E hook, new : Delivered(hook, new)
<1>1. PICK hook \in mail :
        /\ hook.kind = "recovered" /\ Answered(hook)
        /\ Written([row EXCEPT !.status = "active"], hook.news)
  BY DEF WriteRecovery
<1>2. PICK new : new = [row EXCEPT !.status = "active"]
  OBVIOUS
<1>3. Says(new, hook)
  BY <1>1, <1>2, PaymentSays DEF Books
<1> QED BY <1>1, <1>2, <1>3, DeliveredBooks

\* A pack that is delivered.
DeliveredPack(hook) ==
  /\ hook \in mail /\ hook.kind = "pack" /\ Taken(hook) /\ StripeStill
  /\ row'.extraCredits = row.extraCredits + PACK
  /\ row'.detached <=> (row.detached \/ hook.again)
  /\ row'.plan = row.plan /\ row'.status = row.status /\ row'.news = row.news
  /\ row'.cancelAtPeriodEnd = row.cancelAtPeriodEnd
  /\ row'.subscription = row.subscription

LEMMA DeliverPackBooks ==
  ASSUME Books, DeliverPack
  PROVE  Books' /\ Grows /\ \E hook : DeliveredPack(hook)
<1>1. PICK hook \in mail :
        /\ row' = [row EXCEPT !.extraCredits = @ + PACK, !.detached = @ \/ hook.again]
        /\ Answered(hook) /\ hook.kind = "pack"
  BY DEF DeliverPack
<1>2. IsRow(row) /\ row.subscription \in 0..Len(stripe.subs)
      /\ IsHook(hook, Len(stripe.subs), stripe.news)
  BY DEF Books
<1>3. PICK a, b : a = row.extraCredits + PACK /\ b = (row.detached \/ hook.again)
  OBVIOUS
<1>4. a \in Int /\ b \in BOOLEAN
  <2>1. PACK \in Int
    BY SubscriptionAssumption DEF CREDIT_PACKS
  <2> QED BY <1>2, <1>3, <2>1 DEF IsRow, IsHook
<1>5. row' = [row EXCEPT !.extraCredits = a, !.detached = b]
  BY <1>1, <1>3
<1>6. /\ IsRow(row') /\ row'.extraCredits = a /\ row'.detached = b
      /\ row'.plan = row.plan /\ row'.status = row.status /\ row'.news = row.news
      /\ row'.cancelAtPeriodEnd = row.cancelAtPeriodEnd
      /\ row'.subscription = row.subscription
  BY <1>2, <1>4, <1>5 DEF IsRow
<1>7. Books' /\ Grows /\ StripeStill /\ Taken(hook)
  BY <1>1, <1>2, <1>6, AnsweredBooks
<1>8. row'.detached <=> (row.detached \/ hook.again)
  BY <1>3, <1>6
<1> QED BY <1>1, <1>3, <1>6, <1>7, <1>8 DEF DeliveredPack

-----------------------------------------------------------------------------
(* Stripe.                                                                  *)

Kinds == {"updated", "deleted", "failed", "cycle", "recovered"}

\* A subscription at Stripe is another from now on, and webhooks say so.
Announced(i, sub, kinds) ==
  /\ stripe'.subs = [stripe.subs EXCEPT ![i] = sub] /\ stripe'.news = stripe.news + 1
  /\ stripe'.customers = stripe.customers /\ stripe'.sessions = stripe.sessions
  /\ stripe'.packs = stripe.packs /\ stripe'.trialOver = stripe.trialOver
  /\ mail' = mail \cup {Webhook(kind, stripe.news + 1, i, sub) : kind \in kinds}

LEMMA WebhookIs ==
  ASSUME NEW kind \in Kinds, NEW n \in Nat, NEW k \in Nat \ {0}, NEW i \in 1..n,
         NEW sub \in Subs, NEW h, h = Webhook(kind, k, i, sub)
  PROVE  /\ IsHook(h, n, k) /\ h.kind = kind /\ h.news = k /\ h.sub = i
         /\ h.object = sub /\ h.again = FALSE /\ h.read = FALSE
<1>1. /\ h.kind = kind /\ h.news = k /\ h.sub = i
      /\ h.object = sub /\ h.again = FALSE /\ h.read = FALSE
      /\ h = [kind |-> h.kind, news |-> h.news, sub |-> h.sub, object |-> h.object,
              read |-> h.read, again |-> h.again]
  BY DEF Webhook
<1>2. k \in 1..k
  OBVIOUS
<1>3. kind # "pack" /\ kind \in {"updated", "deleted", "failed", "cycle", "recovered"}
  BY DEF Kinds
<1> QED BY <1>1, <1>2, <1>3 DEF IsHook

LEMMA ChangedBooks ==
  ASSUME Books, NEW i \in DOMAIN stripe.subs, NEW sub \in Subs, NEW kinds,
         kinds \subseteq Kinds, Changed(i, sub, kinds), UNCHANGED row
  PROVE  Books' /\ Grows /\ Announced(i, sub, kinds)
<1>1. PICK n, m, subs : n = Len(stripe.subs) /\ m = stripe.news /\ subs = stripe.subs
  OBVIOUS
<1>2. /\ n \in Nat /\ m \in Nat /\ subs \in Seq(Subs) /\ i \in 1..n
      /\ \A h \in mail : IsHook(h, n, m)
  BY <1>1, BooksCounted DEF Books
<1>3. PICK subs2 : subs2 = [subs EXCEPT ![i] = sub]
  OBVIOUS
<1>4. subs2 \in Seq(Subs) /\ Len(subs2) = n
  BY <1>1, <1>2, <1>3
<1>5. stripe' = [stripe EXCEPT !.subs = subs2, !.news = m + 1]
  BY <1>1, <1>3 DEF Changed, News
<1>6. IsStripe(stripe)
  BY DEF Books
<1>7. /\ stripe'.subs = subs2 /\ stripe'.news = m + 1
      /\ stripe'.customers = stripe.customers /\ stripe'.sessions = stripe.sessions
      /\ stripe'.packs = stripe.packs /\ stripe'.trialOver = stripe.trialOver
      /\ stripe' = [customers |-> stripe'.customers, subs |-> stripe'.subs,
                    sessions |-> stripe'.sessions, packs |-> stripe'.packs,
                    trialOver |-> stripe'.trialOver, news |-> stripe'.news,
                    redelivered |-> stripe'.redelivered]
  BY <1>5, <1>6 DEF IsStripe
<1>8. IsStripe(stripe')
  BY <1>2, <1>4, <1>6, <1>7 DEF IsStripe
<1>9. mail' = mail \cup {Webhook(kind, m + 1, i, sub) : kind \in kinds}
  BY <1>1 DEF Changed, News
<1>10. ASSUME NEW h \in mail'
       PROVE  IsHook(h, n, m + 1)
  <2>1. CASE h \in mail
    <3>1. IsHook(h, n, m) /\ n <= n /\ m <= m + 1 /\ m + 1 \in Nat
      BY <1>2, <2>1
    <3> QED BY <1>2, <3>1, HookGrows
  <2>2. CASE h \notin mail
    <3>1. PICK kind \in kinds : h = Webhook(kind, m + 1, i, sub)
      BY <1>9, <2>2
    <3>2. PICK k \in Nat \ {0} : k = m + 1
      BY <1>2
    <3>3. kind \in Kinds /\ h = Webhook(kind, k, i, sub)
      BY <3>1, <3>2
    <3>4. IsHook(h, n, k)
      BY <1>2, <3>3, WebhookIs
    <3> QED BY <3>2, <3>4
  <2> QED BY <2>1, <2>2
<1>11. IsRow(row') /\ row'.subscription \in 0..n
  BY <1>1 DEF Books
<1>12. Books'
  BY <1>4, <1>7, <1>8, <1>10, <1>11 DEF Books
<1>13. Grows
  BY <1>1, <1>2, <1>4, <1>7 DEF Grows
<1> QED BY <1>1, <1>3, <1>7, <1>9, <1>12, <1>13 DEF Announced

\* What Stripe does to a subscription of its own accord, and what it says of it.
OwnChange(old, sub, kinds) ==
  /\ sub.plan = old.plan
  /\ \/ old.status = "active" /\ sub = old /\ kinds = {"cycle"}
     \/ old.status = "active" /\ sub.status = "past_due" /\ kinds = {"failed", "updated"}
     \/ sub.status = "active" /\ kinds \in {{"cycle", "updated"}, {"recovered", "updated"}}
     \/ kinds = {"updated"}
     \/ sub.status = "canceled" /\ kinds = {"deleted"}

LEMMA StripeChangesBooks ==
  ASSUME Books, StripeChanges
  PROVE  /\ Books' /\ Grows /\ UNCHANGED row
         /\ \E i \in DOMAIN stripe.subs, sub \in Subs, kinds \in SUBSET Kinds :
              OwnChange(stripe.subs[i], sub, kinds) /\ Announced(i, sub, kinds)
<1>1. PICK i, old :
        /\ i \in DOMAIN stripe.subs
        /\ old = stripe.subs[i]
        /\ \/ /\ old.status = "active"
              /\ Changed(i, old, {"cycle"})
           \/ /\ old.status = "active"
              /\ Changed(i, [old EXCEPT !.status = "past_due"], {"failed", "updated"})
           \/ /\ old.status = "past_due"
              /\ \E kind \in {"cycle", "recovered"} :
                   Changed(i, [old EXCEPT !.status = "active"], {kind, "updated"})
           \/ Changed(i, [old EXCEPT !.cancelAtPeriodEnd = ~@], {"updated"})
           \/ Changed(i, [old EXCEPT !.status = "canceled"], {"deleted"})
  BY DEF StripeChanges
<1>2. old \in Subs /\ UNCHANGED row
  BY <1>1, BooksCounted DEF StripeChanges
<1>3. SUFFICES \E sub \in Subs, kinds \in SUBSET Kinds :
                 OwnChange(old, sub, kinds) /\ Changed(i, sub, kinds)
  BY <1>1, <1>2, ChangedBooks
<1>4. CASE old.status = "active" /\ Changed(i, old, {"cycle"})
  <2>1. {"cycle"} \in SUBSET Kinds /\ OwnChange(old, old, {"cycle"})
    BY <1>4 DEF Kinds, OwnChange
  <2> QED BY <1>2, <1>4, <2>1
<1>5. CASE /\ old.status = "active"
           /\ Changed(i, [old EXCEPT !.status = "past_due"], {"failed", "updated"})
  <2>1. PICK sub : sub = [old EXCEPT !.status = "past_due"]
    OBVIOUS
  <2>2. sub \in Subs /\ sub.status = "past_due" /\ sub.plan = old.plan
    BY <1>2, <2>1 DEF Subs
  <2>3. {"failed", "updated"} \in SUBSET Kinds /\ OwnChange(old, sub, {"failed", "updated"})
    BY <1>5, <2>2 DEF Kinds, OwnChange
  <2> QED BY <1>5, <2>1, <2>2, <2>3
<1>6. CASE \E kind \in {"cycle", "recovered"} :
             Changed(i, [old EXCEPT !.status = "active"], {kind, "updated"})
  <2> PICK kind \in {"cycle", "recovered"} :
          Changed(i, [old EXCEPT !.status = "active"], {kind, "updated"})
    BY <1>6
  <2> PICK sub : sub = [old EXCEPT !.status = "active"]
    OBVIOUS
  <2>1. /\ kind \in {"cycle", "recovered"}
        /\ sub = [old EXCEPT !.status = "active"] /\ Changed(i, sub, {kind, "updated"})
    OBVIOUS
  <2>2. sub \in Subs /\ sub.status = "active" /\ sub.plan = old.plan
    BY <1>2, <2>1 DEF Subs
  <2>3. {kind, "updated"} \in SUBSET Kinds /\ OwnChange(old, sub, {kind, "updated"})
    BY <2>1, <2>2 DEF Kinds, OwnChange
  <2> QED BY <2>1, <2>2, <2>3
<1>7. CASE Changed(i, [old EXCEPT !.cancelAtPeriodEnd = ~@], {"updated"})
  <2>1. PICK b \in BOOLEAN : b = ~ old.cancelAtPeriodEnd
    OBVIOUS
  <2>2. PICK sub : sub = [old EXCEPT !.cancelAtPeriodEnd = b] /\ Changed(i, sub, {"updated"})
    BY <1>7, <2>1
  <2>3. sub \in Subs /\ sub.plan = old.plan
    BY <1>2, <2>2 DEF Subs
  <2>4. {"updated"} \in SUBSET Kinds /\ OwnChange(old, sub, {"updated"})
    BY <2>3 DEF Kinds, OwnChange
  <2> QED BY <2>2, <2>3, <2>4
<1>8. CASE Changed(i, [old EXCEPT !.status = "canceled"], {"deleted"})
  <2>1. PICK sub : sub = [old EXCEPT !.status = "canceled"]
    OBVIOUS
  <2>2. sub \in Subs /\ sub.status = "canceled" /\ sub.plan = old.plan
    BY <1>2, <2>1 DEF Subs
  <2>3. {"deleted"} \in SUBSET Kinds /\ OwnChange(old, sub, {"deleted"})
    BY <2>2 DEF Kinds, OwnChange
  <2> QED BY <1>8, <2>1, <2>2, <2>3
<1> QED BY <1>1, <1>4, <1>5, <1>6, <1>7, <1>8

\* A pack, or a subscription, that is paid for.
PaidPack(session) ==
  /\ stripe'.packs = stripe.packs + 1 /\ stripe'.subs = stripe.subs
  /\ mail' = mail \cup {Webhook("pack", stripe.news + 1, 0, session)}
PaidPlan(sub) ==
  /\ stripe'.packs = stripe.packs /\ stripe'.subs = Append(stripe.subs, sub)
  /\ sub \in Subs /\ sub.status = "active" /\ sub.cancelAtPeriodEnd = FALSE
  /\ mail' = mail \cup {Webhook("checkout", stripe.news + 1, Len(stripe.subs) + 1, sub)}

LEMMA PayCheckoutBooks ==
  ASSUME Books, PayCheckout
  PROVE  /\ Books' /\ Grows /\ UNCHANGED row
         /\ stripe'.news = stripe.news + 1 /\ stripe'.trialOver = stripe.trialOver
         /\ (\E session : PaidPack(session)) \/ \E sub : PaidPlan(sub)
<1>1. PICK session \in stripe.sessions :
       \/ /\ session.plan = "pack"
          /\ stripe' = [stripe EXCEPT !.packs = @ + 1, !.news = News,
                                      !.sessions = @ \ {session}]
          /\ mail' = mail \cup {Webhook("pack", News, 0, session)}
       \/ /\ session.plan # "pack"
          /\ LET sub == Subscribed(session.plan, session.customer)
             IN /\ stripe' = [stripe EXCEPT !.subs = Append(@, sub), !.news = News,
                                            !.sessions = @ \ {session}]
                /\ mail' = mail \cup {Webhook("checkout", News, Len(stripe.subs) + 1, sub)}
  BY DEF PayCheckout
<1>2. UNCHANGED row
  BY DEF PayCheckout
<1>3. PICK n, m, subs, left : /\ n = Len(stripe.subs) /\ m = stripe.news /\ subs = stripe.subs
                              /\ left = stripe.sessions \ {session}
  OBVIOUS
<1>4. /\ n \in Nat /\ m \in Nat /\ subs \in Seq(Subs) /\ IsStripe(stripe)
      /\ \A h \in mail : IsHook(h, n, m)
      /\ IsRow(row) /\ row.subscription \in 0..n
  BY <1>3, BooksCounted DEF Books
<1>5. /\ session.plan \in Kept \cup {"pack"} /\ session.customer \in Nat
      /\ \A s \in left : s.plan \in Kept \cup {"pack"} /\ s.customer \in Nat
  BY <1>3, <1>4 DEF IsStripe
<1>6. CASE session.plan = "pack"
  <2>1. PICK p : p = stripe.packs + 1
    OBVIOUS
  <2>2. /\ stripe' = [stripe EXCEPT !.packs = p, !.news = m + 1, !.sessions = left]
        /\ mail' = mail \cup {Webhook("pack", m + 1, 0, session)}
    BY <1>1, <1>3, <1>6, <2>1 DEF News
  <2>3. /\ stripe'.subs = subs /\ stripe'.news = m + 1 /\ stripe'.packs = p
        /\ stripe'.customers = stripe.customers /\ stripe'.sessions = left
        /\ stripe'.trialOver = stripe.trialOver
        /\ stripe' = [customers |-> stripe'.customers, subs |-> stripe'.subs,
                      sessions |-> stripe'.sessions, packs |-> stripe'.packs,
                      trialOver |-> stripe'.trialOver, news |-> stripe'.news,
                      redelivered |-> stripe'.redelivered]
    BY <1>3, <1>4, <2>2 DEF IsStripe
  <2>4. IsStripe(stripe')
    <3>1. p \in Nat
      BY <1>4, <2>1 DEF IsStripe
    <3> QED BY <1>4, <1>5, <2>3, <3>1 DEF IsStripe
  <2>5. ASSUME NEW h \in mail'
        PROVE  IsHook(h, n, m + 1)
    <3>1. CASE h \in mail
      <4>1. IsHook(h, n, m) /\ n <= n /\ m <= m + 1 /\ m + 1 \in Nat
        BY <1>4, <3>1
      <4> QED BY <1>4, <4>1, HookGrows
    <3>2. CASE h = Webhook("pack", m + 1, 0, session)
      <4>1. m + 1 \in 1..(m + 1)
        BY <1>4
      <4> QED BY <3>2, <4>1 DEF IsHook, Webhook
    <3> QED BY <2>2, <3>1, <3>2
  <2>6. Books'
    BY <1>2, <1>3, <1>4, <2>3, <2>4, <2>5 DEF Books
  <2>7. Grows
    BY <1>3, <1>4, <2>3 DEF Grows
  <2>8. PaidPack(session)
    BY <1>3, <2>1, <2>2, <2>3 DEF PaidPack
  <2> QED BY <1>2, <1>3, <2>3, <2>6, <2>7, <2>8
<1>7. CASE session.plan # "pack"
  <2>1. PICK sub, subs2 : /\ sub = Subscribed(session.plan, session.customer)
                          /\ subs2 = Append(subs, sub)
    OBVIOUS
  <2>2. sub \in Subs /\ sub.status = "active" /\ sub.cancelAtPeriodEnd = FALSE
    BY <1>5, <1>7, <2>1 DEF Subs, Subscribed
  <2>3. subs2 \in Seq(Subs) /\ Len(subs2) = n + 1
    BY <1>3, <1>4, <2>1, <2>2
  <2>4. /\ stripe' = [stripe EXCEPT !.subs = subs2, !.news = m + 1, !.sessions = left]
        /\ mail' = mail \cup {Webhook("checkout", m + 1, n + 1, sub)}
    BY <1>1, <1>3, <1>7, <2>1 DEF News
  <2>5. /\ stripe'.subs = subs2 /\ stripe'.news = m + 1 /\ stripe'.packs = stripe.packs
        /\ stripe'.customers = stripe.customers /\ stripe'.sessions = left
        /\ stripe'.trialOver = stripe.trialOver
        /\ stripe' = [customers |-> stripe'.customers, subs |-> stripe'.subs,
                      sessions |-> stripe'.sessions, packs |-> stripe'.packs,
                      trialOver |-> stripe'.trialOver, news |-> stripe'.news,
                      redelivered |-> stripe'.redelivered]
    BY <1>4, <2>4 DEF IsStripe
  <2>6. IsStripe(stripe')
    BY <1>4, <1>5, <2>3, <2>5 DEF IsStripe
  <2>7. ASSUME NEW h \in mail'
        PROVE  IsHook(h, n + 1, m + 1)
    <3>1. CASE h \in mail
      <4>1. IsHook(h, n, m) /\ n <= n + 1 /\ m <= m + 1 /\ m + 1 \in Nat /\ n + 1 \in Nat
        BY <1>4, <3>1
      <4> QED BY <1>4, <4>1, HookGrows
    <3>2. CASE h = Webhook("checkout", m + 1, n + 1, sub)
      <4>1. m + 1 \in 1..(m + 1) /\ n + 1 \in 1..(n + 1)
        BY <1>4
      <4> QED BY <2>2, <3>2, <4>1 DEF IsHook, Webhook
    <3> QED BY <2>4, <3>1, <3>2
  <2>8. Books'
    <3>1. row'.subscription \in 0..(n + 1) /\ IsRow(row')
      BY <1>2, <1>4
    <3> QED BY <2>3, <2>5, <2>6, <2>7, <3>1 DEF Books
  <2>9. Grows
    BY <1>3, <1>4, <2>3, <2>5 DEF Grows
  <2>10. PaidPlan(sub)
    BY <1>3, <2>1, <2>2, <2>4, <2>5 DEF PaidPlan
  <2> QED BY <1>2, <1>3, <2>5, <2>8, <2>9, <2>10
<1> QED BY <1>6, <1>7

LEMMA TrialEndsBooks ==
  ASSUME Books, TrialEnds
  PROVE  /\ Books' /\ Grows /\ stripe'.trialOver = TRUE /\ stripe'.subs = stripe.subs
         /\ stripe'.news = stripe.news /\ stripe'.packs = stripe.packs
<1>1. /\ stripe' = [stripe EXCEPT !.trialOver = TRUE] /\ UNCHANGED <<row, mail>>
      /\ IsStripe(stripe)
  BY DEF TrialEnds, Books
<1>2. /\ stripe'.subs = stripe.subs /\ stripe'.news = stripe.news
      /\ stripe'.packs = stripe.packs /\ stripe'.trialOver = TRUE
      /\ stripe'.customers = stripe.customers /\ stripe'.sessions = stripe.sessions
      /\ stripe' = [customers |-> stripe'.customers, subs |-> stripe'.subs,
                    sessions |-> stripe'.sessions, packs |-> stripe'.packs,
                    trialOver |-> stripe'.trialOver, news |-> stripe'.news,
                    redelivered |-> stripe'.redelivered]
  BY <1>1 DEF IsStripe
<1>3. IsStripe(stripe')
  BY <1>1, <1>2 DEF IsStripe
<1>4. Grows
  BY <1>2, BooksCounted DEF Grows
<1>5. PICK n, m : n = Len(stripe.subs) /\ m = stripe.news
  OBVIOUS
<1>6. Books'
  BY <1>1, <1>2, <1>3, <1>5 DEF Books
<1> QED BY <1>2, <1>4, <1>6

-----------------------------------------------------------------------------
(* The requests for the subscription.                                       *)

\* What a request for the subscription is when it arrives.
Arrived(new) ==
  \/ /\ new.op = "checkout" /\ new.pc = "customer"
     /\ new.value \in Kept \cup {"pack"} /\ new.seen = row.customer
  \/ /\ new.op \in ChangeOps /\ new.pc = "stripe" /\ row.subscription # 0
     /\ new.seen = row.subscription /\ (new.op = "changePlan" => new.value \in Kept)
  \/ /\ new.op = "cancelTrial" /\ new.pc = "write" /\ row.subscription = 0
  \/ /\ new.op = "expireTrial" /\ new.pc = "listed" /\ Overdue

LEMMA BillingArrives ==
  ASSUME NEW r \in Requests,
         \/ Checkout(r) \/ ChangePlan(r) \/ CancelOrResume(r) \/ CancelTrial(r)
         \/ ListOverdueTrials(r)
  PROVE  UNCHANGED billingVars /\ \E new : Moves(r, new) /\ Arrived(new)
<1>1. Plans \subseteq Kept
  BY SubscriptionAssumption DEF Kept
<1>2. CASE Checkout(r)
  <2>1. PICK plan, x :
          /\ plan \in Plans \cup {"pack"}
          /\ Call(r, x) /\ x = [NewRequest EXCEPT !.op = "checkout", !.pc = "customer",
                                             !.value = plan, !.seen = row.customer]
    BY <1>2 DEF Checkout
  <2>2. Started(x, BillingOps) /\ Arrived(x)
    BY <1>1, <2>1 DEF Started, NewRequest, IsRequest, BillingOps, Arrived
  <2> QED BY <1>2, <2>1, <2>2, ArrivesMoves DEF Checkout
<1>3. CASE ChangePlan(r)
  <2>1. PICK plan, x :
          /\ plan \in Plans
          /\ Call(r, x) /\ x = [NewRequest EXCEPT !.op = "changePlan", !.pc = "stripe",
                                             !.value = plan, !.seen = row.subscription]
    BY <1>3 DEF ChangePlan
  <2>2. row.subscription # 0
    BY <1>3 DEF ChangePlan
  <2>3. Started(x, BillingOps) /\ Arrived(x)
    BY <1>1, <2>1, <2>2 DEF Started, NewRequest, IsRequest, BillingOps, Arrived, ChangeOps
  <2> QED BY <1>3, <2>1, <2>3, ArrivesMoves DEF ChangePlan
<1>4. CASE CancelOrResume(r)
  <2>1. PICK op, x :
          /\ op \in {"cancelNow", "cancelAtEnd", "resume"} /\ Call(r, x)
          /\ x = [NewRequest EXCEPT !.op = op, !.pc = "stripe", !.seen = row.subscription]
    BY <1>4 DEF CancelOrResume
  <2>2. row.subscription # 0
    BY <1>4 DEF CancelOrResume
  <2>3. Started(x, BillingOps) /\ Arrived(x)
    BY <2>1, <2>2 DEF Started, NewRequest, IsRequest, BillingOps, Arrived, ChangeOps
  <2> QED BY <1>4, <2>1, <2>3, ArrivesMoves DEF CancelOrResume
<1>5. CASE CancelTrial(r)
  <2>1. PICK x : Call(r, x) /\ x = [NewRequest EXCEPT !.op = "cancelTrial", !.pc = "write"]
    BY <1>5 DEF CancelTrial
  <2>2. Started(x, BillingOps) /\ Arrived(x)
    BY <1>5, <2>1 DEF Started, NewRequest, IsRequest, BillingOps, Arrived, CancelTrial
  <2> QED BY <1>5, <2>1, <2>2, ArrivesMoves DEF CancelTrial
<1>6. CASE ListOverdueTrials(r)
  <2>1. PICK x : Call(r, x) /\ x = [NewRequest EXCEPT !.op = "expireTrial", !.pc = "listed"]
    BY <1>6 DEF ListOverdueTrials
  <2>2. Started(x, BillingOps) /\ Arrived(x)
    BY <1>6, <2>1 DEF Started, NewRequest, IsRequest, BillingOps, Arrived, ListOverdueTrials
  <2> QED BY <1>6, <2>1, <2>2, ArrivesMoves DEF ListOverdueTrials
<1> QED BY <1>2, <1>3, <1>4, <1>5, <1>6

LEMMA BillingArrivesInv ==
  ASSUME BillingInv, NEW r \in Requests, NEW new, Moves(r, new), Arrived(new),
         UNCHANGED billingVars
  PROVE  BillingInv'
<1>1. PICK n, m : n = Len(stripe.subs) /\ m = stripe.news
  OBVIOUS
<1>2. /\ n \in Nat /\ m \in Nat /\ row.subscription \in 0..n /\ row.customer \in Nat
      /\ UNCHANGED <<row, stripe, mail>>
  BY <1>1, BooksCounted DEF BillingInv, Books, IsRow, billingVars
<1>3. Books'
  BY <1>2 DEF BillingInv, Books
<1>4. Grows
  BY <1>1, <1>2 DEF Grows
<1>5. BillingSound(new, n, m)
  BY <1>2 DEF Arrived, BillingSound, ChangeOps
<1> QED BY <1>1, <1>2, <1>3, <1>4, <1>5, BillingStep

\* The customer that is made, and the session.
LEMMA CreateCustomerInv ==
  ASSUME BillingInv, NEW r \in Requests, CreateCustomer(r)
  PROVE  /\ BillingInv'
         /\ \E new : Moves(r, new) /\ new.op = "checkout" /\ new.pc = "customer"
         /\ row'.detached = row.detached /\ row'.status = row.status
         /\ row'.plan = row.plan /\ row'.cancelAtPeriodEnd = row.cancelAtPeriodEnd
         /\ row'.subscription = row.subscription /\ row'.news = row.news
         /\ row'.extraCredits = row.extraCredits
         /\ stripe'.subs = stripe.subs /\ stripe'.news = stripe.news
         /\ stripe'.packs = stripe.packs /\ stripe'.trialOver = stripe.trialOver
         /\ mail' = mail
<1>1. PICK n, m, c : n = Len(stripe.subs) /\ m = stripe.news /\ c = stripe.customers + 1
  OBVIOUS
<1>2. /\ IsRow(row) /\ IsStripe(stripe) /\ n \in Nat /\ m \in Nat /\ c \in Nat
      /\ row.subscription \in 0..n
  BY <1>1, BooksCounted DEF BillingInv, Books, IsStripe
<1>3. /\ stripe' = [stripe EXCEPT !.customers = c] /\ row' = [row EXCEPT !.customer = c]
      /\ mail' = mail
  BY <1>1 DEF CreateCustomer
<1>4. /\ IsRow(row') /\ row'.detached = row.detached /\ row'.status = row.status
      /\ row'.plan = row.plan /\ row'.cancelAtPeriodEnd = row.cancelAtPeriodEnd
      /\ row'.subscription = row.subscription /\ row'.news = row.news
      /\ row'.extraCredits = row.extraCredits
  BY <1>2, <1>3 DEF IsRow
<1>5. /\ stripe'.subs = stripe.subs /\ stripe'.news = stripe.news
      /\ stripe'.packs = stripe.packs /\ stripe'.trialOver = stripe.trialOver
      /\ stripe'.customers = c /\ stripe'.sessions = stripe.sessions
      /\ stripe' = [customers |-> stripe'.customers, subs |-> stripe'.subs,
                    sessions |-> stripe'.sessions, packs |-> stripe'.packs,
                    trialOver |-> stripe'.trialOver, news |-> stripe'.news,
                    redelivered |-> stripe'.redelivered]
  BY <1>2, <1>3 DEF IsStripe
<1>6. IsStripe(stripe')
  BY <1>2, <1>5 DEF IsStripe
<1>7. Books'
  BY <1>1, <1>2, <1>3, <1>4, <1>5, <1>6 DEF BillingInv, Books
<1>8. Grows
  BY <1>1, <1>2, <1>5 DEF Grows
<1>9. PICK new : Becomes(r, new) /\ new = [req[r] EXCEPT !.seen = c]
  BY <1>1 DEF CreateCustomer
<1>10. /\ IsRequest(req[r]) /\ req[r].op = "checkout" /\ req[r].pc = "customer"
       /\ req[r].value \in Kept \cup {"pack"}
  BY DEF CreateCustomer, Doing, BillingInv, RequestsInv, BillingSound
<1>11. /\ Moves(r, new) /\ new.op = "checkout" /\ new.pc = "customer" /\ new.seen = c
       /\ new.value = req[r].value
  BY <1>9, <1>10 DEF Moves, IsRequest, Over
<1>12. BillingSound(new, n, m)
  BY <1>2, <1>10, <1>11 DEF BillingSound, ChangeOps
<1>13. BillingInv'
  BY <1>1, <1>5, <1>7, <1>8, <1>11, <1>12, BillingStep
<1> QED BY <1>3, <1>4, <1>5, <1>11, <1>13

LEMMA CreateSessionInv ==
  ASSUME BillingInv, NEW r \in Requests, CreateSession(r)
  PROVE  /\ BillingInv' /\ \E new : Moves(r, new) /\ new.pc = "done"
         /\ UNCHANGED <<row, mail>>
         /\ stripe'.subs = stripe.subs /\ stripe'.news = stripe.news
         /\ stripe'.packs = stripe.packs /\ stripe'.trialOver = stripe.trialOver
<1>1. PICK n, m, session, sessions :
        /\ n = Len(stripe.subs) /\ m = stripe.news
        /\ session = [plan |-> req[r].value, customer |-> req[r].seen, by |-> r]
        /\ sessions = stripe.sessions \cup {session}
  OBVIOUS
<1>2. /\ IsStripe(stripe) /\ n \in Nat /\ m \in Nat
      /\ req[r].op = "checkout" /\ req[r].pc = "customer"
      /\ req[r].value \in Kept \cup {"pack"} /\ req[r].seen \in Nat
  BY <1>1, BooksCounted DEF BillingInv, Books, CreateSession, Doing, BillingSound
<1>3. stripe' = [stripe EXCEPT !.sessions = sessions] /\ UNCHANGED <<row, mail>>
  BY <1>1 DEF CreateSession
<1>4. \A s \in sessions : s.plan \in Kept \cup {"pack"} /\ s.customer \in Nat
  BY <1>1, <1>2 DEF IsStripe
<1>5. /\ stripe'.subs = stripe.subs /\ stripe'.news = stripe.news
      /\ stripe'.packs = stripe.packs /\ stripe'.trialOver = stripe.trialOver
      /\ stripe'.customers = stripe.customers /\ stripe'.sessions = sessions
      /\ stripe' = [customers |-> stripe'.customers, subs |-> stripe'.subs,
                    sessions |-> stripe'.sessions, packs |-> stripe'.packs,
                    trialOver |-> stripe'.trialOver, news |-> stripe'.news,
                    redelivered |-> stripe'.redelivered]
  BY <1>2, <1>3 DEF IsStripe
<1>6. IsStripe(stripe')
  BY <1>2, <1>4, <1>5 DEF IsStripe
<1>7. Books'
  BY <1>3, <1>5, <1>6 DEF BillingInv, Books
<1>8. Grows
  BY <1>1, <1>2, <1>5 DEF Grows
<1>9. PICK new : Moves(r, new) /\ new.pc = "done"
  BY <1>2, GoesOn DEF CreateSession, BillingInv, Over
<1>10. BillingInv'
  BY <1>1, <1>5, <1>7, <1>8, <1>9, BillingStep
<1> QED BY <1>3, <1>5, <1>9, <1>10

\* What Stripe is asked to do, and what it says of it.
Ordered(x, old, sub, kinds) ==
  \/ /\ x.op = "changePlan" /\ kinds = {"updated"}
     /\ sub.plan = x.value /\ sub.status = old.status
  \/ /\ x.op = "cancelNow" /\ sub.plan = old.plan /\ sub.status = "canceled"
     /\ kinds = {"deleted"}
  \/ /\ x.op \in {"cancelAtEnd", "resume"} /\ kinds = {"updated"} /\ sub.plan = old.plan
     /\ sub.cancelAtPeriodEnd = (x.op = "cancelAtEnd")

\* The request that has been answered knows what Stripe has made of the subscription.
OrderedBy(r, new) ==
  /\ new.op = req[r].op /\ new.op \in ChangeOps /\ new.pc = "write"
  /\ \E i \in DOMAIN stripe.subs, sub \in Subs, kinds \in SUBSET Kinds :
       /\ Ordered(req[r], stripe.subs[i], sub, kinds) /\ Announced(i, sub, kinds)
       /\ new.value = sub /\ new.level = stripe.news + 1

LEMMA CallStripeInv ==
  ASSUME BillingInv, NEW r \in Requests, CallStripe(r)
  PROVE  /\ BillingInv' /\ UNCHANGED row
         /\ \E new : /\ Moves(r, new)
                     /\ OrderedBy(r, new) \/ (new.pc = "refused" /\ UNCHANGED <<stripe, mail>>)
<1>1. PICK n, m, i, x : /\ n = Len(stripe.subs) /\ m = stripe.news
                        /\ i = req[r].seen /\ x = req[r]
  OBVIOUS
<1>2. /\ n \in Nat /\ m \in Nat /\ DOMAIN stripe.subs = 1..n /\ Books
      /\ x.op \in ChangeOps /\ x.pc = "stripe" /\ i \in DOMAIN stripe.subs
      /\ (x.op = "changePlan" => x.value \in Kept) /\ IsRequest(x) /\ UNCHANGED row
  BY <1>1, BooksCounted DEF BillingInv, CallStripe, BillingSound, ChangeOps, RequestsInv
<1>3. CASE ~ Running(i)
  <2>1. Goto(r, "refused") /\ UNCHANGED <<stripe, mail>>
    BY <1>1, <1>3 DEF CallStripe
  <2>2. PICK new : Moves(r, new) /\ new.pc = "refused"
    BY <1>1, <1>2, <2>1, GoesOn DEF BillingInv, Over
  <2>3. Books'
    BY <1>2, <2>1 DEF Books
  <2>4. Grows
    BY <1>1, <1>2, <2>1 DEF Grows
  <2>5. BillingInv'
    BY <2>1, <2>2, <2>3, <2>4, BillingStep
  <2> QED BY <1>2, <2>1, <2>2, <2>5
<1>4. CASE Running(i)
  <2>1. PICK old, sub, kind :
          /\ old = stripe.subs[i] /\ sub = Requested(r, old)
          /\ kind = IF x.op = "cancelNow" THEN "deleted" ELSE "updated"
          /\ Changed(i, sub, {kind})
          /\ Becomes(r, [x EXCEPT !.pc = "write", !.level = m + 1, !.value = sub])
    BY <1>1, <1>4 DEF CallStripe, News
  <2>2. old \in Subs
    BY <1>2, <2>1, BooksCounted
  <2>3. sub \in Subs /\ Ordered(x, old, sub, {kind}) /\ {kind} \in SUBSET Kinds
    <3>1. kind \in Kinds
      BY <2>1 DEF Kinds
    <3>2. CASE x.op = "changePlan"
      <4>1. sub = [old EXCEPT !.plan = x.value]
        BY <1>1, <2>1, <3>2 DEF Requested
      <4> QED BY <1>2, <2>1, <2>2, <3>1, <3>2, <4>1 DEF Subs, Ordered
    <3>3. CASE x.op = "cancelNow"
      <4>1. sub = [old EXCEPT !.status = "canceled"]
        BY <1>1, <2>1, <3>3 DEF Requested
      <4> QED BY <2>1, <2>2, <3>1, <3>3, <4>1 DEF Subs, Ordered
    <3>4. CASE x.op \in {"cancelAtEnd", "resume"}
      <4>1. PICK b \in BOOLEAN : b = (x.op = "cancelAtEnd")
        OBVIOUS
      <4>2. sub = [old EXCEPT !.cancelAtPeriodEnd = b]
        BY <1>1, <2>1, <3>4, <4>1 DEF Requested
      <4>3. sub \in Subs /\ sub.plan = old.plan /\ sub.cancelAtPeriodEnd = b
        BY <2>2, <4>2 DEF Subs
      <4> QED BY <2>1, <3>1, <3>4, <4>1, <4>3 DEF Ordered
    <3> QED BY <1>2, <3>2, <3>3, <3>4 DEF ChangeOps
  <2>4. Books' /\ Grows /\ Announced(i, sub, {kind})
    BY <1>2, <2>1, <2>3, ChangedBooks
  <2>5. PICK new : /\ new = [x EXCEPT !.pc = "write", !.level = m + 1, !.value = sub]
                   /\ Becomes(r, new)
    BY <2>1
  <2>6. /\ Moves(r, new) /\ new.op = x.op /\ new.pc = "write" /\ new.level = m + 1
        /\ new.value = sub
    BY <1>1, <1>2, <2>5 DEF Moves, IsRequest, Over
  <2>7. OrderedBy(r, new)
    BY <1>1, <1>2, <2>1, <2>3, <2>4, <2>6 DEF OrderedBy
  <2>8. PICK n2, m2 : n2 = Len(stripe'.subs) /\ m2 = stripe'.news
    OBVIOUS
  <2>9. m2 = m + 1
    BY <1>1, <2>4, <2>8 DEF Announced
  <2>10. BillingSound(new, n2, m2)
    BY <1>2, <2>3, <2>6, <2>9 DEF BillingSound, ChangeOps
  <2>11. BillingInv'
    BY <2>4, <2>6, <2>8, <2>10, BillingStep
  <2> QED BY <1>2, <2>6, <2>7, <2>11
<1> QED BY <1>3, <1>4

\* What the billing pages and the cron write, but for its number.
Orders(x, new, n) ==
  /\ IsRow(new) /\ new.news = row.news /\ new.detached = row.detached
  /\ new.customer = row.customer /\ new.extraCredits = row.extraCredits
  /\ new.subscription = row.subscription
  /\ \/ /\ x.op = "changePlan" /\ n = x.level /\ new.plan = x.value.plan
        /\ new.status = x.value.status /\ new.cancelAtPeriodEnd = row.cancelAtPeriodEnd
     \/ /\ x.op = "cancelNow" /\ n = x.level /\ new.plan = row.plan
        /\ new.status = "canceled" /\ new.cancelAtPeriodEnd = FALSE
     \/ /\ x.op \in {"cancelAtEnd", "resume"} /\ n = x.level /\ new.plan = row.plan
        /\ new.status = row.status
        /\ new.cancelAtPeriodEnd = (x.op = "cancelAtEnd")
     \/ /\ x.op = "cancelTrial" /\ n = 0 /\ new.plan = row.plan /\ new.status = "canceled"
        /\ new.cancelAtPeriodEnd = row.cancelAtPeriodEnd
     \/ /\ x.op = "expireTrial" /\ n = 0 /\ new.plan = row.plan /\ new.status = "expired"
        /\ new.cancelAtPeriodEnd = row.cancelAtPeriodEnd

\* The request writes the row.
Writes(r) ==
  /\ req[r].pc \in {"write", "listed"}
  /\ \E new, n : Orders(req[r], new, n) /\ WrittenFrom(new, n)
  /\ UNCHANGED <<stripe, mail>>

LEMMA WritesInv ==
  ASSUME BillingInv, NEW r \in Requests, req[r].pc \in {"write", "listed"}, Goto(r, "done"),
         NEW new, NEW n \in Nat, Orders(req[r], new, n), Written(new, n),
         UNCHANGED <<stripe, mail>>
  PROVE  BillingInv' /\ Writes(r) /\ \E x : Moves(r, x) /\ x.pc = "done"
<1>1. WrittenFrom(new, n)
  BY WrittenRow DEF Orders, BillingInv, Books
<1>2. Writes(r)
  BY <1>1 DEF Writes
<1>3. PICK x : Moves(r, x) /\ x.pc = "done"
  BY GoesOn DEF BillingInv, Over
<1>4. IsRow(row') /\ row'.subscription = row.subscription
  BY <1>1 DEF WrittenFrom, Orders
<1>5. Books'
  BY <1>4 DEF BillingInv, Books
<1>6. Grows
  BY BooksCounted DEF Grows, BillingInv
<1>7. BillingInv'
  BY <1>3, <1>5, <1>6, BillingStep
<1> QED BY <1>2, <1>3, <1>7

LEMMA WriteRowInv ==
  ASSUME BillingInv, NEW r \in Requests, WriteRow(r)
  PROVE  BillingInv' /\ Writes(r) /\ \E x : Moves(r, x) /\ x.pc = "done"
<1>1. PICK x, m : x = req[r] /\ m = stripe.news
  OBVIOUS
<1>2. /\ x.pc = "write" /\ IsRow(row) /\ UNCHANGED <<stripe, mail>> /\ Goto(r, "done")
      /\ m \in Nat
  BY <1>1, BooksCounted DEF WriteRow, BillingInv, Books
<1>3. /\ x.op \in ChangeOps => x.level \in Nat
      /\ x.op = "changePlan" => x.value \in Subs
  BY <1>1, <1>2 DEF BillingInv, BillingSound
<1>4. CASE x.op = "changePlan"
  <2>1. PICK new : /\ new = [row EXCEPT !.plan = x.value.plan, !.status = x.value.status]
                   /\ Written(new, x.level)
    BY <1>1, <1>4 DEF WriteRow
  <2>2. x.value.plan \in Kept /\ x.level \in Nat
    BY <1>3, <1>4 DEF Subs, ChangeOps
  <2>3. Orders(x, new, x.level)
    BY <1>2, <1>4, <2>1, <2>2 DEF Orders, IsRow
  <2> QED BY <1>1, <1>2, <2>1, <2>2, <2>3, WritesInv
<1>5. CASE x.op = "cancelNow"
  <2>1. PICK new : /\ new = [row EXCEPT !.status = "canceled", !.cancelAtPeriodEnd = FALSE]
                   /\ Written(new, x.level)
    BY <1>1, <1>5 DEF WriteRow
  <2>2. x.level \in Nat
    BY <1>3, <1>5 DEF ChangeOps
  <2>3. Orders(x, new, x.level)
    BY <1>2, <1>5, <2>1 DEF Orders, IsRow
  <2> QED BY <1>1, <1>2, <2>1, <2>2, <2>3, WritesInv
<1>6. CASE x.op \in {"cancelAtEnd", "resume"}
  <2>1. PICK b : b = (x.op = "cancelAtEnd")
    OBVIOUS
  <2>2. PICK new : new = [row EXCEPT !.cancelAtPeriodEnd = b] /\ Written(new, x.level)
    BY <1>1, <1>6, <2>1 DEF WriteRow
  <2>3. x.level \in Nat
    BY <1>3, <1>6 DEF ChangeOps
  <2>4. /\ IsRow(new) /\ new.news = row.news /\ new.detached = row.detached
        /\ new.customer = row.customer /\ new.extraCredits = row.extraCredits
        /\ new.subscription = row.subscription /\ new.plan = row.plan
        /\ new.status = row.status /\ new.cancelAtPeriodEnd = b
    BY <1>2, <2>2 DEF IsRow
  <2>5. Orders(x, new, x.level)
    BY <1>6, <2>1, <2>4 DEF Orders
  <2> QED BY <1>1, <1>2, <2>2, <2>3, <2>5, WritesInv
<1>7. CASE x.op = "cancelTrial"
  <2>1. PICK new : new = [row EXCEPT !.status = "canceled"] /\ Written(new, 0)
    BY <1>1, <1>7 DEF WriteRow
  <2>2. Orders(x, new, 0)
    BY <1>2, <1>7, <2>1 DEF Orders, IsRow
  <2> QED BY <1>1, <1>2, <2>1, <2>2, WritesInv
<1> QED BY <1>1, <1>4, <1>5, <1>6, <1>7 DEF WriteRow

LEMMA ExpireTrialInv ==
  ASSUME BillingInv, NEW r \in Requests, ExpireTrial(r)
  PROVE  BillingInv' /\ Writes(r) /\ \E x : Moves(r, x) /\ x.pc = "done"
<1>1. PICK x, new : x = req[r] /\ new = [row EXCEPT !.status = "expired"] /\ Written(new, 0)
  BY DEF ExpireTrial
<1>2. /\ x.op = "expireTrial" /\ x.pc = "listed" /\ IsRow(row)
      /\ UNCHANGED <<stripe, mail>> /\ Goto(r, "done")
  BY <1>1 DEF ExpireTrial, Doing, BillingInv, Books
<1>3. Orders(x, new, 0)
  BY <1>1, <1>2 DEF Orders, IsRow
<1> QED BY <1>1, <1>2, <1>3, WritesInv

LEMMA AdministrateInv ==
  ASSUME BillingInv, NEW r \in Requests, Administrate(r)
  PROVE  /\ BillingInv' /\ \E x : Moves(r, x) /\ x.pc = "done"
         /\ row'.detached = TRUE /\ row'.status \in {"suspended", "active"}
         /\ UNCHANGED <<stripe, mail>>
<1>1. PICK status, new :
        status \in {"suspended", "active"} /\ new = [row EXCEPT !.status = status] /\ row' = [new EXCEPT !.detached = TRUE]
  BY DEF Administrate, Detached
<1>2. /\ IsRow(row) /\ row.subscription \in 0..Len(stripe.subs) /\ UNCHANGED <<stripe, mail>>
      /\ IsRow(new) /\ new.status = status /\ new.subscription = row.subscription
  BY <1>1 DEF Administrate, BillingInv, Books, IsRow
<1>3. /\ IsRow(row') /\ row'.subscription = row.subscription /\ row'.detached = TRUE
      /\ row'.status = status
  BY <1>1, <1>2 DEF IsRow
<1>4. Books'
  BY <1>2, <1>3 DEF BillingInv, Books
<1>5. Grows
  BY <1>2, BooksCounted DEF Grows, BillingInv
<1>6. PICK x : /\ Call(r, x)
               /\ x = [NewRequest EXCEPT !.op = "administrate", !.pc = "done"]
  BY DEF Administrate
<1>7. Started(x, BillingOps) /\ x.pc = "done"
  BY <1>6 DEF Started, NewRequest, IsRequest, BillingOps
<1>8. Moves(r, x)
  BY <1>6, <1>7, ArrivesMoves DEF Administrate
<1>9. BillingInv'
  BY <1>4, <1>5, <1>7, <1>8, BillingStep
<1> QED BY <1>1, <1>2, <1>3, <1>7, <1>8, <1>9

-----------------------------------------------------------------------------
LEMMA ElsewhereBilling ==
  ASSUME BillingInv, NEW r \in Requests, NEW ops, Serves(r, ops), ops \cap BillingOps = {},
         UNCHANGED billingVars
  PROVE  BillingInv'
<1>1. PICK new : Moves(r, new) /\ new.op \notin BillingOps
  BY DEF Serves
<1>2. PICK n, m : n = Len(stripe.subs) /\ m = stripe.news
  OBVIOUS
<1>3. n \in Nat /\ m \in Nat /\ UNCHANGED <<row, stripe, mail>>
  BY <1>2, BooksCounted DEF BillingInv, billingVars
<1>4. Books'
  BY <1>3 DEF BillingInv, Books
<1>5. Grows
  BY <1>2, <1>3 DEF Grows
<1>6. BillingSound(new, n, m)
  BY <1>1 DEF BillingSound, BillingOps, ChangeOps
<1> QED BY <1>1, <1>2, <1>3, <1>4, <1>5, <1>6, BillingStep

LEMMA StillBilling ==
  ASSUME BillingInv, UNCHANGED <<billingVars, requestVars>>
  PROVE  BillingInv'
<1>1. UNCHANGED <<row, stripe, mail>>
  BY DEF billingVars
<1>2. Books'
  BY <1>1 DEF BillingInv, Books
<1>3. Grows
  BY <1>1, BooksCounted DEF Grows, BillingInv
<1> QED BY <1>2, <1>3, BillingRest

LEMMA SubscriptionBilling ==
  ASSUME BillingInv, SubscriptionStep
  PROVE  BillingInv'
<1>1. Books
  BY DEF BillingInv
<1>2. CASE PayCheckout \/ StripeChanges \/ TrialEnds
  <2>1. Books' /\ Grows
    BY <1>1, <1>2, PayCheckoutBooks, StripeChangesBooks, TrialEndsBooks
  <2>2. UNCHANGED requestVars
    BY <1>2 DEF PayCheckout, StripeChanges, TrialEnds
  <2> QED BY <2>1, <2>2, BillingRest
<1>3. CASE \/ DeliverPack \/ DeliverSubscription \/ DeliverInvoice \/ ReadRecovery
           \/ WriteRecovery
  <2>1. Books' /\ Grows
    BY <1>1, <1>3, DeliverPackBooks, DeliverSubscriptionBooks, DeliverInvoiceBooks,
       ReadRecoveryBooks, WriteRecoveryBooks
  <2>2. UNCHANGED requestVars
    BY <1>3 DEF DeliverPack, DeliverSubscription, DeliverInvoice, ReadRecovery, WriteRecovery
  <2> QED BY <2>1, <2>2, BillingRest
<1>4. ASSUME NEW r \in Requests,
             \/ Checkout(r) \/ ChangePlan(r) \/ CancelOrResume(r) \/ CancelTrial(r)
             \/ ListOverdueTrials(r)
      PROVE  BillingInv'
  BY <1>4, BillingArrives, BillingArrivesInv
<1>5. ASSUME NEW r \in Requests,
             \/ CreateCustomer(r) \/ CreateSession(r) \/ CallStripe(r) \/ WriteRow(r)
             \/ ExpireTrial(r) \/ Administrate(r)
      PROVE  BillingInv'
  BY <1>5, CreateCustomerInv, CreateSessionInv, CallStripeInv, WriteRowInv, ExpireTrialInv,
     AdministrateInv
<1> QED BY <1>2, <1>3, <1>4, <1>5 DEF SubscriptionStep

LEMMA BillingInit == Init => BillingInv
<1> SUFFICES ASSUME Init PROVE BillingInv
  OBVIOUS
<1>1. RequestsInv /\ \A r \in Requests : req[r].op = "none"
  BY RequestsInitInv DEF Init
<1>2. mail = {}
  BY DEF Init, SubscriptionInit
<1>3. CASE row = NewRow /\ stripe = NewStripe
  <2>1. IsRow(row) /\ row.subscription = 0
    BY <1>3 DEF NewRow, IsRow, Kept
  <2>2. IsStripe(stripe) /\ stripe.subs = <<>>
    <3>1. stripe.subs = <<>> /\ <<>> \in Seq(Subs)
      BY <1>3 DEF NewStripe
    <3> QED BY <1>3, <3>1 DEF NewStripe, IsStripe
  <2> QED BY <1>1, <1>2, <2>1, <2>2 DEF BillingInv, Books, BillingSound, ChangeOps
<1>4. CASE \E plan \in Plans :
             /\ row = [NewRow EXCEPT !.plan = plan, !.status = "active",
                                     !.customer = 1, !.subscription = 1]
             /\ stripe = [NewStripe EXCEPT !.customers = 1, !.subs = <<Subscribed(plan, 1)>>,
                                              !.trialOver = TRUE]
  <2>1. PICK plan, sub, subs :
          /\ plan \in Plans
          /\ sub = Subscribed(plan, 1) /\ subs = <<sub>>
          /\ row = [NewRow EXCEPT !.plan = plan, !.status = "active",
                                  !.customer = 1, !.subscription = 1]
          /\ stripe = [NewStripe EXCEPT !.customers = 1, !.subs = subs, !.trialOver = TRUE]
    BY <1>4
  <2>2. plan \in Kept
    BY <2>1, SubscriptionAssumption DEF Kept
  <2>3. sub \in Subs
    BY <2>1, <2>2 DEF Subscribed, Subs
  <2>4. subs \in Seq(Subs) /\ Len(subs) = 1
    BY <2>1, <2>3
  <2>5. IsRow(row) /\ row.subscription = 1
    <3>1. row = [plan |-> plan, status |-> "active", cancelAtPeriodEnd |-> FALSE,
                 customer |-> 1, subscription |-> 1, extraCredits |-> 0,
                 news |-> 0, detached |-> FALSE]
      BY <2>1 DEF NewRow
    <3> QED BY <2>2, <3>1 DEF IsRow
  <2>6. IsStripe(stripe) /\ stripe.subs = subs
    BY <2>1, <2>4 DEF NewStripe, IsStripe
  <2>7. Books
    <3>1. row.subscription \in 0..Len(stripe.subs)
      <4>1. Len(stripe.subs) = 1 /\ 1 \in 0..1
        BY <2>4, <2>6
      <4> QED BY <2>5, <4>1
    <3> QED BY <1>2, <2>5, <2>6, <3>1 DEF Books
  <2> QED BY <1>1, <2>7 DEF BillingInv, BillingSound, ChangeOps
<1> QED BY <1>3, <1>4 DEF Init, SubscriptionInit

LEMMA BillingNext ==
  ASSUME BillingInv, [Next]_vars
  PROVE  BillingInv'
<1>1. CASE UNCHANGED vars
  BY <1>1, StillBilling DEF vars
<1>2. CASE SubscriptionStep
  BY <1>2, SubscriptionBilling
<1>3. CASE TeamsStep
  <2>1. UNCHANGED billingVars
    BY <1>3 DEF TeamsStep, LogIn, InvitationEnds, Invite, Accept, ExpireInvitation, TakeSeat,
         LookUpInvited, CreateInvitation, Join, AnswerInvitation, WriteInvitation,
         ChangeMember, NotLastOwner, WriteMember, DeleteAccount, LeaveOrganization
  <2>2. (TeamOps \cup Losing) \cap BillingOps = {}
    BY DEF TeamOps, Losing, BillingOps
  <2> QED BY <1>3, <2>1, <2>2, TeamsServe, StillBilling, ElsewhereBilling DEF BillingInv
<1>4. CASE (ConnectionsStep \/ AdaptersStep) /\ UNCHANGED billingVars
  <2>1. SocialOps \cap BillingOps = {} /\ PlatformOps \cap BillingOps = {}
    BY DEF SocialOps, PlatformOps, BillingOps
  <2>2. CASE ConnectionsStep /\ UNCHANGED billingVars
    BY <2>1, <2>2, ConnectionsServe, StillBilling, ElsewhereBilling DEF BillingInv
  <2>3. CASE AdaptersStep /\ UNCHANGED billingVars
    BY <2>1, <2>3, AdaptersServe, ElsewhereBilling DEF BillingInv
  <2> QED BY <1>4, <2>2, <2>3
<1> QED BY <1>1, <1>2, <1>3, <1>4 DEF Next

-----------------------------------------------------------------------------
(* The seats of the plan.                                                   *)

\* Every plan the organization may have has a number of seats.
LEMMA SeatsAreLimited ==
  ASSUME NEW plan \in Kept
  PROVE  PLAN_CATALOG[plan].maxSeats \in Int /\ PLAN_CATALOG[plan].maxSeats # NoLimit
<1>1. plan \in {"trial", "starter", "growth", "business"}
  BY DEF Kept, SoldPlans
<1>2. /\ PLAN_CATALOG["trial"].maxSeats = 2 /\ PLAN_CATALOG["starter"].maxSeats = 3
      /\ PLAN_CATALOG["growth"].maxSeats = 10 /\ PLAN_CATALOG["business"].maxSeats = 30
  BY DEF PLAN_CATALOG, Paid
<1>3. PLAN_CATALOG[plan].maxSeats \in {2, 3, 10, 30}
  BY <1>1, <1>2
<1>4. \A n \in {2, 3, 10, 30} : n \in Int /\ n # NoLimit
  BY DEF NoLimit
<1> QED BY <1>3, <1>4

\* What takes a seat, and those who took one while request r was served.
Taking == {"invite", "accept"}
Takers(r) == {s \in Requests : Met(r, s) /\ req[s].op \in Taking /\ req[s].pc = "done"}

IsInvitation(x) ==
  x = [status |-> x.status, user |-> x.user, role |-> x.role, late |-> x.late]

TeamInv ==
  /\ members = [u \in Users |-> members[u]]
  /\ invitations = [i \in Requests |-> invitations[i]]
  /\ \A i \in Requests : IsInvitation(invitations[i])

\* A request that has counted the seats: those that were free then were taken by requests
\* that it has met.
Counted(x) == x.op \in Taking /\ x.pc \in {"lookup", "write"}
SeatFits(x, seats, others) == Counted(x) => x.limit \in Int /\ seats < x.limit + others

SeatsInv ==
  /\ BillingInv /\ TeamInv
  /\ \A r \in Requests : SeatFits(req[r], Occupied, Cardinality(Takers(r)))

LEMMA RequestsFinite == IsFiniteSet(Requests)
<1>1. MaxRequests \in Nat /\ 1 \in Int /\ MaxRequests \in Int
  BY RequestsAssumption
<1> QED BY <1>1, FS_Interval DEF Requests

LEMMA SeatsFinite ==
  /\ IsFiniteSet(Members) /\ IsFiniteSet(Pending) /\ Occupied \in Nat
  /\ Cardinality(Members) \in Nat /\ Cardinality(Pending) \in Nat
  /\ \A r : IsFiniteSet(Takers(r)) /\ Cardinality(Takers(r)) \in Nat
<1>1. IsFiniteSet(Requests)
  BY RequestsFinite
<1>2. IsFiniteSet(Members) /\ IsFiniteSet(Pending)
  BY <1>1, TeamsAssumption, FS_Subset DEF Members, Pending
<1>3. \A r : IsFiniteSet(Takers(r))
  BY <1>1, FS_Subset DEF Takers
<1>4. \A r : Cardinality(Takers(r)) \in Nat
  BY <1>3, FS_CardinalityType
<1>5. Cardinality(Members) \in Nat /\ Cardinality(Pending) \in Nat
  BY <1>2, FS_CardinalityType
<1> QED BY <1>2, <1>3, <1>4, <1>5 DEF Occupied

LEMMA SeatsNext == Occupied' \in Nat
<1>1. PICK B, D : B = Members' /\ D = Pending'
  OBVIOUS
<1>2. B \subseteq Users /\ D \subseteq Requests
  BY <1>1 DEF Members, Pending
<1>3. IsFiniteSet(B) /\ IsFiniteSet(D)
  BY <1>2, RequestsFinite, TeamsAssumption, FS_Subset
<1>4. Cardinality(B) \in Nat /\ Cardinality(D) \in Nat
  BY <1>3, FS_CardinalityType
<1>5. Occupied' = Cardinality(B) + Cardinality(D)
  BY <1>1 DEF Occupied
<1> QED BY <1>4, <1>5

\* Two sets of which one may have one element more.
LEMMA OneMore ==
  ASSUME NEW A, NEW B, NEW x, IsFiniteSet(A), B \subseteq A \cup {x}
  PROVE  /\ IsFiniteSet(B) /\ Cardinality(B) <= Cardinality(A) + 1
         /\ Cardinality(B) \in Nat /\ Cardinality(A) \in Nat
<1>1. /\ IsFiniteSet(A \cup {x}) /\ Cardinality(A) \in Nat
      /\ Cardinality(A \cup {x}) = IF x \in A THEN Cardinality(A) ELSE Cardinality(A) + 1
  BY FS_AddElement, FS_CardinalityType
<1>2. IsFiniteSet(B) /\ Cardinality(B) <= Cardinality(A \cup {x})
  BY <1>1, FS_Subset
<1>3. Cardinality(B) \in Nat
  BY <1>2, FS_CardinalityType
<1> QED BY <1>1, <1>2, <1>3

LEMMA NoMore ==
  ASSUME NEW A, NEW B, IsFiniteSet(A), B \subseteq A
  PROVE  /\ IsFiniteSet(B) /\ Cardinality(B) <= Cardinality(A)
         /\ Cardinality(B) \in Nat /\ Cardinality(A) \in Nat
<1>1. IsFiniteSet(B) /\ Cardinality(B) <= Cardinality(A)
  BY FS_Subset
<1> QED BY <1>1, FS_CardinalityType

LEMMA SeatsFreed ==
  ASSUME Members' \subseteq Members, Pending' \subseteq Pending
  PROVE  Occupied' <= Occupied
<1>1. PICK A, B, C, D : A = Members /\ B = Members' /\ C = Pending /\ D = Pending'
  OBVIOUS
<1>2. /\ Cardinality(B) <= Cardinality(A) /\ Cardinality(B) \in Nat /\ Cardinality(A) \in Nat
      /\ Cardinality(D) <= Cardinality(C) /\ Cardinality(D) \in Nat /\ Cardinality(C) \in Nat
  BY <1>1, SeatsFinite, NoMore
<1>3. /\ Occupied = Cardinality(A) + Cardinality(C)
      /\ Occupied' = Cardinality(B) + Cardinality(D)
  BY <1>1 DEF Occupied
<1> QED BY <1>2, <1>3

LEMMA SeatFilled ==
  ASSUME NEW x,
         \/ Members' \subseteq Members \cup {x} /\ Pending' \subseteq Pending
         \/ Members' \subseteq Members /\ Pending' \subseteq Pending \cup {x}
  PROVE  Occupied' <= Occupied + 1
<1>1. PICK A, B, C, D : A = Members /\ B = Members' /\ C = Pending /\ D = Pending'
  OBVIOUS
<1>2. IsFiniteSet(A) /\ IsFiniteSet(C)
  BY <1>1, SeatsFinite
<1>3. /\ Occupied = Cardinality(A) + Cardinality(C)
      /\ Occupied' = Cardinality(B) + Cardinality(D)
  BY <1>1 DEF Occupied
<1>4. CASE B \subseteq A \cup {x} /\ D \subseteq C
  <2>1. /\ Cardinality(B) <= Cardinality(A) + 1 /\ Cardinality(B) \in Nat
        /\ Cardinality(A) \in Nat
    BY <1>2, <1>4, OneMore
  <2>2. /\ Cardinality(D) <= Cardinality(C) /\ Cardinality(D) \in Nat
        /\ Cardinality(C) \in Nat
    BY <1>2, <1>4, NoMore
  <2> QED BY <1>3, <2>1, <2>2
<1>5. CASE B \subseteq A /\ D \subseteq C \cup {x}
  <2>1. /\ Cardinality(B) <= Cardinality(A) /\ Cardinality(B) \in Nat
        /\ Cardinality(A) \in Nat
    BY <1>2, <1>5, NoMore
  <2>2. /\ Cardinality(D) <= Cardinality(C) + 1 /\ Cardinality(D) \in Nat
        /\ Cardinality(C) \in Nat
    BY <1>2, <1>5, OneMore
  <2> QED BY <1>3, <2>1, <2>2
<1> QED BY <1>1, <1>4, <1>5

\* Who took a seat stays among those who did, and one more may have.
LEMMA TakersStay ==
  ASSUME RequestsInv, NEW r \in Requests, NEW new, Moves(r, new), NEW q \in Requests
  PROVE  /\ Cardinality(Takers(q)) \in Nat /\ Cardinality(Takers(q)') \in Nat
         /\ Cardinality(Takers(q)) <= Cardinality(Takers(q)')
         /\ q # r /\ q \in InFlight /\ r \in InFlight /\ new.op \in Taking /\ new.pc = "done"
              => Cardinality(Takers(q)) + 1 <= Cardinality(Takers(q)')
<1>1. PICK A, B : A = Takers(q) /\ B = Takers(q)'
  OBVIOUS
<1>2. /\ req'[r].op = new.op /\ req'[r].pc = new.pc /\ met \subseteq met'
      /\ \A s \in Requests : s # r => req'[s] = req[s]
      /\ req[r].pc = "new" \/ r \in InFlight
  BY MovesRequest
<1>3. req[r].pc # "done"
  BY <1>2 DEF InFlight, Over
<1>4. A \subseteq B
  BY <1>1, <1>2, <1>3 DEF Takers, Met
<1>5. IsFiniteSet(A) /\ IsFiniteSet(B)
  <2>1. A \subseteq Requests /\ B \subseteq Requests
    BY <1>1 DEF Takers
  <2> QED BY <2>1, RequestsFinite, FS_Subset
<1>6. Cardinality(A) <= Cardinality(B) /\ Cardinality(A) \in Nat /\ Cardinality(B) \in Nat
  BY <1>4, <1>5, NoMore
<1>7. ASSUME q # r, q \in InFlight, r \in InFlight, new.op \in Taking, new.pc = "done"
      PROVE  Cardinality(A) + 1 <= Cardinality(B)
  <2>1. {q, r} \in met
    BY <1>7 DEF RequestsInv
  <2>2. r \in B
    BY <1>1, <1>2, <1>7, <2>1 DEF Takers, Met
  <2>3. r \notin A
    BY <1>1, <1>3 DEF Takers
  <2>4. Cardinality(A \cup {r}) = Cardinality(A) + 1 /\ IsFiniteSet(A \cup {r})
    BY <1>5, <2>3, FS_AddElement
  <2>5. A \cup {r} \subseteq B
    BY <1>4, <2>2
  <2>6. Cardinality(A \cup {r}) <= Cardinality(B)
    BY <1>5, <2>5, FS_Subset
  <2> QED BY <2>4, <2>6
<1> QED BY <1>1, <1>6, <1>7

\* A step that takes one seat, or none.
Seats(r, new) ==
  \/ Occupied' <= Occupied
  \/ /\ Occupied' <= Occupied + 1 /\ r \in InFlight /\ req[r].pc = "write"
     /\ new.op \in Taking /\ new.pc = "done"

LEMMA SeatsStep ==
  ASSUME SeatsInv, BillingInv', TeamInv', NEW r \in Requests, NEW new, Moves(r, new),
         Seats(r, new), SeatFits(new, Occupied, Cardinality(Takers(r)))
  PROVE  SeatsInv'
<1>1. /\ RequestsInv /\ RequestsInv' /\ req'[r] = Left(new)
      /\ \A s \in Requests : s # r => req'[s] = req[s]
  BY MovesRequest DEF SeatsInv, BillingInv
<1>2. PICK o, o2 : o = Occupied /\ o2 = Occupied'
  OBVIOUS
<1>3. o \in Nat /\ o2 \in Nat
  BY <1>2, SeatsFinite, SeatsNext
<1>4. ASSUME NEW q \in Requests
      PROVE  SeatFits(req'[q], o2, Cardinality(Takers(q)'))
  <2>1. PICK a, b : a = Cardinality(Takers(q)) /\ b = Cardinality(Takers(q)')
    OBVIOUS
  <2>2. a \in Nat /\ b \in Nat /\ a <= b
    BY <1>1, <2>1, TakersStay
  <2>3. CASE q = r
    <3>1. CASE Counted(new)
      <4>1. Left(new) = new /\ o2 <= o
        BY <1>2, <3>1, LeftIsRequest DEF Counted, Moves, Seats
      <4>2. new.limit \in Int /\ o < new.limit + a
        BY <1>2, <2>1, <2>3, <3>1 DEF SeatFits
      <4>3. o2 < new.limit + b
        BY <1>3, <2>2, <4>1, <4>2
      <4> QED BY <1>1, <2>1, <2>3, <4>1, <4>2, <4>3 DEF SeatFits
    <3>2. CASE ~ Counted(new)
      <4>1. ~ Counted(Left(new))
        BY <3>2, LeftIsRequest DEF Counted, Moves
      <4> QED BY <1>1, <2>3, <4>1 DEF SeatFits
    <3> QED BY <3>1, <3>2
  <2>4. CASE q # r
    <3> SUFFICES ASSUME Counted(req[q]) PROVE req[q].limit \in Int /\ o2 < req[q].limit + b
      BY <1>1, <2>1, <2>4 DEF SeatFits
    <3>1. PICK l : l = req[q].limit
      OBVIOUS
    <3>2. l \in Int /\ o < l + a
      BY <1>2, <2>1, <3>1 DEF SeatsInv, SeatFits
    <3>3. CASE o2 <= o
      BY <1>3, <2>2, <3>1, <3>2, <3>3
    <3>4. CASE /\ o2 <= o + 1 /\ r \in InFlight
               /\ new.op \in Taking /\ new.pc = "done"
      <4>1. q \in InFlight
        BY DEF Counted, InFlight, Over
      <4>2. a + 1 <= b
        BY <1>1, <2>1, <2>4, <3>4, <4>1, TakersStay
      <4> QED BY <1>3, <2>2, <3>1, <3>2, <3>4, <4>2
    <3> QED BY <1>2, <3>3, <3>4 DEF Seats
  <2> QED BY <2>3, <2>4
<1> QED BY <1>2, <1>4 DEF SeatsInv

-----------------------------------------------------------------------------
(* What the handlers write of the team.                                     *)

LEMMA StatusWritten ==
  ASSUME TeamInv, NEW i, NEW status, status # "PENDING", UNCHANGED members,
         invitations' = [invitations EXCEPT ![i].status = status]
  PROVE  TeamInv' /\ Members' \subseteq Members /\ Pending' \subseteq Pending
<1>1. CASE i \in Requests
  <2>1. IsInvitation(invitations[i])
    BY <1>1 DEF TeamInv
  <2>2. IsInvitation(invitations'[i]) /\ invitations'[i].status = status
    BY <1>1, <2>1 DEF TeamInv, IsInvitation
  <2>3. \A j \in Requests : j # i => invitations'[j] = invitations[j]
    BY DEF TeamInv
  <2>4. invitations' = [j \in Requests |-> invitations'[j]]
    BY DEF TeamInv
  <2>5. Pending' \subseteq Pending
    BY <2>2, <2>3 DEF Pending
  <2> QED BY <2>2, <2>3, <2>4, <2>5 DEF TeamInv, Members
<1>2. CASE i \notin Requests
  <2>1. invitations' = invitations
    BY <1>2 DEF TeamInv
  <2> QED BY <2>1 DEF TeamInv, Members, Pending
<1> QED BY <1>1, <1>2

LEMMA LateWritten ==
  ASSUME TeamInv, NEW i, NEW late, UNCHANGED members,
         invitations' = [invitations EXCEPT ![i].late = late]
  PROVE  TeamInv' /\ Members' \subseteq Members /\ Pending' \subseteq Pending
<1>1. CASE i \in Requests
  <2>1. IsInvitation(invitations[i])
    BY <1>1 DEF TeamInv
  <2>2. IsInvitation(invitations'[i]) /\ invitations'[i].status = invitations[i].status
    BY <1>1, <2>1 DEF TeamInv, IsInvitation
  <2>3. \A j \in Requests : j # i => invitations'[j] = invitations[j]
    BY DEF TeamInv
  <2>4. invitations' = [j \in Requests |-> invitations'[j]]
    BY DEF TeamInv
  <2>5. Pending' \subseteq Pending
    BY <2>2, <2>3 DEF Pending
  <2> QED BY <2>2, <2>3, <2>4, <2>5 DEF TeamInv, Members
<1>2. CASE i \notin Requests
  <2>1. invitations' = invitations
    BY <1>2 DEF TeamInv
  <2> QED BY <2>1 DEF TeamInv, Members, Pending
<1> QED BY <1>1, <1>2

\* A role that is written makes no member of another user.
LEMMA RoleWritten ==
  ASSUME TeamInv, NEW u, NEW role, members' = [members EXCEPT ![u] = role]
  PROVE  /\ members' = [v \in Users |-> members'[v]]
         /\ Members' \subseteq Members \cup {u}
         /\ u \in Members \/ role = NoRole => Members' \subseteq Members
  BY DEF TeamInv, Members

LEMMA SameTeam ==
  ASSUME TeamInv, UNCHANGED <<members, invitations>>
  PROVE  TeamInv' /\ Members' \subseteq Members /\ Pending' \subseteq Pending
  BY DEF TeamInv, Members, Pending

\* A step after which no seat was taken.
LEMMA NoSeatTaken ==
  ASSUME SeatsInv, BillingInv', TeamInv', Members' \subseteq Members, Pending' \subseteq Pending,
         NEW r \in Requests, NEW new, Moves(r, new), ~ Counted(new)
  PROVE  SeatsInv'
<1>1. Seats(r, new)
  BY SeatsFreed DEF Seats
<1>2. SeatFits(new, Occupied, Cardinality(Takers(r)))
  BY DEF SeatFits
<1> QED BY <1>1, <1>2, SeatsStep

\* A request that only reads.
LEMMA TeamArrives ==
  ASSUME NEW r \in Requests,
         Invite(r) \/ Accept(r) \/ AnswerInvitation(r) \/ DeleteAccount(r) \/ ChangeMember(r)
  PROVE  UNCHANGED teamVars /\ \E new : Moves(r, new) /\ ~ Counted(new)
<1>1. CASE Invite(r)
  <2>1. PICK role, u, x : Call(r, x) /\ x = [NewRequest EXCEPT
           !.op = "invite", !.user = u, !.value = role,
           !.pc = IF ActiveSubscription THEN "seat" ELSE "refused"]
    BY <1>1 DEF Invite
  <2>2. Started(x, TeamOps) /\ ~ Counted(x)
    BY <2>1 DEF Started, NewRequest, IsRequest, TeamOps, Counted
  <2> QED BY <1>1, <2>1, <2>2, ArrivesMoves DEF Invite
<1>2. CASE Accept(r)
  <2>1. PICK i, pc, x :
          /\ Call(r, x) /\ pc \in {"expire", "refused", "seat"}
          /\ x = [NewRequest EXCEPT !.op = "accept", !.user = invitations[i].user,
                    !.value = invitations[i].role, !.seen = i, !.pc = pc]
    BY <1>2 DEF Accept
  <2>2. Started(x, TeamOps) /\ ~ Counted(x)
    BY <2>1 DEF Started, NewRequest, IsRequest, TeamOps, Counted
  <2> QED BY <1>2, <2>1, <2>2, ArrivesMoves DEF Accept
<1>3. CASE AnswerInvitation(r)
  <2>1. PICK i, op, x : /\ op \in {"revoke", "resend"} /\ Call(r, x)
                        /\ x = [NewRequest EXCEPT !.op = op, !.pc = "write", !.seen = i]
    BY <1>3 DEF AnswerInvitation
  <2>2. Started(x, TeamOps) /\ ~ Counted(x)
    BY <2>1 DEF Started, NewRequest, IsRequest, TeamOps, Counted, Taking
  <2> QED BY <1>3, <2>1, <2>2, ArrivesMoves DEF AnswerInvitation
<1>4. CASE DeleteAccount(r)
  <2>1. PICK u, x : Call(r, x) /\ x = [NewRequest EXCEPT
           !.op = "deleteAccount", !.user = u,
           !.pc = IF members[u] = "OWNER" /\ Cardinality(Members) > 1 THEN "refused"
                  ELSE "write"]
    BY <1>4 DEF DeleteAccount
  <2>2. Started(x, TeamOps) /\ ~ Counted(x)
    BY <2>1 DEF Started, NewRequest, IsRequest, TeamOps, Counted, Taking
  <2> QED BY <1>4, <2>1, <2>2, ArrivesMoves DEF DeleteAccount
<1>5. CASE ChangeMember(r)
  <2>1. Serves(r, Losing) /\ UNCHANGED teamVars
    BY <1>5, ChangeMemberMoves DEF Serves, ChangeMember
  <2>2. PICK new : Moves(r, new) /\ new.op \in Losing
    BY <2>1 DEF Serves
  <2> QED BY <2>1, <2>2 DEF Counted, Taking, Losing
<1> QED BY <1>1, <1>2, <1>3, <1>4, <1>5

-----------------------------------------------------------------------------
LEMMA TakeSeatFits ==
  ASSUME SeatsInv, BillingInv', NEW r \in Requests, TakeSeat(r)
  PROVE  SeatsInv'
<1>1. PICK o, limit, level, pc, a :
        o = Occupied /\ limit = SeatLimit /\ level = Cardinality(Members)
        /\ pc = (IF ~ SeatAvailable THEN "noSeat"
                 ELSE IF req[r].op = "invite" THEN "lookup" ELSE "write")
        /\ a = Cardinality(Takers(r))
  OBVIOUS
<1>2. PICK new : /\ new = [req[r] EXCEPT !.limit = limit, !.level = level, !.pc = pc]
                 /\ Becomes(r, new)
  BY <1>1 DEF TakeSeat
<1>3. /\ IsRequest(req[r]) /\ req[r].op \in Taking /\ req[r].pc = "seat"
      /\ UNCHANGED <<members, invitations>>
  BY DEF TakeSeat, SeatsInv, BillingInv, RequestsInv, Taking, teamVars
<1>4. pc \in {"noSeat", "lookup", "write"} /\ (pc # "noSeat" => SeatAvailable)
  BY <1>1
<1>5. /\ Moves(r, new) /\ new.limit = limit /\ new.pc = pc /\ new.op = req[r].op
  BY <1>2, <1>3, <1>4 DEF Moves, IsRequest, Over
<1>6. limit \in Int /\ limit # NoLimit
  BY <1>1, SeatsAreLimited DEF SeatLimit, SeatsInv, BillingInv, Books, IsRow
<1>7. o \in Nat /\ a \in Nat
  BY <1>1, SeatsFinite
<1>8. Counted(new) => o < limit
  BY <1>1, <1>4, <1>5, <1>6 DEF Counted, SeatAvailable
<1>9. SeatFits(new, o, a)
  BY <1>5, <1>6, <1>7, <1>8 DEF SeatFits
<1>10. TeamInv' /\ Seats(r, new)
  BY <1>3, SameTeam, SeatsFreed DEF Seats, SeatsInv
<1> QED BY <1>1, <1>5, <1>9, <1>10, SeatsStep

\* A request that goes on with the limit it has read.
LEMMA GoesOnFits ==
  ASSUME SeatsInv, NEW r \in Requests, NEW new, new.op = req[r].op, new.limit = req[r].limit,
         Counted(new) => Counted(req[r])
  PROVE  SeatFits(new, Occupied, Cardinality(Takers(r)))
  BY DEF SeatsInv, SeatFits

LEMMA InvitationsFit ==
  ASSUME SeatsInv, BillingInv', NEW r \in Requests,
         ExpireInvitation(r) \/ LookUpInvited(r) \/ WriteInvitation(r) \/ NotLastOwner(r)
  PROVE  SeatsInv'
<1>1. TeamInv /\ RequestsInv
  BY DEF SeatsInv, BillingInv
<1>2. TeamInv' /\ Members' \subseteq Members /\ Pending' \subseteq Pending
  <2>1. CASE ExpireInvitation(r)
    BY <1>1, <2>1, StatusWritten DEF ExpireInvitation
  <2>2. CASE WriteInvitation(r)
    <3>1. \/ invitations' = [invitations EXCEPT ![req[r].seen].status = "REVOKED"]
          \/ invitations' = [invitations EXCEPT ![req[r].seen].late = FALSE]
      BY <2>2 DEF WriteInvitation
    <3>2. UNCHANGED members
      BY <2>2 DEF WriteInvitation
    <3> QED BY <1>1, <3>1, <3>2, StatusWritten, LateWritten
  <2>3. CASE LookUpInvited(r) \/ NotLastOwner(r)
    BY <1>1, <2>3, SameTeam DEF LookUpInvited, NotLastOwner, teamVars
  <2> QED BY <2>1, <2>2, <2>3
<1>3. PICK pc \in {"refused", "done", "write", "rank"} :
        /\ Goto(r, pc)
        /\ req[r].pc \in {"expire", "lookup", "write", "owners"}
        /\ pc = "write" => req[r].pc = "lookup"
  BY DEF ExpireInvitation, LookUpInvited, WriteInvitation, NotLastOwner, Doing
<1>4. PICK new : /\ Moves(r, new) /\ new.pc = pc /\ new.op = req[r].op
                 /\ new.limit = req[r].limit
  BY <1>1, <1>3, GoesOn DEF Over
<1>5. SeatFits(new, Occupied, Cardinality(Takers(r)))
  BY <1>3, <1>4, GoesOnFits DEF Counted
<1>6. Seats(r, new)
  BY <1>2, SeatsFreed DEF Seats
<1> QED BY <1>2, <1>4, <1>5, <1>6, SeatsStep

LEMMA CreateInvitationFits ==
  ASSUME SeatsInv, BillingInv', NEW r \in Requests, CreateInvitation(r)
  PROVE  SeatsInv' /\ Occupied' <= Occupied + 1
<1>1. PICK x : /\ x = [status |-> "PENDING", user |-> req[r].user, role |-> req[r].value,
                       late |-> FALSE]
               /\ invitations' = [invitations EXCEPT ![r] = x]
  BY DEF CreateInvitation
<1>2. /\ TeamInv /\ RequestsInv /\ req[r].op = "invite" /\ req[r].pc = "write"
      /\ Goto(r, "done") /\ UNCHANGED members
  BY DEF SeatsInv, BillingInv, CreateInvitation, Doing
<1>3. IsInvitation(x)
  BY <1>1 DEF IsInvitation
<1>4. TeamInv' /\ Members' \subseteq Members /\ Pending' \subseteq Pending \cup {r}
  BY <1>1, <1>2, <1>3 DEF TeamInv, Members, Pending
<1>5. Occupied' <= Occupied + 1
  BY <1>4, SeatFilled
<1>6. PICK new : /\ Moves(r, new) /\ new.pc = "done" /\ new.op = "invite"
  BY <1>2, GoesOn DEF Over
<1>7. Seats(r, new)
  BY <1>2, <1>5, <1>6 DEF Seats, Taking, InFlight, Over
<1>8. SeatFits(new, Occupied, Cardinality(Takers(r)))
  BY <1>6 DEF SeatFits, Counted
<1> QED BY <1>4, <1>5, <1>6, <1>7, <1>8, SeatsStep

LEMMA JoinFits ==
  ASSUME SeatsInv, BillingInv', NEW r \in Requests, Join(r)
  PROVE  SeatsInv' /\ Occupied' <= Occupied + 1
<1>1. /\ TeamInv /\ RequestsInv /\ req[r].op = "accept" /\ req[r].pc = "write"
  BY DEF SeatsInv, BillingInv, Join, Doing
<1>2. PICK pc \in {"refused", "done"} :
        /\ Goto(r, pc)
        /\ \/ pc = "refused" /\ UNCHANGED <<members, invitations>>
           \/ /\ pc = "done"
              /\ members' = [members EXCEPT ![req[r].user] = req[r].value]
              /\ invitations' = [invitations EXCEPT ![req[r].seen].status = "ACCEPTED"]
  BY DEF Join
<1>3. PICK new : Moves(r, new) /\ new.pc = pc /\ new.op = "accept"
  BY <1>1, <1>2, GoesOn DEF Over
<1>4. SeatFits(new, Occupied, Cardinality(Takers(r)))
  BY <1>3 DEF SeatFits, Counted
<1>5. CASE UNCHANGED <<members, invitations>>
  <2>1. TeamInv' /\ Occupied' <= Occupied
    BY <1>1, <1>5, SameTeam, SeatsFreed
  <2>2. Occupied' <= Occupied + 1
    BY <2>1, SeatsFinite, SeatsNext
  <2> QED BY <1>3, <1>4, <2>1, <2>2, SeatsStep DEF Seats
<1>6. CASE /\ pc = "done"
           /\ members' = [members EXCEPT ![req[r].user] = req[r].value]
           /\ invitations' = [invitations EXCEPT ![req[r].seen].status = "ACCEPTED"]
  <2>1. /\ members' = [v \in Users |-> members'[v]]
        /\ Members' \subseteq Members \cup {req[r].user}
    BY <1>1, <1>6, RoleWritten
  <2>2. /\ invitations' = [j \in Requests |-> invitations'[j]]
        /\ \A j \in Requests : IsInvitation(invitations'[j])
        /\ Pending' \subseteq Pending
    <3>1. PICK i : i = req[r].seen
      OBVIOUS
    <3>2. CASE i \in Requests
      <4>1. IsInvitation(invitations[i])
        BY <1>1, <3>2 DEF TeamInv
      <4>2. IsInvitation(invitations'[i]) /\ invitations'[i].status = "ACCEPTED"
        BY <1>1, <1>6, <3>1, <3>2, <4>1 DEF TeamInv, IsInvitation
      <4>3. \A j \in Requests : j # i => invitations'[j] = invitations[j]
        BY <1>1, <1>6, <3>1 DEF TeamInv
      <4>4. invitations' = [j \in Requests |-> invitations'[j]]
        BY <1>1, <1>6 DEF TeamInv
      <4> QED BY <1>1, <4>2, <4>3, <4>4 DEF TeamInv, Pending
    <3>3. CASE i \notin Requests
      <4>1. invitations' = invitations
        BY <1>1, <1>6, <3>1, <3>3 DEF TeamInv
      <4> QED BY <1>1, <4>1 DEF TeamInv, Pending
    <3> QED BY <3>2, <3>3
  <2>3. TeamInv' /\ Occupied' <= Occupied + 1
    BY <2>1, <2>2, SeatFilled DEF TeamInv
  <2>4. Seats(r, new)
    BY <1>1, <1>3, <1>6, <2>3 DEF Seats, Taking, InFlight, Over
  <2> QED BY <1>3, <1>4, <2>3, <2>4, SeatsStep
<1> QED BY <1>2, <1>5, <1>6

LEMMA LeavingFits ==
  ASSUME SeatsInv, BillingInv', NEW r \in Requests, WriteMember(r) \/ LeaveOrganization(r)
  PROVE  SeatsInv'
<1>1. TeamInv /\ RequestsInv
  BY DEF SeatsInv, BillingInv
<1>2. /\ req[r].op \notin Taking /\ req[r].pc \in {"rank", "write"}
      /\ \E pc \in {"refused", "done"} : Goto(r, pc)
      /\ \/ UNCHANGED members
         \/ \E role : /\ members' = [members EXCEPT ![req[r].user] = role]
                      /\ role = NoRole \/ req[r].user \in Members
      /\ UNCHANGED invitations
  BY DEF WriteMember, LeaveOrganization, Doing, Taking, Losing
<1>3. PICK new : Moves(r, new) /\ new.op \notin Taking
  BY <1>1, <1>2, GoesOn DEF Over
<1>4. TeamInv' /\ Members' \subseteq Members /\ Pending' \subseteq Pending
  <2>1. CASE UNCHANGED members
    BY <1>1, <1>2, <2>1, SameTeam
  <2>2. CASE ~ UNCHANGED members
    <3>1. PICK role : /\ members' = [members EXCEPT ![req[r].user] = role]
                      /\ role = NoRole \/ req[r].user \in Members
      BY <1>2, <2>2
    <3>2. /\ members' = [v \in Users |-> members'[v]]
          /\ Members' \subseteq Members
      BY <1>1, <3>1, RoleWritten
    <3> QED BY <1>1, <1>2, <3>2 DEF TeamInv, Pending
  <2> QED BY <2>1, <2>2
<1> QED BY <1>3, <1>4, NoSeatTaken DEF Counted

\* What is no step of a request takes no seat.
LEMMA RestSeats ==
  ASSUME SeatsInv, BillingInv', TeamInv', UNCHANGED requestVars,
         Members' \subseteq Members, Pending' \subseteq Pending
  PROVE  SeatsInv' /\ Occupied' <= Occupied
<1>1. PICK o, o2 : o = Occupied /\ o2 = Occupied'
  OBVIOUS
<1>2. o \in Nat /\ o2 \in Nat /\ o2 <= o
  BY <1>1, SeatsFinite, SeatsNext, SeatsFreed
<1>3. UNCHANGED <<req, met>>
  BY DEF requestVars
<1>4. ASSUME NEW q \in Requests
      PROVE  SeatFits(req'[q], o2, Cardinality(Takers(q)'))
  <2>1. PICK x, a : x = req[q] /\ a = Cardinality(Takers(q))
    OBVIOUS
  <2>2. a \in Nat /\ SeatFits(x, o, a)
    BY <1>1, <2>1, SeatsFinite DEF SeatsInv
  <2>3. Takers(q)' = Takers(q)
    BY <1>3 DEF Takers, Met
  <2>4. SeatFits(x, o2, a)
    BY <1>2, <2>2 DEF SeatFits
  <2> QED BY <1>3, <2>1, <2>3, <2>4
<1> QED BY <1>1, <1>2, <1>4 DEF SeatsInv

LEMMA TeamsSeats ==
  ASSUME SeatsInv, BillingInv', TeamsStep
  PROVE  SeatsInv'
<1>1. TeamInv
  BY DEF SeatsInv
<1>2. ASSUME NEW u \in Users, LogIn(u)
      PROVE  SeatsInv'
  BY <1>1, <1>2, SameTeam, RestSeats DEF LogIn
<1>3. ASSUME NEW i \in Requests, InvitationEnds(i)
      PROVE  SeatsInv'
  BY <1>1, <1>3, LateWritten, RestSeats DEF InvitationEnds
<1>4. ASSUME NEW r \in Requests,
             \/ Invite(r) \/ Accept(r) \/ AnswerInvitation(r) \/ DeleteAccount(r)
             \/ ChangeMember(r)
      PROVE  SeatsInv'
  BY <1>1, <1>4, TeamArrives, SameTeam, NoSeatTaken DEF teamVars
<1> QED BY <1>2, <1>3, <1>4, TakeSeatFits, InvitationsFit, CreateInvitationFits, JoinFits,
           LeavingFits DEF TeamsStep

LEMMA ElsewhereSeats ==
  ASSUME SeatsInv, BillingInv', UNCHANGED teamVars, NEW r \in Requests, NEW ops,
         Serves(r, ops), ops \cap Taking = {}
  PROVE  SeatsInv'
<1>1. PICK new : Moves(r, new) /\ new.op \notin Taking
  BY DEF Serves
<1>2. TeamInv' /\ Members' \subseteq Members /\ Pending' \subseteq Pending
  BY SameTeam DEF SeatsInv, teamVars
<1> QED BY <1>1, <1>2, NoSeatTaken DEF Counted

LEMMA SeatsNextInv ==
  ASSUME SeatsInv, [Next]_vars
  PROVE  SeatsInv'
<1>1. BillingInv' /\ RequestsInv
  BY BillingNext DEF SeatsInv, BillingInv
<1>2. CASE UNCHANGED <<teamVars, requestVars>>
  BY <1>1, <1>2, SameTeam, RestSeats DEF SeatsInv, teamVars
<1>3. CASE TeamsStep
  BY <1>1, <1>3, TeamsSeats
<1>4. CASE /\ SubscriptionStep \/ ConnectionsStep \/ AdaptersStep
           /\ UNCHANGED teamVars
  <2>1. \/ UNCHANGED requestVars
        \/ \E r \in Requests : Serves(r, BillingOps) \/ Serves(r, SocialOps)
                                \/ Serves(r, PlatformOps)
    BY <1>1, <1>4, SubscriptionServes, ConnectionsServe, AdaptersServe
  <2>2. /\ BillingOps \cap Taking = {} /\ SocialOps \cap Taking = {}
        /\ PlatformOps \cap Taking = {}
    BY DEF BillingOps, SocialOps, PlatformOps, Taking
  <2> QED BY <1>1, <1>2, <1>4, <2>1, <2>2, ElsewhereSeats
<1> QED BY <1>2, <1>3, <1>4 DEF Next, vars

LEMMA SeatsInit == Init => SeatsInv
<1> SUFFICES ASSUME Init PROVE SeatsInv
  OBVIOUS
<1>1. BillingInv
  BY BillingInit
<1>2. \A r \in Requests : req[r].op = "none"
  BY RequestsInitInv DEF Init
<1>3. members = [u \in Users |-> members[u]]
  BY TeamsAssumption DEF Init, TeamsInit
<1>4. PICK x : /\ x = [status |-> "none", user |-> "none", role |-> "none", late |-> FALSE]
               /\ invitations = [i \in Requests |-> x]
  BY DEF Init, TeamsInit
<1>5. IsInvitation(x)
  BY <1>4 DEF IsInvitation
<1> QED BY <1>1, <1>2, <1>3, <1>4, <1>5 DEF SeatsInv, TeamInv, SeatFits, Counted, Taking

\* Only an invitation that is written, and an acceptance, take a seat.
LEMMA SeatTaken ==
  ASSUME SeatsInv, [Next]_vars
  PROVE  Occupied' <= Occupied \/ \E r \in Requests : CreateInvitation(r) \/ Join(r)
<1>1. TeamInv
  BY DEF SeatsInv
<1>2. CASE UNCHANGED <<members, invitations>>
  BY <1>1, <1>2, SameTeam, SeatsFreed
<1>3. ASSUME NEW r \in Requests,
             ExpireInvitation(r) \/ WriteInvitation(r) \/ WriteMember(r) \/ LeaveOrganization(r)
      PROVE  Occupied' <= Occupied
  <2>1. CASE ExpireInvitation(r)
    BY <1>1, <2>1, StatusWritten, SeatsFreed DEF ExpireInvitation
  <2>2. CASE WriteInvitation(r)
    <3>1. /\ \/ invitations' = [invitations EXCEPT ![req[r].seen].status = "REVOKED"]
             \/ invitations' = [invitations EXCEPT ![req[r].seen].late = FALSE]
          /\ UNCHANGED members
      BY <2>2 DEF WriteInvitation
    <3> QED BY <1>1, <3>1, StatusWritten, LateWritten, SeatsFreed
  <2>3. CASE WriteMember(r) \/ LeaveOrganization(r)
    <3>1. /\ \/ UNCHANGED members
             \/ \E role : /\ members' = [members EXCEPT ![req[r].user] = role]
                          /\ role = NoRole \/ req[r].user \in Members
          /\ UNCHANGED invitations
      BY <2>3 DEF WriteMember, LeaveOrganization
    <3>2. Members' \subseteq Members
      BY <1>1, <3>1, RoleWritten, SameTeam
    <3> QED BY <3>1, <3>2, SeatsFreed DEF Pending
  <2> QED BY <1>3, <2>1, <2>2, <2>3
<1>4. ASSUME NEW i \in Requests, InvitationEnds(i)
      PROVE  Occupied' <= Occupied
  BY <1>1, <1>4, LateWritten, SeatsFreed DEF InvitationEnds
<1>5. CASE TeamsStep
  <2>1. ASSUME NEW r \in Requests,
               \/ Invite(r) \/ Accept(r) \/ TakeSeat(r) \/ LookUpInvited(r)
               \/ AnswerInvitation(r) \/ ChangeMember(r) \/ NotLastOwner(r)
               \/ DeleteAccount(r)
        PROVE  UNCHANGED <<members, invitations>>
    BY <2>1 DEF Invite, Accept, TakeSeat, LookUpInvited, AnswerInvitation, ChangeMember,
               NotLastOwner, DeleteAccount, teamVars
  <2>2. ASSUME NEW u \in Users, LogIn(u)
        PROVE  UNCHANGED <<members, invitations>>
    BY <2>2 DEF LogIn
  <2> QED BY <1>2, <1>3, <1>4, <1>5, <2>1, <2>2 DEF TeamsStep
<1>6. TeamsStep \/ UNCHANGED <<members, invitations>>
  BY DEF Next, vars, teamVars
<1> QED BY <1>2, <1>5, <1>6

LEMMA TakenSeatFits ==
  ASSUME SeatsInv, [Next]_vars, NEW r \in Requests,
         req'[r].pc = "done", req[r].pc # "done", Occupied' > Occupied
  PROVE  Occupied' <= req[r].limit
           + Cardinality({s \in Requests : Met(r, s) /\ req[s].op \in {"invite", "accept"}})
<1>1. PICK o, o2, l, a, S : /\ o = Occupied /\ o2 = Occupied' /\ l = req[r].limit
                            /\ a = Cardinality(Takers(r))
                            /\ S = {s \in Requests : Met(r, s) /\ req[s].op \in {"invite", "accept"}}
  OBVIOUS
<1>2. o \in Nat /\ o2 \in Nat /\ o2 > o
  BY <1>1, SeatsFinite, SeatsNext
<1>3. PICK q \in Requests : CreateInvitation(q) \/ Join(q)
  BY <1>1, <1>2, SeatTaken
<1>4. /\ req[q].op \in Taking /\ req[q].pc = "write" /\ RequestsInv /\ BillingInv'
      /\ \E pc \in {"refused", "done"} : Goto(q, pc)
  BY <1>3, BillingNext DEF CreateInvitation, Join, Doing, Taking, SeatsInv, BillingInv
<1>5. PICK new : Moves(q, new)
  BY <1>4, GoesOn DEF Over
<1>6. r = q
  BY <1>4, <1>5, MovesRequest
<1>7. o2 <= o + 1
  BY <1>1, <1>3, <1>4, CreateInvitationFits, JoinFits
<1>8. l \in Int /\ o < l + a
  BY <1>1, <1>4, <1>6 DEF SeatsInv, SeatFits, Counted
<1>9. a \in Nat /\ Cardinality(S) \in Nat /\ a <= Cardinality(S)
  <2>1. Takers(r) \subseteq S /\ S \subseteq Requests
    BY <1>1 DEF Takers, Taking
  <2>2. IsFiniteSet(S)
    BY <2>1, RequestsFinite, FS_Subset
  <2> QED BY <1>1, <2>1, <2>2, NoMore
<1>10. o2 <= l + Cardinality(S)
  BY <1>2, <1>7, <1>8, <1>9
<1> QED BY <1>1, <1>10

\* However many invitations and acceptances are served at the same time, and whatever
\* becomes of the subscription meanwhile, nobody takes a seat beyond those of the plan that
\* was read, except for one seat for each that was served at the same time
\* (teams.service.ts:50).
THEOREM SeatsStayWithinPlan == Spec => SeatsWithinPlan
<1>1. SeatsInv /\ [Next]_vars =>
        [\A r \in Requests :
           req'[r].pc = "done" /\ req[r].pc # "done" /\ Occupied' > Occupied
             => Occupied' <= req[r].limit
                  + Cardinality({s \in Requests : Met(r, s) /\ req[s].op \in {"invite", "accept"}})
        ]_<<teamVars, requestVars>>
  BY TakenSeatFits
<1> QED BY <1>1, SeatsInit, SeatsNextInv, PTL DEF Spec, SeatsWithinPlan

-----------------------------------------------------------------------------
(* The row and Stripe.                                                      *)

\* What a webhook says of a subscription, but for the plan, and of the plan.
Tells(hook, sub) ==
  /\ hook.kind = "updated" => /\ hook.object.status = sub.status
                              /\ hook.object.cancelAtPeriodEnd = sub.cancelAtPeriodEnd
  /\ hook.kind = "checkout" => sub.status = "active" /\ sub.cancelAtPeriodEnd = FALSE
  /\ hook.kind = "deleted" => sub.status = "canceled"
  /\ hook.kind = "failed" => sub.status = "past_due"
  /\ hook.kind \in {"cycle", "recovered"} => sub.status = "active"
TellsPlan(hook, sub) == hook.kind \in {"updated", "checkout"} => hook.object.plan = sub.plan

\* What a request is about to write of it; one that ends a trial has no number.
Awaits(x, sub, P, L) ==
  /\ x.op = "changePlan" /\ x.pc = "write" =>
       /\ x.level >= P => x.value.plan = sub.plan
       /\ x.level >= L => x.value.status = sub.status
  /\ x.op = "cancelNow" /\ x.pc = "write" /\ x.level >= L => sub.status = "canceled"
  /\ x.op \in {"cancelAtEnd", "resume"} /\ x.pc = "write" /\ x.level >= L =>
       sub.cancelAtPeriodEnd = (x.op = "cancelAtEnd")
  /\ x.op = "cancelTrial" /\ x.pc = "write" => L >= 1
  /\ x.op = "expireTrial" /\ x.pc = "listed" => L >= 1

\* P is the number of the last change of the plan of the subscription at Stripe, and L that
\* of the last change of anything: what was made since then says what it is, and the row
\* says it too, or the webhook of that number is under way.
HooksTell(sub, P, L) ==
  \A hook \in mail : /\ hook.news >= P => TellsPlan(hook, sub)
                     /\ hook.news >= L => Tells(hook, sub)
PlanThere(sub, P) ==
  \/ row.news >= P /\ row.plan = sub.plan
  \/ \E hook \in mail : hook.kind \in {"updated", "checkout"} /\ hook.news = P
StatusThere(sub, L) ==
  \/ /\ row.news >= L /\ row.status = sub.status
     /\ sub.status # "canceled" => row.cancelAtPeriodEnd = sub.cancelAtPeriodEnd
  \/ \E hook \in mail : hook.kind \in {"updated", "checkout", "deleted"} /\ hook.news = L

Follows(sub, P, L) ==
  /\ P \in Nat /\ L \in Nat /\ P <= L /\ L <= stripe.news
  /\ L = 0 => row.subscription # 0
  /\ HooksTell(sub, P, L) /\ PlanThere(sub, P) /\ StatusThere(sub, L)
  /\ \A r \in Requests : Awaits(req[r], sub, P, L)

\* Once something was written over the row that does not follow Stripe, or there are two
\* subscriptions, nothing is said.
FollowsInv ==
  ~ row.detached /\ Len(stripe.subs) = 1 =>
    \E sub, P, L : sub = stripe.subs[1] /\ Follows(sub, P, L)

-----------------------------------------------------------------------------
\* The mail after a webhook was answered: the others are there, and nothing new is said.
LEMMA TakenMail ==
  ASSUME NEW hook \in mail, Taken(hook)
  PROVE  /\ \A h \in mail : h.kind # hook.kind \/ h.news # hook.news => h \in mail'
         /\ \A h \in mail' : \E g \in mail : /\ h.kind = g.kind /\ h.news = g.news
                                             /\ h.object = g.object
  BY DEF Taken

LEMMA HooksStill ==
  ASSUME NEW sub, NEW P, NEW L, HooksTell(sub, P, L),
         \A h \in mail' : \E g \in mail : /\ h.kind = g.kind /\ h.news = g.news
                                          /\ h.object = g.object
  PROVE  HooksTell(sub, P, L)'
  BY DEF HooksTell, Tells, TellsPlan

LEMMA DeliveredFollows ==
  ASSUME Books, NEW hook, NEW new, Delivered(hook, new), NEW sub, NEW P, NEW L,
         Follows(sub, P, L), UNCHANGED requestVars, ~ row'.detached
  PROVE  Follows(sub, P, L)'
<1>1. PICK n, m : n = Len(stripe.subs) /\ m = stripe.news
  OBVIOUS
<1>2. /\ IsHook(hook, n, m) /\ row.news \in Nat /\ P \in Nat /\ L \in Nat /\ hook \in mail
      /\ hook.news \in Nat /\ m \in Nat
  BY <1>1, BooksCounted DEF Books, IsRow, IsHook, Delivered, Follows
<1>3. /\ hook.news >= row.news /\ row'.news = hook.news /\ row'.plan = new.plan
      /\ row'.status = new.status /\ row'.cancelAtPeriodEnd = new.cancelAtPeriodEnd
      /\ row'.subscription = new.subscription
  <2>1. ~ (hook.news < row.news)
    BY DEF Delivered, WrittenFrom
  <2> QED BY <1>2, <2>1 DEF Delivered, WrittenFrom
<1>4. /\ \A h \in mail : h.kind # hook.kind \/ h.news # hook.news => h \in mail'
      /\ HooksTell(sub, P, L)'
  BY <1>2, TakenMail, HooksStill DEF Delivered, Follows
<1>5. /\ hook.news >= P => TellsPlan(hook, sub)
      /\ hook.news >= L => Tells(hook, sub)
  BY <1>2 DEF Follows, HooksTell
<1>6. PlanThere(sub, P)'
  <2>1. CASE hook.news >= P /\ hook.kind \in {"updated", "checkout"}
    <3>1. new.plan = sub.plan
      BY <1>5, <2>1 DEF TellsPlan, Delivered, Says
    <3> QED BY <1>3, <2>1, <3>1 DEF PlanThere
  <2>2. CASE hook.news >= P /\ hook.kind \notin {"updated", "checkout"}
    <3>1. new.plan = row.plan
      BY <2>2 DEF Delivered, Says
    <3>2. CASE row.news >= P /\ row.plan = sub.plan
      BY <1>3, <2>2, <3>1, <3>2 DEF PlanThere
    <3>3. CASE \E h \in mail : h.kind \in {"updated", "checkout"} /\ h.news = P
      BY <1>4, <2>2, <3>3 DEF PlanThere
    <3> QED BY <3>2, <3>3 DEF Follows, PlanThere
  <2>3. CASE ~ (hook.news >= P)
    <3>1. ~ (row.news >= P) /\ hook.news # P
      BY <1>2, <1>3, <2>3
    <3>2. PICK h \in mail : h.kind \in {"updated", "checkout"} /\ h.news = P
      BY <3>1 DEF Follows, PlanThere
    <3> QED BY <1>4, <3>1, <3>2 DEF PlanThere
  <2> QED BY <2>1, <2>2, <2>3
<1>7. StatusThere(sub, L)'
  <2>1. CASE hook.news >= L /\ hook.kind \in {"updated", "checkout", "deleted"}
    <3>1. /\ new.status = sub.status
          /\ sub.status # "canceled" => new.cancelAtPeriodEnd = sub.cancelAtPeriodEnd
      BY <1>5, <2>1 DEF Tells, Delivered, Says
    <3> QED BY <1>3, <2>1, <3>1 DEF StatusThere
  <2>2. CASE hook.news >= L /\ hook.kind \notin {"updated", "checkout", "deleted"}
    <3>1. new.status = sub.status /\ new.cancelAtPeriodEnd = row.cancelAtPeriodEnd
      BY <1>5, <2>2 DEF Tells, Delivered, Says
    <3>2. CASE \E h \in mail : h.kind \in {"updated", "checkout", "deleted"} /\ h.news = L
      BY <1>4, <2>2, <3>2 DEF StatusThere
    <3>3. CASE /\ row.news >= L /\ row.status = sub.status
               /\ sub.status # "canceled" => row.cancelAtPeriodEnd = sub.cancelAtPeriodEnd
      BY <1>3, <2>2, <3>1, <3>3 DEF StatusThere
    <3> QED BY <3>2, <3>3 DEF Follows, StatusThere
  <2>3. CASE ~ (hook.news >= L)
    <3>1. ~ (row.news >= L) /\ hook.news # L
      BY <1>2, <1>3, <2>3
    <3>2. PICK h \in mail : h.kind \in {"updated", "checkout", "deleted"} /\ h.news = L
      BY <3>1 DEF Follows, StatusThere
    <3> QED BY <1>4, <3>1, <3>2 DEF StatusThere
  <2> QED BY <2>1, <2>2, <2>3
<1>8. L = 0 => row'.subscription # 0
  BY <1>2, <1>3 DEF Follows, Delivered, Says, IsHook
<1>9. stripe'.news = stripe.news
  BY DEF Delivered, StripeStill
<1>10. \A r \in Requests : Awaits(req[r], sub, P, L)'
  BY DEF Follows, Awaits, requestVars
<1> QED BY <1>4, <1>6, <1>7, <1>8, <1>9, <1>10 DEF Follows

\* A step that leaves what the row and Stripe say of the subscription alone, and takes no
\* webhook of those that say it all.
LEMMA QuietFollows ==
  ASSUME NEW sub, NEW P, NEW L, Follows(sub, P, L), UNCHANGED requestVars,
         row'.plan = row.plan, row'.status = row.status, row'.news = row.news,
         row'.cancelAtPeriodEnd = row.cancelAtPeriodEnd,
         row'.subscription = row.subscription,
         stripe'.news \in Nat, stripe.news \in Nat, stripe.news <= stripe'.news,
         \A h \in mail : h.kind \in {"updated", "checkout", "deleted"} => h \in mail',
         \A h \in mail' : \/ h.kind = "pack"
                          \/ \E g \in mail : /\ h.kind = g.kind /\ h.news = g.news
                                             /\ h.object = g.object
  PROVE  Follows(sub, P, L)'
<1>1. HooksTell(sub, P, L)'
  BY DEF Follows, HooksTell, Tells, TellsPlan
<1>2. PlanThere(sub, P)' /\ StatusThere(sub, L)'
  BY DEF Follows, PlanThere, StatusThere
<1>3. P \in Nat /\ L \in Nat /\ P <= L /\ L <= stripe'.news /\ (L = 0 => row'.subscription # 0)
  BY DEF Follows
<1>4. \A r \in Requests : Awaits(req[r], sub, P, L)'
  BY DEF Follows, Awaits, requestVars
<1> QED BY <1>1, <1>2, <1>3, <1>4 DEF Follows

LEMMA DeliveriesFollow ==
  ASSUME BillingInv, BillingInv', FollowsInv,
         \/ DeliverPack \/ DeliverSubscription \/ DeliverInvoice \/ ReadRecovery
         \/ WriteRecovery
  PROVE  FollowsInv'
<1>1. Books /\ UNCHANGED requestVars
  BY DEF BillingInv, DeliverPack, DeliverSubscription, DeliverInvoice, ReadRecovery,
         WriteRecovery
<1> SUFFICES ASSUME ~ row'.detached, Len(stripe'.subs) = 1
             PROVE  \E sub, P, L : sub = stripe'.subs[1] /\ Follows(sub, P, L)'
  BY DEF FollowsInv
<1>2. ASSUME NEW hook, NEW new, Delivered(hook, new)
      PROVE  \E sub, P, L : sub = stripe'.subs[1] /\ Follows(sub, P, L)'
  <2>1. PICK sub : sub = stripe.subs[1]
    OBVIOUS
  <2>2. stripe'.subs = stripe.subs /\ ~ row.detached
    BY <1>2 DEF Delivered, StripeStill, WrittenFrom
  <2>3. PICK P, L : Follows(sub, P, L)
    BY <2>1, <2>2 DEF FollowsInv
  <2>4. Follows(sub, P, L)'
    BY <1>1, <1>2, <2>3, DeliveredFollows
  <2> QED BY <2>1, <2>2, <2>4
<1>3. ASSUME NEW hook, Ignored(hook) \/ DeliveredPack(hook)
      PROVE  \E sub, P, L : sub = stripe'.subs[1] /\ Follows(sub, P, L)'
  <2>1. PICK sub, n, m : sub = stripe.subs[1] /\ n = Len(stripe.subs) /\ m = stripe.news
    OBVIOUS
  <2>2. /\ stripe'.subs = stripe.subs /\ ~ row.detached /\ hook \in mail
        /\ hook.kind \in {"pack", "failed", "cycle", "recovered"}
        /\ row'.plan = row.plan /\ row'.status = row.status /\ row'.news = row.news
        /\ row'.cancelAtPeriodEnd = row.cancelAtPeriodEnd
        /\ row'.subscription = row.subscription /\ stripe'.news = m /\ m \in Nat
    BY <1>1, <1>3, <2>1, BooksCounted DEF Ignored, DeliveredPack, StripeStill
  <2>3. IsHook(hook, n, m)
    BY <1>1, <2>1, <2>2 DEF Books
  <2>4. /\ \A h \in mail : h.kind \in {"updated", "checkout", "deleted"} => h \in mail'
        /\ \A h \in mail' : \E g \in mail : /\ h.kind = g.kind /\ h.news = g.news
                                            /\ h.object = g.object
    <3>1. CASE Taken(hook)
      BY <2>2, <3>1, TakenMail
    <3>2. CASE mail' = (mail \ {hook}) \cup {[hook EXCEPT !.read = TRUE]}
      <4>1. PICK h : h = [hook EXCEPT !.read = TRUE]
        OBVIOUS
      <4>2. h.kind = hook.kind /\ h.news = hook.news /\ h.object = hook.object
        BY <2>3, <4>1 DEF IsHook
      <4> QED BY <2>2, <3>2, <4>1, <4>2
    <3> QED BY <1>3, <3>1, <3>2 DEF Ignored, DeliveredPack
  <2>5. PICK P, L : Follows(sub, P, L)
    BY <2>1, <2>2 DEF FollowsInv
  <2>6. Follows(sub, P, L)'
    BY <1>1, <2>1, <2>2, <2>4, <2>5, QuietFollows
  <2> QED BY <2>1, <2>2, <2>6
<1> QED BY <1>1, <1>2, <1>3, DeliverPackBooks, DeliverSubscriptionBooks, DeliverInvoiceBooks,
           ReadRecoveryBooks, WriteRecoveryBooks

-----------------------------------------------------------------------------
\* What Stripe says of a change is true of the subscription that it makes.
TrueOf(kinds, sub) ==
  /\ "failed" \in kinds => sub.status = "past_due"
  /\ "cycle" \in kinds \/ "recovered" \in kinds => sub.status = "active"
  /\ "deleted" \in kinds => sub.status = "canceled"

LEMMA NewMail ==
  ASSUME NEW sub \in Subs, NEW kinds \in SUBSET Kinds, TrueOf(kinds, sub),
         NEW m \in Nat, NEW n \in Nat, NEW i \in 1..n, NEW k, k = m + 1,
         mail' = mail \cup {Webhook(kind, k, i, sub) : kind \in kinds}
  PROVE  /\ \A h \in mail : h \in mail'
         /\ \A h \in mail' : \/ h \in mail
                             \/ h.news = m + 1 /\ Tells(h, sub) /\ TellsPlan(h, sub)
         /\ \A kind \in kinds : \E h \in mail' : h.kind = kind /\ h.news = m + 1
<1>1. k \in Nat \ {0}
  OBVIOUS
<1>2. ASSUME NEW kind \in kinds, NEW h, h = Webhook(kind, k, i, sub)
      PROVE  /\ h.kind = kind /\ h.news = k /\ Tells(h, sub) /\ TellsPlan(h, sub)
             /\ h \in mail'
  <2>1. kind \in Kinds
    OBVIOUS
  <2>2. h.kind = kind /\ h.news = k /\ h.object = sub
    BY <1>2 DEF Webhook
  <2>3. kind # "checkout"
    BY <2>1 DEF Kinds
  <2>4. Tells(h, sub) /\ TellsPlan(h, sub)
    BY <2>2, <2>3 DEF Tells, TellsPlan, TrueOf
  <2> QED BY <1>2, <2>2, <2>4
<1>3. ASSUME NEW h \in mail', h \notin mail
      PROVE  h.news = m + 1 /\ Tells(h, sub) /\ TellsPlan(h, sub)
  <2>1. PICK kind \in kinds : h = Webhook(kind, k, i, sub)
    BY <1>3
  <2> QED BY <1>2, <2>1
<1> QED BY <1>2, <1>3

\* Stripe changes the subscription: from its number on, everything says what it is now.
LEMMA AnnouncedFollows ==
  ASSUME BillingInv, NEW old, NEW P, NEW L, Follows(old, P, L),
         NEW i \in DOMAIN stripe.subs, NEW sub \in Subs, NEW kinds \in SUBSET Kinds,
         Announced(i, sub, kinds), TrueOf(kinds, sub), UNCHANGED row,
         "updated" \in kinds \/ "deleted" \in kinds,
         sub.plan = old.plan \/ "updated" \in kinds,
         NEW m, m = stripe.news, NEW P2, P2 = IF sub.plan = old.plan THEN P ELSE m + 1,
         \A q \in Requests : Awaits(req'[q], sub, P2, m + 1)
  PROVE  Follows(sub, P2, m + 1)'
<1>1. PICK n : n = Len(stripe.subs)
  OBVIOUS
<1>2. /\ m \in Nat /\ n \in Nat /\ i \in 1..n /\ P \in Nat /\ L \in Nat /\ P <= L /\ L <= m
      /\ \A h \in mail : IsHook(h, n, m)
  BY <1>1, BooksCounted DEF BillingInv, Books, Follows
<1>3. \A h \in mail : h.news \in Nat /\ h.news <= m
  BY <1>2 DEF IsHook
<1>4. /\ \A h \in mail : h \in mail'
      /\ \A h \in mail' : \/ h \in mail
                          \/ h.news = m + 1 /\ Tells(h, sub) /\ TellsPlan(h, sub)
      /\ \A kind \in kinds : \E h \in mail' : h.kind = kind /\ h.news = m + 1
  <2>1. PICK k : k = m + 1
    OBVIOUS
  <2>2. mail' = mail \cup {Webhook(kind, k, i, sub) : kind \in kinds}
    BY <2>1 DEF Announced
  <2> QED BY <1>2, <2>1, <2>2, NewMail
<1>5. HooksTell(sub, P2, m + 1)'
  <2> SUFFICES ASSUME NEW h \in mail'
               PROVE  /\ h.news >= P2 => TellsPlan(h, sub)
                      /\ h.news >= m + 1 => Tells(h, sub)
    BY DEF HooksTell, Tells, TellsPlan
  <2>1. CASE h \in mail
    <3>1. h.news \in Nat /\ h.news <= m
      BY <1>3, <2>1
    <3>2. ~ (h.news >= m + 1)
      BY <1>2, <3>1
    <3>3. h.news >= P => TellsPlan(h, old)
      BY <2>1 DEF Follows, HooksTell
    <3> QED BY <3>2, <3>3 DEF TellsPlan
  <2> QED BY <1>4, <2>1
<1>6. PlanThere(sub, P2)'
  <2>1. CASE sub.plan = old.plan
    BY <1>4, <2>1 DEF Follows, PlanThere
  <2>2. CASE sub.plan # old.plan
    BY <1>4, <2>2 DEF PlanThere
  <2> QED BY <2>1, <2>2
<1>7. StatusThere(sub, m + 1)'
  BY <1>4 DEF StatusThere
<1>8. stripe'.news = m + 1
  BY DEF Announced
<1>9. P2 \in Nat /\ m + 1 \in Nat /\ P2 <= m + 1 /\ m + 1 <= stripe'.news /\ m + 1 # 0
  BY <1>2, <1>8
<1>10. \A r \in Requests : Awaits(req[r], sub, P2, m + 1)'
  BY DEF Awaits
<1> QED BY <1>5, <1>6, <1>7, <1>9, <1>10 DEF Follows

\* What a request was about to write is older than a change that comes now.
LEMMA OlderAwaits ==
  ASSUME NEW x, NEW old, NEW P \in Nat, NEW L \in Nat, Awaits(x, old, P, L),
         NEW n, NEW m \in Nat, BillingSound(x, n, m), NEW sub,
         NEW P2, P2 = IF sub.plan = old.plan THEN P ELSE m + 1
  PROVE  Awaits(x, sub, P2, m + 1)
<1>1. x.op \in ChangeOps /\ x.pc = "write" => x.level \in Nat /\ ~ (x.level >= m + 1)
  BY DEF BillingSound
<1> QED BY <1>1 DEF Awaits, ChangeOps

\* The one subscription that there is, when it is the one that changes.
LEMMA OneChanges ==
  ASSUME Books, NEW i \in DOMAIN stripe.subs, NEW sub, NEW kinds, Announced(i, sub, kinds),
         Len(stripe'.subs) = 1
  PROVE  Len(stripe.subs) = 1 /\ i = 1 /\ stripe'.subs[1] = sub
<1>1. PICK subs, n : subs = stripe.subs /\ n = Len(subs)
  OBVIOUS
<1>2. subs \in Seq(Subs) /\ n \in Nat /\ i \in 1..n /\ DOMAIN subs = 1..n
  BY <1>1, BooksCounted
<1>3. PICK subs2 : subs2 = [subs EXCEPT ![i] = sub]
  OBVIOUS
<1>4. Len(subs2) = n /\ subs2[i] = sub
  BY <1>1, <1>2, <1>3
<1>5. stripe'.subs = subs2
  BY <1>1, <1>3 DEF Announced
<1>6. n = 1 /\ i = 1
  BY <1>2, <1>4, <1>5
<1> QED BY <1>1, <1>4, <1>5, <1>6

\* What was under way when Stripe changes the subscription is older.
LEMMA OthersAwait ==
  ASSUME BillingInv, NEW old, NEW P, NEW L, Follows(old, P, L), NEW sub,
         NEW m, m = stripe.news, NEW P2, P2 = IF sub.plan = old.plan THEN P ELSE m + 1,
         NEW q \in Requests
  PROVE  Awaits(req[q], sub, P2, m + 1)
<1>1. PICK x, n : x = req[q] /\ n = Len(stripe.subs)
  OBVIOUS
<1>2. BillingSound(x, n, m) /\ m \in Nat
  BY <1>1, BooksCounted DEF BillingInv
<1>3. P \in Nat /\ L \in Nat /\ Awaits(x, old, P, L)
  BY <1>1 DEF Follows
<1>4. Awaits(x, sub, P2, m + 1)
  BY <1>2, <1>3, OlderAwaits
<1> QED BY <1>1, <1>4

\* A renewal says of the subscription what it was already.
LEMMA RenewedFollows ==
  ASSUME BillingInv, NEW sub \in Subs, sub.status = "active", NEW P, NEW L,
         Follows(sub, P, L), NEW i \in DOMAIN stripe.subs, Announced(i, sub, {"cycle"}),
         UNCHANGED <<row, requestVars>>
  PROVE  Follows(sub, P, L)'
<1>1. PICK n, m, k : n = Len(stripe.subs) /\ m = stripe.news /\ k = m + 1
  OBVIOUS
<1>2. m \in Nat /\ n \in Nat /\ i \in 1..n /\ L \in Nat /\ P \in Nat /\ L <= m /\ P <= L
  BY <1>1, BooksCounted DEF BillingInv, Follows
<1>3. /\ \A h \in mail : h \in mail'
      /\ \A h \in mail' : \/ h \in mail
                          \/ h.news = m + 1 /\ Tells(h, sub) /\ TellsPlan(h, sub)
  <2>1. PICK kinds : kinds = {"cycle"}
    OBVIOUS
  <2>2. mail' = mail \cup {Webhook(kind, k, i, sub) : kind \in kinds}
    BY <1>1, <2>1 DEF Announced
  <2>3. TrueOf(kinds, sub) /\ kinds \in SUBSET Kinds
    BY <2>1 DEF TrueOf, Kinds
  <2> QED BY <1>1, <1>2, <2>2, <2>3, NewMail
<1>4. HooksTell(sub, P, L)'
  <2>1. \A h \in mail : /\ h.news >= P => TellsPlan(h, sub)
                        /\ h.news >= L => Tells(h, sub)
    BY DEF Follows, HooksTell
  <2>2. \A h \in mail' : /\ h.news >= P => TellsPlan(h, sub)
                         /\ h.news >= L => Tells(h, sub)
    BY <1>3, <2>1
  <2> QED BY <2>2 DEF HooksTell, Tells, TellsPlan
<1>5. PlanThere(sub, P)' /\ StatusThere(sub, L)'
  BY <1>3 DEF Follows, PlanThere, StatusThere
<1>6. stripe'.news = m + 1
  BY <1>1 DEF Announced
<1>7. P \in Nat /\ L \in Nat /\ P <= L /\ L <= stripe'.news /\ (L = 0 => row'.subscription # 0)
  BY <1>2, <1>6 DEF Follows
<1>8. \A r \in Requests : Awaits(req[r], sub, P, L)'
  BY DEF Follows, Awaits, requestVars
<1> QED BY <1>4, <1>5, <1>7, <1>8 DEF Follows

LEMMA StripeChangesFollow ==
  ASSUME BillingInv, FollowsInv, StripeChanges
  PROVE  FollowsInv'
<1>1. Books /\ UNCHANGED <<row, requestVars>>
  BY DEF BillingInv, StripeChanges
<1> SUFFICES ASSUME ~ row'.detached, Len(stripe'.subs) = 1
             PROVE  \E sub, P, L : sub = stripe'.subs[1] /\ Follows(sub, P, L)'
  BY DEF FollowsInv
<1>2. PICK i \in DOMAIN stripe.subs, sub \in Subs, kinds \in SUBSET Kinds :
        OwnChange(stripe.subs[i], sub, kinds) /\ Announced(i, sub, kinds)
  BY <1>1, StripeChangesBooks
<1>3. Len(stripe.subs) = 1 /\ i = 1 /\ stripe'.subs[1] = sub
  BY <1>1, <1>2, OneChanges
<1>4. PICK old, P, L : old = stripe.subs[i] /\ Follows(old, P, L)
  BY <1>1, <1>3 DEF FollowsInv
<1>5. OwnChange(old, sub, kinds)
  BY <1>2, <1>4
<1>6. CASE old.status = "active" /\ sub = old /\ kinds = {"cycle"}
  <2>1. Follows(sub, P, L)'
    BY <1>1, <1>2, <1>4, <1>6, RenewedFollows
  <2> QED BY <1>3, <2>1
<1>7. CASE ~ (old.status = "active" /\ sub = old /\ kinds = {"cycle"})
  <2>1. PICK m, P2 : m = stripe.news /\ P2 = IF sub.plan = old.plan THEN P ELSE m + 1
    OBVIOUS
  <2>2. TrueOf(kinds, sub) /\ ("updated" \in kinds \/ "deleted" \in kinds)
    BY <1>5, <1>7 DEF OwnChange, TrueOf
  <2>3. sub.plan = old.plan
    BY <1>5 DEF OwnChange
  <2>4. \A q \in Requests : Awaits(req'[q], sub, P2, m + 1)
    BY <1>1, <1>4, <2>1, OthersAwait DEF requestVars
  <2>5. Follows(sub, P2, m + 1)'
    BY <1>1, <1>2, <1>4, <2>1, <2>2, <2>3, <2>4, AnnouncedFollows
  <2> QED BY <1>3, <2>5
<1> QED BY <1>6, <1>7

\* A subscription that is paid for is followed from the number of its webhook on.
LEMMA PaidPlanFollows ==
  ASSUME BillingInv, NEW sub, PaidPlan(sub), UNCHANGED requestVars, NEW m, m = stripe.news,
         stripe'.news = m + 1
  PROVE  Follows(sub, m + 1, m + 1)'
<1>1. PICK n, h0 : n = Len(stripe.subs) /\ h0 = Webhook("checkout", m + 1, n + 1, sub)
  OBVIOUS
<1>2. m \in Nat /\ \A h \in mail : IsHook(h, n, m)
  BY <1>1, BooksCounted DEF BillingInv, Books
<1>3. \A h \in mail : ~ (h.news >= m + 1)
  BY <1>2 DEF IsHook
<1>4. /\ h0.kind = "checkout" /\ h0.news = m + 1 /\ h0.object = sub
      /\ mail' = mail \cup {h0} /\ sub.status = "active" /\ sub.cancelAtPeriodEnd = FALSE
  BY <1>1 DEF PaidPlan, Webhook
<1>5. Tells(h0, sub) /\ TellsPlan(h0, sub)
  BY <1>4 DEF Tells, TellsPlan
<1>6. HooksTell(sub, m + 1, m + 1)'
  <2>1. \A h \in mail' : h.news >= m + 1 => TellsPlan(h, sub) /\ Tells(h, sub)
    BY <1>3, <1>4, <1>5
  <2> QED BY <2>1 DEF HooksTell, Tells, TellsPlan
<1>7. PlanThere(sub, m + 1)' /\ StatusThere(sub, m + 1)'
  BY <1>4 DEF PlanThere, StatusThere
<1>8. ASSUME NEW q \in Requests
      PROVE  Awaits(req'[q], sub, m + 1, m + 1)
  <2>1. PICK x : x = req[q]
    OBVIOUS
  <2>2. BillingSound(x, n, m)
    BY <1>1, <2>1 DEF BillingInv
  <2>3. x.op \in ChangeOps /\ x.pc = "write" => x.level \in Nat /\ ~ (x.level >= m + 1)
    BY <1>2, <2>2 DEF BillingSound
  <2>4. Awaits(x, sub, m + 1, m + 1)
    BY <1>2, <2>3 DEF Awaits, ChangeOps
  <2> QED BY <2>1, <2>4 DEF requestVars
<1>9. \A q \in Requests : Awaits(req[q], sub, m + 1, m + 1)'
  BY <1>8 DEF Awaits
<1> QED BY <1>2, <1>6, <1>7, <1>9 DEF Follows

LEMMA PayCheckoutFollows ==
  ASSUME BillingInv, FollowsInv, PayCheckout
  PROVE  FollowsInv'
<1>1. Books /\ UNCHANGED <<row, requestVars>>
  BY DEF BillingInv, PayCheckout
<1>2. /\ (\E session : PaidPack(session)) \/ \E sub : PaidPlan(sub)
      /\ stripe'.news = stripe.news + 1
  BY <1>1, PayCheckoutBooks
<1> SUFFICES ASSUME ~ row'.detached, Len(stripe'.subs) = 1
             PROVE  \E sub, P, L : sub = stripe'.subs[1] /\ Follows(sub, P, L)'
  BY DEF FollowsInv
<1>3. ASSUME NEW session, PaidPack(session)
      PROVE  \E sub, P, L : sub = stripe'.subs[1] /\ Follows(sub, P, L)'
  <2>1. stripe'.subs = stripe.subs
    BY <1>3 DEF PaidPack
  <2>2. PICK sub, P, L : sub = stripe.subs[1] /\ Follows(sub, P, L)
    BY <1>1, <2>1 DEF FollowsInv
  <2>3. PICK m, h0 : m = stripe.news /\ h0 = Webhook("pack", stripe.news + 1, 0, session)
    OBVIOUS
  <2>4. h0.kind = "pack" /\ mail' = mail \cup {h0}
    BY <1>3, <2>3 DEF PaidPack, Webhook
  <2>5. m \in Nat /\ stripe'.news \in Nat /\ m <= stripe'.news
    BY <1>1, <1>2, <2>3, BooksCounted
  <2>6. \A h \in mail' : \/ h.kind = "pack"
                         \/ \E g \in mail : /\ h.kind = g.kind /\ h.news = g.news
                                            /\ h.object = g.object
    BY <2>4
  <2>7. Follows(sub, P, L)'
    BY <1>1, <2>2, <2>3, <2>4, <2>5, <2>6, QuietFollows
  <2> QED BY <2>1, <2>2, <2>7
<1>4. ASSUME NEW sub, PaidPlan(sub)
      PROVE  \E sub2, P, L : sub2 = stripe'.subs[1] /\ Follows(sub2, P, L)'
  <2>1. PICK subs, n, m : subs = stripe.subs /\ n = Len(subs) /\ m = stripe.news
    OBVIOUS
  <2>2. n \in Nat /\ subs \in Seq(Subs) /\ sub \in Subs /\ stripe'.subs = Append(subs, sub)
    BY <1>1, <1>4, <2>1, BooksCounted DEF PaidPlan
  <2>3. PICK subs2 : subs2 = Append(subs, sub) /\ stripe'.subs = subs2
    BY <2>2
  <2>4. Len(subs2) = n + 1 /\ subs2[n + 1] = sub
    BY <2>1, <2>2, <2>3
  <2>5. n + 1 = 1
    BY <2>3, <2>4
  <2>6. stripe'.subs[1] = sub
    BY <2>3, <2>4, <2>5
  <2>7. Follows(sub, m + 1, m + 1)'
    BY <1>1, <1>2, <1>4, <2>1, PaidPlanFollows
  <2> QED BY <2>6, <2>7
<1> QED BY <1>2, <1>3, <1>4

LEMMA TrialEndsFollows ==
  ASSUME BillingInv, FollowsInv, TrialEnds
  PROVE  FollowsInv'
<1>1. Books /\ UNCHANGED <<row, mail, requestVars>>
  BY DEF BillingInv, TrialEnds
<1>2. stripe'.subs = stripe.subs /\ stripe'.news = stripe.news
  BY <1>1, TrialEndsBooks
<1> SUFFICES ASSUME ~ row'.detached, Len(stripe'.subs) = 1
             PROVE  \E sub, P, L : sub = stripe'.subs[1] /\ Follows(sub, P, L)'
  BY DEF FollowsInv
<1>3. PICK sub, P, L : sub = stripe.subs[1] /\ Follows(sub, P, L)
  BY <1>1, <1>2 DEF FollowsInv
<1>4. stripe.news \in Nat /\ stripe.news <= stripe'.news
  BY <1>1, <1>2, BooksCounted
<1>5. \A h \in mail' : \E g \in mail : /\ h.kind = g.kind /\ h.news = g.news
                                       /\ h.object = g.object
  BY <1>1
<1>6. Follows(sub, P, L)'
  BY <1>1, <1>2, <1>3, <1>4, <1>5, QuietFollows
<1> QED BY <1>2, <1>3, <1>6

-----------------------------------------------------------------------------
\* A request that is about to write nothing of the subscription, or ends a trial that no
\* subscription was ever written over.
Calm(new) ==
  \/ new.pc \notin {"write", "listed"}
  \/ new.op \notin BillingOps
  \/ new.op \in {"cancelTrial", "expireTrial"} /\ row.subscription = 0

LEMMA CalmAwaits ==
  ASSUME NEW new, IsRequest(new), Calm(new), NEW sub, NEW P, NEW L, Follows(sub, P, L)
  PROVE  Awaits(Left(new), sub, P, L)
<1>1. PICK x : x = Left(new)
  OBVIOUS
<1>2. x.pc = new.pc /\ x.op = new.op
  BY <1>1, LeftIsRequest
<1>3. L \in Nat /\ (L = 0 => row.subscription # 0)
  BY DEF Follows
<1>4. Awaits(x, sub, P, L)
  BY <1>2, <1>3 DEF Calm, Awaits, BillingOps
<1> QED BY <1>1, <1>4

LEMMA CalmFollows ==
  ASSUME BillingInv, FollowsInv, NEW r \in Requests, NEW new, Moves(r, new), Calm(new),
         row'.plan = row.plan, row'.status = row.status, row'.news = row.news,
         row'.cancelAtPeriodEnd = row.cancelAtPeriodEnd, row'.detached = row.detached,
         row'.subscription = row.subscription, stripe'.subs = stripe.subs,
         stripe'.news = stripe.news, mail' = mail
  PROVE  FollowsInv'
<1> SUFFICES ASSUME ~ row'.detached, Len(stripe'.subs) = 1
             PROVE  \E sub, P, L : sub = stripe'.subs[1] /\ Follows(sub, P, L)'
  BY DEF FollowsInv
<1>1. PICK sub, P, L : sub = stripe.subs[1] /\ Follows(sub, P, L)
  BY DEF FollowsInv
<1>2. HooksTell(sub, P, L)' /\ PlanThere(sub, P)' /\ StatusThere(sub, L)'
  BY <1>1 DEF Follows, HooksTell, Tells, TellsPlan, PlanThere, StatusThere
<1>3. ASSUME NEW q \in Requests
      PROVE  Awaits(req'[q], sub, P, L)
  <2>1. CASE q = r
    <3>1. Awaits(Left(new), sub, P, L)
      BY <1>1, CalmAwaits DEF Moves
    <3> QED BY <2>1, <3>1, MovesRequest DEF BillingInv
  <2>2. CASE q # r
    BY <1>1, <2>2, MovesRequest DEF BillingInv, Follows
  <2> QED BY <2>1, <2>2
<1>4. \A q \in Requests : Awaits(req[q], sub, P, L)'
  BY <1>3 DEF Awaits
<1>5. P \in Nat /\ L \in Nat /\ P <= L /\ L <= stripe'.news /\ (L = 0 => row'.subscription # 0)
  BY <1>1 DEF Follows
<1>6. Follows(sub, P, L)'
  BY <1>2, <1>4, <1>5 DEF Follows
<1> QED BY <1>1, <1>6

LEMMA CallStripeFollows ==
  ASSUME BillingInv, FollowsInv, NEW r \in Requests, CallStripe(r)
  PROVE  FollowsInv'
<1>1. PICK new : /\ Moves(r, new) /\ UNCHANGED row
                 /\ OrderedBy(r, new) \/ (new.pc = "refused" /\ UNCHANGED <<stripe, mail>>)
  BY CallStripeInv
<1>2. CASE new.pc = "refused" /\ UNCHANGED <<stripe, mail>>
  BY <1>1, <1>2, CalmFollows DEF Calm
<1>3. CASE OrderedBy(r, new)
  <2> SUFFICES ASSUME ~ row'.detached, Len(stripe'.subs) = 1
               PROVE  \E sub, P, L : sub = stripe'.subs[1] /\ Follows(sub, P, L)'
    BY DEF FollowsInv
  <2>1. PICK i \in DOMAIN stripe.subs, sub \in Subs, kinds \in SUBSET Kinds :
          /\ Ordered(req[r], stripe.subs[i], sub, kinds) /\ Announced(i, sub, kinds)
          /\ new.value = sub /\ new.level = stripe.news + 1
    BY <1>3 DEF OrderedBy
  <2>2. /\ Len(stripe.subs) = 1 /\ i = 1 /\ stripe'.subs[1] = sub /\ Books
        /\ ~ row.detached
    BY <1>1, <2>1, OneChanges DEF BillingInv
  <2>3. PICK old, P, L : old = stripe.subs[i] /\ Follows(old, P, L)
    BY <2>2 DEF FollowsInv
  <2>4. PICK m, P2, x : /\ m = stripe.news /\ x = req[r]
                        /\ P2 = IF sub.plan = old.plan THEN P ELSE m + 1
    OBVIOUS
  <2>5. Ordered(x, old, sub, kinds) /\ new.op = x.op /\ new.op \in ChangeOps /\ new.pc = "write"
    BY <1>3, <2>1, <2>3, <2>4 DEF OrderedBy
  <2>6. /\ TrueOf(kinds, sub) /\ ("updated" \in kinds \/ "deleted" \in kinds)
        /\ sub.plan = old.plan \/ "updated" \in kinds
    BY <2>5 DEF Ordered, TrueOf
  <2>7. ASSUME NEW q \in Requests
        PROVE  Awaits(req'[q], sub, P2, m + 1)
    <3>1. CASE q = r
      <4>1. Left(new) = new
        BY <1>1, <2>5, LeftIsRequest DEF Moves
      <4>2. req'[q] = new
        BY <1>1, <3>1, <4>1, MovesRequest DEF BillingInv
      <4>3. Awaits(new, sub, P2, m + 1)
        BY <2>1, <2>4, <2>5 DEF Awaits, Ordered, ChangeOps
      <4> QED BY <4>2, <4>3
    <3>2. CASE q # r
      <4>1. req'[q] = req[q]
        BY <1>1, <3>2, MovesRequest DEF BillingInv
      <4> QED BY <2>3, <2>4, <4>1, OthersAwait
    <3> QED BY <3>1, <3>2
  <2>8. Follows(sub, P2, m + 1)'
    BY <1>1, <2>1, <2>3, <2>4, <2>6, <2>7, AnnouncedFollows
  <2> QED BY <2>2, <2>8
<1> QED BY <1>1, <1>2, <1>3

\* What a request writes is what it awaited, unless the row knows newer news.
LEMMA WritesFollow ==
  ASSUME BillingInv, FollowsInv, NEW r \in Requests, Writes(r),
         req[r].pc = IF req[r].op = "expireTrial" THEN "listed" ELSE "write",
         NEW last, Moves(r, last), last.pc = "done"
  PROVE  FollowsInv'
<1> SUFFICES ASSUME ~ row'.detached, Len(stripe'.subs) = 1
             PROVE  \E sub, P, L : sub = stripe'.subs[1] /\ Follows(sub, P, L)'
  BY DEF FollowsInv
<1>1. UNCHANGED <<stripe, mail>> /\ Books
  BY DEF Writes, BillingInv
<1>2. PICK x, new, n, m : /\ x = req[r] /\ Orders(x, new, n) /\ WrittenFrom(new, n)
                          /\ m = stripe.news
  BY DEF Writes
<1>3. ~ row.detached /\ ~ (n < row.news)
  BY <1>2 DEF WrittenFrom
<1>4. PICK sub, P, L : sub = stripe.subs[1] /\ Follows(sub, P, L)
  BY <1>1, <1>3 DEF FollowsInv
<1>5. /\ P \in Nat /\ L \in Nat /\ P <= L /\ L <= m /\ row.news \in Nat /\ m \in Nat
      /\ Awaits(x, sub, P, L) /\ PlanThere(sub, P) /\ StatusThere(sub, L)
      /\ BillingSound(x, Len(stripe.subs), m)
  BY <1>1, <1>2, <1>4, BooksCounted DEF Follows, Books, IsRow, BillingInv
<1>6. x.pc = IF x.op = "expireTrial" THEN "listed" ELSE "write"
  BY <1>2
<1>7. /\ n \in Nat
      /\ x.op \in ChangeOps => x.pc = "write"
  BY <1>2, <1>5, <1>6 DEF Orders, BillingSound, ChangeOps
<1>8. /\ row'.news = n /\ row'.plan = new.plan /\ row'.status = new.status
      /\ row'.cancelAtPeriodEnd = new.cancelAtPeriodEnd
      /\ row'.subscription = row.subscription /\ n >= row.news
  BY <1>2, <1>3, <1>5, <1>7 DEF WrittenFrom, Orders
<1>9. PlanThere(sub, P)'
  <2>1. CASE \E hook \in mail : hook.kind \in {"updated", "checkout"} /\ hook.news = P
    BY <1>1, <2>1 DEF PlanThere
  <2>2. CASE row.news >= P /\ row.plan = sub.plan
    <3>1. n >= P
      BY <1>5, <1>7, <1>8, <2>2
    <3>2. new.plan = sub.plan
      BY <1>2, <1>5, <1>7, <2>2, <3>1 DEF Orders, Awaits, ChangeOps
    <3> QED BY <1>8, <3>1, <3>2 DEF PlanThere
  <2> QED BY <1>5, <2>1, <2>2 DEF PlanThere
<1>10. StatusThere(sub, L)'
  <2>1. CASE \E hook \in mail : /\ hook.kind \in {"updated", "checkout", "deleted"}
                                /\ hook.news = L
    BY <1>1, <2>1 DEF StatusThere
  <2>2. CASE /\ row.news >= L /\ row.status = sub.status
             /\ sub.status # "canceled" => row.cancelAtPeriodEnd = sub.cancelAtPeriodEnd
    <3>1. n >= L
      BY <1>5, <1>7, <1>8, <2>2
    <3>2. /\ new.status = sub.status
          /\ sub.status # "canceled" => new.cancelAtPeriodEnd = sub.cancelAtPeriodEnd
      <4>1. CASE x.op \in ChangeOps
        BY <1>2, <1>5, <1>7, <2>2, <3>1, <4>1 DEF Orders, Awaits, ChangeOps
      <4>2. CASE x.op \notin ChangeOps
        <5>1. n = 0 /\ x.op \in {"cancelTrial", "expireTrial"}
          BY <1>2, <4>2 DEF Orders, ChangeOps
        <5>2. L >= 1
          BY <1>5, <1>6, <5>1 DEF Awaits
        <5> QED BY <1>5, <3>1, <5>1, <5>2
      <4> QED BY <4>1, <4>2
    <3> QED BY <1>8, <3>1, <3>2 DEF StatusThere
  <2> QED BY <1>5, <2>1, <2>2 DEF StatusThere
<1>11. HooksTell(sub, P, L)'
  BY <1>1, <1>4 DEF Follows, HooksTell, Tells, TellsPlan
<1>12. ASSUME NEW q \in Requests
       PROVE  Awaits(req'[q], sub, P, L)
  <2>1. CASE q = r
    <3>1. Awaits(Left(last), sub, P, L)
      BY <1>4, CalmAwaits DEF Moves, Calm
    <3> QED BY <2>1, <3>1, MovesRequest DEF BillingInv
  <2>2. CASE q # r
    BY <1>4, <2>2, MovesRequest DEF BillingInv, Follows
  <2> QED BY <2>1, <2>2
<1>13. \A q \in Requests : Awaits(req[q], sub, P, L)'
  BY <1>12 DEF Awaits
<1>14. Follows(sub, P, L)'
  BY <1>1, <1>2, <1>4, <1>5, <1>8, <1>9, <1>10, <1>11, <1>13 DEF Follows
<1> QED BY <1>1, <1>4, <1>14

-----------------------------------------------------------------------------
(* The packs.                                                               *)

\* The packs that were paid for, and whose webhook did not come yet.
NewPacks == {h \in mail : h.kind = "pack" /\ ~ h.again}
PacksInv ==
  /\ IsFiniteSet(NewPacks)
  /\ ~ row.detached => row.extraCredits + PACK * Cardinality(NewPacks) = stripe.packs * PACK

LEMMA PackIs == PACK \in {500, 2000, 5000}
  BY SubscriptionAssumption DEF CREDIT_PACKS

LEMMA SamePacks ==
  ASSUME PacksInv, NewPacks' = NewPacks, row'.extraCredits = row.extraCredits,
         stripe'.packs = stripe.packs, row.detached => row'.detached
  PROVE  PacksInv'
<1>1. PICK A, B : A = NewPacks /\ B = NewPacks'
  OBVIOUS
<1>2. IsFiniteSet(B)
  BY <1>1 DEF PacksInv
<1>3. ~ row'.detached => row'.extraCredits + PACK * Cardinality(B) = stripe'.packs * PACK
  BY <1>1 DEF PacksInv
<1> QED BY <1>1, <1>2, <1>3 DEF PacksInv

LEMMA DeliverPackCounts ==
  ASSUME BillingInv, PacksInv, DeliverPack
  PROVE  PacksInv'
<1>1. PICK hook : DeliveredPack(hook)
  BY DeliverPackBooks DEF BillingInv
<1>2. PICK A, B : A = NewPacks /\ B = NewPacks'
  OBVIOUS
<1>3. CASE hook.again
  <2>1. B = A
    BY <1>1, <1>2, <1>3 DEF NewPacks, DeliveredPack, Taken
  <2>2. IsFiniteSet(B) /\ row'.detached
    BY <1>1, <1>2, <1>3, <2>1 DEF PacksInv, DeliveredPack
  <2> QED BY <1>2, <2>2 DEF PacksInv
<1>4. CASE ~ hook.again
  <2>1. B = A \ {hook} /\ hook \in A
    BY <1>1, <1>2, <1>4 DEF NewPacks, DeliveredPack, Taken
  <2>2. IsFiniteSet(A)
    BY <1>2 DEF PacksInv
  <2>3. IsFiniteSet(B) /\ Cardinality(B) = Cardinality(A) - 1 /\ Cardinality(A) \in Nat
    BY <2>1, <2>2, FS_RemoveElement, FS_CardinalityType
  <2>4. ASSUME ~ row'.detached
        PROVE  row'.extraCredits + PACK * Cardinality(B) = stripe'.packs * PACK
    <3>1. PICK c, e, p : c = Cardinality(A) /\ e = row.extraCredits /\ p = stripe.packs
      OBVIOUS
    <3>2. /\ c \in Nat /\ e \in Int /\ p \in Nat /\ e + PACK * c = p * PACK
          /\ Cardinality(B) = c - 1 /\ row'.extraCredits = e + PACK /\ stripe'.packs = p
      BY <1>1, <1>2, <2>3, <2>4, <3>1
         DEF PacksInv, DeliveredPack, StripeStill, BillingInv, Books, IsRow, IsStripe
    <3>3. ASSUME NEW k \in {500, 2000, 5000}, e + k * c = p * k
          PROVE  e + k + k * (c - 1) = p * k
      BY <3>2, <3>3
    <3> QED BY <3>2, <3>3, PackIs
  <2> QED BY <1>2, <2>3, <2>4 DEF PacksInv
<1> QED BY <1>3, <1>4

LEMMA PaidPackCounts ==
  ASSUME BillingInv, PacksInv, NEW session, PaidPack(session), UNCHANGED row
  PROVE  PacksInv'
<1>1. PICK A, B, w, m, n : /\ A = NewPacks /\ B = NewPacks' /\ m = stripe.news
                           /\ n = Len(stripe.subs) /\ w = Webhook("pack", m + 1, 0, session)
  OBVIOUS
<1>2. w.kind = "pack" /\ ~ w.again /\ w.news = m + 1 /\ mail' = mail \cup {w}
  BY <1>1 DEF PaidPack, Webhook
<1>3. m \in Nat /\ \A h \in mail : IsHook(h, n, m)
  BY <1>1, BooksCounted DEF BillingInv, Books
<1>4. w \notin mail
  BY <1>2, <1>3 DEF IsHook
<1>5. B = A \cup {w} /\ w \notin A
  BY <1>1, <1>2, <1>4 DEF NewPacks
<1>6. IsFiniteSet(A)
  BY <1>1 DEF PacksInv
<1>7. IsFiniteSet(B) /\ Cardinality(B) = Cardinality(A) + 1 /\ Cardinality(A) \in Nat
  BY <1>5, <1>6, FS_AddElement, FS_CardinalityType
<1>8. ASSUME ~ row'.detached
      PROVE  row'.extraCredits + PACK * Cardinality(B) = stripe'.packs * PACK
  <2>1. PICK c, e, p : c = Cardinality(A) /\ e = row.extraCredits /\ p = stripe.packs
    OBVIOUS
  <2>2. /\ c \in Nat /\ e \in Int /\ p \in Nat /\ e + PACK * c = p * PACK
        /\ Cardinality(B) = c + 1 /\ row'.extraCredits = e /\ stripe'.packs = p + 1
    BY <1>1, <1>7, <1>8, <2>1 DEF PacksInv, PaidPack, BillingInv, Books, IsRow, IsStripe
  <2>3. ASSUME NEW k \in {500, 2000, 5000}, e + k * c = p * k
        PROVE  e + k * (c + 1) = (p + 1) * k
    BY <2>2, <2>3
  <2> QED BY <2>2, <2>3, PackIs
<1> QED BY <1>1, <1>7, <1>8 DEF PacksInv

\* A webhook that is no pack tells of none.
LEMMA OtherMail ==
  ASSUME NEW hook, hook.kind # "pack", Taken(hook)
  PROVE  NewPacks' = NewPacks
  BY DEF NewPacks, Taken

LEMMA AnnouncedMail ==
  ASSUME NEW i, NEW sub, NEW kinds \in SUBSET Kinds, Announced(i, sub, kinds)
  PROVE  NewPacks' = NewPacks
<1>1. PICK new : /\ new = {Webhook(kind, stripe.news + 1, i, sub) : kind \in kinds}
                 /\ mail' = mail \cup new
  BY DEF Announced
<1>2. \A h \in new : h.kind \in Kinds
  BY <1>1 DEF Webhook
<1>3. \A h \in new : h.kind # "pack"
  BY <1>2 DEF Kinds
<1> QED BY <1>1, <1>3 DEF NewPacks

LEMMA DeliveriesCount ==
  ASSUME BillingInv, PacksInv,
         \/ DeliverPack \/ DeliverSubscription \/ DeliverInvoice \/ ReadRecovery
         \/ WriteRecovery
  PROVE  PacksInv'
<1>1. Books
  BY DEF BillingInv
<1>2. ASSUME NEW hook, NEW new, Delivered(hook, new)
      PROVE  PacksInv'
  <2>1. hook.kind # "pack"
    BY <1>2 DEF Delivered, Says
  <2>2. NewPacks' = NewPacks
    BY <1>2, <2>1, OtherMail DEF Delivered
  <2>3. /\ row'.extraCredits = row.extraCredits /\ stripe'.packs = stripe.packs
        /\ row.detached => row'.detached
    BY <1>2 DEF Delivered, Says, WrittenFrom, StripeStill
  <2> QED BY <2>2, <2>3, SamePacks
<1>3. ASSUME NEW hook, Ignored(hook)
      PROVE  PacksInv'
  <2>1. hook.kind # "pack" /\ hook \in mail
    BY <1>3 DEF Ignored
  <2>2. NewPacks' = NewPacks
    <3>1. CASE Taken(hook)
      BY <2>1, <3>1, OtherMail
    <3>2. CASE mail' = (mail \ {hook}) \cup {[hook EXCEPT !.read = TRUE]}
      <4>1. PICK h, n, m : /\ h = [hook EXCEPT !.read = TRUE]
                           /\ n = Len(stripe.subs) /\ m = stripe.news
        OBVIOUS
      <4>2. IsHook(hook, n, m)
        BY <1>1, <2>1, <4>1 DEF Books
      <4>3. h.kind = hook.kind
        BY <4>1, <4>2 DEF IsHook
      <4> QED BY <2>1, <3>2, <4>1, <4>3 DEF NewPacks
    <3> QED BY <1>3, <3>1, <3>2 DEF Ignored
  <2>3. row' = row /\ stripe'.packs = stripe.packs
    BY <1>3 DEF Ignored, StripeStill
  <2> QED BY <2>2, <2>3, SamePacks
<1> QED BY <1>1, <1>2, <1>3, DeliverPackCounts, DeliverSubscriptionBooks, DeliverInvoiceBooks,
           ReadRecoveryBooks, WriteRecoveryBooks

LEMMA StripeCounts ==
  ASSUME BillingInv, PacksInv, PayCheckout \/ StripeChanges \/ TrialEnds
  PROVE  PacksInv'
<1>1. Books
  BY DEF BillingInv
<1>2. CASE PayCheckout
  <2>1. UNCHANGED row /\ ((\E session : PaidPack(session)) \/ \E sub : PaidPlan(sub))
    BY <1>1, <1>2, PayCheckoutBooks
  <2>2. ASSUME NEW sub, PaidPlan(sub)
        PROVE  PacksInv'
    <3>1. NewPacks' = NewPacks /\ stripe'.packs = stripe.packs
      BY <2>2 DEF PaidPlan, NewPacks, Webhook
    <3> QED BY <2>1, <3>1, SamePacks
  <2> QED BY <2>1, <2>2, PaidPackCounts
<1>3. CASE StripeChanges
  <2>1. PICK i \in DOMAIN stripe.subs, sub \in Subs, kinds \in SUBSET Kinds :
          Announced(i, sub, kinds) /\ UNCHANGED row
    BY <1>1, <1>3, StripeChangesBooks
  <2>2. NewPacks' = NewPacks /\ stripe'.packs = stripe.packs
    BY <2>1, AnnouncedMail DEF Announced
  <2> QED BY <2>1, <2>2, SamePacks
<1>4. CASE TrialEnds
  <2>1. stripe'.packs = stripe.packs /\ UNCHANGED <<row, mail>>
    BY <1>1, <1>4, TrialEndsBooks DEF TrialEnds
  <2>2. NewPacks' = NewPacks
    BY <2>1 DEF NewPacks
  <2> QED BY <2>1, <2>2, SamePacks
<1> QED BY <1>2, <1>3, <1>4

\* A request that reads and writes no credits.
LEMMA CalmCounts ==
  ASSUME PacksInv, mail' = mail, stripe'.packs = stripe.packs,
         row'.extraCredits = row.extraCredits, row.detached => row'.detached
  PROVE  PacksInv'
<1>1. NewPacks' = NewPacks
  BY DEF NewPacks
<1> QED BY <1>1, SamePacks

LEMMA RequestsCount ==
  ASSUME BillingInv, PacksInv, NEW r \in Requests,
         \/ Checkout(r) \/ CreateCustomer(r) \/ CreateSession(r)
         \/ ChangePlan(r) \/ CancelOrResume(r) \/ CancelTrial(r) \/ CallStripe(r)
         \/ WriteRow(r) \/ ListOverdueTrials(r) \/ ExpireTrial(r) \/ Administrate(r)
  PROVE  PacksInv'
<1>1. CASE \/ Checkout(r) \/ ChangePlan(r) \/ CancelOrResume(r) \/ CancelTrial(r)
           \/ ListOverdueTrials(r)
  BY <1>1, BillingArrives, CalmCounts DEF billingVars
<1>2. CASE CreateCustomer(r) \/ CreateSession(r)
  BY <1>2, CreateCustomerInv, CreateSessionInv, CalmCounts
<1>3. CASE CallStripe(r)
  <2>1. PICK new : /\ UNCHANGED row
                   /\ OrderedBy(r, new) \/ UNCHANGED <<stripe, mail>>
    BY <1>3, CallStripeInv
  <2>2. CASE OrderedBy(r, new)
    <3>1. PICK i \in DOMAIN stripe.subs, sub \in Subs, kinds \in SUBSET Kinds :
            Announced(i, sub, kinds)
      BY <2>2 DEF OrderedBy
    <3>2. NewPacks' = NewPacks /\ stripe'.packs = stripe.packs
      BY <3>1, AnnouncedMail DEF Announced
    <3> QED BY <2>1, <3>2, SamePacks
  <2>3. CASE UNCHANGED <<stripe, mail>>
    BY <2>1, <2>3, CalmCounts
  <2> QED BY <2>1, <2>2, <2>3
<1>4. CASE WriteRow(r) \/ ExpireTrial(r)
  <2>1. Writes(r)
    BY <1>4, WriteRowInv, ExpireTrialInv
  <2>2. /\ mail' = mail /\ stripe' = stripe /\ row'.extraCredits = row.extraCredits
        /\ row.detached => row'.detached
    BY <2>1 DEF Writes, Orders, WrittenFrom
  <2> QED BY <2>2, CalmCounts
<1>5. CASE Administrate(r)
  <2>1. row'.detached /\ mail' = mail
    BY <1>5, AdministrateInv
  <2>2. PICK A, B : A = NewPacks /\ B = NewPacks'
    OBVIOUS
  <2>3. IsFiniteSet(B)
    BY <2>1, <2>2 DEF NewPacks, PacksInv
  <2> QED BY <2>1, <2>2, <2>3 DEF PacksInv
<1> QED BY <1>1, <1>2, <1>3, <1>4, <1>5

-----------------------------------------------------------------------------
(* The trial.                                                               *)

\* A trial that expires is over, and the row says it of an organization that pays only
\* where something older was written over it.
TrialInv ==
  /\ row.status = "expired" => stripe.trialOver /\ (row.detached \/ row.subscription = 0)
  /\ \A r \in Requests : req[r].op = "expireTrial" /\ req[r].pc = "listed" =>
       stripe.trialOver /\ (row.subscription # 0 => row.news >= 1 \/ row.detached)

\* A step that expires no trial, and lists none that is not overdue.
LEMMA TrialKept ==
  ASSUME TrialInv, Books, Books', stripe.trialOver => stripe'.trialOver,
         row.detached => row'.detached,
         row'.status = "expired" => row.status = "expired" /\ row'.subscription = row.subscription,
         \/ row'.subscription = row.subscription /\ row'.news >= row.news
         \/ row'.news >= 1,
         \A q \in Requests : req'[q].op = "expireTrial" /\ req'[q].pc = "listed" =>
            req'[q] = req[q] \/ (Overdue /\ UNCHANGED <<row, stripe>>)
  PROVE  TrialInv'
<1>1. row.news \in Nat /\ row'.news \in Nat
  BY DEF Books, IsRow
<1>2. row'.status = "expired" => stripe'.trialOver /\ (row'.detached \/ row'.subscription = 0)
  BY DEF TrialInv
<1>3. ASSUME NEW q \in Requests, req'[q].op = "expireTrial", req'[q].pc = "listed"
      PROVE  stripe'.trialOver /\ (row'.subscription # 0 => row'.news >= 1 \/ row'.detached)
  <2>1. CASE req'[q] = req[q]
    BY <1>1, <1>3, <2>1 DEF TrialInv
  <2>2. CASE Overdue /\ UNCHANGED <<row, stripe>>
    BY <2>2 DEF Overdue
  <2> QED BY <1>3, <2>1, <2>2
<1> QED BY <1>2, <1>3 DEF TrialInv

\* A request that lists no trial.
LEMMA ListsNone ==
  ASSUME RequestsInv, NEW r \in Requests, NEW new, Moves(r, new),
         new.op # "expireTrial" \/ new.pc # "listed"
  PROVE  \A q \in Requests : req'[q].op = "expireTrial" /\ req'[q].pc = "listed" =>
            req'[q] = req[q]
  BY MovesRequest

LEMMA DeliveriesTrial ==
  ASSUME BillingInv, BillingInv', TrialInv,
         \/ DeliverPack \/ DeliverSubscription \/ DeliverInvoice \/ ReadRecovery
         \/ WriteRecovery
  PROVE  TrialInv'
<1>1. Books /\ Books' /\ UNCHANGED requestVars
  BY DEF BillingInv, DeliverPack, DeliverSubscription, DeliverInvoice, ReadRecovery,
         WriteRecovery
<1>2. ASSUME NEW hook, NEW new, Delivered(hook, new)
      PROVE  TrialInv'
  <2>1. PICK n, m : n = Len(stripe.subs) /\ m = stripe.news
    OBVIOUS
  <2>2. IsHook(hook, n, m) /\ row.news \in Nat /\ m \in Nat
    BY <1>1, <1>2, <2>1, BooksCounted DEF Books, IsRow, Delivered
  <2>3. hook.news \in Nat /\ hook.news >= 1
    BY <2>2 DEF IsHook
  <2>4. row'.news >= 1
    BY <1>2, <2>2, <2>3 DEF Delivered, WrittenFrom
  <2>5. row'.status # "expired"
    BY <1>2, <2>2 DEF Delivered, WrittenFrom, Says, IsHook, Subs
  <2>6. stripe'.trialOver = stripe.trialOver /\ (row.detached => row'.detached)
    BY <1>2 DEF Delivered, WrittenFrom, StripeStill
  <2> QED BY <1>1, <2>4, <2>5, <2>6, TrialKept DEF requestVars
<1>3. ASSUME NEW hook, Ignored(hook) \/ DeliveredPack(hook)
      PROVE  TrialInv'
  <2>1. /\ row'.status = row.status /\ row'.subscription = row.subscription
        /\ row'.news = row.news /\ (row.detached => row'.detached)
        /\ stripe'.trialOver = stripe.trialOver /\ row.news \in Nat
    BY <1>1, <1>3 DEF Ignored, DeliveredPack, StripeStill, Books, IsRow
  <2>2. row'.news >= row.news
    BY <2>1
  <2> QED BY <1>1, <2>1, <2>2, TrialKept DEF requestVars
<1> QED BY <1>1, <1>2, <1>3, DeliverPackBooks, DeliverSubscriptionBooks, DeliverInvoiceBooks,
           ReadRecoveryBooks, WriteRecoveryBooks

LEMMA StripeTrial ==
  ASSUME BillingInv, BillingInv', TrialInv, PayCheckout \/ StripeChanges \/ TrialEnds
  PROVE  TrialInv'
<1>1. Books /\ Books' /\ UNCHANGED <<row, requestVars>>
  BY DEF BillingInv, PayCheckout, StripeChanges, TrialEnds
<1>2. stripe.trialOver => stripe'.trialOver
  <2>1. CASE PayCheckout
    BY <1>1, <2>1, PayCheckoutBooks
  <2>2. CASE StripeChanges
    BY <1>1, <2>2, StripeChangesBooks DEF Announced
  <2>3. CASE TrialEnds
    BY <1>1, <2>3, TrialEndsBooks
  <2> QED BY <2>1, <2>2, <2>3
<1>3. row'.news >= row.news
  <2>1. row.news \in Nat
    BY <1>1 DEF Books, IsRow
  <2> QED BY <1>1, <2>1
<1> QED BY <1>1, <1>2, <1>3, TrialKept DEF requestVars

\* A request that leaves the row as it is, but for the customer.
LEMMA CalmTrial ==
  ASSUME BillingInv, BillingInv', TrialInv, NEW r \in Requests, NEW new, Moves(r, new),
         new.op # "expireTrial" \/ new.pc # "listed" \/ (Overdue /\ UNCHANGED <<row, stripe>>),
         row'.status = row.status, row'.news = row.news, row'.detached = row.detached,
         row'.subscription = row.subscription, stripe'.trialOver = stripe.trialOver
  PROVE  TrialInv'
<1>1. Books /\ Books' /\ RequestsInv
  BY DEF BillingInv
<1>2. row'.news >= row.news
  <2>1. row.news \in Nat
    BY <1>1 DEF Books, IsRow
  <2> QED BY <2>1
<1>3. \A q \in Requests : req'[q].op = "expireTrial" /\ req'[q].pc = "listed" =>
        req'[q] = req[q] \/ (Overdue /\ UNCHANGED <<row, stripe>>)
  BY <1>1, ListsNone
<1> QED BY <1>1, <1>2, <1>3, TrialKept

LEMMA WritesTrial ==
  ASSUME BillingInv, BillingInv', TrialInv, NEW r \in Requests, Writes(r),
         req[r].pc = IF req[r].op = "expireTrial" THEN "listed" ELSE "write",
         NEW last, Moves(r, last), last.pc = "done"
  PROVE  TrialInv'
<1>1. Books /\ Books' /\ RequestsInv /\ UNCHANGED <<stripe, mail>>
  BY DEF BillingInv, Writes
<1>2. PICK x, new, n, m, k : /\ x = req[r] /\ Orders(x, new, n) /\ WrittenFrom(new, n)
                             /\ m = stripe.news /\ k = Len(stripe.subs)
  BY DEF Writes
<1>3. BillingSound(x, k, m) /\ row.news \in Nat /\ m \in Nat
  BY <1>1, <1>2, BooksCounted DEF BillingInv, Books, IsRow
<1>4. x.pc = IF x.op = "expireTrial" THEN "listed" ELSE "write"
  BY <1>2
<1>5. n \in Nat
  BY <1>2, <1>3, <1>4 DEF Orders, BillingSound, ChangeOps
<1>6. /\ row'.news >= row.news /\ (row.detached => row'.detached)
      /\ row'.subscription = row.subscription /\ row'.status = new.status
      /\ n < row.news => row'.detached
  BY <1>2, <1>3, <1>5 DEF WrittenFrom, Orders
<1>7. \A q \in Requests : req'[q].op = "expireTrial" /\ req'[q].pc = "listed" =>
        req'[q] = req[q]
  BY <1>1, ListsNone
<1>8. CASE x.op # "expireTrial"
  <2>1. row'.status = "expired" => row.status = "expired"
    BY <1>2, <1>3, <1>4, <1>6, <1>8 DEF Orders, BillingSound, ChangeOps, Subs
  <2> QED BY <1>1, <1>6, <1>7, <2>1, TrialKept
<1>9. CASE x.op = "expireTrial"
  <2>1. stripe.trialOver /\ (row.subscription # 0 => row.news >= 1 \/ row.detached)
    BY <1>2, <1>4, <1>9 DEF TrialInv
  <2>2. n = 0
    BY <1>2, <1>9 DEF Orders
  <2>3. row'.detached \/ row'.subscription = 0
    BY <1>3, <1>6, <2>1, <2>2
  <2>4. ASSUME NEW q \in Requests, req'[q].op = "expireTrial", req'[q].pc = "listed"
        PROVE  stripe'.trialOver /\ (row'.subscription # 0 => row'.news >= 1 \/ row'.detached)
    BY <1>1, <2>1, <2>3
  <2> QED BY <1>1, <2>1, <2>3, <2>4 DEF TrialInv
<1> QED BY <1>8, <1>9

LEMMA AdministrateTrial ==
  ASSUME BillingInv, BillingInv', TrialInv, NEW r \in Requests, Administrate(r)
  PROVE  TrialInv'
<1>1. /\ \E x : Moves(r, x) /\ x.pc = "done"
      /\ row'.detached = TRUE /\ row'.status \in {"suspended", "active"}
      /\ UNCHANGED <<stripe, mail>>
  BY AdministrateInv
<1>2. \A q \in Requests : req'[q].op = "expireTrial" /\ req'[q].pc = "listed" =>
        req'[q] = req[q]
  BY <1>1, ListsNone DEF BillingInv
<1> QED BY <1>1, <1>2 DEF TrialInv

LEMMA RequestsTrial ==
  ASSUME BillingInv, BillingInv', TrialInv, NEW r \in Requests,
         \/ Checkout(r) \/ CreateCustomer(r) \/ CreateSession(r)
         \/ ChangePlan(r) \/ CancelOrResume(r) \/ CancelTrial(r) \/ CallStripe(r)
         \/ WriteRow(r) \/ ListOverdueTrials(r) \/ ExpireTrial(r) \/ Administrate(r)
  PROVE  TrialInv'
<1>1. CASE \/ Checkout(r) \/ ChangePlan(r) \/ CancelOrResume(r) \/ CancelTrial(r)
           \/ ListOverdueTrials(r)
  <2>1. PICK new : Moves(r, new) /\ Arrived(new) /\ UNCHANGED <<row, stripe>>
    BY <1>1, BillingArrives DEF billingVars
  <2>2. new.op # "expireTrial" \/ Overdue
    BY <2>1 DEF Arrived, ChangeOps
  <2> QED BY <2>1, <2>2, CalmTrial
<1>2. CASE CreateCustomer(r)
  <2>1. PICK new : /\ Moves(r, new) /\ new.pc = "customer" /\ row'.status = row.status
                   /\ row'.news = row.news /\ row'.detached = row.detached
                   /\ row'.subscription = row.subscription
                   /\ stripe'.trialOver = stripe.trialOver
    BY <1>2, CreateCustomerInv
  <2> QED BY <2>1, CalmTrial
<1>3. CASE CreateSession(r)
  <2>1. PICK new : /\ Moves(r, new) /\ new.pc = "done" /\ UNCHANGED row
                   /\ stripe'.trialOver = stripe.trialOver
    BY <1>3, CreateSessionInv
  <2> QED BY <2>1, CalmTrial
<1>4. CASE CallStripe(r)
  <2>1. PICK new : /\ Moves(r, new) /\ UNCHANGED row
                   /\ OrderedBy(r, new) \/ (new.pc = "refused" /\ UNCHANGED <<stripe, mail>>)
    BY <1>4, CallStripeInv
  <2>2. new.pc # "listed" /\ stripe'.trialOver = stripe.trialOver
    BY <2>1 DEF OrderedBy, Announced
  <2> QED BY <2>1, <2>2, CalmTrial
<1>5. CASE WriteRow(r) \/ ExpireTrial(r)
  <2>1. Writes(r) /\ \E x : Moves(r, x) /\ x.pc = "done"
    BY <1>5, WriteRowInv, ExpireTrialInv
  <2>2. req[r].pc = IF req[r].op = "expireTrial" THEN "listed" ELSE "write"
    BY <1>5 DEF WriteRow, ExpireTrial, Doing
  <2> QED BY <2>1, <2>2, WritesTrial
<1> QED BY <1>1, <1>2, <1>3, <1>4, <1>5, AdministrateTrial

-----------------------------------------------------------------------------
RowInv == BillingInv /\ FollowsInv /\ PacksInv /\ TrialInv

LEMMA RequestsFollow ==
  ASSUME BillingInv, FollowsInv, NEW r \in Requests,
         \/ Checkout(r) \/ CreateCustomer(r) \/ CreateSession(r)
         \/ ChangePlan(r) \/ CancelOrResume(r) \/ CancelTrial(r) \/ CallStripe(r)
         \/ WriteRow(r) \/ ListOverdueTrials(r) \/ ExpireTrial(r) \/ Administrate(r)
  PROVE  FollowsInv'
<1>1. CASE \/ Checkout(r) \/ ChangePlan(r) \/ CancelOrResume(r) \/ CancelTrial(r)
           \/ ListOverdueTrials(r)
  <2>1. PICK new : Moves(r, new) /\ Arrived(new) /\ UNCHANGED <<row, stripe, mail>>
    BY <1>1, BillingArrives DEF billingVars
  <2>2. Calm(new)
    BY <2>1 DEF Arrived, Calm, Overdue
  <2> QED BY <2>1, <2>2, CalmFollows
<1>2. CASE CreateCustomer(r)
  <2>1. PICK new : /\ Moves(r, new) /\ new.pc = "customer"
                   /\ row'.detached = row.detached /\ row'.status = row.status
                   /\ row'.plan = row.plan /\ row'.cancelAtPeriodEnd = row.cancelAtPeriodEnd
                   /\ row'.subscription = row.subscription /\ row'.news = row.news
                   /\ stripe'.subs = stripe.subs /\ stripe'.news = stripe.news
                   /\ mail' = mail
    BY <1>2, CreateCustomerInv
  <2> QED BY <2>1, CalmFollows DEF Calm
<1>3. CASE CreateSession(r)
  <2>1. PICK new : /\ Moves(r, new) /\ new.pc = "done" /\ UNCHANGED <<row, mail>>
                   /\ stripe'.subs = stripe.subs /\ stripe'.news = stripe.news
    BY <1>3, CreateSessionInv
  <2> QED BY <2>1, CalmFollows DEF Calm
<1>4. CASE WriteRow(r) \/ ExpireTrial(r)
  <2>1. Writes(r) /\ \E x : Moves(r, x) /\ x.pc = "done"
    BY <1>4, WriteRowInv, ExpireTrialInv
  <2>2. req[r].pc = IF req[r].op = "expireTrial" THEN "listed" ELSE "write"
    BY <1>4 DEF WriteRow, ExpireTrial, Doing
  <2> QED BY <2>1, <2>2, WritesFollow
<1>5. CASE Administrate(r)
  BY <1>5, AdministrateInv DEF FollowsInv
<1> QED BY <1>1, <1>2, <1>3, <1>4, <1>5, CallStripeFollows

LEMMA SubscriptionRow ==
  ASSUME RowInv, SubscriptionStep
  PROVE  RowInv'
<1>1. BillingInv' /\ BillingInv /\ FollowsInv /\ PacksInv /\ TrialInv
  BY SubscriptionBilling DEF RowInv
<1>2. CASE PayCheckout \/ StripeChanges \/ TrialEnds
  BY <1>1, <1>2, PayCheckoutFollows, StripeChangesFollow, TrialEndsFollows, StripeCounts,
     StripeTrial DEF RowInv
<1>3. CASE \/ DeliverPack \/ DeliverSubscription \/ DeliverInvoice \/ ReadRecovery
           \/ WriteRecovery
  BY <1>1, <1>3, DeliveriesFollow, DeliveriesCount, DeliveriesTrial DEF RowInv
<1>4. ASSUME NEW r \in Requests,
             \/ Checkout(r) \/ CreateCustomer(r) \/ CreateSession(r)
             \/ ChangePlan(r) \/ CancelOrResume(r) \/ CancelTrial(r) \/ CallStripe(r)
             \/ WriteRow(r) \/ ListOverdueTrials(r) \/ ExpireTrial(r) \/ Administrate(r)
      PROVE  RowInv'
  BY <1>1, <1>4, RequestsFollow, RequestsCount, RequestsTrial DEF RowInv
<1> QED BY <1>2, <1>3, <1>4 DEF SubscriptionStep

\* Nothing happens to the subscription.
LEMMA ElsewhereRow ==
  ASSUME RowInv, BillingInv', UNCHANGED billingVars, NEW r \in Requests, NEW ops,
         Serves(r, ops), ops \cap BillingOps = {}
  PROVE  RowInv'
<1>1. PICK new : Moves(r, new) /\ new.op \notin BillingOps
  BY DEF Serves
<1>2. UNCHANGED <<row, stripe, mail>> /\ BillingInv /\ FollowsInv /\ PacksInv /\ TrialInv
  BY DEF billingVars, RowInv
<1>3. FollowsInv'
  BY <1>1, <1>2, CalmFollows DEF Calm
<1>4. PacksInv'
  BY <1>2, CalmCounts
<1>5. new.op # "expireTrial"
  BY <1>1 DEF BillingOps
<1>6. TrialInv'
  BY <1>1, <1>2, <1>5, CalmTrial
<1> QED BY <1>3, <1>4, <1>6 DEF RowInv

LEMMA StillRow ==
  ASSUME RowInv, BillingInv', UNCHANGED <<billingVars, requestVars>>
  PROVE  RowInv'
<1>1. UNCHANGED <<row, stripe, mail, req>> /\ BillingInv /\ FollowsInv /\ PacksInv /\ TrialInv
  BY DEF billingVars, requestVars, RowInv
<1>2. PacksInv'
  BY <1>1, CalmCounts
<1>3. TrialInv'
  BY <1>1 DEF TrialInv
<1>4. FollowsInv'
  <2> SUFFICES ASSUME ~ row'.detached, Len(stripe'.subs) = 1
               PROVE  \E sub, P, L : sub = stripe'.subs[1] /\ Follows(sub, P, L)'
    BY DEF FollowsInv
  <2>1. PICK sub, P, L : sub = stripe.subs[1] /\ Follows(sub, P, L)
    BY <1>1 DEF FollowsInv
  <2>2. Follows(sub, P, L)'
    BY <1>1, <2>1 DEF Follows, HooksTell, Tells, TellsPlan, PlanThere, StatusThere, Awaits
  <2> QED BY <1>1, <2>1, <2>2
<1> QED BY <1>2, <1>3, <1>4 DEF RowInv

LEMMA RowNext ==
  ASSUME RowInv, [Next]_vars
  PROVE  RowInv'
<1>1. BillingInv' /\ BillingInv /\ RequestsInv
  BY BillingNext DEF RowInv, BillingInv
<1>2. CASE UNCHANGED vars
  BY <1>1, <1>2, StillRow DEF vars
<1>3. CASE SubscriptionStep
  BY <1>3, SubscriptionRow
<1>4. CASE TeamsStep
  <2>1. UNCHANGED billingVars
    BY <1>4 DEF TeamsStep, LogIn, InvitationEnds, Invite, Accept, ExpireInvitation, TakeSeat,
         LookUpInvited, CreateInvitation, Join, AnswerInvitation, WriteInvitation,
         ChangeMember, NotLastOwner, WriteMember, DeleteAccount, LeaveOrganization
  <2>2. (TeamOps \cup Losing) \cap BillingOps = {}
    BY DEF TeamOps, Losing, BillingOps
  <2> QED BY <1>1, <1>4, <2>1, <2>2, TeamsServe, StillRow, ElsewhereRow
<1>5. CASE (ConnectionsStep \/ AdaptersStep) /\ UNCHANGED billingVars
  <2>1. SocialOps \cap BillingOps = {} /\ PlatformOps \cap BillingOps = {}
    BY DEF SocialOps, PlatformOps, BillingOps
  <2> QED BY <1>1, <1>5, <2>1, ConnectionsServe, AdaptersServe, StillRow, ElsewhereRow
<1> QED BY <1>2, <1>3, <1>4, <1>5 DEF Next

LEMMA RowInit == Init => RowInv
<1> SUFFICES ASSUME Init PROVE RowInv
  OBVIOUS
<1>1. BillingInv
  BY BillingInit
<1>2. mail = {} /\ \A r \in Requests : req[r].op = "none"
  BY RequestsInitInv DEF Init, SubscriptionInit
<1>3. NewPacks = {} /\ IsFiniteSet(NewPacks) /\ Cardinality(NewPacks) = 0
  <2>1. NewPacks = {}
    BY <1>2 DEF NewPacks
  <2> QED BY <2>1, FS_EmptySet
<1>4. PACK * 0 = 0 /\ 0 * PACK = 0
  BY PackIs
<1>5. CASE row = NewRow /\ stripe = NewStripe
  <2>1. /\ row.status = "trialing" /\ row.extraCredits = 0 /\ stripe.packs = 0
        /\ stripe.subs = <<>>
    BY <1>5 DEF NewRow, NewStripe
  <2>2. Len(stripe.subs) # 1
    BY <2>1
  <2> QED BY <1>1, <1>2, <1>3, <1>4, <2>1, <2>2 DEF RowInv, FollowsInv, PacksInv, TrialInv
<1>6. CASE \E plan \in Plans :
             /\ row = [NewRow EXCEPT !.plan = plan, !.status = "active",
                                     !.customer = 1, !.subscription = 1]
             /\ stripe = [NewStripe EXCEPT !.customers = 1, !.subs = <<Subscribed(plan, 1)>>,
                                              !.trialOver = TRUE]
  <2>1. PICK plan, sub, subs :
          /\ plan \in Plans
          /\ sub = Subscribed(plan, 1) /\ subs = <<sub>>
          /\ row = [NewRow EXCEPT !.plan = plan, !.status = "active",
                                  !.customer = 1, !.subscription = 1]
          /\ stripe = [NewStripe EXCEPT !.customers = 1, !.subs = subs, !.trialOver = TRUE]
    BY <1>6
  <2>2. row = [plan |-> plan, status |-> "active", cancelAtPeriodEnd |-> FALSE,
               customer |-> 1, subscription |-> 1, extraCredits |-> 0,
               news |-> 0, detached |-> FALSE]
    BY <2>1 DEF NewRow
  <2>3. stripe.subs = subs /\ stripe.packs = 0 /\ stripe.news = 0
    BY <2>1 DEF NewStripe
  <2>4. subs[1] = sub
    BY <2>1
  <2>5. sub.status = "active" /\ sub.plan = plan /\ sub.cancelAtPeriodEnd = FALSE
    BY <2>1 DEF Subscribed
  <2>6. HooksTell(sub, 0, 0) /\ PlanThere(sub, 0) /\ StatusThere(sub, 0)
    <3>1. /\ row.news = 0 /\ row.plan = plan /\ row.status = "active"
          /\ row.cancelAtPeriodEnd = FALSE
      BY <2>2
    <3>2. row.news >= 0
      BY <3>1
    <3>3. PlanThere(sub, 0)
      BY <2>5, <3>1, <3>2 DEF PlanThere
    <3>4. StatusThere(sub, 0)
      BY <2>5, <3>1, <3>2 DEF StatusThere
    <3>5. HooksTell(sub, 0, 0)
      BY <1>2 DEF HooksTell
    <3> QED BY <3>3, <3>4, <3>5
  <2>7. Follows(sub, 0, 0)
    BY <1>2, <2>2, <2>3, <2>6 DEF Follows, Awaits
  <2>8. FollowsInv
    BY <2>3, <2>4, <2>7 DEF FollowsInv
  <2>9. PacksInv
    BY <1>3, <1>4, <2>2, <2>3 DEF PacksInv
  <2>10. TrialInv
    BY <1>2, <2>2 DEF TrialInv
  <2> QED BY <1>1, <2>8, <2>9, <2>10 DEF RowInv
<1> QED BY <1>5, <1>6 DEF Init, SubscriptionInit

LEMMA RowInvIsEnough == RowInv => RowFollowsStripe
<1> SUFFICES ASSUME RowInv PROVE RowFollowsStripe
  OBVIOUS
<1>1. ASSUME mail = {}, ~ row.detached, Len(stripe.subs) = 1, NEW sub, sub = stripe.subs[1]
      PROVE  /\ row.status = sub.status /\ row.plan = sub.plan
             /\ sub.status # "canceled" => row.cancelAtPeriodEnd = sub.cancelAtPeriodEnd
             /\ row.extraCredits = stripe.packs * PACK
  <2>1. PICK P, L : Follows(sub, P, L)
    BY <1>1 DEF RowInv, FollowsInv
  <2>2. PlanThere(sub, P) /\ StatusThere(sub, L)
    BY <2>1 DEF Follows
  <2>3. /\ row.status = sub.status /\ row.plan = sub.plan
        /\ sub.status # "canceled" => row.cancelAtPeriodEnd = sub.cancelAtPeriodEnd
    BY <1>1, <2>2 DEF PlanThere, StatusThere
  <2>4. NewPacks = {} /\ Cardinality(NewPacks) = 0
    <3>1. NewPacks = {}
      BY <1>1 DEF NewPacks
    <3> QED BY <3>1, FS_EmptySet
  <2>5. PICK e, p : /\ e = row.extraCredits /\ p = stripe.packs * PACK
                    /\ e + PACK * 0 = p /\ e \in Int
    BY <1>1, <2>4 DEF RowInv, PacksInv, BillingInv, Books, IsRow
  <2>6. PACK * 0 = 0
    BY PackIs
  <2>7. e = p
    BY <2>5, <2>6
  <2> QED BY <2>3, <2>5, <2>7
<1>2. row.status = "expired" => stripe.trialOver /\ (row.detached \/ row.subscription = 0)
  BY DEF RowInv, TrialInv
<1> QED BY <1>1, <1>2 DEF RowFollowsStripe

\* Whatever the order in which webhooks, requests and the cron write the row, and however
\* often Stripe changes the subscription meanwhile: once all its news has arrived, the row
\* says what Stripe says, unless a write carried older news than the row, a webhook of a
\* pack came twice, the staff wrote, or there are two subscriptions (stripe.service.ts:194);
\* and only such a write expires the trial of an organization that pays
\* (trial-expiry.service.ts:72).
THEOREM RowAlwaysFollowsStripe == Spec => []RowFollowsStripe
<1>1. Init => RowInv
  BY RowInit
<1>2. RowInv /\ [Next]_vars => RowInv'
  BY RowNext
<1> QED BY <1>1, <1>2, RowInvIsEnough, PTL DEF Spec
==============================================================================
