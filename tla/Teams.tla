-------------------------------- MODULE Teams ----------------------------------
(* The team of the organization (teams/teams.service.ts): its members and their   *)
(* roles, the invitations, the seats of the plan (assertSeatAvailable of          *)
(* plans/entitlements.service.ts), and the deletion of an account                 *)
(* (privacy/privacy.service.ts).  Who calls is known by a token alone, which      *)
(* carries the role of the moment of the login (auth.service.ts).                 *)
EXTENDS Subscription

CONSTANTS
  Users,
  Roles,       \* the roles that are given
  Teams0,      \* the teams that a behaviour may begin with: [Users -> Roles or NoRole]
  NoRole

VARIABLES
  members,       \* the role of each member
  token,         \* the role in the token of each user
  invitations    \* the invitations, by the request that made them

teamVars == <<members, token, invitations>>

ROLE_HIERARCHY == [VIEWER |-> 0, EDITOR |-> 1, MARKETING_MANAGER |-> 2, ADMIN |-> 3, OWNER |-> 4]
RoleLevel(role) == ROLE_HIERARCHY[role]

\* Who signs up has an organization of one's own (register): an owner is there.
ASSUME TeamsAssumption ==
  /\ IsFiniteSet(Users)
  /\ Roles \subseteq DOMAIN ROLE_HIERARCHY
  /\ NoRole \notin DOMAIN ROLE_HIERARCHY
  /\ Teams0 \subseteq [Users -> DOMAIN ROLE_HIERARCHY \cup {NoRole}]
  /\ \A team \in Teams0 : \E u \in Users : team[u] = "OWNER"

Members == {u \in Users : members[u] # NoRole}
Owners == {u \in Users : members[u] = "OWNER"}
Pending == {i \in Requests : invitations[i].status = "PENDING"}
Occupied == Cardinality(Members) + Cardinality(Pending)
SeatLimit == PLAN_CATALOG[row.plan].maxSeats

TeamsInit ==
  /\ members \in Teams0
  /\ token = members
  /\ invitations = [i \in Requests |-> [status |-> "none", user |-> "none",
                                        role |-> "none", late |-> FALSE]]

\* The roles a caller may have for a route that asks for an ADMIN (RolesGuard).
CallerRoles == {token[u] : u \in Users} \cap {"ADMIN", "OWNER"}
AtMost(role, callerRole) == RoleLevel(role) <= RoleLevel(callerRole)

\* Mutant: an invitation takes no seat until it is accepted.
SeatAvailableForMembers == Cardinality(Members) < SeatLimit
\* assertSeatAvailable
SeatAvailable == SeatLimit = NoLimit \/ Occupied < SeatLimit

-----------------------------------------------------------------------------
(* login and switchOrganization: a token with the role of now.              *)
LogIn(u) ==
  /\ u \in Members /\ token[u] # members[u]
  /\ token' = [token EXCEPT ![u] = members[u]]
  /\ UNCHANGED <<members, invitations, billingVars, requestVars>>

\* The seven days of an invitation go by.
InvitationEnds(i) ==
  /\ i \in Pending /\ ~invitations[i].late
  /\ invitations' = [invitations EXCEPT ![i].late = TRUE]
  /\ UNCHANGED <<members, token, billingVars, requestVars>>

-----------------------------------------------------------------------------
(* Invitations.                                                             *)

\* invite: who calls, the subscription, and then the seats.
Invite(r) ==
  /\ Arrives(r, "team")
  /\ \E role \in Roles, callerRole \in CallerRoles, u \in Users :
       /\ AtMost(role, callerRole)
       /\ Call(r, [NewRequest EXCEPT !.op = "invite", !.user = u, !.value = role,
                             !.pc = IF ActiveSubscription THEN "seat" ELSE "refused"])
  /\ UNCHANGED <<teamVars, billingVars>>

\* acceptInvitation, by the user it was sent to.
Accept(r) ==
  /\ Arrives(r, "team")
  /\ \E i \in Pending :
       Call(r, [NewRequest EXCEPT
              !.op = "accept", !.user = invitations[i].user, !.value = invitations[i].role,
              !.seen = i, !.pc = IF invitations[i].late THEN "expire"
                                 ELSE IF invitations[i].user \in Members THEN "refused"
                                 ELSE "seat"])
  /\ UNCHANGED <<teamVars, billingVars>>

ExpireInvitation(r) ==
  /\ Doing(r, "accept", "expire")
  /\ invitations' = [invitations EXCEPT ![req[r].seen].status = "EXPIRED"]
  /\ Goto(r, "refused")
  /\ UNCHANGED <<members, token, billingVars>>

\* limit and level keep the seats of the plan and the members that were counted.
TakeSeat(r) ==
  /\ req[r].op \in {"invite", "accept"} /\ req[r].pc = "seat"
  /\ Becomes(r, [req[r] EXCEPT
       !.limit = SeatLimit, !.level = Cardinality(Members),
       !.pc = IF ~SeatAvailable THEN "noSeat"
              ELSE IF req[r].op = "invite" THEN "lookup" ELSE "write"])
  /\ UNCHANGED <<teamVars, billingVars>>

\* Neither a member nor invited already.
LookUpInvited(r) ==
  /\ Doing(r, "invite", "lookup")
  /\ Goto(r, IF \/ req[r].user \in Members
                \/ \E i \in Pending : invitations[i].user = req[r].user
             THEN "refused" ELSE "write")
  /\ UNCHANGED <<teamVars, billingVars>>

CreateInvitation(r) ==
  /\ Doing(r, "invite", "write")
  /\ invitations' = [invitations EXCEPT ![r] =
       [status |-> "PENDING", user |-> req[r].user, role |-> req[r].value, late |-> FALSE]]
  /\ Goto(r, "done")
  /\ UNCHANGED <<members, token, billingVars>>

\* The membership and the invitation in one transaction, which a second membership of
\* the same user makes fail.
Join(r) ==
  /\ Doing(r, "accept", "write")
  /\ IF req[r].user \in Members
     THEN Goto(r, "refused") /\ UNCHANGED <<members, invitations>>
     ELSE /\ members' = [members EXCEPT ![req[r].user] = req[r].value]
          /\ invitations' = [invitations EXCEPT ![req[r].seen].status = "ACCEPTED"]
          /\ Goto(r, "done")
  /\ UNCHANGED <<token, billingVars>>

\* revokeInvitation and resendInvitation of one that was read as pending.
AnswerInvitation(r) ==
  /\ Arrives(r, "team")
  /\ CallerRoles # {}
  /\ \E i \in Pending, op \in {"revoke", "resend"} :
       Call(r, [NewRequest EXCEPT !.op = op, !.pc = "write", !.seen = i])
  /\ UNCHANGED <<teamVars, billingVars>>

WriteInvitation(r) ==
  /\ req[r].op \in {"revoke", "resend"} /\ req[r].pc = "write"
  /\ invitations' = IF req[r].op = "revoke"
                    THEN [invitations EXCEPT ![req[r].seen].status = "REVOKED"]
                    ELSE [invitations EXCEPT ![req[r].seen].late = FALSE]
  /\ Goto(r, "done")
  /\ UNCHANGED <<members, token, billingVars>>

-----------------------------------------------------------------------------
(* Members.                                                                 *)

Losing == {"changeRole", "removeMember"}

\* changeRole and removeMember of u: the role of u is read; level is the caller's.
ChangeMember(r) ==
  /\ Arrives(r, "team")
  /\ \E u \in Members, callerRole \in CallerRoles, op \in Losing :
       \E role \in (IF op = "changeRole" THEN Roles ELSE {"none"}) :
         /\ op = "changeRole" => AtMost(role, callerRole)
         /\ Call(r, [NewRequest EXCEPT !.op = op, !.user = u, !.value = role,
                               !.level = RoleLevel(callerRole), !.seen = members[u],
                               !.pc = IF members[u] = "OWNER" THEN "owners" ELSE "rank"])
  /\ UNCHANGED <<teamVars, billingVars>>

\* Mutant: an owner is counted among those who stay.
NotLastOwnerTooLate(r) ==
  /\ req[r].op \in Losing /\ req[r].pc = "owners"
  /\ Goto(r, IF Cardinality(Owners) < 1 THEN "refused" ELSE "rank")
  /\ UNCHANGED <<teamVars, billingVars>>
\* assertNotLastOwner: the owners are counted.
NotLastOwner(r) ==
  /\ req[r].op \in Losing /\ req[r].pc = "owners"
  /\ Goto(r, IF Cardinality(Owners) <= 1 THEN "refused" ELSE "rank")
  /\ UNCHANGED <<teamVars, billingVars>>

\* What was read decides, and the row is written by its id, or is gone.
WriteMember(r) ==
  /\ req[r].op \in Losing /\ req[r].pc = "rank"
  /\ IF RoleLevel(req[r].seen) > req[r].level \/ req[r].user \notin Members
     THEN Goto(r, "refused") /\ UNCHANGED members
     ELSE /\ members' = [members EXCEPT ![req[r].user] =
                           IF req[r].op = "changeRole" THEN req[r].value ELSE NoRole]
          /\ Goto(r, "done")
  /\ UNCHANGED <<token, invitations, billingVars>>

\* requestAccountDeletion: an owner with colleagues must hand the organization over.
DeleteAccount(r) ==
  /\ Arrives(r, "team")
  /\ \E u \in Members :
       Call(r, [NewRequest EXCEPT !.op = "deleteAccount", !.user = u,
              !.pc = IF members[u] = "OWNER" /\ Cardinality(Members) > 1 THEN "refused"
                     ELSE "write"])
  /\ UNCHANGED <<teamVars, billingVars>>

LeaveOrganization(r) ==
  /\ Doing(r, "deleteAccount", "write")
  /\ members' = [members EXCEPT ![req[r].user] = NoRole]
  /\ Goto(r, "done")
  /\ UNCHANGED <<token, invitations, billingVars>>

TeamsStep ==
  \/ \E u \in Users : LogIn(u)
  \/ \E i \in Requests : InvitationEnds(i)
  \/ \E r \in Requests :
       \/ Invite(r) \/ Accept(r) \/ ExpireInvitation(r) \/ TakeSeat(r) \/ LookUpInvited(r) \/ CreateInvitation(r)
       \/ Join(r) \/ AnswerInvitation(r) \/ WriteInvitation(r)
       \/ ChangeMember(r) \/ NotLastOwner(r) \/ WriteMember(r)
       \/ DeleteAccount(r) \/ LeaveOrganization(r)

-----------------------------------------------------------------------------
\* An organization that has members has an owner, or nobody could change a role or end
\* its subscription (teams.service.ts:194).  Only two changes of members at the same time
\* can leave it without one, or a deletion of the account of its only member.
OwnerRemains ==
  Members # {} /\ Owners = {} =>
    \/ \E r, s \in Requests : Met(r, s) /\ req[r].op \in Losing /\ req[s].op \in Losing
    \/ \E r \in Requests : Done(r, "deleteAccount")

\* Nobody takes a seat beyond those of the plan that was read, except for one seat for
\* each invitation or acceptance served at the same time (teams.service.ts:50).
SeatsWithinPlan ==
  [][\A r \in Requests :
       req'[r].pc = "done" /\ req[r].pc # "done" /\ Occupied' > Occupied
         => Occupied' <= req[r].limit
              + Cardinality({s \in Requests : Met(r, s) /\ req[s].op \in {"invite", "accept"}})
    ]_<<teamVars, requestVars>>

\* Who was invited into a free seat can take it: an acceptance is refused for want of a
\* seat only when the members fill the plan.
InvitedCanJoin ==
  \A r \in Requests : Doing(r, "accept", "noSeat") => req[r].level >= req[r].limit
================================================================================
