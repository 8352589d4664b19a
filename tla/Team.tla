-------------------------------- MODULE Team --------------------------------
(***************************************************************************)
(* auth-service: the members and the invitations of one organization.      *)
(*                                                                         *)
(* The RPCs of TeamService and InviteService read rows, decide, and write  *)
(* with further statements, without a transaction around them; each        *)
(* statement is a step.  The tables enforce one membership per user, one   *)
(* OWNER and one pending invitation per address.  VIEWER decides nothing   *)
(* here that MEMBER does not, and an address stands for the user who has   *)
(* it.  Sessions, events and audit entries are left out.                   *)
(***************************************************************************)
EXTENDS Integers, FiniteSets

CONSTANTS
    Users,             \* users, by their e-mail addresses
    Founder,           \* the user for whom EnsureOrganization made the organization
    MaxInvites,        \* bound: invitations that are made
    TeamRequests,      \* RPCs that are served at the same time
    MaxPendingInvites, \* MaxPendingInvites
    UserLimit,         \* TierUserLimits of the organization's tier
    MaxTeamFaults      \* bound: failing writes

ASSUME TeamAssumption ==
    /\ IsFiniteSet(Users) /\ IsFiniteSet(TeamRequests) /\ TeamRequests # {}
    /\ Founder \in Users
    /\ MaxInvites \in Nat /\ MaxPendingInvites \in Nat /\ UserLimit \in Nat /\ MaxTeamFaults \in Nat

Invites == 1..MaxInvites

VARIABLES
    role,      \* memberships: the role of each user, "none" without a row
    ownerId,   \* organizations.owner_id
    invite,    \* the table invites
    rpc,       \* the RPCs under way
    deserted,  \* history: the last member has left
    teamFaults \* writes that have failed

teamVars == <<role, ownerId, invite, rpc, deserted, teamFaults>>

Roles == {"OWNER", "ADMIN", "MEMBER"}
Assignable == Roles \ {"OWNER"}
InviteStatuses == {"unused", "PENDING", "ACCEPTED", "EXPIRED", "REVOKED"}
InviteRows == [status : InviteStatuses, email : Users, role : Assignable, late : BOOLEAN]
RpcKinds == {"change", "remove", "transfer", "leave", "invite", "revoke", "accept"}

NoRpc == [kind |-> "none", stage |-> "idle"]

Members == {u \in Users : role[u] # "none"}
Pending == {i \in Invites : invite[i].status = "PENDING"}

TeamTypeOK ==
    /\ role \in [Users -> Roles \cup {"none"}]
    /\ ownerId \in Users
    /\ invite \in [Invites -> InviteRows]
    /\ \A q \in TeamRequests :
         rpc[q] = NoRpc \/ rpc[q].kind \in RpcKinds
    /\ deserted \in BOOLEAN /\ teamFaults \in 0..MaxTeamFaults

CanManageMembers(r) == r \in {"OWNER", "ADMIN"}

-----------------------------------------------------------------------------
(* membership_repository.go and invite_repository.go *)

\* The row exists and the index that allows one OWNER is respected.
RoleCanBe(u, r) ==
    role[u] # "none" /\ (r = "OWNER" => \A v \in Users \ {u} : role[v] # "OWNER")

WriteFails == teamFaults < MaxTeamFaults /\ teamFaults' = teamFaults + 1

RpcEnds(q) == rpc' = [rpc EXCEPT ![q] = NoRpc]
RpcAt(q, s) == rpc' = [rpc EXCEPT ![q].stage = s]

Begin(q, r) == rpc[q] = NoRpc /\ rpc' = [rpc EXCEPT ![q] = r]
At(q, k, s) == rpc[q].kind = k /\ rpc[q].stage = s

NothingWritten == UNCHANGED <<role, ownerId, invite, deserted, teamFaults>>

-----------------------------------------------------------------------------
(* TeamService *)

\* resolveActorAndTargetByOrg: the actor's row first, then the target's.  What the
\* actor may do is decided after both reads, from the rows as they were read.
ReadActor(q, k, a, t, r) ==
    /\ CASE k = "transfer" -> role[a] = "OWNER" /\ a # t
         [] OTHER -> CanManageMembers(role[a])
    /\ Begin(q, CASE k = "transfer" -> [kind |-> k, stage |-> "target", actor |-> a, target |-> t]
                   [] k = "change" -> [kind |-> k, stage |-> "target", target |-> t, new |-> r]
                   [] OTHER -> [kind |-> k, stage |-> "target", target |-> t])
    /\ NothingWritten

\* ChangeMemberRole and RemoveMember refuse to touch the OWNER.
MayTouch(k, r) == k = "transfer" \/ r # "OWNER"

ReadTarget(q) ==
    LET c == rpc[q]
        r == role[c.target]
    IN  /\ c.stage = "target"
        /\ IF r # "none" /\ MayTouch(c.kind, r) /\ ~(c.kind = "change" /\ r = c.new)
           THEN RpcAt(q, "write") ELSE RpcEnds(q)
        /\ NothingWritten

ChangeMemberRole(q) ==
    LET c == rpc[q]
    IN  /\ At(q, "change", "write")
        /\ role' = IF RoleCanBe(c.target, c.new) THEN [role EXCEPT ![c.target] = c.new] ELSE role
        /\ RpcEnds(q)
        /\ UNCHANGED <<ownerId, invite, deserted, teamFaults>>

RemoveMember(q) ==
    /\ At(q, "remove", "write")
    /\ role' = [role EXCEPT ![rpc[q].target] = "none"]
    /\ RpcEnds(q)
    /\ UNCHANGED <<ownerId, invite, deserted, teamFaults>>

\* TransferOwnership: the actor becomes ADMIN, ...
Demote(q) ==
    /\ At(q, "transfer", "write")
    /\ IF RoleCanBe(rpc[q].actor, "ADMIN")
       THEN role' = [role EXCEPT ![rpc[q].actor] = "ADMIN"] /\ RpcAt(q, "promote")
       ELSE UNCHANGED role /\ RpcEnds(q)
    /\ UNCHANGED <<ownerId, invite, deserted, teamFaults>>

\* ... the target OWNER, unless its row is gone or there is an OWNER, ...
Promote(q) ==
    /\ At(q, "transfer", "promote")
    /\ IF RoleCanBe(rpc[q].target, "OWNER")
       THEN role' = [role EXCEPT ![rpc[q].target] = "OWNER"] /\ RpcAt(q, "owner")
       ELSE UNCHANGED role /\ RpcEnds(q)
    /\ UNCHANGED <<ownerId, invite, deserted, teamFaults>>

\* ... and the organization's owner_id follows.
UpdateOwner(q) ==
    /\ At(q, "transfer", "owner")
    /\ ownerId' = rpc[q].target
    /\ RpcEnds(q)
    /\ UNCHANGED <<role, invite, deserted, teamFaults>>

LeaveOrganization(q, a) ==
    /\ role[a] # "none"
    /\ Begin(q, [kind |-> "leave", stage |-> IF role[a] = "OWNER" THEN "count" ELSE "write",
                 actor |-> a])
    /\ NothingWritten

LeaveCount(q) ==
    /\ At(q, "leave", "count")
    /\ IF Cardinality(Members) > 1 THEN RpcEnds(q) ELSE RpcAt(q, "write")
    /\ NothingWritten

LeaveDelete(q) ==
    /\ At(q, "leave", "write")
    /\ role' = [role EXCEPT ![rpc[q].actor] = "none"]
    /\ deserted' = (deserted \/ Members = {rpc[q].actor})
    /\ RpcEnds(q)
    /\ UNCHANGED <<ownerId, invite, teamFaults>>

-----------------------------------------------------------------------------
(* InviteService *)

\* Invite: the inviter and whether the address is a member's.
Invite(q, a, e, r) ==
    /\ CanManageMembers(role[a]) /\ role[e] = "none"
    /\ Begin(q, [kind |-> "invite", stage |-> "members", target |-> e, new |-> r])
    /\ NothingWritten

InviteCountMembers(q) ==
    /\ At(q, "invite", "members")
    /\ IF Cardinality(Members) >= UserLimit THEN RpcEnds(q) ELSE RpcAt(q, "pending")
    /\ NothingWritten

\* Mutant: the last one the limit allows is not counted.
PendingLimitMutant == Cardinality(Pending) > MaxPendingInvites

PendingLimit == Cardinality(Pending) >= MaxPendingInvites

InviteCountPending(q) ==
    /\ At(q, "invite", "pending")
    /\ IF PendingLimit THEN RpcEnds(q) ELSE RpcAt(q, "previous")
    /\ NothingWritten

PendingFor(e) == {i \in Pending : invite[i].email = e}

\* FindPendingByOrgEmail.
InviteFindPrevious(q) ==
    LET previous == PendingFor(rpc[q].target)
    IN  /\ At(q, "invite", "previous")
        /\ \/ previous = {} /\ RpcAt(q, "create")
           \/ \E i \in previous :
                rpc' = [rpc EXCEPT ![q] = [kind |-> "invite", stage |-> "replace", id |-> i,
                                           target |-> @.target, new |-> @.new]]
        /\ NothingWritten

\* Whether it is late matters only for a pending invitation.
SetInvite(i, s) == invite' = [invite EXCEPT ![i].status = s, ![i].late = FALSE]

InviteRevokePrevious(q) ==
    /\ At(q, "invite", "replace")
    /\ SetInvite(rpc[q].id, "REVOKED")
    /\ RpcAt(q, "create")
    /\ UNCHANGED <<role, ownerId, deserted, teamFaults>>

\* The INSERT of a row with a new id; another pending invitation of the address
\* makes it fail.
InviteCreate(q, i) ==
    LET c == rpc[q]
    IN  /\ At(q, "invite", "create")
        /\ invite[i].status = "unused" /\ \A j \in 1..i-1 : invite[j].status # "unused"
        /\ invite' = IF PendingFor(c.target) = {}
                     THEN [invite EXCEPT ![i] = [status |-> "PENDING", email |-> c.target,
                                                 role |-> c.new, late |-> FALSE]]
                     ELSE invite
        /\ RpcEnds(q)
        /\ UNCHANGED <<role, ownerId, deserted, teamFaults>>

Revoke(q, a, i) ==
    /\ invite[i].status = "PENDING" /\ CanManageMembers(role[a])
    /\ Begin(q, [kind |-> "revoke", stage |-> "write", id |-> i])
    /\ NothingWritten

RevokeWrite(q) ==
    /\ At(q, "revoke", "write")
    /\ SetInvite(rpc[q].id, "REVOKED")
    /\ RpcEnds(q)
    /\ UNCHANGED <<role, ownerId, deserted, teamFaults>>

\* Accept reads the row by its token and compares the address.
Accept(q, i) ==
    /\ invite[i].status = "PENDING"
    /\ Begin(q, [kind |-> "accept", stage |-> IF invite[i].late THEN "expire" ELSE "write",
                 id |-> i])
    /\ NothingWritten

AcceptExpired(q) ==
    /\ At(q, "accept", "expire")
    /\ SetInvite(rpc[q].id, "EXPIRED")
    /\ RpcEnds(q)
    /\ UNCHANGED <<role, ownerId, deserted, teamFaults>>

AcceptWrite(q) ==
    /\ At(q, "accept", "write")
    /\ SetInvite(rpc[q].id, "ACCEPTED")
    /\ RpcAt(q, "join")
    /\ UNCHANGED <<role, ownerId, deserted, teamFaults>>

\* The INSERT of the membership; a row of the same user makes it fail.
AcceptJoin(q) ==
    LET i == invite[rpc[q].id]
    IN  /\ At(q, "accept", "join")
        /\ role' = IF role[i.email] = "none" THEN [role EXCEPT ![i.email] = i.role] ELSE role
        /\ RpcEnds(q)
        /\ UNCHANGED <<ownerId, invite, deserted, teamFaults>>

\* A write fails: the RPC returns and leaves what it has written before.
RpcFails(q) ==
    /\ rpc[q].stage \in {"write", "promote", "owner", "replace", "create", "expire", "join"}
    /\ WriteFails
    /\ RpcEnds(q)
    /\ UNCHANGED <<role, ownerId, invite, deserted>>

InviteExpires(i) ==
    /\ invite[i].status = "PENDING" /\ ~invite[i].late
    /\ invite' = [invite EXCEPT ![i].late = TRUE]
    /\ UNCHANGED <<role, ownerId, rpc, deserted, teamFaults>>

-----------------------------------------------------------------------------
TeamInit ==
    /\ role = [u \in Users |-> IF u = Founder THEN "OWNER" ELSE "none"]
    /\ ownerId = Founder
    /\ invite = [i \in Invites |-> [status |-> "unused", email |-> Founder,
                                    role |-> "MEMBER", late |-> FALSE]]
    /\ rpc = [q \in TeamRequests |-> NoRpc]
    /\ deserted = FALSE /\ teamFaults = 0

MemberStep(q) ==
    \/ \E k \in {"change", "remove", "transfer"}, a, t \in Users, r \in Assignable :
         ReadActor(q, k, a, t, r)
    \/ ReadTarget(q) \/ ChangeMemberRole(q) \/ RemoveMember(q)
    \/ Demote(q) \/ Promote(q) \/ UpdateOwner(q)
    \/ \E a \in Users : LeaveOrganization(q, a)
    \/ LeaveCount(q) \/ LeaveDelete(q)

InviteStep(q) ==
    \/ \E a, e \in Users, r \in Assignable : Invite(q, a, e, r)
    \/ InviteCountMembers(q) \/ InviteCountPending(q) \/ InviteFindPrevious(q)
    \/ InviteRevokePrevious(q)
    \/ \E i \in Invites : InviteCreate(q, i) \/ Accept(q, i)
    \/ \E a \in Users, i \in Invites : Revoke(q, a, i)
    \/ RevokeWrite(q) \/ AcceptExpired(q) \/ AcceptWrite(q) \/ AcceptJoin(q)

TeamNext ==
    \/ \E q \in TeamRequests : MemberStep(q) \/ InviteStep(q) \/ RpcFails(q)
    \/ \E i \in Invites : InviteExpires(i)

TeamSpec == TeamInit /\ [][TeamNext]_teamVars

-----------------------------------------------------------------------------
(* Properties *)

\* uc_05_02_26: the organization's pending invitations stay within the limit, up
\* to one more for every other RPC served at the same time, whatever Invite,
\* Revoke and Accept calls overlap: the count and the INSERT are two statements,
\* with the search and the revocation of an earlier invitation between them.
PendingBound ==
    Cardinality(Pending) <= MaxPendingInvites + Cardinality(TeamRequests) - 1

Quiet == \A q \in TeamRequests : rpc[q] = NoRpc

\* TransferOwnership "Атомарно: actor становится ADMIN, target становится OWNER,
\* owner_id орг обновляется" (team_service.go:286): between RPCs, and until the last
\* member has left, the organization has one OWNER and owner_id names the same
\* user.
ExactlyOneOwner ==
    Quiet /\ ~deserted =>
        /\ role[ownerId] = "OWNER"
        /\ \A u \in Members \ {ownerId} : role[u] # "OWNER"
=============================================================================
