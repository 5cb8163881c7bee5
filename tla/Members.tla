------------------------------- MODULE Members -------------------------------
(***************************************************************************)
(* The members of one organization and the invitations that admit them:    *)
(* crates/db/src/social.rs over organization_members and org_invitations.  *)
(*                                                                         *)
(* Roles are read in one statement and written in a later one, with no row *)
(* lock between them (READ COMMITTED), so a change of roles takes a step   *)
(* for each of its reads and one for its write.  The caller's own role is  *)
(* read even earlier, when the request is authenticated, and never again.  *)
(* An invitation is read, the membership is committed, and the invitation  *)
(* is marked accepted in a statement of its own after that commit.         *)
(***************************************************************************)
EXTENDS Integers, FiniteSets

CONSTANTS
    Users,          \* rows of table users
    Changes,        \* requests that manage members and invitations, in flight at once
    SignIns,        \* sign-ins and opened invitation links, in flight at once
    Invitations,    \* rows of table org_invitations
    PlainRoles,     \* the roles that manage nothing: member and viewer
    NoUser

ASSUME MembersAssumption ==
    /\ IsFiniteSet(Users)
    /\ NoUser \notin Users
    /\ PlainRoles \cap {"owner", "admin", "none"} = {}

VARIABLES
    role,           \* [Users -> OrgRole \cup {"none"}]: table organization_members
    invitation,     \* [Invitations -> Invitation]: table org_invitations
    usedBy,         \* [Invitations -> SUBSET Users]: for whom its INSERT was committed (history)
    change,         \* [Changes -> Change]: requests of owners and admins
    accept          \* [SignIns -> Accept]: users entering through invitations

vars == <<role, invitation, usedBy, change, accept>>

OrgRole == {"owner", "admin"} \cup PlainRoles
OptionalRole == OrgRole \cup {"none"}

\* role "none" is a row not yet inserted; closed names the columns accepted_at and
\* revoked_at that are set, and expires_at once it has passed.
Invitation ==
    [role: OptionalRole, email: Users \cup {NoUser},
     closed: SUBSET {"accepted", "revoked", "expired"}]

\* ctx is the caller's role as authentication read it; wanted "none" asks for removal.
Change ==
    [step: {"idle", "authorized", "counting", "writing"}, ctx: OptionalRole,
     target: Users \cup {NoUser}, current: OptionalRole, wanted: OptionalRole, owners: Nat]

\* found: invitations read as live and not yet used; entered: used and not yet marked.
Accept ==
    [user: Users \cup {NoUser}, found: SUBSET Invitations, entered: SUBSET Invitations]

NoInvitation == [role |-> "none", email |-> NoUser, closed |-> {}]
NoChange ==
    [step |-> "idle", ctx |-> "none", target |-> NoUser,
     current |-> "none", wanted |-> "none", owners |-> 0]
NoAccept == [user |-> NoUser, found |-> {}, entered |-> {}]

Owners == {u \in Users : role[u] = "owner"}
Issued(i) == invitation[i].role # "none"

----------------------------------------------------------------------------
(* Faulty variants of definitions below, each a plausible slip in the code. No     *)
(* specification uses them: they show that the properties can fail.                *)

\* assert_not_last_owner with >= 1 for > 1.
EnoughOwnersOffByOne(n) == n >= 1

\* create_invitation without the refusal of the role owner.
AnyRoleInvitable(r) == TRUE

\* update_member_role without its check for the owner role.
ReadAnyTarget(q, target, wanted) ==
    /\ change[q].step = "authorized"
    /\ role[target] \notin {"none", wanted}
    /\ change' = [change EXCEPT
                    ![q].step = IF role[target] = "owner" THEN "counting" ELSE "writing",
                    ![q].target = target,
                    ![q].current = role[target],
                    ![q].wanted = wanted]
    /\ UNCHANGED <<role, invitation, usedBy, accept>>

\* The invitation query without accepted_at IS NULL.
LiveUnlessRevoked(i) ==
    invitation[i].role # "none" /\ invitation[i].closed \cap {"revoked", "expired"} = {}

\* accept_invitation marking the invitation before it inserts the membership.
MarkBeforeAdmitting(s) ==
    \E i \in accept[s].found :
        /\ invitation' = [invitation EXCEPT ![i].closed = @ \cup {"accepted"}]
        /\ accept' = [accept EXCEPT ![s].entered = {i}]
        /\ UNCHANGED <<role, usedBy, change>>

----------------------------------------------------------------------------
(* Helpers of social.rs *)

\* rbac::require_admin.
MayManage(r) == r \in {"owner", "admin"}

\* assert_not_last_owner on the count it read.
EnoughOwners(n) == n > 1

\* create_invitation and the CHECK of org_invitations.role.
Invitable(r) == r \in OrgRole \ {"owner"}

\* accepted_at IS NULL AND revoked_at IS NULL AND expires_at > now().
LiveInvitation(i) == Issued(i) /\ invitation[i].closed = {}

\* INSERT ... ON CONFLICT (org_id, user_id) DO NOTHING.
RoleOnceAdmitted(old, invited) == IF old = "none" THEN invited ELSE old

EndChange(q) == change' = [change EXCEPT ![q] = NoChange]

----------------------------------------------------------------------------
\* create_org_for: its creator is the only member, as owner.
Init ==
    /\ \E founder \in Users :
         role = [u \in Users |-> IF u = founder THEN "owner" ELSE "none"]
    /\ invitation = [i \in Invitations |-> NoInvitation]
    /\ usedBy = [i \in Invitations |-> {}]
    /\ change = [q \in Changes |-> NoChange]
    /\ accept = [s \in SignIns |-> NoAccept]

\* authenticate_session reads the caller's role, authenticate_api_key clamps it to the
\* key's; require_admin judges the request by what they return.
Authenticate(q, caller, ctx) ==
    /\ change[q].step = "idle"
    /\ MayManage(role[caller]) /\ MayManage(ctx)
    /\ ctx = "owner" => role[caller] = "owner"
    /\ change' = [change EXCEPT ![q] = [NoChange EXCEPT !.step = "authorized", !.ctx = ctx]]
    /\ UNCHANGED <<role, invitation, usedBy, accept>>

CreateInvitation(q, i, email, r) ==
    /\ change[q].step = "authorized"
    /\ invitation[i] = NoInvitation
    /\ Invitable(r)
    /\ invitation' = [invitation EXCEPT ![i] = [role |-> r, email |-> email, closed |-> {}]]
    /\ EndChange(q)
    /\ UNCHANGED <<role, usedBy, accept>>

RevokeInvitation(q, i) ==
    /\ change[q].step = "authorized"
    /\ Issued(i)
    /\ invitation[i].closed \cap {"accepted", "revoked"} = {}
    /\ invitation' = [invitation EXCEPT ![i].closed = @ \cup {"revoked"}]
    /\ EndChange(q)
    /\ UNCHANGED <<role, usedBy, accept>>

\* update_member_role and remove_member up to their checks of the target's role: only
\* an owner touches an owner or hands the role out.
ReadTarget(q, target, wanted) ==
    /\ change[q].step = "authorized"
    /\ role[target] \notin {"none", wanted}
    /\ "owner" \in {role[target], wanted} => change[q].ctx = "owner"
    /\ change' = [change EXCEPT
                    ![q].step = IF role[target] = "owner" THEN "counting" ELSE "writing",
                    ![q].target = target,
                    ![q].current = role[target],
                    ![q].wanted = wanted]
    /\ UNCHANGED <<role, invitation, usedBy, accept>>

\* assert_not_last_owner, before an owner is demoted or removed.
CountOwners(q) ==
    /\ change[q].step = "counting"
    /\ EnoughOwners(Cardinality(Owners))
    /\ change' = [change EXCEPT ![q].step = "writing", ![q].owners = Cardinality(Owners)]
    /\ UNCHANGED <<role, invitation, usedBy, accept>>

\* The UPDATE or DELETE, which names only the organization and the user, and the commit.
WriteRole(q) ==
    /\ change[q].step = "writing"
    /\ role' = [role EXCEPT ![change[q].target] = IF @ = "none" THEN @ ELSE change[q].wanted]
    /\ EndChange(q)
    /\ UNCHANGED <<invitation, usedBy, accept>>

\* A refused or failed request: an error return, a rollback, a lost connection.
AbandonChange(q) ==
    /\ change[q].step # "idle"
    /\ EndChange(q)
    /\ UNCHANGED <<role, invitation, usedBy, accept>>

\* accept_invitations_for at sign-in: every live invitation to the user's address.
FindByEmail(s, user) ==
    LET live == {i \in Invitations : LiveInvitation(i) /\ invitation[i].email = user}
    IN  /\ accept[s] = NoAccept
        /\ live # {}
        /\ accept' = [accept EXCEPT ![s] = [user |-> user, found |-> live, entered |-> {}]]
        /\ UNCHANGED <<role, invitation, usedBy, change>>

\* accept_invitation_by_token: whoever holds the link.
FindByToken(s, user, i) ==
    /\ accept[s] = NoAccept
    /\ LiveInvitation(i)
    /\ accept' = [accept EXCEPT ![s] = [user |-> user, found |-> {i}, entered |-> {}]]
    /\ UNCHANGED <<role, invitation, usedBy, change>>

\* The membership row, committed on its own.
Admit(s, i) ==
    LET user == accept[s].user
    IN  /\ i \in accept[s].found
        /\ accept[s].entered = {}
        /\ role' = [role EXCEPT ![user] = RoleOnceAdmitted(@, invitation[i].role)]
        /\ usedBy' = [usedBy EXCEPT ![i] = @ \cup {user}]
        /\ accept' = [accept EXCEPT ![s].found = @ \ {i}, ![s].entered = {i}]
        /\ UNCHANGED <<invitation, change>>

\* UPDATE org_invitations SET accepted_at = now() WHERE id = ...
MarkAccepted(s) ==
    \E i \in accept[s].entered :
        /\ invitation' = [invitation EXCEPT ![i].closed = @ \cup {"accepted"}]
        /\ accept' = [accept EXCEPT ![s].entered = {}]
        /\ UNCHANGED <<role, usedBy, change>>

\* The request is done, or ends early: an error, a crash between its two statements.
EndSignIn(s) ==
    /\ accept[s] # NoAccept
    /\ accept' = [accept EXCEPT ![s] = NoAccept]
    /\ UNCHANGED <<role, invitation, usedBy, change>>

\* expires_at passes, 14 days after the invitation was issued.
Expire(i) ==
    /\ Issued(i)
    /\ "expired" \notin invitation[i].closed
    /\ invitation' = [invitation EXCEPT ![i].closed = @ \cup {"expired"}]
    /\ UNCHANGED <<role, usedBy, change, accept>>

Next ==
    \/ \E q \in Changes :
        \/ \E u \in Users, r \in OrgRole : Authenticate(q, u, r)
        \/ \E i \in Invitations, u \in Users, r \in OrgRole : CreateInvitation(q, i, u, r)
        \/ \E i \in Invitations : RevokeInvitation(q, i)
        \/ \E u \in Users, r \in OptionalRole : ReadTarget(q, u, r)
        \/ CountOwners(q)
        \/ WriteRole(q)
        \/ AbandonChange(q)
    \/ \E s \in SignIns :
        \/ \E u \in Users : FindByEmail(s, u)
        \/ \E u \in Users, i \in Invitations : FindByToken(s, u, i)
        \/ \E i \in Invitations : Admit(s, i)
        \/ MarkAccepted(s)
        \/ EndSignIn(s)
    \/ \E i \in Invitations : Expire(i)

Spec == Init /\ [][Next]_vars

----------------------------------------------------------------------------
(* Properties *)

\* Rows and requests are well formed; in particular no row of org_invitations ever
\* offers the role owner, as its CHECK demands.
TypeOK ==
    /\ role \in [Users -> OptionalRole]
    /\ invitation \in [Invitations -> Invitation]
    /\ \A i \in Invitations : invitation[i].role # "owner"
    /\ usedBy \in [Invitations -> SUBSET Users]
    /\ change \in [Changes -> Change]
    /\ accept \in [SignIns -> Accept]

\* The last owner goes only by a write whose reads were overtaken: a count of owners
\* that is no longer true, or a target who has become an owner since it was read.
OwnersAreLostOnlyToStaleReads ==
    [][\A q \in Changes :
         WriteRole(q) /\ Owners # {} /\ Owners' = {} =>
            \/ Cardinality(Owners) < change[q].owners
            \/ role[change[q].target] # change[q].current]_vars

\* The organization always has an owner, as update_member_role says it must.
OrganizationKeepsAnOwner == Owners # {}

\* Someone who is no member joins with the role of an invitation, which is never owner.
JoinsByInvitation(u) ==
    /\ role[u] = "none"
    /\ role'[u] # "owner"
    /\ \E i \in Invitations : u \in usedBy'[i] /\ role'[u] = invitation[i].role

\* A request of an owner or admin writes the role; one of an owner if it hands out the
\* role owner, or touches whom it has read as an owner.
IsGivenRole(u) ==
    \E q \in Changes :
        /\ change[q].step = "writing"
        /\ change[q].target = u
        /\ role'[u] = change[q].wanted
        /\ MayManage(change[q].ctx)
        /\ "owner" \in {change[q].current, role'[u]} => change[q].ctx = "owner"

\* A role changes in these two ways only, although every check precedes the write by
\* steps of others.  In particular nobody becomes owner by invitation or by an admin,
\* and a member who opens an invitation keeps the role they have.
RoleChangesAreAuthorized ==
    [][\A u \in Users : role'[u] # role[u] => JoinsByInvitation(u) \/ IsGivenRole(u)]_vars

\* An invitation that is accepted, revoked or expired stays so, is not found by anyone
\* any more, and admits nobody but the users who had found it live.  Those it does admit,
\* each of them: two who opened one link at once both join, and it is not "Single-use."
ClosedInvitationsStayClosed ==
    [][\A i \in Invitations :
         invitation[i].closed # {} =>
            /\ invitation[i].closed \subseteq invitation'[i].closed
            /\ \A s \in SignIns : i \in accept'[s].found => i \in accept[s].found
            /\ \A u \in usedBy'[i] \ usedBy[i] :
                 \E s \in SignIns : accept[s].user = u /\ i \in accept[s].found]_vars

\* An invitation is marked accepted only after its INSERT was committed for somebody:
\* wherever an acceptance is interrupted, it is not spent on a user it has left outside.
\* The one it was meant for it may leave outside: a member who opens it uses it up too.
AcceptedInvitationsWereUsed ==
    \A i \in Invitations : "accepted" \in invitation[i].closed => usedBy[i] # {}
=============================================================================
