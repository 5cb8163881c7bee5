------------------------------ MODULE Accounts ------------------------------
(***************************************************************************)
(* Signing in with Google (provision_google_user of crates/db/src/         *)
(* social.rs): a person is matched with a row of users by subject, then by *)
(* address, or gets a new row, joins what they are invited to and, if that *)
(* is nothing, gets a personal organization.  Each statement is a          *)
(* transaction of its own; only the unique indexes on users.email,         *)
(* users.google_sub and organizations.slug hold concurrent sign-ins apart. *)
(* A sign-in that fails anywhere leaves what it wrote, and is tried again. *)
(***************************************************************************)
EXTENDS Integers, FiniteSets

CONSTANTS
    People,         \* Google subjects
    Addresses,
    AddressesOf,    \* [People -> SUBSET Addresses]: what Google asserts, now one, now another
    Folded,         \* [Addresses -> Addresses]: lower()
    LocalParts,
    LocalPartOf,    \* [Addresses -> LocalParts]: letters and digits before the @
    Calls,
    PersonOf,       \* [Calls -> People]: who signs in
    OtherSlugs,     \* slugs no personal organization has
    MaxUsers,       \* model bound on rows of users
    MaxEpoch,       \* model bound on time
    MaxChanges,     \* model bound on failures and on what others do
    Nobody, NoAddress, NoUser

ASSUME AccountsAssumption ==
    /\ AddressesOf \in [People -> SUBSET Addresses]
    /\ Folded \in [Addresses -> Addresses]
    /\ LocalPartOf \in [Addresses -> LocalParts]
    /\ PersonOf \in [Calls -> People]
    /\ MaxUsers \in Nat /\ MaxEpoch \in Nat /\ MaxChanges \in Nat
    /\ Nobody \notin People /\ NoAddress \notin Addresses /\ NoUser \notin 1..MaxUsers

VARIABLES
    user,       \* [Ids -> User]: users
    made,       \* slugs of organizations
    member,     \* [Slugs -> SUBSET Ids]: organization_members
    epoch,      \* the first six hex digits of an id made now: 24 bits of 48 of milliseconds
    call,       \* [Calls -> Call]: sign-ins in progress
    ever,       \* history: [Ids -> SUBSET People], who a row was ever linked to
    personal,   \* history: [Slugs -> Ids \cup {NoUser}], whose personal organization it is
    removed,    \* history: rows that lost a membership
    entered,    \* history: people who got in
    changes     \* failures, and what others did so far

orgs == <<made, member, personal>>
history == <<ever, removed, entered>>
vars == <<user, orgs, epoch, call, history, changes>>

Ids == 1..MaxUsers
Epochs == 0..MaxEpoch
Slugs == (LocalParts \X Epochs) \cup OtherSlugs

User == [email: Addresses \cup {NoAddress}, sub: People \cup {Nobody}, epoch: Epochs]
NoRow == [email |-> NoAddress, sub |-> Nobody, epoch |-> 0]

\* at: no row with the subject ("unknown"), a row of the address to link ("link"), none
\* ("create"), a row that is the person's ("accept"), invitations accepted ("orgs"), in no
\* organization ("homeless"), in the new one ("housed").  saw is history: whose a row to link
\* was when it was found.
Call ==
    [at: {"idle", "unknown", "link", "create", "accept", "orgs", "homeless", "housed"},
     email: Addresses \cup {NoAddress}, row: Ids \cup {NoUser}, saw: People \cup {Nobody}]
Idle == [at |-> "idle", email |-> NoAddress, row |-> NoUser, saw |-> Nobody]

Exists(i) == user[i].email # NoAddress
OrganizationsOf(i) == {s \in made : i \in member[s]}

----------------------------------------------------------------------------
(* Faulty variants of definitions below, each a plausible slip in the code. No     *)
(* specification uses them: they show that the properties can fail.                *)

\* Every known address is refused.
RefusesKnown(i) == TRUE

\* No known address is refused.
RefusesNone(i) == FALSE

\* The suffix is taken from the clock instead of the id.
SlugOfToday(i) == <<LocalPartOf[user[i].email], epoch>>

\* orgs.is_empty() is not asked.
NeedsNone(i) == FALSE

\* email_verified is not asked for.
AssertsUnverified(p, email) == TRUE

\* An insert that may use an address twice.
FreeSubject(email, p) == \A i \in Ids : user[i].sub # p

----------------------------------------------------------------------------
(* Helpers *)

\* WHERE google_sub = $1
IsOf(i, p) == user[i].sub = p

\* WHERE lower(email) = lower($1)
HasAddress(i, email) == Exists(i) /\ Folded[user[i].email] = Folded[email]

\* The address belongs to another Google account.
Refuses(i) == user[i].sub # Nobody

\* The unique indexes, under an INSERT and an UPDATE.
Insertable(email, p) == \A i \in Ids : user[i].email # email /\ user[i].sub # p
Linkable(i, p) == \A j \in Ids : user[j].sub = p => j = i

\* personal_org_slug
PersonalSlug(i) == <<LocalPartOf[user[i].email], user[i].epoch>>

NeedsOrganization(i) == OrganizationsOf(i) = {}

\* organizations and organization_members are inserted in one transaction.
CreateOrgFor(i, s) ==
    /\ s \notin made
    /\ made' = made \cup {s}
    /\ member' = [member EXCEPT ![s] = {i}]

NewRow(i, email, p) ==
    /\ ~Exists(i)
    /\ \A j \in Ids : j < i => Exists(j)
    /\ user' = [user EXCEPT ![i] = [email |-> email, sub |-> p, epoch |-> epoch]]

Change == changes < MaxChanges /\ changes' = changes + 1

\* validate: Google vouches for the subject and for the address.
Asserts(p, email) == email \in AddressesOf[p]

\* The sign-in goes on: with row i to link, or with row i as the person's account.
Goto(c, at) == call' = [call EXCEPT ![c].at = at]
GotoLink(c, i) ==
    call' = [call EXCEPT ![c] = [Idle EXCEPT !.at = "link", !.row = i, !.saw = user[i].sub]]
GotoAccept(c, i) == call' = [call EXCEPT ![c] = [Idle EXCEPT !.at = "accept", !.row = i]]
Return(c) == call' = [call EXCEPT ![c] = Idle]

\* A session is issued.
GetsIn(c) == Return(c) /\ entered' = entered \cup {PersonOf[c]}

----------------------------------------------------------------------------
(* A sign-in *)

FindBySub(c) ==
    /\ call[c].at = "idle"
    /\ \E email \in Addresses :
         /\ Asserts(PersonOf[c], email)
         /\ \/ \E i \in Ids : IsOf(i, PersonOf[c]) /\ GotoAccept(c, i)
            \/ /\ \A i \in Ids : ~IsOf(i, PersonOf[c])
               /\ call' = [call EXCEPT ![c] = [Idle EXCEPT !.at = "unknown", !.email = email]]
    /\ UNCHANGED <<user, orgs, epoch, history, changes>>

\* Of several rows whose addresses differ in case only, any.
FindByEmail(c) ==
    /\ call[c].at = "unknown"
    /\ \/ \E i \in Ids :
            /\ HasAddress(i, call[c].email)
            /\ IF Refuses(i) THEN Return(c) ELSE GotoLink(c, i)
       \/ (\A i \in Ids : ~HasAddress(i, call[c].email)) /\ Goto(c, "create")
    /\ UNCHANGED <<user, orgs, epoch, history, changes>>

\* The UPDATE does not look at google_sub again.
LinkSub(c) ==
    /\ call[c].at = "link"
    /\ Linkable(call[c].row, PersonOf[c])
    /\ user' = [user EXCEPT ![call[c].row].sub = PersonOf[c]]
    /\ ever' = [ever EXCEPT ![call[c].row] = @ \cup {PersonOf[c]}]
    /\ GotoAccept(c, call[c].row)
    /\ UNCHANGED <<orgs, epoch, removed, entered, changes>>

CreateUser(c) ==
    /\ call[c].at = "create"
    /\ Insertable(call[c].email, PersonOf[c])
    /\ \E i \in Ids :
         /\ NewRow(i, call[c].email, PersonOf[c])
         /\ ever' = [ever EXCEPT ![i] = {PersonOf[c]}]
         /\ GotoAccept(c, i)
    /\ UNCHANGED <<orgs, epoch, removed, entered, changes>>

\* accept_invitations_for, in the detail of module Members: one organization after the other
\* that somebody may have invited the address to, each in a transaction of its own ...
AcceptInvitation(c) ==
    /\ call[c].at = "accept"
    /\ \E s \in made :
         /\ call[c].row \notin member[s]
         /\ member' = [member EXCEPT ![s] = @ \cup {call[c].row}]
    /\ UNCHANGED <<user, made, personal, epoch, call, history, changes>>

\* ... until there is none left.
AcceptInvitations(c) ==
    /\ call[c].at = "accept"
    /\ Goto(c, "orgs")
    /\ UNCHANGED <<user, orgs, epoch, history, changes>>

\* list_user_orgs: the sign-in is complete, or there is no organization yet.
ListOrgs(c) ==
    /\ call[c].at = "orgs"
    /\ IF NeedsOrganization(call[c].row)
       THEN Goto(c, "homeless") /\ UNCHANGED entered
       ELSE GetsIn(c)
    /\ UNCHANGED <<user, orgs, epoch, ever, removed, changes>>

CreatePersonalOrg(c) ==
    /\ call[c].at = "homeless"
    /\ CreateOrgFor(call[c].row, PersonalSlug(call[c].row))
    /\ personal' = [personal EXCEPT ![PersonalSlug(call[c].row)] = call[c].row]
    /\ Goto(c, "housed")
    /\ UNCHANGED <<user, epoch, history, changes>>

\* list_user_orgs again, and the session is issued.
Enter(c) ==
    /\ call[c].at = "housed"
    /\ GetsIn(c)
    /\ UNCHANGED <<user, orgs, epoch, ever, removed, changes>>

\* A unique index refuses the statement.
Rejected(c) ==
    /\ \/ call[c].at = "link" /\ ~Linkable(call[c].row, PersonOf[c])
       \/ call[c].at = "create" /\ ~Insertable(call[c].email, PersonOf[c])
       \/ call[c].at = "homeless" /\ PersonalSlug(call[c].row) \in made
    /\ Return(c)
    /\ UNCHANGED <<user, orgs, epoch, history, changes>>

\* The statement fails otherwise: a timeout, a lost connection, the end of the process.
Fail(c) ==
    /\ call[c].at # "idle"
    /\ Return(c)
    /\ Change
    /\ UNCHANGED <<user, orgs, epoch, history>>

----------------------------------------------------------------------------
(* What others do *)

\* bootstrap: upsert of the user by the exact address, and an organization, in one transaction.
Bootstrap(email, s) ==
    /\ \E i \in Ids :
         /\ \/ user[i].email = email /\ UNCHANGED user
            \/ (\A j \in Ids : user[j].email # email) /\ NewRow(i, email, Nobody)
         /\ CreateOrgFor(i, s)
    /\ Change
    /\ UNCHANGED <<personal, epoch, call, history>>

\* create_org, by a user with a session.
CreateOrg(i, s) ==
    /\ OrganizationsOf(i) # {}
    /\ CreateOrgFor(i, s)
    /\ Change
    /\ UNCHANGED <<user, personal, epoch, call, history>>

\* An owner removes the member (module Members), who may be the last one: two owners can remove
\* each other at once.
RemoveMember(i, s) ==
    /\ i \in member[s]
    /\ member' = [member EXCEPT ![s] = @ \ {i}]
    /\ removed' = removed \cup {i}
    /\ Change
    /\ UNCHANGED <<user, made, personal, epoch, call, ever, entered>>

\* Some 4.7 hours pass.
EpochPasses ==
    /\ epoch < MaxEpoch
    /\ epoch' = epoch + 1
    /\ UNCHANGED <<user, orgs, call, history, changes>>

----------------------------------------------------------------------------

Init ==
    /\ user = [i \in Ids |-> NoRow]
    /\ made = {}
    /\ member = [s \in Slugs |-> {}]
    /\ personal = [s \in Slugs |-> NoUser]
    /\ epoch = 0
    /\ call = [c \in Calls |-> Idle]
    /\ ever = [i \in Ids |-> {}]
    /\ removed = {}
    /\ entered = {}
    /\ changes = 0

Progress(c) ==
    \/ FindByEmail(c) \/ LinkSub(c) \/ CreateUser(c)
    \/ AcceptInvitation(c) \/ AcceptInvitations(c)
    \/ ListOrgs(c) \/ CreatePersonalOrg(c) \/ Enter(c)

Next ==
    \/ \E c \in Calls : FindBySub(c) \/ Progress(c) \/ Rejected(c) \/ Fail(c)
    \/ \E email \in Addresses, s \in Slugs : Bootstrap(email, s)
    \/ \E i \in Ids, s \in Slugs : CreateOrg(i, s) \/ RemoveMember(i, s)
    \/ EpochPasses

Spec == Init /\ [][Next]_vars

\* A call does not hang: each statement succeeds or fails at last, and it fails for want of a
\* connection finitely often (Fail is one of the changes that are bounded).  Whoever
\* does not get in tries again, which is the person's part.
Fairness ==
    \A c \in Calls : WF_vars(FindBySub(c) \/ Progress(c) \/ Rejected(c))

FairSpec == Spec /\ Fairness

----------------------------------------------------------------------------
(* Properties *)

\* Everything has its type; rows are made in the order of their ids; only organizations that
\* exist have members; no address is used twice; a sign-in holds a row from the time it has
\* one.
TypeOK ==
    /\ user \in [Ids -> User]
    /\ \A i \in Ids : ~Exists(i) => user[i] = NoRow /\ ever[i] = {}
    /\ \A i, j \in Ids : i < j /\ Exists(j) => Exists(i)
    /\ \A i, j \in Ids : Exists(i) /\ user[i].email = user[j].email => i = j
    /\ made \subseteq Slugs
    /\ member \in [Slugs -> SUBSET {i \in Ids : Exists(i)}]
    /\ \A s \in Slugs : member[s] # {} => s \in made
    /\ personal \in [Slugs -> Ids \cup {NoUser}]
    /\ epoch \in Epochs
    /\ call \in [Calls -> Call]
    /\ \A c \in Calls :
         /\ call[c].at \in {"link", "accept", "orgs", "homeless", "housed"} =>
              call[c].row \in Ids /\ Exists(call[c].row)
         /\ call[c].at \in {"unknown", "create"} => call[c].email \in Addresses
    /\ ever \in [Ids -> SUBSET People]
    /\ removed \subseteq Ids
    /\ entered \subseteq People
    /\ changes \in 0..MaxChanges

\* However many sign-ins of one person run at once, under whatever addresses, with retries after
\* any failure: no account gets two personal organizations, although several sign-ins may have
\* found it without one, hours apart.  The slug is the same each time and can be taken once.
OnePersonalOrganizationEach ==
    \A s, t \in Slugs : personal[s] # NoUser /\ personal[s] = personal[t] => s = t

\* A row is linked, for a while or for good, only to people for whom Google vouched for its
\* address, although the row is found, judged and linked in separate transactions and the link
\* may be replaced between them.
AccountsAreOfOnesAddress ==
    \A i \in Ids : \A p \in ever[i] :
        \E email \in AddressesOf[p] : Folded[user[i].email] = Folded[email]

\* Whoever got in has an account that is in an organization, unless somebody removed it from
\* one since.
EntrantsAreMembers ==
    \A p \in entered : \E i \in Ids :
        p \in ever[i] /\ (i \in removed \/ OrganizationsOf(i) # {})

\* A link to one Google account is replaced by a link to another only by a sign-in that had
\* found the row unlinked, before the first link was made: the two overlapped.  The comment in
\* provision_google_user promises more, to refuse to take over an account that is linked; this
\* says how far the code keeps it.
LinksAreReplacedOnlyInRaces ==
    [][\A i \in Ids : user[i].sub # Nobody /\ user'[i].sub # user[i].sub =>
         \E c \in Calls : call[c].at = "link" /\ call[c].row = i /\ call[c].saw = Nobody]_vars

\* What keeps a person out: the address is linked to another Google account; or the account is
\* in no organization, and nobody invites it, and the slug of its personal one is taken, by
\* somebody of the same local part who came within hours or by the organization the person was
\* removed from.
Blocked(p) ==
    \/ /\ \A i \in Ids : user[i].sub # p
       /\ \E i \in Ids, email \in AddressesOf[p] : HasAddress(i, email) /\ user[i].sub # Nobody
    \/ \E i \in Ids :
         /\ user[i].sub = p
         /\ OrganizationsOf(i) = {}
         /\ <<LocalPartOf[user[i].email], user[i].epoch>> \in made

\* Everybody else who keeps trying gets in, wherever earlier attempts broke off.
EveryoneUnblockedGetsIn ==
    \A p \in People : <>[]~Blocked(p) => <>(p \in entered)
=============================================================================
