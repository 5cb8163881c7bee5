--------------------------- MODULE Accounts_proofs ---------------------------
(***************************************************************************)
(* Theorems about Accounts, for any number of people, addresses, sign-ins  *)
(* at once, rows and time that passes.                                     *)
(***************************************************************************)
EXTENDS Accounts, TLAPS

----------------------------------------------------------------------------
(* The inductive invariant *)

\* Whoever a row is linked to is among those it was ever linked to.
LinksAreRemembered == \A i \in Ids : user[i].sub # Nobody => user[i].sub \in ever[i]

\* A personal organization was made, under the slug its user's row gives for all time.
PersonalSlugsAreFixed ==
    \A s \in Slugs : personal[s] # NoUser =>
        s \in made /\ Exists(personal[s]) /\ s = PersonalSlug(personal[s])

\* The account has an organization, or had one.
Settled(i) == i \in removed \/ OrganizationsOf(i) # {}

\* Google vouched to the person for the address, or for one that differs in case.
Vouched(p, email) == \E own \in AddressesOf[p] : Folded[email] = Folded[own]

\* A row to be linked was found unlinked, a sign-in goes on with a row that is or was linked to
\* who signs in, and the row of one that made an organization has one.
CallsAreSettled ==
    \A c \in Calls :
        /\ call[c].at \in {"unknown", "create"} => Vouched(PersonOf[c], call[c].email)
        /\ call[c].at = "link" =>
             call[c].saw = Nobody /\ Vouched(PersonOf[c], user[call[c].row].email)
        /\ call[c].at \in {"accept", "orgs", "homeless", "housed"} =>
             PersonOf[c] \in ever[call[c].row]
        /\ call[c].at = "housed" => Settled(call[c].row)

IInv ==
    /\ TypeOK
    /\ LinksAreRemembered
    /\ AccountsAreOfOnesAddress
    /\ PersonalSlugsAreFixed
    /\ CallsAreSettled
    /\ EntrantsAreMembers

----------------------------------------------------------------------------
(* Shapes of steps *)

\* A row is linked to somebody who has none ...
Links(i, p) ==
    /\ Exists(i)
    /\ Vouched(p, user[i].email)
    /\ user' = [user EXCEPT ![i].sub = p]
    /\ ever' = [ever EXCEPT ![i] = @ \cup {p}]

\* ... or a row is made, with a link ...
Makes(i, email, p) ==
    /\ Insertable(email, p) /\ Vouched(p, email)
    /\ NewRow(i, email, p)
    /\ ever' = [ever EXCEPT ![i] = {p}]

\* ... or without.
MakesUnlinked(i, email) ==
    /\ \A j \in Ids : user[j].email # email
    /\ NewRow(i, email, Nobody)
    /\ UNCHANGED ever

\* What a step does to the rows, and to the organizations.
RowStep ==
    \/ UNCHANGED <<user, ever>>
    \/ \E i \in Ids, p \in People : Links(i, p)
    \/ \E i \in Ids, email \in Addresses, p \in People : Makes(i, email, p)
    \/ \E i \in Ids, email \in Addresses : MakesUnlinked(i, email)

Founds(i, s) ==
    /\ CreateOrgFor(i, s)
    /\ UNCHANGED removed
    /\ \/ UNCHANGED personal
       \/ Exists(i) /\ s = PersonalSlug(i) /\ personal' = [personal EXCEPT ![s] = i]

Joins(i, s) ==
    /\ s \in made
    /\ member' = [member EXCEPT ![s] = @ \cup {i}]
    /\ UNCHANGED <<made, personal, removed>>

OrgStep ==
    \/ UNCHANGED <<orgs, removed>>
    \/ \E i \in Ids, s \in Slugs : Exists(i)' /\ Founds(i, s)
    \/ \E i \in Ids, s \in Slugs : Exists(i) /\ Joins(i, s)
    \/ \E i \in Ids, s \in Slugs : RemoveMember(i, s)

LEMMA RowTyped ==
    ASSUME TypeOK, NEW i \in Ids
    PROVE  /\ user \in [Ids -> User] /\ user[i] \in User
           /\ ever \in [Ids -> SUBSET People] /\ ever[i] \in SUBSET People
           /\ user[i].email \in Addresses \cup {NoAddress} /\ user[i].sub \in People \cup {Nobody}
           /\ user[i].epoch \in Epochs
           /\ Exists(i) => user[i].email \in Addresses /\ PersonalSlug(i) \in Slugs
BY AccountsAssumption DEF TypeOK, User, Exists, PersonalSlug, Slugs

LEMMA CallTyped ==
    ASSUME TypeOK, NEW c \in Calls
    PROVE  /\ call \in [Calls -> Call] /\ call[c] \in Call
           /\ call[c].at \in {"link", "accept", "orgs", "homeless", "housed"} =>
                call[c].row \in Ids /\ Exists(call[c].row)
           /\ call[c].at \in {"unknown", "create"} => call[c].email \in Addresses
           /\ PersonOf[c] \in People
BY AccountsAssumption DEF TypeOK

LEMMA IdleIsTyped ==
    /\ Idle \in Call /\ Idle.at = "idle"
    /\ Idle.email = NoAddress /\ Idle.row = NoUser /\ Idle.saw = Nobody
BY DEF Idle, Call

\* Every step is of these shapes.
LEMMA StepShapes ==
    ASSUME TypeOK, CallsAreSettled, Next
    PROVE  RowStep /\ OrgStep
<1>1. ASSUME NEW c \in Calls, \/ FindBySub(c) \/ FindByEmail(c) \/ AcceptInvitations(c)
                              \/ ListOrgs(c) \/ Enter(c) \/ Rejected(c) \/ Fail(c)
      PROVE  RowStep /\ OrgStep
  BY <1>1 DEF FindBySub, FindByEmail, AcceptInvitations, ListOrgs, Enter, Rejected, Fail, RowStep,
              OrgStep, history, orgs
<1>2. ASSUME NEW c \in Calls, LinkSub(c) PROVE RowStep /\ OrgStep
  <2>1. call[c].row \in Ids /\ PersonOf[c] \in People /\ Links(call[c].row, PersonOf[c])
    BY <1>2, CallTyped DEF LinkSub, Links, CallsAreSettled
  <2>2. UNCHANGED <<orgs, removed>>
    BY <1>2 DEF LinkSub
  <2> QED
    BY <2>1, <2>2 DEF RowStep, OrgStep
<1>3. ASSUME NEW c \in Calls, CreateUser(c) PROVE RowStep /\ OrgStep
  <2>1. PersonOf[c] \in People /\ call[c].email \in Addresses
    BY <1>3, CallTyped DEF CreateUser
  <2>2. \E i \in Ids : Makes(i, call[c].email, PersonOf[c])
    BY <1>3 DEF CreateUser, Makes, CallsAreSettled
  <2>3. UNCHANGED <<orgs, removed>>
    BY <1>3 DEF CreateUser
  <2> QED
    BY <2>1, <2>2, <2>3 DEF RowStep, OrgStep
<1>4. ASSUME NEW c \in Calls, AcceptInvitation(c) PROVE RowStep /\ OrgStep
  <2>1. UNCHANGED <<user, made, personal, history>> /\ call[c].at = "accept"
    BY <1>4 DEF AcceptInvitation
  <2>2. call[c].row \in Ids /\ Exists(call[c].row)
    BY <2>1, CallTyped
  <2>3. \E s \in made : member' = [member EXCEPT ![s] = @ \cup {call[c].row}]
    BY <1>4 DEF AcceptInvitation
  <2>4. made \subseteq Slugs
    BY DEF TypeOK
  <2> QED
    BY <2>1, <2>2, <2>3, <2>4 DEF RowStep, OrgStep, Joins, orgs, history
<1>5. ASSUME NEW c \in Calls, CreatePersonalOrg(c) PROVE RowStep /\ OrgStep
  <2>1. UNCHANGED <<user, history>> /\ call[c].at = "homeless"
    BY <1>5 DEF CreatePersonalOrg
  <2>2. call[c].row \in Ids /\ Exists(call[c].row)
    BY <2>1, CallTyped
  <2>3. PersonalSlug(call[c].row) \in Slugs
    BY <2>2, RowTyped
  <2>4. PICK i \in Ids : i = call[c].row
    BY <2>2
  <2>5. Founds(i, PersonalSlug(i))
    BY <1>5, <2>2, <2>4 DEF CreatePersonalOrg, Founds, history
  <2>6. Exists(i)'
    BY <2>1, <2>2, <2>4 DEF Exists
  <2> QED
    BY <2>1, <2>3, <2>4, <2>5, <2>6 DEF RowStep, OrgStep, history
<1>6. ASSUME NEW email \in Addresses, NEW s \in Slugs, Bootstrap(email, s)
      PROVE  RowStep /\ OrgStep
  <2>1. PICK i \in Ids :
          /\ \/ user[i].email = email /\ UNCHANGED user
             \/ (\A j \in Ids : user[j].email # email) /\ NewRow(i, email, Nobody)
          /\ CreateOrgFor(i, s)
    BY <1>6 DEF Bootstrap
  <2>2. UNCHANGED <<personal, history>>
    BY <1>6 DEF Bootstrap
  <2>3. RowStep
    BY <2>1, <2>2 DEF RowStep, MakesUnlinked, history
  <2>4. user'[i].email = email
    BY <2>1, RowTyped DEF NewRow
  <2>5. Exists(i)' /\ Founds(i, s)
    BY <2>1, <2>2, <2>4, AccountsAssumption DEF Exists, Founds, history
  <2> QED
    BY <2>3, <2>5 DEF OrgStep
<1>7. ASSUME NEW i \in Ids, NEW s \in Slugs, CreateOrg(i, s) PROVE RowStep /\ OrgStep
  <2>1. UNCHANGED <<user, personal, history>> /\ CreateOrgFor(i, s) /\ OrganizationsOf(i) # {}
    BY <1>7 DEF CreateOrg
  <2>2. Exists(i)
    BY <2>1 DEF OrganizationsOf, TypeOK
  <2> QED
    BY <2>1, <2>2 DEF RowStep, OrgStep, Founds, Exists, history
<1>8. ASSUME NEW i \in Ids, NEW s \in Slugs, RemoveMember(i, s) PROVE RowStep /\ OrgStep
  BY <1>8 DEF RowStep, OrgStep, RemoveMember
<1>9. ASSUME EpochPasses PROVE RowStep /\ OrgStep
  BY <1>9 DEF EpochPasses, RowStep, OrgStep, history
<1> QED
  BY <1>1, <1>2, <1>3, <1>4, <1>5, <1>6, <1>7, <1>8, <1>9 DEF Next, Progress

----------------------------------------------------------------------------
(* Rows *)

RowStays(i) ==
    /\ Exists(i)'
    /\ user'[i].email = user[i].email
    /\ PersonalSlug(i)' = PersonalSlug(i)

\* Rows are never given up, keep their address and what their slug is made of, and remember whom
\* they were linked to.
LEMMA RowsPreserved ==
    ASSUME TypeOK, LinksAreRemembered, AccountsAreOfOnesAddress, RowStep, epoch \in Epochs
    PROVE  /\ user' \in [Ids -> User]
           /\ ever' \in [Ids -> SUBSET People]
           /\ \A i \in Ids : ~Exists(i)' => user'[i] = NoRow /\ ever'[i] = {}
           /\ \A i, j \in Ids : i < j /\ Exists(j)' => Exists(i)'
           /\ \A i, j \in Ids : Exists(i)' /\ user'[i].email = user'[j].email => i = j
           /\ AccountsAreOfOnesAddress'
           /\ LinksAreRemembered'
           /\ \A i \in Ids : ever[i] \subseteq ever'[i]
           /\ \A i \in Ids : Exists(i) => RowStays(i)
<1> USE AccountsAssumption
<1>0. /\ user \in [Ids -> User] /\ ever \in [Ids -> SUBSET People]
      /\ \A i \in Ids : user[i] \in User
      /\ \A i \in Ids : ~Exists(i) => user[i] = NoRow /\ ever[i] = {}
      /\ \A i, j \in Ids : i < j /\ Exists(j) => Exists(i)
      /\ \A i, j \in Ids : Exists(i) /\ user[i].email = user[j].email => i = j
      /\ \A i \in Ids : user[i].sub # Nobody => user[i].sub \in ever[i]
      /\ \A i \in Ids : \A p \in ever[i] : Vouched(p, user[i].email)
  BY DEF TypeOK, AccountsAreOfOnesAddress, Vouched, LinksAreRemembered
<1>1. CASE UNCHANGED <<user, ever>>
  BY <1>0, <1>1 DEF Exists, AccountsAreOfOnesAddress, LinksAreRemembered, PersonalSlug, RowStays, Vouched
<1>2. ASSUME NEW k \in Ids, NEW p \in People, Links(k, p)
      PROVE  /\ user' \in [Ids -> User]
             /\ ever' \in [Ids -> SUBSET People]
             /\ \A i \in Ids : ~Exists(i)' => user'[i] = NoRow /\ ever'[i] = {}
             /\ \A i, j \in Ids : i < j /\ Exists(j)' => Exists(i)'
             /\ \A i, j \in Ids : Exists(i)' /\ user'[i].email = user'[j].email => i = j
             /\ AccountsAreOfOnesAddress'
             /\ LinksAreRemembered'
             /\ \A i \in Ids : ever[i] \subseteq ever'[i]
             /\ \A i \in Ids : Exists(i) => RowStays(i)
  <2>1. \A i \in Ids : /\ user'[i].email = user[i].email /\ user'[i].epoch = user[i].epoch
                       /\ user'[i].sub = IF i = k THEN p ELSE user[i].sub
                       /\ i # k => user'[i] = user[i] /\ ever'[i] = ever[i]
                       /\ ever'[i] = IF i = k THEN ever[i] \cup {p} ELSE ever[i]
    BY <1>0, <1>2 DEF Links, User
  <2>2. user' \in [Ids -> User] /\ ever' \in [Ids -> SUBSET People]
    BY <1>0, <1>2 DEF Links, User
  <2>3. \A i \in Ids : Exists(i)' <=> Exists(i)
    BY <2>1 DEF Exists
  <2>4. Exists(k) /\ Vouched(p, user[k].email)
    BY <1>2 DEF Links
  <2>5. AccountsAreOfOnesAddress'
    <3>1. ASSUME NEW i \in Ids, NEW r \in ever'[i] PROVE Vouched(r, user'[i].email)
      <4>1. CASE i = k
        <5>1. r \in ever[k] \/ r = p
          <6>1. ever'[k] = ever[k] \cup {p}
            BY <1>0, <1>2 DEF Links
          <6>2. r \in ever'[k]
            BY <4>1
          <6> QED
            BY <6>1, <6>2
        <5>2. user'[i].email = user[k].email
          BY <2>1, <4>1
        <5>3. Vouched(r, user[k].email)
          BY <1>0, <2>4, <5>1
        <5> QED
          BY <5>2, <5>3 DEF Vouched
      <4>2. CASE i # k
        BY <1>0, <2>1, <3>1, <4>2
      <4> QED
        BY <4>1, <4>2
    <3> QED
      BY <3>1 DEF AccountsAreOfOnesAddress, Vouched
  <2>6. LinksAreRemembered'
    BY <1>0, <2>1 DEF LinksAreRemembered
  <2>7. \A i \in Ids : Exists(i) => RowStays(i)
    BY <2>1, <2>3 DEF PersonalSlug, RowStays
  <2> QED
    BY <1>0, <2>1, <2>2, <2>3, <2>4, <2>5, <2>6, <2>7
<1>3. ASSUME NEW k \in Ids, NEW email \in Addresses, NEW p \in People \cup {Nobody},
             NEW was \in SUBSET People,
             \A j \in Ids : user[j].email # email,
             p # Nobody => p \in was,
             \A r \in was : Vouched(r, email),
             NewRow(k, email, p), ever' = [ever EXCEPT ![k] = was]
      PROVE  /\ user' \in [Ids -> User]
             /\ ever' \in [Ids -> SUBSET People]
             /\ \A i \in Ids : ~Exists(i)' => user'[i] = NoRow /\ ever'[i] = {}
             /\ \A i, j \in Ids : i < j /\ Exists(j)' => Exists(i)'
             /\ \A i, j \in Ids : Exists(i)' /\ user'[i].email = user'[j].email => i = j
             /\ AccountsAreOfOnesAddress'
             /\ LinksAreRemembered'
             /\ \A i \in Ids : ever[i] \subseteq ever'[i]
             /\ \A i \in Ids : Exists(i) => RowStays(i)
  <2>1. /\ user'[k] = [email |-> email, sub |-> p, epoch |-> epoch] /\ ever'[k] = was
        /\ \A i \in Ids \ {k} : user'[i] = user[i] /\ ever'[i] = ever[i]
        /\ ~Exists(k) /\ \A j \in Ids : j < k => Exists(j)
    BY <1>0, <1>3 DEF NewRow
  <2>2. user' \in [Ids -> User] /\ ever' \in [Ids -> SUBSET People]
    BY <1>0, <1>3 DEF NewRow, User
  <2>3. user'[k].email = email /\ user'[k].sub = p
    BY <2>1
  <2>4. Exists(k)' /\ \A i \in Ids \ {k} : Exists(i)' <=> Exists(i)
    BY <2>1, <2>3 DEF Exists
  <2>5. \A i, j \in Ids : Exists(i)' /\ user'[i].email = user'[j].email => i = j
    BY <1>0, <1>3, <2>1, <2>3, <2>4
  <2>6. AccountsAreOfOnesAddress'
    <3>1. ASSUME NEW i \in Ids, NEW r \in ever'[i] PROVE Vouched(r, user'[i].email)
      BY <1>0, <1>3, <2>1, <2>3, <3>1
    <3> QED
      BY <3>1 DEF AccountsAreOfOnesAddress, Vouched
  <2>7. LinksAreRemembered'
    BY <1>0, <1>3, <2>1, <2>3 DEF LinksAreRemembered
  <2>8. \A i \in Ids : ever[i] \subseteq ever'[i]
    BY <1>0, <2>1
  <2>9. \A i, j \in Ids : i < j /\ Exists(j)' => Exists(i)'
    BY <1>0, <2>1, <2>4
  <2>10. \A i \in Ids : Exists(i) => RowStays(i)
    BY <2>1, <2>4 DEF PersonalSlug, RowStays
  <2> QED
    BY <1>0, <2>1, <2>2, <2>4, <2>5, <2>6, <2>7, <2>8, <2>9, <2>10
<1>4. ASSUME NEW k \in Ids, NEW email \in Addresses, NEW p \in People, Makes(k, email, p)
      PROVE  /\ user' \in [Ids -> User]
             /\ ever' \in [Ids -> SUBSET People]
             /\ \A i \in Ids : ~Exists(i)' => user'[i] = NoRow /\ ever'[i] = {}
             /\ \A i, j \in Ids : i < j /\ Exists(j)' => Exists(i)'
             /\ \A i, j \in Ids : Exists(i)' /\ user'[i].email = user'[j].email => i = j
             /\ AccountsAreOfOnesAddress'
             /\ LinksAreRemembered'
             /\ \A i \in Ids : ever[i] \subseteq ever'[i]
             /\ \A i \in Ids : Exists(i) => RowStays(i)
  <2>1. /\ \A j \in Ids : user[j].email # email
        /\ \A r \in {p} : Vouched(r, email)
        /\ NewRow(k, email, p) /\ ever' = [ever EXCEPT ![k] = {p}]
    BY <1>4 DEF Makes, Insertable
  <2>2. {p} \in SUBSET People /\ p \in People \cup {Nobody} /\ p \in {p}
    OBVIOUS
  <2> QED
    BY <1>3, <2>1, <2>2
<1>5. ASSUME NEW k \in Ids, NEW email \in Addresses, MakesUnlinked(k, email)
      PROVE  /\ user' \in [Ids -> User]
             /\ ever' \in [Ids -> SUBSET People]
             /\ \A i \in Ids : ~Exists(i)' => user'[i] = NoRow /\ ever'[i] = {}
             /\ \A i, j \in Ids : i < j /\ Exists(j)' => Exists(i)'
             /\ \A i, j \in Ids : Exists(i)' /\ user'[i].email = user'[j].email => i = j
             /\ AccountsAreOfOnesAddress'
             /\ LinksAreRemembered'
             /\ \A i \in Ids : ever[i] \subseteq ever'[i]
             /\ \A i \in Ids : Exists(i) => RowStays(i)
  <2>1. /\ \A j \in Ids : user[j].email # email
        /\ NewRow(k, email, Nobody) /\ ever' = [ever EXCEPT ![k] = {}]
    BY <1>0, <1>5 DEF MakesUnlinked, NewRow
  <2>2. {} \in SUBSET People /\ Nobody \in People \cup {Nobody}
    OBVIOUS
  <2> QED
    BY <1>3, <2>1, <2>2
<1> QED
  BY <1>1, <1>2, <1>3, <1>4, <1>5 DEF RowStep

----------------------------------------------------------------------------
(* Organizations *)

\* Organizations stay, and a personal one stays whose it is; an account that has
\* or had one goes on so.
LEMMA OrgsPreserved ==
    ASSUME TypeOK, PersonalSlugsAreFixed, OrgStep,
           \A i \in Ids : Exists(i) => RowStays(i)
    PROVE  /\ made' \subseteq Slugs
           /\ member' \in [Slugs -> SUBSET {i \in Ids : Exists(i)'}]
           /\ \A s \in Slugs : member'[s] # {} => s \in made'
           /\ personal' \in [Slugs -> Ids \cup {NoUser}]
           /\ removed' \subseteq Ids
           /\ PersonalSlugsAreFixed'
           /\ \A i \in Ids : Settled(i) => Settled(i)'
<1> USE AccountsAssumption
<1>0. /\ made \subseteq Slugs /\ removed \subseteq Ids
      /\ member \in [Slugs -> SUBSET {i \in Ids : Exists(i)}]
      /\ \A s \in Slugs : member[s] # {} => s \in made
      /\ personal \in [Slugs -> Ids \cup {NoUser}]
      /\ \A s \in Slugs : personal[s] # NoUser =>
           s \in made /\ Exists(personal[s]) /\ s = PersonalSlug(personal[s])
      /\ NoUser \notin Ids
  BY DEF TypeOK, PersonalSlugsAreFixed, Ids
<1>7. \A i \in Ids : Exists(i) => Exists(i)'
  BY DEF RowStays
<1> DEFINE Rows == {i \in Ids : Exists(i)'}
<1>1. member \in [Slugs -> SUBSET Rows]
  <2>1. {i \in Ids : Exists(i)} \subseteq Rows
    BY <1>7
  <2> QED
    BY <1>0, <2>1
<1>2. ASSUME made \subseteq made', UNCHANGED personal PROVE PersonalSlugsAreFixed'
  BY <1>0, <1>2 DEF PersonalSlugsAreFixed, RowStays
<1>3. CASE UNCHANGED <<orgs, removed>>
  <2>1. UNCHANGED <<made, member, personal, removed>>
    BY <1>3 DEF orgs
  <2> QED
    BY <1>0, <1>1, <1>2, <2>1 DEF Settled, OrganizationsOf
<1>4. ASSUME NEW i \in Ids, NEW s \in Slugs, Exists(i)', Founds(i, s)
      PROVE  /\ made' \subseteq Slugs
             /\ member' \in [Slugs -> SUBSET Rows]
             /\ \A t \in Slugs : member'[t] # {} => t \in made'
             /\ personal' \in [Slugs -> Ids \cup {NoUser}]
             /\ removed' \subseteq Ids
             /\ PersonalSlugsAreFixed'
             /\ \A j \in Ids : Settled(j) => Settled(j)'
  <2>1. /\ s \notin made /\ made' = made \cup {s} /\ member' = [member EXCEPT ![s] = {i}]
        /\ UNCHANGED removed
        /\ \/ UNCHANGED personal
           \/ Exists(i) /\ s = PersonalSlug(i) /\ personal' = [personal EXCEPT ![s] = i]
    BY <1>4 DEF Founds, CreateOrgFor
  <2>2. i \in Rows
    BY <1>4
  <2> HIDE DEF Rows
  <2>3. member' \in [Slugs -> SUBSET Rows]
    BY <1>1, <2>1, <2>2
  <2>4. \A t \in Slugs : member'[t] # {} => t \in made'
    BY <1>0, <2>1
  <2>5. \A j \in Ids : Settled(j) => Settled(j)'
    BY <1>0, <2>1 DEF Settled, OrganizationsOf
  <2>6. ASSUME Exists(i), s = PersonalSlug(i), personal' = [personal EXCEPT ![s] = i]
        PROVE  personal' \in [Slugs -> Ids \cup {NoUser}] /\ PersonalSlugsAreFixed'
    <3>1. ASSUME NEW t \in Slugs, NEW j \in Ids, personal'[t] = j
          PROVE  t \in made' /\ Exists(j)' /\ t = PersonalSlug(j)'
      <4>1. CASE t = s
        <5>1. j = i
          BY <1>0, <2>6, <3>1, <4>1
        <5>2. PersonalSlug(i)' = s
          BY <2>6 DEF RowStays
        <5> QED
          BY <1>4, <2>1, <4>1, <5>1, <5>2
      <4>2. CASE t # s
        <5>1. personal[t] = j /\ j # NoUser
          BY <1>0, <2>6, <3>1, <4>2
        <5>2. t \in made /\ Exists(j) /\ t = PersonalSlug(j)
          BY <1>0, <5>1
        <5>3. Exists(j)' /\ PersonalSlug(j)' = PersonalSlug(j)
          BY <5>2 DEF RowStays
        <5> QED
          BY <2>1, <5>2, <5>3
      <4> QED
        BY <4>1, <4>2
    <3>2. personal' \in [Slugs -> Ids \cup {NoUser}]
      BY <1>0, <2>6
    <3>3. \A t \in Slugs : personal'[t] # NoUser => personal'[t] \in Ids
      BY <3>2
    <3> QED
      BY <3>1, <3>2, <3>3 DEF PersonalSlugsAreFixed, Exists, PersonalSlug
  <2> QED
    BY <1>0, <1>2, <2>1, <2>3, <2>4, <2>5, <2>6
<1>5. ASSUME NEW i \in Ids, NEW s \in Slugs, Exists(i), Joins(i, s)
      PROVE  /\ made' \subseteq Slugs
             /\ member' \in [Slugs -> SUBSET Rows]
             /\ \A t \in Slugs : member'[t] # {} => t \in made'
             /\ personal' \in [Slugs -> Ids \cup {NoUser}]
             /\ removed' \subseteq Ids
             /\ PersonalSlugsAreFixed'
             /\ \A j \in Ids : Settled(j) => Settled(j)'
  <2>1. s \in made /\ member' = [member EXCEPT ![s] = @ \cup {i}] /\ UNCHANGED <<made, personal, removed>>
    BY <1>5 DEF Joins
  <2>2. i \in Rows
    BY <1>5, <1>7
  <2> HIDE DEF Rows
  <2>3. member' \in [Slugs -> SUBSET Rows]
    BY <1>1, <2>1, <2>2
  <2>4. \A t \in Slugs : member'[t] # {} => t \in made'
    BY <1>0, <2>1
  <2>5. \A j \in Ids : Settled(j) => Settled(j)'
    BY <1>0, <2>1 DEF Settled, OrganizationsOf
  <2> QED
    BY <1>0, <1>2, <2>1, <2>3, <2>4, <2>5
<1>6. ASSUME NEW i \in Ids, NEW s \in Slugs, RemoveMember(i, s)
      PROVE  /\ made' \subseteq Slugs
             /\ member' \in [Slugs -> SUBSET Rows]
             /\ \A t \in Slugs : member'[t] # {} => t \in made'
             /\ personal' \in [Slugs -> Ids \cup {NoUser}]
             /\ removed' \subseteq Ids
             /\ PersonalSlugsAreFixed'
             /\ \A j \in Ids : Settled(j) => Settled(j)'
  <2>1. /\ i \in member[s] /\ member' = [member EXCEPT ![s] = @ \ {i}]
        /\ removed' = removed \cup {i} /\ UNCHANGED <<made, personal>>
    BY <1>6 DEF RemoveMember
  <2> HIDE DEF Rows
  <2>2. member' \in [Slugs -> SUBSET Rows]
    BY <1>1, <2>1
  <2>3. \A t \in Slugs : member'[t] # {} => t \in made'
    BY <1>0, <2>1
  <2>4. \A j \in Ids : Settled(j) => Settled(j)'
    BY <1>0, <2>1 DEF Settled, OrganizationsOf
  <2> QED
    BY <1>0, <1>2, <2>1, <2>2, <2>3, <2>4
<1> QED
  BY <1>3, <1>4, <1>5, <1>6 DEF OrgStep

----------------------------------------------------------------------------
(* Sign-ins *)

\* How far a sign-in has got.
Good(c) ==
    /\ call[c] \in Call
    /\ call[c].at \in {"link", "accept", "orgs", "homeless", "housed"} =>
         call[c].row \in Ids /\ Exists(call[c].row)
    /\ call[c].at \in {"unknown", "create"} => call[c].email \in Addresses
    /\ call[c].at \in {"unknown", "create"} => Vouched(PersonOf[c], call[c].email)
    /\ call[c].at \in {"accept", "orgs", "homeless", "housed"} => PersonOf[c] \in ever[call[c].row]
    /\ call[c].at = "link" =>
         call[c].saw = Nobody /\ Vouched(PersonOf[c], user[call[c].row].email)
    /\ call[c].at = "housed" => Settled(call[c].row)

LEMMA GoodCalls == IInv => call \in [Calls -> Call] /\ \A c \in Calls : Good(c)
BY DEF IInv, TypeOK, CallsAreSettled, Good

\* A sign-in that has not found its row, or has it.
LEMMA IdleIsGood ==
    ASSUME NEW c \in Calls, call'[c] = Idle
    PROVE  Good(c)'
BY IdleIsTyped DEF Good

LEMMA GoodWithRow ==
    ASSUME NEW c \in Calls, NEW i \in Ids, Exists(i)', call'[c] \in Call,
           call'[c].row = i, call'[c].at \in {"link", "accept", "orgs", "homeless", "housed"},
           call'[c].at = "link" => call'[c].saw = Nobody /\ Vouched(PersonOf[c], user'[i].email),
           call'[c].at # "link" => PersonOf[c] \in ever'[i],
           call'[c].at = "housed" => Settled(i)'
    PROVE  Good(c)'
BY DEF Good, Exists, Settled, OrganizationsOf

\* Rows, histories and organizations go on, for the sign-ins that hold them.
Onward ==
    /\ \A i \in Ids : ever[i] \subseteq ever'[i]
    /\ \A i \in Ids : Exists(i) => Exists(i)' /\ user'[i].email = user[i].email
    /\ \A i \in Ids : Settled(i) => Settled(i)'

LEMMA OthersAreGood ==
    ASSUME NEW c \in Calls, Good(c), Onward, call'[c] = call[c]
    PROVE  Good(c)'
<1>1. CASE call[c].at \in {"link", "accept", "orgs", "homeless", "housed"}
  <2>1. PICK i \in Ids : i = call[c].row
    BY <1>1 DEF Good
  <2>2. /\ Exists(i)' /\ user'[i].email = user[i].email
        /\ (Settled(i) => Settled(i)') /\ ever[i] \subseteq ever'[i]
    BY <1>1, <2>1 DEF Good, Onward
  <2> QED
    BY <1>1, <2>1, <2>2, GoodWithRow DEF Good
<1>2. CASE call[c].at \notin {"link", "accept", "orgs", "homeless", "housed"}
  BY <1>2 DEF Good
<1> QED
  BY <1>1, <1>2

LEMMA FindBySubKeepsGood ==
    ASSUME IInv, Onward, NEW c \in Calls, FindBySub(c)
    PROVE  Good(c)' /\ \A d \in Calls \ {c} : call'[d] = call[d]
<1>0. call \in [Calls -> Call] /\ LinksAreRemembered /\ TypeOK
  BY GoodCalls DEF IInv
<1>1. ASSUME NEW i \in Ids, IsOf(i, PersonOf[c]), GotoAccept(c, i)
      PROVE  Good(c)' /\ \A d \in Calls \ {c} : call'[d] = call[d]
  <2>1. user[i].sub = PersonOf[c] /\ PersonOf[c] \in People
    BY <1>0, <1>1, CallTyped DEF IsOf
  <2>2. PersonOf[c] # Nobody
    BY <2>1, AccountsAssumption
  <2>3. Exists(i)
    BY <1>0, <2>1, <2>2 DEF TypeOK, NoRow
  <2>4. PersonOf[c] \in ever[i]
    BY <1>0, <2>1, <2>2 DEF LinksAreRemembered
  <2>5. /\ call'[c] \in Call /\ call'[c].at = "accept" /\ call'[c].row = i
        /\ \A d \in Calls \ {c} : call'[d] = call[d]
    BY <1>0, <1>1, IdleIsTyped DEF GotoAccept, Call
  <2> QED
    BY <2>3, <2>4, <2>5, GoodWithRow DEF Onward
<1>2. ASSUME NEW email \in Addresses, Asserts(PersonOf[c], email),
             call' = [call EXCEPT ![c] = [Idle EXCEPT !.at = "unknown", !.email = email]]
      PROVE  Good(c)' /\ \A d \in Calls \ {c} : call'[d] = call[d]
  <2>1. /\ call'[c] \in Call /\ call'[c].at = "unknown" /\ call'[c].email = email
        /\ \A d \in Calls \ {c} : call'[d] = call[d]
    BY <1>0, <1>2, IdleIsTyped DEF Call
  <2>2. Vouched(PersonOf[c], email)
    BY <1>2 DEF Asserts, Vouched
  <2> QED
    BY <2>1, <2>2 DEF Good
<1> QED
  BY <1>1, <1>2 DEF FindBySub

LEMMA FindByEmailKeepsGood ==
    ASSUME IInv, Onward, NEW c \in Calls, FindByEmail(c)
    PROVE  Good(c)' /\ \A d \in Calls \ {c} : call'[d] = call[d]
<1>0. call \in [Calls -> Call] /\ Good(c)
  BY GoodCalls
<1>1. CASE Return(c)
  <2>1. call'[c] = Idle /\ \A d \in Calls \ {c} : call'[d] = call[d]
    BY <1>0, <1>1 DEF Return
  <2> QED
    BY <2>1, IdleIsGood
<1>2. ASSUME NEW i \in Ids, HasAddress(i, call[c].email), ~Refuses(i), GotoLink(c, i),
             call[c].at = "unknown"
      PROVE  Good(c)' /\ \A d \in Calls \ {c} : call'[d] = call[d]
  <2>1. /\ call'[c] \in Call /\ call'[c].at = "link" /\ call'[c].row = i
        /\ call'[c].saw = Nobody
        /\ \A d \in Calls \ {c} : call'[d] = call[d]
    BY <1>0, <1>2, IdleIsTyped DEF GotoLink, Call, Refuses
  <2>2. Exists(i)' /\ user'[i].email = user[i].email
    BY <1>2 DEF HasAddress, Onward
  <2>3. Vouched(PersonOf[c], user[i].email)
    BY <1>0, <1>2 DEF Good, Vouched, HasAddress
  <2> QED
    BY <2>1, <2>2, <2>3, GoodWithRow
<1>3. ASSUME call[c].at = "unknown", Goto(c, "create")
      PROVE  Good(c)' /\ \A d \in Calls \ {c} : call'[d] = call[d]
  <2>1. /\ call'[c] \in Call /\ call'[c].at = "create" /\ call'[c].email = call[c].email
        /\ \A d \in Calls \ {c} : call'[d] = call[d]
    BY <1>0, <1>3 DEF Goto, Call
  <2>2. call[c].email \in Addresses /\ Vouched(PersonOf[c], call[c].email)
    BY <1>0, <1>3 DEF Good
  <2> QED
    BY <2>1, <2>2 DEF Good
<1> QED
  BY <1>1, <1>2, <1>3 DEF FindByEmail

\* A sign-in that goes on with the row it holds.
LEMMA GotoKeepsGood ==
    ASSUME IInv, Onward, NEW c \in Calls, Goto(c, call'[c].at),
           call[c].at \in {"accept", "orgs", "homeless"},
           call'[c].at \in {"accept", "orgs", "homeless", "housed"},
           call'[c].at = "housed" => call[c].row \in {i \in Ids : Settled(i)'}
    PROVE  Good(c)' /\ \A d \in Calls \ {c} : call'[d] = call[d]
<1>0. call \in [Calls -> Call] /\ Good(c)
  BY GoodCalls
<1>1. PICK i \in Ids : i = call[c].row
  BY <1>0 DEF Good
<1>2. /\ call'[c] \in Call /\ call'[c].row = i
      /\ \A d \in Calls \ {c} : call'[d] = call[d]
  BY <1>0, <1>1 DEF Goto, Call
<1>3. Exists(i)' /\ PersonOf[c] \in ever'[i]
  BY <1>0, <1>1 DEF Good, Onward
<1>4. call'[c].at = "housed" => Settled(i)'
  BY <1>1
<1> QED
  BY <1>2, <1>3, <1>4, GoodWithRow

LEMMA LinkSubKeepsGood ==
    ASSUME IInv, Onward, NEW c \in Calls, LinkSub(c)
    PROVE  Good(c)' /\ \A d \in Calls \ {c} : call'[d] = call[d]
<1>0. call \in [Calls -> Call] /\ Good(c) /\ ever \in [Ids -> SUBSET People]
  BY GoodCalls DEF IInv, TypeOK
<1>1. PICK i \in Ids : i = call[c].row /\ Exists(i)
  BY <1>0 DEF LinkSub, Good
<1>2. PersonOf[c] \in ever'[i] /\ Exists(i)'
  BY <1>0, <1>1 DEF LinkSub, Onward
<1>3. GotoAccept(c, i)
  BY <1>1 DEF LinkSub
<1>4. /\ call'[c] \in Call /\ call'[c].at = "accept" /\ call'[c].row = i
      /\ \A d \in Calls \ {c} : call'[d] = call[d]
  BY <1>0, <1>3, IdleIsTyped DEF GotoAccept, Call
<1> QED
  BY <1>2, <1>4, GoodWithRow

LEMMA CreateUserKeepsGood ==
    ASSUME IInv, Onward, NEW c \in Calls, CreateUser(c)
    PROVE  Good(c)' /\ \A d \in Calls \ {c} : call'[d] = call[d]
<1>0. /\ call \in [Calls -> Call] /\ Good(c)
      /\ user \in [Ids -> User] /\ ever \in [Ids -> SUBSET People]
  BY GoodCalls DEF IInv, TypeOK
<1>1. PICK i \in Ids :
        /\ NewRow(i, call[c].email, PersonOf[c])
        /\ ever' = [ever EXCEPT ![i] = {PersonOf[c]}]
        /\ GotoAccept(c, i)
  BY DEF CreateUser
<1>2. call[c].email \in Addresses
  BY <1>0 DEF CreateUser, Good
<1>3. user'[i].email = call[c].email
  BY <1>0, <1>1 DEF NewRow
<1>4. Exists(i)'
  BY <1>2, <1>3, AccountsAssumption DEF Exists
<1>5. PersonOf[c] \in ever'[i]
  BY <1>0, <1>1
<1>6. /\ call'[c] \in Call /\ call'[c].at = "accept" /\ call'[c].row = i
      /\ \A d \in Calls \ {c} : call'[d] = call[d]
  BY <1>0, <1>1, IdleIsTyped DEF GotoAccept, Call
<1> QED
  BY <1>4, <1>5, <1>6, GoodWithRow

LEMMA CreatePersonalOrgKeepsGood ==
    ASSUME IInv, Onward, NEW c \in Calls, CreatePersonalOrg(c)
    PROVE  Good(c)' /\ \A d \in Calls \ {c} : call'[d] = call[d]
<1>0. /\ call \in [Calls -> Call] /\ Good(c)
      /\ made \subseteq Slugs /\ member \in [Slugs -> SUBSET {i \in Ids : Exists(i)}]
  BY GoodCalls DEF IInv, TypeOK
<1>1. call[c].at = "homeless" /\ call'[c].at = "housed" /\ Goto(c, "housed")
  BY <1>0 DEF CreatePersonalOrg, Goto, Call
<1>2. PICK i \in Ids : i = call[c].row
  BY <1>0, <1>1 DEF Good
<1>3. PICK s \in Slugs : s = PersonalSlug(i)
  BY <1>0, <1>1, <1>2, RowTyped DEF Good, IInv
<1>4. made' = made \cup {s} /\ member' = [member EXCEPT ![s] = {i}]
  BY <1>2, <1>3 DEF CreatePersonalOrg, CreateOrgFor
<1>5. i \in member'[s] /\ s \in made'
  BY <1>0, <1>4
<1>6. Settled(i)'
  BY <1>5 DEF Settled, OrganizationsOf
<1> QED
  BY <1>1, <1>2, <1>6, GotoKeepsGood

LEMMA ListOrgsKeepsGood ==
    ASSUME IInv, Onward, NEW c \in Calls, ListOrgs(c)
    PROVE  Good(c)' /\ \A d \in Calls \ {c} : call'[d] = call[d]
<1>0. call \in [Calls -> Call]
  BY GoodCalls
<1>1. CASE Goto(c, "homeless")
  <2>1. call[c].at = "orgs" /\ call'[c].at = "homeless"
    BY <1>0, <1>1 DEF ListOrgs, Goto, Call
  <2> QED
    BY <1>1, <2>1, GotoKeepsGood
<1>2. CASE Return(c)
  <2>1. call'[c] = Idle /\ \A d \in Calls \ {c} : call'[d] = call[d]
    BY <1>0, <1>2 DEF Return
  <2> QED
    BY <2>1, IdleIsGood
<1> QED
  BY <1>1, <1>2 DEF ListOrgs, GetsIn

\* After any step, every sign-in is as far as it says.
LEMMA CallsPreserved ==
    ASSUME IInv, Onward, Next
    PROVE  call' \in [Calls -> Call] /\ \A c \in Calls : Good(c)'
<1>0. call \in [Calls -> Call] /\ \A c \in Calls : Good(c)
  BY GoodCalls
<1>1. ASSUME NEW c \in Calls,
             Good(c)' /\ \A d \in Calls \ {c} : call'[d] = call[d]
      PROVE  \A d \in Calls : Good(d)'
  BY <1>0, <1>1, OthersAreGood
<1>2. ASSUME NEW c \in Calls, AcceptInvitations(c)
      PROVE  Good(c)' /\ \A d \in Calls \ {c} : call'[d] = call[d]
  <2>1. call[c].at = "accept" /\ call'[c].at = "orgs" /\ Goto(c, "orgs")
    BY <1>0, <1>2 DEF AcceptInvitations, Goto, Call
  <2> QED
    BY <2>1, GotoKeepsGood
<1>3. ASSUME NEW c \in Calls, Enter(c) \/ Rejected(c) \/ Fail(c)
      PROVE  Good(c)' /\ \A d \in Calls \ {c} : call'[d] = call[d]
  <2>1. call'[c] = Idle /\ \A d \in Calls \ {c} : call'[d] = call[d]
    BY <1>0, <1>3 DEF Enter, Rejected, Fail, GetsIn, Return
  <2> QED
    BY <2>1, IdleIsGood
<1>4. ASSUME NEW c \in Calls, FindBySub(c) \/ Progress(c) \/ Rejected(c) \/ Fail(c),
             ~AcceptInvitation(c)
      PROVE  Good(c)' /\ \A d \in Calls \ {c} : call'[d] = call[d]
  BY <1>2, <1>3, <1>4, FindBySubKeepsGood, FindByEmailKeepsGood, LinkSubKeepsGood,
     CreateUserKeepsGood, CreatePersonalOrgKeepsGood, ListOrgsKeepsGood DEF Progress
<1>5. ASSUME UNCHANGED call PROVE \A d \in Calls : Good(d)'
  BY <1>0, <1>5, OthersAreGood
<1>9. ASSUME NEW c \in Calls, AcceptInvitation(c) PROVE UNCHANGED call
  BY <1>9 DEF AcceptInvitation
<1>6. (\E c \in Calls : FindBySub(c) \/ Progress(c) \/ Rejected(c) \/ Fail(c)) \/ UNCHANGED call
  BY DEF Next, Bootstrap, CreateOrg, RemoveMember, EpochPasses
<1>7. \A d \in Calls : Good(d)'
  BY <1>1, <1>4, <1>5, <1>6, <1>9
<1>8. call' = [d \in Calls |-> call'[d]]
  <2>1. ASSUME NEW c \in Calls, FindBySub(c) \/ FindByEmail(c)
        PROVE  call' = [d \in Calls |-> call'[d]]
    BY <1>0, <2>1 DEF FindBySub, FindByEmail, Goto, GotoLink, GotoAccept, Return
  <2>2. ASSUME NEW c \in Calls, LinkSub(c) \/ AcceptInvitations(c) \/ CreatePersonalOrg(c)
        PROVE  call' = [d \in Calls |-> call'[d]]
    BY <1>0, <2>2 DEF LinkSub, AcceptInvitations, CreatePersonalOrg, Goto, GotoAccept
  <2>3. ASSUME NEW c \in Calls, ListOrgs(c) \/ Enter(c) \/ Rejected(c) \/ Fail(c)
        PROVE  call' = [d \in Calls |-> call'[d]]
    BY <1>0, <2>3 DEF ListOrgs, Enter, Rejected, Fail, Goto, GetsIn, Return
  <2>4. ASSUME NEW c \in Calls, CreateUser(c) PROVE call' = [d \in Calls |-> call'[d]]
    BY <1>0, <2>4 DEF CreateUser, GotoAccept
  <2> QED
    BY <1>0, <1>6, <1>9, <2>1, <2>2, <2>3, <2>4 DEF Progress
<1> QED
  BY <1>7, <1>8 DEF Good

----------------------------------------------------------------------------
(* Invariance *)

\* Whoever gets in has an account that is settled.
LEMMA EntrantsPreserved ==
    ASSUME IInv, Onward, Next
    PROVE  entered' \subseteq People /\ EntrantsAreMembers'
<1>0. /\ call \in [Calls -> Call] /\ \A c \in Calls : Good(c)
      /\ entered \subseteq People
      /\ \A p \in entered : \E i \in Ids : p \in ever[i] /\ Settled(i)
  BY GoodCalls DEF IInv, TypeOK, EntrantsAreMembers, Settled
<1>1. \A p \in entered : \E i \in Ids : p \in ever'[i] /\ Settled(i)'
  BY <1>0 DEF Onward
<1>2. ASSUME UNCHANGED entered PROVE entered' \subseteq People /\ EntrantsAreMembers'
  BY <1>0, <1>1, <1>2 DEF EntrantsAreMembers, Settled
<1>3. ASSUME NEW c \in Calls, GetsIn(c), NEW i \in Ids, Settled(i), PersonOf[c] \in ever[i]
      PROVE  entered' \subseteq People /\ EntrantsAreMembers'
  <2>1. entered' = entered \cup {PersonOf[c]} /\ PersonOf[c] \in People
    BY <1>3, CallTyped DEF GetsIn, IInv
  <2>2. PersonOf[c] \in ever'[i] /\ Settled(i)'
    BY <1>3 DEF Onward
  <2> QED
    BY <1>0, <1>1, <2>1, <2>2 DEF EntrantsAreMembers, Settled
<1>4. ASSUME NEW c \in Calls, ListOrgs(c) PROVE entered' \subseteq People /\ EntrantsAreMembers'
  <2>1. PICK i \in Ids : i = call[c].row /\ PersonOf[c] \in ever[i]
    BY <1>0, <1>4 DEF ListOrgs, Good
  <2>2. UNCHANGED entered \/ (GetsIn(c) /\ Settled(i))
    BY <1>4, <2>1 DEF ListOrgs, NeedsOrganization, Settled
  <2> QED
    BY <1>2, <1>3, <2>1, <2>2
<1>5. ASSUME NEW c \in Calls, Enter(c) PROVE entered' \subseteq People /\ EntrantsAreMembers'
  <2>1. PICK i \in Ids : i = call[c].row /\ PersonOf[c] \in ever[i] /\ Settled(i)
    BY <1>0, <1>5 DEF Enter, Good
  <2> QED
    BY <1>3, <1>5, <2>1 DEF Enter
<1>6. \/ UNCHANGED entered
      \/ \E c \in Calls : ListOrgs(c) \/ Enter(c)
  BY DEF Next, Progress, FindBySub, FindByEmail, LinkSub, CreateUser, AcceptInvitation,
         AcceptInvitations,
         CreatePersonalOrg, Rejected, Fail, Bootstrap, CreateOrg, RemoveMember, EpochPasses, history
<1> QED
  BY <1>2, <1>4, <1>5, <1>6

LEMMA ClocksTyped ==
    ASSUME TypeOK, Next
    PROVE  epoch' \in Epochs /\ changes' \in 0..MaxChanges
<1> USE AccountsAssumption
<1>0. epoch \in Epochs /\ changes \in 0..MaxChanges
  BY DEF TypeOK
<1>1. UNCHANGED changes \/ Change
  BY DEF Next, Progress, FindBySub, FindByEmail, LinkSub, CreateUser, AcceptInvitation,
         AcceptInvitations, ListOrgs,
         CreatePersonalOrg, Enter, Rejected, Fail, Bootstrap, CreateOrg, RemoveMember, EpochPasses
<1>2. UNCHANGED epoch \/ EpochPasses
  BY DEF Next, Progress, FindBySub, FindByEmail, LinkSub, CreateUser, AcceptInvitation,
         AcceptInvitations, ListOrgs,
         CreatePersonalOrg, Enter, Rejected, Fail, Bootstrap, CreateOrg, RemoveMember
<1> QED
  BY <1>0, <1>1, <1>2 DEF Change, EpochPasses, Epochs

LEMMA InvariantStep ==
    ASSUME IInv, Next
    PROVE  IInv'
<1>1. RowStep /\ OrgStep /\ epoch \in Epochs
  BY StepShapes DEF IInv, TypeOK
<1>2. /\ user' \in [Ids -> User]
      /\ ever' \in [Ids -> SUBSET People]
      /\ \A i \in Ids : ~Exists(i)' => user'[i] = NoRow /\ ever'[i] = {}
      /\ \A i, j \in Ids : i < j /\ Exists(j)' => Exists(i)'
      /\ \A i, j \in Ids : Exists(i)' /\ user'[i].email = user'[j].email => i = j
      /\ AccountsAreOfOnesAddress'
      /\ LinksAreRemembered'
      /\ \A i \in Ids : ever[i] \subseteq ever'[i]
      /\ \A i \in Ids : Exists(i) => RowStays(i)
  BY <1>1, RowsPreserved DEF IInv
<1>3. /\ made' \subseteq Slugs
      /\ member' \in [Slugs -> SUBSET {i \in Ids : Exists(i)'}]
      /\ \A s \in Slugs : member'[s] # {} => s \in made'
      /\ personal' \in [Slugs -> Ids \cup {NoUser}]
      /\ removed' \subseteq Ids
      /\ PersonalSlugsAreFixed'
      /\ \A i \in Ids : Settled(i) => Settled(i)'
  BY <1>1, <1>2, OrgsPreserved DEF IInv
<1>4. Onward
  BY <1>2, <1>3 DEF Onward, RowStays
<1>5. call' \in [Calls -> Call] /\ \A c \in Calls : Good(c)'
  BY <1>4, CallsPreserved
<1>6. entered' \subseteq People /\ EntrantsAreMembers'
  BY <1>4, EntrantsPreserved
<1>7. epoch' \in Epochs /\ changes' \in 0..MaxChanges
  BY ClocksTyped DEF IInv
<1>8. CallsAreSettled'
  BY <1>5 DEF CallsAreSettled, Good
<1>9. \A c \in Calls :
        /\ call'[c].at \in {"link", "accept", "orgs", "homeless", "housed"} =>
             call'[c].row \in Ids /\ Exists(call[c].row)'
        /\ call'[c].at \in {"unknown", "create"} => call'[c].email \in Addresses
  BY <1>5 DEF Good
<1>10. TypeOK'
  BY <1>2, <1>3, <1>5, <1>6, <1>7, <1>9 DEF TypeOK
<1> QED
  BY <1>2, <1>3, <1>6, <1>8, <1>10 DEF IInv

LEMMA InitInvariant == Init => IInv
<1> SUFFICES ASSUME Init PROVE IInv
  OBVIOUS
<1> USE AccountsAssumption
<1>1. NoRow \in User /\ NoRow.email = NoAddress /\ NoRow.sub = Nobody
  BY DEF NoRow, User, Epochs
<1>2. \A i \in Ids : user[i] = NoRow /\ ~Exists(i) /\ user[i].sub = Nobody /\ ever[i] = {}
  BY <1>1 DEF Init, Exists
<1>3. \A c \in Calls : call[c] = Idle /\ call[c].at = "idle"
  BY IdleIsTyped DEF Init
<1>4. TypeOK
  <2>1. user \in [Ids -> User] /\ call \in [Calls -> Call]
    BY <1>1, IdleIsTyped DEF Init
  <2>2. member \in [Slugs -> SUBSET {i \in Ids : Exists(i)}] /\ ever \in [Ids -> SUBSET People]
    BY DEF Init
  <2>3. personal \in [Slugs -> Ids \cup {NoUser}] /\ epoch \in Epochs /\ changes \in 0..MaxChanges
    BY DEF Init, Epochs
  <2>4. /\ \A i \in Ids : ~Exists(i) => user[i] = NoRow /\ ever[i] = {}
        /\ \A i, j \in Ids : i < j /\ Exists(j) => Exists(i)
        /\ \A i, j \in Ids : Exists(i) /\ user[i].email = user[j].email => i = j
    BY <1>2
  <2>5. made = {} /\ removed = {} /\ entered = {} /\ \A s \in Slugs : member[s] = {}
    BY DEF Init
  <2> QED
    BY <1>3, <2>1, <2>2, <2>3, <2>4, <2>5 DEF TypeOK
<1>5. AccountsAreOfOnesAddress /\ LinksAreRemembered
  BY <1>2 DEF AccountsAreOfOnesAddress, LinksAreRemembered
<1>6. PersonalSlugsAreFixed /\ EntrantsAreMembers
  BY DEF Init, PersonalSlugsAreFixed, EntrantsAreMembers
<1>7. CallsAreSettled
  BY <1>3 DEF CallsAreSettled
<1> QED
  BY <1>4, <1>5, <1>6, <1>7 DEF IInv

LEMMA NextInvariant == IInv /\ [Next]_vars => IInv'
<1>1. ASSUME IInv, UNCHANGED vars PROVE IInv'
  <2>1. UNCHANGED <<user, made, member, personal, epoch, call, ever, removed, entered, changes>>
    BY <1>1 DEF vars, orgs, history
  <2>2. TypeOK'
    BY <1>1, <2>1 DEF IInv, TypeOK, Exists
  <2> QED
    BY <1>1, <2>1, <2>2 DEF IInv, AccountsAreOfOnesAddress, LinksAreRemembered,
         PersonalSlugsAreFixed, Exists, PersonalSlug, Vouched, CallsAreSettled, Settled, OrganizationsOf,
         EntrantsAreMembers
<1> QED
  BY <1>1, InvariantStep

----------------------------------------------------------------------------
(* Theorems *)

\* The invariant holds throughout, however sign-ins interleave, fail and are tried again.
THEOREM Invariance == Spec => []IInv
BY InitInvariant, NextInvariant, PTL DEF Spec

\* Everything keeps its type, and no address is used twice.
THEOREM TypeCorrect == Spec => []TypeOK
<1>1. IInv => TypeOK
  BY DEF IInv
<1> QED
  BY <1>1, Invariance, PTL

\* No account gets two personal organizations: a slug belongs to a row for all time
\* (personal_org_slug).
THEOREM NobodyHasTwoPersonalOrganizations == Spec => []OnePersonalOrganizationEach
<1>1. IInv => OnePersonalOrganizationEach
  <2> SUFFICES ASSUME IInv, NEW s \in Slugs, NEW t \in Slugs, personal[s] # NoUser,
                      personal[s] = personal[t]
               PROVE  s = t
    BY DEF OnePersonalOrganizationEach
  <2>1. s = PersonalSlug(personal[s]) /\ t = PersonalSlug(personal[t])
    BY DEF IInv, PersonalSlugsAreFixed
  <2> QED
    BY <2>1
<1> QED
  BY <1>1, Invariance, PTL

\* No row is ever linked to a person but by an address Google vouched for
\* (provision_google_user).
THEOREM AccountsKeepTheirAddress == Spec => []AccountsAreOfOnesAddress
<1>1. IInv => AccountsAreOfOnesAddress
  BY DEF IInv
<1> QED
  BY <1>1, Invariance, PTL

\* Who has got in is in an organization, or was removed from one.
THEOREM EntrantsBelong == Spec => []EntrantsAreMembers
<1>1. IInv => EntrantsAreMembers
  BY DEF IInv
<1> QED
  BY <1>1, Invariance, PTL

\* A link is replaced only by a sign-in that found the row unlinked.
THEOREM LinksReplaced == Spec => LinksAreReplacedOnlyInRaces
<1> DEFINE A == \A i \in Ids : user[i].sub # Nobody /\ user'[i].sub # user[i].sub =>
                  \E c \in Calls : call[c].at = "link" /\ call[c].row = i /\ call[c].saw = Nobody
<1>1. IInv /\ [Next]_vars => [A]_vars
  <2> SUFFICES ASSUME IInv, Next, NEW i \in Ids, user[i].sub # Nobody, user'[i].sub # user[i].sub
               PROVE  \E c \in Calls : /\ call[c].at = "link" /\ call[c].row = i
                                       /\ call[c].saw = Nobody
    OBVIOUS
  <2>0. user \in [Ids -> User] /\ (Exists(i) \/ user[i] = NoRow)
    BY DEF IInv, TypeOK
  <2>1. Exists(i)
    BY <2>0 DEF NoRow
  <2>2. ASSUME NEW j \in Ids, NEW email, NEW p, NewRow(j, email, p) PROVE FALSE
    BY <2>0, <2>1, <2>2 DEF NewRow
  <2>3. PICK c \in Calls : LinkSub(c)
    BY <2>2 DEF Next, Progress, FindBySub, FindByEmail, CreateUser, AcceptInvitation,
                AcceptInvitations, ListOrgs,
                CreatePersonalOrg, Enter, Rejected, Fail, Bootstrap, CreateOrg, RemoveMember,
                EpochPasses
  <2>4. call[c].at = "link" /\ call[c].row = i
    BY <2>0, <2>3 DEF LinkSub
  <2>5. call[c].saw = Nobody
    BY <2>4 DEF IInv, CallsAreSettled
  <2> QED
    BY <2>4, <2>5
<1>2. Spec => [][A]_vars
  BY <1>1, Invariance, PTL DEF Spec
<1> QED
  BY <1>2 DEF LinksAreReplacedOnlyInRaces
=============================================================================
