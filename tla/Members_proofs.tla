--------------------------- MODULE Members_proofs ---------------------------
(***************************************************************************)
(* Theorems about Members, for any number of users, requests, sign-ins and *)
(* invitations.                                                            *)
(***************************************************************************)
EXTENDS Members, FiniteSetTheorems, TLAPS

----------------------------------------------------------------------------
(* The inductive invariant *)

\* What a request remembers of its checks, whatever has happened to the table since.
ChangesAreChecked ==
    \A q \in Changes :
        /\ change[q].step # "idle" => MayManage(change[q].ctx)
        /\ change[q].step \in {"counting", "writing"} =>
             /\ change[q].target \in Users
             /\ change[q].wanted # change[q].current
             /\ "owner" \in {change[q].current, change[q].wanted} => change[q].ctx = "owner"
        /\ change[q].step = "writing" /\ change[q].current = "owner" => change[q].owners > 1

\* A sign-in holds invitations that were issued, for a user it knows.
FoundWereIssued ==
    \A s \in SignIns :
        /\ \A i \in accept[s].found : Issued(i)
        /\ accept[s].found # {} => accept[s].user \in Users

\* What a sign-in is about to mark has been used.
EnteredWereUsed ==
    \A s \in SignIns : \A i \in accept[s].entered : usedBy[i] # {}

IInv ==
    /\ TypeOK
    /\ ChangesAreChecked
    /\ FoundWereIssued
    /\ EnteredWereUsed
    /\ AcceptedInvitationsWereUsed

LEMMA NullRecordsAreTyped ==
    NoInvitation \in Invitation /\ NoChange \in Change /\ NoAccept \in Accept
BY DEF NoInvitation, NoChange, NoAccept, Invitation, Change, Accept, OptionalRole

LEMMA InitInvariant == Init => IInv
<1> SUFFICES ASSUME Init PROVE IInv
  OBVIOUS
<1>1. TypeOK
  BY NullRecordsAreTyped DEF Init, TypeOK, OptionalRole, OrgRole, NoInvitation
<1> QED
  BY <1>1 DEF Init, IInv, ChangesAreChecked, FoundWereIssued, EnteredWereUsed,
              AcceptedInvitationsWereUsed, NoChange, NoAccept, NoInvitation

----------------------------------------------------------------------------
(* What replacing one record of a table or of a request preserves *)

\* A step of one request that replaces its record keeps the type and the others' checks.
LEMMA ChangeStep ==
    ASSUME IInv, NEW q \in Changes, NEW r \in Change,
           change' = [change EXCEPT ![q] = r],
           r.step # "idle" => MayManage(r.ctx),
           r.step \in {"counting", "writing"} =>
             /\ r.target \in Users
             /\ r.wanted # r.current
             /\ "owner" \in {r.current, r.wanted} => r.ctx = "owner",
           r.step = "writing" /\ r.current = "owner" => r.owners > 1
    PROVE  change' \in [Changes -> Change] /\ ChangesAreChecked'
<1>1. change \in [Changes -> Change]
  BY DEF IInv, TypeOK
<1>2. change' \in [Changes -> Change]
  BY <1>1
<1>3. change'[q] = r /\ \A p \in Changes \ {q} : change'[p] = change[p]
  BY <1>1
<1>4. ChangesAreChecked'
  BY <1>3 DEF IInv, ChangesAreChecked
<1> QED
  BY <1>2, <1>4

\* Finishing or abandoning a request is such a step.
LEMMA ChangeEnds ==
    ASSUME IInv, NEW q \in Changes, EndChange(q)
    PROVE  change' \in [Changes -> Change] /\ ChangesAreChecked'
<1>1. NoChange \in Change /\ NoChange.step = "idle"
  BY NullRecordsAreTyped DEF NoChange
<1> QED
  BY <1>1, ChangeStep DEF EndChange

\* A sign-in's record is replaced by one whose invitations were found and used.
LEMMA AcceptStep ==
    ASSUME IInv, NEW s \in SignIns, NEW r \in Accept,
           accept' = [accept EXCEPT ![s] = r],
           \A i \in Invitations : Issued(i) => Issued(i)',
           \A i \in Invitations : usedBy[i] # {} => usedBy'[i] # {},
           \A i \in r.found : Issued(i)',
           r.found # {} => r.user \in Users,
           \A i \in r.entered : usedBy'[i] # {}
    PROVE  /\ accept' \in [SignIns -> Accept]
           /\ FoundWereIssued'
           /\ EnteredWereUsed'
<1>1. accept \in [SignIns -> Accept]
  BY DEF IInv, TypeOK
<1>2. accept' \in [SignIns -> Accept]
  BY <1>1
<1>3. accept'[s] = r /\ \A t \in SignIns \ {s} : accept'[t] = accept[t]
  BY <1>1
<1>4. \A t \in SignIns : accept[t].found \subseteq Invitations /\ accept[t].entered \subseteq Invitations
  BY <1>1 DEF Accept
<1>5. FoundWereIssued'
  BY <1>3, <1>4 DEF IInv, FoundWereIssued
<1>6. EnteredWereUsed'
  BY <1>3, <1>4 DEF IInv, EnteredWereUsed
<1> QED
  BY <1>2, <1>5, <1>6

\* Only the row of one invitation changes: its role and address stay if it was issued,
\* and it may be accepted only if it has been used.
LEMMA InvitationStep ==
    ASSUME IInv, NEW i \in Invitations, NEW r \in Invitation,
           invitation' = [invitation EXCEPT ![i] = r],
           r.role # "owner", r.role # "none",
           "accepted" \in r.closed => usedBy[i] # {},
           UNCHANGED usedBy
    PROVE  /\ invitation' \in [Invitations -> Invitation]
           /\ \A j \in Invitations : invitation'[j].role # "owner"
           /\ \A j \in Invitations : Issued(j) => Issued(j)'
           /\ AcceptedInvitationsWereUsed'
<1>1. invitation \in [Invitations -> Invitation]
  BY DEF IInv, TypeOK
<1>2. invitation' \in [Invitations -> Invitation]
  BY <1>1
<1>3. invitation'[i] = r /\ \A j \in Invitations \ {i} : invitation'[j] = invitation[j]
  BY <1>1
<1> QED
  BY <1>2, <1>3 DEF IInv, TypeOK, Issued, AcceptedInvitationsWereUsed

----------------------------------------------------------------------------
(* Invariance *)

\* Requests of owners and admins, by action.
LEMMA ChangesPreserve ==
    ASSUME IInv, NEW q \in Changes,
           \/ \E u \in Users, r \in OrgRole : Authenticate(q, u, r)
           \/ \E i \in Invitations, u \in Users, r \in OrgRole : CreateInvitation(q, i, u, r)
           \/ \E i \in Invitations : RevokeInvitation(q, i)
           \/ \E u \in Users, r \in OptionalRole : ReadTarget(q, u, r)
           \/ CountOwners(q)
           \/ WriteRole(q)
           \/ AbandonChange(q)
    PROVE  IInv'
<1>0. change[q] \in Change /\ role \in [Users -> OptionalRole]
  BY DEF IInv, TypeOK
<1> USE MembersAssumption
<1>1. ASSUME NEW u \in Users, NEW r \in OrgRole, Authenticate(q, u, r) PROVE IInv'
  <2> DEFINE new == [NoChange EXCEPT !.step = "authorized", !.ctx = r]
  <2>1. /\ new \in Change
        /\ new.step = "authorized"
        /\ new.ctx = r
    BY NullRecordsAreTyped DEF Change, NoChange, OptionalRole
  <2>2. change' = [change EXCEPT ![q] = new] /\ MayManage(r)
    BY <1>1 DEF Authenticate
  <2> HIDE DEF new
  <2>3. change' \in [Changes -> Change] /\ ChangesAreChecked'
    BY <2>1, <2>2, ChangeStep
  <2> QED
    BY <1>1, <2>3 DEF Authenticate, IInv, TypeOK, FoundWereIssued, EnteredWereUsed,
                      AcceptedInvitationsWereUsed, Issued
<1>2. ASSUME NEW i \in Invitations, NEW u \in Users, NEW r \in OrgRole,
             CreateInvitation(q, i, u, r)
      PROVE  IInv'
  <2> DEFINE row == [role |-> r, email |-> u, closed |-> {}]
  <2>1. row \in Invitation /\ row.role # "owner" /\ row.role # "none" /\ row.closed = {}
    BY <1>2 DEF CreateInvitation, Invitable, Invitation, OptionalRole, OrgRole
  <2>2. invitation' = [invitation EXCEPT ![i] = row] /\ UNCHANGED usedBy
    BY <1>2 DEF CreateInvitation
  <2> HIDE DEF row
  <2>3. /\ invitation' \in [Invitations -> Invitation]
        /\ \A j \in Invitations : invitation'[j].role # "owner"
        /\ \A j \in Invitations : Issued(j) => Issued(j)'
        /\ AcceptedInvitationsWereUsed'
    BY <2>1, <2>2, InvitationStep
  <2>4. change' \in [Changes -> Change] /\ ChangesAreChecked'
    BY <1>2, ChangeEnds DEF CreateInvitation
  <2> QED
    BY <1>2, <2>3, <2>4 DEF CreateInvitation, IInv, TypeOK, Accept, FoundWereIssued,
                            EnteredWereUsed
<1>3. ASSUME NEW i \in Invitations, RevokeInvitation(q, i) PROVE IInv'
  <2> DEFINE row == [invitation[i] EXCEPT !.closed = @ \cup {"revoked"}]
  <2>1. /\ invitation[i] \in Invitation
        /\ invitation[i].role # "owner"
        /\ invitation[i].role # "none"
        /\ "accepted" \notin invitation[i].closed
    BY <1>3 DEF RevokeInvitation, IInv, TypeOK, Issued
  <2>2. row \in Invitation /\ row.role # "owner" /\ row.role # "none" /\ "accepted" \notin row.closed
    BY <2>1 DEF Invitation
  <2>3. invitation' = [invitation EXCEPT ![i] = row] /\ UNCHANGED usedBy
    BY <1>3 DEF RevokeInvitation, IInv, TypeOK
  <2> HIDE DEF row
  <2>4. /\ invitation' \in [Invitations -> Invitation]
        /\ \A j \in Invitations : invitation'[j].role # "owner"
        /\ \A j \in Invitations : Issued(j) => Issued(j)'
        /\ AcceptedInvitationsWereUsed'
    BY <2>2, <2>3, InvitationStep
  <2>5. change' \in [Changes -> Change] /\ ChangesAreChecked'
    BY <1>3, ChangeEnds DEF RevokeInvitation
  <2> QED
    BY <1>3, <2>4, <2>5 DEF RevokeInvitation, IInv, TypeOK, Accept, FoundWereIssued,
                            EnteredWereUsed
<1>4. ASSUME NEW u \in Users, NEW r \in OptionalRole, ReadTarget(q, u, r) PROVE IInv'
  <2> DEFINE new == [change[q] EXCEPT
                       !.step = IF role[u] = "owner" THEN "counting" ELSE "writing",
                       !.target = u, !.current = role[u], !.wanted = r]
  <2>1. /\ new \in Change
        /\ new.step = IF role[u] = "owner" THEN "counting" ELSE "writing"
        /\ new.ctx = change[q].ctx
        /\ new.target = u
        /\ new.current = role[u]
        /\ new.wanted = r
    BY <1>0 DEF Change
  <2>2. change' = [change EXCEPT ![q] = new]
    BY <1>4 DEF ReadTarget, IInv, TypeOK
  <2> HIDE DEF new
  <2>3. MayManage(change[q].ctx)
    BY <1>4 DEF ReadTarget, IInv, ChangesAreChecked
  <2>4. r # role[u] /\ ("owner" \in {role[u], r} => change[q].ctx = "owner")
    BY <1>4 DEF ReadTarget
  <2>5. change' \in [Changes -> Change] /\ ChangesAreChecked'
    BY <2>1, <2>2, <2>3, <2>4, ChangeStep
  <2> QED
    BY <1>4, <2>5 DEF ReadTarget, IInv, TypeOK, FoundWereIssued, EnteredWereUsed,
                      AcceptedInvitationsWereUsed, Issued
<1>5. ASSUME CountOwners(q) PROVE IInv'
  <2> DEFINE n == Cardinality(Owners)
             new == [change[q] EXCEPT !.step = "writing", !.owners = n]
  <2>1. n \in Nat
    BY FS_Subset, FS_CardinalityType, Owners \subseteq Users DEF Owners
  <2>2. n > 1
    BY <1>5 DEF CountOwners, EnoughOwners
  <2> HIDE DEF n
  <2>3. /\ new \in Change
        /\ new.step = "writing" /\ new.owners = n
        /\ new.ctx = change[q].ctx /\ new.target = change[q].target
        /\ new.current = change[q].current /\ new.wanted = change[q].wanted
    BY <1>0, <2>1 DEF Change
  <2>4. change' = [change EXCEPT ![q] = new]
    BY <1>5 DEF CountOwners, IInv, TypeOK, n
  <2> HIDE DEF new
  <2>5. change[q].step = "counting"
    BY <1>5 DEF CountOwners
  <2>6. change' \in [Changes -> Change] /\ ChangesAreChecked'
    BY <2>2, <2>3, <2>4, <2>5, ChangeStep DEF IInv, ChangesAreChecked
  <2> QED
    BY <1>5, <2>6 DEF CountOwners, IInv, TypeOK, FoundWereIssued, EnteredWereUsed,
                      AcceptedInvitationsWereUsed, Issued
<1>6. ASSUME WriteRole(q) PROVE IInv'
  <2>1. change' \in [Changes -> Change] /\ ChangesAreChecked'
    BY <1>6, ChangeEnds DEF WriteRole
  <2>2. role' \in [Users -> OptionalRole]
    BY <1>0, <1>6 DEF WriteRole, Change
  <2> QED
    BY <1>6, <2>1, <2>2 DEF WriteRole, IInv, TypeOK, FoundWereIssued, EnteredWereUsed,
                            AcceptedInvitationsWereUsed, Issued
<1>7. ASSUME AbandonChange(q) PROVE IInv'
  <2>1. change' \in [Changes -> Change] /\ ChangesAreChecked'
    BY <1>7, ChangeEnds DEF AbandonChange
  <2> QED
    BY <1>7, <2>1 DEF AbandonChange, IInv, TypeOK, FoundWereIssued, EnteredWereUsed,
                      AcceptedInvitationsWereUsed, Issued
<1> QED
  BY <1>1, <1>2, <1>3, <1>4, <1>5, <1>6, <1>7

\* Sign-ins and opened links, by action.
LEMMA SignInsPreserve ==
    ASSUME IInv, NEW s \in SignIns,
           \/ \E u \in Users : FindByEmail(s, u)
           \/ \E u \in Users, i \in Invitations : FindByToken(s, u, i)
           \/ \E i \in Invitations : Admit(s, i)
           \/ MarkAccepted(s)
           \/ EndSignIn(s)
    PROVE  IInv'
<1>0. accept[s] \in Accept
  BY DEF IInv, TypeOK
<1>1. ASSUME NEW u \in Users, NEW live \in SUBSET Invitations,
             \A i \in live : LiveInvitation(i),
             accept' = [accept EXCEPT ![s] = [user |-> u, found |-> live, entered |-> {}]],
             UNCHANGED <<role, invitation, usedBy, change>>
      PROVE  IInv'
  <2> DEFINE new == [user |-> u, found |-> live, entered |-> {}]
  <2>1. /\ new \in Accept
        /\ new.user = u /\ new.found = live /\ new.entered = {}
    BY DEF Accept
  <2>2. accept' = [accept EXCEPT ![s] = new]
    BY <1>1
  <2> HIDE DEF new
  <2>3. \A i \in live : Issued(i)'
    BY <1>1 DEF LiveInvitation, Issued
  <2>4. accept' \in [SignIns -> Accept] /\ FoundWereIssued' /\ EnteredWereUsed'
    BY <1>1, <2>1, <2>2, <2>3, AcceptStep DEF Issued
  <2> QED
    BY <1>1, <2>4 DEF IInv, TypeOK, ChangesAreChecked, AcceptedInvitationsWereUsed
<1>2. ASSUME NEW i \in Invitations, Admit(s, i) PROVE IInv'
  <2> DEFINE new == [accept[s] EXCEPT !.found = @ \ {i}, !.entered = {i}]
  <2>1. /\ new \in Accept
        /\ new.user = accept[s].user /\ new.found = accept[s].found \ {i} /\ new.entered = {i}
    BY <1>0 DEF Accept
  <2>2. accept' = [accept EXCEPT ![s] = new]
    BY <1>2 DEF Admit, IInv, TypeOK
  <2> HIDE DEF new
  <2>3. accept[s].user \in Users /\ Issued(i)
    BY <1>2 DEF Admit, IInv, FoundWereIssued
  <2>4. /\ usedBy' \in [Invitations -> SUBSET Users]
        /\ \A j \in Invitations : usedBy[j] \subseteq usedBy'[j]
        /\ usedBy'[i] # {}
    BY <1>2, <2>3 DEF Admit, IInv, TypeOK
  <2>5. \A j \in Invitations : Issued(j)' <=> Issued(j)
    BY <1>2 DEF Admit, Issued
  <2>6. \A j \in new.found : Issued(j)'
    BY <1>0, <2>1, <2>5 DEF IInv, FoundWereIssued, Accept
  <2>6a. \A j \in Invitations : usedBy[j] # {} => usedBy'[j] # {}
    BY <2>4
  <2>7. accept' \in [SignIns -> Accept] /\ FoundWereIssued' /\ EnteredWereUsed'
    BY <2>1, <2>2, <2>3, <2>4, <2>5, <2>6, <2>6a, AcceptStep
  <2>8. AcceptedInvitationsWereUsed'
    BY <1>2, <2>6a DEF Admit, IInv, AcceptedInvitationsWereUsed
  <2>9. role' \in [Users -> OptionalRole]
    BY <1>2, <2>3 DEF Admit, IInv, TypeOK, RoleOnceAdmitted, Invitation
  <2> QED
    BY <1>2, <2>4, <2>7, <2>8, <2>9 DEF Admit, IInv, TypeOK, ChangesAreChecked
<1>3. ASSUME MarkAccepted(s) PROVE IInv'
  <2>1. PICK i \in accept[s].entered :
           /\ invitation' = [invitation EXCEPT ![i].closed = @ \cup {"accepted"}]
           /\ accept' = [accept EXCEPT ![s].entered = {}]
           /\ UNCHANGED <<role, usedBy, change>>
    BY <1>3 DEF MarkAccepted
  <2>2. i \in Invitations /\ usedBy[i] # {}
    BY <1>0 DEF Accept, IInv, EnteredWereUsed
  <2> DEFINE row == [invitation[i] EXCEPT !.closed = @ \cup {"accepted"}]
             new == [accept[s] EXCEPT !.entered = {}]
  <2>3. /\ invitation' = [invitation EXCEPT ![i] = row]
        /\ row \in Invitation
        /\ row.role = invitation[i].role /\ row.role # "owner"
    BY <2>1, <2>2 DEF IInv, TypeOK, Invitation
  <2>4. /\ accept' = [accept EXCEPT ![s] = new]
        /\ new \in Accept
        /\ new.user = accept[s].user /\ new.found = accept[s].found /\ new.entered = {}
    BY <1>0, <2>1 DEF IInv, TypeOK, Accept
  <2> HIDE DEF row, new
  <2>5. /\ invitation' \in [Invitations -> Invitation]
        /\ \A j \in Invitations : invitation'[j].role # "owner"
        /\ \A j \in Invitations : Issued(j) => Issued(j)'
    BY <2>2, <2>3 DEF IInv, TypeOK, Issued
  <2>6. AcceptedInvitationsWereUsed'
    BY <2>1, <2>2 DEF IInv, TypeOK, AcceptedInvitationsWereUsed
  <2>7. \A j \in new.found : Issued(j)'
    BY <1>0, <2>4, <2>5 DEF IInv, FoundWereIssued, Accept
  <2>8. new.found # {} => new.user \in Users
    BY <2>4 DEF IInv, FoundWereIssued
  <2>9. accept' \in [SignIns -> Accept] /\ FoundWereIssued' /\ EnteredWereUsed'
    BY <2>1, <2>4, <2>5, <2>7, <2>8, AcceptStep
  <2> QED
    BY <2>1, <2>5, <2>6, <2>9 DEF IInv, TypeOK, ChangesAreChecked
<1>4. ASSUME EndSignIn(s) PROVE IInv'
  <2>1. NoAccept \in Accept /\ NoAccept.found = {} /\ NoAccept.entered = {}
    BY NullRecordsAreTyped DEF NoAccept
  <2>2. accept' \in [SignIns -> Accept] /\ FoundWereIssued' /\ EnteredWereUsed'
    BY <1>4, <2>1, AcceptStep DEF EndSignIn, Issued
  <2> QED
    BY <1>4, <2>2 DEF EndSignIn, IInv, TypeOK, ChangesAreChecked, AcceptedInvitationsWereUsed
<1>5. ASSUME NEW u \in Users, FindByEmail(s, u) PROVE IInv'
  <2> DEFINE live == {i \in Invitations : LiveInvitation(i) /\ invitation[i].email = u}
  <2>1. live \in SUBSET Invitations /\ \A i \in live : LiveInvitation(i)
    OBVIOUS
  <2>2. /\ accept' = [accept EXCEPT ![s] = [user |-> u, found |-> live, entered |-> {}]]
        /\ UNCHANGED <<role, invitation, usedBy, change>>
    BY <1>5 DEF FindByEmail
  <2> HIDE DEF live
  <2> QED
    BY <1>1, <2>1, <2>2
<1>6. ASSUME NEW u \in Users, NEW i \in Invitations, FindByToken(s, u, i) PROVE IInv'
  <2>1. {i} \in SUBSET Invitations /\ \A j \in {i} : LiveInvitation(j)
    BY <1>6 DEF FindByToken
  <2>2. /\ accept' = [accept EXCEPT ![s] = [user |-> u, found |-> {i}, entered |-> {}]]
        /\ UNCHANGED <<role, invitation, usedBy, change>>
    BY <1>6 DEF FindByToken
  <2> QED
    BY <1>1, <2>1, <2>2
<1> QED
  BY <1>2, <1>3, <1>4, <1>5, <1>6

LEMMA ExpiryPreserves ==
    ASSUME IInv, NEW i \in Invitations, Expire(i)
    PROVE  IInv'
<1> DEFINE row == [invitation[i] EXCEPT !.closed = @ \cup {"expired"}]
<1>1. /\ invitation' = [invitation EXCEPT ![i] = row]
      /\ row \in Invitation
      /\ row.role # "owner" /\ row.role # "none"
      /\ "accepted" \in row.closed => usedBy[i] # {}
  BY DEF Expire, Issued, IInv, TypeOK, Invitation, AcceptedInvitationsWereUsed
<1> HIDE DEF row
<1>2. /\ invitation' \in [Invitations -> Invitation]
      /\ \A j \in Invitations : invitation'[j].role # "owner"
      /\ \A j \in Invitations : Issued(j) => Issued(j)'
      /\ AcceptedInvitationsWereUsed'
  BY <1>1, InvitationStep DEF Expire
<1> QED
  BY <1>2 DEF Expire, IInv, TypeOK, Accept, ChangesAreChecked, FoundWereIssued,
              EnteredWereUsed

LEMMA StepInvariant == IInv /\ [Next]_vars => IInv'
<1>1. ASSUME IInv, UNCHANGED vars PROVE IInv'
  BY <1>1 DEF vars, IInv, TypeOK, ChangesAreChecked, FoundWereIssued, EnteredWereUsed,
              AcceptedInvitationsWereUsed, Issued
<1> QED
  BY <1>1, ChangesPreserve, SignInsPreserve, ExpiryPreserves DEF Next

LEMMA Invariance == Spec => []IInv
BY InitInvariant, StepInvariant, PTL DEF Spec

----------------------------------------------------------------------------
(* Theorems *)

\* Every reachable state is well formed, and no invitation ever offers the role owner.
THEOREM TypeCorrect == Spec => []TypeOK
<1>1. IInv => TypeOK
  BY DEF IInv
<1> QED
  BY <1>1, Invariance, PTL

\* Whatever interrupts an acceptance, a spent invitation has gone through for somebody,
\* who joined by it or was a member already.
THEOREM SpentInvitationsWereUsed == Spec => []AcceptedInvitationsWereUsed
<1>1. IInv => AcceptedInvitationsWereUsed
  BY DEF IInv
<1> QED
  BY <1>1, Invariance, PTL

\* A write that follows a count still true and a target still as it was read leaves an
\* owner: if the target is one, another was counted.
LEMMA CheckedWriteKeepsAnOwner ==
    ASSUME IInv, NEW q \in Changes, WriteRole(q), Owners # {},
           Cardinality(Owners) >= change[q].owners,
           role[change[q].target] = change[q].current
    PROVE  Owners' # {}
<1> DEFINE t == change[q].target
<1>1. t \in Users /\ change[q] \in Change /\ role \in [Users -> OptionalRole]
  BY DEF WriteRole, IInv, TypeOK, ChangesAreChecked
<1>2. \A u \in Users \ {t} : role'[u] = role[u]
  BY <1>1 DEF WriteRole
<1>3. CASE change[q].current # "owner"
  <2>1. PICK u \in Owners : u # t
    BY <1>3 DEF Owners
  <2> QED
    BY <1>2, <2>1 DEF Owners
<1>4. CASE change[q].current = "owner"
  <2>1. change[q].owners > 1 /\ change[q].owners \in Nat
    BY <1>1, <1>4 DEF WriteRole, IInv, ChangesAreChecked, Change
  <2>2. IsFiniteSet(Owners) /\ Cardinality(Owners) \in Nat
    BY FS_Subset, FS_CardinalityType, MembersAssumption, Owners \subseteq Users DEF Owners
  <2>3. Cardinality(Owners) # 1
    BY <2>1, <2>2
  <2>4. Owners # {t}
    BY <2>3, FS_Singleton
  <2>5. PICK u \in Owners : u # t
    BY <2>4
  <2> QED
    BY <1>2, <2>5 DEF Owners
<1> QED
  BY <1>3, <1>4

\* The last owner is lost only to a write whose reads were overtaken.
THEOREM OwnersLostToStaleReads == Spec => OwnersAreLostOnlyToStaleReads
<1> DEFINE A == \A q \in Changes :
                  WriteRole(q) /\ Owners # {} /\ Owners' = {} =>
                     \/ Cardinality(Owners) < change[q].owners
                     \/ role[change[q].target] # change[q].current
<1>1. ASSUME IInv, Next PROVE A
  <2> SUFFICES ASSUME NEW q \in Changes, WriteRole(q), Owners # {}, Owners' = {},
                      ~ (Cardinality(Owners) < change[q].owners),
                      role[change[q].target] = change[q].current
               PROVE  FALSE
    OBVIOUS
  <2>1. change[q].owners \in Nat
    BY <1>1 DEF IInv, TypeOK, Change
  <2>2. Cardinality(Owners) \in Nat
    BY FS_Subset, FS_CardinalityType, MembersAssumption, Owners \subseteq Users DEF Owners
  <2> QED
    BY <1>1, <2>1, <2>2, CheckedWriteKeepsAnOwner
<1>2. IInv /\ [Next]_vars => [A]_vars
  BY <1>1
<1> QED
  BY <1>2, Invariance, PTL DEF Spec, OwnersAreLostOnlyToStaleReads

\* Which actions write the tables.
LEMMA TableWriters ==
    ASSUME [Next]_vars
    PROVE  /\ \/ UNCHANGED <<role, usedBy>>
              \/ \E q \in Changes : WriteRole(q)
              \/ \E s \in SignIns, i \in Invitations : Admit(s, i)
           /\ \/ UNCHANGED invitation
              \/ \E q \in Changes, i \in Invitations, u \in Users, r \in OrgRole :
                   CreateInvitation(q, i, u, r)
              \/ \E q \in Changes, i \in Invitations : RevokeInvitation(q, i)
              \/ \E s \in SignIns : MarkAccepted(s)
              \/ \E i \in Invitations : Expire(i)
<1>1. ASSUME NEW q \in Changes,
             \/ \E u \in Users, r \in OrgRole : Authenticate(q, u, r)
             \/ \E u \in Users, r \in OptionalRole : ReadTarget(q, u, r)
             \/ CountOwners(q)
             \/ AbandonChange(q)
      PROVE  UNCHANGED <<role, usedBy, invitation>>
  BY <1>1 DEF Authenticate, ReadTarget, CountOwners, AbandonChange
<1>2. ASSUME NEW q \in Changes,
             \/ \E i \in Invitations, u \in Users, r \in OrgRole : CreateInvitation(q, i, u, r)
             \/ \E i \in Invitations : RevokeInvitation(q, i)
      PROVE  UNCHANGED <<role, usedBy>>
  BY <1>2 DEF CreateInvitation, RevokeInvitation
<1>3. ASSUME NEW s \in SignIns,
             \/ \E u \in Users : FindByEmail(s, u)
             \/ \E u \in Users, i \in Invitations : FindByToken(s, u, i)
             \/ EndSignIn(s)
      PROVE  UNCHANGED <<role, usedBy, invitation>>
  BY <1>3 DEF FindByEmail, FindByToken, EndSignIn
<1>4. ASSUME NEW s \in SignIns, MarkAccepted(s) PROVE UNCHANGED <<role, usedBy>>
  BY <1>4 DEF MarkAccepted
<1>5. ASSUME NEW i \in Invitations, Expire(i) PROVE UNCHANGED <<role, usedBy>>
  BY <1>5 DEF Expire
<1>6. ASSUME NEW q \in Changes, WriteRole(q) PROVE UNCHANGED invitation
  BY <1>6 DEF WriteRole
<1>7. ASSUME NEW s \in SignIns, NEW i \in Invitations, Admit(s, i) PROVE UNCHANGED invitation
  BY <1>7 DEF Admit
<1>8. UNCHANGED vars => UNCHANGED <<role, usedBy, invitation>>
  BY DEF vars
<1> QED
  BY <1>1, <1>2, <1>3, <1>4, <1>5, <1>6, <1>7, <1>8 DEF Next

\* A role changes when a request writes it or a sign-in
\* admits its user.
LEMMA RoleWriters ==
    ASSUME IInv, [Next]_vars, NEW u \in Users, role'[u] # role[u]
    PROVE  \/ \E q \in Changes : WriteRole(q) /\ change[q].target = u
           \/ \E s \in SignIns, i \in Invitations : Admit(s, i) /\ accept[s].user = u
<1>1. role \in [Users -> OptionalRole]
  BY DEF IInv, TypeOK
<1>2. ASSUME NEW q \in Changes, WriteRole(q) PROVE change[q].target = u
  BY <1>1, <1>2 DEF WriteRole
<1>3. ASSUME NEW s \in SignIns, NEW i \in Invitations, Admit(s, i) PROVE accept[s].user = u
  BY <1>1, <1>3 DEF Admit
<1>4. (\E q \in Changes : WriteRole(q)) \/ (\E s \in SignIns, i \in Invitations : Admit(s, i))
  BY TableWriters
<1> QED
  BY <1>2, <1>3, <1>4

\* A role changes by an invitation, for who was no member, or by a request that was
\* entitled to write it: joining never makes an owner or alters a member, and only an
\* owner's request hands out the role owner or changes who was read as one.
THEOREM RoleChangesAuthorized == Spec => RoleChangesAreAuthorized
<1> DEFINE A == \A u \in Users : role'[u] # role[u] => JoinsByInvitation(u) \/ IsGivenRole(u)
<1>1. IInv /\ [Next]_vars => A
  <2> SUFFICES ASSUME IInv, [Next]_vars, NEW u \in Users, role'[u] # role[u]
               PROVE  JoinsByInvitation(u) \/ IsGivenRole(u)
    OBVIOUS
  <2>0. role \in [Users -> OptionalRole]
    BY DEF IInv, TypeOK
  <2>1. ASSUME NEW q \in Changes, WriteRole(q), change[q].target = u PROVE IsGivenRole(u)
    <3>1. role'[u] = change[q].wanted /\ change[q].step = "writing"
      BY <2>0, <2>1 DEF WriteRole
    <3>2. /\ MayManage(change[q].ctx)
          /\ "owner" \in {change[q].current, change[q].wanted} => change[q].ctx = "owner"
      BY <3>1 DEF IInv, ChangesAreChecked
    <3> QED
      BY <2>1, <3>1, <3>2 DEF IsGivenRole
  <2>2. ASSUME NEW s \in SignIns, NEW i \in Invitations, Admit(s, i), accept[s].user = u
        PROVE  JoinsByInvitation(u)
    <3>1. role'[u] = RoleOnceAdmitted(role[u], invitation[i].role)
      BY <2>0, <2>2 DEF Admit
    <3>2. role[u] = "none" /\ role'[u] = invitation[i].role
      BY <3>1 DEF RoleOnceAdmitted
    <3>3. u \in usedBy'[i] /\ invitation[i].role # "owner"
      BY <2>2 DEF Admit, IInv, TypeOK
    <3> QED
      BY <3>2, <3>3 DEF JoinsByInvitation
  <2> QED
    BY <2>1, <2>2, RoleWriters
<1>2. IInv /\ [Next]_vars => [A]_vars
  BY <1>1
<1> QED
  BY <1>2, Invariance, PTL DEF Spec, RoleChangesAreAuthorized

\* The invitations a sign-in holds are those it found live or some of those it held.
LEMMA FoundWhileLive ==
    ASSUME IInv, [Next]_vars, NEW i \in Invitations, invitation[i].closed # {},
           NEW s \in SignIns, i \in accept'[s].found
    PROVE  i \in accept[s].found
<1> USE DEF IInv, TypeOK
<1>0. accept \in [SignIns -> Accept]
  OBVIOUS
<1>1. ASSUME NEW t \in SignIns, NEW u \in Users, FindByEmail(t, u) PROVE i \in accept[s].found
  BY <1>0, <1>1 DEF FindByEmail, LiveInvitation
<1>2. ASSUME NEW t \in SignIns, NEW u \in Users, NEW j \in Invitations, FindByToken(t, u, j)
      PROVE  i \in accept[s].found
  BY <1>0, <1>2 DEF FindByToken, LiveInvitation
<1>3. ASSUME NEW t \in SignIns, NEW j \in Invitations, Admit(t, j) PROVE i \in accept[s].found
  <2>1. accept[t] \in Accept
    BY <1>0
  <2> QED
    BY <1>0, <1>3, <2>1 DEF Admit, Accept
<1>4. ASSUME NEW t \in SignIns, MarkAccepted(t) PROVE i \in accept[s].found
  <2>1. accept[t] \in Accept
    BY <1>0
  <2> QED
    BY <1>0, <1>4, <2>1 DEF MarkAccepted, Accept
<1>5. ASSUME NEW t \in SignIns, EndSignIn(t) PROVE i \in accept[s].found
  BY <1>0, <1>5 DEF EndSignIn, NoAccept
<1>6. ASSUME UNCHANGED accept PROVE i \in accept[s].found
  BY <1>6
<1>7. ASSUME NEW q \in Changes,
             \/ \E u \in Users, r \in OrgRole : Authenticate(q, u, r)
             \/ \E j \in Invitations, u \in Users, r \in OrgRole : CreateInvitation(q, j, u, r)
             \/ \E j \in Invitations : RevokeInvitation(q, j)
             \/ \E u \in Users, r \in OptionalRole : ReadTarget(q, u, r)
             \/ CountOwners(q)
             \/ WriteRole(q)
             \/ AbandonChange(q)
      PROVE  UNCHANGED accept
  BY <1>7 DEF Authenticate, CreateInvitation, RevokeInvitation, ReadTarget, CountOwners,
              WriteRole, AbandonChange
<1>8. ASSUME NEW j \in Invitations, Expire(j) PROVE UNCHANGED accept
  BY <1>8 DEF Expire
<1>9. UNCHANGED vars => UNCHANGED accept
  BY DEF vars
<1> HIDE DEF IInv, TypeOK
<1> QED
  BY <1>1, <1>2, <1>3, <1>4, <1>5, <1>6, <1>7, <1>8, <1>9 DEF Next

\* A column of an invitation that is set stays set.
LEMMA ClosedGrows ==
    ASSUME IInv, [Next]_vars, NEW i \in Invitations, invitation[i].closed # {}
    PROVE  invitation[i].closed \subseteq invitation'[i].closed
<1>0. invitation \in [Invitations -> Invitation] /\ invitation[i] \in Invitation
  BY DEF IInv, TypeOK
<1>1. ASSUME NEW q \in Changes, NEW j \in Invitations, NEW u \in Users, NEW r \in OrgRole,
             CreateInvitation(q, j, u, r)
      PROVE  invitation[i].closed \subseteq invitation'[i].closed
  BY <1>0, <1>1 DEF CreateInvitation, NoInvitation
<1>2. ASSUME NEW q \in Changes, NEW j \in Invitations, RevokeInvitation(q, j)
      PROVE  invitation[i].closed \subseteq invitation'[i].closed
  BY <1>0, <1>2 DEF RevokeInvitation, Invitation
<1>3. ASSUME NEW s \in SignIns, MarkAccepted(s)
      PROVE  invitation[i].closed \subseteq invitation'[i].closed
  BY <1>0, <1>3 DEF MarkAccepted, Invitation
<1>4. ASSUME NEW j \in Invitations, Expire(j)
      PROVE  invitation[i].closed \subseteq invitation'[i].closed
  BY <1>0, <1>4 DEF Expire, Invitation
<1>5. ASSUME UNCHANGED invitation
      PROVE  invitation[i].closed \subseteq invitation'[i].closed
  BY <1>5
<1>6. \/ UNCHANGED invitation
      \/ \E q \in Changes, j \in Invitations, u \in Users, r \in OrgRole :
           CreateInvitation(q, j, u, r)
      \/ \E q \in Changes, j \in Invitations : RevokeInvitation(q, j)
      \/ \E s \in SignIns : MarkAccepted(s)
      \/ \E j \in Invitations : Expire(j)
  BY TableWriters
<1> QED
  BY <1>1, <1>2, <1>3, <1>4, <1>5, <1>6

\* Only who holds an invitation is admitted by it.
LEMMA AdmittedHeldIt ==
    ASSUME IInv, [Next]_vars, NEW i \in Invitations, NEW u \in usedBy'[i] \ usedBy[i]
    PROVE  \E s \in SignIns : accept[s].user = u /\ i \in accept[s].found
<1>0. usedBy \in [Invitations -> SUBSET Users]
  BY DEF IInv, TypeOK
<1>1. ASSUME NEW s \in SignIns, NEW j \in Invitations, Admit(s, j)
      PROVE  accept[s].user = u /\ i \in accept[s].found
  BY <1>0, <1>1 DEF Admit
<1>2. \E s \in SignIns, j \in Invitations : Admit(s, j)
  BY TableWriters DEF WriteRole
<1> QED
  BY <1>1, <1>2

\* A closed invitation stays closed and admits only who had found it live.
THEOREM ClosedInvitations == Spec => ClosedInvitationsStayClosed
<1> DEFINE A == \A i \in Invitations :
                  invitation[i].closed # {} =>
                     /\ invitation[i].closed \subseteq invitation'[i].closed
                     /\ \A s \in SignIns : i \in accept'[s].found => i \in accept[s].found
                     /\ \A u \in usedBy'[i] \ usedBy[i] :
                          \E s \in SignIns : accept[s].user = u /\ i \in accept[s].found
<1>1. IInv /\ [Next]_vars => A
  BY ClosedGrows, FoundWhileLive, AdmittedHeldIt
<1>2. IInv /\ [Next]_vars => [A]_vars
  BY <1>1
<1> QED
  BY <1>2, Invariance, PTL DEF Spec, ClosedInvitationsStayClosed
=============================================================================
