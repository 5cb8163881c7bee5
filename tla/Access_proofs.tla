---------------------------- MODULE Access_proofs ----------------------------
(***************************************************************************)
(* Theorems about Access, for any number of users, teams, keys, links and  *)
(* calls, whatever levels are granted and roles are asked for.             *)
(***************************************************************************)
EXTENDS Access, TLAPS

----------------------------------------------------------------------------
(* The inductive invariant *)

\* A call on behalf of a member of the organization, from the lookup of the key or the role on.
ForMember(c) ==
    \/ call[c].at \in {"known", "begun", "teams", "grants", "resolved"}
    \/ call[c].at = "done" /\ call[c].link = NoLink

\* An idle call remembers nothing, and what was done is known when it is done.
Orderly(c) ==
    /\ call[c].at = "idle" => call[c] = NoCall
    /\ call[c].did # "nothing" => call[c].at = "done"
    /\ ForMember(c) =>
         call[c].user \in Users /\ call[c].cap \in OrgRoles /\ call[c].link = NoLink

\* The key of a call was issued, and the call goes on with no more than the role of the key.
HoldsKey(c) ==
    /\ call[c].at = "known" => call[c].key # NoKey
    /\ call[c].key # NoKey =>
         /\ key[call[c].key].state # "unissued"
         /\ call[c].at = "known" => call[c].cap = key[call[c].key].role
         /\ ForMember(c) => Rank[call[c].cap] <= Rank[key[call[c].key].role]

\* A key that minted another was issued.
MintsWereIssued == \A k \in Keys : key[k].via # NoKey => key[key[k].via].state # "unissued"

\* The role a call goes on with was allowed at some time since the call began.
RolesWithinReach ==
    \A c \in Calls :
        /\ ForMember(c) /\ call[c].at # "known" => Capability[call[c].cap] <= held[c].reach
        /\ call[c].at = "resolved" /\ call[c].level >= Editor => Capability[call[c].cap] >= Editor

\* A denial that stands since an operation began is among the teams it has read, and decides.
DenialsAreMet ==
    \A c \in Calls :
        /\ held[c].denials \subseteq Denials(c)
        /\ call[c].at \in {"teams", "grants"} =>
             \A s \in held[c].denials : s = call[c].user \/ s \in call[c].teams
        /\ call[c].at = "resolved" /\ held[c].denials # {} =>
             call[c].cap \in Privileged \/ call[c].level = 0

AdmittedAreInsiders ==
    \A c \in Calls : call[c].at = "admitted" \/ call[c].did = "shown" => ~held[c].outsider

IInv ==
    /\ TypeOK
    /\ \A c \in Calls : Orderly(c) /\ HoldsKey(c)
    /\ MintsWereIssued
    /\ KeyChainsNeverGainRank

\* What the histories say, on top of it.
HInv ==
    /\ RolesWithinReach
    /\ NobodyExceedsTheirRole
    /\ DenialsAreMet
    /\ DenialsVeto
    /\ AdmittedAreInsiders

----------------------------------------------------------------------------
(* Roles and levels *)

LEMMA RolesAreRanked ==
    /\ \A r \in OrgRoles : Rank[r] \in 1..4 /\ Capability[r] \in 1..Admin
    /\ \A r, s \in OrgRoles : Rank[r] <= Rank[s] => Capability[r] <= Capability[s]
    /\ \A r \in OrgRoles : Capability[r] < Editor => r = "viewer"
BY DEF OrgRoles, Rank, Capability, Viewer, Editor, Admin

\* The weaker of two roles is one of them, and ranks no higher than either.
LEMMA WeakerIsWeaker ==
    ASSUME NEW r \in OrgRoles, NEW s \in OrgRoles
    PROVE  /\ Weaker(r, s) \in OrgRoles
           /\ Rank[Weaker(r, s)] <= Rank[r] /\ Rank[Weaker(r, s)] <= Rank[s]
BY RolesAreRanked DEF Weaker

\* A set of levels has a highest one.
LEMMA HighestExists ==
    ASSUME NEW all \in SUBSET (1..Admin), all # {}
    PROVE  \E m \in all : \A l \in all : l <= m
<1>1. CASE 4 \in all
  BY <1>1 DEF Admin
<1>2. CASE 4 \notin all /\ 3 \in all
  BY <1>2 DEF Admin
<1>3. CASE 4 \notin all /\ 3 \notin all /\ 2 \in all
  BY <1>3 DEF Admin
<1>4. CASE 4 \notin all /\ 3 \notin all /\ 2 \notin all
  <2>1. \A l \in all : l = 1
    BY <1>4 DEF Admin
  <2>2. PICK m \in all : TRUE
    OBVIOUS
  <2> QED
    BY <2>1, <2>2
<1> QED
  BY <1>1, <1>2, <1>3, <1>4

\* resolve_doc_role gives a level, none of it to who is denied and below the administrators,
\* at least the lowest to everybody else, and no more than the lowest to a viewer.
LEMMA ResolveIsBounded ==
    ASSUME NEW r \in OrgRoles, NEW granted \in SUBSET (1..Admin), NEW denied \in BOOLEAN
    PROVE  /\ Resolve(r, granted, denied) \in 0..Admin
           /\ denied /\ r \notin Privileged => Resolve(r, granted, denied) = 0
           /\ ~denied \/ r \in Privileged => Resolve(r, granted, denied) >= Viewer
           /\ Resolve(r, granted, denied) >= Editor => r # "viewer"
<1> DEFINE all == granted \cup {Capability[r]}
           highest == CHOOSE m \in all : \A l \in all : l <= m
<1>1. all \in SUBSET (1..Admin) /\ all # {}
  BY RolesAreRanked
<1>2. highest \in all
  BY <1>1, HighestExists
<1>3. highest \in 1..Admin
  BY <1>1, <1>2
<1>4. Resolve(r, granted, denied) =
        IF denied /\ r \notin Privileged THEN 0
        ELSE IF r = "viewer" /\ highest > Viewer THEN Viewer
        ELSE highest
  BY DEF Resolve
<1> HIDE DEF highest
<1> QED
  BY <1>3, <1>4 DEF Viewer, Editor, Admin

----------------------------------------------------------------------------
(* Shapes of steps *)

CallOK(c) ==
    /\ call[c] \in Call
    /\ call[c].at \in {"known", "begun", "teams", "grants", "resolved"} =>
         call[c].user \in Users /\ call[c].cap \in OrgRoles
    /\ call[c].at \in {"linked", "admitted"} => call[c].link \in Links

KeyOK(k) ==
    /\ key[k] \in Key
    /\ key[k].state # "unissued" => key[k].by \in Users /\ key[k].role \in OrgRoles

Held == [denials: SUBSET Subjects, reach: 0..Admin, outsider: BOOLEAN]

LEMMA TypeByRecord ==
    TypeOK <=> /\ role \in [Users -> OrgRoles \cup {NoRole}]
               /\ founded \subseteq Teams
               /\ team \in [Teams -> SUBSET Users]
               /\ projectRule \in [Subjects -> (1..Admin) \cup {Unset}]
               /\ rule \in [Subjects -> (0..Admin) \cup {Unset}]
               /\ live \in BOOLEAN
               /\ key \in [Keys -> Key] /\ \A k \in Keys : KeyOK(k)
               /\ link \in [Links -> Link]
               /\ call \in [Calls -> Call] /\ \A c \in Calls : CallOK(c)
               /\ held \in [Calls -> Held]
               /\ changes \in 0..MaxChanges
BY DEF TypeOK, CallOK, KeyOK, Held

LEMMA NoCallIsTyped ==
    /\ NoCall \in Call
    /\ NoCall.at = "idle" /\ NoCall.did = "nothing"
    /\ NoCall.key = NoKey /\ NoCall.link = NoLink /\ NoCall.user = Nobody
BY DEF NoCall, Call, Deeds, Admin

LEMMA FinishedIsTyped ==
    ASSUME NEW r \in Call, NEW did \in Deeds
    PROVE  [r EXCEPT !.at = "done", !.did = did, !.doc = "unread", !.teams = {}, !.granted = {},
                     !.level = 0] \in Call
<1>1. ASSUME NEW ts \in SUBSET Teams, NEW gs \in SUBSET (1..Admin), NEW n \in 0..Admin
      PROVE  [r EXCEPT !.at = "done", !.did = did, !.doc = "unread", !.teams = ts,
                       !.granted = gs, !.level = n] \in Call
  BY DEF Call
<1>2. {} \in SUBSET Teams /\ {} \in SUBSET (1..Admin) /\ 0 \in 0..Admin
  BY DEF Admin
<1> QED
  BY <1>1, <1>2

\* What a call may have done, by the place at which it did it.
Allowed(c, did) ==
    /\ did \in Deeds
    /\ did = "read" => Authorized(c, Viewer)
    /\ did = "written" => Authorized(c, Editor)
    /\ did = "labelled" => Writes(c)
    /\ did \in {"nothing", "listed", "browsed"} => call[c].at = "begun"
    /\ did = "listed" =>
         /\ call[c].cap \in Privileged \/ Denials(c) = {}
         /\ UNCHANGED <<team, rule>>
    /\ did = "administered" => Administers(c)
    /\ did = "shown" => call[c].at = "admitted"

\* An operation, a list or an administrative act ends.
Finishes(c) == \E did \in Deeds : Finish(c, did) /\ Allowed(c, did)

\* What a step means for one of the calls.
StepOf(c) ==
    \/ call'[c] = call[c]
    \/ \E u \in Users : PresentSession(c, u)
    \/ \E k \in Keys : PresentKey(c, k)
    \/ ReadRole(c) \/ EndCall(c) \/ NextMessage(c)
    \/ ReadTeams(c) \/ ReadGrants(c) \/ ReadDenials(c)
    \/ \E l \in Links, u \in Users \cup {Nobody} : PresentLink(c, l, u)
    \/ PassAudience(c)
    \/ Finishes(c)

\* Keys are issued once, keep their role and origin, and stay revoked.
KeysStay ==
    \A k \in Keys : key[k].state # "unissued" =>
        /\ key'[k].state # "unissued"
        /\ key'[k].role = key[k].role /\ key'[k].via = key[k].via
        /\ key[k].state = "revoked" => key'[k].state = "revoked"

\* Another call does not move while one does.
LEMMA OthersStay ==
    ASSUME TypeOK, NEW c \in Calls, NEW r, call' = [call EXCEPT ![c] = r]
    PROVE  \A d \in Calls \ {c} : call'[d] = call[d]
BY DEF TypeOK

LEMMA FinishOthersStay ==
    ASSUME TypeOK, NEW c \in Calls, NEW did, Finish(c, did)
    PROVE  \A d \in Calls \ {c} : call'[d] = call[d]
BY DEF TypeOK, Finish

LEMMA AuthenticationIsAStep ==
    ASSUME TypeOK, NEW c \in Calls, Authentication(c), NEW d \in Calls
    PROVE  StepOf(d) /\ UNCHANGED <<tables, changes>>
<1>1. UNCHANGED <<tables, changes>>
  BY DEF Authentication, PresentSession, PresentKey, ReadRole, EndCall, NextMessage
<1>2. d # c => call'[d] = call[d]
  BY DEF Authentication, PresentSession, PresentKey, ReadRole, EndCall, NextMessage, TypeOK
<1> QED
  BY <1>1, <1>2 DEF Authentication, StepOf

LEMMA OperationIsAStep ==
    ASSUME TypeOK, NEW c \in Calls, Operation(c), NEW d \in Calls
    PROVE  StepOf(d) /\ UNCHANGED <<role, rules, key>>
<1>1. CASE ReadTeams(c) \/ ReadGrants(c) \/ ReadDenials(c)
  <2>1. d # c => call'[d] = call[d]
    BY <1>1 DEF ReadTeams, ReadGrants, ReadDenials, TypeOK
  <2>2. UNCHANGED <<role, rules, key>>
    BY <1>1 DEF ReadTeams, ReadGrants, ReadDenials, tables
  <2> QED
    BY <1>1, <2>1, <2>2 DEF StepOf
<1>2. CASE ReadDocument(c)
  <2>1. Finish(c, "read") /\ Authorized(c, Viewer) /\ UNCHANGED <<role, rules, key>>
    BY <1>2 DEF ReadDocument, tables
  <2> QED
    BY <2>1, FinishOthersStay DEF StepOf, Finishes, Allowed, Deeds
<1>3. ASSUME \/ WriteDocument(c) \/ SetDeleted(c)
             \/ \E l \in Links, audience \in Audiences : CreateShareLink(c, l, audience)
             \/ \E l \in Links : RevokeShareLink(c, l)
      PROVE  StepOf(d) /\ UNCHANGED <<role, rules, key>>
  <2>1. Finish(c, "written") /\ Authorized(c, Editor) /\ UNCHANGED <<role, rules, key>>
    BY <1>3 DEF WriteDocument, SetDeleted, CreateShareLink, RevokeShareLink, tables
  <2> QED
    BY <2>1, FinishOthersStay DEF StepOf, Finishes, Allowed, Deeds
<1> QED
  BY <1>1, <1>2, <1>3 DEF Operation

LEMMA ListingIsAStep ==
    ASSUME TypeOK, NEW c \in Calls, Listing(c), NEW d \in Calls
    PROVE  StepOf(d) /\ UNCHANGED <<tables, changes>>
<1>1. PICK matches \in BOOLEAN : ListOrNot(c, matches)
  BY DEF Listing, ListDocuments, ListDocumentsWithTag, Search, SemanticSearch, HybridSearch
<1>2. PICK did \in {"listed", "nothing"} :
         /\ Finish(c, did) /\ call[c].at = "begun"
         /\ did = "listed" => Lists(call[c].cap, call[c].user)
  BY <1>1 DEF ListOrNot
<1>3. UNCHANGED <<tables, changes>>
  BY <1>1 DEF ListOrNot
<1>4. did = "listed" => call[c].cap \in Privileged \/ Denials(c) = {}
  BY <1>2 DEF Lists, Denials
<1>5. Allowed(c, did)
  BY <1>2, <1>3, <1>4 DEF Allowed, Deeds, tables, rules
<1> QED
  BY <1>2, <1>3, <1>5, FinishOthersStay DEF StepOf, Finishes, Deeds

LEMMA LabellingIsAStep ==
    ASSUME TypeOK, NEW c \in Calls, Labelling(c), NEW d \in Calls
    PROVE  StepOf(d) /\ UNCHANGED <<tables, changes>>
<1>1. PICK did \in {"labelled", "browsed", "nothing"} :
         /\ Finish(c, did)
         /\ did = "labelled" => Writes(c)
         /\ did # "labelled" => call[c].at = "begun"
  BY DEF Labelling, AddDocumentTag, CategorizeDocument, ListDocumentsInCategory
<1>2. UNCHANGED <<tables, changes>>
  BY DEF Labelling, AddDocumentTag, CategorizeDocument, ListDocumentsInCategory
<1>3. Allowed(c, did)
  BY <1>1 DEF Allowed, Deeds
<1> QED
  BY <1>1, <1>2, <1>3, FinishOthersStay DEF StepOf, Finishes, Deeds

LEMMA AdministrationIsAStep ==
    ASSUME TypeOK, NEW c \in Calls, Administration(c), NEW d \in Calls
    PROVE  StepOf(d) /\ UNCHANGED <<role, live, link>>
<1>1. Finish(c, "administered") /\ Administers(c) /\ UNCHANGED <<role, live, link>>
  BY DEF Administration, CreateTeam, AddTeamMember, GrantProject, GrantDocument, CreateApiKey,
         RevokeApiKey, rules
<1> QED
  BY <1>1, FinishOthersStay DEF StepOf, Finishes, Allowed, Deeds

LEMMA SharingIsAStep ==
    ASSUME TypeOK, NEW c \in Calls, Sharing(c), NEW d \in Calls
    PROVE  StepOf(d) /\ UNCHANGED <<tables, changes>>
<1>1. CASE ShowDocument(c)
  <2>1. Finish(c, "shown") /\ call[c].at = "admitted" /\ UNCHANGED <<tables, changes>>
    BY <1>1 DEF ShowDocument
  <2> QED
    BY <2>1, FinishOthersStay DEF StepOf, Finishes, Allowed, Deeds
<1>2. ASSUME \/ \E l \in Links, u \in Users \cup {Nobody} : PresentLink(c, l, u)
             \/ PassAudience(c)
      PROVE  StepOf(d) /\ UNCHANGED <<tables, changes>>
  <2>1. d # c => call'[d] = call[d]
    BY <1>2 DEF PresentLink, PassAudience, TypeOK
  <2>2. UNCHANGED <<tables, changes>>
    BY <1>2 DEF PresentLink, PassAudience
  <2> QED
    BY <1>2, <2>1, <2>2 DEF StepOf
<1> QED
  BY <1>1, <1>2 DEF Sharing

\* Every step is one of these, for every call, and keeps the keys that were issued.
LEMMA StepOfNext ==
    ASSUME TypeOK, Next
    PROVE  (\A d \in Calls : StepOf(d)) /\ KeysStay /\ Remember
<1>0. key \in [Keys -> Key]
  BY DEF TypeOK
<1>1. UNCHANGED key => KeysStay
  BY DEF KeysStay
<1>2. ASSUME NEW c \in Calls, \/ Authentication(c) \/ Operation(c) \/ Labelling(c)
                              \/ Listing(c) \/ Sharing(c)
      PROVE  (\A d \in Calls : StepOf(d)) /\ UNCHANGED key
  BY <1>2, AuthenticationIsAStep, OperationIsAStep, LabellingIsAStep, ListingIsAStep,
     SharingIsAStep DEF tables
<1>3. ASSUME NEW c \in Calls, Administration(c)
      PROVE  (\A d \in Calls : StepOf(d)) /\ KeysStay
  <2>1. \A d \in Calls : StepOf(d)
    BY <1>3, AdministrationIsAStep
  <2>2. \/ UNCHANGED key
        \/ \E k \in Keys, r \in AskedRoles : CreateApiKey(c, k, r)
        \/ \E k \in Keys : RevokeApiKey(c, k)
    BY <1>3 DEF Administration, CreateTeam, AddTeamMember, GrantProject, GrantDocument
  <2>3. ASSUME NEW k \in Keys, NEW r \in AskedRoles, CreateApiKey(c, k, r) PROVE KeysStay
    BY <1>0, <2>3 DEF CreateApiKey, KeysStay
  <2>4. ASSUME NEW k \in Keys, RevokeApiKey(c, k) PROVE KeysStay
    BY <1>0, <2>4 DEF RevokeApiKey, KeysStay, Key
  <2> QED
    BY <1>1, <2>1, <2>2, <2>3, <2>4
<1>4. ASSUME \/ \E l \in Links : LinkExpires(l)
             \/ \E u \in Users, r \in OrgRoles \cup {NoRole} : SetRole(u, r)
      PROVE  (\A d \in Calls : StepOf(d)) /\ UNCHANGED key
  BY <1>4 DEF LinkExpires, SetRole, StepOf
<1> QED
  BY <1>1, <1>2, <1>3, <1>4 DEF Next

----------------------------------------------------------------------------
(* Invariance of IInv *)

\* What the tables hold, after any step.
LEMMA TablesTyped ==
    ASSUME IInv, Next
    PROVE  /\ role' \in [Users -> OrgRoles \cup {NoRole}]
           /\ founded' \subseteq Teams
           /\ team' \in [Teams -> SUBSET Users]
           /\ projectRule' \in [Subjects -> (1..Admin) \cup {Unset}]
           /\ rule' \in [Subjects -> (0..Admin) \cup {Unset}]
           /\ live' \in BOOLEAN
           /\ key' \in [Keys -> Key] /\ \A k \in Keys : KeyOK(k)'
           /\ link' \in [Links -> Link]
           /\ changes' \in 0..MaxChanges
<1> USE AccessAssumption
<1> DEFINE Goal == /\ role' \in [Users -> OrgRoles \cup {NoRole}]
                   /\ founded' \subseteq Teams
                   /\ team' \in [Teams -> SUBSET Users]
                   /\ projectRule' \in [Subjects -> (1..Admin) \cup {Unset}]
                   /\ rule' \in [Subjects -> (0..Admin) \cup {Unset}]
                   /\ live' \in BOOLEAN
                   /\ key' \in [Keys -> Key] /\ \A k \in Keys : KeyOK(k)'
                   /\ link' \in [Links -> Link]
                   /\ changes' \in 0..MaxChanges
<1>0. /\ role \in [Users -> OrgRoles \cup {NoRole}]
      /\ founded \subseteq Teams
      /\ team \in [Teams -> SUBSET Users]
      /\ projectRule \in [Subjects -> (1..Admin) \cup {Unset}]
      /\ rule \in [Subjects -> (0..Admin) \cup {Unset}]
      /\ live \in BOOLEAN
      /\ key \in [Keys -> Key] /\ \A k \in Keys : KeyOK(k)
      /\ link \in [Links -> Link]
      /\ changes \in 0..MaxChanges
      /\ \A c \in Calls : CallOK(c)
      /\ TypeOK
  BY TypeByRecord DEF IInv
<1>a. ASSUME UNCHANGED <<tables, changes>> PROVE Goal
  BY <1>0, <1>a DEF tables, rules, KeyOK
<1>b. Change => changes' \in 0..MaxChanges
  BY <1>0 DEF Change
<1>1. ASSUME NEW c \in Calls, Authentication(c) \/ Labelling(c) \/ Listing(c) \/ Sharing(c)
      PROVE  Goal
  BY <1>0, <1>1, <1>a, AuthenticationIsAStep, LabellingIsAStep, ListingIsAStep, SharingIsAStep
<1>2. ASSUME NEW c \in Calls, Operation(c) PROVE Goal
  <2>1. CASE UNCHANGED <<tables, changes>>
    BY <2>1, <1>a
  <2>2. CASE SetDeleted(c)
    BY <1>0, <1>b, <2>2 DEF SetDeleted, rules, KeyOK
  <2>3. ASSUME NEW l \in Links, NEW audience \in Audiences, CreateShareLink(c, l, audience)
        PROVE  Goal
    <3>1. link' \in [Links -> Link]
      BY <1>0, <2>3 DEF CreateShareLink, Link
    <3> QED
      BY <1>0, <1>b, <2>3, <3>1 DEF CreateShareLink, rules, KeyOK
  <2>4. ASSUME NEW l \in Links, RevokeShareLink(c, l) PROVE Goal
    <3>1. link' \in [Links -> Link]
      BY <1>0, <2>4 DEF RevokeShareLink, Link
    <3> QED
      BY <1>0, <1>b, <2>4, <3>1 DEF RevokeShareLink, rules, KeyOK
  <2> QED
    BY <1>2, <2>1, <2>2, <2>3, <2>4
       DEF Operation, ReadTeams, ReadGrants, ReadDenials, ReadDocument, WriteDocument
<1>3. ASSUME NEW c \in Calls, Administration(c) PROVE Goal
  <2>1. ASSUME NEW t \in Teams, CreateTeam(c, t) PROVE Goal
    BY <1>0, <1>b, <2>1 DEF CreateTeam, KeyOK
  <2>2. ASSUME NEW t \in Teams, NEW u \in Users, AddTeamMember(c, t, u) PROVE Goal
    BY <1>0, <1>b, <2>2 DEF AddTeamMember, KeyOK
  <2>3. ASSUME NEW s \in Subjects, NEW l \in Levels, GrantProject(c, s, l) PROVE Goal
    <3>1. l \in 1..Admin
      BY <2>3 DEF GrantProject, GrantableOnProject, Admin
    <3> QED
      BY <1>0, <1>b, <2>3, <3>1 DEF GrantProject, KeyOK
  <2>4. ASSUME NEW s \in Subjects, NEW l \in Levels, GrantDocument(c, s, l) PROVE Goal
    BY <1>0, <1>b, <2>4 DEF GrantDocument, KeyOK
  <2>5. ASSUME NEW k \in Keys, NEW r \in AskedRoles, CreateApiKey(c, k, r) PROVE Goal
    <3> DEFINE new == [state |-> "valid", by |-> call[c].user,
                       role |-> Clamped(r, call[c].cap), via |-> call[c].key]
    <3>1. call[c] \in Call /\ call[c].user \in Users /\ call[c].cap \in OrgRoles
      BY <1>0, <2>5 DEF CreateApiKey, Administers, CallOK
    <3>2. Clamped(r, call[c].cap) \in OrgRoles
      BY <3>1, WeakerIsWeaker DEF Clamped
    <3>3. new \in Key /\ new.by \in Users /\ new.role \in OrgRoles
      BY <3>1, <3>2 DEF Key, Call
    <3>4. key' = [key EXCEPT ![k] = new]
      BY <2>5 DEF CreateApiKey
    <3> HIDE DEF new
    <3>5. key' \in [Keys -> Key] /\ \A j \in Keys : KeyOK(j)'
      BY <1>0, <3>3, <3>4 DEF KeyOK
    <3> QED
      BY <1>0, <1>b, <2>5, <3>5 DEF CreateApiKey, rules
  <2>6. ASSUME NEW k \in Keys, RevokeApiKey(c, k) PROVE Goal
    <3>1. key' \in [Keys -> Key] /\ \A j \in Keys : KeyOK(j)'
      BY <1>0, <2>6 DEF RevokeApiKey, Key, KeyOK
    <3> QED
      BY <1>0, <1>b, <2>6, <3>1 DEF RevokeApiKey, rules
  <2> QED
    BY <1>3, <2>1, <2>2, <2>3, <2>4, <2>5, <2>6 DEF Administration
<1>4. ASSUME NEW l \in Links, LinkExpires(l) PROVE Goal
  <2>1. link' \in [Links -> Link]
    BY <1>0, <1>4 DEF LinkExpires, Link
  <2> QED
    BY <1>0, <1>b, <1>4, <2>1 DEF LinkExpires, rules, KeyOK
<1>5. ASSUME NEW u \in Users, NEW r \in OrgRoles \cup {NoRole}, SetRole(u, r) PROVE Goal
  BY <1>0, <1>b, <1>5 DEF SetRole, rules, KeyOK
<1> QED
  BY <1>1, <1>2, <1>3, <1>4, <1>5 DEF Next

\* What a call holds, after any step: its record, its place and its key.
LEMMA CallsTyped ==
    ASSUME IInv, Next, NEW c \in Calls
    PROVE  CallOK(c)' /\ Orderly(c)' /\ HoldsKey(c)'
<1> USE AccessAssumption
<1> DEFINE Goal == CallOK(c)' /\ Orderly(c)' /\ HoldsKey(c)'
<1>0. /\ call \in [Calls -> Call] /\ CallOK(c) /\ Orderly(c) /\ HoldsKey(c)
      /\ role \in [Users -> OrgRoles \cup {NoRole}]
      /\ key \in [Keys -> Key] /\ \A k \in Keys : KeyOK(k)
      /\ team \in [Teams -> SUBSET Users]
      /\ projectRule \in [Subjects -> (1..Admin) \cup {Unset}]
      /\ rule \in [Subjects -> (0..Admin) \cup {Unset}]
      /\ StepOf(c) /\ KeysStay
  BY TypeByRecord, StepOfNext DEF IInv
<1>00. call[c] \in Call /\ (call[c].key # NoKey => call[c].key \in Keys)
  BY <1>0 DEF Call
<1>a. CASE call'[c] = call[c]
  BY <1>0, <1>00, <1>a DEF CallOK, Orderly, HoldsKey, ForMember, KeysStay
<1>b. CASE call'[c] = NoCall
  BY <1>b, NoCallIsTyped DEF CallOK, Orderly, HoldsKey, ForMember
<1>1. ASSUME NEW u \in Users, PresentSession(c, u) PROVE Goal
  <2> DEFINE new == [NoCall EXCEPT !.at = "begun", !.user = u, !.cap = role[u]]
  <2>1. call'[c] = new /\ role[u] \in OrgRoles
    BY <1>0, <1>1 DEF PresentSession
  <2>2. /\ new \in Call /\ new.at = "begun" /\ new.user = u /\ new.cap = role[u]
        /\ new.key = NoKey /\ new.link = NoLink /\ new.did = "nothing"
    BY <2>1, NoCallIsTyped DEF Call
  <2> HIDE DEF new
  <2> QED
    BY <2>1, <2>2 DEF CallOK, Orderly, HoldsKey, ForMember
<1>2. ASSUME NEW k \in Keys, PresentKey(c, k) PROVE Goal
  <2> DEFINE new == [NoCall EXCEPT !.at = "known", !.user = key[k].by, !.key = k,
                                   !.cap = key[k].role]
  <2>1. /\ call'[c] = new /\ UNCHANGED key
        /\ key[k].state # "unissued" /\ key[k].by \in Users /\ key[k].role \in OrgRoles
    BY <1>0, <1>2 DEF PresentKey, KeyOK, tables
  <2>2. /\ new \in Call /\ new.at = "known" /\ new.user = key[k].by /\ new.cap = key[k].role
        /\ new.key = k /\ new.link = NoLink /\ new.did = "nothing"
    BY <2>1, NoCallIsTyped DEF Call
  <2>3. Rank[new.cap] <= Rank[key[k].role] /\ k # NoKey
    BY <2>1, <2>2, RolesAreRanked
  <2> HIDE DEF new
  <2> QED
    BY <2>1, <2>2, <2>3 DEF CallOK, Orderly, HoldsKey, ForMember
<1>3. CASE ReadRole(c)
  <2> DEFINE weak == Weaker(call[c].cap, role[call[c].user])
             new == [call[c] EXCEPT !.at = "begun", !.cap = weak]
  <2>1. /\ call'[c] = new /\ UNCHANGED key
        /\ call[c].at = "known" /\ call[c].user \in Users /\ call[c].cap \in OrgRoles
        /\ role[call[c].user] \in OrgRoles /\ call[c].link = NoLink /\ call[c].did = "nothing"
    BY <1>0, <1>3 DEF ReadRole, Orderly, ForMember, tables
  <2>2. weak \in OrgRoles /\ Rank[weak] <= Rank[call[c].cap]
    BY <2>1, WeakerIsWeaker
  <2> HIDE DEF weak
  <2>3. /\ new \in Call /\ new.at = "begun" /\ new.user = call[c].user /\ new.cap = weak
        /\ new.key = call[c].key /\ new.link = call[c].link /\ new.did = call[c].did
    BY <1>00, <2>2 DEF Call
  <2>4. call[c].key # NoKey => call[c].cap = key[call[c].key].role
    BY <1>0, <2>1 DEF HoldsKey
  <2> HIDE DEF new
  <2> QED
    BY <1>0, <2>1, <2>2, <2>3, <2>4 DEF CallOK, Orderly, HoldsKey, ForMember
<1>4. CASE NextMessage(c)
  <2> DEFINE new == [call[c] EXCEPT !.at = "begun", !.did = "nothing"]
  <2>1. call'[c] = new /\ UNCHANGED key /\ ForMember(c)
    BY <1>0, <1>4 DEF NextMessage, ForMember, tables
  <2>2. /\ new \in Call /\ new.at = "begun" /\ new.user = call[c].user /\ new.cap = call[c].cap
        /\ new.key = call[c].key /\ new.link = call[c].link /\ new.did = "nothing"
    BY <1>00 DEF Call, Deeds
  <2> HIDE DEF new
  <2> QED
    BY <1>0, <2>1, <2>2 DEF CallOK, Orderly, HoldsKey, ForMember
<1>5. ASSUME NEW new \in Call, call'[c] = new, UNCHANGED key,
             call[c].at \in {"begun", "teams", "grants", "resolved"},
             new.at \in {"teams", "grants", "resolved"},
             new.user = call[c].user, new.cap = call[c].cap,
             new.key = call[c].key, new.link = call[c].link, new.did = call[c].did
      PROVE  Goal
  BY <1>0, <1>5 DEF CallOK, Orderly, HoldsKey, ForMember
<1>6. CASE ReadTeams(c)
  <2> DEFINE ts == TeamsOf(call[c].user)
             row == IF live THEN "live" ELSE "deleted"
             new == [call[c] EXCEPT !.at = "teams", !.doc = row, !.teams = ts]
  <2>1. ts \in SUBSET Teams /\ row \in {"live", "deleted"}
    BY DEF TeamsOf
  <2> HIDE DEF ts, row
  <2>2. /\ new \in Call /\ new.at = "teams" /\ new.user = call[c].user /\ new.cap = call[c].cap
        /\ new.key = call[c].key /\ new.link = call[c].link /\ new.did = call[c].did
    BY <1>00, <2>1 DEF Call
  <2>3. call'[c] = new /\ UNCHANGED key /\ call[c].at = "begun"
    BY <1>0, <1>6 DEF ReadTeams, tables, ts, row
  <2> HIDE DEF new
  <2> QED
    BY <1>5, <2>2, <2>3
<1>7. CASE ReadGrants(c)
  <2> DEFINE gs == Granted(call[c].user, call[c].teams)
             new == [call[c] EXCEPT !.at = "grants", !.granted = gs]
  <2>1. gs \in SUBSET (1..Admin)
    BY DEF Granted
  <2> HIDE DEF gs
  <2>2. /\ new \in Call /\ new.at = "grants" /\ new.user = call[c].user /\ new.cap = call[c].cap
        /\ new.key = call[c].key /\ new.link = call[c].link /\ new.did = call[c].did
    BY <1>00, <2>1 DEF Call
  <2>3. call'[c] = new /\ UNCHANGED key /\ call[c].at = "teams"
    BY <1>0, <1>7 DEF ReadGrants, tables, gs
  <2> HIDE DEF new
  <2> QED
    BY <1>5, <2>2, <2>3
<1>8. CASE ReadDenials(c)
  <2> DEFINE denied == Denied(call[c].user, call[c].teams)
             level == Resolve(call[c].cap, call[c].granted, denied)
             new == [call[c] EXCEPT !.at = "resolved", !.level = level]
  <2>0. denied \in BOOLEAN /\ call[c].granted \in SUBSET (1..Admin) /\ call[c].cap \in OrgRoles
    BY <1>0, <1>00, <1>8 DEF Denied, Call, ReadDenials, CallOK
  <2> HIDE DEF denied
  <2>1. level \in 0..Admin
    BY <2>0, ResolveIsBounded
  <2> HIDE DEF level
  <2>2. /\ new \in Call /\ new.at = "resolved" /\ new.user = call[c].user /\ new.cap = call[c].cap
        /\ new.key = call[c].key /\ new.link = call[c].link /\ new.did = call[c].did
    BY <1>00, <2>1 DEF Call
  <2>3. call'[c] = new /\ UNCHANGED key /\ call[c].at = "grants"
    BY <1>0, <1>8 DEF ReadDenials, tables, level, denied
  <2> HIDE DEF new
  <2> QED
    BY <1>5, <2>2, <2>3
<1>9. ASSUME NEW l \in Links, NEW u \in Users \cup {Nobody}, PresentLink(c, l, u) PROVE Goal
  <2> DEFINE new == [NoCall EXCEPT !.at = "linked", !.user = u, !.link = l]
  <2>1. call'[c] = new
    BY <1>0, <1>9 DEF PresentLink
  <2>2. /\ new \in Call /\ new.at = "linked" /\ new.key = NoKey /\ new.link = l
        /\ new.did = "nothing"
    BY NoCallIsTyped DEF Call
  <2> HIDE DEF new
  <2> QED
    BY <2>1, <2>2 DEF CallOK, Orderly, HoldsKey, ForMember
<1>10. CASE PassAudience(c)
  <2> DEFINE new == [call[c] EXCEPT !.at = "admitted"]
  <2>1. call'[c] = new /\ UNCHANGED key /\ call[c].at = "linked"
    BY <1>0, <1>10 DEF PassAudience, tables
  <2>2. /\ new \in Call /\ new.at = "admitted" /\ new.key = call[c].key
        /\ new.link = call[c].link /\ new.did = call[c].did
    BY <1>00 DEF Call
  <2> HIDE DEF new
  <2> QED
    BY <1>0, <2>1, <2>2 DEF CallOK, Orderly, HoldsKey, ForMember
<1>11. CASE Finishes(c)
  <2>1. PICK did \in Deeds : Finish(c, did) /\ Allowed(c, did)
    BY <1>11 DEF Finishes
  <2> DEFINE new == [call[c] EXCEPT !.at = "done", !.did = did, !.doc = "unread",
                                    !.teams = {}, !.granted = {}, !.level = 0]
  <2>2. call'[c] = new
    BY <1>0, <2>1 DEF Finish
  <2>3. /\ new \in Call /\ new.at = "done" /\ new.did = did /\ new.user = call[c].user
        /\ new.cap = call[c].cap /\ new.key = call[c].key /\ new.link = call[c].link
    <3>1. new \in Call
      BY <1>00, FinishedIsTyped
    <3>2. /\ new.at = "done" /\ new.did = did /\ new.user = call[c].user
          /\ new.cap = call[c].cap /\ new.key = call[c].key /\ new.link = call[c].link
      BY <1>00 DEF Call
    <3> QED
      BY <3>1, <3>2
  <2> HIDE DEF new
  <2>4. call[c].at \in {"begun", "resolved", "admitted"}
    BY <2>1 DEF Allowed, Deeds, Authorized, Writes, Administers
  <2>5. call[c].at = "admitted" => call[c].link # NoLink
    BY <1>0 DEF CallOK
  <2> QED
    BY <1>0, <1>00, <2>2, <2>3, <2>4, <2>5 DEF CallOK, Orderly, HoldsKey, ForMember, KeysStay
<1> QED
  BY <1>0, <1>a, <1>b, <1>1, <1>2, <1>3, <1>4, <1>6, <1>7, <1>8, <1>9, <1>10, <1>11
     DEF StepOf, EndCall

\* A new key is minted within the role of the call, and that within the key it used.
LEMMA ChainsPreserved ==
    ASSUME IInv, Next
    PROVE  MintsWereIssued' /\ KeyChainsNeverGainRank'
<1> USE AccessAssumption
<1> DEFINE Goal == MintsWereIssued' /\ KeyChainsNeverGainRank'
<1>0. /\ key \in [Keys -> Key] /\ \A k \in Keys : KeyOK(k)
      /\ \A c \in Calls : CallOK(c) /\ HoldsKey(c)
      /\ KeysStay
      /\ MintsWereIssued /\ KeyChainsNeverGainRank
  BY TypeByRecord, StepOfNext DEF IInv
<1>00. \A k \in Keys : key[k].via # NoKey => key[k].via \in Keys
  BY <1>0 DEF Key
<1>1. ASSUME \A k \in Keys : key'[k].via = key[k].via /\ key'[k].role = key[k].role PROVE Goal
  BY <1>0, <1>00, <1>1 DEF KeysStay, MintsWereIssued, KeyChainsNeverGainRank
<1>2. ASSUME NEW c \in Calls, NEW k \in Keys, NEW r \in AskedRoles, CreateApiKey(c, k, r)
      PROVE  Goal
  <2> DEFINE new == [state |-> "valid", by |-> call[c].user,
                     role |-> Clamped(r, call[c].cap), via |-> call[c].key]
  <2>1. key' = [key EXCEPT ![k] = new] /\ key[k].state = "unissued" /\ call[c].at = "begun"
    BY <1>2 DEF CreateApiKey, Administers
  <2>2. new.state = "valid" /\ new.role = Clamped(r, call[c].cap) /\ new.via = call[c].key
    OBVIOUS
  <2> HIDE DEF new
  <2>3. call[c].cap \in OrgRoles /\ (call[c].key # NoKey => call[c].key \in Keys)
    BY <1>0, <2>1 DEF CallOK, Call
  <2>4. /\ Clamped(r, call[c].cap) \in OrgRoles
        /\ Rank[Clamped(r, call[c].cap)] <= Rank[call[c].cap]
    BY <2>3, WeakerIsWeaker DEF Clamped
  <2>5. key'[k] = new /\ \A j \in Keys \ {k} : key'[j] = key[j]
    BY <1>0, <2>1
  <2>6. ASSUME call[c].key # NoKey
        PROVE  /\ call[c].key # k /\ key[call[c].key].state # "unissued"
               /\ Rank[new.role] <= Rank[key[call[c].key].role]
    <3>1. key[call[c].key].state # "unissued" /\ Rank[call[c].cap] <= Rank[key[call[c].key].role]
      BY <1>0, <2>1, <2>6 DEF HoldsKey, ForMember
    <3>2. key[call[c].key].role \in OrgRoles
      BY <1>0, <2>3, <2>6, <3>1 DEF KeyOK
    <3> QED
      BY <2>1, <2>2, <2>3, <2>4, <3>1, <3>2, RolesAreRanked
  <2>7. \A j \in Keys \ {k} : key[j].via # NoKey => key[j].via # k
    BY <1>0, <2>1 DEF MintsWereIssued
  <2>8. MintsWereIssued'
    BY <1>0, <1>00, <2>2, <2>3, <2>5, <2>6, <2>7 DEF MintsWereIssued
  <2>9. KeyChainsNeverGainRank'
    BY <1>0, <1>00, <2>2, <2>3, <2>5, <2>6, <2>7 DEF KeyChainsNeverGainRank
  <2> QED
    BY <2>8, <2>9
<1>3. ASSUME NEW c \in Calls, NEW k \in Keys, RevokeApiKey(c, k) PROVE Goal
  <2>1. \A j \in Keys : key'[j].via = key[j].via /\ key'[j].role = key[j].role
    BY <1>0, <1>3 DEF RevokeApiKey, Key
  <2> QED
    BY <1>1, <2>1
<1>4. CASE UNCHANGED key
  BY <1>1, <1>4
<1>5. ASSUME NEW c \in Calls, \/ Authentication(c) \/ Operation(c) \/ Labelling(c)
                              \/ Listing(c) \/ Sharing(c)
      PROVE  UNCHANGED key
  BY <1>5, AuthenticationIsAStep, OperationIsAStep, LabellingIsAStep, ListingIsAStep,
     SharingIsAStep DEF IInv, tables
<1>6. ASSUME NEW c \in Calls, Administration(c)
      PROVE  \/ UNCHANGED key
             \/ \E k \in Keys, r \in AskedRoles : CreateApiKey(c, k, r)
             \/ \E k \in Keys : RevokeApiKey(c, k)
  BY <1>6 DEF Administration, CreateTeam, AddTeamMember, GrantProject, GrantDocument
<1>7. ASSUME \/ \E l \in Links : LinkExpires(l)
             \/ \E u \in Users, r \in OrgRoles \cup {NoRole} : SetRole(u, r)
      PROVE  UNCHANGED key
  BY <1>7 DEF LinkExpires, SetRole
<1> QED
  BY <1>2, <1>3, <1>4, <1>5, <1>6, <1>7 DEF Next

\* What is remembered has its type, after any step.
LEMMA HeldTyped ==
    ASSUME IInv, Next
    PROVE  held' \in [Calls -> Held] /\ \A c \in Calls : Reach(c)' \in 0..Admin
<1> USE AccessAssumption
<1>0. /\ held \in [Calls -> Held]
      /\ role' \in [Users -> OrgRoles \cup {NoRole}]
      /\ \A k \in Keys : KeyOK(k)'
      /\ \A c \in Calls : CallOK(c)' /\ HoldsKey(c)'
      /\ Remember
  BY TypeByRecord, StepOfNext, TablesTyped, CallsTyped DEF IInv
<1>1. ASSUME NEW c \in Calls PROVE Reach(c)' \in 0..Admin
  <2>1. /\ call'[c].user # Nobody => call'[c].user \in Users
        /\ call'[c].key # NoKey => call'[c].key \in Keys
    BY <1>0 DEF CallOK, Call
  <2>2. CASE call'[c].user = Nobody \/ role'[call'[c].user] = NoRole
    BY <2>2 DEF Reach, Admin
  <2>3. CASE call'[c].user # Nobody /\ role'[call'[c].user] # NoRole
    <3>1. role'[call'[c].user] \in OrgRoles
      BY <1>0, <2>1, <2>3
    <3>2. CASE call'[c].key = NoKey
      <4>1. Reach(c)' = Capability[role'[call'[c].user]]
        BY <2>3, <3>2 DEF Reach
      <4> QED
        BY <3>1, <4>1, RolesAreRanked
    <3>3. CASE call'[c].key # NoKey
      <4>1. key'[call'[c].key].role \in OrgRoles
        BY <1>0, <2>1, <3>3 DEF HoldsKey, KeyOK
      <4>2. Reach(c)' = Capability[Weaker(key'[call'[c].key].role, role'[call'[c].user])]
        BY <2>3, <3>3 DEF Reach
      <4> QED
        BY <3>1, <4>1, <4>2, WeakerIsWeaker, RolesAreRanked
    <3> QED
      BY <3>2, <3>3
  <2> QED
    BY <2>2, <2>3
<1>2. ASSUME NEW c \in Calls PROVE held'[c] \in Held
  <2> DEFINE denials == {s \in Denials(c)' : InOperation(c) => s \in held[c].denials}
             reach == IF call[c].at # "idle" /\ held[c].reach > Reach(c)'
                      THEN held[c].reach ELSE Reach(c)'
             outsider == Outsider(c)' /\ (call[c].at # "idle" => held[c].outsider)
  <2>1. held'[c] = [denials |-> denials, reach |-> reach, outsider |-> outsider]
    BY <1>0 DEF Remember
  <2>2. denials \in SUBSET Subjects
    BY DEF Denials
  <2>3. reach \in 0..Admin
    BY <1>0, <1>1 DEF Held
  <2>4. outsider \in BOOLEAN
    OBVIOUS
  <2> HIDE DEF denials, reach, outsider
  <2> QED
    BY <2>1, <2>2, <2>3, <2>4 DEF Held
<1> QED
  BY <1>0, <1>1, <1>2 DEF Remember

\* A step replaces at most one call of the table.
LEMMA CallsStayATable ==
    ASSUME TypeOK, Next
    PROVE  call' = [d \in Calls |-> call'[d]]
<1> DEFINE Goal == call' = [d \in Calls |-> call'[d]]
<1>0. call \in [Calls -> Call]
  BY DEF TypeOK
<1>1. ASSUME NEW c \in Calls, NEW did, Finish(c, did) PROVE Goal
  BY <1>0, <1>1 DEF Finish
<1>2. ASSUME NEW c \in Calls, Authentication(c) PROVE Goal
  BY <1>0, <1>2 DEF Authentication, PresentSession, PresentKey, ReadRole, EndCall, NextMessage
<1>3. ASSUME NEW c \in Calls, Operation(c) PROVE Goal
  <2>1. CASE ReadTeams(c) \/ ReadGrants(c) \/ ReadDenials(c)
    BY <1>0, <2>1 DEF ReadTeams, ReadGrants, ReadDenials
  <2> QED
    BY <1>1, <1>3, <2>1 DEF Operation, ReadDocument, WriteDocument, SetDeleted, CreateShareLink,
                            RevokeShareLink
<1>4. ASSUME NEW c \in Calls, Listing(c) \/ Labelling(c) PROVE Goal
  BY <1>1, <1>4 DEF Listing, ListDocuments, ListDocumentsWithTag, Search, SemanticSearch,
                    HybridSearch, ListOrNot, Labelling, AddDocumentTag, CategorizeDocument,
                    ListDocumentsInCategory
<1>5. ASSUME NEW c \in Calls, Administration(c) PROVE Goal
  BY <1>1, <1>5 DEF Administration, CreateTeam, AddTeamMember, GrantProject, GrantDocument,
                    CreateApiKey, RevokeApiKey
<1>6. ASSUME NEW c \in Calls, Sharing(c) PROVE Goal
  <2>1. CASE ShowDocument(c)
    BY <1>1, <2>1 DEF ShowDocument
  <2> QED
    BY <1>0, <1>6, <2>1 DEF Sharing, PresentLink, PassAudience
<1>7. ASSUME UNCHANGED call PROVE Goal
  BY <1>0, <1>7
<1> QED
  BY <1>2, <1>3, <1>4, <1>5, <1>6, <1>7 DEF Next, LinkExpires, SetRole

LEMMA InvariantStep ==
    ASSUME IInv, Next
    PROVE  IInv'
<1>1. call' \in [Calls -> Call]
  <2>1. \A c \in Calls : call'[c] \in Call
    BY CallsTyped DEF CallOK
  <2> QED
    BY <2>1, CallsStayATable DEF IInv
<1>2. TypeOK'
  BY <1>1, TablesTyped, CallsTyped, HeldTyped DEF TypeOK, CallOK, KeyOK, Held
<1> QED
  BY <1>2, CallsTyped, ChainsPreserved DEF IInv

LEMMA InitInvariant == Init => IInv
<1> SUFFICES ASSUME Init PROVE IInv
  OBVIOUS
<1> USE AccessAssumption
<1>1. NothingHeld \in Held
  <2>1. {} \in SUBSET Subjects /\ 0 \in 0..Admin
    BY DEF Admin
  <2> QED
    BY <2>1 DEF NothingHeld, Held
<1>2. \A c \in Calls : CallOK(c) /\ Orderly(c) /\ HoldsKey(c)
  BY NoCallIsTyped DEF Init, CallOK, Orderly, HoldsKey, ForMember
<1>3. [state |-> "unissued", by |-> Nobody, role |-> NoRole, via |-> NoKey] \in Key
  BY DEF Key
<1>4. [state |-> "unissued", audience |-> "public"] \in Link
  BY DEF Link, Audiences
<1>5. \A k \in Keys : key[k].state = "unissued" /\ key[k].via = NoKey
  BY DEF Init
<1>6. TypeOK
  <2>1. call \in [Calls -> Call] /\ held \in [Calls -> Held]
    BY <1>1, NoCallIsTyped DEF Init
  <2>2. key \in [Keys -> Key] /\ \A k \in Keys : KeyOK(k)
    BY <1>3, <1>5 DEF Init, KeyOK
  <2>3. link \in [Links -> Link]
    BY <1>4 DEF Init
  <2> QED
    BY <1>2, <2>1, <2>2, <2>3, TypeByRecord DEF Init
<1> QED
  BY <1>2, <1>5, <1>6 DEF IInv, MintsWereIssued, KeyChainsNeverGainRank

LEMMA NextInvariant == IInv /\ [Next]_vars => IInv'
<1>1. ASSUME IInv, UNCHANGED vars PROVE IInv'
  <2>1. UNCHANGED <<role, founded, team, projectRule, rule, live, key, link, call, held, changes>>
    BY <1>1 DEF vars, tables, rules
  <2>2. TypeOK'
    BY <1>1, <2>1 DEF IInv, TypeOK
  <2> QED
    BY <1>1, <2>1, <2>2 DEF IInv, Orderly, HoldsKey, ForMember, MintsWereIssued,
                            KeyChainsNeverGainRank
<1> QED
  BY <1>1, InvariantStep

----------------------------------------------------------------------------
(* Invariance of HInv *)

\* What is remembered of a call after a step.
LEMMA HeldAfter ==
    ASSUME Remember, NEW c \in Calls
    PROVE  /\ held'[c].denials = {s \in Denials(c)' : InOperation(c) => s \in held[c].denials}
           /\ held'[c].reach = IF call[c].at # "idle" /\ held[c].reach > Reach(c)'
                               THEN held[c].reach ELSE Reach(c)'
           /\ held'[c].outsider => Outsider(c)' /\ (call[c].at # "idle" => held[c].outsider)
<1> DEFINE outsider == Outsider(c)' /\ (call[c].at # "idle" => held[c].outsider)
           denials == {s \in Denials(c)' : InOperation(c) => s \in held[c].denials}
           reach == IF call[c].at # "idle" /\ held[c].reach > Reach(c)'
                    THEN held[c].reach ELSE Reach(c)'
<1>1. held'[c] = [denials |-> denials, reach |-> reach, outsider |-> outsider]
  BY DEF Remember
<1> HIDE DEF denials, reach, outsider
<1>2. /\ held'[c].denials = denials /\ held'[c].reach = reach
      /\ held'[c].outsider = outsider
  BY <1>1
<1> QED
  BY <1>2, Zenon DEF denials, reach, outsider

\* While a call goes on, its reach never shrinks.
LEMMA ReachGrows ==
    ASSUME IInv, Next, NEW c \in Calls
    PROVE  /\ held[c].reach \in 0..Admin /\ held'[c].reach \in 0..Admin
           /\ held'[c].reach >= Reach(c)'
           /\ call[c].at # "idle" => held'[c].reach >= held[c].reach
<1>1. held[c].reach \in 0..Admin /\ held'[c].reach \in 0..Admin /\ Reach(c)' \in 0..Admin
  BY HeldTyped, TypeByRecord DEF IInv, Held
<1>2. held'[c].reach = IF call[c].at # "idle" /\ held[c].reach > Reach(c)'
                       THEN held[c].reach ELSE Reach(c)'
  BY StepOfNext, HeldAfter DEF IInv
<1> QED
  BY <1>1, <1>2 DEF Admin

\* What a call finishes was within its reach.
LEMMA FinishedWithinReach ==
    ASSUME IInv, RolesWithinReach, Next, NEW c \in Calls, Finishes(c)
    PROVE  /\ call'[c].at = "done" /\ call'[c].user = call[c].user
           /\ call'[c].cap = call[c].cap /\ call'[c].link = call[c].link
           /\ call'[c].did \in {"read", "listed", "browsed"} => held[c].reach >= Viewer
           /\ call'[c].did \in {"written", "labelled"} => held[c].reach >= Editor
           /\ call'[c].did = "administered" => held[c].reach >= Admin
           /\ call'[c].did \in {"read", "written"} => call[c].at = "resolved" /\ call[c].level > 0
           /\ call'[c].did = "listed" =>
                /\ call[c].cap \in Privileged \/ Denials(c) = {}
                /\ UNCHANGED <<team, rule>>
           /\ call'[c].did = "shown" => call[c].at = "admitted"
           /\ call[c].at \in {"begun", "resolved", "admitted"}
<1>1. PICK did \in Deeds : Finish(c, did) /\ Allowed(c, did)
  BY DEF Finishes
<1>2. call[c] \in Call /\ Orderly(c) /\ call \in [Calls -> Call]
  BY TypeByRecord DEF IInv, CallOK
<1>3. /\ call'[c].at = "done" /\ call'[c].did = did /\ call'[c].user = call[c].user
      /\ call'[c].cap = call[c].cap /\ call'[c].link = call[c].link
  BY <1>1, <1>2 DEF Finish, Call
<1>4. /\ did = "read" => call[c].at = "resolved" /\ call[c].level >= Viewer
      /\ did = "written" => call[c].at = "resolved" /\ call[c].level >= Editor
      /\ did = "labelled" => call[c].at = "begun" /\ Capability[call[c].cap] >= Editor
      /\ did \in {"nothing", "listed", "browsed"} => call[c].at = "begun"
      /\ did = "listed" =>
           /\ call[c].cap \in Privileged \/ Denials(c) = {}
           /\ UNCHANGED <<team, rule>>
      /\ did = "administered" => call[c].at = "begun" /\ Capability[call[c].cap] >= Admin
      /\ did = "shown" => call[c].at = "admitted"
  BY <1>1 DEF Allowed, Authorized, Writes, Administers
<1>5. call[c].level \in 0..Admin /\ held[c].reach \in 0..Admin
  BY <1>2, ReachGrows DEF Call
<1>6. call[c].at \in {"begun", "resolved"} =>
        /\ call[c].cap \in OrgRoles
        /\ Capability[call[c].cap] \in 1..Admin
        /\ Capability[call[c].cap] <= held[c].reach
  BY <1>2, RolesAreRanked DEF Orderly, ForMember, RolesWithinReach
<1>7. did \in {"written", "labelled"} => Capability[call[c].cap] >= Editor
  BY <1>4 DEF RolesWithinReach
<1>8. did \in {"read", "listed", "browsed"} => held[c].reach >= Viewer
  BY <1>4, <1>5, <1>6 DEF Viewer, Admin
<1>9. did \in {"written", "labelled"} => held[c].reach >= Editor
  BY <1>4, <1>5, <1>6, <1>7 DEF Editor, Admin
<1>10. did = "administered" => held[c].reach >= Admin
  BY <1>4, <1>5, <1>6 DEF Admin
<1>11. did \in {"read", "written"} => call[c].at = "resolved" /\ call[c].level > 0
  BY <1>4, <1>5 DEF Viewer, Editor, Admin
<1>12. call[c].at \in {"begun", "resolved", "admitted"}
  BY <1>1, <1>4 DEF Deeds
<1> QED
  BY <1>3, <1>4, <1>8, <1>9, <1>10, <1>11, <1>12

\* The role a call begins with is one the caller, and the key, have at that moment.
LEMMA BeginsWithinReach ==
    ASSUME IInv, Next, NEW c \in Calls,
           (\E u \in Users : PresentSession(c, u)) \/ ReadRole(c)
    PROVE  /\ call'[c].at = "begun" /\ call'[c].did = "nothing"
           /\ Capability[call'[c].cap] = Reach(c)'
<1> USE AccessAssumption
<1>0. /\ call \in [Calls -> Call] /\ call[c] \in Call /\ Orderly(c) /\ HoldsKey(c) /\ CallOK(c)
  BY TypeByRecord DEF IInv, CallOK
<1>1. ASSUME NEW u \in Users, PresentSession(c, u)
      PROVE  /\ call'[c].at = "begun" /\ call'[c].did = "nothing"
             /\ Capability[call'[c].cap] = Reach(c)'
  <2> DEFINE new == [NoCall EXCEPT !.at = "begun", !.user = u, !.cap = role[u]]
  <2>1. call'[c] = new /\ UNCHANGED role /\ role[u] # NoRole
    BY <1>0, <1>1 DEF PresentSession, tables
  <2>2. /\ new.at = "begun" /\ new.user = u /\ new.cap = role[u] /\ new.key = NoKey
        /\ new.did = "nothing"
    BY NoCallIsTyped DEF Call
  <2> HIDE DEF new
  <2>3. Reach(c)' = Capability[role'[u]]
    BY <2>1, <2>2 DEF Reach
  <2> QED
    BY <2>1, <2>2, <2>3
<1>2. ASSUME ReadRole(c)
      PROVE  /\ call'[c].at = "begun" /\ call'[c].did = "nothing"
             /\ Capability[call'[c].cap] = Reach(c)'
  <2> DEFINE u == call[c].user
             weak == Weaker(call[c].cap, role[u])
             new == [call[c] EXCEPT !.at = "begun", !.cap = weak]
  <2>1. /\ call'[c] = new /\ UNCHANGED <<role, key>> /\ call[c].at = "known" /\ role[u] # NoRole
    BY <1>0, <1>2 DEF ReadRole, tables
  <2>2. /\ u \in Users /\ call[c].key # NoKey /\ call[c].did = "nothing"
        /\ call[c].cap = key[call[c].key].role
    BY <1>0, <2>1 DEF Orderly, HoldsKey, ForMember
  <2> HIDE DEF weak
  <2>3. /\ new.at = "begun" /\ new.user = u /\ new.cap = weak /\ new.key = call[c].key
        /\ new.did = call[c].did
    BY <1>0 DEF Call
  <2> HIDE DEF new, u
  <2>4. Reach(c)' = Capability[Weaker(key'[call[c].key].role, role'[u])]
    BY <2>1, <2>2, <2>3 DEF Reach
  <2>5. weak = Weaker(key'[call[c].key].role, role'[u])
    BY <2>1, <2>2 DEF weak
  <2> QED
    BY <2>1, <2>2, <2>3, <2>4, <2>5
<1> QED
  BY <1>1, <1>2

\* Steps within a call leave who it is for.
LEMMA ReadsKeepTheCaller ==
    ASSUME IInv, NEW c \in Calls,
           ReadTeams(c) \/ ReadGrants(c) \/ ReadDenials(c) \/ NextMessage(c) \/ PassAudience(c)
    PROVE  /\ call'[c].user = call[c].user /\ call'[c].cap = call[c].cap
           /\ call'[c].key = call[c].key /\ call'[c].link = call[c].link
           /\ call'[c].did = IF NextMessage(c) THEN "nothing" ELSE call[c].did
           /\ call[c].at # "idle"
           /\ UNCHANGED <<role, team, rule, key, link>>
<1>0. call \in [Calls -> Call] /\ call[c] \in Call
  BY TypeByRecord DEF IInv, CallOK
<1>1. CASE NextMessage(c)
  BY <1>0, <1>1 DEF NextMessage, Call, tables, rules
<1>2. CASE PassAudience(c)
  BY <1>0, <1>2 DEF PassAudience, NextMessage, Call, tables, rules
<1>3. CASE ReadTeams(c)
  BY <1>0, <1>3 DEF ReadTeams, NextMessage, Call, tables, rules
<1>4. CASE ReadGrants(c)
  BY <1>0, <1>4 DEF ReadGrants, NextMessage, Call, tables, rules
<1>5. CASE ReadDenials(c)
  BY <1>0, <1>5 DEF ReadDenials, NextMessage, Call, tables, rules
<1> QED
  BY <1>1, <1>2, <1>3, <1>4, <1>5

\* Roles and levels stay within reach, and so does what is done.
LEMMA ReachPreserved ==
    ASSUME IInv, RolesWithinReach, NobodyExceedsTheirRole, Next
    PROVE  RolesWithinReach' /\ NobodyExceedsTheirRole'
<1> USE AccessAssumption
<1> DEFINE Roles(c) == /\ ForMember(c) /\ call[c].at # "known" =>
                            Capability[call[c].cap] <= held[c].reach
                       /\ call[c].at = "resolved" /\ call[c].level >= Editor =>
                            Capability[call[c].cap] >= Editor
           Does(c) == /\ call[c].did \in {"read", "listed", "browsed"} => held[c].reach >= Viewer
                      /\ call[c].did \in {"written", "labelled"} => held[c].reach >= Editor
                      /\ call[c].did = "administered" => held[c].reach = Admin
<1>1. ASSUME NEW c \in Calls PROVE Roles(c)' /\ Does(c)'
  <2>0. /\ call[c] \in Call /\ Orderly(c) /\ HoldsKey(c) /\ CallOK(c)
        /\ call \in [Calls -> Call]
        /\ call'[c] \in Call /\ Orderly(c)'
        /\ StepOf(c)
        /\ Roles(c) /\ Does(c)
    BY TypeByRecord, StepOfNext, CallsTyped DEF IInv, CallOK, RolesWithinReach,
                                                NobodyExceedsTheirRole
  <2>1. /\ held[c].reach \in 0..Admin /\ held'[c].reach \in 0..Admin
        /\ held'[c].reach >= Reach(c)'
        /\ call[c].at # "idle" => held'[c].reach >= held[c].reach
    BY ReachGrows
  <2>2. ForMember(c) => Capability[call[c].cap] \in 1..Admin
    BY <2>0, RolesAreRanked DEF Orderly
  <2>a. ASSUME call[c].at # "idle", call'[c].cap = call[c].cap,
               ForMember(c)' /\ call'[c].at # "known" => ForMember(c) /\ call[c].at # "known",
               call'[c].at # "resolved" \/ (call[c].at = "resolved" /\ call'[c].level = call[c].level),
               call'[c].did = "nothing" \/ call'[c].did = call[c].did
        PROVE  Roles(c)' /\ Does(c)'
    BY <2>0, <2>1, <2>2, <2>a DEF Viewer, Editor, Admin
  <2>b. ASSUME ~ForMember(c)', call'[c].did = "nothing" PROVE Roles(c)' /\ Does(c)'
    BY <2>b DEF ForMember
  <2>3. CASE call'[c] = call[c]
    <3>1. CASE call[c].at = "idle"
      BY <2>0, <2>3, <2>b, <3>1, NoCallIsTyped DEF Orderly, ForMember
    <3>2. CASE call[c].at # "idle"
      BY <2>3, <2>a, <3>2 DEF ForMember
    <3> QED
      BY <3>1, <3>2
  <2>4. CASE (\E u \in Users : PresentSession(c, u)) \/ ReadRole(c)
    <3>1. /\ call'[c].at = "begun" /\ call'[c].did = "nothing"
          /\ Capability[call'[c].cap] = Reach(c)'
      BY <2>4, BeginsWithinReach
    <3>2. Roles(c)'
      BY <2>1, <3>1
    <3> QED
      BY <3>1, <3>2
  <2>5. ASSUME NEW k \in Keys, PresentKey(c, k) PROVE Roles(c)' /\ Does(c)'
    <3>1. call'[c].at = "known" /\ call'[c].did = "nothing"
      BY <2>0, <2>5, NoCallIsTyped DEF PresentKey, Call
    <3> QED
      BY <3>1
  <2>6. CASE EndCall(c)
    <3>1. call'[c] = NoCall
      BY <2>0, <2>6 DEF EndCall
    <3> QED
      BY <2>b, <3>1, NoCallIsTyped DEF ForMember
  <2>7. ASSUME NEW l \in Links, NEW u \in Users \cup {Nobody}, PresentLink(c, l, u)
        PROVE  Roles(c)' /\ Does(c)'
    <3>1. call'[c].at = "linked" /\ call'[c].did = "nothing"
      BY <2>0, <2>7, NoCallIsTyped DEF PresentLink, Call
    <3> QED
      BY <2>b, <3>1 DEF ForMember
  <2>8. CASE ReadTeams(c) \/ ReadGrants(c) \/ NextMessage(c) \/ PassAudience(c)
    <3>1. /\ call'[c].cap = call[c].cap /\ call'[c].link = call[c].link /\ call[c].at # "idle"
          /\ call'[c].did = "nothing" \/ call'[c].did = call[c].did
      BY <2>8, ReadsKeepTheCaller
    <3>2. call'[c].at \in {"teams", "grants", "begun", "admitted"}
      BY <2>0, <2>8 DEF ReadTeams, ReadGrants, NextMessage, PassAudience, Call
    <3>3. ForMember(c)' => ForMember(c) /\ call[c].at # "known"
      BY <2>0, <2>8, <3>2 DEF ReadTeams, ReadGrants, NextMessage, PassAudience, ForMember, Call
    <3> QED
      BY <2>a, <3>1, <3>2, <3>3
  <2>9. CASE ReadDenials(c)
    <3> DEFINE denied == Denied(call[c].user, call[c].teams)
               level == Resolve(call[c].cap, call[c].granted, denied)
    <3>0. denied \in BOOLEAN /\ call[c].granted \in SUBSET (1..Admin) /\ call[c].cap \in OrgRoles
      BY <2>0, <2>9 DEF Denied, Call, ReadDenials, CallOK
    <3> HIDE DEF denied
    <3>1. level >= Editor => call[c].cap # "viewer"
      BY <3>0, ResolveIsBounded
    <3> HIDE DEF level
    <3>2. call'[c].at = "resolved" /\ call'[c].level = level /\ call[c].at = "grants"
      BY <2>0, <2>9 DEF ReadDenials, Call, level, denied
    <3>3. call'[c].cap = call[c].cap /\ call'[c].did = call[c].did
      BY <2>9, ReadsKeepTheCaller DEF ReadDenials, NextMessage
    <3>4. call[c].did = "nothing"
      BY <2>0, <3>2 DEF Orderly
    <3>5. Capability[call[c].cap] <= held[c].reach
      BY <2>0, <3>2 DEF ForMember
    <3>6. level >= Editor => Capability[call[c].cap] >= Editor
      BY <3>0, <3>1, RolesAreRanked DEF Editor, Admin
    <3>7. Capability[call[c].cap] <= held'[c].reach
      BY <2>1, <3>0, <3>2, <3>5, RolesAreRanked DEF Admin
    <3> QED
      BY <3>2, <3>3, <3>4, <3>6, <3>7
  <2>10. CASE Finishes(c)
    <3>1. /\ call'[c].at = "done" /\ call'[c].cap = call[c].cap /\ call'[c].link = call[c].link
          /\ call[c].at \in {"begun", "resolved", "admitted"}
          /\ call'[c].did \in {"read", "listed", "browsed"} => held[c].reach >= Viewer
          /\ call'[c].did \in {"written", "labelled"} => held[c].reach >= Editor
          /\ call'[c].did = "administered" => held[c].reach >= Admin
      BY <2>10, FinishedWithinReach
    <3>2. Does(c)'
      BY <2>1, <3>1 DEF Viewer, Editor, Admin
    <3>3. call[c].at = "admitted" => call[c].link # NoLink
      BY <2>0 DEF CallOK
    <3>4. Roles(c)'
      BY <2>0, <2>1, <2>2, <3>1, <3>3 DEF ForMember, Admin
    <3> QED
      BY <3>2, <3>4
  <2> QED
    BY <2>0, <2>3, <2>4, <2>5, <2>6, <2>7, <2>8, <2>9, <2>10 DEF StepOf
<1> QED
  BY <1>1 DEF RolesWithinReach, NobodyExceedsTheirRole

\* A denial that is remembered stands, and goes on to be met.
LEMMA DenialsPreserved ==
    ASSUME IInv, DenialsAreMet, DenialsVeto, RolesWithinReach, Next
    PROVE  DenialsAreMet' /\ DenialsVeto'
<1> USE AccessAssumption
<1> DEFINE Met(c) == /\ call[c].at \in {"teams", "grants"} =>
                          \A s \in held[c].denials : s = call[c].user \/ s \in call[c].teams
                     /\ call[c].at = "resolved" /\ held[c].denials # {} =>
                          call[c].cap \in Privileged \/ call[c].level = 0
           Vetoed(c) == call[c].did \in {"read", "written", "listed"} /\ held[c].denials # {} =>
                          call[c].cap \in Privileged
<1>1. ASSUME NEW c \in Calls PROVE held'[c].denials \subseteq Denials(c)' /\ Met(c)' /\ Vetoed(c)'
  <2>0. /\ call[c] \in Call /\ Orderly(c) /\ CallOK(c)
        /\ call \in [Calls -> Call]
        /\ Orderly(c)'
        /\ StepOf(c)
        /\ held[c].denials \subseteq Denials(c) /\ Met(c) /\ Vetoed(c)
    BY TypeByRecord, StepOfNext, CallsTyped DEF IInv, CallOK, DenialsAreMet, DenialsVeto
  <2>1. held'[c].denials = {s \in Denials(c)' : InOperation(c) => s \in held[c].denials}
    BY StepOfNext, HeldAfter DEF IInv
  <2>2. /\ held'[c].denials \subseteq Denials(c)'
        /\ InOperation(c) => held'[c].denials \subseteq held[c].denials
    BY <2>1
  <2>a. ASSUME call'[c].at \notin {"teams", "grants", "resolved"}, call'[c].did = "nothing"
        PROVE  Met(c)' /\ Vetoed(c)'
    BY <2>a
  <2>3. ASSUME call'[c] = call[c] PROVE Met(c)' /\ Vetoed(c)'
    <3>1. ASSUME InOperation(c) PROVE Met(c)' /\ Vetoed(c)'
      BY <2>0, <2>2, <2>3, <3>1
    <3>2. ASSUME ~InOperation(c) PROVE Met(c)' /\ Vetoed(c)'
      BY <2>0, <2>3, <2>a, <3>2 DEF InOperation, Orderly
    <3> QED
      BY <3>1, <3>2
  <2>4. ASSUME (\E u \in Users : PresentSession(c, u)) \/ ReadRole(c) PROVE Met(c)' /\ Vetoed(c)'
    BY <2>4, <2>a, BeginsWithinReach
  <2>5. ASSUME NEW k \in Keys, PresentKey(c, k) PROVE Met(c)' /\ Vetoed(c)'
    <3>1. call'[c].at = "known" /\ call'[c].did = "nothing"
      BY <2>0, <2>5, NoCallIsTyped DEF PresentKey, Call
    <3> QED
      BY <2>a, <3>1
  <2>6. ASSUME EndCall(c) PROVE Met(c)' /\ Vetoed(c)'
    <3>1. call'[c] = NoCall
      BY <2>0, <2>6 DEF EndCall
    <3> QED
      BY <2>a, <3>1, NoCallIsTyped
  <2>7. ASSUME NEW l \in Links, NEW u \in Users \cup {Nobody}, PresentLink(c, l, u)
        PROVE  Met(c)' /\ Vetoed(c)'
    <3>1. call'[c].at = "linked" /\ call'[c].did = "nothing"
      BY <2>0, <2>7, NoCallIsTyped DEF PresentLink, Call
    <3> QED
      BY <2>a, <3>1
  <2>8. ASSUME NextMessage(c) \/ PassAudience(c) PROVE Met(c)' /\ Vetoed(c)'
    <3>1. call'[c].at \in {"begun", "admitted"} /\ call'[c].did = "nothing"
      BY <2>0, <2>8 DEF NextMessage, PassAudience, Orderly, Call
    <3> QED
      BY <2>a, <3>1
  <2>9. ASSUME ReadTeams(c) PROVE Met(c)' /\ Vetoed(c)'
    <3>1. /\ call'[c].at = "teams" /\ call'[c].teams = TeamsOf(call[c].user)
          /\ call[c].at = "begun"
      BY <2>0, <2>9, TeamsOf(call[c].user) \in SUBSET Teams DEF ReadTeams, Call, TeamsOf
    <3>2. /\ call'[c].user = call[c].user /\ call'[c].did = call[c].did
          /\ UNCHANGED <<team, rule>>
      BY <2>9, ReadsKeepTheCaller DEF ReadTeams, NextMessage
    <3>3. \A s \in Denials(c)' : s = call'[c].user \/ s \in TeamsOf(call[c].user)
      BY <3>2 DEF Denials, TeamsOf
    <3>4. call[c].did = "nothing"
      BY <2>0, <3>1 DEF Orderly
    <3> QED
      BY <2>2, <3>1, <3>2, <3>3, <3>4
  <2>10. ASSUME ReadGrants(c) PROVE Met(c)' /\ Vetoed(c)'
    <3>1. call'[c].at = "grants" /\ call'[c].teams = call[c].teams /\ call[c].at = "teams"
      BY <2>0, <2>10 DEF ReadGrants, Call
    <3>2. call'[c].user = call[c].user /\ call'[c].did = call[c].did
      BY <2>10, ReadsKeepTheCaller DEF ReadGrants, NextMessage
    <3>3. call[c].did = "nothing"
      BY <2>0, <3>1 DEF Orderly
    <3> QED
      BY <2>0, <2>2, <3>1, <3>2, <3>3 DEF InOperation
  <2>11. ASSUME ReadDenials(c) PROVE Met(c)' /\ Vetoed(c)'
    <3> DEFINE denied == Denied(call[c].user, call[c].teams)
               level == Resolve(call[c].cap, call[c].granted, denied)
    <3>0. denied \in BOOLEAN /\ call[c].granted \in SUBSET (1..Admin) /\ call[c].cap \in OrgRoles
      BY <2>0, <2>11 DEF Denied, Call, ReadDenials, CallOK
    <3>1. held[c].denials # {} => denied
      <4>1. \A s \in held[c].denials : /\ s \in Subjects /\ rule[s] = 0
                                       /\ s = call[c].user \/ s \in call[c].teams
        BY <2>0, <2>11 DEF Denials, ReadDenials
      <4> QED
        BY <4>1 DEF Denied, Applies
    <3> HIDE DEF denied
    <3>2. denied => call[c].cap \in Privileged \/ level = 0
      BY <3>0, ResolveIsBounded
    <3> HIDE DEF level
    <3>3. call'[c].at = "resolved" /\ call'[c].level = level /\ call[c].at = "grants"
      BY <2>0, <2>11 DEF ReadDenials, Call, level, denied
    <3>4. call'[c].cap = call[c].cap /\ call'[c].did = call[c].did
      BY <2>11, ReadsKeepTheCaller DEF ReadDenials, NextMessage
    <3>5. call[c].did = "nothing"
      BY <2>0, <3>3 DEF Orderly
    <3>6. held'[c].denials # {} => held[c].denials # {}
      BY <2>2, <3>3 DEF InOperation
    <3> QED
      BY <3>1, <3>2, <3>3, <3>4, <3>5, <3>6
  <2>12. ASSUME Finishes(c) PROVE Met(c)' /\ Vetoed(c)'
    <3>1. /\ call'[c].at = "done" /\ call'[c].cap = call[c].cap /\ call'[c].user = call[c].user
          /\ call'[c].did \in {"read", "written"} => call[c].at = "resolved" /\ call[c].level > 0
          /\ call'[c].did = "listed" =>
               /\ call[c].cap \in Privileged \/ Denials(c) = {}
               /\ UNCHANGED <<team, rule>>
      BY <2>12, FinishedWithinReach
    <3>2. call[c].at = "resolved" /\ held'[c].denials # {} => held[c].denials # {}
      BY <2>2 DEF InOperation
    <3>3. call'[c].did = "listed" => Denials(c)' = Denials(c)
      BY <3>1 DEF Denials
    <3>4. call'[c].did = "listed" /\ held'[c].denials # {} => call[c].cap \in Privileged
      BY <2>2, <3>1, <3>3
    <3> QED
      BY <2>0, <3>1, <3>2, <3>4
  <2> QED
    BY <2>0, <2>2, <2>3, <2>4, <2>5, <2>6, <2>7, <2>8, <2>9, <2>10, <2>11, <2>12 DEF StepOf
<1> QED
  BY <1>1 DEF DenialsAreMet, DenialsVeto

\* An audience is judged as it is.
LEMMA OutsidersPreserved ==
    ASSUME IInv, AdmittedAreInsiders, Next
    PROVE  AdmittedAreInsiders'
<1> USE AccessAssumption
<1> DEFINE Insider(c) == call[c].at = "admitted" \/ call[c].did = "shown" => ~held[c].outsider
<1>1. ASSUME NEW c \in Calls PROVE Insider(c)'
  <2>0. /\ call[c] \in Call /\ Orderly(c)
        /\ call \in [Calls -> Call]
        /\ Orderly(c)'
        /\ StepOf(c)
        /\ Insider(c)
    BY TypeByRecord, StepOfNext, CallsTyped DEF IInv, CallOK, AdmittedAreInsiders
  <2>1. held'[c].outsider => Outsider(c)' /\ (call[c].at # "idle" => held[c].outsider)
    BY StepOfNext, HeldAfter DEF IInv
  <2>2. ASSUME call'[c].at \notin {"admitted", "done"} PROVE Insider(c)'
    BY <2>0, <2>2 DEF Orderly
  <2>3. ASSUME call'[c] = call[c] PROVE Insider(c)'
    <3>1. CASE call[c].at = "idle"
      BY <2>2, <2>3, <3>1
    <3>2. CASE call[c].at # "idle"
      BY <2>0, <2>1, <2>3, <3>2
    <3> QED
      BY <3>1, <3>2
  <2>4. ASSUME \/ \E u \in Users : PresentSession(c, u)
               \/ \E k \in Keys : PresentKey(c, k)
               \/ \E l \in Links, u \in Users \cup {Nobody} : PresentLink(c, l, u)
               \/ EndCall(c)
        PROVE  Insider(c)'
    <3>1. ASSUME NEW u \in Users, PresentSession(c, u) PROVE call'[c].at = "begun"
      BY <2>0, <3>1, NoCallIsTyped DEF PresentSession, Call
    <3>2. ASSUME NEW k \in Keys, PresentKey(c, k) PROVE call'[c].at = "known"
      BY <2>0, <3>2, NoCallIsTyped DEF PresentKey, Call
    <3>3. ASSUME NEW l \in Links, NEW u \in Users \cup {Nobody}, PresentLink(c, l, u)
          PROVE  call'[c].at = "linked"
      BY <2>0, <3>3, NoCallIsTyped DEF PresentLink, Call
    <3>4. ASSUME EndCall(c) PROVE call'[c].at = "idle"
      BY <2>0, <3>4, NoCallIsTyped DEF EndCall
    <3>5. call'[c].at \in {"begun", "known", "linked", "idle"}
      BY <2>4, <3>1, <3>2, <3>3, <3>4
    <3> QED
      BY <2>2, <3>5
  <2>5. ASSUME ReadRole(c) \/ NextMessage(c) \/ ReadTeams(c) \/ ReadGrants(c) \/ ReadDenials(c)
        PROVE  Insider(c)'
    <3>1. call'[c].at \in {"begun", "teams", "grants", "resolved"}
      BY <2>0, <2>5 DEF ReadRole, NextMessage, ReadTeams, ReadGrants, ReadDenials, Call
    <3> QED
      BY <2>2, <3>1
  <2>6. ASSUME PassAudience(c) PROVE Insider(c)'
    <3>1. /\ call'[c].user = call[c].user /\ call'[c].link = call[c].link
          /\ UNCHANGED <<role, link>>
      BY <2>6, ReadsKeepTheCaller
    <3>2. Admits(call[c].link, call[c].user)
      BY <2>6 DEF PassAudience
    <3>3. ~Outsider(c)'
      BY <3>1, <3>2 DEF Outsider, Admits
    <3> QED
      BY <2>1, <3>3
  <2>7. ASSUME Finishes(c) PROVE Insider(c)'
    <3>1. /\ call'[c].at = "done"
          /\ call'[c].did = "shown" => call[c].at = "admitted"
          /\ call[c].at # "idle"
      <4>1. PICK did \in Deeds : Finish(c, did) /\ Allowed(c, did)
        BY <2>7 DEF Finishes
      <4>2. call'[c].at = "done" /\ call'[c].did = did
        BY <2>0, <4>1 DEF Finish, Call
      <4>3. /\ did = "shown" => call[c].at = "admitted"
            /\ call[c].at # "idle"
        BY <4>1 DEF Allowed, Deeds, Authorized, Writes, Administers
      <4> QED
        BY <4>2, <4>3
    <3> QED
      BY <2>0, <2>1, <3>1
  <2> QED
    BY <2>0, <2>3, <2>4, <2>5, <2>6, <2>7 DEF StepOf
<1> QED
  BY <1>1 DEF AdmittedAreInsiders

LEMMA InitHistory == Init => HInv
<1> SUFFICES ASSUME Init PROVE HInv
  OBVIOUS
<1>1. \A c \in Calls : /\ call[c] = NoCall /\ held[c].denials = {}
                       /\ held[c].outsider = FALSE
  BY DEF Init, NothingHeld
<1>2. \A c \in Calls : call[c].at = "idle" /\ call[c].did = "nothing"
  BY <1>1, NoCallIsTyped
<1>3. \A c \in Calls : held[c].denials = {} /\ ~held[c].outsider
  BY <1>1
<1>4. RolesWithinReach /\ NobodyExceedsTheirRole
  BY <1>2 DEF RolesWithinReach, NobodyExceedsTheirRole, ForMember
<1>5. DenialsAreMet /\ DenialsVeto
  BY <1>2, <1>3 DEF DenialsAreMet, DenialsVeto
<1>6. AdmittedAreInsiders
  BY <1>2, <1>3 DEF AdmittedAreInsiders
<1> QED
  BY <1>4, <1>5, <1>6 DEF HInv

LEMMA NextHistory == IInv /\ HInv /\ [Next]_vars => HInv'
<1>1. ASSUME HInv, UNCHANGED vars PROVE HInv'
  <2>1. UNCHANGED <<team, rule, call, held>>
    BY <1>1 DEF vars, tables, rules
  <2> QED
    BY <1>1, <2>1 DEF HInv, RolesWithinReach, NobodyExceedsTheirRole, DenialsAreMet, DenialsVeto,
                      AdmittedAreInsiders, ForMember, Denials
<1>2. ASSUME IInv, HInv, Next PROVE HInv'
  BY <1>2, ReachPreserved, DenialsPreserved, OutsidersPreserved DEF HInv
<1> QED
  BY <1>1, <1>2

----------------------------------------------------------------------------
(* Theorems *)

\* The two invariants hold throughout, whatever the callers and the administrators do.
THEOREM Invariance == Spec => [](IInv /\ HInv)
<1>1. Init => IInv /\ HInv
  BY InitInvariant, InitHistory
<1>2. IInv /\ HInv /\ [Next]_vars => (IInv /\ HInv)'
  BY NextInvariant, NextHistory
<1> QED
  BY <1>1, <1>2, PTL DEF Spec

\* Everything keeps its type, and a call that has begun has a caller with a role.
THEOREM TypeCorrect == Spec => []TypeOK
<1>1. IInv => TypeOK
  BY DEF IInv
<1> QED
  BY <1>1, Invariance, PTL

\* A denial that stands throughout an operation on the document vetoes it (effective_doc_role,
\* resolve_doc_role), and one that stands when a list is made keeps the document out of it.
THEOREM DenialsDecide == Spec => []DenialsVeto
<1>1. HInv => DenialsVeto
  BY DEF HInv
<1> QED
  BY <1>1, Invariance, PTL

\* What a call does, the caller's role and key allowed at some time since it began.
THEOREM RolesBound == Spec => []NobodyExceedsTheirRole
<1>1. HInv => NobodyExceedsTheirRole
  BY DEF HInv
<1> QED
  BY <1>1, Invariance, PTL

\* A link shows the document to its audience alone (resolve_share_link).
THEOREM AudienceOnly == Spec => []OnlyTheAudienceIsShown
<1>1. HInv => OnlyTheAudienceIsShown
  BY DEF HInv, AdmittedAreInsiders, OnlyTheAudienceIsShown
<1> QED
  BY <1>1, Invariance, PTL

\* Keys minted with keys never gain rank, along chains of any length (create_api_key).
THEOREM KeysChain == Spec => []KeyChainsNeverGainRank
<1>1. IInv => KeyChainsNeverGainRank
  BY DEF IInv
<1> QED
  BY <1>1, Invariance, PTL
=============================================================================
