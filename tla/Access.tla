------------------------------- MODULE Access -------------------------------
(***************************************************************************)
(* Who may do what with one document of one organization: the effective    *)
(* role of access.rs and crates/core/src/rbac.rs, API keys (apikey.rs,     *)
(* auth.rs), share links (share.rs) and the lists and searches that leave  *)
(* out what a reader is denied.                                            *)
(*                                                                         *)
(* A call authenticates once and goes on with the role it read, for all    *)
(* messages of an MCP batch (apps/api/src/mcp.rs).  An operation on the    *)
(* document reads its row, then the caller's teams, the grants and the     *)
(* denials in three statements, each of which sees what is committed by    *)
(* then; a reader is shown the row that was read first, a writer writes    *)
(* last.  What the operations do to the text is module Documents' concern. *)
(* Tags and categories go by the role in the organization alone.           *)
(***************************************************************************)
EXTENDS Integers, FiniteSets

CONSTANTS
    Users, Teams, Keys, Links, Calls,
    Levels,         \* levels that are granted, 0 for a denial
    AskedRoles,     \* roles new keys are asked to have
    Recipients,     \* the users whose addresses a link for "emails" lists
    MaxChanges,     \* model bound on changes of the tables
    Nobody, NoRole, NoKey, NoLink, Unset

OrgRoles == {"viewer", "member", "admin", "owner"}
Privileged == {"admin", "owner"}
Rank == [viewer |-> 1, member |-> 2, admin |-> 3, owner |-> 4]

\* Role: None < Viewer < Commenter < Editor < Admin.
Viewer == 1
Editor == 3
Admin == 4
Capability == [viewer |-> Viewer, member |-> Editor, admin |-> Admin, owner |-> Admin]

ASSUME AccessAssumption ==
    /\ Levels \subseteq 0..Admin
    /\ AskedRoles \subseteq OrgRoles
    /\ IsFiniteSet(Users) /\ IsFiniteSet(Teams)
    /\ Users \cap Teams = {}
    /\ Recipients \subseteq Users
    /\ MaxChanges \in Nat
    /\ Nobody \notin Users /\ NoRole \notin OrgRoles /\ NoKey \notin Keys
    /\ NoLink \notin Links /\ Unset \notin 0..Admin

VARIABLES
    role,           \* [Users -> OrgRoles \cup {NoRole}]: organization_members
    founded,        \* teams that exist
    team,           \* [Teams -> SUBSET Users]: team_members
    projectRule,    \* [Subjects -> Levels \cup {Unset}]: project_grants
    rule,           \* [Subjects -> Levels \cup {Unset}]: document_grants
    live,           \* the document is not deleted
    key,            \* [Keys -> Key]: api_keys
    link,           \* [Links -> Link]: share_links
    call,           \* [Calls -> Call]: requests in progress
    held,           \* history: what stood against each call all along
    changes         \* changes made so far

rules == <<founded, team, projectRule, rule>>
tables == <<role, rules, live, key, link>>
vars == <<tables, call, held, changes>>

Subjects == Users \cup Teams
Audiences == {"public", "members", "emails"}

\* via is history: the key that was presented to mint this one.
Key ==
    [state: {"unissued", "valid", "revoked"}, by: Users \cup {Nobody},
     role: OrgRoles \cup {NoRole}, via: Keys \cup {NoKey}]
\* "over": revoked or expired.
Link == [state: {"unissued", "valid", "over"}, audience: Audiences]

Deeds ==
    {"nothing", "read", "written", "labelled", "listed", "browsed", "administered", "shown"}

\* at: a key was looked up ("known"), the role read ("begun"), the document and the teams, the
\* grants and the denials read ("teams", "grants", "resolved"), a link looked up ("linked") and
\* its audience let in ("admitted"), an operation finished ("done").  doc: the row of the
\* document as the operation found it.  did: a document is "browsed" in the list of a category
\* and "labelled" with a tag or a category.
Call ==
    [at: {"idle", "known", "begun", "teams", "grants", "resolved", "linked", "admitted", "done"},
     user: Users \cup {Nobody}, key: Keys \cup {NoKey}, link: Links \cup {NoLink},
     cap: OrgRoles \cup {NoRole}, doc: {"unread", "live", "deleted"}, teams: SUBSET Teams,
     granted: SUBSET (1..Admin), level: 0..Admin, did: Deeds]

NoCall ==
    [at |-> "idle", user |-> Nobody, key |-> NoKey, link |-> NoLink, cap |-> NoRole,
     doc |-> "unread", teams |-> {}, granted |-> {}, level |-> 0, did |-> "nothing"]

----------------------------------------------------------------------------
(* Faulty variants of definitions below, each a plausible slip in the code. No     *)
(* specification uses them: they show that the properties can fail.                *)

\* Denials of the user's teams are forgotten.
AppliesToUserOnly(s, u, ts) == s = u

\* resolve_doc_role without its last clause.
ResolveWithoutCeiling(r, granted, denied) ==
    IF denied /\ r \notin Privileged THEN 0
    ELSE CHOOSE m \in granted \cup {Capability[r]} :
           \A l \in granted \cup {Capability[r]} : l <= m

\* A link is shown to whoever is signed in.
PassAudienceUnchecked(c) ==
    /\ call[c].at = "linked"
    /\ link[call[c].link].audience = "public" \/ call[c].user \in Users
    /\ call' = [call EXCEPT ![c].at = "admitted"]
    /\ UNCHANGED <<tables, changes>>

\* A new key keeps the role that was asked for.
Requested(r, s) == r

\* Denials on projects.
AnyLevel(l) == TRUE

----------------------------------------------------------------------------
(* Helpers *)

\* OrgRole::min
Weaker(r, s) == IF Rank[r] <= Rank[s] THEN r ELSE s

\* The role of a new key.
Clamped(r, cap) == Weaker(r, cap)

\* resolve_doc_role: a denial vetoes, else the highest of base and grants, under the ceiling
\* of an organization's viewer.
Resolve(r, granted, denied) ==
    LET all == granted \cup {Capability[r]}
        highest == CHOOSE m \in all : \A l \in all : l <= m
    IN  IF denied /\ r \notin Privileged THEN 0
        ELSE IF r = "viewer" /\ highest > Viewer THEN Viewer
        ELSE highest

TeamsOf(u) == {t \in Teams : u \in team[t]}

\* A grant to subject s is one to user u, who is in teams ts.
Applies(s, u, ts) == s = u \/ s \in ts

Granted(u, ts) ==
    {l \in 1..Admin : \E s \in Subjects : Applies(s, u, ts) /\ l \in {projectRule[s], rule[s]}}

Denied(u, ts) == \E s \in Subjects : Applies(s, u, ts) /\ rule[s] = 0

\* The filter of list_documents and the searches.
Lists(r, u) ==
    /\ live
    /\ \/ r \in Privileged
       \/ ~\E s \in Subjects : (s = u \/ (s \in Teams /\ u \in team[s])) /\ rule[s] = 0

\* grant_project refuses to deny.
GrantableOnProject(l) == l # 0

\* require_write
Writes(c) == call[c].at = "begun" /\ Capability[call[c].cap] >= Editor

Admits(l, u) ==
    CASE link[l].audience = "public" -> TRUE
      [] link[l].audience = "members" -> u \in Users /\ role[u] # NoRole
      [] link[l].audience = "emails" -> u \in Recipients

\* The end of an operation: the call may go on to the next message of its batch.
Finish(c, did) ==
    call' = [call EXCEPT ![c].at = "done", ![c].did = did, ![c].doc = "unread",
                         ![c].teams = {}, ![c].granted = {}, ![c].level = 0]

Change == changes < MaxChanges /\ changes' = changes + 1

----------------------------------------------------------------------------
(* History *)

\* Denials that apply to the caller, what their role allows at most, and whether the audience of
\* the link excludes them.
Denials(c) ==
    {s \in Subjects : rule[s] = 0 /\ (s = call[c].user \/ (s \in Teams /\ call[c].user \in team[s]))}

Reach(c) ==
    LET u == call[c].user
    IN  IF u = Nobody THEN 0
        ELSE IF role[u] = NoRole THEN 0
        ELSE IF call[c].key = NoKey THEN Capability[role[u]]
        ELSE Capability[Weaker(key[call[c].key].role, role[u])]

Outsider(c) == call[c].link # NoLink /\ ~Admits(call[c].link, call[c].user)

\* Denials count from the start of an operation, the rest from the start of the call.
InOperation(c) == call[c].at \in {"teams", "grants", "resolved", "done"}

Remember ==
    held' = [c \in Calls |->
        [denials |-> {s \in Denials(c)' : InOperation(c) => s \in held[c].denials},
         reach |-> IF call[c].at # "idle" /\ held[c].reach > Reach(c)'
                   THEN held[c].reach ELSE Reach(c)',
         outsider |-> Outsider(c)' /\ (call[c].at # "idle" => held[c].outsider)]]

----------------------------------------------------------------------------
(* Authentication *)

\* authenticate_session, and the lookup of an all-organizations connector per call.
PresentSession(c, u) ==
    /\ call[c].at = "idle"
    /\ role[u] # NoRole
    /\ call' = [call EXCEPT ![c] = [NoCall EXCEPT !.at = "begun", !.user = u, !.cap = role[u]]]
    /\ UNCHANGED <<tables, changes>>

\* authenticate_api_key: the row of the key ...
PresentKey(c, k) ==
    /\ call[c].at = "idle"
    /\ key[k].state = "valid"
    /\ call' = [call EXCEPT ![c] = [NoCall EXCEPT !.at = "known", !.user = key[k].by,
                                                  !.key = k, !.cap = key[k].role]]
    /\ UNCHANGED <<tables, changes>>

\* ... and the current role of its creator.
ReadRole(c) ==
    /\ call[c].at = "known"
    /\ role[call[c].user] # NoRole
    /\ call' = [call EXCEPT ![c].at = "begun", ![c].cap = Weaker(@, role[call[c].user])]
    /\ UNCHANGED <<tables, changes>>

\* The call is refused, fails or has no more messages.
EndCall(c) ==
    /\ call[c].at # "idle"
    /\ call' = [call EXCEPT ![c] = NoCall]
    /\ UNCHANGED <<tables, changes>>

NextMessage(c) ==
    /\ call[c].at = "done"
    /\ call[c].link = NoLink
    /\ call' = [call EXCEPT ![c].at = "begun", ![c].did = "nothing"]
    /\ UNCHANGED <<tables, changes>>

----------------------------------------------------------------------------
(* Operations on the document *)

\* The row of the document, which update_document and the other writers lock, and team_ids.
\* (Only the row says whether the document is there, so one step may read both.)
ReadTeams(c) ==
    /\ call[c].at = "begun"
    /\ call' = [call EXCEPT ![c].at = "teams", ![c].doc = IF live THEN "live" ELSE "deleted",
                            ![c].teams = TeamsOf(call[c].user)]
    /\ UNCHANGED <<tables, changes>>

\* effective_doc_role: the grants ...
ReadGrants(c) ==
    /\ call[c].at = "teams"
    /\ call' = [call EXCEPT ![c].at = "grants",
                            ![c].granted = Granted(call[c].user, call[c].teams)]
    /\ UNCHANGED <<tables, changes>>

\* ... and the denials.
ReadDenials(c) ==
    /\ call[c].at = "grants"
    /\ call' = [call EXCEPT ![c].at = "resolved",
                            ![c].level = Resolve(call[c].cap, call[c].granted,
                                                 Denied(call[c].user, call[c].teams))]
    /\ UNCHANGED <<tables, changes>>

\* authorize_doc
Authorized(c, need) == call[c].at = "resolved" /\ call[c].level >= need

\* get_document: what is shown is the row read before the caller was authorized, although the
\* document may be deleted by now.
ReadDocument(c) ==
    /\ Authorized(c, Viewer)
    /\ call[c].doc = "live"
    /\ Finish(c, "read")
    /\ UNCHANGED <<tables, changes>>

\* update_document and the other operations of module Documents.
WriteDocument(c) ==
    /\ Authorized(c, Editor)
    /\ live
    /\ Finish(c, "written")
    /\ UNCHANGED <<tables, changes>>

\* delete_document and undelete_document
SetDeleted(c) ==
    /\ Authorized(c, Editor)
    /\ live' = ~live
    /\ Finish(c, "written")
    /\ Change
    /\ UNCHANGED <<role, rules, key, link>>

CreateShareLink(c, l, audience) ==
    /\ Authorized(c, Editor)
    /\ link[l].state = "unissued"
    /\ link' = [link EXCEPT ![l] = [state |-> "valid", audience |-> audience]]
    /\ Finish(c, "written")
    /\ Change
    /\ UNCHANGED <<role, rules, live, key>>

\* WHERE revoked_at IS NULL
RevokeShareLink(c, l) ==
    /\ Authorized(c, Editor)
    /\ link[l].state = "valid"
    /\ link' = [link EXCEPT ![l].state = "over"]
    /\ Finish(c, "written")
    /\ Change
    /\ UNCHANGED <<role, rules, live, key>>

----------------------------------------------------------------------------
(* Tags and categories: only the role in the organization is asked for *)

\* add_document_tag does not look at the document, be it deleted.
AddDocumentTag(c) ==
    /\ Writes(c)
    /\ Finish(c, "labelled")
    /\ UNCHANGED <<tables, changes>>

CategorizeDocument(c) ==
    /\ Writes(c)
    /\ live
    /\ Finish(c, "labelled")
    /\ UNCHANGED <<tables, changes>>

\* list_documents_in_category, which leaves out no denied document.
ListDocumentsInCategory(c) ==
    /\ call[c].at = "begun"
    /\ \E filed \in BOOLEAN : Finish(c, IF filed /\ live THEN "browsed" ELSE "nothing")
    /\ UNCHANGED <<tables, changes>>

----------------------------------------------------------------------------
(* Lists and searches: each a single statement, which may also not match *)

ListOrNot(c, matches) ==
    /\ call[c].at = "begun"
    /\ Finish(c, IF matches /\ Lists(call[c].cap, call[c].user) THEN "listed" ELSE "nothing")
    /\ UNCHANGED <<tables, changes>>

ListDocuments(c) == ListOrNot(c, TRUE)
ListDocumentsWithTag(c) == \E tagged \in BOOLEAN : ListOrNot(c, tagged)
Search(c) == \E hit \in BOOLEAN : ListOrNot(c, hit)
SemanticSearch(c) == \E embedded \in BOOLEAN : ListOrNot(c, embedded)
HybridSearch(c) == \E hit, embedded \in BOOLEAN : ListOrNot(c, hit \/ embedded)

----------------------------------------------------------------------------
(* Administration *)

\* require_admin
Administers(c) == call[c].at = "begun" /\ Capability[call[c].cap] >= Admin

CreateTeam(c, t) ==
    /\ Administers(c)
    /\ t \notin founded
    /\ founded' = founded \cup {t}
    /\ Finish(c, "administered")
    /\ Change
    /\ UNCHANGED <<role, team, projectRule, rule, live, key, link>>

\* Whether the member is removed before or after the row is inserted is the same: removal
\* leaves the rows of team_members.
AddTeamMember(c, t, u) ==
    /\ Administers(c)
    /\ t \in founded
    /\ role[u] # NoRole
    /\ team' = [team EXCEPT ![t] = @ \cup {u}]
    /\ Finish(c, "administered")
    /\ Change
    /\ UNCHANGED <<role, founded, projectRule, rule, live, key, link>>

GrantProject(c, s, l) ==
    /\ Administers(c)
    /\ GrantableOnProject(l)
    /\ projectRule' = [projectRule EXCEPT ![s] = l]
    /\ Finish(c, "administered")
    /\ Change
    /\ UNCHANGED <<role, founded, team, rule, live, key, link>>

\* An upsert: granting lifts a denial and denying a grant.
GrantDocument(c, s, l) ==
    /\ Administers(c)
    /\ rule' = [rule EXCEPT ![s] = l]
    /\ Finish(c, "administered")
    /\ Change
    /\ UNCHANGED <<role, founded, team, projectRule, live, key, link>>

CreateApiKey(c, k, r) ==
    /\ Administers(c)
    /\ key[k].state = "unissued"
    /\ key' = [key EXCEPT ![k] = [state |-> "valid", by |-> call[c].user,
                                  role |-> Clamped(r, call[c].cap), via |-> call[c].key]]
    /\ Finish(c, "administered")
    /\ Change
    /\ UNCHANGED <<role, rules, live, link>>

RevokeApiKey(c, k) ==
    /\ Administers(c)
    /\ key[k].state = "valid"
    /\ key' = [key EXCEPT ![k].state = "revoked"]
    /\ Finish(c, "administered")
    /\ Change
    /\ UNCHANGED <<role, rules, live, link>>

----------------------------------------------------------------------------
(* Share links *)

\* resolve_share_link: the row of the link ...
PresentLink(c, l, u) ==
    /\ call[c].at = "idle"
    /\ link[l].state = "valid"
    /\ call' = [call EXCEPT ![c] = [NoCall EXCEPT !.at = "linked", !.user = u, !.link = l]]
    /\ UNCHANGED <<tables, changes>>

\* ... its audience ...
PassAudience(c) ==
    /\ call[c].at = "linked"
    /\ Admits(call[c].link, call[c].user)
    /\ call' = [call EXCEPT ![c].at = "admitted"]
    /\ UNCHANGED <<tables, changes>>

\* ... and the document.
ShowDocument(c) ==
    /\ call[c].at = "admitted"
    /\ live
    /\ Finish(c, "shown")
    /\ UNCHANGED <<tables, changes>>

----------------------------------------------------------------------------
(* What goes on around the calls *)

\* expires_at passes.
LinkExpires(l) ==
    /\ link[l].state = "valid"
    /\ link' = [link EXCEPT ![l].state = "over"]
    /\ Change
    /\ UNCHANGED <<role, rules, live, key, call>>

\* Module Members changes a role, removes a member or admits a user.
SetRole(u, r) ==
    /\ r # role[u]
    /\ role' = [role EXCEPT ![u] = r]
    /\ Change
    /\ UNCHANGED <<rules, live, key, link, call>>

----------------------------------------------------------------------------

NothingHeld == [denials |-> {}, reach |-> 0, outsider |-> FALSE]

Init ==
    /\ role \in [Users -> OrgRoles \cup {NoRole}]
    /\ founded \in SUBSET Teams
    /\ team \in [Teams -> SUBSET Users]
    /\ \A t \in Teams : t \notin founded => team[t] = {}
    /\ projectRule = [s \in Subjects |-> Unset]
    /\ rule = [s \in Subjects |-> Unset]
    /\ live = TRUE
    /\ key = [k \in Keys |-> [state |-> "unissued", by |-> Nobody, role |-> NoRole, via |-> NoKey]]
    /\ link = [l \in Links |-> [state |-> "unissued", audience |-> "public"]]
    /\ call = [c \in Calls |-> NoCall]
    /\ held = [c \in Calls |-> NothingHeld]
    /\ changes = 0

Authentication(c) ==
    \/ \E u \in Users : PresentSession(c, u)
    \/ \E k \in Keys : PresentKey(c, k)
    \/ ReadRole(c) \/ EndCall(c) \/ NextMessage(c)

Operation(c) ==
    \/ ReadTeams(c) \/ ReadGrants(c) \/ ReadDenials(c)
    \/ ReadDocument(c) \/ WriteDocument(c) \/ SetDeleted(c)
    \/ \E l \in Links, audience \in Audiences : CreateShareLink(c, l, audience)
    \/ \E l \in Links : RevokeShareLink(c, l)

Labelling(c) ==
    AddDocumentTag(c) \/ CategorizeDocument(c) \/ ListDocumentsInCategory(c)

Listing(c) ==
    \/ ListDocuments(c) \/ ListDocumentsWithTag(c)
    \/ Search(c) \/ SemanticSearch(c) \/ HybridSearch(c)

Administration(c) ==
    \/ \E t \in Teams : CreateTeam(c, t)
    \/ \E t \in Teams, u \in Users : AddTeamMember(c, t, u)
    \/ \E s \in Subjects, l \in Levels : GrantProject(c, s, l) \/ GrantDocument(c, s, l)
    \/ \E k \in Keys, r \in AskedRoles : CreateApiKey(c, k, r)
    \/ \E k \in Keys : RevokeApiKey(c, k)

Sharing(c) ==
    \/ \E l \in Links, u \in Users \cup {Nobody} : PresentLink(c, l, u)
    \/ PassAudience(c) \/ ShowDocument(c)

Next ==
    /\ \/ \E c \in Calls : \/ Authentication(c) \/ Operation(c) \/ Labelling(c)
                           \/ Listing(c) \/ Administration(c) \/ Sharing(c)
       \/ \E l \in Links : LinkExpires(l)
       \/ \E u \in Users, r \in OrgRoles \cup {NoRole} : SetRole(u, r)
    /\ Remember

Spec == Init /\ [][Next]_vars

----------------------------------------------------------------------------
(* Properties *)

\* Everything has its type; a call that has begun has a user with a role, and a valid key a
\* creator.
TypeOK ==
    /\ role \in [Users -> OrgRoles \cup {NoRole}]
    /\ founded \subseteq Teams
    /\ team \in [Teams -> SUBSET Users]
    /\ projectRule \in [Subjects -> (1..Admin) \cup {Unset}]
    /\ rule \in [Subjects -> (0..Admin) \cup {Unset}]
    /\ live \in BOOLEAN
    /\ key \in [Keys -> Key]
    /\ \A k \in Keys : key[k].state # "unissued" => key[k].by \in Users /\ key[k].role \in OrgRoles
    /\ link \in [Links -> Link]
    /\ call \in [Calls -> Call]
    /\ \A c \in Calls :
         /\ call[c].at \in {"known", "begun", "teams", "grants", "resolved"} =>
              call[c].user \in Users /\ call[c].cap \in OrgRoles
         /\ call[c].at \in {"linked", "admitted"} => call[c].link \in Links
    /\ held \in [Calls -> [denials: SUBSET Subjects, reach: 0..Admin, outsider: BOOLEAN]]
    /\ changes \in 0..MaxChanges

\* A denial of the caller, or of a team the caller is in, that stood from the first to the last
\* statement of an operation on the document has vetoed it, whatever was granted meanwhile, to
\* the caller or to any team; and what a list or a search shows is denied to the caller by no
\* rule that stood then.  Calls that go on with the role of an owner or an admin are exempt.
\* (A denial that is handed over, from a team to a user who joins it after the teams were read,
\* can be missed.  Tags, categories and the list of a category ask for no denial at all: what
\* was "labelled" or "browsed" is not covered.)
DenialsVeto ==
    \A c \in Calls :
        call[c].did \in {"read", "written", "listed"} /\ held[c].denials # {} =>
            call[c].cap \in Privileged

\* No call does more than the caller's role, and the key that was used, allowed at some time
\* since it began: grants and teams never lift a viewer, and a member who is demoted or
\* removed loses at most one call, or the rest of one batch.
NobodyExceedsTheirRole ==
    \A c \in Calls :
        /\ call[c].did \in {"read", "listed", "browsed"} => held[c].reach >= Viewer
        /\ call[c].did \in {"written", "labelled"} => held[c].reach >= Editor
        /\ call[c].did = "administered" => held[c].reach = Admin

\* A document is shown through a link only to those the link is meant for, some time during
\* the call.
OnlyTheAudienceIsShown ==
    \A c \in Calls : call[c].did = "shown" => ~held[c].outsider

\* A key that was minted with another key ranks no higher than it, along the whole chain and
\* although the creator's own role may be higher.
KeyChainsNeverGainRank ==
    \A k \in Keys : key[k].via # NoKey => Rank[key[k].role] <= Rank[key[key[k].via].role]
=============================================================================
