----------------------------- MODULE OAuthGrants -----------------------------
(***************************************************************************)
(* The authorization server of crates/db/src/oauth.rs for one user and one *)
(* connector: consent, code, rotating token pairs, revocation of a family, *)
(* and the move of a family to another organization.                       *)
(*                                                                         *)
(* Everything runs in READ COMMITTED transactions.  An UPDATE over a       *)
(* family takes a snapshot of the rows that match and then locks them one  *)
(* by one, in no fixed order, waiting where another call holds the lock,   *)
(* and writes those that still match.  Rows inserted after the snapshot    *)
(* are not seen.  A row stays locked, written or not, until the            *)
(* transaction commits, when its writes become visible.                    *)
(*                                                                         *)
(* A grant is one authorization request with the code and the tokens that  *)
(* come of it.  An all-orgs grant is one whose organization is the user's  *)
(* home organization: its tokens rotate, move and die like the others.     *)
(* Tokens do not expire here: to every UPDATE an expired token is what a   *)
(* live one is, and nobody succeeds in presenting it.  An expired request  *)
(* or code may also be deleted (cleanup_expired_oauth), which no caller    *)
(* can tell.                                                               *)
(* The user's memberships are module Members' concern: wherever the code   *)
(* looks one up, both answers are possible here, and a refusal is no step. *)
(***************************************************************************)
EXTENDS Integers, FiniteSets

CONSTANTS
    Grants,         \* authorization requests
    Orgs,           \* organizations
    Calls,          \* API calls in flight at once
    MaxPairs,       \* model bound on token pairs
    NoGrant, NoOrg

ASSUME OAuthAssumption ==
    /\ MaxPairs \in Nat
    /\ NoGrant \notin Grants
    /\ NoOrg \notin Orgs

VARIABLES
    grant,      \* [Grants -> Grant]: authorization request and code
    row,        \* [Tables -> [Pairs -> Row]]: oauth_access_tokens, oauth_refresh_tokens
    grantOf,    \* [Pairs -> Grants \cup {NoGrant}]: the consent a pair goes back to (history)
    call        \* [Calls -> Call]: transactions in progress

vars == <<grant, row, grantOf, call>>

Pairs == 1..MaxPairs
Tables == {"access", "refresh"}
OptionalOrg == Orgs \cup {NoOrg}

\* "coded": approved, the code not yet exchanged; "expired": request or code.
Grant ==
    [stage: {"none", "pending", "denied", "coded", "exchanged", "expired"}, org: OptionalOrg]

\* "rotated" is revoked_at and rotated_to both set.
Row == [status: {"none", "live", "rotated", "revoked"}, org: OptionalOrg]

\* step counts the UPDATEs begun.  seen: the rows in the snapshot of each table's UPDATE;
\* held: rows locked; written: those of them that the UPDATE has changed.
Call ==
    [task: {"none", "refresh", "revoke", "switch"}, org: OptionalOrg, to: OptionalOrg,
     step: 0..2, seen: [Tables -> SUBSET Pairs], held: [Tables -> SUBSET Pairs],
     written: [Tables -> SUBSET Pairs]]

NoRow == [status |-> "none", org |-> NoOrg]
NoRows == [t \in Tables |-> {}]
NoCall ==
    [task |-> "none", org |-> NoOrg, to |-> NoOrg, step |-> 0, seen |-> NoRows, held |-> NoRows,
     written |-> NoRows]

Issued(p) == row["refresh"][p].status # "none"

----------------------------------------------------------------------------
(* Faulty variants of definitions below, each a plausible slip in the code. No     *)
(* specification uses them: they show that the properties can fail.                *)

\* Family updates without revoked_at IS NULL.
InFamilyDeadOrAlive(t, p, o) == row[t][p].status # "none" /\ row[t][p].org = o

\* refresh_oauth_token without the UPDATE of the token it rotates.
RotateUnmarked(c, q) ==
    /\ call[c].task = "refresh"
    /\ row["refresh"][q].status = "none"
    /\ \A p \in 1..(q - 1) : row["refresh"][p].status # "none"
    /\ \E p \in call[c].held["refresh"] : grantOf' = [grantOf EXCEPT ![q] = grantOf[p]]
    /\ row' = [t \in Tables |->
                 [row[t] EXCEPT ![q] = [status |-> "live", org |-> call[c].org]]]
    /\ call' = [call EXCEPT ![c] = NoCall]
    /\ UNCHANGED <<grant>>

\* The SELECT of refresh_oauth_token without FOR UPDATE, updates that wait for nobody.
NoRowLock(c, t, p) == TRUE

\* Family updates that skip the rows they would have to wait for.
SkipsLockedRows(c, t) ==
    \A p \in call[c].seen[t] \ call[c].held[t] :
        \E d \in Calls \ {c} : p \in call[d].held[t]

\* issue_token_pair_with_ids without the INSERT of the refresh token.
IssueAccessOnly(p, g, o) ==
    /\ row' = [row EXCEPT !["access"][p] = [status |-> "live", org |-> o]]
    /\ grantOf' = [grantOf EXCEPT ![p] = g]

----------------------------------------------------------------------------
(* Helpers of oauth.rs *)

\* revoked_at IS NULL
Unrevoked(t, p) == row[t][p].status = "live"

\* The WHERE clause of every update of a family.
InFamily(t, p, o) == Unrevoked(t, p) /\ row[t][p].org = o

\* The row is not locked by another transaction.
RowIsFree(c, t, p) == \A d \in Calls \ {c} : p \notin call[d].held[t]

\* grant_client_db_id: the user has a grant in this organization.
HasGrantIn(o) == \E p \in Pairs : InFamily("refresh", p, o)

\* consumed_at IS NULL AND expires_at > now()
CodeIsUnused(g) == grant[g].stage = "coded"

\* The UPDATE of table t is through with the rows it saw.
AllLocked(c, t) == call[c].seen[t] \subseteq call[c].held[t]

\* The presented refresh token has been used or revoked before.
Reused(p) == row["refresh"][p].status \in {"rotated", "revoked"}

\* revoke_family writes refresh tokens first, switch_oauth_grant access tokens.
Order(task) == IF task = "revoke" THEN <<"refresh", "access">> ELSE <<"access", "refresh">>

NextPair(p) == ~ Issued(p) /\ \A q \in 1..(p - 1) : Issued(q)

\* issue_token_pair_with_ids: a pair p of live tokens.
WithPair(rows, p, o) ==
    [t \in Tables |-> [rows[t] EXCEPT ![p] = [status |-> "live", org |-> o]]]

IssuePair(p, g, o) ==
    /\ row' = WithPair(row, p, o)
    /\ grantOf' = [grantOf EXCEPT ![p] = g]

EndCall(c) == call' = [call EXCEPT ![c] = NoCall]

----------------------------------------------------------------------------
Init ==
    /\ grant = [g \in Grants |-> [stage |-> "none", org |-> NoOrg]]
    /\ row = [t \in Tables |-> [p \in Pairs |-> NoRow]]
    /\ grantOf = [p \in Pairs |-> NoGrant]
    /\ call = [c \in Calls |-> NoCall]

\* create_authorization_request
CreateRequest(g) ==
    /\ grant[g].stage = "none"
    /\ grant' = [grant EXCEPT ![g].stage = "pending"]
    /\ UNCHANGED <<row, grantOf, call>>

\* approve_authorization_request: consumes the request and mints its code.  If the user
\* is no member of o the consumption is rolled back.
Approve(g, o) ==
    /\ grant[g].stage = "pending"
    /\ grant' = [grant EXCEPT ![g] = [stage |-> "coded", org |-> o]]
    /\ UNCHANGED <<row, grantOf, call>>

Deny(g) ==
    /\ grant[g].stage = "pending"
    /\ grant' = [grant EXCEPT ![g].stage = "denied"]
    /\ UNCHANGED <<row, grantOf, call>>

\* expires_at of a request or of a code passes.
Expire(g) ==
    /\ grant[g].stage \in {"pending", "coded"}
    /\ grant' = [grant EXCEPT ![g].stage = "expired"]
    /\ UNCHANGED <<row, grantOf, call>>

\* exchange_auth_code: under the code's row lock, all or nothing.
Exchange(g, p) ==
    /\ CodeIsUnused(g)
    /\ NextPair(p)
    /\ grant' = [grant EXCEPT ![g].stage = "exchanged"]
    /\ IssuePair(p, g, grant[g].org)
    /\ UNCHANGED <<call>>

\* refresh_oauth_token up to its checks: it locks the presented row and goes on to rotate
\* it or, if it was used before, to revoke its family.
PresentRefresh(c, p) ==
    /\ call[c] = NoCall
    /\ Issued(p)
    /\ RowIsFree(c, "refresh", p)
    /\ call' = [call EXCEPT ![c] =
                  [NoCall EXCEPT !.task = IF Reused(p) THEN "revoke" ELSE "refresh",
                                 !.org = row["refresh"][p].org,
                                 !.held = [NoRows EXCEPT !["refresh"] = {p}]]]
    /\ UNCHANGED <<grant, row, grantOf>>

\* refresh_oauth_token's new pair, the mark on the old one, and the commit.
Rotate(c, q) ==
    /\ call[c].task = "refresh"
    /\ NextPair(q)
    /\ \E p \in call[c].held["refresh"] :
         /\ Unrevoked("refresh", p)
         /\ row' = [WithPair(row, q, call[c].org) EXCEPT !["refresh"][p].status = "rotated"]
         /\ grantOf' = [grantOf EXCEPT ![q] = grantOf[p]]
    /\ EndCall(c)
    /\ UNCHANGED <<grant>>

\* revoke_oauth_token with a refresh token reads the row's organization without a lock.
RevokeByToken(c, p) ==
    /\ call[c] = NoCall
    /\ Issued(p)
    /\ call' = [call EXCEPT ![c] = [NoCall EXCEPT !.task = "revoke", !.org = row["refresh"][p].org]]
    /\ UNCHANGED <<grant, row, grantOf>>

\* revoke_oauth_token with an access token: one UPDATE of one row.
RevokeAccess(c, p) ==
    /\ call[c] = NoCall
    /\ RowIsFree(c, "access", p)
    /\ Unrevoked("access", p)
    /\ row' = [row EXCEPT !["access"][p].status = "revoked"]
    /\ UNCHANGED <<grant, grantOf, call>>

\* revoke_oauth_grant, the "Connected apps" button.
RevokeGrant(c, o) ==
    /\ call[c] = NoCall
    /\ HasGrantIn(o)
    /\ call' = [call EXCEPT ![c] = [NoCall EXCEPT !.task = "revoke", !.org = o]]
    /\ UNCHANGED <<grant, row, grantOf>>

\* switch_oauth_grant up to its updates, if the user is a member of the target.
SwitchGrant(c, o, to) ==
    /\ call[c] = NoCall
    /\ o # to
    /\ HasGrantIn(o)
    /\ call' = [call EXCEPT ![c] = [NoCall EXCEPT !.task = "switch", !.org = o, !.to = to]]
    /\ UNCHANGED <<grant, row, grantOf>>

\* An UPDATE of a family begins: the rows that match in what is committed.
Snapshot(c, t) ==
    /\ call[c].task \in {"revoke", "switch"}
    /\ LET order == Order(call[c].task)
       IN  \/ call[c].step = 0 /\ t = order[1]
           \/ call[c].step = 1 /\ t = order[2] /\ AllLocked(c, order[1])
    /\ call' = [call EXCEPT ![c].seen[t] = {p \in Pairs : InFamily(t, p, call[c].org)},
                            ![c].step = @ + 1]
    /\ UNCHANGED <<grant, row, grantOf>>

\* It comes to the next row, has waited for whoever held it, locks it, and writes it if
\* what is committed by now still matches.
LockRow(c, t, p) ==
    /\ call[c].task \in {"revoke", "switch"}
    /\ p \in call[c].seen[t] \ call[c].held[t]
    /\ RowIsFree(c, t, p)
    /\ call' = [call EXCEPT
                  ![c].held[t] = @ \cup {p},
                  ![c].written[t] = IF InFamily(t, p, call[c].org) THEN @ \cup {p} ELSE @]
    /\ UNCHANGED <<grant, row, grantOf>>

\* Both UPDATEs of a revocation or a switch are done.
IsThrough(c) == call[c].step = 2 /\ \A t \in Tables : AllLocked(c, t)

\* The end of revoke_family, and the commit.
CommitRevoke(c) ==
    /\ call[c].task = "revoke"
    /\ IsThrough(c)
    /\ row' = [t \in Tables |-> [p \in Pairs |->
                 IF p \in call[c].written[t] THEN [row[t][p] EXCEPT !.status = "revoked"]
                 ELSE row[t][p]]]
    /\ EndCall(c)
    /\ UNCHANGED <<grant, grantOf>>

\* The end of switch_oauth_grant, and the commit.
CommitSwitch(c) ==
    /\ call[c].task = "switch"
    /\ IsThrough(c)
    /\ row' = [t \in Tables |-> [p \in Pairs |->
                 IF p \in call[c].written[t] THEN [row[t][p] EXCEPT !.org = call[c].to]
                 ELSE row[t][p]]]
    /\ EndCall(c)
    /\ UNCHANGED <<grant, grantOf>>

\* An error, a lost connection, or the database breaking a deadlock of two calls.
Rollback(c) ==
    /\ call[c] # NoCall
    /\ EndCall(c)
    /\ UNCHANGED <<grant, row, grantOf>>

Next ==
    \/ \E g \in Grants :
        \/ CreateRequest(g)
        \/ \E o \in Orgs : Approve(g, o)
        \/ Deny(g)
        \/ Expire(g)
        \/ \E p \in Pairs : Exchange(g, p)
    \/ \E c \in Calls :
        \/ \E p \in Pairs : PresentRefresh(c, p)
        \/ \E q \in Pairs : Rotate(c, q)
        \/ \E p \in Pairs : RevokeByToken(c, p)
        \/ \E p \in Pairs : RevokeAccess(c, p)
        \/ \E o \in Orgs : RevokeGrant(c, o)
        \/ \E o, to \in Orgs : SwitchGrant(c, o, to)
        \/ \E t \in Tables : Snapshot(c, t)
        \/ \E t \in Tables, p \in Pairs : LockRow(c, t, p)
        \/ CommitRevoke(c)
        \/ CommitSwitch(c)
        \/ Rollback(c)

Spec == Init /\ [][Next]_vars

----------------------------------------------------------------------------
(* Properties *)

\* Rows and transactions are well formed, and the tokens of a pair are issued together
\* for a grant whose code was exchanged.
TypeOK ==
    /\ grant \in [Grants -> Grant]
    /\ row \in [Tables -> [Pairs -> Row]]
    /\ grantOf \in [Pairs -> Grants \cup {NoGrant}]
    /\ call \in [Calls -> Call]
    /\ \A p \in Pairs : \A t \in Tables : row[t][p].status # "none" <=> grantOf[p] # NoGrant
    /\ \A p \in Pairs : Issued(p) => grant[grantOf[p]].stage = "exchanged"

\* The token a call is about to rotate is live and in the organization the new pair will
\* be issued for, until it commits: no revocation or switch comes between.
RotatedTokensAreCurrent ==
    \A c \in Calls :
        call[c].task = "refresh" =>
            \A p \in call[c].held["refresh"] :
                row["refresh"][p] = [status |-> "live", org |-> call[c].org]

\* The row of a rotated or revoked token is final: neither a revocation nor a switch
\* that saw it before it died touches it, so rotated_to and the organization still
\* tell a later reuse what to revoke.
DeadTokensStayAsTheyDied ==
    [][\A t \in Tables, p \in Pairs :
         row[t][p].status \in {"rotated", "revoked"} => row'[t][p] = row[t][p]]_vars

\* A revocation that commits leaves no working token of the family among those its two
\* statements saw, although it had to wait for rotations, switches and other revocations
\* that held them: a row that has left the family meanwhile cannot come back before the
\* commit, and what escapes the revocation did not exist when it looked.
RevocationsReachWhatTheySaw ==
    [][\A c \in Calls :
         CommitRevoke(c) =>
            \A t \in Tables : \A p \in call[c].seen[t] :
                ~ (Unrevoked(t, p)' /\ row'[t][p].org = call[c].org)]_vars

\* A revocation that commits leaves no working refresh token in the family to a grant
\* that had one when it began, as revoke_family describes itself.
RevocationsAreComplete ==
    [][\A c \in Calls :
         CommitRevoke(c) =>
            \A p \in call[c].seen["refresh"], q \in Pairs :
                Unrevoked("refresh", q)' /\ row'["refresh"][q].org = call[c].org
                    => grantOf[p] # grantOf'[q]]_vars

\* The access and the refresh token of a pair act for the same organization while both
\* work: a switch moves a connection as a whole.
PairsStayTogether ==
    \A p \in Pairs :
        Unrevoked("access", p) /\ Unrevoked("refresh", p) =>
            row["access"][p].org = row["refresh"][p].org

\* The refresh tokens of a grant that work, and those that have.
LiveOf(g) == {p \in Pairs : grantOf[p] = g /\ Unrevoked("refresh", p)}
DeadOf(g) == {p \in Pairs : grantOf[p] = g /\ Reused(p)}

StageOf(g) ==
    CASE grant[g].stage = "none" -> "unasked"
      [] grant[g].stage = "pending" -> "asked"
      [] grant[g].stage = "coded" -> "approved"
      [] grant[g].stage = "exchanged" -> "connected"
      [] OTHER -> "refused"

Life == INSTANCE GrantLife WITH
    Tokens <- Pairs,
    stage <- [g \in Grants |-> StageOf(g)],
    live <- [g \in Grants |-> LiveOf(g)],
    dead <- [g \in Grants |-> DeadOf(g)]

\* Every consent is what GrantLife promises: one chain of refresh tokens that ends.
ImplementsGrantLife == Life!Spec
=============================================================================
