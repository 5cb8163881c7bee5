------------------------- MODULE OAuthGrants_proofs -------------------------
(***************************************************************************)
(* Theorems about OAuthGrants, for any number of grants, organizations,    *)
(* calls and token pairs.                                                  *)
(***************************************************************************)
EXTENDS OAuthGrants, TLAPS

----------------------------------------------------------------------------
(* The inductive invariant *)

\* However many calls present a code or a refresh token at once, a grant never has two
\* refresh tokens that work: there is one chain of rotations per consent.
OneLiveRefreshPerGrant ==
    \A p, q \in Pairs :
        /\ Unrevoked("refresh", p)
        /\ Unrevoked("refresh", q)
        /\ grantOf[p] = grantOf[q]
        => p = q

\* A row is locked by one call at a time.
LocksAreExclusive ==
    \A c, d \in Calls : \A t \in Tables :
        c # d => call[c].held[t] \cap call[d].held[t] = {}

\* Rows seen and locked exist.
RowsWereIssued ==
    \A c \in Calls : \A t \in Tables : \A p \in call[c].seen[t] \cup call[c].held[t] : Issued(p)

\* The judgement a revocation or a switch has made of a row it locked is right until its
\* commit: the rows it wrote are in the family, the others are not.
Judged(r) ==
    \A t \in Tables :
        /\ r.written[t] \subseteq r.held[t]
        /\ r.task \in {"revoke", "switch"} =>
              \A p \in r.held[t] : p \in r.written[t] <=> InFamily(t, p, r.org)

LockedRowsAreJudged == \A c \in Calls : Judged(call[c])

IInv ==
    /\ TypeOK
    /\ OneLiveRefreshPerGrant
    /\ RotatedTokensAreCurrent
    /\ LocksAreExclusive
    /\ RowsWereIssued
    /\ LockedRowsAreJudged

LEMMA NullRecordsAreTyped == NoRow \in Row /\ NoCall \in Call
BY DEF NoRow, Row, NoCall, NoRows, Call, OptionalOrg

LEMMA NullCall ==
    /\ NoCall \in Call
    /\ NoCall.task = "none" /\ NoCall.step = 0
    /\ NoCall.seen = NoRows /\ NoCall.held = NoRows /\ NoCall.written = NoRows
    /\ Judged(NoCall)
<1>1. NoCall.task = "none" /\ NoCall.held = NoRows /\ NoCall.written = NoRows
  BY DEF NoCall
<1>2. Judged(NoCall)
  BY <1>1 DEF Judged, NoRows
<1> QED
  BY <1>2, NullRecordsAreTyped DEF NoCall

LEMMA InitInvariant == Init => IInv
<1> SUFFICES ASSUME Init PROVE IInv
  OBVIOUS
<1>1. TypeOK
  BY NullRecordsAreTyped DEF Init, TypeOK, Grant, OptionalOrg, Issued, NoRow, Tables
<1>2. \A p \in Pairs, t \in Tables : row[t][p].status = "none"
  BY DEF Init, NoRow
<1>3. \A c \in Calls : call[c] = NoCall
  BY DEF Init
<1>4. \A c \in Calls : call[c].task = "none" /\ \A t \in Tables :
                          call[c].held[t] = {} /\ call[c].seen[t] = {}
  BY <1>3, NullCall DEF NoRows
<1>5. LockedRowsAreJudged
  BY <1>3, NullCall DEF LockedRowsAreJudged
<1> QED
  BY <1>1, <1>2, <1>4, <1>5 DEF IInv, OneLiveRefreshPerGrant, Unrevoked,
     RotatedTokensAreCurrent, LocksAreExclusive, RowsWereIssued, Tables

----------------------------------------------------------------------------
(* What a step must leave alone *)

\* One call begins, goes on or ends and nothing is written: it must be right about the
\* rows it holds and has seen.
LEMMA CallStep ==
    ASSUME IInv, NEW c \in Calls, NEW r \in Call,
           call' = [call EXCEPT ![c] = r],
           UNCHANGED <<grant, row, grantOf>>,
           \A d \in Calls \ {c}, t \in Tables : r.held[t] \cap call[d].held[t] = {},
           \A t \in Tables : \A p \in r.seen[t] \cup r.held[t] : Issued(p),
           r.task = "refresh" => \A p \in r.held["refresh"] :
               row["refresh"][p] = [status |-> "live", org |-> r.org],
           Judged(r)
    PROVE  IInv'
<1>1. call \in [Calls -> Call]
  BY DEF IInv, TypeOK
<1>2. call' \in [Calls -> Call]
  BY <1>1
<1>3. call'[c] = r /\ \A d \in Calls \ {c} : call'[d] = call[d]
  BY <1>1
<1>4. TypeOK'
  BY <1>2 DEF IInv, TypeOK, Issued
<1>5. OneLiveRefreshPerGrant'
  BY DEF IInv, OneLiveRefreshPerGrant, Unrevoked
<1>6. RotatedTokensAreCurrent'
  BY <1>3 DEF IInv, RotatedTokensAreCurrent
<1>7. LocksAreExclusive'
  <2> SUFFICES ASSUME NEW a \in Calls, NEW b \in Calls, NEW t \in Tables, a # b
               PROVE  call'[a].held[t] \cap call'[b].held[t] = {}
    BY DEF LocksAreExclusive
  <2>1. CASE a = c
    BY <2>1, <1>3
  <2>2. CASE b = c
    BY <2>2, <1>3
  <2>3. CASE a # c /\ b # c
    BY <2>3, <1>3 DEF IInv, LocksAreExclusive
  <2> QED
    BY <2>1, <2>2, <2>3
<1>8. RowsWereIssued'
  BY <1>3 DEF IInv, RowsWereIssued, Issued
<1>9. LockedRowsAreJudged'
  <2>1. \A d \in Calls : Judged(call'[d])
    BY <1>3 DEF IInv, LockedRowsAreJudged
  <2> QED
    BY <2>1 DEF LockedRowsAreJudged, Judged, InFamily, Unrevoked
<1> QED
  BY <1>4, <1>5, <1>6, <1>7, <1>8, <1>9 DEF IInv

\* Rows are written, none of them locked by a call that goes on.
LEMMA RowStep ==
    ASSUME IInv,
           \A p \in Pairs : Issued(p) => Issued(p)',
           \A d \in Calls : call'[d] # NoCall =>
             /\ call'[d] = call[d]
             /\ \A t \in Tables : \A p \in call[d].held[t] : row'[t][p] = row[t][p]
    PROVE  /\ RotatedTokensAreCurrent'
           /\ LocksAreExclusive'
           /\ RowsWereIssued'
           /\ LockedRowsAreJudged'
<1>1. NoCall.task = "none" /\ \A t \in Tables : NoCall.held[t] = {} /\ NoCall.seen[t] = {}
  BY DEF NoCall, NoRows
<1>2. \A d \in Calls : \A t \in Tables :
          call[d].seen[t] \subseteq Pairs /\ call[d].held[t] \subseteq Pairs
  BY DEF IInv, TypeOK, Call
<1>3. RotatedTokensAreCurrent'
  <2>1. "refresh" \in Tables
    BY DEF Tables
  <2> QED
    BY <1>1, <2>1 DEF IInv, RotatedTokensAreCurrent
<1>4. LocksAreExclusive'
  <2> SUFFICES ASSUME NEW a \in Calls, NEW b \in Calls, NEW t \in Tables, a # b
               PROVE  call'[a].held[t] \cap call'[b].held[t] = {}
    BY DEF LocksAreExclusive
  <2>1. CASE call'[a] = NoCall \/ call'[b] = NoCall
    BY <2>1, <1>1
  <2>2. CASE call'[a] # NoCall /\ call'[b] # NoCall
    BY <2>2 DEF IInv, LocksAreExclusive
  <2> QED
    BY <2>1, <2>2
<1>5. RowsWereIssued'
  <2> SUFFICES ASSUME NEW d \in Calls, NEW t \in Tables,
                      NEW p \in call'[d].seen[t] \cup call'[d].held[t]
               PROVE  Issued(p)'
    BY DEF RowsWereIssued
  <2>1. call'[d] = call[d]
    BY <1>1
  <2> QED
    BY <2>1, <1>2 DEF IInv, RowsWereIssued
<1>6. LockedRowsAreJudged'
  <2> SUFFICES ASSUME NEW d \in Calls, call'[d] # NoCall, NEW t \in Tables
               PROVE  /\ call'[d].written[t] \subseteq call'[d].held[t]
                      /\ call'[d].task \in {"revoke", "switch"} =>
                           \A p \in call'[d].held[t] : p \in call'[d].written[t] <=>
                             (row'[t][p].status = "live" /\ row'[t][p].org = call'[d].org)
    BY NullCall DEF LockedRowsAreJudged, Judged, InFamily, Unrevoked, NoRows
  <2>1. call'[d] = call[d] /\ \A p \in call[d].held[t] : row'[t][p] = row[t][p]
    OBVIOUS
  <2>2. Judged(call[d])
    BY DEF IInv, LockedRowsAreJudged
  <2> QED
    BY <2>1, <2>2 DEF Judged, InFamily, Unrevoked
<1> QED
  BY <1>3, <1>4, <1>5, <1>6

----------------------------------------------------------------------------
(* Token pairs *)

\* A new pair q of a grant whose other refresh tokens are dead once it is there.
LEMMA PairStep ==
    ASSUME IInv, NEW q \in Pairs, NextPair(q), NEW g \in Grants, NEW o \in OptionalOrg,
           call' \in [Calls -> Call],
           grant' \in [Grants -> Grant],
           grant'[g].stage = "exchanged",
           \A h \in Grants : grant[h].stage = "exchanged" => grant'[h].stage = "exchanged",
           row' \in [Tables -> [Pairs -> Row]],
           \A t \in Tables : row'[t][q].status = "live",
           \A t \in Tables : \A p \in Pairs \ {q} :
               \/ row'[t][p] = row[t][p]
               \/ row[t][p].status = "live" /\ row'[t][p].status = "rotated",
           \A p \in Pairs \ {q} : grantOf[p] = g => ~ Unrevoked("refresh", p)',
           grantOf' = [grantOf EXCEPT ![q] = g]
    PROVE  TypeOK' /\ OneLiveRefreshPerGrant' /\ \A p \in Pairs : Issued(p) => Issued(p)'
<1>1. grantOf \in [Pairs -> Grants \cup {NoGrant}] /\ NoGrant \notin Grants
  BY OAuthAssumption DEF IInv, TypeOK
<1>2. grantOf' \in [Pairs -> Grants \cup {NoGrant}]
  BY <1>1
<1>3. grantOf'[q] = g /\ \A p \in Pairs \ {q} : grantOf'[p] = grantOf[p]
  BY <1>1
<1>4. \A t \in Tables : \A p \in Pairs \ {q} :
          row'[t][p].status # "none" <=> row[t][p].status # "none"
  OBVIOUS
<1>5. \A p \in Pairs : \A t \in Tables : row'[t][p].status # "none" <=> grantOf'[p] # NoGrant
  BY <1>1, <1>3, <1>4 DEF IInv, TypeOK
<1>6. "refresh" \in Tables
  BY DEF Tables
<1>7. \A p \in Pairs \ {q} : Issued(p)' <=> Issued(p)
  BY <1>4, <1>6 DEF Issued
<1>8. \A p \in Pairs : Issued(p) => grantOf[p] \in Grants
  BY <1>1, <1>6 DEF IInv, TypeOK, Issued
<1>9. \A p \in Pairs : Issued(p)' => grant'[grantOf'[p]].stage = "exchanged"
  BY <1>3, <1>7, <1>8 DEF IInv, TypeOK
<1>10. TypeOK'
  BY <1>2, <1>5, <1>9 DEF TypeOK
<1>11. \A p \in Pairs \ {q} : Unrevoked("refresh", p)' => Unrevoked("refresh", p)
  BY <1>6 DEF Unrevoked
<1>12. OneLiveRefreshPerGrant'
  BY <1>3, <1>11 DEF IInv, OneLiveRefreshPerGrant
<1>13. ~ Issued(q)
  BY DEF NextPair
<1> QED
  BY <1>7, <1>10, <1>12, <1>13

\* Live rows are revoked or moved to another organization, and nothing else.
LEMMA LiveRowsStep ==
    ASSUME IInv, call' \in [Calls -> Call], UNCHANGED <<grant, grantOf>>,
           row' \in [Tables -> [Pairs -> Row]],
           \A t \in Tables : \A p \in Pairs :
               \/ row'[t][p] = row[t][p]
               \/ row[t][p].status = "live" /\ row'[t][p].status \in {"live", "revoked"}
    PROVE  TypeOK' /\ OneLiveRefreshPerGrant' /\ \A p \in Pairs : Issued(p) => Issued(p)'
<1>1. "refresh" \in Tables
  BY DEF Tables
<1>2. \A t \in Tables : \A p \in Pairs : row'[t][p].status # "none" <=> row[t][p].status # "none"
  OBVIOUS
<1>3. \A p \in Pairs : Issued(p)' <=> Issued(p)
  BY <1>1, <1>2 DEF Issued
<1>4. TypeOK'
  BY <1>2, <1>3 DEF IInv, TypeOK
<1>5. \A p \in Pairs : Unrevoked("refresh", p)' => Unrevoked("refresh", p)
  BY <1>1 DEF Unrevoked
<1>6. OneLiveRefreshPerGrant'
  BY <1>5 DEF IInv, OneLiveRefreshPerGrant
<1> QED
  BY <1>3, <1>4, <1>6

\* The rows after a new pair of organization o.
LEMMA PairRows ==
    ASSUME IInv, NEW q \in Pairs, NEW o \in OptionalOrg
    PROVE  /\ WithPair(row, q, o) \in [Tables -> [Pairs -> Row]]
           /\ \A t \in Tables :
                /\ WithPair(row, q, o)[t][q] = [status |-> "live", org |-> o]
                /\ \A p \in Pairs \ {q} : WithPair(row, q, o)[t][p] = row[t][p]
<1>1. row \in [Tables -> [Pairs -> Row]]
  BY DEF IInv, TypeOK
<1>2. [status |-> "live", org |-> o] \in Row
  BY DEF Row
<1> QED
  BY <1>1, <1>2 DEF WithPair

\* The row a rotation holds exists and is live.
LEMMA RotatedTokensAreLive ==
    ASSUME IInv, NEW d \in Calls, call[d].task = "refresh", NEW p \in call[d].held["refresh"]
    PROVE  p \in Pairs /\ Unrevoked("refresh", p)
<1>1. call[d] \in Call /\ "refresh" \in Tables
  BY DEF IInv, TypeOK, Tables
<1>2. p \in Pairs
  BY <1>1 DEF Call
<1>3. row["refresh"][p] = [status |-> "live", org |-> call[d].org]
  BY Zenon DEF IInv, RotatedTokensAreCurrent
<1> QED
  BY <1>2, <1>3 DEF Unrevoked

----------------------------------------------------------------------------
(* Invariance *)

\* Requests and codes, by action.
LEMMA RequestsPreserve ==
    ASSUME IInv, NEW g \in Grants,
           \/ CreateRequest(g)
           \/ \E o \in Orgs : Approve(g, o)
           \/ Deny(g)
           \/ Expire(g)
    PROVE  IInv'
<1>1. grant \in [Grants -> Grant] /\ grant[g].stage # "exchanged"
  BY DEF IInv, TypeOK, CreateRequest, Approve, Deny, Expire
<1>2. UNCHANGED <<row, grantOf, call>>
  BY DEF CreateRequest, Approve, Deny, Expire
<1>3. grant' \in [Grants -> Grant] /\ \A h \in Grants \ {g} : grant'[h] = grant[h]
  <2>1. CASE CreateRequest(g)
    BY <1>1, <2>1 DEF CreateRequest, Grant
  <2>2. ASSUME NEW o \in Orgs, Approve(g, o)
        PROVE  grant' \in [Grants -> Grant] /\ \A h \in Grants \ {g} : grant'[h] = grant[h]
    <3>1. [stage |-> "coded", org |-> o] \in Grant
      BY DEF Grant, OptionalOrg
    <3> QED
      BY <1>1, <2>2, <3>1 DEF Approve
  <2>3. CASE Deny(g)
    BY <1>1, <2>3 DEF Deny, Grant
  <2>4. CASE Expire(g)
    BY <1>1, <2>4 DEF Expire, Grant
  <2> QED
    BY <2>1, <2>2, <2>3, <2>4
<1>4. \A p \in Pairs : Issued(p) => grantOf[p] \in Grants
  BY OAuthAssumption DEF IInv, TypeOK, Issued, Tables
<1>5. \A p \in Pairs : Issued(p)' => grant'[grantOf'[p]].stage = "exchanged"
  BY <1>1, <1>2, <1>3, <1>4 DEF IInv, TypeOK, Issued
<1>6. TypeOK'
  BY <1>2, <1>3, <1>5 DEF IInv, TypeOK
<1> QED
  BY <1>2, <1>6 DEF IInv, OneLiveRefreshPerGrant, RotatedTokensAreCurrent, LocksAreExclusive,
     RowsWereIssued, LockedRowsAreJudged, Judged, Issued, Unrevoked, InFamily

\* exchange_auth_code
LEMMA ExchangePreserves ==
    ASSUME IInv, NEW g \in Grants, NEW q \in Pairs, Exchange(g, q)
    PROVE  IInv'
<1> DEFINE o == grant[g].org
<1>1. /\ grant \in [Grants -> Grant] /\ call \in [Calls -> Call]
      /\ grant[g].stage = "coded" /\ o \in OptionalOrg
  BY DEF IInv, TypeOK, Exchange, CodeIsUnused, Grant
<1>2. /\ grant' = [grant EXCEPT ![g].stage = "exchanged"]
      /\ row' = WithPair(row, q, o)
      /\ grantOf' = [grantOf EXCEPT ![q] = g]
      /\ call' = call
      /\ NextPair(q)
  BY DEF Exchange, IssuePair
<1>3. grant' \in [Grants -> Grant] /\ grant'[g].stage = "exchanged"
  BY <1>1, <1>2 DEF Grant
<1>4. \A h \in Grants : grant[h].stage = "exchanged" => grant'[h].stage = "exchanged"
  BY <1>1, <1>2
<1> HIDE DEF o
<1>5. /\ row' \in [Tables -> [Pairs -> Row]]
      /\ \A t \in Tables : row'[t][q] = [status |-> "live", org |-> o]
      /\ \A t \in Tables : \A p \in Pairs \ {q} : row'[t][p] = row[t][p]
  BY <1>1, <1>2, PairRows
<1>6. "refresh" \in Tables
  BY DEF Tables
<1>7. \A p \in Pairs \ {q} : grantOf[p] = g => ~ Unrevoked("refresh", p)'
  <2>1. \A p \in Pairs : grantOf[p] = g => ~ Issued(p)
    BY <1>1 DEF IInv, TypeOK
  <2> QED
    BY <2>1, <1>5, <1>6 DEF Unrevoked, Issued
<1>8. TypeOK' /\ OneLiveRefreshPerGrant' /\ \A p \in Pairs : Issued(p) => Issued(p)'
  <2>1. \A t \in Tables : row'[t][q].status = "live"
    BY <1>5
  <2>2. call' \in [Calls -> Call]
    BY <1>1, <1>2
  <2>3. NextPair(q) /\ grantOf' = [grantOf EXCEPT ![q] = g] /\ o \in OptionalOrg
    BY <1>1, <1>2
  <2>4. /\ row' \in [Tables -> [Pairs -> Row]]
        /\ \A t \in Tables : \A p \in Pairs \ {q} :
             \/ row'[t][p] = row[t][p]
             \/ row[t][p].status = "live" /\ row'[t][p].status = "rotated"
    BY <1>5
  <2> QED
    BY <2>1, <2>2, <2>3, <2>4, <1>3, <1>4, <1>7, PairStep
<1>9. ~ Issued(q)
  BY <1>2 DEF NextPair
<1>10. \A t \in Tables, p \in Pairs : Issued(p) => row'[t][p] = row[t][p]
  BY <1>5, <1>9
<1>11. \A d \in Calls, t \in Tables : \A p \in call[d].held[t] : row'[t][p] = row[t][p]
  BY <1>1, <1>10 DEF IInv, RowsWereIssued, Call
<1>12. /\ RotatedTokensAreCurrent' /\ LocksAreExclusive' /\ RowsWereIssued'
       /\ LockedRowsAreJudged'
  BY <1>2, <1>8, <1>11, RowStep
<1> QED
  BY <1>8, <1>12 DEF IInv

\* The second half of refresh_oauth_token
LEMMA RotatePreserves ==
    ASSUME IInv, NEW c \in Calls, NEW q \in Pairs, Rotate(c, q)
    PROVE  IInv'
<1>1. PICK p \in call[c].held["refresh"] :
          /\ Unrevoked("refresh", p)
          /\ row' = [WithPair(row, q, call[c].org) EXCEPT !["refresh"][p].status = "rotated"]
          /\ grantOf' = [grantOf EXCEPT ![q] = grantOf[p]]
  BY DEF Rotate
<1>2. /\ call[c].task = "refresh"
      /\ NextPair(q)
      /\ EndCall(c)
      /\ grant' = grant
  BY DEF Rotate
<1>3. call \in [Calls -> Call] /\ grant \in [Grants -> Grant] /\ "refresh" \in Tables
  BY DEF IInv, TypeOK, Tables
<1>4. p \in Pairs
  BY <1>2, RotatedTokensAreLive
<1>5. ~ Issued(q) /\ p # q
  BY <1>1, <1>2 DEF NextPair, Unrevoked, Issued
<1>6. call[c].org \in OptionalOrg
  BY <1>3 DEF Call
<1>7. /\ row' \in [Tables -> [Pairs -> Row]]
      /\ \A t \in Tables : row'[t][q].status = "live"
      /\ row'["refresh"][p].status = "rotated"
      /\ \A t \in Tables : \A x \in Pairs \ {q} :
           row'[t][x] = row[t][x] \/ (t = "refresh" /\ x = p)
  <2> DEFINE w == WithPair(row, q, call[c].org)
  <2>1. /\ w \in [Tables -> [Pairs -> Row]]
        /\ \A t \in Tables : w[t][q].status = "live"
        /\ \A t \in Tables : \A x \in Pairs \ {q} : w[t][x] = row[t][x]
    <3>1. /\ w \in [Tables -> [Pairs -> Row]]
          /\ \A t \in Tables : w[t][q] = [status |-> "live", org |-> call[c].org]
          /\ \A t \in Tables : \A x \in Pairs \ {q} : w[t][x] = row[t][x]
      BY <1>6, PairRows
    <3> HIDE DEF w
    <3> QED
      BY <3>1
  <2>2. row' = [w EXCEPT !["refresh"][p].status = "rotated"]
    BY <1>1
  <2> HIDE DEF w
  <2>3. [w["refresh"][p] EXCEPT !.status = "rotated"] \in Row
    BY <1>3, <1>4, <2>1 DEF Row
  <2>4. row' \in [Tables -> [Pairs -> Row]]
    BY <1>3, <1>4, <2>1, <2>2, <2>3
  <2>5. \A t \in Tables : \A x \in Pairs : row'[t][x] =
            IF t = "refresh" /\ x = p THEN [w[t][x] EXCEPT !.status = "rotated"] ELSE w[t][x]
    BY <1>3, <1>4, <2>1, <2>2
  <2>6. w["refresh"][p] \in Row
    BY <1>3, <1>4, <2>1
  <2>7. row'["refresh"][p].status = "rotated"
    BY <1>3, <1>4, <2>5, <2>6 DEF Row
  <2> QED
    BY <1>5, <2>1, <2>4, <2>5, <2>7
<1>8. grantOf[p] \in Grants /\ grant[grantOf[p]].stage = "exchanged"
  BY <1>1, <1>3, <1>4, OAuthAssumption DEF IInv, TypeOK, Unrevoked, Issued
<1>9. \A x \in Pairs \ {q} : grantOf[x] = grantOf[p] => ~ Unrevoked("refresh", x)'
  BY <1>1, <1>3, <1>4, <1>7 DEF IInv, OneLiveRefreshPerGrant, Unrevoked
<1>10. call' \in [Calls -> Call] /\ call'[c] = NoCall /\ \A d \in Calls \ {c} : call'[d] = call[d]
  BY <1>2, <1>3, NullRecordsAreTyped DEF EndCall
<1>11. TypeOK' /\ OneLiveRefreshPerGrant' /\ \A x \in Pairs : Issued(x) => Issued(x)'
  <2>1. \A t \in Tables : \A x \in Pairs \ {q} :
            \/ row'[t][x] = row[t][x]
            \/ row[t][x].status = "live" /\ row'[t][x].status = "rotated"
    BY <1>1, <1>7 DEF Unrevoked
  <2>2. call' \in [Calls -> Call] /\ grant' \in [Grants -> Grant]
    BY <1>2, <1>3, <1>10
  <2>3. NextPair(q) /\ grantOf' = [grantOf EXCEPT ![q] = grantOf[p]]
    BY <1>1, <1>2
  <2>4. \A h \in Grants : grant[h].stage = "exchanged" => grant'[h].stage = "exchanged"
    BY <1>2
  <2>5. grant'[grantOf[p]].stage = "exchanged"
    BY <1>2, <1>8
  <2>6. /\ row' \in [Tables -> [Pairs -> Row]]
        /\ \A t \in Tables : row'[t][q].status = "live"
    BY <1>7
  <2> QED
    BY <2>1, <2>2, <2>3, <2>4, <2>5, <2>6, <1>6, <1>8, <1>9, PairStep
<1>12. \A d \in Calls \ {c}, t \in Tables : \A x \in call[d].held[t] : row'[t][x] = row[t][x]
  <2> SUFFICES ASSUME NEW d \in Calls \ {c}, NEW t \in Tables, NEW x \in call[d].held[t]
               PROVE  row'[t][x] = row[t][x]
    OBVIOUS
  <2>1. x \in Pairs /\ Issued(x)
    BY <1>3 DEF IInv, RowsWereIssued, Call
  <2>2. ~ (t = "refresh" /\ x = p)
    BY <1>1, <1>3 DEF IInv, LocksAreExclusive
  <2> QED
    BY <1>5, <1>7, <2>1, <2>2
<1>13. /\ RotatedTokensAreCurrent' /\ LocksAreExclusive' /\ RowsWereIssued'
       /\ LockedRowsAreJudged'
  BY <1>10, <1>11, <1>12, RowStep
<1> QED
  BY <1>11, <1>13 DEF IInv

\* The rows a transaction has written are live, and no other call holds them.
LEMMA WrittenRows ==
    ASSUME IInv, NEW c \in Calls, call[c].task \in {"revoke", "switch"}, NEW t \in Tables
    PROVE  /\ call[c].written[t] \subseteq Pairs
           /\ \A p \in call[c].written[t] : Unrevoked(t, p)
           /\ \A d \in Calls \ {c} : call[c].written[t] \cap call[d].held[t] = {}
<1>1. call[c].held[t] \subseteq Pairs
  BY DEF IInv, TypeOK, Call
<1>2. /\ call[c].written[t] \subseteq call[c].held[t]
      /\ \A p \in call[c].written[t] : InFamily(t, p, call[c].org)
  BY DEF IInv, LockedRowsAreJudged, Judged
<1>3. \A d \in Calls \ {c} : call[c].held[t] \cap call[d].held[t] = {}
  BY DEF IInv, LocksAreExclusive
<1> QED
  BY <1>1, <1>2, <1>3 DEF InFamily

\* Revoking the rows X[t] of each table, by a call that holds them alone and ends or has
\* not begun.
LEMMA RevokedRowsStep ==
    ASSUME IInv, NEW c \in Calls, NEW X,
           \A t \in Tables : X[t] \subseteq Pairs /\ \A p \in X[t] : Unrevoked(t, p),
           \A d \in Calls \ {c} : \A t \in Tables : X[t] \cap call[d].held[t] = {},
           row' = [t \in Tables |-> [p \in Pairs |->
                     IF p \in X[t] THEN [row[t][p] EXCEPT !.status = "revoked"]
                     ELSE row[t][p]]],
           call' = [call EXCEPT ![c] = NoCall],
           UNCHANGED <<grant, grantOf>>
    PROVE  IInv'
<1>1. /\ call \in [Calls -> Call] /\ row \in [Tables -> [Pairs -> Row]]
      /\ "refresh" \in Tables
  BY DEF IInv, TypeOK, Tables
<1>2. call' \in [Calls -> Call] /\ call'[c] = NoCall /\ \A d \in Calls \ {c} : call'[d] = call[d]
  BY <1>1, NullRecordsAreTyped
<1>3. \A t \in Tables : \A p \in Pairs : row[t][p] \in Row
  BY <1>1
<1>4. \A t \in Tables : \A p \in Pairs :
          /\ row'[t][p] \in Row
          /\ p \notin X[t] => row'[t][p] = row[t][p]
          /\ p \in X[t] => row[t][p].status = "live" /\ row'[t][p].status = "revoked"
  BY <1>3 DEF Row, Unrevoked
<1>5. row' \in [Tables -> [Pairs -> Row]]
  BY <1>4
<1>6. TypeOK' /\ OneLiveRefreshPerGrant' /\ \A p \in Pairs : Issued(p) => Issued(p)'
  <2>1. \A t \in Tables : \A p \in Pairs :
            \/ row'[t][p] = row[t][p]
            \/ row[t][p].status = "live" /\ row'[t][p].status \in {"live", "revoked"}
    BY <1>4
  <2> QED
    BY <1>2, <1>5, <2>1, LiveRowsStep
<1>7. \A d \in Calls \ {c}, t \in Tables : \A p \in call[d].held[t] : row'[t][p] = row[t][p]
  <2>1. \A d \in Calls, t \in Tables : call[d].held[t] \subseteq Pairs
    BY <1>1 DEF Call
  <2> QED
    BY <1>4, <2>1
<1>8. /\ RotatedTokensAreCurrent' /\ LocksAreExclusive' /\ RowsWereIssued'
      /\ LockedRowsAreJudged'
  BY <1>2, <1>6, <1>7, RowStep
<1> QED
  BY <1>6, <1>8 DEF IInv

\* revoke_oauth_token with an access token
LEMMA RevokeAccessPreserves ==
    ASSUME IInv, NEW c \in Calls, NEW p \in Pairs, RevokeAccess(c, p)
    PROVE  IInv'
<1> DEFINE X == [t \in Tables |-> IF t = "access" THEN {p} ELSE {}]
<1>1. /\ call[c] = NoCall /\ RowIsFree(c, "access", p) /\ Unrevoked("access", p)
      /\ row' = [row EXCEPT !["access"][p].status = "revoked"]
      /\ UNCHANGED <<grant, grantOf, call>>
  BY DEF RevokeAccess
<1>2. call \in [Calls -> Call] /\ row \in [Tables -> [Pairs -> Row]] /\ "access" \in Tables
  BY DEF IInv, TypeOK, Tables
<1>3. call' = [call EXCEPT ![c] = NoCall]
  BY <1>1, <1>2
<1>4. \A t \in Tables : X[t] = IF t = "access" THEN {p} ELSE {}
  OBVIOUS
<1> HIDE DEF X
<1>5. row' = [t \in Tables |-> [x \in Pairs |->
                IF x \in X[t] THEN [row[t][x] EXCEPT !.status = "revoked"] ELSE row[t][x]]]
  BY <1>1, <1>2, <1>4
<1>6. \A t \in Tables : X[t] \subseteq Pairs /\ \A x \in X[t] : Unrevoked(t, x)
  BY <1>1, <1>4
<1>7. \A d \in Calls \ {c} : \A t \in Tables : X[t] \cap call[d].held[t] = {}
  BY <1>1, <1>4 DEF RowIsFree
<1> QED
  BY <1>1, <1>3, <1>5, <1>6, <1>7, RevokedRowsStep

\* The end of revoke_family and of its callers
LEMMA CommitRevokePreserves ==
    ASSUME IInv, NEW c \in Calls, CommitRevoke(c)
    PROVE  IInv'
<1> DEFINE X == call[c].written
<1>1. /\ call[c].task = "revoke"
      /\ row' = [t \in Tables |-> [p \in Pairs |->
                   IF p \in X[t] THEN [row[t][p] EXCEPT !.status = "revoked"]
                   ELSE row[t][p]]]
      /\ call' = [call EXCEPT ![c] = NoCall]
      /\ UNCHANGED <<grant, grantOf>>
  BY DEF CommitRevoke, EndCall
<1>2. \A t \in Tables : X[t] \subseteq Pairs /\ \A p \in X[t] : Unrevoked(t, p)
  BY <1>1, WrittenRows
<1>3. \A d \in Calls \ {c} : \A t \in Tables : X[t] \cap call[d].held[t] = {}
  BY <1>1, WrittenRows
<1> HIDE DEF X
<1> QED
  BY <1>1, <1>2, <1>3, RevokedRowsStep

\* The end of switch_oauth_grant
LEMMA CommitSwitchPreserves ==
    ASSUME IInv, NEW c \in Calls, CommitSwitch(c)
    PROVE  IInv'
<1> DEFINE to == call[c].to
           X == call[c].written
<1>1. /\ call[c].task = "switch"
      /\ row' = [t \in Tables |-> [p \in Pairs |->
                   IF p \in X[t] THEN [row[t][p] EXCEPT !.org = to] ELSE row[t][p]]]
      /\ call' = [call EXCEPT ![c] = NoCall]
      /\ UNCHANGED <<grant, grantOf>>
  BY DEF CommitSwitch, EndCall
<1>2. \A t \in Tables : X[t] \subseteq Pairs /\ \A p \in X[t] : Unrevoked(t, p)
  BY <1>1, WrittenRows
<1>3. \A d \in Calls \ {c} : \A t \in Tables : X[t] \cap call[d].held[t] = {}
  BY <1>1, WrittenRows
<1>4. /\ call \in [Calls -> Call] /\ row \in [Tables -> [Pairs -> Row]]
      /\ to \in OptionalOrg
  BY DEF IInv, TypeOK, Call
<1> HIDE DEF X, to
<1>5. call' \in [Calls -> Call] /\ call'[c] = NoCall /\ \A d \in Calls \ {c} : call'[d] = call[d]
  BY <1>1, <1>4, NullRecordsAreTyped
<1>6. \A t \in Tables : \A p \in Pairs :
          /\ row'[t][p] \in Row
          /\ p \notin X[t] => row'[t][p] = row[t][p]
          /\ p \in X[t] => row[t][p].status = "live" /\ row'[t][p].status = "live"
  <2> SUFFICES ASSUME NEW t \in Tables, NEW p \in Pairs
               PROVE  /\ row'[t][p] \in Row
                      /\ p \notin X[t] => row'[t][p] = row[t][p]
                      /\ p \in X[t] => row[t][p].status = "live" /\ row'[t][p].status = "live"
    OBVIOUS
  <2>1. row[t][p] \in Row
    BY <1>4
  <2>2. row'[t][p] = IF p \in X[t] THEN [row[t][p] EXCEPT !.org = to] ELSE row[t][p]
    BY <1>1
  <2> QED
    BY <1>2, <1>4, <2>1, <2>2 DEF Row, Unrevoked
<1>7. row' \in [Tables -> [Pairs -> Row]]
  BY <1>1, <1>6
<1>8. TypeOK' /\ OneLiveRefreshPerGrant' /\ \A p \in Pairs : Issued(p) => Issued(p)'
  <2>1. \A t \in Tables : \A p \in Pairs :
            \/ row'[t][p] = row[t][p]
            \/ row[t][p].status = "live" /\ row'[t][p].status \in {"live", "revoked"}
    BY <1>6
  <2> QED
    BY <1>1, <1>5, <1>7, <2>1, LiveRowsStep
<1>9. \A d \in Calls \ {c}, t \in Tables : \A p \in call[d].held[t] : row'[t][p] = row[t][p]
  <2>1. \A d \in Calls, t \in Tables : call[d].held[t] \subseteq Pairs
    BY <1>4 DEF Call
  <2> QED
    BY <1>3, <1>6, <2>1
<1>10. /\ RotatedTokensAreCurrent' /\ LocksAreExclusive' /\ RowsWereIssued'
       /\ LockedRowsAreJudged'
  BY <1>5, <1>8, <1>9, RowStep
<1> QED
  BY <1>8, <1>10 DEF IInv

\* The first half of refresh_oauth_token
LEMMA PresentRefreshPreserves ==
    ASSUME IInv, NEW c \in Calls, NEW p \in Pairs, PresentRefresh(c, p)
    PROVE  IInv'
<1> DEFINE task == IF Reused(p) THEN "revoke" ELSE "refresh"
           held == [NoRows EXCEPT !["refresh"] = {p}]
           r == [NoCall EXCEPT !.task = task, !.org = row["refresh"][p].org, !.held = held]
<1>1. /\ Issued(p) /\ RowIsFree(c, "refresh", p)
      /\ call' = [call EXCEPT ![c] = r]
      /\ UNCHANGED <<grant, row, grantOf>>
  BY DEF PresentRefresh
<1>2. row["refresh"][p] \in Row
  BY DEF IInv, TypeOK, Tables
<1>3. held \in [Tables -> SUBSET Pairs] /\ held["refresh"] = {p} /\ held["access"] = {}
  BY DEF NoRows, Tables
<1>4. r \in Call /\ r.task = task /\ r.org = row["refresh"][p].org /\ r.held = held
        /\ r.seen = NoRows /\ r.written = NoRows
  <2> HIDE DEF held
  <2> QED
    BY <1>2, <1>3, NullCall DEF Call, Row
<1>5. task = "refresh" => row["refresh"][p] = [status |-> "live", org |-> row["refresh"][p].org]
  <2>1. task = "refresh" => row["refresh"][p].status = "live"
    BY <1>1, <1>2 DEF Reused, Issued, Row
  <2> QED
    BY <1>2, <2>1 DEF Row
<1>6. task = "revoke" => ~ Unrevoked("refresh", p)
  BY DEF Reused, Unrevoked
<1>7. task \in {"refresh", "revoke"}
  OBVIOUS
<1> HIDE DEF r, held, task
<1>8. \A d \in Calls \ {c}, t \in Tables : r.held[t] \cap call[d].held[t] = {}
  BY <1>1, <1>3, <1>4 DEF RowIsFree, Tables
<1>9. \A t \in Tables : \A x \in r.seen[t] \cup r.held[t] : Issued(x)
  BY <1>1, <1>3, <1>4 DEF NoRows, Tables
<1>10. r.task = "refresh" => \A x \in r.held["refresh"] :
          row["refresh"][x] = [status |-> "live", org |-> r.org]
  BY <1>3, <1>4, <1>5
<1>11. Judged(r)
  BY <1>3, <1>4, <1>6, <1>7 DEF Judged, NoRows, Tables, InFamily
<1> QED
  BY <1>1, <1>4, <1>8, <1>9, <1>10, <1>11, CallStep

\* A revocation or a switch begins, or a call is rolled back.
LEMMA EmptyCallPreserves ==
    ASSUME IInv, NEW c \in Calls,
           \/ \E p \in Pairs : RevokeByToken(c, p)
           \/ \E o \in Orgs : RevokeGrant(c, o)
           \/ \E o, to \in Orgs : SwitchGrant(c, o, to)
           \/ Rollback(c)
    PROVE  IInv'
<1> DEFINE Empty(r) == /\ r \in Call /\ r.task # "refresh"
                      /\ r.seen = NoRows /\ r.held = NoRows /\ r.written = NoRows
<1>1. ASSUME NEW r, Empty(r), call' = [call EXCEPT ![c] = r], UNCHANGED <<grant, row, grantOf>>
      PROVE  IInv'
  <2>1. \A t \in Tables : r.seen[t] = {} /\ r.held[t] = {} /\ r.written[t] = {}
    BY <1>1 DEF NoRows
  <2>2. Judged(r)
    BY <2>1 DEF Judged
  <2> QED
    BY <1>1, <2>1, <2>2, CallStep
<1>2. ASSUME NEW o \in OptionalOrg
      PROVE  Empty([NoCall EXCEPT !.task = "revoke", !.org = o])
  BY NullCall DEF Call
<1>3. ASSUME NEW o \in OptionalOrg, NEW to \in OptionalOrg
      PROVE  Empty([NoCall EXCEPT !.task = "switch", !.org = o, !.to = to])
  BY NullCall DEF Call
<1>4. Empty(NoCall)
  BY NullCall
<1> HIDE DEF Empty
<1>5. ASSUME NEW p \in Pairs, RevokeByToken(c, p) PROVE IInv'
  <2>1. row["refresh"][p].org \in OptionalOrg
    BY DEF IInv, TypeOK, Tables, Row
  <2> QED
    BY <1>1, <1>2, <1>5, <2>1 DEF RevokeByToken
<1>6. ASSUME NEW o \in Orgs, RevokeGrant(c, o) PROVE IInv'
  BY <1>1, <1>2, <1>6 DEF RevokeGrant, OptionalOrg
<1>7. ASSUME NEW o \in Orgs, NEW to \in Orgs, SwitchGrant(c, o, to) PROVE IInv'
  BY <1>1, <1>3, <1>7 DEF SwitchGrant, OptionalOrg
<1>8. CASE Rollback(c)
  BY <1>1, <1>4, <1>8 DEF Rollback, EndCall
<1> QED
  BY <1>5, <1>6, <1>7, <1>8

\* The snapshot of an update
LEMMA SnapshotPreserves ==
    ASSUME IInv, NEW c \in Calls, NEW t \in Tables, Snapshot(c, t)
    PROVE  IInv'
<1> DEFINE rows == {p \in Pairs : InFamily(t, p, call[c].org)}
           seen == [call[c].seen EXCEPT ![t] = rows]
           r == [call[c] EXCEPT !.seen[t] = rows, !.step = @ + 1]
<1>1. call[c] \in Call /\ call \in [Calls -> Call]
  BY DEF IInv, TypeOK
<1>2. /\ call[c].task \in {"revoke", "switch"}
      /\ call[c].step \in {0, 1}
      /\ call' = [call EXCEPT ![c] = r]
      /\ UNCHANGED <<grant, row, grantOf>>
  BY <1>1 DEF Snapshot
<1>3. \A p \in rows : p \in Pairs /\ Issued(p)
  <2>1. \A p \in rows : p \in Pairs /\ row[t][p].status = "live"
    BY DEF InFamily, Unrevoked
  <2> QED
    BY <2>1 DEF IInv, TypeOK, Issued, Tables
<1> HIDE DEF rows
<1>4. seen \in [Tables -> SUBSET Pairs]
  BY <1>1, <1>3 DEF Call
<1>5. seen[t] = rows /\ \A s \in Tables \ {t} : seen[s] = call[c].seen[s]
  BY <1>1 DEF Call
<1>6. r = [call[c] EXCEPT !.seen = seen, !.step = call[c].step + 1]
  BY <1>1 DEF Call
<1>7. call[c].step + 1 \in 0..2
  BY <1>2
<1> HIDE DEF r, seen
<1>8. /\ r \in Call /\ r.task = call[c].task /\ r.org = call[c].org
      /\ r.held = call[c].held /\ r.written = call[c].written /\ r.seen = seen
  BY <1>1, <1>4, <1>6, <1>7 DEF Call
<1>9. \A d \in Calls \ {c}, s \in Tables : r.held[s] \cap call[d].held[s] = {}
  BY <1>8 DEF IInv, LocksAreExclusive
<1>10. \A s \in Tables : \A p \in r.seen[s] \cup r.held[s] : Issued(p)
  BY <1>3, <1>5, <1>8 DEF IInv, RowsWereIssued
<1>11. Judged(r)
  <2>1. Judged(call[c])
    BY DEF IInv, LockedRowsAreJudged
  <2> QED
    BY <1>8, <2>1 DEF Judged
<1> QED
  BY <1>2, <1>8, <1>9, <1>10, <1>11, CallStep

\* An update locks a row that nobody else holds and judges it.
LEMMA LockRowPreserves ==
    ASSUME IInv, NEW c \in Calls, NEW t \in Tables, NEW p \in Pairs, LockRow(c, t, p)
    PROVE  IInv'
<1> DEFINE held == [call[c].held EXCEPT ![t] = @ \cup {p}]
           written == [call[c].written EXCEPT
                         ![t] = IF InFamily(t, p, call[c].org) THEN @ \cup {p} ELSE @]
           r == [call[c] EXCEPT !.held = held, !.written = written]
<1>1. call[c] \in Call /\ call \in [Calls -> Call]
  BY DEF IInv, TypeOK
<1>2. /\ p \in call[c].seen[t]
      /\ p \notin call[c].held[t]
      /\ RowIsFree(c, t, p)
      /\ call' = [call EXCEPT ![c] = r]
      /\ UNCHANGED <<grant, row, grantOf>>
  BY <1>1 DEF LockRow, Call
<1>3. /\ call[c].held \in [Tables -> SUBSET Pairs]
      /\ call[c].written \in [Tables -> SUBSET Pairs]
  BY <1>1 DEF Call
<1>4. held \in [Tables -> SUBSET Pairs] /\ written \in [Tables -> SUBSET Pairs]
  BY <1>3
<1>5. /\ held[t] = call[c].held[t] \cup {p}
      /\ written[t] = IF InFamily(t, p, call[c].org) THEN call[c].written[t] \cup {p}
                      ELSE call[c].written[t]
      /\ \A s \in Tables \ {t} : held[s] = call[c].held[s] /\ written[s] = call[c].written[s]
  BY <1>3
<1> HIDE DEF held, written
<1>6. /\ r \in Call /\ r.task = call[c].task /\ r.org = call[c].org
      /\ r.seen = call[c].seen /\ r.held = held /\ r.written = written
  BY <1>1, <1>4 DEF Call
<1> HIDE DEF r
<1>7. \A d \in Calls \ {c}, s \in Tables : r.held[s] \cap call[d].held[s] = {}
  <2> SUFFICES ASSUME NEW d \in Calls \ {c}, NEW s \in Tables
               PROVE  held[s] \cap call[d].held[s] = {}
    BY <1>6
  <2>1. call[c].held[s] \cap call[d].held[s] = {}
    BY DEF IInv, LocksAreExclusive
  <2> QED
    BY <1>2, <1>5, <2>1 DEF RowIsFree
<1>8. \A s \in Tables : \A x \in r.seen[s] \cup r.held[s] : Issued(x)
  BY <1>2, <1>5, <1>6 DEF IInv, RowsWereIssued
<1>9. Judged(call[c])
  BY DEF IInv, LockedRowsAreJudged
<1>10. Judged(r)
  <2> SUFFICES ASSUME NEW s \in Tables
               PROVE  /\ written[s] \subseteq held[s]
                      /\ call[c].task \in {"revoke", "switch"} =>
                           \A x \in held[s] : x \in written[s] <=> InFamily(s, x, call[c].org)
    BY <1>6 DEF Judged
  <2>1. /\ call[c].written[s] \subseteq call[c].held[s]
        /\ call[c].task \in {"revoke", "switch"} => \A x \in call[c].held[s] :
              x \in call[c].written[s] <=> InFamily(s, x, call[c].org)
    BY <1>9 DEF Judged
  <2>2. CASE s = t
    BY <1>2, <1>5, <2>1, <2>2
  <2>3. CASE s # t
    BY <1>5, <2>1, <2>3
  <2> QED
    BY <2>2, <2>3
<1>11. r.task = "refresh" => \A x \in r.held["refresh"] :
           row["refresh"][x] = [status |-> "live", org |-> r.org]
  <2>1. call[c].task # "refresh"
    BY DEF LockRow
  <2> QED
    BY <1>6, <2>1
<1> QED
  BY <1>2, <1>6, <1>7, <1>8, <1>10, <1>11, CallStep

LEMMA NextPreserves == IInv /\ [Next]_vars => IInv'
<1> SUFFICES ASSUME IInv, [Next]_vars PROVE IInv'
  OBVIOUS
<1>1. ASSUME NEW g \in Grants,
             \/ CreateRequest(g)
             \/ \E o \in Orgs : Approve(g, o)
             \/ Deny(g)
             \/ Expire(g)
      PROVE  IInv'
  BY <1>1, RequestsPreserve
<1>2. ASSUME NEW g \in Grants, NEW p \in Pairs, Exchange(g, p) PROVE IInv'
  BY <1>2, ExchangePreserves
<1>3. ASSUME NEW c \in Calls, NEW p \in Pairs, PresentRefresh(c, p) PROVE IInv'
  BY <1>3, PresentRefreshPreserves
<1>4. ASSUME NEW c \in Calls, NEW q \in Pairs, Rotate(c, q) PROVE IInv'
  BY <1>4, RotatePreserves
<1>5. ASSUME NEW c \in Calls, NEW p \in Pairs, RevokeAccess(c, p) PROVE IInv'
  BY <1>5, RevokeAccessPreserves
<1>6. ASSUME NEW c \in Calls,
             \/ \E p \in Pairs : RevokeByToken(c, p)
             \/ \E o \in Orgs : RevokeGrant(c, o)
             \/ \E o, to \in Orgs : SwitchGrant(c, o, to)
             \/ Rollback(c)
      PROVE  IInv'
  BY <1>6, EmptyCallPreserves
<1>7. ASSUME NEW c \in Calls, NEW t \in Tables, Snapshot(c, t) PROVE IInv'
  BY <1>7, SnapshotPreserves
<1>8. ASSUME NEW c \in Calls, NEW t \in Tables, NEW p \in Pairs, LockRow(c, t, p) PROVE IInv'
  BY <1>8, LockRowPreserves
<1>9. ASSUME NEW c \in Calls, CommitRevoke(c) PROVE IInv'
  BY <1>9, CommitRevokePreserves
<1>10. ASSUME NEW c \in Calls, CommitSwitch(c) PROVE IInv'
  BY <1>10, CommitSwitchPreserves
<1>11. CASE UNCHANGED vars
  BY <1>11 DEF vars, IInv, TypeOK, OneLiveRefreshPerGrant, RotatedTokensAreCurrent,
     LocksAreExclusive, RowsWereIssued, LockedRowsAreJudged, Judged, Issued, Unrevoked, InFamily
<1> QED
  BY <1>1, <1>2, <1>3, <1>4, <1>5, <1>6, <1>7, <1>8, <1>9, <1>10, <1>11 DEF Next

LEMMA Invariance == Spec => []IInv
BY InitInvariant, NextPreserves, PTL DEF Spec

----------------------------------------------------------------------------
(* Safety *)

\* Rows and transactions stay well formed; the tokens of a pair exist together and only
\* for a consent whose code was exchanged.
THEOREM TypeCorrect == Spec => []TypeOK
BY Invariance, PTL DEF IInv

\* However many calls present codes and refresh tokens at once, a grant never has two
\* refresh tokens that work.
THEOREM OneLiveRefresh == Spec => []OneLiveRefreshPerGrant
BY Invariance, PTL DEF IInv

\* The row lock refresh_oauth_token takes keeps its token live and in its organization
\* until the new pair commits.
THEOREM RotatedTokensCurrent == Spec => []RotatedTokensAreCurrent
BY Invariance, PTL DEF IInv

\* What each step does to the rows: nothing, or it writes a new pair, rotates a live
\* token into one, or revokes or moves live rows.
LEMMA WhatStepsWrite ==
    ASSUME IInv, [Next]_vars
    PROVE  \/ UNCHANGED <<row, grantOf>>
           \/ \E g \in Grants, q \in Pairs : Exchange(g, q)
           \/ \E c \in Calls, q \in Pairs : Rotate(c, q)
           \/ /\ UNCHANGED grantOf
              /\ \A t \in Tables, p \in Pairs :
                   \/ row'[t][p] = row[t][p]
                   \/ row[t][p].status = "live"
<1>1. row \in [Tables -> [Pairs -> Row]]
  BY DEF IInv, TypeOK
<1>2. ASSUME NEW c \in Calls, NEW p \in Pairs, RevokeAccess(c, p)
      PROVE  UNCHANGED grantOf /\ \A t \in Tables, x \in Pairs :
               row'[t][x] = row[t][x] \/ row[t][x].status = "live"
  BY <1>1, <1>2 DEF RevokeAccess, Unrevoked
<1>3. ASSUME NEW c \in Calls, CommitRevoke(c) \/ CommitSwitch(c)
      PROVE  UNCHANGED grantOf /\ \A t \in Tables, x \in Pairs :
               row'[t][x] = row[t][x] \/ row[t][x].status = "live"
  <2>1. \A t \in Tables : \A x \in call[c].written[t] : row[t][x].status = "live"
    BY <1>3, WrittenRows DEF CommitRevoke, CommitSwitch, Unrevoked
  <2> QED
    BY <1>1, <1>3, <2>1 DEF CommitRevoke, CommitSwitch
<1>4. ASSUME NEW g \in Grants,
             CreateRequest(g) \/ (\E o \in Orgs : Approve(g, o)) \/ Deny(g) \/ Expire(g)
      PROVE  UNCHANGED <<row, grantOf>>
  BY <1>4 DEF CreateRequest, Approve, Deny, Expire
<1>5. ASSUME NEW c \in Calls,
             \/ \E p \in Pairs : PresentRefresh(c, p) \/ RevokeByToken(c, p)
             \/ \E o \in Orgs : RevokeGrant(c, o)
             \/ \E o, to \in Orgs : SwitchGrant(c, o, to)
             \/ \E t \in Tables : Snapshot(c, t)
             \/ \E t \in Tables, p \in Pairs : LockRow(c, t, p)
             \/ Rollback(c)
      PROVE  UNCHANGED <<row, grantOf>>
  BY <1>5 DEF PresentRefresh, RevokeByToken, RevokeGrant, SwitchGrant, Snapshot, LockRow, Rollback
<1>6. UNCHANGED vars => UNCHANGED <<row, grantOf>>
  BY DEF vars
<1> QED
  BY <1>2, <1>3, <1>4, <1>5, <1>6 DEF Next

\* Exchanging a code and rotating a token write a new pair; a rotation marks a live token.
LEMMA WhatNewPairsWrite ==
    ASSUME IInv, NEW q \in Pairs,
           \/ \E g \in Grants : Exchange(g, q)
           \/ \E c \in Calls : Rotate(c, q)
    PROVE  /\ \A t \in Tables : row[t][q].status = "none"
           /\ \A t \in Tables, p \in Pairs \ {q} :
                row'[t][p] = row[t][p] \/ row[t][p].status = "live"
           /\ \A p \in Pairs \ {q} : Unrevoked("refresh", p)' => Unrevoked("refresh", p)
           /\ \A p \in Pairs \ {q} : grantOf'[p] = grantOf[p]
           /\ \/ \E g \in Grants : grant[g].stage = "coded" /\ grantOf'[q] = g
              \/ \E p \in Pairs : Unrevoked("refresh", p) /\ grantOf'[q] = grantOf[p]
<1>1. /\ row \in [Tables -> [Pairs -> Row]] /\ grantOf \in [Pairs -> Grants \cup {NoGrant}]
      /\ call \in [Calls -> Call]
      /\ "refresh" \in Tables
  BY DEF IInv, TypeOK, Tables
<1>2. \A t \in Tables : row[t][q].status = "none"
  <2>1. ~ Issued(q)
    BY DEF Exchange, Rotate, NextPair
  <2> QED
    BY <1>1, <2>1 DEF IInv, TypeOK, Issued
<1>3. ASSUME NEW g \in Grants, Exchange(g, q)
      PROVE  /\ \A t \in Tables, p \in Pairs \ {q} : row'[t][p] = row[t][p]
             /\ \A p \in Pairs \ {q} : grantOf'[p] = grantOf[p]
             /\ grant[g].stage = "coded" /\ grantOf'[q] = g
  BY <1>1, <1>3 DEF Exchange, IssuePair, WithPair, CodeIsUnused
<1>4. ASSUME NEW c \in Calls, Rotate(c, q)
      PROVE  \E p \in Pairs :
                /\ Unrevoked("refresh", p) /\ grantOf'[q] = grantOf[p]
                /\ \A t \in Tables, x \in Pairs \ {q} :
                     row'[t][x] = row[t][x] \/ (t = "refresh" /\ x = p)
                /\ \A x \in Pairs \ {q} : grantOf'[x] = grantOf[x]
  <2>1. PICK p \in call[c].held["refresh"] :
            /\ Unrevoked("refresh", p)
            /\ row' = [WithPair(row, q, call[c].org) EXCEPT !["refresh"][p].status = "rotated"]
            /\ grantOf' = [grantOf EXCEPT ![q] = grantOf[p]]
    BY <1>4 DEF Rotate
  <2>2. p \in Pairs
    BY <1>1 DEF Call
  <2>3. \A t \in Tables, x \in Pairs \ {q} :
            row'[t][x] = row[t][x] \/ (t = "refresh" /\ x = p)
    BY <1>1, <2>1, <2>2 DEF WithPair
  <2> QED
    BY <1>1, <2>1, <2>2, <2>3
<1> QED
  BY <1>1, <1>2, <1>3, <1>4 DEF Unrevoked

LEMMA DeadRowsStay ==
    ASSUME IInv, [Next]_vars, NEW t \in Tables, NEW p \in Pairs,
           row[t][p].status \in {"rotated", "revoked"}
    PROVE  row'[t][p] = row[t][p]
<1>1. ASSUME NEW q \in Pairs,
             \/ \E g \in Grants : Exchange(g, q)
             \/ \E c \in Calls : Rotate(c, q)
      PROVE  row'[t][p] = row[t][p]
  <2>1. row[t][q].status = "none"
    BY <1>1, WhatNewPairsWrite
  <2>2. p # q
    BY <2>1
  <2> QED
    BY <1>1, <2>2, WhatNewPairsWrite
<1> QED
  BY <1>1, WhatStepsWrite

\* The row of a rotated or revoked token is final.
THEOREM DeadTokens == Spec => DeadTokensStayAsTheyDied
<1> DEFINE A == \A t \in Tables, p \in Pairs :
                  row[t][p].status \in {"rotated", "revoked"} => row'[t][p] = row[t][p]
<1>1. IInv /\ [Next]_vars => [A]_vars
  BY DeadRowsStay
<1> QED
  BY <1>1, Invariance, PTL DEF Spec, DeadTokensStayAsTheyDied

\* A grant that has lost its last refresh token never gets another, whatever calls are
\* still in flight for it.
EndedGrantsStayEnded ==
    [][\A g \in Grants :
         /\ grant[g].stage = "exchanged"
         /\ \A p \in Pairs : grantOf[p] = g => ~ Unrevoked("refresh", p)
         => \A p \in Pairs : grantOf'[p] = g => ~ Unrevoked("refresh", p)']_vars

\* A consent whose refresh tokens are all dead stays without one.
THEOREM EndedGrants == Spec => EndedGrantsStayEnded
<1> DEFINE A == \A g \in Grants :
                  /\ grant[g].stage = "exchanged"
                  /\ \A p \in Pairs : grantOf[p] = g => ~ Unrevoked("refresh", p)
                  => \A p \in Pairs : grantOf'[p] = g => ~ Unrevoked("refresh", p)'
<1>1. ASSUME IInv, [Next]_vars, NEW g \in Grants, grant[g].stage = "exchanged",
             \A p \in Pairs : grantOf[p] = g => ~ Unrevoked("refresh", p)
      PROVE  \A p \in Pairs : grantOf'[p] = g => ~ Unrevoked("refresh", p)'
  <2>1. ASSUME NEW q \in Pairs,
               \/ \E h \in Grants : Exchange(h, q)
               \/ \E c \in Calls : Rotate(c, q)
        PROVE  \A p \in Pairs : grantOf'[p] = g => ~ Unrevoked("refresh", p)'
    <3>1. grantOf'[q] # g
      BY <1>1, <2>1, WhatNewPairsWrite
    <3>2. \A p \in Pairs \ {q} :
             grantOf'[p] = grantOf[p] /\ (Unrevoked("refresh", p)' => Unrevoked("refresh", p))
      BY <1>1, <2>1, WhatNewPairsWrite
    <3> QED
      BY <1>1, <3>1, <3>2
  <2>2. CASE UNCHANGED <<row, grantOf>>
    BY <1>1, <2>2 DEF Unrevoked
  <2>3. ASSUME UNCHANGED grantOf, \A t \in Tables, p \in Pairs :
                   row'[t][p] = row[t][p] \/ row[t][p].status = "live"
        PROVE  \A p \in Pairs : grantOf'[p] = g => ~ Unrevoked("refresh", p)'
    <3>1. "refresh" \in Tables
      BY DEF Tables
    <3> QED
      BY <1>1, <2>3, <3>1 DEF Unrevoked
  <2> QED
    BY <1>1, <2>1, <2>2, <2>3, WhatStepsWrite
<1>2. IInv /\ [Next]_vars => [A]_vars
  BY <1>1
<1> QED
  BY <1>2, Invariance, PTL DEF Spec, EndedGrantsStayEnded

\* A revocation that commits leaves no working token among those its statements saw.
THEOREM RevocationsReach == Spec => RevocationsReachWhatTheySaw
<1> DEFINE A == \A c \in Calls :
                  CommitRevoke(c) =>
                    \A t \in Tables : \A p \in call[c].seen[t] :
                      ~ (Unrevoked(t, p)' /\ row'[t][p].org = call[c].org)
<1>1. ASSUME IInv, NEW c \in Calls, CommitRevoke(c), NEW t \in Tables, NEW p \in call[c].seen[t]
      PROVE  ~ (Unrevoked(t, p)' /\ row'[t][p].org = call[c].org)
  <2>1. call[c].task = "revoke" /\ p \in call[c].held[t]
    BY <1>1 DEF CommitRevoke, IsThrough, AllLocked
  <2>2. p \in Pairs /\ row[t][p] \in Row
    BY <1>1 DEF IInv, TypeOK, Call
  <2>3. row'[t][p] = IF p \in call[c].written[t] THEN [row[t][p] EXCEPT !.status = "revoked"]
                     ELSE row[t][p]
    BY <1>1, <2>2 DEF CommitRevoke
  <2>4. CASE p \in call[c].written[t]
    BY <2>2, <2>3, <2>4 DEF Unrevoked, Row
  <2>5. CASE p \notin call[c].written[t]
    <3>1. ~ InFamily(t, p, call[c].org)
      BY <1>1, <2>1, <2>5 DEF IInv, LockedRowsAreJudged, Judged
    <3> QED
      BY <2>3, <2>5, <3>1 DEF InFamily, Unrevoked
  <2> QED
    BY <2>4, <2>5
<1>2. IInv /\ [Next]_vars => [A]_vars
  BY <1>1
<1> QED
  BY <1>2, Invariance, PTL DEF Spec, RevocationsReachWhatTheySaw

----------------------------------------------------------------------------
(* Refinement: the grants as GrantLife sees them *)

StageBar == [g \in Grants |-> StageOf(g)]
LiveBar == [g \in Grants |-> LiveOf(g)]
DeadBar == [g \in Grants |-> DeadOf(g)]

LEMMA InitImplements == Init => Life!Init
<1> SUFFICES ASSUME Init PROVE Life!Init
  OBVIOUS
<1>1. StageBar = [g \in Grants |-> "unasked"]
  BY DEF StageBar, StageOf, Init
<1>2. \A p \in Pairs : row["refresh"][p].status = "none"
  BY DEF Init, NoRow, Tables
<1>3. \A g \in Grants : LiveOf(g) = {} /\ DeadOf(g) = {}
  BY <1>2 DEF LiveOf, DeadOf, Unrevoked, Reused
<1>4. LiveBar = [g \in Grants |-> {}] /\ DeadBar = [g \in Grants |-> {}]
  BY <1>3 DEF LiveBar, DeadBar
<1> QED
  BY <1>1, <1>4 DEF Life!Init, StageBar, LiveBar, DeadBar

\* A grant has at most one live token, and what it has is of no other grant.
LEMMA TokensOfGrants ==
    ASSUME IInv, NEW g \in Grants
    PROVE  /\ \A p, q \in LiveOf(g) : p = q
           /\ \A p \in LiveOf(g) \cup DeadOf(g) : p \in Pairs /\ Issued(p) /\ grantOf[p] = g
<1>1. \A p \in LiveOf(g) \cup DeadOf(g) : p \in Pairs /\ Issued(p) /\ grantOf[p] = g
  BY DEF LiveOf, DeadOf, Issued, Unrevoked, Reused
<1>2. \A p, q \in LiveOf(g) : p = q
  BY DEF LiveOf, IInv, OneLiveRefreshPerGrant
<1> QED
  BY <1>1, <1>2

\* A pair not issued yet is fresh to every grant.
LEMMA NewPairsAreFresh ==
    ASSUME IInv, NEW q \in Pairs, ~ Issued(q)
    PROVE  Life!Fresh(q)
<1>1. \A g \in Grants : q \notin LiveOf(g) \cup DeadOf(g)
  BY TokensOfGrants
<1> QED
  BY <1>1 DEF Life!Fresh

\* Requests and codes are decisions about a consent.
LEMMA DecideImplements ==
    ASSUME IInv, NEW g \in Grants, NEW s \in {"none", "pending", "denied", "coded", "expired"},
           grant'[g].stage = s, \A h \in Grants \ {g} : grant'[h] = grant[h],
           <<grant[g].stage, s>> \in {<<"none", "pending">>, <<"pending", "coded">>,
               <<"pending", "denied">>, <<"pending", "expired">>, <<"coded", "expired">>},
           UNCHANGED <<row, grantOf>>
    PROVE  Life!Next
<1>1. UNCHANGED <<LiveBar, DeadBar>>
  BY DEF LiveBar, DeadBar, LiveOf, DeadOf, Unrevoked, Reused
<1>2. \A h \in Grants \ {g} : StageOf(h)' = StageOf(h)
  BY DEF StageOf
<1>3. <<StageOf(g), StageOf(g)'>> \in
          {<<"unasked", "asked">>, <<"asked", "approved">>,
           <<"asked", "refused">>, <<"approved", "refused">>}
  BY DEF StageOf
<1>4. StageBar' = [StageBar EXCEPT ![g] = StageOf(g)']
  BY <1>2 DEF StageBar
<1>5. Life!Decide(g, StageOf(g), StageOf(g)')
  BY <1>1, <1>3, <1>4 DEF Life!Decide, StageBar, LiveBar, DeadBar
<1>6. StageOf(g) \in Life!Stages /\ StageOf(g)' \in Life!Stages
  BY <1>3 DEF Life!Stages
<1> QED
  BY <1>5, <1>6 DEF Life!Next

\* Whatever revokes live refresh tokens, or none, ends the grants that lose theirs.
LEMMA EndImplements ==
    ASSUME IInv, UNCHANGED <<grant, grantOf>>,
           \A p \in Pairs : \/ row'["refresh"][p].status = row["refresh"][p].status
                            \/ /\ row["refresh"][p].status = "live"
                               /\ row'["refresh"][p].status = "revoked"
    PROVE  Life!Next
<1> DEFINE G == {g \in Grants : LiveOf(g)' = {}}
<1>1. UNCHANGED StageBar
  BY DEF StageBar, StageOf
<1>2. \A g \in Grants : LiveOf(g)' \subseteq LiveOf(g)
  BY DEF LiveOf, Unrevoked
<1>3. \A g \in Grants : DeadOf(g)' = DeadOf(g) \cup (LiveOf(g) \ LiveOf(g)')
  BY DEF LiveOf, DeadOf, Unrevoked, Reused
<1>4. ASSUME NEW g \in Grants \ G PROVE LiveOf(g)' = LiveOf(g)
  <2>1. LiveOf(g)' # {} /\ LiveOf(g)' \subseteq LiveOf(g)
    BY <1>2
  <2>2. \A p, q \in LiveOf(g) : p = q
    BY TokensOfGrants
  <2> QED
    BY <2>1, <2>2
<1>5. \A g \in G : LiveOf(g)' = {} /\ DeadOf(g)' = DeadOf(g) \cup LiveOf(g)
  BY <1>3
<1>6. \A g \in Grants \ G : LiveOf(g)' = LiveOf(g) /\ DeadOf(g)' = DeadOf(g)
  BY <1>3, <1>4
<1>7. G \in SUBSET Grants
  OBVIOUS
<1> HIDE DEF G
<1>8. LiveBar' = [g \in Grants |-> IF g \in G THEN {} ELSE LiveOf(g)]
  BY <1>5, <1>6 DEF LiveBar
<1>9. DeadBar' = [g \in Grants |-> IF g \in G THEN DeadOf(g) \cup LiveOf(g) ELSE DeadOf(g)]
  BY <1>5, <1>6 DEF DeadBar
<1>10. Life!End(G)
  BY <1>1, <1>8, <1>9 DEF Life!End, StageBar, LiveBar, DeadBar
<1> QED
  BY <1>7, <1>10 DEF Life!Next

\* The tokens of each grant after a new pair q of grant g, whose other tokens are dead.
LEMMA NewPairOfGrant ==
    ASSUME IInv, NEW g \in Grants, NEW q \in Pairs, ~ Issued(q),
           Unrevoked("refresh", q)', grantOf' = [grantOf EXCEPT ![q] = g],
           \A p \in Pairs \ {q} : grantOf[p] # g =>
               row'["refresh"][p].status = row["refresh"][p].status,
           \A p \in Pairs \ {q} : grantOf[p] = g =>
               Reused(p)' <=> Reused(p) \/ Unrevoked("refresh", p),
           \A p \in Pairs \ {q} : grantOf[p] = g => ~ Unrevoked("refresh", p)'
    PROVE  /\ LiveBar' = [LiveBar EXCEPT ![g] = {q}]
           /\ DeadBar' = [DeadBar EXCEPT ![g] = DeadOf(g) \cup LiveOf(g)]
<1>1. grantOf \in [Pairs -> Grants \cup {NoGrant}]
  BY DEF IInv, TypeOK
<1>2. grantOf'[q] = g /\ \A p \in Pairs \ {q} : grantOf'[p] = grantOf[p]
  BY <1>1
<1>3. ~ Unrevoked("refresh", q) /\ ~ Reused(q) /\ ~ Reused(q)'
  BY DEF Issued, Unrevoked, Reused
<1>4. LiveOf(g)' = {q}
  BY <1>2 DEF LiveOf
<1>5. DeadOf(g)' = DeadOf(g) \cup LiveOf(g)
  BY <1>2, <1>3 DEF LiveOf, DeadOf
<1>6. ASSUME NEW h \in Grants \ {g}
      PROVE  LiveOf(h)' = LiveOf(h) /\ DeadOf(h)' = DeadOf(h)
  BY <1>2, <1>3, <1>6 DEF LiveOf, DeadOf, Unrevoked, Reused
<1> QED
  BY <1>4, <1>5, <1>6 DEF LiveBar, DeadBar

LEMMA ExchangeImplements ==
    ASSUME IInv, NEW g \in Grants, NEW q \in Pairs, Exchange(g, q)
    PROVE  Life!Next
<1>1. /\ grant \in [Grants -> Grant] /\ row \in [Tables -> [Pairs -> Row]]
      /\ grantOf \in [Pairs -> Grants \cup {NoGrant}] /\ "refresh" \in Tables
  BY DEF IInv, TypeOK, Tables
<1>2. /\ grant[g].stage = "coded" /\ ~ Issued(q)
      /\ grant' = [grant EXCEPT ![g].stage = "exchanged"]
      /\ row' = WithPair(row, q, grant[g].org)
      /\ grantOf' = [grantOf EXCEPT ![q] = g]
  BY DEF Exchange, CodeIsUnused, NextPair, IssuePair
<1>3. /\ row'["refresh"][q].status = "live"
      /\ \A p \in Pairs \ {q} : row'["refresh"][p] = row["refresh"][p]
  BY <1>1, <1>2 DEF WithPair
<1>4. \A p \in Pairs : grantOf[p] = g => row["refresh"][p].status = "none"
  BY <1>2 DEF IInv, TypeOK, Issued
<1>5. LiveOf(g) = {} /\ DeadOf(g) = {}
  BY <1>4 DEF LiveOf, DeadOf, Unrevoked, Reused
<1>6. /\ LiveBar' = [LiveBar EXCEPT ![g] = {q}]
      /\ DeadBar' = [DeadBar EXCEPT ![g] = DeadOf(g) \cup LiveOf(g)]
  <2>1. Unrevoked("refresh", q)'
    BY <1>3 DEF Unrevoked
  <2>2. \A p \in Pairs \ {q} : grantOf[p] = g =>
            /\ Reused(p)' <=> Reused(p) \/ Unrevoked("refresh", p)
            /\ ~ Unrevoked("refresh", p)'
    BY <1>3, <1>4 DEF Reused, Unrevoked
  <2> QED
    BY <1>2, <1>3, <2>1, <2>2, NewPairOfGrant
<1>7. DeadBar' = DeadBar
  BY <1>5, <1>6 DEF DeadBar
<1>8. StageOf(g) = "approved" /\ StageOf(g)' = "connected"
  BY <1>1, <1>2 DEF StageOf
<1>9. \A h \in Grants \ {g} : StageOf(h)' = StageOf(h)
  BY <1>1, <1>2 DEF StageOf
<1>10. StageBar' = [StageBar EXCEPT ![g] = "connected"]
  BY <1>8, <1>9 DEF StageBar
<1>11. Life!Fresh(q)
  BY <1>2, NewPairsAreFresh
<1>12. Life!Connect(g, q)
  BY <1>6, <1>7, <1>8, <1>10, <1>11 DEF Life!Connect, StageBar, LiveBar, DeadBar
<1> QED
  BY <1>12 DEF Life!Next

LEMMA RotateImplements ==
    ASSUME IInv, NEW c \in Calls, NEW q \in Pairs, Rotate(c, q)
    PROVE  Life!Next
<1>1. /\ row \in [Tables -> [Pairs -> Row]] /\ grantOf \in [Pairs -> Grants \cup {NoGrant}]
      /\ call[c] \in Call /\ "refresh" \in Tables
  BY DEF IInv, TypeOK, Tables
<1>2. PICK p \in call[c].held["refresh"] :
          /\ Unrevoked("refresh", p)
          /\ row' = [WithPair(row, q, call[c].org) EXCEPT !["refresh"][p].status = "rotated"]
          /\ grantOf' = [grantOf EXCEPT ![q] = grantOf[p]]
  BY DEF Rotate
<1>3. p \in Pairs /\ ~ Issued(q) /\ p # q /\ UNCHANGED grant
  BY <1>1, <1>2 DEF Rotate, NextPair, Issued, Unrevoked, Call
<1> DEFINE g == grantOf[p]
<1>4. g \in Grants /\ p \in LiveOf(g)
  BY <1>1, <1>2, <1>3 DEF IInv, TypeOK, Unrevoked, LiveOf
<1>5. /\ row'["refresh"][q].status = "live" /\ row'["refresh"][p].status = "rotated"
      /\ \A x \in Pairs \ {p, q} : row'["refresh"][x] = row["refresh"][x]
  BY <1>1, <1>2, <1>3 DEF WithPair
<1>6. \A x \in Pairs : grantOf[x] = g /\ Unrevoked("refresh", x) => x = p
  BY <1>2, <1>3 DEF IInv, OneLiveRefreshPerGrant
<1>7. grantOf' = [grantOf EXCEPT ![q] = g]
  BY <1>2
<1>8. grantOf[p] = g
  OBVIOUS
<1> HIDE DEF g
<1>9. /\ LiveBar' = [LiveBar EXCEPT ![g] = {q}]
      /\ DeadBar' = [DeadBar EXCEPT ![g] = DeadOf(g) \cup LiveOf(g)]
  <2>1. Unrevoked("refresh", q)'
    BY <1>5 DEF Unrevoked
  <2>2. \A x \in Pairs \ {q} : grantOf[x] = g =>
            /\ Reused(x)' <=> Reused(x) \/ Unrevoked("refresh", x)
            /\ ~ Unrevoked("refresh", x)'
    BY <1>2, <1>5, <1>6 DEF Reused, Unrevoked
  <2>3. \A x \in Pairs \ {q} : grantOf[x] # g =>
            row'["refresh"][x].status = row["refresh"][x].status
    BY <1>5, <1>8
  <2> QED
    BY <1>3, <1>4, <1>7, <2>1, <2>2, <2>3, NewPairOfGrant
<1>10. StageBar' = StageBar
  BY <1>3 DEF StageBar, StageOf
<1>11. Life!Fresh(q)
  BY <1>3, NewPairsAreFresh
<1>12. LiveOf(g) # {}
  BY <1>4
<1>13. Life!Renew(g, q)
  BY <1>4, <1>9, <1>10, <1>11, <1>12 DEF Life!Renew, StageBar, LiveBar, DeadBar
<1> QED
  BY <1>4, <1>13 DEF Life!Next

\* revoke_family and switch_oauth_grant leave a refresh token's status or revoke it.
LEMMA CommitsImplement ==
    ASSUME IInv, NEW c \in Calls, CommitRevoke(c) \/ CommitSwitch(c)
    PROVE  Life!Next
<1>1. row \in [Tables -> [Pairs -> Row]] /\ "refresh" \in Tables
  BY DEF IInv, TypeOK, Tables
<1>2. \A p \in call[c].written["refresh"] : row["refresh"][p].status = "live"
  BY WrittenRows DEF CommitRevoke, CommitSwitch, Tables, Unrevoked
<1>3. UNCHANGED <<grant, grantOf>>
  BY DEF CommitRevoke, CommitSwitch
<1>4. ASSUME NEW p \in Pairs
      PROVE  \/ row'["refresh"][p].status = row["refresh"][p].status
             \/ /\ row["refresh"][p].status = "live"
                /\ row'["refresh"][p].status = "revoked"
  <2>1. row["refresh"][p] \in Row
    BY <1>1
  <2>2. CASE CommitRevoke(c)
    <3>1. row'["refresh"][p] = IF p \in call[c].written["refresh"]
                               THEN [row["refresh"][p] EXCEPT !.status = "revoked"]
                               ELSE row["refresh"][p]
      BY <1>1, <2>2 DEF CommitRevoke
    <3> QED
      BY <1>2, <2>1, <3>1 DEF Row
  <2>3. CASE CommitSwitch(c)
    <3>1. row'["refresh"][p] = IF p \in call[c].written["refresh"]
                               THEN [row["refresh"][p] EXCEPT !.org = call[c].to]
                               ELSE row["refresh"][p]
      BY <1>1, <2>3 DEF CommitSwitch
    <3> QED
      BY <2>1, <3>1 DEF Row
  <2> QED
    BY <2>2, <2>3
<1> QED
  BY <1>3, <1>4, EndImplements

LEMMA StepImplements == IInv /\ [Next]_vars => [Life!Next]_(Life!vars)
<1> SUFFICES ASSUME IInv, [Next]_vars PROVE [Life!Next]_(Life!vars)
  OBVIOUS
<1>1. grant \in [Grants -> Grant] /\ row \in [Tables -> [Pairs -> Row]]
  BY DEF IInv, TypeOK
<1>2. CASE UNCHANGED <<grant, row, grantOf>>
  <2>1. UNCHANGED <<StageBar, LiveBar, DeadBar>>
    BY <1>2 DEF StageBar, LiveBar, DeadBar, StageOf, LiveOf, DeadOf, Unrevoked, Reused
  <2> QED
    BY <2>1 DEF Life!vars, StageBar, LiveBar, DeadBar
<1>3. ASSUME NEW g \in Grants, CreateRequest(g) PROVE Life!Next
  BY <1>1, <1>3, DecideImplements DEF CreateRequest
<1>4. ASSUME NEW g \in Grants, NEW o \in Orgs, Approve(g, o) PROVE Life!Next
  BY <1>1, <1>4, DecideImplements DEF Approve
<1>5. ASSUME NEW g \in Grants, Deny(g) PROVE Life!Next
  BY <1>1, <1>5, DecideImplements DEF Deny
<1>6. ASSUME NEW g \in Grants, Expire(g) PROVE Life!Next
  BY <1>1, <1>6, DecideImplements DEF Expire
<1>7. ASSUME NEW c \in Calls, NEW p \in Pairs, RevokeAccess(c, p) PROVE Life!Next
  <2>1. row'["refresh"] = row["refresh"] /\ UNCHANGED <<grant, grantOf>>
    BY <1>1, <1>7 DEF RevokeAccess, Tables
  <2> QED
    BY <2>1, EndImplements
<1> QED
  BY <1>2, <1>3, <1>4, <1>5, <1>6, <1>7, ExchangeImplements, RotateImplements, CommitsImplement
     DEF Next, vars, PresentRefresh, RevokeByToken, RevokeGrant, SwitchGrant, Snapshot, LockRow,
     Rollback

\* Every behaviour of the authorization server is, for each consent, one GrantLife allows:
\* asked once, connected at most once, one chain of refresh tokens that ends for good.
THEOREM Refinement == Spec => ImplementsGrantLife
<1>1. Init => Life!Init
  BY InitImplements
<1>2. IInv /\ [Next]_vars => [Life!Next]_(Life!vars)
  BY StepImplements
<1> QED
  BY <1>1, <1>2, Invariance, PTL DEF Spec, ImplementsGrantLife, Life!Spec
=============================================================================
