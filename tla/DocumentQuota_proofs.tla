------------------------ MODULE DocumentQuota_proofs ------------------------
(* That creations overrun the quota of a project by less than the number of sessions,   *)
(* for every number of documents, paths and sessions.                                    *)
EXTENDS DocumentQuota, Documents_proofs, FiniteSetTheorems

\* Two steps matter to the count: a session that counts, and one that inserts after it
\* has counted.  Every other step adds neither a created document nor such a session.
CountsOrInserts ==
    \E c \in Clients :
        \/ CountDocuments(c)
        \/ \E d \in Docs, p \in Paths, text \in Contents : InsertDocument(c, d, p, text)

\* Nobody but the two gives birth to a live document or begins a creation.
AddsNothing ==
    /\ \A d \in Docs : document'[d].status = "live" => document[d].status \in {"live", "deleted"}
    /\ \A c \in Clients : tx'[c].state = "creating" => tx[c].state = "creating"

----------------------------------------------------------------------------
\* Ending a transaction does not begin a creation.
LEMMA EndTxAddsNothing ==
  ASSUME TypeOK, NEW c \in Clients, EndTx(c)
  PROVE  \A e \in Clients : tx'[e].state = "creating" => tx[e].state = "creating"
BY DEF EndTx, TypeOK, NoTx

LEMMA OtherStepsAddNothing ==
  ASSUME TypeOK, LockedRowsAreCurrent, [Next]_vars, ~ CountsOrInserts
  PROVE  AddsNothing
<1>1. \A c \in Clients : tx[c].state = "locked" => tx[c].doc \in Docs /\ document[tx[c].doc].status = "live"
  BY DEF LockedRowsAreCurrent, LiveDocs, Live
<1> DEFINE SameStatus == \A d \in Docs : document'[d].status = document[d].status
<1>2. ASSUME NEW c \in Clients, NEW text, NEW kind, SaveNewVersion(c, text, kind), tx[c].state = "locked"
      PROVE  SameStatus
  BY <1>1, <1>2 DEF SaveNewVersion, TypeOK, DocumentRow
<1>3. ASSUME NEW c \in Clients, SameStatus, EndTx(c) PROVE AddsNothing
  BY <1>3, EndTxAddsNothing DEF AddsNothing
<1>4. ASSUME NEW c \in Clients, NEW text \in Contents, NEW kind \in VersionKind,
             UpdateAsNewVersion(c, text, kind)
      PROVE  AddsNothing
  BY <1>2, <1>3, <1>4 DEF UpdateAsNewVersion, HoldsCurrentVersion
<1>5. ASSUME NEW c \in Clients, NEW text \in Contents, NEW kind \in VersionKind,
             UpdateCoalesced(c, text, kind)
      PROVE  AddsNothing
  <2>1. SameStatus
    BY <1>1, <1>5 DEF UpdateCoalesced, HoldsCurrentVersion, TypeOK, DocumentRow
  <2> QED
    BY <1>3, <1>5, <2>1 DEF UpdateCoalesced
<1>6. ASSUME NEW c \in Clients, NEW section \in Sections, AppendToDocument(c, section)
      PROVE  AddsNothing
  BY <1>2, <1>3, <1>6 DEF AppendToDocument
<1>7. ASSUME NEW c \in Clients, NEW v \in VersionNumbers, RestoreVersion(c, v)
      PROVE  AddsNothing
  BY <1>2, <1>3, <1>7 DEF RestoreVersion
<1>8. ASSUME NEW c \in Clients, NEW p \in Paths, MoveDocument(c, p)
      PROVE  AddsNothing
  <2>1. SameStatus
    BY <1>1, <1>8 DEF MoveDocument, TypeOK, DocumentRow
  <2> QED
    BY <1>3, <1>8, <2>1 DEF MoveDocument
<1>9. ASSUME NEW c \in Clients, DeleteDocument(c)
      PROVE  AddsNothing
  <2>1. \A d \in Docs : document'[d].status = "live" => document[d].status = "live"
    BY <1>1, <1>9 DEF DeleteDocument, TypeOK, DocumentRow
  <2> QED
    BY <1>9, <2>1, EndTxAddsNothing DEF DeleteDocument, AddsNothing
<1>10. ASSUME NEW c \in Clients, NEW d \in Docs, UndeleteDocument(c, d)
       PROVE  AddsNothing
  BY <1>10 DEF UndeleteDocument, AddsNothing, TypeOK, DocumentRow
<1>11. ASSUME NEW c \in Clients, NEW d \in Docs, LockDocument(c, d)
       PROVE  AddsNothing
  BY <1>11 DEF LockDocument, AddsNothing, TypeOK
<1>12. ASSUME NEW c \in Clients, UpdateConflict(c) \/ Rollback(c)
       PROVE  AddsNothing
  BY <1>3, <1>12 DEF UpdateConflict, Rollback
<1>13. ASSUME document' = document, tx' = tx
       PROVE  AddsNothing
  BY <1>13 DEF AddsNothing
<1> QED
  BY <1>4, <1>5, <1>6, <1>7, <1>8, <1>9, <1>10, <1>11, <1>12, <1>13
     DEF Next, vars, CountsOrInserts, ReadDocument, DebounceElapses

----------------------------------------------------------------------------
(* The two numbers *)

\* Both sets are finite, whatever the documents and the sessions do.
LEMMA CountedSetsAreFinite ==
  /\ IsFiniteSet(Created) /\ Cardinality(Created) \in Nat
  /\ IsFiniteSet(Creating) /\ Cardinality(Creating) \in Nat
  /\ Cardinality(Created) <= Cardinality(LiveDocs)
  /\ Cardinality(Creating) <= Cardinality(Clients)
  /\ Cardinality(LiveDocs) \in Nat /\ Cardinality(Clients) \in Nat
<1>1. IsFiniteSet(LiveDocs)
  BY QuotaAssumption, FS_Subset DEF LiveDocs
<1>2. Created \in SUBSET LiveDocs /\ Creating \in SUBSET Clients
  BY DEF Created, Creating
<1> QED
  BY <1>1, <1>2, QuotaAssumption, FS_Subset, FS_CardinalityType

LEMMA CountedSetsAreFiniteNext ==
  /\ IsFiniteSet(Created') /\ Cardinality(Created') \in Nat
  /\ IsFiniteSet(Creating') /\ Cardinality(Creating') \in Nat
  /\ Cardinality(Creating') <= Cardinality(Clients)
<1>1. IsFiniteSet(LiveDocs')
  BY QuotaAssumption, FS_Subset DEF LiveDocs
<1>2. Created' \in SUBSET LiveDocs' /\ Creating' \in SUBSET Clients
  BY DEF Created, Creating
<1> QED
  BY <1>1, <1>2, QuotaAssumption, FS_Subset, FS_CardinalityType

\* A document counts as created after a step only if it did before, or the step made it.
LEMMA CreatedStep ==
  ASSUME TypeOK, QuotaNext, NEW d \in Created', document[d].status \in {"live", "deleted"}
  PROVE  d \in Created
BY DEF QuotaNext, Created, LiveDocs, Live

\* The sum stays below its bound.
LEMMA QuotaStep ==
  IInv /\ QuotaOverrunIsBounded /\ [QuotaNext]_quotaVars => QuotaOverrunIsBounded'
<1> SUFFICES ASSUME IInv, QuotaOverrunIsBounded, QuotaNext PROVE QuotaOverrunIsBounded'
  BY DEF quotaVars, vars, QuotaOverrunIsBounded, Created, Creating, LiveDocs, Live
<1>0. TypeOK /\ LockedRowsAreCurrent /\ [Next]_vars /\ MaxDocs \in Nat
  BY DocumentsAssumption DEF IInv, QuotaNext
<1>1. CASE \E c \in Clients : CountDocuments(c)
  <2>1. document' = document /\ Cardinality(LiveDocs) < MaxDocs
    BY <1>1 DEF CountDocuments
  <2>2. Created' \subseteq Created
    BY <1>0, <2>1, CreatedStep DEF Created, LiveDocs, Live
  <2>3. Cardinality(Created') <= Cardinality(Created)
    BY <2>2, CountedSetsAreFinite, FS_Subset
  <2> QED
    BY <1>0, <2>1, <2>3, CountedSetsAreFinite, CountedSetsAreFiniteNext DEF QuotaOverrunIsBounded
<1>2. ASSUME NEW c \in Clients, NEW d \in Docs, NEW p \in Paths, NEW text \in Contents,
             InsertDocument(c, d, p, text)
      PROVE  QuotaOverrunIsBounded'
  <2>1. Creating' = Creating \ {c} /\ c \in Creating
    BY <1>0, <1>2 DEF InsertDocument, EndTx, NoTx, Creating, TypeOK
  <2>2. \A e \in Docs \ {d} : document'[e] = document[e]
    BY <1>0, <1>2 DEF InsertDocument, TypeOK
  <2>3. Created' \subseteq Created \cup {d}
    BY <1>0, <2>2, CreatedStep DEF Created, LiveDocs, Live
  <2>4. Cardinality(Created') <= Cardinality(Created \cup {d})
    BY <2>3, CountedSetsAreFinite, FS_AddElement, FS_Subset
  <2>5. Cardinality(Created \cup {d}) <= Cardinality(Created) + 1
    <3>1. Cardinality(Created \cup {d}) =
            IF d \in Created THEN Cardinality(Created) ELSE Cardinality(Created) + 1
      BY CountedSetsAreFinite, FS_AddElement, Zenon
    <3> QED
      BY <3>1, CountedSetsAreFinite
  <2>6. Cardinality(Creating') = Cardinality(Creating) - 1
    BY <2>1, CountedSetsAreFinite, FS_RemoveElement
  <2>7. Cardinality(Created \cup {d}) \in Nat
    BY CountedSetsAreFinite, FS_AddElement, FS_CardinalityType
  <2> QED
    BY <1>0, <2>4, <2>5, <2>6, <2>7, CountedSetsAreFinite, CountedSetsAreFiniteNext
       DEF QuotaOverrunIsBounded
<1>3. CASE ~ CountsOrInserts
  <2>1. AddsNothing
    BY <1>0, <1>3, OtherStepsAddNothing
  <2>2. Created' \subseteq Created
    BY <1>0, <2>1, CreatedStep DEF AddsNothing, Created, LiveDocs, Live
  <2>3. Creating' \subseteq Creating
    BY <2>1 DEF AddsNothing, Creating
  <2>4. Cardinality(Created') <= Cardinality(Created) /\ Cardinality(Creating') <= Cardinality(Creating)
    BY <2>2, <2>3, CountedSetsAreFinite, FS_Subset
  <2> QED
    BY <1>0, <2>4, CountedSetsAreFinite, CountedSetsAreFiniteNext DEF QuotaOverrunIsBounded
<1> QED
  BY <1>1, <1>2, <1>3 DEF CountsOrInserts

\* A behaviour with the history variable is one of Documents.
LEMMA QuotaSpecIsSpec == QuotaSpec => Spec
<1>1. QuotaInit => Init
  BY DEF QuotaInit
<1>2. [QuotaNext]_quotaVars => [Next]_vars
  BY DEF QuotaNext, quotaVars
<1> QED
  BY <1>1, <1>2, PTL DEF QuotaSpec, Spec

\* Creations exceed max_docs_per_project by less than the number of sessions.
THEOREM QuotaOverrun == QuotaSpec => []QuotaOverrunIsBounded
<1>1. QuotaInit => QuotaOverrunIsBounded
  <2> SUFFICES ASSUME QuotaInit PROVE QuotaOverrunIsBounded
    OBVIOUS
  <2>1. Created = {} /\ Creating = {}
    BY DEF QuotaInit, Init, NoRow, NoTx, Created, Creating, LiveDocs, Live
  <2>2. Cardinality(Clients) # 0
    BY QuotaAssumption, FS_EmptySet
  <2> QED
    BY <2>1, <2>2, FS_EmptySet, CountedSetsAreFinite, DocumentsAssumption DEF QuotaOverrunIsBounded
<1> QED
  BY <1>1, QuotaStep, Invariance, QuotaSpecIsSpec, PTL DEF QuotaSpec
=============================================================================
