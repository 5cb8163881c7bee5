-------------------------- MODULE Documents_proofs --------------------------
(***************************************************************************)
(* Theorems about Documents, for every set of clients, documents and texts *)
(* and every bound.                                                        *)
(***************************************************************************)
EXTENDS Documents, SequenceTheorems, TLAPS

----------------------------------------------------------------------------
(* Texts and chunks *)

\* BoundedSeq as a set of sequences: a text is a sequence of sections that fits.
LEMMA TextsAreShortSequences ==
    Texts = {t \in Seq(Sections) : Len(t) <= MaxSections}
<1> USE DocumentsAssumption
<1>1. Texts \subseteq Seq(Sections)
  BY DEF Texts, BoundedSeq, SeqOf
<1>2. \A t \in Texts : Len(t) <= MaxSections
  BY DEF Texts, BoundedSeq, SeqOf
<1>3. ASSUME NEW t \in Seq(Sections), Len(t) <= MaxSections PROVE t \in Texts
  BY <1>3 DEF Texts, BoundedSeq, SeqOf
<1> QED
  BY <1>1, <1>2, <1>3

\* A text a client submits, or an append builds, is stored only if it fits.
LEMMA CheckedTexts ==
    /\ \A t \in Contents : WithinSizeLimit(t) => t \in Texts
    /\ \A t \in Texts, s \in Sections : WithinSizeLimit(Append(t, s)) => Append(t, s) \in Texts
    /\ <<>> \in Texts
BY TextsAreShortSequences, DocumentsAssumption DEF WithinSizeLimit

\* reindex_chunks stores one chunk per section of the text, with that section's
\* content, whatever was stored before.
LEMMA ReindexedMatches ==
    ASSUME NEW stored \in Seq(ChunkRow), NEW t \in Texts
    PROVE  /\ Reindexed(stored, t) \in Seq(ChunkRow)
           /\ [i \in DOMAIN Reindexed(stored, t) |-> Reindexed(stored, t)[i].content] = t
<1>1. t \in Seq(Sections) /\ Len(t) \in Nat /\ DOMAIN t = 1..Len(t)
  BY TextsAreShortSequences
<1>2. t = [i \in 1..Len(t) |-> t[i]]
  BY <1>1
<1>3. \A i \in 1..Len(t) : Chunk(t, i) \in ChunkRow /\ Chunk(t, i).content = t[i]
  BY <1>1 DEF Chunk, ChunkRow
<1>4. \A i \in 1..Len(t) :
        /\ Reindexed(stored, t)[i] \in ChunkRow
        /\ Reindexed(stored, t)[i].content = t[i]
  BY <1>1, <1>3 DEF Reindexed
<1>5. DOMAIN Reindexed(stored, t) = 1..Len(t)
  BY DEF Reindexed
<1>6. Reindexed(stored, t) = [i \in 1..Len(t) |-> Reindexed(stored, t)[i]]
  BY <1>5 DEF Reindexed
<1>7. Reindexed(stored, t) \in Seq(ChunkRow)
  BY <1>1, <1>4, <1>6
<1> QED
  BY <1>2, <1>4, <1>5, <1>7

----------------------------------------------------------------------------
(* Types *)

LEMMA NullRowsAreTyped ==
    NoRow \in DocumentRow /\ NoVersion \in VersionRow /\ NoTx \in Transaction /\ NoCopy \in Copy
BY CheckedTexts, DocumentsAssumption
   DEF NoRow, NoVersion, NoTx, NoCopy, DocumentRow, VersionRow, Transaction, Copy

\* The writes shared by update, append and restore keep the tables well formed.
LEMMA SaveNewVersionType ==
    ASSUME TypeOK, NEW c \in Clients, NEW kind \in VersionKind, NEW text \in Texts,
           tx[c].doc \in Docs, SaveNewVersion(c, text, kind)
    PROVE  /\ document' \in [Docs -> DocumentRow]
           /\ versions' \in [Docs -> [VersionNumbers -> VersionRow]]
           /\ recent' \in [Docs -> BOOLEAN]
           /\ chunks' \in [Docs -> Seq(ChunkRow)]
<1> DEFINE d == tx[c].doc
           v == tx[c].row.version + 1
<1> USE DEF TypeOK
<1>1. v \in VersionNumbers /\ v \in 0..MaxVersions
  BY DEF SaveNewVersion, InsertVersion, VersionNumbers
<1>2. document' \in [Docs -> DocumentRow]
  <2> DEFINE row == [document[d] EXCEPT !.content = text, !.version = v]
  <2>1. document[d] \in DocumentRow
    OBVIOUS
  <2>2. document' = [document EXCEPT ![d] = row]
    BY DEF SaveNewVersion
  <2> HIDE DEF TypeOK, d, v
  <2>3. row \in DocumentRow
    BY <1>1, <2>1 DEF DocumentRow
  <2> HIDE DEF row
  <2> QED
    BY <2>2, <2>3 DEF TypeOK
<1>3. [kind |-> kind, content |-> text, actor |-> ActorOf[c]] \in VersionRow
  BY DocumentsAssumption DEF VersionRow
<1>4. versions' \in [Docs -> [VersionNumbers -> VersionRow]]
  BY <1>1, <1>3 DEF SaveNewVersion, InsertVersion
<1>5. recent' \in [Docs -> BOOLEAN]
  BY DEF SaveNewVersion, InsertVersion
<1>6. chunks' \in [Docs -> Seq(ChunkRow)]
  BY ReindexedMatches DEF SaveNewVersion
<1> QED
  BY <1>2, <1>4, <1>5, <1>6

LEMMA AmendLatestVersionType ==
    ASSUME TypeOK, NEW d \in Docs, NEW text \in Texts, AmendLatestVersion(d, text)
    PROVE  versions' \in [Docs -> [VersionNumbers -> VersionRow]]
<1> DEFINE rows == [versions[d] EXCEPT ![LatestVersion(d)].content = text]
<1>1. versions[d] \in [VersionNumbers -> VersionRow]
  BY DEF TypeOK
<1>2. \A v \in VersionNumbers : [versions[d][v] EXCEPT !.content = text] \in VersionRow
  BY <1>1 DEF VersionRow
<1>3. rows \in [VersionNumbers -> VersionRow]
  BY <1>1, <1>2
<1>4. versions' = [versions EXCEPT ![d] = rows]
  BY DEF AmendLatestVersion
<1> QED
  BY <1>3, <1>4 DEF TypeOK

LEMMA TypeInit == Init => TypeOK
<1> SUFFICES ASSUME Init PROVE TypeOK
  OBVIOUS
<1>1. \A d \in Docs : [v \in VersionNumbers |-> NoVersion] \in [VersionNumbers -> VersionRow]
  BY NullRowsAreTyped
<1> QED
  BY <1>1, NullRowsAreTyped DEF Init, TypeOK

\* The row a transaction has locked is live, does not change under it and is nobody
\* else's, so what it writes from its copy, it writes from the current row.
LockedRowsAreCurrent ==
    \A c \in Clients :
        tx[c].state = "locked" =>
            /\ tx[c].doc \in LiveDocs
            /\ tx[c].row = document[tx[c].doc]
            /\ \A e \in Clients \ {c} :
                 tx[e].state = "locked" => tx[e].doc # tx[c].doc

\* A locked transaction names a document; a client's copy names one too.
LEMMA TypeStep == TypeOK /\ LockedRowsAreCurrent /\ [Next]_vars => TypeOK'
<1> SUFFICES ASSUME TypeOK, LockedRowsAreCurrent, [Next]_vars PROVE TypeOK'
  OBVIOUS
<1>0. \A c \in Clients : NoTx \in Transaction /\ (EndTx(c) => tx' \in [Clients -> Transaction])
  BY NullRowsAreTyped DEF TypeOK, EndTx
<1>00. \A c \in Clients : tx[c].state = "locked" =>
         tx[c].doc \in Docs /\ tx[c].row = document[tx[c].doc]
  BY DEF LockedRowsAreCurrent, LiveDocs
<1>1. ASSUME NEW c \in Clients, CountDocuments(c) PROVE TypeOK'
  BY <1>1, NullRowsAreTyped DEF CountDocuments, TypeOK, Transaction, NoTx
<1>2. ASSUME NEW c \in Clients, NEW d \in Docs, NEW p \in Paths, NEW text \in Contents,
             InsertDocument(c, d, p, text)
      PROVE  TypeOK'
  <2>1. text \in Texts
    BY <1>2, CheckedTexts DEF InsertDocument
  <2>2. document' \in [Docs -> DocumentRow]
    BY <1>2, <2>1, DocumentsAssumption DEF InsertDocument, TypeOK, DocumentRow
  <2>3. versions' \in [Docs -> [VersionNumbers -> VersionRow]] /\ recent' \in [Docs -> BOOLEAN]
    BY <1>2, <2>1, DocumentsAssumption
       DEF InsertDocument, InsertVersion, TypeOK, VersionRow, VersionKind
  <2>4. chunks' \in [Docs -> Seq(ChunkRow)]
    BY <1>2, <2>1, ReindexedMatches DEF InsertDocument, TypeOK
  <2> QED
    BY <1>0, <1>2, <2>2, <2>3, <2>4 DEF InsertDocument, TypeOK
<1>3. ASSUME NEW c \in Clients, NEW d \in Docs, ReadDocument(c, d) PROVE TypeOK'
  BY <1>3 DEF ReadDocument, TypeOK, CopyOf, Copy, DocumentRow
<1>4. ASSUME NEW c \in Clients, NEW d \in Docs, LockDocument(c, d) PROVE TypeOK'
  BY <1>4 DEF LockDocument, TypeOK, Transaction
<1>5. ASSUME NEW c \in Clients, NEW text \in Contents, NEW kind \in VersionKind,
             UpdateAsNewVersion(c, text, kind)
      PROVE  TypeOK'
  <2>1. text \in Texts /\ tx[c].doc \in Docs
    BY <1>00, <1>5, CheckedTexts DEF UpdateAsNewVersion, SaveNewVersion, HoldsCurrentVersion
  <2>2. base[c] \in Copy /\ tx[c].row.version + 1 \in 0..MaxVersions
    BY <1>5 DEF UpdateAsNewVersion, SaveNewVersion, InsertVersion, VersionNumbers, TypeOK
  <2>3. [base[c] EXCEPT !.version = tx[c].row.version + 1, !.content = text] \in Copy
    BY <2>1, <2>2 DEF Copy
  <2>4. base' \in [Clients -> Copy]
    BY <1>5, <2>3 DEF UpdateAsNewVersion, TypeOK
  <2> QED
    BY <1>0, <1>5, <2>1, <2>4, SaveNewVersionType DEF UpdateAsNewVersion, TypeOK
<1>6. ASSUME NEW c \in Clients, NEW text \in Contents, NEW kind \in VersionKind,
             UpdateCoalesced(c, text, kind)
      PROVE  TypeOK'
  <2>1. text \in Texts /\ tx[c].doc \in Docs
    BY <1>00, <1>6, CheckedTexts DEF UpdateCoalesced, HoldsCurrentVersion
  <2>2. versions' \in [Docs -> [VersionNumbers -> VersionRow]]
    BY <1>6, <2>1, AmendLatestVersionType DEF UpdateCoalesced, TypeOK
  <2>3. document' \in [Docs -> DocumentRow] /\ base' \in [Clients -> Copy]
    BY <1>6, <2>1 DEF UpdateCoalesced, TypeOK, DocumentRow, Copy
  <2>4. chunks' \in [Docs -> Seq(ChunkRow)] /\ recent' \in [Docs -> BOOLEAN]
    BY <1>6, <2>1, ReindexedMatches DEF UpdateCoalesced, TypeOK
  <2> QED
    BY <1>0, <1>6, <2>2, <2>3, <2>4 DEF UpdateCoalesced, TypeOK
<1>7. ASSUME NEW c \in Clients, UpdateConflict(c) PROVE TypeOK'
  <2>1. base[c] \in Copy /\ tx[c].row \in DocumentRow
    BY DEF TypeOK, Transaction
  <2>2. [base[c] EXCEPT !.version = tx[c].row.version, !.content = tx[c].row.content] \in Copy
    BY <2>1 DEF Copy, DocumentRow
  <2>3. base' \in [Clients -> Copy]
    BY <1>7, <2>2 DEF UpdateConflict, TypeOK
  <2> QED
    BY <1>0, <1>7, <2>3 DEF UpdateConflict, TypeOK
<1>8. ASSUME NEW c \in Clients, NEW section \in Sections, AppendToDocument(c, section)
      PROVE  TypeOK'
  <2>1. tx[c].doc \in Docs /\ Append(tx[c].row.content, section) \in Texts
    BY <1>00, <1>8, CheckedTexts
       DEF AppendToDocument, SaveNewVersion, TypeOK, DocumentRow
  <2> QED
    BY <1>0, <1>8, <2>1, SaveNewVersionType DEF AppendToDocument, TypeOK, VersionKind
<1>9. ASSUME NEW c \in Clients, NEW v \in VersionNumbers, RestoreVersion(c, v) PROVE TypeOK'
  <2>1. tx[c].doc \in Docs /\ versions[tx[c].doc][v].content \in Texts
    BY <1>00, <1>9 DEF RestoreVersion, TypeOK, VersionRow
  <2> QED
    BY <1>0, <1>9, <2>1, SaveNewVersionType DEF RestoreVersion, TypeOK, VersionKind
<1>10. ASSUME NEW c \in Clients, NEW p \in Paths, MoveDocument(c, p) PROVE TypeOK'
  <2>1. tx[c].doc \in Docs /\ document[tx[c].doc] \in DocumentRow
    BY <1>00, <1>10 DEF MoveDocument, TypeOK
  <2>2. document' \in [Docs -> DocumentRow]
    BY <1>10, <2>1 DEF MoveDocument, TypeOK, DocumentRow
  <2> QED
    BY <1>0, <1>10, <2>2 DEF MoveDocument, TypeOK
<1>11. ASSUME NEW c \in Clients, DeleteDocument(c) PROVE TypeOK'
  <2>0. tx[c].doc \in Docs
    BY <1>00, <1>11 DEF DeleteDocument
  <2>1. document' \in [Docs -> DocumentRow]
    <3>1. document[tx[c].doc] \in DocumentRow
      BY <2>0 DEF TypeOK
    <3> DEFINE row == [document[tx[c].doc] EXCEPT !.status = "deleted"]
    <3>2. row \in DocumentRow
      BY <3>1 DEF DocumentRow
    <3>3. document' = [document EXCEPT ![tx[c].doc] = row]
      BY <1>11 DEF DeleteDocument
    <3> HIDE DEF row
    <3> QED
      BY <2>0, <3>2, <3>3 DEF TypeOK
  <2>2. chunks' \in [Docs -> Seq(ChunkRow)]
    <3> DEFINE none == <<>>
    <3>1. none \in Seq(ChunkRow)
      OBVIOUS
    <3>2. chunks' = [chunks EXCEPT ![tx[c].doc] = none]
      BY <1>11 DEF DeleteDocument
    <3> HIDE DEF none
    <3> QED
      BY <2>0, <3>1, <3>2 DEF TypeOK
  <2> QED
    BY <1>0, <1>11, <2>1, <2>2 DEF DeleteDocument, TypeOK
<1>12. ASSUME NEW c \in Clients, NEW d \in Docs, UndeleteDocument(c, d) PROVE TypeOK'
  BY <1>12, ReindexedMatches DEF UndeleteDocument, TypeOK, DocumentRow
<1>13. ASSUME NEW c \in Clients, Rollback(c) PROVE TypeOK'
  BY <1>0, <1>13 DEF Rollback, TypeOK
<1>14. ASSUME NEW d \in Docs, DebounceElapses(d) PROVE TypeOK'
  BY <1>14 DEF DebounceElapses, TypeOK
<1>15. CASE UNCHANGED vars
  BY <1>15 DEF vars, TypeOK
<1> QED
  BY <1>1, <1>2, <1>3, <1>4, <1>5, <1>6, <1>7, <1>8, <1>9, <1>10, <1>11, <1>12, <1>13,
     <1>14, <1>15 DEF Next

----------------------------------------------------------------------------
(* Row locks *)

\* A step of c that ends its transaction and writes no row but the one it locked.
WritesOwnRow(c) ==
    /\ tx[c].state = "locked"
    /\ EndTx(c)
    /\ document' \in [Docs -> DocumentRow]
    /\ \A d \in Docs \ {tx[c].doc} : document'[d] = document[d]

\* A step that locks nothing and writes only rows that are not live.
WritesUnlockableRows ==
    /\ \A c \in Clients : tx'[c] = tx[c] \/ tx'[c].state # "locked"
    /\ \A d \in Docs : Live(d) => document'[d] = document[d]

LEMMA OwnRowKeepsLocks ==
    ASSUME TypeOK, LockedRowsAreCurrent, NEW c \in Clients, WritesOwnRow(c)
    PROVE  LockedRowsAreCurrent'
<1> SUFFICES ASSUME NEW e \in Clients, tx'[e].state = "locked"
             PROVE  /\ tx'[e].doc \in LiveDocs'
                    /\ tx'[e].row = document'[tx'[e].doc]
                    /\ \A f \in Clients \ {e} : tx'[f].state = "locked" => tx'[f].doc # tx'[e].doc
  BY DEF LockedRowsAreCurrent
<1>1. e # c /\ tx'[e] = tx[e]
  BY DEF WritesOwnRow, EndTx, NoTx, TypeOK
<1>2. tx[e].doc \in Docs \ {tx[c].doc} /\ tx[e].doc \in LiveDocs
  BY <1>1 DEF LockedRowsAreCurrent, WritesOwnRow, LiveDocs
<1>3. document'[tx[e].doc] = document[tx[e].doc]
  BY <1>2 DEF WritesOwnRow
<1>4. \A f \in Clients : tx'[f].state = "locked" => tx'[f] = tx[f]
  BY DEF WritesOwnRow, EndTx, NoTx, TypeOK
<1> QED
  BY <1>1, <1>2, <1>3, <1>4 DEF LockedRowsAreCurrent, LiveDocs, Live

LEMMA UnlockableRowsKeepLocks ==
    ASSUME TypeOK, LockedRowsAreCurrent, WritesUnlockableRows
    PROVE  LockedRowsAreCurrent'
<1>1. \A d \in LiveDocs : d \in LiveDocs'
  BY DEF WritesUnlockableRows, LiveDocs, Live
<1>2. \A c \in Clients : tx'[c].state = "locked" => tx'[c] = tx[c]
  BY DEF WritesUnlockableRows
<1> QED
  BY <1>1, <1>2 DEF LockedRowsAreCurrent, WritesUnlockableRows, LiveDocs

LEMMA LocksStep == TypeOK /\ LockedRowsAreCurrent /\ [Next]_vars => LockedRowsAreCurrent'
<1> SUFFICES ASSUME TypeOK, LockedRowsAreCurrent, [Next]_vars PROVE LockedRowsAreCurrent'
  OBVIOUS
<1> USE DEF WritesUnlockableRows, WritesOwnRow
<1>0. TypeOK'
  BY TypeStep
<1>1. ASSUME NEW c \in Clients, CountDocuments(c) PROVE LockedRowsAreCurrent'
  BY <1>1, UnlockableRowsKeepLocks DEF CountDocuments, TypeOK, NoTx
<1>2. ASSUME NEW c \in Clients, NEW d \in Docs, NEW p \in Paths, NEW text \in Contents,
             InsertDocument(c, d, p, text)
      PROVE  LockedRowsAreCurrent'
  BY <1>2, UnlockableRowsKeepLocks DEF InsertDocument, EndTx, NoTx, TypeOK, Live
<1>3. ASSUME NEW c \in Clients, NEW d \in Docs, ReadDocument(c, d) PROVE LockedRowsAreCurrent'
  BY <1>3, UnlockableRowsKeepLocks DEF ReadDocument
<1>4. ASSUME NEW c \in Clients, NEW d \in Docs, LockDocument(c, d) PROVE LockedRowsAreCurrent'
  BY <1>4 DEF LockDocument, RowIsFree, Holds, LockedRowsAreCurrent, LiveDocs, Live, TypeOK
<1>5. ASSUME NEW c \in Clients, NEW text \in Contents, NEW kind \in VersionKind,
             UpdateAsNewVersion(c, text, kind)
      PROVE  LockedRowsAreCurrent'
  BY <1>0, <1>5, OwnRowKeepsLocks
     DEF UpdateAsNewVersion, HoldsCurrentVersion, SaveNewVersion, TypeOK
<1>6. ASSUME NEW c \in Clients, NEW text \in Contents, NEW kind \in VersionKind,
             UpdateCoalesced(c, text, kind)
      PROVE  LockedRowsAreCurrent'
  BY <1>0, <1>6, OwnRowKeepsLocks DEF UpdateCoalesced, HoldsCurrentVersion, TypeOK
<1>7. ASSUME NEW c \in Clients, UpdateConflict(c) PROVE LockedRowsAreCurrent'
  BY <1>0, <1>7, OwnRowKeepsLocks DEF UpdateConflict, TypeOK
<1>8. ASSUME NEW c \in Clients, NEW section \in Sections, AppendToDocument(c, section)
      PROVE  LockedRowsAreCurrent'
  BY <1>0, <1>8, OwnRowKeepsLocks DEF AppendToDocument, SaveNewVersion, TypeOK
<1>9. ASSUME NEW c \in Clients, NEW v \in VersionNumbers, RestoreVersion(c, v)
      PROVE  LockedRowsAreCurrent'
  BY <1>0, <1>9, OwnRowKeepsLocks DEF RestoreVersion, SaveNewVersion, TypeOK
<1>10. ASSUME NEW c \in Clients, NEW p \in Paths, MoveDocument(c, p) PROVE LockedRowsAreCurrent'
  BY <1>0, <1>10, OwnRowKeepsLocks DEF MoveDocument, TypeOK
<1>11. ASSUME NEW c \in Clients, DeleteDocument(c) PROVE LockedRowsAreCurrent'
  BY <1>0, <1>11, OwnRowKeepsLocks DEF DeleteDocument, TypeOK
<1>12. ASSUME NEW c \in Clients, NEW d \in Docs, UndeleteDocument(c, d)
       PROVE  LockedRowsAreCurrent'
  BY <1>12, UnlockableRowsKeepLocks DEF UndeleteDocument, Live, TypeOK
<1>13. ASSUME NEW c \in Clients, Rollback(c) PROVE LockedRowsAreCurrent'
  BY <1>13, UnlockableRowsKeepLocks DEF Rollback, EndTx, NoTx, TypeOK
<1>14. ASSUME NEW d \in Docs, DebounceElapses(d) PROVE LockedRowsAreCurrent'
  BY <1>14, UnlockableRowsKeepLocks DEF DebounceElapses
<1>15. CASE UNCHANGED vars
  BY <1>15, UnlockableRowsKeepLocks DEF vars
<1> QED
  BY <1>1, <1>2, <1>3, <1>4, <1>5, <1>6, <1>7, <1>8, <1>9, <1>10, <1>11, <1>12, <1>13,
     <1>14, <1>15 DEF Next

\* Every reachable state is well formed, and no stored text exceeds the size limit.
THEOREM TypeCorrect == Spec => []TypeOK
<1>1. Init => TypeOK /\ LockedRowsAreCurrent
  BY TypeInit DEF Init, LockedRowsAreCurrent, NoTx
<1>2. TypeOK /\ LockedRowsAreCurrent /\ [Next]_vars => (TypeOK /\ LockedRowsAreCurrent)'
  BY TypeStep, LocksStep
<1> QED
  BY <1>1, <1>2, PTL DEF Spec

\* The row a write locked stays the current one until it commits: the two-step
\* transactions of Documents are atomic as far as their own document goes.
THEOREM RowLocksHold == Spec => []LockedRowsAreCurrent
<1>1. Init => TypeOK /\ LockedRowsAreCurrent
  BY TypeInit DEF Init, LockedRowsAreCurrent, NoTx
<1>2. TypeOK /\ LockedRowsAreCurrent /\ [Next]_vars => (TypeOK /\ LockedRowsAreCurrent)'
  BY TypeStep, LocksStep
<1> QED
  BY <1>1, <1>2, PTL DEF Spec

----------------------------------------------------------------------------
(* What one step does to the snapshots *)

\* When the history is complete, ORDER BY version DESC LIMIT 1 is current_version.
LEMMA LatestIsCurrent ==
    ASSUME TypeOK, HistoryIsComplete, NEW d \in Docs, document[d].version > 0
    PROVE  LatestVersion(d) = document[d].version
<1> DEFINE n == document[d].version
           IsLatest(v) == Exists(d, v) /\ \A w \in VersionNumbers : w > v => ~ Exists(d, w)
<1>1. n \in VersionNumbers
  BY DocumentsAssumption DEF TypeOK, DocumentRow, VersionNumbers
<1>2. IsLatest(n)
  BY <1>1 DEF HistoryIsComplete, VersionNumbers
<1>3. \A v \in VersionNumbers : IsLatest(v) => v = n
  BY <1>1 DEF HistoryIsComplete, VersionNumbers
<1> QED
  BY <1>1, <1>2, <1>3 DEF LatestVersion

\* Only a document not yet created has no version.
ExistingDocsHaveVersions ==
    \A d \in Docs : (document[d].status = "absent") <=> (document[d].version = 0)

\* The inductive invariant: the history needs the types, the locks (a write numbers its
\* version from the copy it locked) and that only absent documents have version 0.
IInv == TypeOK /\ LockedRowsAreCurrent /\ ExistingDocsHaveVersions /\ HistoryIsComplete

\* What a step may do to one document: nothing but move it, ...
Same(d) ==
    /\ versions'[d] = versions[d]
    /\ document'[d].version = document[d].version
    /\ document'[d].content = document[d].content
    /\ document'[d].status = document[d].status

\* ... add the next snapshot and show its text, ...
Added(d, r) ==
    /\ document[d].status # "deleted"
    /\ document[d].version + 1 \in VersionNumbers
    /\ versions'[d] = [versions[d] EXCEPT ![document[d].version + 1] = r]
    /\ document'[d].version = document[d].version + 1
    /\ document'[d].content = r.content
    /\ document'[d].status = "live"

\* ... overwrite the last snapshot, an autosave, and show the new text, ...
Amended(d, t) ==
    /\ Live(d)
    /\ document[d].version \in VersionNumbers
    /\ versions[d][document[d].version].kind = "autosave"
    /\ versions'[d] = [versions[d] EXCEPT ![document[d].version].content = t]
    /\ document'[d].version = document[d].version
    /\ document'[d].content = t
    /\ document'[d].status = "live"

\* ... or hide it or show it again as it was.
Toggled(d) ==
    /\ versions'[d] = versions[d]
    /\ document'[d].version = document[d].version
    /\ document'[d].content = document[d].content
    /\ document[d].status \in {"live", "deleted"}
    /\ document'[d].status \in {"live", "deleted"}
    /\ document'[d].status # document[d].status

WrittenRow == {r \in VersionRow : r.kind # "none" /\ r.actor # NoActor}

OthersSame(d) == \A e \in Docs \ {d} : Same(e)

\* The actors writing stay the same, or one begins to write or ends writing a document.
WritersSame == \A d \in Docs : WritersOf(d)' = WritersOf(d)

Begins(d, a) ==
    /\ Live(d)
    /\ WritersOf(d) = {}
    /\ WritersOf(d)' = {a}
    /\ \A e \in Docs \ {d} : WritersOf(e)' = WritersOf(e)

Ends(d, a) ==
    /\ WritersOf(d) = {a}
    /\ WritersOf(d)' = {}
    /\ \A e \in Docs \ {d} : WritersOf(e)' = WritersOf(e)

OneDocumentStep ==
    \/ /\ \A d \in Docs : Same(d)
       /\ WritersSame \/ \E d \in Docs, a \in Actors : Begins(d, a) \/ Ends(d, a)
    \/ \E d \in Docs :
         /\ OthersSame(d)
         /\ \E r \in WrittenRow :
              /\ Added(d, r)
              /\ (Live(d) /\ Ends(d, r.actor)) \/ (~ Live(d) /\ WritersSame)
    \/ \E d \in Docs :
         /\ OthersSame(d)
         /\ \E t \in Texts : Amended(d, t)
         /\ Ends(d, versions[d][document[d].version].actor)
    \/ \E d \in Docs :
         /\ OthersSame(d)
         /\ Toggled(d)
         /\ (Live(d) /\ \E a \in Actors : Ends(d, a)) \/ (~ Live(d) /\ WritersSame)

\* A step that locks and unlocks no row leaves the writers alone.
LEMMA WritersStay ==
    ASSUME \A c \in Clients, d \in Docs : Holds(c, d)' <=> Holds(c, d)
    PROVE  WritersSame
BY DEF WritersSame, WritersOf

\* The end of a transaction that holds a row is the end of its actor's writing.
LEMMA EndOfWriting ==
    ASSUME TypeOK, LockedRowsAreCurrent, NEW c \in Clients, NEW d \in Docs,
           Holds(c, d), EndTx(c)
    PROVE  Ends(d, ActorOf[c])
<1>1. \A e \in Clients : Holds(e, d) <=> e = c
  BY DEF LockedRowsAreCurrent, Holds
<1>2. WritersOf(d) = {ActorOf[c]}
  BY <1>1 DEF WritersOf
<1>3. tx'[c].state = "none" /\ \A e \in Clients \ {c} : tx'[e] = tx[e]
  BY DEF EndTx, TypeOK, NoTx
<1>4. \A e \in Clients : ~ Holds(e, d)'
  BY <1>1, <1>3 DEF Holds
<1>5. WritersOf(d)' = {}
  BY <1>4 DEF WritersOf
<1>6. ASSUME NEW o \in Docs \ {d} PROVE WritersOf(o)' = WritersOf(o)
  <2>1. \A e \in Clients : Holds(e, o)' <=> Holds(e, o)
    BY <1>3 DEF Holds
  <2> QED
    BY <2>1 DEF WritersOf
<1> QED
  BY <1>2, <1>5, <1>6 DEF Ends

\* The end of any other transaction is not.
LEMMA EndWithoutLock ==
    ASSUME TypeOK, NEW c \in Clients, tx[c].state # "locked", EndTx(c)
    PROVE  WritersSame
<1>1. tx'[c].state = "none" /\ \A e \in Clients \ {c} : tx'[e] = tx[e]
  BY DEF EndTx, TypeOK, NoTx
<1> QED
  BY <1>1, WritersStay DEF Holds

LEMMA SaveAdds ==
    ASSUME TypeOK, LockedRowsAreCurrent, NEW c \in Clients, NEW text \in Texts,
           NEW kind \in VersionKind, tx[c].state = "locked", SaveNewVersion(c, text, kind), EndTx(c)
    PROVE  OneDocumentStep
<1>1. tx[c].doc \in Docs
  BY DEF LockedRowsAreCurrent, LiveDocs
<1> PICK d \in Docs : d = tx[c].doc
  BY <1>1
<1> DEFINE r == [kind |-> kind, content |-> text, actor |-> ActorOf[c]]
           n == document[d].version + 1
<1>2. tx[c].row = document[d] /\ document[d].status = "live"
  BY DEF LockedRowsAreCurrent, LiveDocs, Live
<1>3. r \in WrittenRow /\ r.content = text /\ r.actor = ActorOf[c]
  BY DocumentsAssumption DEF WrittenRow, VersionRow, VersionKind
<1>33. Ends(d, ActorOf[c])
  BY EndOfWriting DEF Holds
<1>4. n \in VersionNumbers /\ versions' = [versions EXCEPT ![d][n] = r]
  BY <1>2 DEF SaveNewVersion, InsertVersion
<1>5. /\ versions'[d] = [versions[d] EXCEPT ![n] = r]
      /\ \A e \in Docs \ {d} : versions'[e] = versions[e]
  BY <1>4 DEF TypeOK
<1>6. document' = [document EXCEPT ![d].content = text, ![d].version = n]
  BY <1>2 DEF SaveNewVersion
<1>7. /\ document'[d].version = n /\ document'[d].content = text
      /\ document'[d].status = "live"
      /\ \A e \in Docs \ {d} : document'[e] = document[e]
  BY <1>2, <1>6 DEF TypeOK, DocumentRow
<1> HIDE DEF r
<1>8. Added(d, r)
  BY <1>2, <1>3, <1>4, <1>5, <1>7 DEF Added
<1>9. OthersSame(d)
  BY <1>5, <1>7 DEF OthersSame, Same
<1> QED
  BY <1>2, <1>3, <1>33, <1>8, <1>9 DEF OneDocumentStep, Live

\* Every step of the system is, for the snapshots, a step of at most one document.
LEMMA StepOfOneDocument == IInv /\ [Next]_vars => OneDocumentStep
<1> SUFFICES ASSUME IInv, [Next]_vars PROVE OneDocumentStep
  OBVIOUS
<1>0. TypeOK /\ LockedRowsAreCurrent /\ ExistingDocsHaveVersions /\ HistoryIsComplete
  BY DEF IInv
<1>00. ASSUME document' = document, versions' = versions,
              WritersSame \/ \E d \in Docs, a \in Actors : Begins(d, a) \/ Ends(d, a)
       PROVE  OneDocumentStep
  BY <1>00 DEF OneDocumentStep, Same
<1>01. ASSUME tx' = tx PROVE WritersSame
  BY <1>01, WritersStay DEF Holds
<1>02. ASSUME NEW c \in Clients, tx[c].state = "locked", EndTx(c)
       PROVE  \E d \in Docs, a \in Actors : Ends(d, a)
  BY <1>0, <1>02, EndOfWriting, DocumentsAssumption DEF Holds, LockedRowsAreCurrent, LiveDocs
<1>000. \A c \in Clients : tx[c].state = "locked" =>
          tx[c].doc \in Docs /\ document[tx[c].doc].status = "live"
                             /\ tx[c].row = document[tx[c].doc]
  BY <1>0 DEF LockedRowsAreCurrent, LiveDocs, Live
<1>1. ASSUME NEW c \in Clients, CountDocuments(c) PROVE OneDocumentStep
  <2>1. tx'[c].state # "locked" /\ \A e \in Clients \ {c} : tx'[e] = tx[e]
    BY <1>0, <1>1 DEF CountDocuments, TypeOK
  <2>2. WritersSame
    BY <1>1, <2>1, WritersStay DEF CountDocuments, Holds
  <2> QED
    BY <1>1, <2>2, <1>00 DEF CountDocuments
<1>2. ASSUME NEW c \in Clients, NEW d \in Docs, NEW p \in Paths, NEW text \in Contents,
             InsertDocument(c, d, p, text)
      PROVE  OneDocumentStep
  <2> DEFINE r == [kind |-> "checkpoint", content |-> text, actor |-> ActorOf[c]]
  <2>1. document[d].version = 0 /\ document[d].status = "absent"
    BY <1>0, <1>2 DEF InsertDocument, ExistingDocsHaveVersions
  <2>2. text \in Texts
    BY <1>2, CheckedTexts DEF InsertDocument
  <2>3. r \in WrittenRow /\ r.content = text
    BY <2>2, DocumentsAssumption DEF WrittenRow, VersionRow, VersionKind
  <2>4. 1 \in VersionNumbers /\ versions' = [versions EXCEPT ![d][1] = r]
    BY <1>2 DEF InsertDocument, InsertVersion
  <2>5. /\ versions'[d] = [versions[d] EXCEPT ![1] = r]
        /\ \A e \in Docs \ {d} : versions'[e] = versions[e]
    BY <1>0, <2>4 DEF TypeOK
  <2>6. /\ document'[d].version = 1 /\ document'[d].content = text
        /\ document'[d].status = "live"
        /\ \A e \in Docs \ {d} : document'[e] = document[e]
    BY <1>0, <1>2 DEF InsertDocument, TypeOK
  <2> HIDE DEF r
  <2>7. Added(d, r)
    BY <2>1, <2>3, <2>4, <2>5, <2>6 DEF Added
  <2>8. OthersSame(d)
    BY <2>5, <2>6 DEF OthersSame, Same
  <2>9. WritersSame
    BY <1>0, <1>2, EndWithoutLock DEF InsertDocument
  <2> QED
    BY <2>1, <2>3, <2>7, <2>8, <2>9 DEF OneDocumentStep, Live
<1>3. ASSUME NEW c \in Clients, NEW d \in Docs, ReadDocument(c, d) PROVE OneDocumentStep
  BY <1>3, <1>00, <1>01 DEF ReadDocument
<1>4. ASSUME NEW c \in Clients, NEW d \in Docs, LockDocument(c, d) PROVE OneDocumentStep
  <2>1. tx'[c].state = "locked" /\ tx'[c].doc = d /\ \A e \in Clients \ {c} : tx'[e] = tx[e]
    BY <1>0, <1>4 DEF LockDocument, TypeOK
  <2>2. \A e \in Clients : ~ Holds(e, d) /\ (Holds(e, d)' <=> e = c)
    BY <1>4, <2>1 DEF LockDocument, RowIsFree, Holds
  <2>3. WritersOf(d) = {} /\ WritersOf(d)' = {ActorOf[c]}
    BY <2>2 DEF WritersOf
  <2>4. ASSUME NEW o \in Docs \ {d} PROVE WritersOf(o)' = WritersOf(o)
    <3>1. \A e \in Clients : Holds(e, o)' <=> Holds(e, o)
      BY <1>4, <2>1 DEF LockDocument, Holds
    <3> QED
      BY <3>1 DEF WritersOf
  <2>5. Begins(d, ActorOf[c])
    BY <1>4, <2>3, <2>4 DEF LockDocument, Begins
  <2> QED
    BY <1>4, <1>00, <2>5, DocumentsAssumption DEF LockDocument
<1>5. ASSUME NEW c \in Clients, NEW text \in Contents, NEW kind \in VersionKind,
             UpdateAsNewVersion(c, text, kind)
      PROVE  OneDocumentStep
  <2>1. text \in Texts
    BY <1>5, CheckedTexts DEF UpdateAsNewVersion, SaveNewVersion
  <2> QED
    BY <1>0, <1>5, <2>1, SaveAdds DEF UpdateAsNewVersion, HoldsCurrentVersion
<1>6. ASSUME NEW c \in Clients, NEW text \in Contents, NEW kind \in VersionKind,
             UpdateCoalesced(c, text, kind)
      PROVE  OneDocumentStep
  <2>1. text \in Texts /\ tx[c].state = "locked"
    BY <1>6, CheckedTexts DEF UpdateCoalesced, HoldsCurrentVersion
  <2> PICK d \in Docs : d = tx[c].doc
    BY <1>000, <2>1
  <2> DEFINE n == document[d].version
  <2>2. document[d].status = "live" /\ n \in VersionNumbers
    BY <1>0, <1>000, <2>1, DocumentsAssumption
       DEF ExistingDocsHaveVersions, TypeOK, DocumentRow, VersionNumbers
  <2>3. LatestVersion(d) = n
    BY <1>0, <2>2, LatestIsCurrent DEF VersionNumbers
  <2>4. /\ versions[d][n].kind = "autosave" /\ versions[d][n].actor = ActorOf[c]
        /\ versions' = [versions EXCEPT ![d][n].content = text]
    BY <1>6, <2>3 DEF UpdateCoalesced, AmendLatestVersion, Coalesces
  <2>5. /\ versions'[d] = [versions[d] EXCEPT ![n].content = text]
        /\ \A e \in Docs \ {d} : versions'[e] = versions[e]
    BY <1>0, <2>4 DEF TypeOK
  <2>6. /\ document'[d].version = n /\ document'[d].content = text
        /\ document'[d].status = "live"
        /\ \A e \in Docs \ {d} : document'[e] = document[e]
    BY <1>0, <1>6, <2>2 DEF UpdateCoalesced, TypeOK, DocumentRow
  <2>7. Amended(d, text)
    BY <2>2, <2>4, <2>5, <2>6 DEF Amended, Live
  <2>8. OthersSame(d)
    BY <2>5, <2>6 DEF OthersSame, Same
  <2>9. Ends(d, versions[d][n].actor)
    BY <1>0, <1>6, <2>1, <2>4, EndOfWriting DEF UpdateCoalesced, Holds
  <2> QED
    BY <2>1, <2>7, <2>8, <2>9 DEF OneDocumentStep
<1>7. ASSUME NEW c \in Clients, UpdateConflict(c) PROVE OneDocumentStep
  BY <1>7, <1>00, <1>02 DEF UpdateConflict
<1>8. ASSUME NEW c \in Clients, NEW section \in Sections, AppendToDocument(c, section)
      PROVE  OneDocumentStep
  <2>1. Append(tx[c].row.content, section) \in Texts
    BY <1>0, <1>000, <1>8, CheckedTexts
       DEF AppendToDocument, SaveNewVersion, TypeOK, DocumentRow
  <2> QED
    BY <1>0, <1>8, <2>1, SaveAdds DEF AppendToDocument, VersionKind
<1>9. ASSUME NEW c \in Clients, NEW v \in VersionNumbers, RestoreVersion(c, v)
      PROVE  OneDocumentStep
  <2>1. versions[tx[c].doc][v].content \in Texts
    BY <1>0, <1>000, <1>9 DEF RestoreVersion, TypeOK, VersionRow
  <2> QED
    BY <1>0, <1>9, <2>1, SaveAdds DEF RestoreVersion, VersionKind
<1>10. ASSUME NEW c \in Clients, NEW p \in Paths, MoveDocument(c, p) PROVE OneDocumentStep
  <2>1. \A d \in Docs : Same(d)
    BY <1>0, <1>10 DEF MoveDocument, TypeOK, DocumentRow, Same
  <2>2. \E d \in Docs, a \in Actors : Ends(d, a)
    BY <1>10, <1>02 DEF MoveDocument
  <2> QED
    BY <2>1, <2>2 DEF OneDocumentStep
<1>11. ASSUME NEW c \in Clients, DeleteDocument(c) PROVE OneDocumentStep
  <2> PICK d \in Docs : d = tx[c].doc
    BY <1>000, <1>11 DEF DeleteDocument
  <2>1. document[d].status = "live" /\ document' = [document EXCEPT ![d].status = "deleted"]
    BY <1>000, <1>11 DEF DeleteDocument
  <2>2. Toggled(d)
    BY <1>0, <1>11, <2>1 DEF DeleteDocument, Toggled, TypeOK, DocumentRow
  <2>3. OthersSame(d)
    BY <1>0, <1>11, <2>1 DEF DeleteDocument, OthersSame, Same, TypeOK
  <2>4. Ends(d, ActorOf[c]) /\ ActorOf[c] \in Actors
    BY <1>0, <1>11, EndOfWriting, DocumentsAssumption DEF DeleteDocument, Holds
  <2> QED
    BY <2>1, <2>2, <2>3, <2>4 DEF OneDocumentStep, Live
<1>12. ASSUME NEW c \in Clients, NEW d \in Docs, UndeleteDocument(c, d) PROVE OneDocumentStep
  <2>1. Toggled(d)
    BY <1>0, <1>12 DEF UndeleteDocument, Toggled, TypeOK, DocumentRow
  <2>2. OthersSame(d)
    BY <1>0, <1>12 DEF UndeleteDocument, OthersSame, Same, TypeOK
  <2>3. WritersSame /\ ~ Live(d)
    BY <1>12, <1>01 DEF UndeleteDocument, Live
  <2> QED
    BY <2>1, <2>2, <2>3 DEF OneDocumentStep
<1>13. ASSUME NEW c \in Clients, Rollback(c) PROVE OneDocumentStep
  <2>1. WritersSame \/ \E d \in Docs, a \in Actors : Ends(d, a)
    BY <1>0, <1>13, <1>02, EndWithoutLock DEF Rollback
  <2> QED
    BY <1>13, <1>00, <2>1 DEF Rollback
<1>14. ASSUME NEW d \in Docs, DebounceElapses(d) PROVE OneDocumentStep
  BY <1>14, <1>00, <1>01 DEF DebounceElapses
<1>15. CASE UNCHANGED vars
  BY <1>15, <1>00, <1>01 DEF vars
<1> QED
  BY <1>1, <1>2, <1>3, <1>4, <1>5, <1>6, <1>7, <1>8, <1>9, <1>10, <1>11, <1>12, <1>13,
     <1>14, <1>15 DEF Next

----------------------------------------------------------------------------
(* The history of snapshots *)

\* The part of IInv about the history of one document.
HistoryOf(d) ==
    /\ \A v \in VersionNumbers : Exists(d, v) <=> v <= document[d].version
    /\ document[d].version > 0 => document[d].content = versions[d][document[d].version].content
    /\ (document[d].status = "absent") <=> (document[d].version = 0)

LEMMA HistoryByDocument ==
    (ExistingDocsHaveVersions /\ HistoryIsComplete) <=> \A d \in Docs : HistoryOf(d)
BY DEF ExistingDocsHaveVersions, HistoryIsComplete, HistoryOf

LEMMA HistoryStep == IInv /\ [Next]_vars => \A d \in Docs : HistoryOf(d)'
<1> SUFFICES ASSUME IInv, OneDocumentStep, NEW d \in Docs PROVE HistoryOf(d)'
  BY StepOfOneDocument
<1>1. TypeOK /\ HistoryOf(d)
  BY HistoryByDocument DEF IInv
<1>2. CASE Same(d)
  BY <1>1, <1>2 DEF Same, HistoryOf, Exists
<1>3. CASE \E r \in WrittenRow : Added(d, r)
  <2> PICK r \in WrittenRow : Added(d, r)
    BY <1>3
  <2> DEFINE n == document[d].version + 1
  <2>1. n \in VersionNumbers /\ document[d].version \in Nat /\ r.kind # "none"
    BY <1>1 DEF Added, TypeOK, DocumentRow, WrittenRow
  <2>2. /\ versions'[d][n] = r
        /\ \A v \in VersionNumbers \ {n} : versions'[d][v] = versions[d][v]
    BY <1>1, <2>1 DEF Added, TypeOK
  <2>3. document'[d].version = n /\ document'[d].content = r.content
        /\ document'[d].status = "live"
    BY DEF Added
  <2>4. \A v \in VersionNumbers : Exists(d, v)' <=> v <= n
    BY <1>1, <2>1, <2>2 DEF HistoryOf, Exists, VersionNumbers
  <2> QED
    BY <2>1, <2>2, <2>3, <2>4 DEF HistoryOf
<1>4. CASE \E t \in Texts : Amended(d, t)
  <2> PICK t \in Texts : Amended(d, t)
    BY <1>4
  <2> DEFINE n == document[d].version
  <2>0. n \in VersionNumbers /\ versions[d][n] \in VersionRow
    BY <1>1 DEF Amended, TypeOK
  <2>1. n > 0 /\ n = document'[d].version
    BY <2>0, DocumentsAssumption DEF Amended, VersionNumbers
  <2>2. versions'[d][n] = [versions[d][n] EXCEPT !.content = t]
        /\ \A v \in VersionNumbers \ {n} : versions'[d][v] = versions[d][v]
    BY <1>1, <2>0 DEF Amended, TypeOK
  <2>3. versions'[d][n].kind = versions[d][n].kind /\ versions'[d][n].content = t
    BY <2>0, <2>2 DEF VersionRow
  <2>4. \A v \in VersionNumbers : Exists(d, v)' <=> v <= n
    BY <1>1, <2>1, <2>2, <2>3 DEF HistoryOf, Exists
  <2> QED
    BY <2>1, <2>3, <2>4, <1>1 DEF HistoryOf, Amended, Live
<1>5. CASE Toggled(d)
  BY <1>1, <1>5 DEF Toggled, HistoryOf, Exists
<1> QED
  BY <1>2, <1>3, <1>4, <1>5 DEF OneDocumentStep, OthersSame

LEMMA Invariance == Spec => []IInv
<1>1. Init => IInv
  <2> SUFFICES ASSUME Init PROVE IInv
    OBVIOUS
  <2>1. TypeOK /\ LockedRowsAreCurrent
    BY TypeInit DEF Init, LockedRowsAreCurrent, NoTx
  <2>2. \A d \in Docs : HistoryOf(d)
    BY DocumentsAssumption DEF Init, HistoryOf, Exists, NoRow, NoVersion, VersionNumbers
  <2> QED
    BY <2>1, <2>2, HistoryByDocument DEF IInv
<1>2. IInv /\ [Next]_vars => IInv'
  <2> SUFFICES ASSUME IInv, [Next]_vars PROVE IInv'
    OBVIOUS
  <2>1. TypeOK' /\ LockedRowsAreCurrent'
    BY TypeStep, LocksStep DEF IInv
  <2>2. \A d \in Docs : HistoryOf(d)'
    BY HistoryStep
  <2>3. ExistingDocsHaveVersions' /\ HistoryIsComplete'
    BY <2>2 DEF ExistingDocsHaveVersions, HistoryIsComplete, HistoryOf
  <2> QED
    BY <2>1, <2>3 DEF IInv
<1> QED
  BY <1>1, <1>2, PTL DEF Spec

\* Snapshots are numbered without a gap and the text shown is always the last of them,
\* however creations, saves, coalesced autosaves, appends, restores and rollbacks of any
\* number of clients interleave.
THEOREM HistoryComplete == Spec => []HistoryIsComplete
<1>1. IInv => HistoryIsComplete
  BY DEF IInv
<1> QED
  BY <1>1, Invariance, PTL
----------------------------------------------------------------------------
(* Action properties of the history *)

LEMMA AppendOnlyStep ==
    ASSUME TypeOK, OneDocumentStep, NEW d \in Docs, NEW v \in VersionNumbers,
           HistoryOf(d), Exists(d, v)
    PROVE  /\ versions'[d][v].kind = versions[d][v].kind
           /\ versions'[d][v].actor = versions[d][v].actor
           /\ versions'[d][v].content # versions[d][v].content =>
                /\ versions[d][v].kind = "autosave"
                /\ v = document[d].version
<1>1. CASE Same(d) \/ Toggled(d)
  BY <1>1 DEF Same, Toggled
<1>2. CASE \E r \in WrittenRow : Added(d, r)
  <2>1. v # document[d].version + 1 /\ document[d].version \in Nat
    BY DEF HistoryOf, TypeOK, DocumentRow, VersionNumbers
  <2>2. versions'[d][v] = versions[d][v]
    BY <1>2, <2>1 DEF Added, TypeOK
  <2> QED
    BY <2>2
<1>3. CASE \E t \in Texts : Amended(d, t)
  <2> PICK t \in Texts : Amended(d, t)
    BY <1>3
  <2>1. CASE v = document[d].version
    <3>1. versions[d][v] \in VersionRow
      BY DEF TypeOK
    <3>2. versions'[d][v] = [versions[d][v] EXCEPT !.content = t]
      BY <2>1 DEF Amended, TypeOK
    <3>3. versions'[d][v].kind = versions[d][v].kind /\ versions'[d][v].actor = versions[d][v].actor
      BY <3>1, <3>2 DEF VersionRow
    <3> QED
      BY <2>1, <3>3 DEF Amended
  <2>2. CASE v # document[d].version
    <3>1. versions'[d][v] = versions[d][v]
      BY <2>2 DEF Amended, TypeOK
    <3> QED
      BY <3>1
  <2> QED
    BY <2>1, <2>2
<1> QED
  BY <1>1, <1>2, <1>3 DEF OneDocumentStep, OthersSame

\* No write, of whatever client, changes a snapshot that is a checkpoint or that a
\* later one follows, and none changes who made a snapshot and as what kind.
HistoryIsAppendOnly ==
    [][\A d \in Docs, v \in VersionNumbers :
         Exists(d, v) =>
           /\ versions'[d][v].kind = versions[d][v].kind
           /\ versions'[d][v].actor = versions[d][v].actor
           /\ versions'[d][v].content # versions[d][v].content =>
                /\ versions[d][v].kind = "autosave"
                /\ v = document[d].version]_vars

\* No step of any client rewrites a checkpoint, or a snapshot that a later one follows,
\* or who made a snapshot and as what kind.
THEOREM HistoryAppendOnly == Spec => HistoryIsAppendOnly
<1> DEFINE A == \A d \in Docs, v \in VersionNumbers :
                  Exists(d, v) =>
                    /\ versions'[d][v].kind = versions[d][v].kind
                    /\ versions'[d][v].actor = versions[d][v].actor
                    /\ versions'[d][v].content # versions[d][v].content =>
                         /\ versions[d][v].kind = "autosave"
                         /\ v = document[d].version
<1>1. IInv /\ [Next]_vars => A
  BY StepOfOneDocument, AppendOnlyStep, HistoryByDocument DEF IInv
<1> QED
  BY <1>1, Invariance, PTL DEF Spec, HistoryIsAppendOnly

\* An append that commits adds to the text as it is at that moment: the row lock makes
\* its earlier copy of the text a current one.
THEOREM AppendsKeepEverything == Spec => AppendsLoseNothing
<1> DEFINE A == \A c \in Clients, section \in Sections :
                  AppendToDocument(c, section) =>
                    document'[tx[c].doc].content =
                      Append(document[tx[c].doc].content, section)
<1>1. IInv /\ [Next]_vars => A
  <2> SUFFICES ASSUME IInv, NEW c \in Clients, NEW section \in Sections,
                      AppendToDocument(c, section)
               PROVE  document'[tx[c].doc].content = Append(document[tx[c].doc].content, section)
    OBVIOUS
  <2>1. tx[c].doc \in Docs /\ tx[c].row = document[tx[c].doc]
    BY DEF IInv, AppendToDocument, LockedRowsAreCurrent, LiveDocs
  <2> QED
    BY <2>1 DEF IInv, AppendToDocument, SaveNewVersion, TypeOK, DocumentRow
<1> QED
  BY <1>1, Invariance, PTL DEF Spec, AppendsLoseNothing

----------------------------------------------------------------------------
(* The copies clients edit *)

\* Strengthening of CheckpointBasesAreExact: the version a client holds is a number.
BasesAreNumbered == \A c \in Clients : base[c].doc # NoDoc => base[c].version \in VersionNumbers

BaseInv == BasesAreNumbered /\ CheckpointBasesAreExact

\* A step leaves a client's copy alone or leaves it equal to the current text.
LEMMA FreshBases ==
    ASSUME IInv, [Next]_vars, NEW c \in Clients, base'[c] # base[c]
    PROVE  \E d \in Docs : /\ document'[d].status = "live"
                           /\ base'[c].doc = d
                           /\ base'[c].version = document'[d].version
                           /\ base'[c].content = document'[d].content
<1>0. TypeOK /\ LockedRowsAreCurrent
  BY DEF IInv
<1>1. \A e \in Clients : tx[e].state = "locked" =>
          tx[e].doc \in Docs /\ document[tx[e].doc].status = "live"
                             /\ tx[e].row = document[tx[e].doc]
  BY <1>0 DEF LockedRowsAreCurrent, LiveDocs, Live
<1>2. ASSUME NEW e \in Clients, NEW d \in Docs, ReadDocument(e, d)
      PROVE  /\ document'[d].status = "live" /\ base'[c].doc = d
             /\ base'[c].version = document'[d].version
             /\ base'[c].content = document'[d].content
  <2>1. e = c /\ document' = document /\ document[d].status = "live" /\ base'[c] = CopyOf(d)
    BY <1>0, <1>2 DEF ReadDocument, TypeOK, Live
  <2>2. /\ CopyOf(d).doc = d /\ CopyOf(d).version = document[d].version
        /\ CopyOf(d).content = document[d].content
    BY DEF CopyOf
  <2> QED
    BY <2>1, <2>2
<1>3. CASE \E e \in Clients, d \in Docs : ReadDocument(e, d)
  BY <1>2, <1>3
<1>4. ASSUME NEW e \in Clients, NEW text \in Contents, NEW kind \in VersionKind,
             UpdateAsNewVersion(e, text, kind)
      PROVE  \E d \in Docs : /\ document'[d].status = "live" /\ base'[c].doc = d
                             /\ base'[c].version = document'[d].version
                             /\ base'[c].content = document'[d].content
  <2>1. e = c
    BY <1>0, <1>4 DEF UpdateAsNewVersion, TypeOK
  <2>2. base[c].doc = tx[c].doc /\ tx[c].doc \in Docs /\ document[tx[c].doc].status = "live"
    BY <1>1, <1>4, <2>1 DEF UpdateAsNewVersion, HoldsCurrentVersion
  <2>3. /\ base'[c].doc = base[c].doc /\ base'[c].version = tx[c].row.version + 1
        /\ base'[c].content = text
    BY <1>0, <1>4, <2>1 DEF UpdateAsNewVersion, TypeOK, Copy
  <2>4. /\ document'[tx[c].doc].version = tx[c].row.version + 1
        /\ document'[tx[c].doc].content = text
        /\ document'[tx[c].doc].status = "live"
    BY <1>0, <1>4, <2>1, <2>2 DEF UpdateAsNewVersion, SaveNewVersion, TypeOK, DocumentRow
  <2> QED
    BY <2>2, <2>3, <2>4
<1>5. ASSUME NEW e \in Clients, NEW text \in Contents, NEW kind \in VersionKind,
             UpdateCoalesced(e, text, kind)
      PROVE  \E d \in Docs : /\ document'[d].status = "live" /\ base'[c].doc = d
                             /\ base'[c].version = document'[d].version
                             /\ base'[c].content = document'[d].content
  <2>1. e = c
    BY <1>0, <1>5 DEF UpdateCoalesced, TypeOK
  <2>2. /\ base[c].doc = tx[c].doc /\ tx[c].doc \in Docs /\ document[tx[c].doc].status = "live"
        /\ base[c].version = document[tx[c].doc].version
    BY <1>1, <1>5, <2>1 DEF UpdateCoalesced, HoldsCurrentVersion
  <2>3. /\ base'[c].doc = base[c].doc /\ base'[c].version = base[c].version
        /\ base'[c].content = text
    BY <1>0, <1>5, <2>1 DEF UpdateCoalesced, TypeOK, Copy
  <2>4. /\ document'[tx[c].doc].version = document[tx[c].doc].version
        /\ document'[tx[c].doc].content = text
        /\ document'[tx[c].doc].status = "live"
    BY <1>0, <1>5, <2>1, <2>2 DEF UpdateCoalesced, TypeOK, DocumentRow
  <2> QED
    BY <2>2, <2>3, <2>4
<1>6. ASSUME NEW e \in Clients, UpdateConflict(e)
      PROVE  \E d \in Docs : /\ document'[d].status = "live" /\ base'[c].doc = d
                             /\ base'[c].version = document'[d].version
                             /\ base'[c].content = document'[d].content
  <2>1. e = c /\ document' = document
    BY <1>0, <1>6 DEF UpdateConflict, TypeOK
  <2>2. /\ base[c].doc = tx[c].doc /\ tx[c].doc \in Docs /\ document[tx[c].doc].status = "live"
        /\ tx[c].row = document[tx[c].doc]
    BY <1>1, <1>6, <2>1 DEF UpdateConflict
  <2>3. /\ base'[c].doc = base[c].doc /\ base'[c].version = tx[c].row.version
        /\ base'[c].content = tx[c].row.content
    BY <1>0, <1>6, <2>1 DEF UpdateConflict, TypeOK, Copy
  <2> QED
    BY <2>1, <2>2, <2>3
<1>7. \/ \E e \in Clients, d \in Docs : ReadDocument(e, d)
      \/ \E e \in Clients, text \in Contents, kind \in VersionKind :
            UpdateAsNewVersion(e, text, kind) \/ UpdateCoalesced(e, text, kind)
      \/ \E e \in Clients : UpdateConflict(e)
  BY DEF Next, vars, CountDocuments, InsertDocument, LockDocument, AppendToDocument,
         RestoreVersion, MoveDocument, DeleteDocument, UndeleteDocument, Rollback, DebounceElapses
<1> QED
  BY <1>3, <1>4, <1>5, <1>6, <1>7

LEMMA BaseStep == IInv /\ IInv' /\ BaseInv /\ [Next]_vars => BaseInv'
<1> SUFFICES ASSUME IInv, IInv', BaseInv, [Next]_vars, NEW c \in Clients, base'[c].doc # NoDoc
             PROVE  /\ base'[c].version \in VersionNumbers
                    /\ versions'[base'[c].doc][base'[c].version].kind # "none"
                    /\ versions'[base'[c].doc][base'[c].version].kind = "checkpoint" =>
                         base'[c].content = versions'[base'[c].doc][base'[c].version].content
  BY DEF BaseInv, BasesAreNumbered, CheckpointBasesAreExact, Exists
<1>1. CASE base'[c] = base[c]
  <2> DEFINE d == base[c].doc
             v == base[c].version
  <2>1. d \in Docs /\ v \in VersionNumbers /\ Exists(d, v)
    BY <1>1 DEF IInv, TypeOK, Copy, BaseInv, BasesAreNumbered, CheckpointBasesAreExact
  <2>2. versions[d][v].kind = "checkpoint" => base[c].content = versions[d][v].content
    BY <1>1 DEF BaseInv, CheckpointBasesAreExact
  <2>3. TypeOK /\ OneDocumentStep /\ HistoryOf(d)
    BY <2>1, StepOfOneDocument, HistoryByDocument DEF IInv
  <2>4. /\ versions'[d][v].kind = versions[d][v].kind
        /\ versions'[d][v].content # versions[d][v].content => versions[d][v].kind = "autosave"
    BY <2>1, <2>3, AppendOnlyStep
  <2> QED
    BY <1>1, <2>1, <2>2, <2>4 DEF Exists
<1>2. CASE base'[c] # base[c]
  <2> PICK d \in Docs : /\ document'[d].status = "live" /\ base'[c].doc = d
                        /\ base'[c].version = document'[d].version
                        /\ base'[c].content = document'[d].content
    BY <1>2, FreshBases
  <2>1. document'[d].version \in VersionNumbers
    BY DocumentsAssumption
       DEF IInv, TypeOK, DocumentRow, ExistingDocsHaveVersions, VersionNumbers
  <2>2. versions'[d][document'[d].version].kind # "none"
    BY <2>1, DocumentsAssumption DEF IInv, HistoryIsComplete, Exists, VersionNumbers
  <2>3. document'[d].content = versions'[d][document'[d].version].content
    BY <2>1, DocumentsAssumption DEF IInv, HistoryIsComplete, VersionNumbers
  <2> QED
    BY <2>1, <2>2, <2>3
<1> QED
  BY <1>1, <1>2

LEMMA BaseInvariance == Spec => [](IInv /\ BaseInv)
<1>1. Init => BaseInv
  BY DEF Init, BaseInv, BasesAreNumbered, CheckpointBasesAreExact, NoCopy
<1> QED
  BY <1>1, BaseStep, Invariance, PTL DEF Spec

\* A client that holds a checkpoint's number holds that checkpoint's text: the base text
\* a conflict reply carries is the text the client started from.
THEOREM CheckpointBases == Spec => []CheckpointBasesAreExact
<1>1. BaseInv => CheckpointBasesAreExact
  BY DEF BaseInv
<1> QED
  BY <1>1, BaseInvariance, PTL

\* Optimistic concurrency works for checkpoints: an accepted save of a client that started
\* from one replaces exactly the text it started from.
THEOREM SavesOverCheckpoints == Spec => SavesOverCheckpointsLoseNothing
<1> DEFINE A == \A c \in Clients, text \in Contents, kind \in VersionKind :
                  /\ UpdateDocument(c, text, kind)
                  /\ versions[base[c].doc][base[c].version].kind = "checkpoint"
                  => document[base[c].doc].content = base[c].content
<1>1. IInv /\ BaseInv /\ [Next]_vars => A
  <2> SUFFICES ASSUME IInv, BaseInv,
                      NEW c \in Clients, NEW text \in Contents, NEW kind \in VersionKind,
                      UpdateDocument(c, text, kind),
                      versions[base[c].doc][base[c].version].kind = "checkpoint"
               PROVE  document[base[c].doc].content = base[c].content
    OBVIOUS
  <2>1. HoldsCurrentVersion(c)
    BY DEF UpdateDocument, UpdateAsNewVersion, UpdateCoalesced
  <2>2. base[c].doc \in Docs /\ base[c].version = document[base[c].doc].version
    BY <2>1 DEF HoldsCurrentVersion, IInv, LockedRowsAreCurrent, LiveDocs
  <2>3. base[c].content = versions[base[c].doc][base[c].version].content
        /\ base[c].version \in VersionNumbers
    BY <2>2, DocumentsAssumption DEF BaseInv, BasesAreNumbered, CheckpointBasesAreExact
  <2> QED
    BY <2>2, <2>3, DocumentsAssumption DEF IInv, HistoryIsComplete, VersionNumbers
<1> QED
  BY <1>1, BaseInvariance, PTL DEF Spec, SavesOverCheckpointsLoseNothing
----------------------------------------------------------------------------
(* The search index *)

\* What one write does to the chunks of a document: nothing, as long as its text and
\* status stay; or it re-chunks the text now live; or it drops them with the document.
ChunksFollow(d) ==
    \/ chunks'[d] = chunks[d] /\ document'[d].status = document[d].status
                              /\ document'[d].content = document[d].content
    \/ /\ document'[d].status = "live"
       /\ chunks'[d] = Reindexed(chunks[d], document'[d].content)
    \/ document'[d].status # "live" /\ chunks'[d] = <<>>

LEMMA SaveReindexes ==
    ASSUME TypeOK, NEW c \in Clients, NEW text, NEW kind, tx[c].doc \in Docs,
           document[tx[c].doc].status = "live", SaveNewVersion(c, text, kind), NEW d \in Docs
    PROVE  ChunksFollow(d)
<1>1. CASE d = tx[c].doc
  <2>1. /\ document'[d].status = "live" /\ document'[d].content = text
        /\ chunks'[d] = Reindexed(chunks[d], text)
    BY <1>1 DEF SaveNewVersion, TypeOK, DocumentRow
  <2> QED
    BY <2>1 DEF ChunksFollow
<1>2. CASE d # tx[c].doc
  <2>1. document'[d] = document[d] /\ chunks'[d] = chunks[d]
    BY <1>2 DEF SaveNewVersion, TypeOK
  <2> QED
    BY <2>1 DEF ChunksFollow
<1> QED
  BY <1>1, <1>2

LEMMA ChunksStep == TypeOK /\ LockedRowsAreCurrent /\ [Next]_vars => \A d \in Docs : ChunksFollow(d)
<1> SUFFICES ASSUME TypeOK, LockedRowsAreCurrent, [Next]_vars, NEW d \in Docs
             PROVE  ChunksFollow(d)
  OBVIOUS
<1>0. \A c \in Clients : tx[c].state = "locked" =>
          tx[c].doc \in Docs /\ document[tx[c].doc].status = "live"
  BY DEF LockedRowsAreCurrent, LiveDocs, Live
<1>00. ASSUME document' = document, chunks' = chunks PROVE ChunksFollow(d)
  BY <1>00 DEF ChunksFollow
<1>1. ASSUME NEW c \in Clients, CountDocuments(c) PROVE ChunksFollow(d)
  BY <1>1, <1>00 DEF CountDocuments
<1>2. ASSUME NEW c \in Clients, NEW e \in Docs, NEW p \in Paths, NEW text \in Contents,
             InsertDocument(c, e, p, text)
      PROVE  ChunksFollow(d)
  <2>1. \/ /\ document'[d].status = "live" /\ document'[d].content = text
           /\ chunks'[d] = Reindexed(chunks[d], text)
        \/ document'[d] = document[d] /\ chunks'[d] = chunks[d]
    BY <1>2 DEF InsertDocument, TypeOK
  <2> QED
    BY <2>1 DEF ChunksFollow
<1>3. ASSUME NEW c \in Clients, NEW e \in Docs, ReadDocument(c, e) PROVE ChunksFollow(d)
  BY <1>3, <1>00 DEF ReadDocument
<1>4. ASSUME NEW c \in Clients, NEW e \in Docs, LockDocument(c, e) PROVE ChunksFollow(d)
  BY <1>4, <1>00 DEF LockDocument
<1>5. ASSUME NEW c \in Clients, NEW text \in Contents, NEW kind \in VersionKind,
             UpdateAsNewVersion(c, text, kind)
      PROVE  ChunksFollow(d)
  BY <1>0, <1>5, SaveReindexes DEF UpdateAsNewVersion, HoldsCurrentVersion
<1>6. ASSUME NEW c \in Clients, NEW text \in Contents, NEW kind \in VersionKind,
             UpdateCoalesced(c, text, kind)
      PROVE  ChunksFollow(d)
  <2>1. tx[c].doc \in Docs /\ document[tx[c].doc].status = "live"
    BY <1>0, <1>6 DEF UpdateCoalesced, HoldsCurrentVersion
  <2>2. \/ /\ document'[d].status = "live" /\ document'[d].content = text
           /\ chunks'[d] = Reindexed(chunks[d], text)
        \/ document'[d] = document[d] /\ chunks'[d] = chunks[d]
    BY <1>6, <2>1 DEF UpdateCoalesced, TypeOK, DocumentRow
  <2> QED
    BY <2>2 DEF ChunksFollow
<1>7. ASSUME NEW c \in Clients, UpdateConflict(c) PROVE ChunksFollow(d)
  BY <1>7, <1>00 DEF UpdateConflict
<1>8. ASSUME NEW c \in Clients, NEW section \in Sections, AppendToDocument(c, section)
      PROVE  ChunksFollow(d)
  BY <1>0, <1>8, SaveReindexes DEF AppendToDocument
<1>9. ASSUME NEW c \in Clients, NEW v \in VersionNumbers, RestoreVersion(c, v)
      PROVE  ChunksFollow(d)
  BY <1>0, <1>9, SaveReindexes DEF RestoreVersion
<1>10. ASSUME NEW c \in Clients, NEW p \in Paths, MoveDocument(c, p) PROVE ChunksFollow(d)
  <2>1. /\ document'[d].status = document[d].status /\ document'[d].content = document[d].content
        /\ chunks'[d] = chunks[d]
    BY <1>10 DEF MoveDocument, TypeOK, DocumentRow
  <2> QED
    BY <2>1 DEF ChunksFollow
<1>11. ASSUME NEW c \in Clients, DeleteDocument(c) PROVE ChunksFollow(d)
  <2>1. tx[c].doc \in Docs
    BY <1>0, <1>11 DEF DeleteDocument
  <2>2. \/ document'[d].status = "deleted" /\ chunks'[d] = <<>>
        \/ document'[d] = document[d] /\ chunks'[d] = chunks[d]
    BY <1>11, <2>1 DEF DeleteDocument, TypeOK, DocumentRow
  <2> QED
    BY <2>2 DEF ChunksFollow
<1>12. ASSUME NEW c \in Clients, NEW e \in Docs, UndeleteDocument(c, e) PROVE ChunksFollow(d)
  <2>1. \/ /\ document'[d].status = "live" /\ document'[d].content = document[d].content
           /\ chunks'[d] = Reindexed(chunks[d], document[d].content)
        \/ document'[d] = document[d] /\ chunks'[d] = chunks[d]
    BY <1>12 DEF UndeleteDocument, TypeOK, DocumentRow
  <2> QED
    BY <2>1 DEF ChunksFollow
<1>13. ASSUME NEW c \in Clients, Rollback(c) PROVE ChunksFollow(d)
  BY <1>13, <1>00 DEF Rollback
<1>14. ASSUME NEW e \in Docs, DebounceElapses(e) PROVE ChunksFollow(d)
  BY <1>14, <1>00 DEF DebounceElapses
<1>15. CASE UNCHANGED vars
  BY <1>15, <1>00 DEF vars
<1> QED
  BY <1>1, <1>2, <1>3, <1>4, <1>5, <1>6, <1>7, <1>8, <1>9, <1>10, <1>11, <1>12, <1>13,
     <1>14, <1>15 DEF Next

LEMMA IndexStep == TypeOK /\ TypeOK' /\ LockedRowsAreCurrent /\ IndexMatchesText /\ [Next]_vars
                   => IndexMatchesText'
<1> SUFFICES ASSUME TypeOK, TypeOK', LockedRowsAreCurrent, IndexMatchesText, [Next]_vars,
                    NEW d \in Docs
             PROVE  [i \in DOMAIN chunks'[d] |-> chunks'[d][i].content] =
                      IF document'[d].status = "live" THEN document'[d].content ELSE <<>>
  BY DEF IndexMatchesText, Live
<1>1. ChunksFollow(d)
  BY ChunksStep
<1>2. CASE chunks'[d] = chunks[d] /\ document'[d].status = document[d].status
                                  /\ document'[d].content = document[d].content
  BY <1>2 DEF IndexMatchesText, Live
<1>3. CASE /\ document'[d].status = "live"
           /\ chunks'[d] = Reindexed(chunks[d], document'[d].content)
  <2>1. chunks[d] \in Seq(ChunkRow) /\ document'[d].content \in Texts
    BY DEF TypeOK, DocumentRow
  <2> QED
    BY <1>3, <2>1, ReindexedMatches
<1>4. CASE document'[d].status # "live" /\ chunks'[d] = <<>>
  <2>1. [i \in DOMAIN <<>> |-> (<<>>)[i].content] = <<>>
    OBVIOUS
  <2> QED
    BY <1>4, <2>1
<1> QED
  BY <1>1, <1>2, <1>3, <1>4 DEF ChunksFollow

\* Search sees exactly the sections of the texts of live documents, whatever chunks the
\* incremental re-indexing kept along the way.
THEOREM IndexMatches == Spec => []IndexMatchesText
<1>1. Init => IndexMatchesText
  <2>1. [i \in DOMAIN <<>> |-> (<<>>)[i].content] = <<>>
    OBVIOUS
  <2> QED
    BY <2>1 DEF Init, IndexMatchesText, NoRow, Live
<1>2. IInv /\ IInv' /\ IndexMatchesText /\ [Next]_vars => IndexMatchesText'
  BY IndexStep DEF IInv
<1> QED
  BY <1>1, <1>2, Invariance, PTL DEF Spec

----------------------------------------------------------------------------
(* Documents implements DocHistory *)

SnapshotOf(r) == [content |-> r.content, kind |-> r.kind, actor |-> r.actor]

LEMMA SnapshotsOfDocument ==
    ASSUME TypeOK, NEW d \in Docs
    PROVE  /\ document[d].version \in Nat
           /\ DOMAIN SnapshotsOf(d) = 1..document[d].version
           /\ Len(SnapshotsOf(d)) = document[d].version
           /\ SnapshotsOf(d) \in Seq({SnapshotOf(versions[d][v]) : v \in 1..document[d].version})
           /\ \A v \in 1..document[d].version : SnapshotsOf(d)[v] = SnapshotOf(versions[d][v])
<1>1. document[d].version \in Nat
  BY DEF TypeOK, DocumentRow
<1> QED
  BY <1>1 DEF SnapshotsOf, SnapshotOf

LEMMA SameSnapshots ==
    ASSUME TypeOK, NEW d \in Docs, versions'[d] = versions[d],
           document'[d].version = document[d].version
    PROVE  SnapshotsOf(d)' = SnapshotsOf(d)
BY DEF SnapshotsOf

LEMMA AddedSnapshot ==
    ASSUME TypeOK, NEW d \in Docs, NEW r \in WrittenRow, Added(d, r)
    PROVE  SnapshotsOf(d)' = Append(SnapshotsOf(d), SnapshotOf(r))
<1> DEFINE n == document[d].version
           old == SnapshotsOf(d)
           new == [v \in 1..(n + 1) |-> SnapshotOf(versions'[d][v])]
<1>1. n \in Nat /\ n + 1 \in VersionNumbers /\ 1..(n + 1) \subseteq VersionNumbers
  BY DocumentsAssumption DEF TypeOK, DocumentRow, Added, VersionNumbers
<1>2. SnapshotsOf(d)' = new
  BY DEF SnapshotsOf, SnapshotOf, Added
<1>3. /\ versions'[d][n + 1] = r
      /\ \A v \in 1..n : versions'[d][v] = versions[d][v]
  BY <1>1 DEF TypeOK, Added
<1>4. Len(old) = n /\ \A v \in 1..n : old[v] = SnapshotOf(versions[d][v])
  BY SnapshotsOfDocument
<1>5. Append(old, SnapshotOf(r)) =
        [v \in 1..(n + 1) |-> IF v <= n THEN old[v] ELSE SnapshotOf(r)]
  <2> DEFINE S == {SnapshotOf(versions[d][v]) : v \in 1..n} \cup {SnapshotOf(r)}
             x == SnapshotOf(r)
  <2>0. \A v \in 1..n : SnapshotOf(versions[d][v]) \in S
    OBVIOUS
  <2>1. old \in Seq(S) /\ x \in S
    <3>1. old = [v \in 1..n |-> SnapshotOf(versions[d][v])]
      BY DEF SnapshotsOf, SnapshotOf
    <3> HIDE DEF S, old, n
    <3>2. old \in Seq(S)
      BY <1>1, <2>0, <3>1
    <3> QED
      BY <3>2 DEF S
  <2> HIDE DEF S, old, x
  <2>2. /\ Append(old, x) \in Seq(S) /\ Len(Append(old, x)) = n + 1
        /\ \A v \in 1..n : Append(old, x)[v] = old[v]
        /\ Append(old, x)[n + 1] = x
    BY <1>1, <1>4, <2>1, AppendProperties
  <2>3. DOMAIN Append(old, x) = 1..(n + 1)
    BY <1>1, <2>2
  <2>4. \A v \in 1..(n + 1) : Append(old, x)[v] = IF v <= n THEN old[v] ELSE x
    BY <1>1, <2>2
  <2>5. Append(old, x) = [v \in 1..(n + 1) |-> Append(old, x)[v]]
    <3>1. Append(old, x) \in [1..(n + 1) -> S]
      BY <2>2, LenProperties
    <3> HIDE DEF n
    <3> QED
      BY <3>1
  <2> QED
    BY <2>4, <2>5 DEF x
<1>6. \A v \in 1..(n + 1) :
        SnapshotOf(versions'[d][v]) = IF v <= n THEN old[v] ELSE SnapshotOf(r)
  <2> TAKE v \in 1..(n + 1)
  <2>1. CASE v <= n
    BY <1>1, <1>3, <1>4, <2>1
  <2>2. CASE v = n + 1
    BY <1>1, <1>3, <2>2
  <2> QED
    BY <1>1, <2>1, <2>2
<1> QED
  BY <1>2, <1>5, <1>6

LEMMA AmendedSnapshot ==
    ASSUME TypeOK, NEW d \in Docs, NEW t \in Texts, Amended(d, t)
    PROVE  SnapshotsOf(d)' = [SnapshotsOf(d) EXCEPT ![Len(SnapshotsOf(d))].content = t]
<1> DEFINE n == document[d].version
           old == SnapshotsOf(d)
<1>1. n \in Nat /\ n \in VersionNumbers /\ 1..n \subseteq VersionNumbers /\ n \in 1..n
  BY DocumentsAssumption DEF TypeOK, DocumentRow, Amended, VersionNumbers
<1>2. SnapshotsOf(d)' = [v \in 1..n |-> SnapshotOf(versions'[d][v])]
  BY DEF SnapshotsOf, SnapshotOf, Amended
<1>3. /\ versions'[d][n] = [versions[d][n] EXCEPT !.content = t]
      /\ \A v \in VersionNumbers \ {n} : versions'[d][v] = versions[d][v]
      /\ versions[d][n] \in VersionRow
  <2>1. versions[d] \in [VersionNumbers -> VersionRow]
    BY DEF TypeOK
  <2>2. versions'[d] = [versions[d] EXCEPT ![n].content = t]
    BY DEF Amended
  <2> QED
    BY <1>1, <2>1, <2>2
<1>4. SnapshotOf(versions'[d][n]) = [SnapshotOf(versions[d][n]) EXCEPT !.content = t]
  BY <1>3 DEF SnapshotOf, VersionRow
<1>5. old = [v \in 1..n |-> SnapshotOf(versions[d][v])] /\ Len(old) = n
  BY SnapshotsOfDocument DEF SnapshotsOf, SnapshotOf
<1>6. [old EXCEPT ![n].content = t] =
        [v \in 1..n |-> IF v = n THEN [SnapshotOf(versions[d][n]) EXCEPT !.content = t]
                                 ELSE SnapshotOf(versions[d][v])]
  BY <1>1, <1>5
<1>7. \A v \in 1..n : SnapshotOf(versions'[d][v]) =
        IF v = n THEN [SnapshotOf(versions[d][n]) EXCEPT !.content = t]
                 ELSE SnapshotOf(versions[d][v])
  BY <1>1, <1>3, <1>4
<1> QED
  BY <1>2, <1>5, <1>6, <1>7

\* The refinement mapping.
Histories == [d \in Docs |-> SnapshotsOf(d)]
Visibles == [d \in Docs |-> Live(d)]
ShownTexts == [d \in Docs |-> document[d].content]
Writers == [d \in Docs |-> WritersOf(d)]

LEMMA InitImplements == Init => History!Init
<1> SUFFICES ASSUME Init PROVE History!Init
  OBVIOUS
<1>1. \A d \in Docs : /\ SnapshotsOf(d) = <<>> /\ Live(d) = FALSE
                        /\ document[d].content \in Texts /\ WritersOf(d) = {}
  BY CheckedTexts DEF Init, SnapshotsOf, Live, NoRow, NoTx, WritersOf, Holds
<1> QED
  BY <1>1 DEF History!Init

LEMMA StepImplements == IInv /\ [Next]_vars => [History!Next]_(History!vars)
<1> SUFFICES ASSUME IInv, [Next]_vars PROVE [History!Next]_(History!vars)
  OBVIOUS
<1>0. TypeOK /\ TypeOK' /\ OneDocumentStep
  BY StepOfOneDocument, TypeStep DEF IInv
<1>1. ASSUME NEW d \in Docs, Same(d)
      PROVE  SnapshotsOf(d)' = SnapshotsOf(d) /\ Live(d)' = Live(d)
             /\ document'[d].content = document[d].content
  BY <1>0, <1>1, SameSnapshots DEF Same, Live
<1>11. ASSUME WritersSame PROVE Writers' = Writers
  BY <1>11 DEF WritersSame, Writers
<1>12. ASSUME NEW d \in Docs, NEW a, Ends(d, a)
       PROVE  Writers[d] = {a} /\ Writers' = [Writers EXCEPT ![d] = {}]
  BY <1>12 DEF Ends, Writers
<1>2. ASSUME \A d \in Docs : Same(d),
             WritersSame \/ \E d \in Docs, a \in Actors : Begins(d, a) \/ Ends(d, a)
      PROVE  [History!Next]_(History!vars)
  <2>1. Histories' = Histories /\ Visibles' = Visibles /\ ShownTexts' = ShownTexts
    BY <1>1, <1>2 DEF Histories, Visibles, ShownTexts
  <2>2. ASSUME WritersSame PROVE UNCHANGED History!vars
    BY <1>11, <2>1, <2>2 DEF History!vars, Histories, Visibles, ShownTexts, Writers
  <2>3. ASSUME NEW d \in Docs, NEW a \in Actors, Begins(d, a) PROVE History!Next
    <3>1. Writers[d] = {} /\ Writers' = [Writers EXCEPT ![d] = {a}] /\ Visibles[d] = TRUE
      BY <2>3 DEF Begins, Writers, Visibles
    <3>2. History!Begin(d, a)
      BY <2>1, <3>1 DEF History!Begin, Histories, Visibles, ShownTexts, Writers
    <3> QED
      BY <3>2 DEF History!Next
  <2>4. ASSUME NEW d \in Docs, NEW a \in Actors, Ends(d, a) PROVE History!Next
    <3>1. Writers[d] # {} /\ Writers' = [Writers EXCEPT ![d] = {}]
      BY <1>12, <2>4
    <3>2. History!Quit(d)
      BY <2>1, <3>1 DEF History!Quit, History!EndsWriting, Histories, Visibles, ShownTexts, Writers
    <3> QED
      BY <3>2 DEF History!Next
  <2> QED
    BY <1>2, <2>2, <2>3, <2>4
<1>3. ASSUME NEW d \in Docs, OthersSame(d), NEW r \in WrittenRow, Added(d, r),
             (Live(d) /\ Ends(d, r.actor)) \/ (~ Live(d) /\ WritersSame)
      PROVE  History!Next
  <2>1. SnapshotOf(r) \in History!Snapshot /\ SnapshotOf(r).actor = r.actor
    BY DocumentsAssumption DEF SnapshotOf, WrittenRow, VersionRow, VersionKind, History!Snapshot
  <2>2. /\ Histories' = [Histories EXCEPT ![d] = Append(@, SnapshotOf(r))]
        /\ Visibles' = [Visibles EXCEPT ![d] = TRUE]
        /\ ShownTexts' = [ShownTexts EXCEPT ![d] = r.content]
    BY <1>0, <1>1, <1>3, AddedSnapshot
       DEF Histories, Visibles, ShownTexts, OthersSame, Added, Live
  <2>3. CASE document[d].status = "live"
    <3>1. Writers[d] = {r.actor} /\ Writers' = [Writers EXCEPT ![d] = {}]
      BY <1>3, <1>12, <2>3 DEF Live
    <3>2. History!Extend(d, SnapshotOf(r))
      BY <2>1, <2>2, <2>3, <3>1
         DEF History!Extend, History!EndsWriting, Histories, Visibles, ShownTexts, Writers,
             Live, SnapshotOf
    <3> QED
      BY <2>1, <3>2 DEF History!Next
  <2>4. CASE document[d].status = "absent"
    <3>0. Writers' = Writers
      BY <1>3, <1>11, <2>4 DEF Live
    <3>1. SnapshotsOf(d) = <<>>
      BY <2>4 DEF IInv, ExistingDocsHaveVersions, SnapshotsOf
    <3>2. Append(<<>>, SnapshotOf(r)) = <<SnapshotOf(r)>>
      OBVIOUS
    <3>3. History!Create(d, SnapshotOf(r))
      BY <2>2, <3>0, <3>1, <3>2
         DEF History!Create, Histories, Visibles, ShownTexts, Writers, SnapshotOf
    <3> QED
      BY <2>1, <3>3 DEF History!Next
  <2> QED
    BY <1>0, <1>3, <2>3, <2>4 DEF Added, TypeOK, DocumentRow
<1>4. ASSUME NEW d \in Docs, OthersSame(d), NEW t \in Texts, Amended(d, t),
             Ends(d, versions[d][document[d].version].actor)
      PROVE  History!Next
  <2> DEFINE amended == [SnapshotsOf(d) EXCEPT ![Len(SnapshotsOf(d))].content = t]
             author == versions[d][document[d].version].actor
  <2>0. SnapshotsOf(d)' = amended
    BY <1>0, <1>4, AmendedSnapshot
  <2> HIDE DEF amended
  <2>1. /\ Histories' = [Histories EXCEPT ![d] = amended]
        /\ Visibles' = Visibles
        /\ ShownTexts' = [ShownTexts EXCEPT ![d] = t]
    BY <1>0, <1>1, <1>4, <2>0
       DEF Histories, Visibles, ShownTexts, OthersSame, Amended, Live
  <2>2. /\ SnapshotsOf(d)[Len(SnapshotsOf(d))].kind = "autosave"
        /\ SnapshotsOf(d)[Len(SnapshotsOf(d))].actor = author
    <3> DEFINE n == document[d].version
    <3>1. n \in 1..n /\ versions[d][n].kind = "autosave"
      BY <1>4, DocumentsAssumption DEF Amended, VersionNumbers
    <3>2. Len(SnapshotsOf(d)) = n /\ SnapshotsOf(d)[n] = SnapshotOf(versions[d][n])
      BY <1>0, <3>1, SnapshotsOfDocument
    <3> QED
      BY <3>1, <3>2 DEF SnapshotOf
  <2>3. Live(d) = TRUE /\ Histories[d] = SnapshotsOf(d)
    BY <1>4 DEF Amended, Live, Histories
  <2>4. Histories' = [Histories EXCEPT ![d][Len(Histories[d])].content = t]
    BY <2>1, <2>3 DEF amended
  <2>5. author \in Actors
    <3>1. author \in {ActorOf[c] : c \in Clients}
      <4>1. author \in WritersOf(d)
        BY <1>4 DEF Ends
      <4> QED
        BY <4>1 DEF WritersOf
    <3> QED
      BY <3>1, DocumentsAssumption
  <2>6. Writers[d] = {author} /\ Writers' = [Writers EXCEPT ![d] = {}]
    BY <1>4, <1>12
  <2> HIDE DEF author
  <2>7. History!Amend(d, author, t)
    BY <2>1, <2>2, <2>3, <2>4, <2>6
       DEF History!Amend, History!LastOf, History!EndsWriting, Histories, Visibles, ShownTexts,
           Writers
  <2> QED
    BY <2>5, <2>7 DEF History!Next
<1>5. ASSUME NEW d \in Docs, OthersSame(d), Toggled(d),
             (Live(d) /\ \E a \in Actors : Ends(d, a)) \/ (~ Live(d) /\ WritersSame)
      PROVE  History!Next
  <2>1. /\ Histories' = Histories
        /\ Visibles' = [Visibles EXCEPT ![d] = ~ Visibles[d]]
        /\ ShownTexts' = ShownTexts
    BY <1>0, <1>1, <1>5, SameSnapshots
       DEF Histories, Visibles, ShownTexts, OthersSame, Toggled, Live
  <2>2. Len(SnapshotsOf(d)) > 0 /\ SnapshotsOf(d) # <<>>
    <3>1. document[d].version # 0 /\ document[d].version \in Nat
      BY <1>0, <1>5 DEF Toggled, IInv, ExistingDocsHaveVersions, TypeOK, DocumentRow
    <3>2. Len(SnapshotsOf(d)) = document[d].version
      BY <1>0, SnapshotsOfDocument
    <3> QED
      BY <3>1, <3>2
  <2>3. CASE Live(d)
    <3>1. Writers[d] # {} /\ Writers' = [Writers EXCEPT ![d] = {}]
      BY <1>5, <1>12, <2>3
    <3>2. History!Hide(d)
      BY <2>1, <2>3, <3>1
         DEF History!Hide, History!EndsWriting, Histories, Visibles, ShownTexts, Writers
    <3> QED
      BY <3>2 DEF History!Next
  <2>4. CASE ~ Live(d)
    <3>1. Writers' = Writers
      BY <1>5, <1>11, <2>4
    <3>2. History!Show(d)
      BY <2>1, <2>2, <2>4, <3>1 DEF History!Show, Histories, Visibles, ShownTexts, Writers
    <3> QED
      BY <3>2 DEF History!Next
  <2> QED
    BY <2>3, <2>4
<1> QED
  BY <1>0, <1>2, <1>3, <1>4, <1>5 DEF OneDocumentStep

\* Locks, optimistic concurrency, debounced autosaves and re-indexing together show a
\* reader exactly what DocHistory promises.
THEOREM Refinement == Spec => ImplementsDocHistory
<1>1. Init => History!Init
  BY InitImplements
<1>2. IInv /\ [Next]_vars => [History!Next]_(History!vars)
  BY StepImplements
<1> QED
  BY <1>1, <1>2, Invariance, PTL DEF Spec, ImplementsDocHistory, History!Spec
=============================================================================
