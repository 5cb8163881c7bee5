------------------------------ MODULE Documents ------------------------------
(***************************************************************************)
(* The documents of one project: crates/db/src/document.rs over the tables *)
(* documents, document_versions and doc_chunks.                            *)
(*                                                                         *)
(* A write is a READ COMMITTED transaction that first locks the document's *)
(* row (SELECT ... FOR UPDATE) and commits all its statements at once, so  *)
(* each is two steps here: LockDocument, which copies the row, and a       *)
(* commit that writes from that copy.  Rollback stands for every error     *)
(* return, failed authorization and lost connection between the two.       *)
(* create_document takes no lock: it counts, and later inserts.            *)
(*                                                                         *)
(* A text is a sequence of sections, each one heading and its body: the    *)
(* first is the level-1 heading that encloses the others.  max_doc_bytes   *)
(* is MaxSections.                                                         *)
(***************************************************************************)
EXTENDS Integers, Sequences, SequencesExt, FiniteSets

CONSTANTS
    Clients,        \* sessions: browser tabs, agents, command lines
    Actors,         \* (actor_type, actor_id) pairs recorded in a version
    ActorOf,        \* the actor each client authenticates as
    Docs,           \* document ids
    Paths,          \* paths in the project
    Sections,       \* a heading with its body
    Contents,       \* the texts clients submit
    MaxSections,    \* max_doc_bytes
    MaxDocs,        \* max_docs_per_project
    MaxVersions,    \* model bound on version numbers
    NoDoc, NoPath, NoActor

ASSUME DocumentsAssumption ==
    /\ Contents \subseteq Seq(Sections)
    /\ ActorOf \in [Clients -> Actors]
    /\ MaxSections \in Nat
    /\ MaxDocs \in Nat
    /\ MaxVersions \in Nat \ {0}
    /\ NoDoc \notin Docs
    /\ NoPath \notin Paths
    /\ NoActor \notin Actors

VARIABLES
    document,   \* [Docs -> DocumentRow]: table documents
    versions,   \* [Docs -> [VersionNumbers -> VersionRow]]: table document_versions
    recent,     \* [Docs -> BOOLEAN]: the latest version is younger than autosave_debounce_secs
    chunks,     \* [Docs -> Seq(ChunkRow)]: table doc_chunks by chunk_index
    tx,         \* [Clients -> Transaction]: the client's open transaction
    base        \* [Clients -> Copy]: the copy the client edits and its version

vars == <<document, versions, recent, chunks, tx, base>>

Texts == BoundedSeq(Sections, MaxSections)
VersionNumbers == 1..MaxVersions
VersionKind == {"checkpoint", "autosave"}

DocumentRow ==
    [status: {"absent", "live", "deleted"}, path: Paths \cup {NoPath},
     content: Texts, version: 0..MaxVersions]

VersionRow ==
    [kind: VersionKind \cup {"none"}, content: Texts, actor: Actors \cup {NoActor}]

ChunkRow == [heading: Sections, content: Sections]

Transaction ==
    [state: {"none", "locked", "creating"}, doc: Docs \cup {NoDoc}, row: DocumentRow]

Copy == [doc: Docs \cup {NoDoc}, version: 0..MaxVersions, content: Texts]

NoRow == [status |-> "absent", path |-> NoPath, content |-> <<>>, version |-> 0]
NoVersion == [kind |-> "none", content |-> <<>>, actor |-> NoActor]
NoTx == [state |-> "none", doc |-> NoDoc, row |-> NoRow]
NoCopy == [doc |-> NoDoc, version |-> 0, content |-> <<>>]

Live(d) == document[d].status = "live"
LiveDocs == {d \in Docs : Live(d)}
Exists(d, v) == versions[d][v].kind # "none"

----------------------------------------------------------------------------
(* Faulty variants of definitions below, each a plausible slip in the code. No     *)
(* specification uses them: they show that the properties can fail.                *)

AnySize(text) == TRUE
NoRowLock(d) == TRUE

\* try_coalesce without the test of latest.version_kind.
CoalescesIntoAnyKind(c, d, kind) ==
    /\ kind = "autosave"
    /\ \E v \in VersionNumbers :
        /\ Exists(d, v)
        /\ \A w \in VersionNumbers : w > v => ~ Exists(d, w)
        /\ versions[d][v].actor = ActorOf[c]
    /\ recent[d]

\* try_coalesce without the comparison of the actors.
CoalescesForAnyActor(c, d, kind) ==
    /\ kind = "autosave"
    /\ \E v \in VersionNumbers :
        /\ versions[d][v].kind = "autosave"
        /\ \A w \in VersionNumbers : w > v => ~ Exists(d, w)
    /\ recent[d]

\* try_coalesce without the UPDATE of document_versions.
AmendNothing(d, text) == UNCHANGED versions

\* reindex_chunks without the DELETE of the chunks past the new end.
ReindexedKeepingTail(stored, text) ==
    [i \in 1..(IF Len(text) >= Len(stored) THEN Len(text) ELSE Len(stored)) |->
        IF i <= Len(text)
        THEN [heading |-> text[1], content |-> text[i]]
        ELSE stored[i]]

\* create_document with "count > max" for "count >= max".
CountWithOneMore(c) ==
    /\ tx[c].state = "none"
    /\ Cardinality(LiveDocs) <= MaxDocs
    /\ tx' = [tx EXCEPT ![c] = [NoTx EXCEPT !.state = "creating"]]
    /\ UNCHANGED <<document, versions, recent, chunks, base>>

\* update_document without the comparison of versions.
HoldsAnyVersion(c) ==
    /\ tx[c].state = "locked"
    /\ base[c].doc = tx[c].doc

----------------------------------------------------------------------------
(* Helpers of document.rs *)

WithinSizeLimit(text) == Len(text) <= MaxSections

\* The partial unique index (project_id, path) WHERE deleted_at IS NULL.
PathIsFree(d, p) == \A e \in LiveDocs \ {d} : document[e].path # p

\* SELECT ... FOR UPDATE waits while another transaction holds the row.
Holds(c, d) == tx[c].state = "locked" /\ tx[c].doc = d
RowIsFree(d) == \A c \in Clients : ~ Holds(c, d)

\* ORDER BY version DESC LIMIT 1
LatestVersion(d) ==
    CHOOSE v \in VersionNumbers :
        Exists(d, v) /\ \A w \in VersionNumbers : w > v => ~ Exists(d, w)

\* try_coalesce: an autosave falls into the latest version if that is a recent
\* autosave of the same actor.
Coalesces(c, d, kind) ==
    LET latest == versions[d][LatestVersion(d)]
    IN  /\ kind = "autosave"
        /\ latest.kind = "autosave"
        /\ latest.actor = ActorOf[c]
        /\ recent[d]

\* chunk_markdown: one chunk per section under the breadcrumb of its enclosing heading.
Chunk(text, i) == [heading |-> text[1], content |-> text[i]]

\* reindex_chunks: a stored chunk stays if the new text has the same content at the
\* same index; every other chunk is deleted and the new ones inserted.
Reindexed(stored, text) ==
    [i \in 1..Len(text) |->
        IF i <= Len(stored) /\ stored[i].content = text[i]
        THEN stored[i]
        ELSE Chunk(text, i)]

\* insert_version; UNIQUE (document_id, version) refuses a number already there.
InsertVersion(c, d, v, text, kind) ==
    /\ v \in VersionNumbers
    /\ ~ Exists(d, v)
    /\ versions' = [versions EXCEPT ![d][v] =
                        [kind |-> kind, content |-> text, actor |-> ActorOf[c]]]
    /\ recent' = [recent EXCEPT ![d] = TRUE]

\* try_coalesce's UPDATE of the latest version; number, kind and actor stay.
AmendLatestVersion(d, text) ==
    versions' = [versions EXCEPT ![d][LatestVersion(d)].content = text]

\* The writes that update, append and restore share: the row, its version, its chunks.
SaveNewVersion(c, text, kind) ==
    LET d == tx[c].doc
        v == tx[c].row.version + 1
    IN  /\ document' = [document EXCEPT ![d].content = text, ![d].version = v]
        /\ InsertVersion(c, d, v, text, kind)
        /\ chunks' = [chunks EXCEPT ![d] = Reindexed(@, text)]

EndTx(c) == tx' = [tx EXCEPT ![c] = NoTx]

CopyOf(d) == [doc |-> d, version |-> document[d].version, content |-> document[d].content]

----------------------------------------------------------------------------
Init ==
    /\ document = [d \in Docs |-> NoRow]
    /\ versions = [d \in Docs |-> [v \in VersionNumbers |-> NoVersion]]
    /\ recent = [d \in Docs |-> FALSE]
    /\ chunks = [d \in Docs |-> <<>>]
    /\ tx = [c \in Clients |-> NoTx]
    /\ base = [c \in Clients |-> NoCopy]

\* create_document up to the quota guard: the live documents this statement sees.
CountDocuments(c) ==
    /\ tx[c].state = "none"
    /\ Cardinality(LiveDocs) < MaxDocs
    /\ tx' = [tx EXCEPT ![c] = [NoTx EXCEPT !.state = "creating"]]
    /\ UNCHANGED <<document, versions, recent, chunks, base>>

\* create_document from the INSERT to the commit.
InsertDocument(c, d, p, text) ==
    /\ tx[c].state = "creating"
    /\ document[d].status = "absent"
    /\ WithinSizeLimit(text)
    /\ PathIsFree(d, p)
    /\ document' = [document EXCEPT ![d] =
                        [status |-> "live", path |-> p, content |-> text, version |-> 1]]
    /\ InsertVersion(c, d, 1, text, "checkpoint")
    /\ chunks' = [chunks EXCEPT ![d] = Reindexed(@, text)]
    /\ EndTx(c)
    /\ UNCHANGED base

\* get_document: the client now edits this copy.
ReadDocument(c, d) ==
    /\ tx[c].state = "none"
    /\ Live(d)
    /\ base' = [base EXCEPT ![c] = CopyOf(d)]
    /\ UNCHANGED <<document, versions, recent, chunks, tx>>

\* lock_document: the first statement of every write to an existing document.
LockDocument(c, d) ==
    /\ tx[c].state = "none"
    /\ Live(d)
    /\ RowIsFree(d)
    /\ tx' = [tx EXCEPT ![c] = [state |-> "locked", doc |-> d, row |-> document[d]]]
    /\ UNCHANGED <<document, versions, recent, chunks, base>>

\* update_document compares the row it locked with the version the client holds.
HoldsCurrentVersion(c) ==
    /\ tx[c].state = "locked"
    /\ base[c].doc = tx[c].doc
    /\ base[c].version = tx[c].row.version

\* update_document when the save becomes a version of its own.
UpdateAsNewVersion(c, text, kind) ==
    /\ HoldsCurrentVersion(c)
    /\ WithinSizeLimit(text)
    /\ ~ Coalesces(c, tx[c].doc, kind)
    /\ SaveNewVersion(c, text, kind)
    /\ base' = [base EXCEPT ![c].version = tx[c].row.version + 1, ![c].content = text]
    /\ EndTx(c)

\* update_document when try_coalesce overwrites the latest version.
UpdateCoalesced(c, text, kind) ==
    LET d == tx[c].doc
    IN  /\ HoldsCurrentVersion(c)
        /\ Coalesces(c, d, kind)
        /\ WithinSizeLimit(text)
        /\ AmendLatestVersion(d, text)
        /\ recent' = [recent EXCEPT ![d] = TRUE]
        /\ document' = [document EXCEPT ![d].content = text]
        /\ chunks' = [chunks EXCEPT ![d] = Reindexed(@, text)]
        /\ base' = [base EXCEPT ![c].content = text]
        /\ EndTx(c)

UpdateDocument(c, text, kind) ==
    UpdateAsNewVersion(c, text, kind) \/ UpdateCoalesced(c, text, kind)

\* update_document with a stale version writes nothing and returns the current text,
\* which the client loads or knowingly overwrites.
UpdateConflict(c) ==
    /\ tx[c].state = "locked"
    /\ base[c].doc = tx[c].doc
    /\ base[c].version # tx[c].row.version
    /\ base' = [base EXCEPT ![c].version = tx[c].row.version,
                            ![c].content = tx[c].row.content]
    /\ EndTx(c)
    /\ UNCHANGED <<document, versions, recent, chunks>>

\* append_to_document: always a new version, always an autosave.
AppendToDocument(c, section) ==
    /\ tx[c].state = "locked"
    /\ WithinSizeLimit(Append(tx[c].row.content, section))
    /\ SaveNewVersion(c, Append(tx[c].row.content, section), "autosave")
    /\ EndTx(c)
    /\ UNCHANGED base

\* restore_version: an old snapshot becomes a new checkpoint, without a size check.
RestoreVersion(c, v) ==
    /\ tx[c].state = "locked"
    /\ Exists(tx[c].doc, v)
    /\ SaveNewVersion(c, versions[tx[c].doc][v].content, "checkpoint")
    /\ EndTx(c)
    /\ UNCHANGED base

MoveDocument(c, p) ==
    /\ tx[c].state = "locked"
    /\ Live(tx[c].doc)
    /\ PathIsFree(tx[c].doc, p)
    /\ document' = [document EXCEPT ![tx[c].doc].path = p]
    /\ EndTx(c)
    /\ UNCHANGED <<versions, recent, chunks, base>>

\* delete_document is soft for the row and its versions and drops the chunks.
DeleteDocument(c) ==
    /\ tx[c].state = "locked"
    /\ document' = [document EXCEPT ![tx[c].doc].status = "deleted"]
    /\ chunks' = [chunks EXCEPT ![tx[c].doc] = <<>>]
    /\ EndTx(c)
    /\ UNCHANGED <<versions, recent, base>>

\* undelete_document does not lock before its UPDATE, which re-checks deleted_at; it
\* chunks the text the UPDATE returns and consults no quota.
UndeleteDocument(c, d) ==
    /\ tx[c].state = "none"
    /\ document[d].status = "deleted"
    /\ PathIsFree(d, document[d].path)
    /\ document' = [document EXCEPT ![d].status = "live"]
    /\ chunks' = [chunks EXCEPT ![d] = Reindexed(@, document[d].content)]
    /\ UNCHANGED <<versions, recent, tx, base>>

\* Every error return, failed authorization, crash or lost connection inside a transaction.
Rollback(c) ==
    /\ tx[c].state # "none"
    /\ EndTx(c)
    /\ UNCHANGED <<document, versions, recent, chunks, base>>

\* autosave_debounce_secs pass after the latest version was written.
DebounceElapses(d) ==
    /\ recent[d]
    /\ recent' = [recent EXCEPT ![d] = FALSE]
    /\ UNCHANGED <<document, versions, chunks, tx, base>>

Next ==
    \/ \E c \in Clients :
        \/ CountDocuments(c)
        \/ \E d \in Docs, p \in Paths, text \in Contents : InsertDocument(c, d, p, text)
        \/ \E d \in Docs : ReadDocument(c, d)
        \/ \E d \in Docs : LockDocument(c, d)
        \/ \E text \in Contents, kind \in VersionKind : UpdateAsNewVersion(c, text, kind)
        \/ \E text \in Contents, kind \in VersionKind : UpdateCoalesced(c, text, kind)
        \/ UpdateConflict(c)
        \/ \E section \in Sections : AppendToDocument(c, section)
        \/ \E v \in VersionNumbers : RestoreVersion(c, v)
        \/ \E p \in Paths : MoveDocument(c, p)
        \/ DeleteDocument(c)
        \/ \E d \in Docs : UndeleteDocument(c, d)
        \/ Rollback(c)
    \/ \E d \in Docs : DebounceElapses(d)

Spec == Init /\ [][Next]_vars

----------------------------------------------------------------------------
(* Properties *)

\* The stored rows are well formed; in particular no stored text exceeds max_doc_bytes.
TypeOK ==
    /\ document \in [Docs -> DocumentRow]
    /\ versions \in [Docs -> [VersionNumbers -> VersionRow]]
    /\ recent \in [Docs -> BOOLEAN]
    /\ chunks \in [Docs -> Seq(ChunkRow)]
    /\ tx \in [Clients -> Transaction]
    /\ base \in [Clients -> Copy]

\* The snapshots of a document are numbered 1 to current_version without a gap, and
\* the text it shows is the last of them: restore and conflict replies can rely on it.
HistoryIsComplete ==
    \A d \in Docs :
        /\ \A v \in VersionNumbers : Exists(d, v) <=> v <= document[d].version
        /\ document[d].version > 0 =>
             document[d].content = versions[d][document[d].version].content

\* A client that holds a checkpoint's version number holds that checkpoint's text, for
\* however long and whatever the others do: the conflict reply's base_content is then
\* what it started from.
CheckpointBasesAreExact ==
    \A c \in Clients :
        base[c].doc # NoDoc =>
            /\ Exists(base[c].doc, base[c].version)
            /\ versions[base[c].doc][base[c].version].kind = "checkpoint" =>
                 base[c].content = versions[base[c].doc][base[c].version].content

\* An accepted save replaces the very text its client started from, unless the version
\* it started from is an autosave.
SavesOverCheckpointsLoseNothing ==
    [][\A c \in Clients, text \in Contents, kind \in VersionKind :
         /\ UpdateDocument(c, text, kind)
         /\ versions[base[c].doc][base[c].version].kind = "checkpoint"
         => document[base[c].doc].content = base[c].content]_vars

\* The same without the exception, as the update tool describes itself
\* ("on a stale version nothing is written").
NoLostUpdate ==
    [][\A c \in Clients, text \in Contents, kind \in VersionKind :
         UpdateDocument(c, text, kind) =>
            document[base[c].doc].content = base[c].content]_vars

\* An append that commits yields the text as it is at that moment plus the addition,
\* although it writes from the copy it took when its transaction began.
AppendsLoseNothing ==
    [][\A c \in Clients, section \in Sections :
         AppendToDocument(c, section) =>
            document'[tx[c].doc].content =
                Append(document[tx[c].doc].content, section)]_vars

\* Search sees exactly the sections of live documents: after any sequence of edits,
\* deletions and restores the kept and the rewritten chunks add up to the text.
IndexMatchesText ==
    \A d \in Docs :
        [i \in DOMAIN chunks[d] |-> chunks[d][i].content] =
            IF Live(d) THEN document[d].content ELSE <<>>

\* The snapshots a document has, in order.
SnapshotsOf(d) ==
    [v \in 1..document[d].version |->
        [content |-> versions[d][v].content, kind |-> versions[d][v].kind,
         actor |-> versions[d][v].actor]]

\* The actors whose transaction holds the row of d.
WritersOf(d) == {ActorOf[c] : c \in {c \in Clients : Holds(c, d)}}

History == INSTANCE DocHistory WITH
    history <- [d \in Docs |-> SnapshotsOf(d)],
    visible <- [d \in Docs |-> Live(d)],
    text <- [d \in Docs |-> document[d].content],
    writers <- [d \in Docs |-> WritersOf(d)]

\* Every document is what DocHistory promises its readers: a history that only grows at
\* its end, where an autosave is amended by nobody but the actor who made it.
ImplementsDocHistory == History!Spec
=============================================================================
