--------------------------- MODULE EmbeddingWorker ---------------------------
(***************************************************************************)
(* The embedding queue: the bookkeeping columns of doc_chunks              *)
(* (crates/db/src/embedding.rs) and the loop of apps/api/src/main.rs that  *)
(* empties it, while documents are edited (reindex_chunks), processes stop *)
(* and start, and the embedding column changes its width.                  *)
(*                                                                         *)
(* A worker is one API process.  Two run at once while a deployment        *)
(* replaces one by another.  Every statement is a transaction of its own,  *)
(* and any of them may fail: the loop logs the error and goes on.  The     *)
(* provider may answer or refuse whatever it is asked; a timeout is a      *)
(* refusal.  Chunks are never updated in place: an edit deletes rows and   *)
(* inserts others under new, growing ids.                                  *)
(***************************************************************************)
EXTENDS Integers, Sequences, FiniteSets

CONSTANTS
    Workers,        \* API processes
    Texts,          \* what is embedded: heading breadcrumb and content
    Contents,       \* what content_hash tells apart
    ContentOf,      \* [Texts -> Contents]
    Dims,           \* widths an operator may configure
    BatchSize,      \* embedding_batch_size
    MaxAttempts,    \* embedding_max_attempts; 0: never give up
    MaxChunks,      \* model bound on rows ever inserted
    MaxCrashes,     \* model bound on stopped processes
    NoText, NoDim, NoVector

ASSUME EmbeddingAssumption ==
    /\ IsFiniteSet(Workers)
    /\ ContentOf \in [Texts -> Contents]
    /\ BatchSize \in Nat \ {0}
    /\ MaxAttempts \in Nat
    /\ MaxChunks \in Nat
    /\ MaxCrashes \in Nat
    /\ NoText \notin Texts
    /\ NoDim \notin Dims
    /\ NoVector \notin [of: Texts, dim: Dims]

VARIABLES
    chunk,      \* [Ids -> Chunk]: doc_chunks
    column,     \* the width of doc_chunks.embedding, NoDim while there is no such column
    proc,       \* [Workers -> Process]
    crashes     \* processes stopped so far

vars == <<chunk, column, proc, crashes>>

Ids == 1..MaxChunks
Vectors == [of: Texts, dim: Dims]

\* due is embed_next_attempt_at: NULL, in the future, or past.  A row that does not exist
\* is "unborn" or "gone".
Chunk ==
    [row: {"unborn", "there", "gone"}, text: Texts \cup {NoText},
     vector: Vectors \cup {NoVector}, attempts: Nat, failed: BOOLEAN,
     due: {"never", "later", "now"}]

\* Where a process is: in ensure_schema ("drop", "reset", "add"), at a statement of the loop
\* ("dedup", "fetch"), waiting for the provider ("batch", "single"), about to store the
\* answer ("store", "storeone") or to record a refusal ("mark").  A sleep is no place of its
\* own: the loop goes round.
Process ==
    [at: {"down", "drop", "reset", "add", "dedup", "fetch", "batch", "store", "single",
          "storeone", "mark"},
     dim: Dims \cup {NoDim},
     work: Seq([id: Ids, text: Texts])]

Absent(row) ==
    [row |-> row, text |-> NoText, vector |-> NoVector, attempts |-> 0, failed |-> FALSE,
     due |-> "never"]
Fresh(t) == [Absent("there") EXCEPT !.text = t]
Down == [at |-> "down", dim |-> NoDim, work |-> <<>>]

Live == {c \in Ids : chunk[c].row = "there"}
Settled(c) == chunk[c].row # "there" \/ chunk[c].vector # NoVector \/ chunk[c].failed

\* A process that works with the width the column has.
Serving(w) == proc[w].at \notin {"down", "drop", "reset", "add"} /\ proc[w].dim = column

----------------------------------------------------------------------------
(* Faulty variants of definitions below, each a plausible slip in the code. No     *)
(* specification uses them: they show that the properties can fail.                *)

\* dedup_by_content_hash without the comparison of hashes.
DuplicatesAny(c, d) ==
    /\ chunk[c].row = "there" /\ chunk[c].vector = NoVector
    /\ chunk[d].row = "there" /\ chunk[d].vector # NoVector

\* pending without AND NOT embed_failed.
PendingThoughFailed(c) ==
    /\ chunk[c].row = "there"
    /\ chunk[c].vector = NoVector
    /\ chunk[c].due # "later"

\* mark_failed without AND embedding IS NULL.
MarkableEver(c) == column # NoDim /\ chunk[c].row = "there"

\* An empty batch is sent to the provider.
AfterAnyFetch(work) == "batch"

\* A failure that is neither counted nor backed off.
AfterFailureForgotten(r) == r

\* mark_failed that compares the count before the increment.
AfterFailureLate(r) ==
    [r EXCEPT !.attempts = @ + 1, !.due = "later",
              !.failed = MaxAttempts > 0 /\ r.attempts >= MaxAttempts]

----------------------------------------------------------------------------
(* Helpers *)

\* WHERE embedding IS NULL AND NOT embed_failed AND it is due.
Pending(c) ==
    /\ chunk[c].row = "there"
    /\ chunk[c].vector = NoVector
    /\ ~chunk[c].failed
    /\ chunk[c].due # "later"

\* ORDER BY embed_next_attempt_at NULLS FIRST, id LIMIT batch.  How long ago the others came
\* due is not kept, so they may come in any order.
InOrder(work) ==
    \A i, j \in 1..Len(work) : i < j =>
        /\ work[i].id # work[j].id
        /\ chunk[work[j].id].due = "never" =>
             chunk[work[i].id].due = "never" /\ work[i].id < work[j].id

ServesFirst(work) ==
    \A c \in Ids : Pending(c) /\ chunk[c].due = "never" =>
        \/ \E i \in 1..Len(work) : work[i].id = c
        \/ \A i \in 1..Len(work) : chunk[work[i].id].due = "never" /\ work[i].id < c

\* Two rows of equal content, one of them embedded.
Duplicates(c, d) ==
    /\ chunk[c].row = "there" /\ chunk[c].vector = NoVector
    /\ chunk[d].row = "there" /\ chunk[d].vector # NoVector
    /\ ContentOf[chunk[c].text] = ContentOf[chunk[d].text]

\* The rows mark_failed writes.
Markable(c) == column # NoDim /\ chunk[c].row = "there" /\ chunk[c].vector = NoVector

AfterFailure(r) ==
    [r EXCEPT !.attempts = @ + 1, !.due = "later",
              !.failed = MaxAttempts > 0 /\ r.attempts + 1 >= MaxAttempts]

\* An empty queue is slept on.
AfterFetch(work) == IF work = <<>> THEN "dedup" ELSE "batch"

Goto(w, at) == proc' = [proc EXCEPT ![w].at = at]

\* The next of the batch, or the next round.
Done(w, at) ==
    proc' = [proc EXCEPT ![w].work = Tail(@),
                         ![w].at = IF Len(proc[w].work) = 1 THEN "dedup" ELSE at]

----------------------------------------------------------------------------
(* The column: EmbeddingStore::connect and ensure_schema *)

\* The process comes up with width d and looks at the column there is.
Start(w, d) ==
    /\ proc[w].at = "down"
    /\ proc' = [proc EXCEPT ![w].dim = d,
                            ![w].at = IF column \in {NoDim, d} THEN "add" ELSE "drop"]
    /\ UNCHANGED <<chunk, column, crashes>>

\* ALTER TABLE doc_chunks DROP COLUMN embedding
DropColumn(w) ==
    /\ proc[w].at = "drop"
    /\ column # NoDim
    /\ column' = NoDim
    /\ chunk' = [c \in Ids |-> [chunk[c] EXCEPT !.vector = NoVector]]
    /\ Goto(w, "reset")
    /\ UNCHANGED crashes

\* Every chunk is queued anew.
ResetBookkeeping(w) ==
    /\ proc[w].at = "reset"
    /\ chunk' = [c \in Ids |->
                   [chunk[c] EXCEPT !.attempts = 0, !.failed = FALSE, !.due = "never"]]
    /\ Goto(w, "add")
    /\ UNCHANGED <<column, crashes>>

\* ADD COLUMN IF NOT EXISTS, and the loop begins.
AddColumn(w) ==
    /\ proc[w].at = "add"
    /\ column' = IF column = NoDim THEN proc[w].dim ELSE column
    /\ Goto(w, "dedup")
    /\ UNCHANGED <<chunk, crashes>>

\* The process stops, or its loop does: truncate (crates/embed/src/lib.rs) cuts the text of a
\* provider's error at a byte that may lie within a character, and panics.
Crash(w) ==
    /\ proc[w].at # "down"
    /\ crashes < MaxCrashes
    /\ crashes' = crashes + 1
    /\ proc' = [proc EXCEPT ![w] = Down]
    /\ UNCHANGED <<chunk, column>>

\* The column to drop is already gone, and with the error of connect the process ends.
StartupFails(w) ==
    /\ proc[w].at = "drop"
    /\ column = NoDim
    /\ proc' = [proc EXCEPT ![w] = Down]
    /\ UNCHANGED <<chunk, column, crashes>>

----------------------------------------------------------------------------
(* The loop *)

\* dedup_by_content_hash; of several duplicates, the copy may come from any.
Dedup(w) ==
    /\ proc[w].at = "dedup"
    /\ column # NoDim
    /\ \E from \in [Ids -> Ids] :
         /\ \A c \in Ids : (\E d \in Ids : Duplicates(c, d)) => Duplicates(c, from[c])
         /\ \A c \in Ids : ~(\E d \in Ids : Duplicates(c, d)) => from[c] = c
         /\ chunk' = [c \in Ids |-> [chunk[c] EXCEPT !.vector = chunk[from[c]].vector]]
    /\ Goto(w, "fetch")
    /\ UNCHANGED <<column, crashes>>

\* A dedup that fails is ignored.
DedupFails(w) ==
    /\ proc[w].at = "dedup"
    /\ Goto(w, "fetch")
    /\ UNCHANGED <<chunk, column, crashes>>

\* pending
Fetch(w) ==
    /\ proc[w].at = "fetch"
    /\ column # NoDim
    /\ \E ids \in UNION {[1..n -> Ids] : n \in 0..BatchSize} :
         LET work == [i \in DOMAIN ids |-> [id |-> ids[i], text |-> chunk[ids[i]].text]]
         IN  /\ \A i \in DOMAIN ids : Pending(ids[i])
             /\ InOrder(work)
             /\ ServesFirst(work)
             /\ Len(work) < BatchSize =>
                  \A c \in Ids : Pending(c) => \E i \in DOMAIN ids : ids[i] = c
             /\ proc' = [proc EXCEPT ![w].work = work, ![w].at = AfterFetch(work)]
    /\ UNCHANGED <<chunk, column, crashes>>

\* The query fails.
FetchFails(w) ==
    /\ proc[w].at = "fetch"
    /\ Goto(w, "dedup")
    /\ UNCHANGED <<chunk, column, crashes>>

\* embed: a vector of the width asked for per text, in their order, or an error for them all.
Embed(w, answered, refused) ==
    /\ Goto(w, answered) \/ Goto(w, refused)
    /\ UNCHANGED <<chunk, column, crashes>>

\* If the provider does not answer for the whole batch, the chunks are tried one by one.
EmbedBatch(w) == proc[w].at = "batch" /\ Embed(w, "store", "single")

\* embed_individually asks for the next chunk.
EmbedOne(w) == proc[w].at = "single" /\ Embed(w, "storeone", "mark")

\* store, in a batch or alone: the UPDATE finds the row if it is still there.
Store(w) ==
    /\ proc[w].at \in {"store", "storeone"}
    /\ column = proc[w].dim
    /\ LET c == Head(proc[w].work).id
           vector == [of |-> Head(proc[w].work).text, dim |-> proc[w].dim]
       IN  chunk' = IF chunk[c].row # "there"
                    THEN chunk
                    ELSE [chunk EXCEPT ![c].vector = vector, ![c].due = "never",
                                       ![c].failed = FALSE]
    /\ Done(w, IF proc[w].at = "store" THEN "store" ELSE "single")
    /\ UNCHANGED <<column, crashes>>

\* The UPDATE fails: a lost connection, or a column of another width.
StoreFails(w) ==
    /\ proc[w].at \in {"store", "storeone"}
    /\ Done(w, IF proc[w].at = "store" THEN "store" ELSE "single")
    /\ UNCHANGED <<chunk, column, crashes>>

\* mark_failed
MarkFailed(w) ==
    /\ proc[w].at = "mark"
    /\ column # NoDim
    /\ LET c == Head(proc[w].work).id
       IN  chunk' = IF Markable(c) THEN [chunk EXCEPT ![c] = AfterFailure(@)] ELSE chunk
    /\ Done(w, "single")
    /\ UNCHANGED <<column, crashes>>

MarkFails(w) ==
    /\ proc[w].at = "mark"
    /\ Done(w, "single")
    /\ UNCHANGED <<chunk, column, crashes>>

----------------------------------------------------------------------------
(* What goes on around the workers *)

\* An edit of some document: reindex_chunks deletes the chunks that changed and inserts
\* their successors under fresh ids, in one transaction.
Reindex(gone, born) ==
    /\ gone \cup DOMAIN born # {}
    /\ gone \subseteq Live
    /\ \A c \in DOMAIN born : chunk[c].row = "unborn"
    /\ \A c \in DOMAIN born, d \in Ids : d < c /\ chunk[d].row = "unborn" => d \in DOMAIN born
    /\ chunk' = [c \in Ids |-> IF c \in gone THEN Absent("gone")
                               ELSE IF c \in DOMAIN born THEN Fresh(born[c]) ELSE chunk[c]]
    /\ UNCHANGED <<column, proc, crashes>>

\* now() passes embed_next_attempt_at.
BackoffElapses(c) ==
    /\ chunk[c].due = "later"
    /\ chunk' = [chunk EXCEPT ![c].due = "now"]
    /\ UNCHANGED <<column, proc, crashes>>

----------------------------------------------------------------------------

Init ==
    /\ chunk = [c \in Ids |-> Absent("unborn")]
    /\ column = NoDim
    /\ proc = [w \in Workers |-> Down]
    /\ crashes = 0

Loop(w) ==
    \/ Dedup(w) \/ DedupFails(w) \/ Fetch(w) \/ FetchFails(w)
    \/ EmbedBatch(w) \/ EmbedOne(w) \/ Store(w) \/ StoreFails(w)
    \/ MarkFailed(w) \/ MarkFails(w)

Startup(w) ==
    DropColumn(w) \/ ResetBookkeeping(w) \/ AddColumn(w) \/ StartupFails(w)

Next ==
    \/ \E w \in Workers : Loop(w) \/ Startup(w) \/ Crash(w)
    \/ \E w \in Workers, d \in Dims : Start(w, d)
    \/ \E gone \in SUBSET Ids, fresh \in SUBSET Ids :
         \E born \in [fresh -> Texts] : Reindex(gone, born)
    \/ \E c \in Ids : BackoffElapses(c)

Spec == Init /\ [][Next]_vars

\* tokio runs the loop for as long as the process lives, and time passes.  A query, a store
\* or a record of a failure that is tried over and over succeeds at last: the database may
\* be out of reach for a time, not for ever.  Nobody has to start a process or edit.
Fairness ==
    /\ \A w \in Workers :
         /\ WF_vars(Loop(w))
         /\ SF_vars(Fetch(w))
         /\ SF_vars(Store(w))
         /\ SF_vars(MarkFailed(w))
    /\ \A c \in Ids : WF_vars(BackoffElapses(c))

FairSpec == Spec /\ Fairness

----------------------------------------------------------------------------
(* Properties *)

\* Rows that exist have a text, others have nothing; a batch is being worked on exactly
\* between fetch and its end.
TypeOK ==
    /\ chunk \in [Ids -> Chunk]
    /\ \A c \in Ids : chunk[c].row # "there" => chunk[c] = Absent(chunk[c].row)
    /\ \A c \in Live : chunk[c].text \in Texts
    /\ column \in Dims \cup {NoDim}
    /\ proc \in [Workers -> Process]
    /\ \A w \in Workers :
         /\ proc[w].at # "down" => proc[w].dim \in Dims
         /\ proc[w].at \in {"batch", "store", "single", "storeone", "mark"} =>
              proc[w].work # <<>>
    /\ crashes \in 0..MaxCrashes

\* While an embedded chunk exists and the column stays, it keeps a vector, and no late refusal
\* (of another process that had fetched it too) counts against it.
EmbeddedChunksAreDone ==
    [][\A c \in Ids :
         chunk[c].vector # NoVector /\ chunk'[c].row = "there" /\ column' = column =>
            /\ chunk'[c].vector # NoVector
            /\ chunk'[c].attempts <= chunk[c].attempts
            /\ chunk'[c].failed => chunk[c].failed]_vars

\* A chunk that has used up its attempts is not handed out again: it is a dead letter, or
\* was embedded after all by a process that had fetched it earlier.  Between the drop of the
\* column and the reset of the bookkeeping it can be otherwise, and so for good if the
\* process stops there.
ExhaustedChunksAreNotRetried ==
    \A c \in Ids :
        MaxAttempts > 0 /\ chunk[c].attempts >= MaxAttempts /\ crashes = 0
            /\ (\A w \in Workers : proc[w].at # "reset")
        => ~Pending(c)

\* The processes that have a chunk in their batch and have not dealt with it.
Holders(c) == {w \in Workers : \E i \in 1..Len(proc[w].work) : proc[w].work[i].id = c}

\* However many processes fetch a chunk at once and whatever edits and refusals interleave,
\* its attempts exceed the limit by less than the number of processes: each adds at most one
\* to a chunk that has used them up.  The exception is that of the property above.
AttemptsOverrunIsBounded ==
    \A c \in Ids :
        MaxAttempts > 0 /\ crashes = 0 /\ (\A w \in Workers : proc[w].at # "reset")
        => chunk[c].attempts + Cardinality(Holders(c)) < MaxAttempts + Cardinality(Workers)

\* As long as one process with the width of the column stays up, every chunk is embedded,
\* dead-lettered or deleted at last, whatever the provider refuses, the other processes do
\* and however often a statement fails on the way: no chunk starves its batch-mates.
EveryChunkSettles ==
    <>[](\E w \in Workers : Serving(w)) => \A c \in Ids : chunk[c].row = "there" ~> Settled(c)

\* The chunks found by semantic search, and those that no process will fetch again.
Answered == {c \in Live : chunk[c].vector # NoVector}
DeadLetters == {c \in Live \ Answered : chunk[c].failed}

Index == INSTANCE SemanticIndex WITH
    content <- [c \in Live |-> ContentOf[chunk[c].text]],
    past <- {c \in Ids : chunk[c].row = "gone"},
    answer <- [c \in Answered |-> [of |-> ContentOf[chunk[c].vector.of],
                                   dim |-> chunk[c].vector.dim]],
    skipped <- DeadLetters,
    width <- column,
    GivesUp <- MaxAttempts > 0

\* Search is given what SemanticIndex promises: an answer is right from the moment it is
\* there, and stays until an edit or a change of the column takes it away.
ImplementsSemanticIndex == Index!Spec
=============================================================================
