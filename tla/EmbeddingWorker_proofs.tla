----------------------- MODULE EmbeddingWorker_proofs -----------------------
(***************************************************************************)
(* Theorems about EmbeddingWorker, for any number of processes, chunks and *)
(* widths, any size of batch and any limit on attempts.                    *)
(***************************************************************************)
EXTENDS EmbeddingWorker, SequenceTheorems, FiniteSetTheorems, TLAPS

----------------------------------------------------------------------------
(* The inductive invariant *)

Items == [id: Ids, text: Texts]

\* What a process has fetched exists or existed, and has the text it had: rows are never
\* updated in place, and their ids never used again.
Current(item) ==
    /\ chunk[item.id].row # "unborn"
    /\ chunk[item.id].row = "there" => chunk[item.id].text = item.text

WorkIsCurrent ==
    \A w \in Workers : \A i \in 1..Len(proc[w].work) : Current(proc[w].work[i])

\* A vector is that of a text with the content of its chunk, and as wide as the column: no
\* answer lands on another text, although chunks are deleted and inserted while texts are at
\* the provider, although duplicates are copied, and although the width changes while an
\* older process is still storing.  (Not that of its very text: dedup_by_content_hash
\* copies between chunks of equal content under different headings.)
VectorsBelongToTheirContent ==
    \A c \in Ids : chunk[c].vector # NoVector =>
        /\ ContentOf[chunk[c].vector.of] = ContentOf[chunk[c].text]
        /\ chunk[c].vector.dim = column

\* A chunk that has used up its attempts is embedded or a dead letter, unless a change of
\* width is between its drop and its reset, or a process stopped there.
ExhaustedAreSettled ==
    \A c \in Ids :
        MaxAttempts > 0 /\ chunk[c].attempts >= MaxAttempts /\ crashes = 0
            /\ (\A w \in Workers : proc[w].at # "reset")
        => Settled(c)

IInv ==
    /\ TypeOK
    /\ WorkIsCurrent
    /\ VectorsBelongToTheirContent
    /\ ExhaustedAreSettled

----------------------------------------------------------------------------
(* Types *)

Busy == {"batch", "store", "single", "storeone", "mark"}

\* The record of a process that TypeOK admits.
ProcessOK(p) ==
    /\ p \in Process
    /\ p.at # "down" => p.dim \in Dims
    /\ p.at \in Busy => p.work # <<>>

\* The row of a chunk that TypeOK admits.
ChunkOK(r) ==
    /\ r \in Chunk
    /\ r.row # "there" => r = Absent(r.row)
    /\ r.row = "there" => r.text \in Texts

LEMMA TypeByRecord ==
    TypeOK <=> /\ chunk \in [Ids -> Chunk] /\ \A c \in Ids : ChunkOK(chunk[c])
               /\ column \in Dims \cup {NoDim}
               /\ proc \in [Workers -> Process] /\ \A w \in Workers : ProcessOK(proc[w])
               /\ crashes \in 0..MaxCrashes
BY DEF TypeOK, ChunkOK, ProcessOK, Live, Busy

LEMMA AbsentIsTyped ==
    \A row \in {"unborn", "there", "gone"} :
        /\ Absent(row) \in Chunk
        /\ Absent(row).row = row /\ Absent(row).vector = NoVector
        /\ Absent(row).attempts = 0 /\ Absent(row).failed = FALSE
        /\ row # "there" => ChunkOK(Absent(row))
BY DEF Absent, Chunk, ChunkOK

LEMMA FreshIsTyped ==
    \A t \in Texts :
        /\ ChunkOK(Fresh(t))
        /\ Fresh(t).row = "there" /\ Fresh(t).vector = NoVector /\ Fresh(t).attempts = 0
        /\ Fresh(t).text = t
BY DEF Fresh, Absent, Chunk, ChunkOK

\* What the statements make of a row.
Dropped(r) == [r EXCEPT !.vector = NoVector]
Requeued(r) == [r EXCEPT !.attempts = 0, !.failed = FALSE, !.due = "never"]
Embedded(r, v) == [r EXCEPT !.vector = v, !.due = "never", !.failed = FALSE]
Due(r) == [r EXCEPT !.due = "now"]

\* A row whose attempts are used up is embedded or a dead letter.
SettlesIfExhausted(r) ==
    MaxAttempts > 0 /\ r.attempts >= MaxAttempts => r.vector # NoVector \/ r.failed

LEMMA DroppedIsTyped ==
    ASSUME NEW r, ChunkOK(r)
    PROVE  /\ ChunkOK(Dropped(r)) /\ Dropped(r).vector = NoVector
           /\ Dropped(r).row = r.row /\ Dropped(r).text = r.text
<1>1. /\ Dropped(r) \in Chunk /\ Dropped(r).vector = NoVector
      /\ Dropped(r).row = r.row /\ Dropped(r).text = r.text
  BY DEF Dropped, ChunkOK, Chunk
<1>2. r.row # "there" => Dropped(r) = r
  BY AbsentIsTyped DEF Dropped, ChunkOK, Chunk
<1> QED
  BY <1>1, <1>2 DEF ChunkOK

LEMMA RequeuedIsTyped ==
    ASSUME NEW r, ChunkOK(r)
    PROVE  /\ ChunkOK(Requeued(r)) /\ Requeued(r).attempts = 0
           /\ Requeued(r).row = r.row /\ Requeued(r).text = r.text
           /\ Requeued(r).vector = r.vector
<1>1. Requeued(r) \in Chunk
  BY DEF Requeued, ChunkOK, Chunk
<1>2. /\ Requeued(r).attempts = 0 /\ Requeued(r).row = r.row /\ Requeued(r).text = r.text
      /\ Requeued(r).vector = r.vector
  BY DEF Requeued, ChunkOK, Chunk
<1>3. r.row # "there" => Requeued(r) = r
  <2> SUFFICES ASSUME r.row # "there" PROVE Requeued(r) = r
    OBVIOUS
  <2>1. r.attempts = 0 /\ r.failed = FALSE /\ r.due = "never"
    BY DEF ChunkOK, Chunk, Absent
  <2> QED
    BY <2>1 DEF Requeued, ChunkOK, Chunk
<1> QED
  BY <1>1, <1>2, <1>3 DEF ChunkOK

LEMMA EmbeddedIsTyped ==
    ASSUME NEW r \in Chunk, NEW v \in Vectors
    PROVE  /\ Embedded(r, v) \in Chunk /\ Embedded(r, v).vector = v
           /\ Embedded(r, v).row = r.row /\ Embedded(r, v).text = r.text
           /\ Embedded(r, v).attempts = r.attempts
           /\ ~Embedded(r, v).failed
<1>1. Embedded(r, v) \in Chunk
  BY DEF Embedded, Chunk
<1>2. /\ Embedded(r, v).vector = v
      /\ Embedded(r, v).row = r.row /\ Embedded(r, v).text = r.text
      /\ Embedded(r, v).attempts = r.attempts
  BY DEF Embedded, Chunk
<1>3. ~Embedded(r, v).failed
  BY DEF Embedded, Chunk
<1> QED
  BY <1>1, <1>2, <1>3

LEMMA FailureIsTyped ==
    ASSUME NEW r \in Chunk
    PROVE  /\ AfterFailure(r) \in Chunk
           /\ AfterFailure(r).row = r.row /\ AfterFailure(r).text = r.text
           /\ AfterFailure(r).vector = r.vector
           /\ SettlesIfExhausted(AfterFailure(r))
<1> DEFINE n == r.attempts + 1
           b == MaxAttempts > 0 /\ r.attempts + 1 >= MaxAttempts
<1>1. n \in Nat /\ b \in BOOLEAN
  BY DEF Chunk
<1>2. AfterFailure(r) = [r EXCEPT !.attempts = n, !.due = "later", !.failed = b]
  BY DEF AfterFailure
<1>3. MaxAttempts > 0 /\ AfterFailure(r).attempts >= MaxAttempts => AfterFailure(r).failed
  BY EmbeddingAssumption DEF AfterFailure, Chunk
<1> HIDE DEF n, b
<1>4. AfterFailure(r) \in Chunk
  BY <1>1, <1>2 DEF Chunk
<1>5. /\ AfterFailure(r).row = r.row /\ AfterFailure(r).text = r.text
      /\ AfterFailure(r).vector = r.vector
  BY <1>2 DEF Chunk
<1>6. SettlesIfExhausted(AfterFailure(r))
  BY <1>3, Zenon DEF SettlesIfExhausted
<1> QED
  BY <1>4, <1>5, <1>6

LEMMA DueIsTyped ==
    ASSUME NEW r \in Chunk
    PROVE  /\ Due(r) \in Chunk
           /\ Due(r).row = r.row /\ Due(r).text = r.text /\ Due(r).vector = r.vector
           /\ Due(r).attempts = r.attempts /\ Due(r).failed = r.failed
BY DEF Due, Chunk

LEMMA DownIsTyped ==
    ProcessOK(Down) /\ Down.at = "down" /\ Len(Down.work) = 0
<1>1. <<>> \in Seq(Items) /\ Len(<<>>) = 0
  BY EmptySeq
<1> QED
  BY <1>1 DEF Down, ProcessOK, Process, Busy, Items

----------------------------------------------------------------------------
(* Shapes of steps *)

\* Rows that were born stay what they are until they go, and never come back.
RowsKeep ==
    \A c \in Ids : chunk[c].row # "unborn" =>
        /\ chunk'[c].row # "unborn"
        /\ chunk'[c].row = "there" => chunk[c].row = "there" /\ chunk'[c].text = chunk[c].text

\* One process moves on, with work that is current, or with part of what it had.
LEMMA ProcessStep ==
    ASSUME TypeOK, WorkIsCurrent, RowsKeep, NEW w \in Workers, NEW p,
           proc' = [proc EXCEPT ![w] = p], ProcessOK(p),
           \A i \in 1..Len(p.work) :
               \/ Current(p.work[i])
               \/ \E j \in 1..Len(proc[w].work) : p.work[i] = proc[w].work[j]
    PROVE  /\ proc' \in [Workers -> Process]
           /\ \A v \in Workers : ProcessOK(proc'[v])
           /\ WorkIsCurrent'
<1>1. proc \in [Workers -> Process] /\ \A v \in Workers : ProcessOK(proc[v])
  BY TypeByRecord
<1>2. proc' \in [Workers -> Process]
  BY <1>1 DEF ProcessOK
<1>3. proc'[w] = p /\ \A v \in Workers \ {w} : proc'[v] = proc[v]
  BY <1>1
<1>4. \A v \in Workers : proc[v].work \in Seq(Items) /\ proc'[v].work \in Seq(Items)
  BY <1>1, <1>2 DEF Process, Items
<1>6. ASSUME NEW v \in Workers, NEW i \in 1..Len(proc'[v].work)
      PROVE  Current(proc[v].work[i])'
  <2>1. proc'[v].work[i] \in Items
    BY <1>4, ElementOfSeq
  <2>2. Current(proc'[v].work[i])
    <3>1. CASE v = w
      BY <1>3, <3>1 DEF WorkIsCurrent
    <3>2. CASE v # w
      BY <1>3, <3>2 DEF WorkIsCurrent
    <3> QED
      BY <3>1, <3>2
  <2> DEFINE item == proc'[v].work[i]
  <2>4. Current(item) /\ item \in Items
    BY <2>1, <2>2
  <2> QED
    BY <2>4 DEF Current, RowsKeep, Items
<1> QED
  BY <1>1, <1>2, <1>3, <1>6 DEF WorkIsCurrent

\* No process moves.
LEMMA ProcessesStay ==
    ASSUME TypeOK, WorkIsCurrent, RowsKeep, UNCHANGED proc
    PROVE  WorkIsCurrent'
<1>1. proc \in [Workers -> Process]
  BY DEF TypeOK
<1>2. \A v \in Workers : proc[v].work \in Seq(Items)
  BY <1>1 DEF Process, Items
<1>3. \A item \in Items : Current(item) => Current(item)'
  BY DEF RowsKeep, Current, Items
<1>4. ASSUME NEW v \in Workers, NEW i \in 1..Len(proc[v].work)
      PROVE  Current(proc[v].work[i])'
  <2>1. proc[v].work[i] \in Items
    BY <1>2, ElementOfSeq
  <2> QED
    BY <1>3, <2>1 DEF WorkIsCurrent
<1> QED
  BY <1>4 DEF WorkIsCurrent

\* To go elsewhere is such a move, if there is work where work is needed.
LEMMA GotoStep ==
    ASSUME TypeOK, WorkIsCurrent, RowsKeep, NEW w \in Workers,
           NEW at \in {"drop", "reset", "add", "dedup", "fetch"} \cup Busy,
           proc[w].at # "down", at \in Busy => proc[w].work # <<>>, Goto(w, at)
    PROVE  /\ proc' \in [Workers -> Process]
           /\ \A v \in Workers : ProcessOK(proc'[v])
           /\ WorkIsCurrent'
           /\ \A v \in Workers : proc'[v].at = IF v = w THEN at ELSE proc[v].at
<1> DEFINE p == [proc[w] EXCEPT !.at = at]
<1>1. proc \in [Workers -> Process] /\ ProcessOK(proc[w])
  BY TypeByRecord
<1>2. p \in Process /\ p.at = at /\ p.dim = proc[w].dim /\ p.work = proc[w].work
  BY <1>1 DEF Process, Busy
<1>3. proc' = [proc EXCEPT ![w] = p]
  BY <1>1 DEF Goto
<1>4. ProcessOK(p)
  BY <1>1, <1>2 DEF ProcessOK
<1>5. \A i \in 1..Len(p.work) : \E j \in 1..Len(proc[w].work) : p.work[i] = proc[w].work[j]
  BY <1>2
<1> HIDE DEF p
<1> QED
  BY <1>1, <1>2, <1>3, <1>4, <1>5, ProcessStep

\* So is to be done with one chunk of the batch.
LEMMA DoneStep ==
    ASSUME TypeOK, WorkIsCurrent, RowsKeep, NEW w \in Workers, NEW at \in Busy,
           proc[w].at \in Busy, Done(w, at)
    PROVE  /\ proc' \in [Workers -> Process]
           /\ \A v \in Workers : ProcessOK(proc'[v])
           /\ WorkIsCurrent'
           /\ \A v \in Workers \ {w} : proc'[v] = proc[v]
           /\ proc'[w].at # "reset"
<1> DEFINE next == IF Len(proc[w].work) = 1 THEN "dedup" ELSE at
           p == [proc[w] EXCEPT !.work = Tail(@), !.at = next]
<1>1. proc \in [Workers -> Process] /\ ProcessOK(proc[w])
  BY TypeByRecord
<1>2. proc[w].work \in Seq(Items) /\ proc[w].work # <<>>
  BY <1>1 DEF ProcessOK, Process, Items
<1>3. /\ Tail(proc[w].work) \in Seq(Items)
      /\ Len(Tail(proc[w].work)) = Len(proc[w].work) - 1
      /\ \A i \in 1..Len(Tail(proc[w].work)) : Tail(proc[w].work)[i] = proc[w].work[i + 1]
  BY <1>2, HeadTailProperties
<1>4. Len(proc[w].work) \in Nat \ {0} /\ Len(<<>>) = 0
  BY <1>2, EmptySeq
<1>5. /\ p \in Process
      /\ p.at = next /\ p.dim = proc[w].dim /\ p.work = Tail(proc[w].work)
  BY <1>1, <1>3 DEF Process, Busy, Items
<1>6. proc' = [proc EXCEPT ![w] = p]
  BY <1>1 DEF Done
<1>7. ProcessOK(p)
  <2>1. p.at \in Busy => Len(proc[w].work) # 1
    BY <1>5 DEF Busy
  <2>2. Len(proc[w].work) # 1 => Len(Tail(proc[w].work)) # 0
    BY <1>3, <1>4
  <2>3. p.at \in Busy => p.work # <<>>
    BY <1>4, <1>5, <2>1, <2>2
  <2>4. proc[w].dim \in Dims
    BY <1>1 DEF ProcessOK, Busy
  <2> QED
    BY <1>5, <2>3, <2>4 DEF ProcessOK
<1>8. \A i \in 1..Len(p.work) : \E j \in 1..Len(proc[w].work) : p.work[i] = proc[w].work[j]
  BY <1>3, <1>4, <1>5
<1>9. p.at # "reset"
  BY <1>5 DEF Busy
<1> HIDE DEF p
<1> QED
  BY <1>1, <1>6, <1>7, <1>8, <1>9, ProcessStep

----------------------------------------------------------------------------
(* Invariance *)

LEMMA InitInvariant == Init => IInv
<1> SUFFICES ASSUME Init PROVE IInv
  OBVIOUS
<1>1. TypeOK
  BY EmbeddingAssumption, AbsentIsTyped, DownIsTyped, TypeByRecord DEF Init, ChunkOK, ProcessOK
<1>2. WorkIsCurrent
  BY DownIsTyped DEF Init, WorkIsCurrent
<1> QED
  BY <1>1, <1>2, AbsentIsTyped
     DEF Init, IInv, VectorsBelongToTheirContent, ExhaustedAreSettled, Settled

\* Without a column there are no vectors.
LEMMA NoColumnNoVectors ==
    ASSUME IInv, column = NoDim
    PROVE  \A c \in Ids : chunk[c].vector = NoVector
BY EmbeddingAssumption DEF IInv, TypeOK, Chunk, Vectors, VectorsBelongToTheirContent

\* No row of doc_chunks changes.
LEMMA QuietStep ==
    ASSUME IInv, UNCHANGED chunk,
           column' = column \/ (column = NoDim /\ column' \in Dims),
           crashes' \in 0..MaxCrashes, crashes' = 0 => crashes = 0,
           proc' \in [Workers -> Process],
           \A v \in Workers : ProcessOK(proc'[v]),
           WorkIsCurrent',
           crashes' # 0 \/ \A v \in Workers : proc[v].at = "reset" => proc'[v].at = "reset"
    PROVE  IInv'
<1>1. TypeOK'
  BY TypeByRecord DEF IInv, TypeOK, ChunkOK, ProcessOK, Live, Busy
<1>2. VectorsBelongToTheirContent'
  BY NoColumnNoVectors DEF IInv, VectorsBelongToTheirContent
<1>3. ExhaustedAreSettled'
  BY DEF IInv, ExhaustedAreSettled, Settled
<1> QED
  BY <1>1, <1>2, <1>3 DEF IInv

LEMMA RowsUnchanged == UNCHANGED chunk => RowsKeep
BY DEF RowsKeep

\* Processes come up, add the column and stop.
LEMMA StartupPreserves ==
    ASSUME IInv, NEW w \in Workers,
           \/ \E d \in Dims : Start(w, d)
           \/ AddColumn(w) \/ StartupFails(w) \/ Crash(w)
    PROVE  IInv'
<1> USE EmbeddingAssumption
<1>0. /\ proc \in [Workers -> Process] /\ ProcessOK(proc[w])
      /\ crashes \in 0..MaxCrashes
      /\ TypeOK /\ WorkIsCurrent
  BY TypeByRecord DEF IInv
<1>1. ASSUME NEW d \in Dims, Start(w, d) PROVE IInv'
  <2> DEFINE at == IF column \in {NoDim, d} THEN "add" ELSE "drop"
             p == [proc[w] EXCEPT !.dim = d, !.at = at]
  <2>1. p \in Process /\ p.at = at /\ p.dim = d /\ p.work = proc[w].work
    BY <1>0 DEF Process
  <2>2. proc' = [proc EXCEPT ![w] = p]
    BY <1>0, <1>1 DEF Start
  <2>3. ProcessOK(p)
    BY <2>1 DEF ProcessOK, Busy
  <2>4. \A i \in 1..Len(p.work) : \E j \in 1..Len(proc[w].work) : p.work[i] = proc[w].work[j]
    BY <2>1
  <2> HIDE DEF p
  <2>5. /\ proc' \in [Workers -> Process]
        /\ \A v \in Workers : ProcessOK(proc'[v])
        /\ WorkIsCurrent'
    BY <1>0, <1>1, <2>2, <2>3, <2>4, RowsUnchanged, ProcessStep DEF Start
  <2>6. \A v \in Workers : proc[v].at = "reset" => proc'[v].at = "reset"
    BY <1>0, <1>1, <2>2 DEF Start
  <2> QED
    BY <1>0, <1>1, <2>5, <2>6, QuietStep DEF Start
<1>2. ASSUME AddColumn(w) PROVE IInv'
  <2>1. /\ proc' \in [Workers -> Process]
        /\ \A v \in Workers : ProcessOK(proc'[v])
        /\ WorkIsCurrent'
        /\ \A v \in Workers : proc'[v].at = IF v = w THEN "dedup" ELSE proc[v].at
    BY <1>0, <1>2, RowsUnchanged, GotoStep DEF AddColumn, Busy
  <2>2. column' = column \/ (column = NoDim /\ column' \in Dims)
    BY <1>0, <1>2 DEF AddColumn, ProcessOK
  <2>3. \A v \in Workers : proc[v].at = "reset" => proc'[v].at = "reset"
    BY <1>2, <2>1 DEF AddColumn
  <2> QED
    BY <1>0, <1>2, <2>1, <2>2, <2>3, QuietStep DEF AddColumn
<1>3. ASSUME StartupFails(w) \/ Crash(w) PROVE IInv'
  <2>1. proc' = [proc EXCEPT ![w] = Down] /\ UNCHANGED <<chunk, column>>
    BY <1>3 DEF StartupFails, Crash
  <2>1a. \A i \in 1..Len(Down.work) : FALSE
    BY DownIsTyped
  <2>2. /\ proc' \in [Workers -> Process]
        /\ \A v \in Workers : ProcessOK(proc'[v])
        /\ WorkIsCurrent'
    BY <1>0, <2>1, <2>1a, RowsUnchanged, DownIsTyped, ProcessStep
  <2>3. CASE StartupFails(w)
    <3>1. \A v \in Workers : proc[v].at = "reset" => proc'[v].at = "reset"
      BY <1>0, <2>1, <2>3 DEF StartupFails
    <3> QED
      BY <1>0, <2>2, <2>3, <3>1, QuietStep DEF StartupFails
  <2>4. CASE Crash(w)
    <3>1. crashes' \in 0..MaxCrashes /\ crashes' # 0
      BY <1>0, <2>4 DEF Crash
    <3> QED
      BY <2>1, <2>2, <3>1, QuietStep
  <2> QED
    BY <1>3, <2>3, <2>4
<1> QED
  BY <1>1, <1>2, <1>3

\* The steps of the loop that write nothing.
LEMMA QuietLoopPreserves ==
    ASSUME IInv, NEW w \in Workers,
           \/ DedupFails(w) \/ Fetch(w) \/ FetchFails(w) \/ EmbedBatch(w) \/ EmbedOne(w)
           \/ StoreFails(w) \/ MarkFails(w)
    PROVE  IInv'
<1> USE EmbeddingAssumption
<1>0. /\ chunk \in [Ids -> Chunk] /\ \A c \in Ids : ChunkOK(chunk[c])
      /\ proc \in [Workers -> Process] /\ ProcessOK(proc[w])
      /\ crashes \in 0..MaxCrashes
      /\ TypeOK /\ WorkIsCurrent
  BY TypeByRecord DEF IInv
<1>a. ASSUME NEW at \in {"dedup", "fetch"} \cup Busy, proc[w].at # "down", proc[w].at # "reset",
             at \in Busy => proc[w].work # <<>>, Goto(w, at), UNCHANGED <<chunk, column, crashes>>
      PROVE  IInv'
  <2>1. /\ proc' \in [Workers -> Process]
        /\ \A v \in Workers : ProcessOK(proc'[v])
        /\ WorkIsCurrent'
        /\ \A v \in Workers : proc'[v].at = IF v = w THEN at ELSE proc[v].at
    BY <1>0, <1>a, RowsUnchanged, GotoStep
  <2> QED
    BY <1>0, <1>a, <2>1, QuietStep
<1>b. ASSUME NEW at \in Busy, proc[w].at \in Busy, Done(w, at), UNCHANGED <<chunk, column, crashes>>
      PROVE  IInv'
  <2>1. /\ proc' \in [Workers -> Process]
        /\ \A v \in Workers : ProcessOK(proc'[v])
        /\ WorkIsCurrent'
        /\ \A v \in Workers \ {w} : proc'[v] = proc[v]
    BY <1>0, <1>b, RowsUnchanged, DoneStep
  <2>2. \A v \in Workers : proc[v].at = "reset" => proc'[v].at = "reset"
    BY <1>b, <2>1 DEF Busy
  <2> QED
    BY <1>0, <1>b, <2>1, <2>2, QuietStep
<1>1. CASE DedupFails(w)
  BY <1>a, <1>1 DEF DedupFails, Busy
<1>2. CASE FetchFails(w)
  BY <1>a, <1>2 DEF FetchFails, Busy
<1>3. CASE EmbedBatch(w) \/ EmbedOne(w)
  <2>1. proc[w].at \in Busy /\ proc[w].work # <<>>
    BY <1>0, <1>3 DEF EmbedBatch, EmbedOne, ProcessOK, Busy
  <2> QED
    BY <1>a, <1>3, <2>1 DEF EmbedBatch, EmbedOne, Embed, Busy
<1>4. CASE StoreFails(w) \/ MarkFails(w)
  BY <1>b, <1>4 DEF StoreFails, MarkFails, Busy
<1>5. CASE Fetch(w)
  <2>0. PICK ids \in UNION {[1..n -> Ids] : n \in 0..BatchSize} :
           LET work == [i \in DOMAIN ids |-> [id |-> ids[i], text |-> chunk[ids[i]].text]]
           IN  /\ \A i \in DOMAIN ids : Pending(ids[i])
               /\ proc' = [proc EXCEPT ![w].work = work, ![w].at = AfterFetch(work)]
    BY <1>5, Zenon DEF Fetch
  <2>1. PICK n \in 0..BatchSize : ids \in [1..n -> Ids]
    OBVIOUS
  <2> DEFINE work == [i \in 1..n |-> [id |-> ids[i], text |-> chunk[ids[i]].text]]
             p == [proc[w] EXCEPT !.work = work, !.at = AfterFetch(work)]
  <2>2. \A i \in 1..n : Pending(ids[i])
    BY <2>0, <2>1
  <2>3. \A i \in 1..n : [id |-> ids[i], text |-> chunk[ids[i]].text] \in Items
    BY <1>0, <2>1, <2>2 DEF Items, Pending, ChunkOK
  <2>4. work \in Seq(Items)
    BY <2>3, n \in Nat
  <2>4a. DOMAIN work = 1..Len(work) /\ 1..Len(work) = 1..n
    BY <2>4, LenProperties
  <2>5. \A i \in 1..n : work[i].id = ids[i] /\ work[i].text = chunk[ids[i]].text
    OBVIOUS
  <2>6. proc' = [proc EXCEPT ![w] = p]
    BY <1>0, <2>0, <2>1
  <2> HIDE DEF work
  <2>7. /\ p \in Process
        /\ p.at = AfterFetch(work) /\ p.dim = proc[w].dim /\ p.work = work
    BY <1>0, <2>4 DEF Process, Items, AfterFetch
  <2> HIDE DEF p
  <2>8. ProcessOK(p)
    BY <1>0, <1>5, <2>7 DEF ProcessOK, Busy, AfterFetch, Fetch
  <2>9. \A i \in 1..n : Current(work[i])
    BY <2>2, <2>5 DEF Current, Pending
  <2>10. UNCHANGED <<chunk, column, crashes>>
    BY <1>5 DEF Fetch
  <2>11. /\ proc' \in [Workers -> Process]
         /\ \A v \in Workers : ProcessOK(proc'[v])
         /\ WorkIsCurrent'
    BY <1>0, <2>4a, <2>6, <2>7, <2>8, <2>9, <2>10, RowsUnchanged, ProcessStep
  <2>12. \A v \in Workers : proc[v].at = "reset" => proc'[v].at = "reset"
    BY <1>0, <1>5, <2>6 DEF Fetch
  <2> QED
    BY <1>0, <2>10, <2>11, <2>12, QuietStep
<1> QED
  BY <1>1, <1>2, <1>3, <1>4, <1>5

\* A step writes rows that were there, and leaves their texts.
LEMMA RowsWritten ==
    ASSUME TypeOK, chunk' \in [Ids -> Chunk],
           \A c \in Ids : \/ chunk'[c] = chunk[c]
                          \/ chunk'[c].row = chunk[c].row /\ chunk'[c].text = chunk[c].text
    PROVE  RowsKeep
BY DEF RowsKeep

\* A change of the column, statement by statement.
LEMMA ColumnPreserves ==
    ASSUME IInv, NEW w \in Workers, DropColumn(w) \/ ResetBookkeeping(w)
    PROVE  IInv'
<1> USE EmbeddingAssumption
<1>0. /\ chunk \in [Ids -> Chunk] /\ \A c \in Ids : ChunkOK(chunk[c])
      /\ column \in Dims \cup {NoDim}
      /\ proc \in [Workers -> Process]
      /\ crashes \in 0..MaxCrashes
      /\ TypeOK /\ WorkIsCurrent
  BY TypeByRecord DEF IInv
<1>1. CASE DropColumn(w)
  <2>1. \A c \in Ids : chunk'[c] = Dropped(chunk[c])
    BY <1>1 DEF DropColumn, Dropped
  <2>2. \A c \in Ids :
          /\ ChunkOK(chunk'[c]) /\ chunk'[c].vector = NoVector
          /\ chunk'[c].row = chunk[c].row /\ chunk'[c].text = chunk[c].text
    <3>1. ASSUME NEW c \in Ids PROVE ChunkOK(chunk[c])
      BY <1>0
    <3> QED
      BY <2>1, <3>1, DroppedIsTyped
  <2>4. chunk' \in [Ids -> Chunk]
    BY <1>1, <2>2 DEF DropColumn, ChunkOK
  <2>5. /\ proc' \in [Workers -> Process]
        /\ \A v \in Workers : ProcessOK(proc'[v])
        /\ WorkIsCurrent'
        /\ \A v \in Workers : proc'[v].at = IF v = w THEN "reset" ELSE proc[v].at
    BY <1>0, <1>1, <2>2, <2>4, RowsWritten, GotoStep DEF DropColumn, Busy
  <2>6. TypeOK'
    BY <1>0, <1>1, <2>2, <2>4, <2>5 DEF DropColumn, TypeOK, ChunkOK, ProcessOK, Live, Busy
  <2>7. ExhaustedAreSettled'
    BY <2>5 DEF ExhaustedAreSettled
  <2> QED
    BY <2>2, <2>5, <2>6, <2>7 DEF IInv, VectorsBelongToTheirContent
<1>2. CASE ResetBookkeeping(w)
  <2>1. \A c \in Ids : chunk'[c] = Requeued(chunk[c])
    BY <1>2 DEF ResetBookkeeping, Requeued
  <2>2. \A c \in Ids :
          /\ ChunkOK(chunk'[c]) /\ chunk'[c].attempts = 0
          /\ chunk'[c].row = chunk[c].row /\ chunk'[c].text = chunk[c].text
          /\ chunk'[c].vector = chunk[c].vector
    <3>1. ASSUME NEW c \in Ids PROVE ChunkOK(chunk[c])
      BY <1>0
    <3> QED
      BY <2>1, <3>1, RequeuedIsTyped
  <2>4. chunk' \in [Ids -> Chunk]
    BY <1>2, <2>2 DEF ResetBookkeeping, ChunkOK
  <2>5. /\ proc' \in [Workers -> Process]
        /\ \A v \in Workers : ProcessOK(proc'[v])
        /\ WorkIsCurrent'
    BY <1>0, <1>2, <2>2, <2>4, RowsWritten, GotoStep DEF ResetBookkeeping, Busy
  <2>6. TypeOK'
    BY <1>0, <1>2, <2>2, <2>4, <2>5
       DEF ResetBookkeeping, TypeOK, ChunkOK, ProcessOK, Live, Busy
  <2>7. ExhaustedAreSettled'
    BY <2>2, EmbeddingAssumption DEF ExhaustedAreSettled
  <2>8. VectorsBelongToTheirContent'
    BY <1>2, <2>2 DEF ResetBookkeeping, IInv, VectorsBelongToTheirContent
  <2> QED
    BY <2>5, <2>6, <2>7, <2>8 DEF IInv
<1> QED
  BY <1>1, <1>2

\* Only the row of one chunk changes, if it is there: its vector is as it must be, and it is
\* settled if its attempts are used up.
LEMMA ChunkStep ==
    ASSUME IInv, NEW c \in Ids, NEW r \in Chunk, chunk[c].row = "there",
           chunk' = [chunk EXCEPT ![c] = r],
           r.row = "there", r.text = chunk[c].text,
           \/ r.vector = chunk[c].vector
           \/ /\ r.vector \in Vectors
              /\ ContentOf[r.vector.of] = ContentOf[r.text] /\ r.vector.dim = column,
           \/ SettlesIfExhausted(r)
           \/ /\ r.attempts = chunk[c].attempts
              /\ r.failed = chunk[c].failed
              /\ r.vector = chunk[c].vector,
           UNCHANGED <<column, crashes>>,
           proc' \in [Workers -> Process],
           \A v \in Workers : ProcessOK(proc'[v]),
           WorkIsCurrent',
           \A v \in Workers : proc[v].at = "reset" => proc'[v].at = "reset"
    PROVE  IInv'
<1> USE EmbeddingAssumption
<1>0. /\ chunk \in [Ids -> Chunk] /\ \A d \in Ids : ChunkOK(chunk[d])
      /\ column \in Dims \cup {NoDim} /\ crashes \in 0..MaxCrashes
  BY TypeByRecord DEF IInv
<1>1. chunk'[c] = r /\ \A d \in Ids \ {c} : chunk'[d] = chunk[d]
  BY <1>0
<1>2. ChunkOK(r)
  BY <1>0 DEF ChunkOK
<1>3. chunk' \in [Ids -> Chunk] /\ \A d \in Ids : ChunkOK(chunk'[d])
  BY <1>0, <1>1, <1>2
<1>4. TypeOK'
  BY <1>0, <1>3 DEF TypeOK, ChunkOK, ProcessOK, Live, Busy
<1>5. VectorsBelongToTheirContent'
  BY <1>1 DEF IInv, VectorsBelongToTheirContent
<1>6. ExhaustedAreSettled'
  <2>1. ASSUME NEW d \in Ids, MaxAttempts > 0, chunk'[d].attempts >= MaxAttempts, crashes = 0,
               \A v \in Workers : proc'[v].at # "reset"
        PROVE  Settled(d)'
    <3>1. MaxAttempts > 0 /\ chunk[d].attempts >= MaxAttempts => Settled(d)
      BY <2>1 DEF IInv, ExhaustedAreSettled
    <3>2. CASE d # c
      BY <1>1, <2>1, <3>1, <3>2 DEF Settled
    <3>3. CASE d = c /\ SettlesIfExhausted(r)
      BY <1>1, <2>1, <3>3, Zenon DEF Settled, SettlesIfExhausted
    <3>4. CASE d = c /\ r.attempts = chunk[c].attempts /\ r.failed = chunk[c].failed
                 /\ r.vector = chunk[c].vector
      BY <1>1, <2>1, <3>1, <3>4, Zenon DEF Settled
    <3> QED
      BY <1>1, <2>1, <3>2, <3>3, <3>4
  <2> QED
    BY <2>1 DEF ExhaustedAreSettled
<1> QED
  BY <1>4, <1>5, <1>6 DEF IInv

\* The answers that are stored, the refusals that are counted, and the time that passes.
LEMMA AnswersPreserve ==
    ASSUME IInv,
           \/ \E w \in Workers : Store(w) \/ MarkFailed(w)
           \/ \E c \in Ids : BackoffElapses(c)
    PROVE  IInv'
<1> USE EmbeddingAssumption
<1>0. /\ chunk \in [Ids -> Chunk] /\ \A c \in Ids : ChunkOK(chunk[c])
      /\ proc \in [Workers -> Process] /\ \A w \in Workers : ProcessOK(proc[w])
      /\ crashes \in 0..MaxCrashes
      /\ TypeOK /\ WorkIsCurrent
  BY TypeByRecord DEF IInv
<1>a. ASSUME NEW w \in Workers, proc[w].at \in Busy
      PROVE  /\ Head(proc[w].work) \in Items
             /\ Current(Head(proc[w].work))
             /\ proc[w].dim \in Dims
  <2>1. proc[w].work \in Seq(Items) /\ proc[w].work # <<>> /\ proc[w].dim \in Dims
    BY <1>0, <1>a DEF ProcessOK, Process, Items, Busy
  <2>2. Len(proc[w].work) \in Nat \ {0} /\ Head(proc[w].work) = proc[w].work[1]
    BY <2>1, EmptySeq
  <2> QED
    BY <2>1, <2>2, <1>0, HeadTailProperties DEF WorkIsCurrent
<1>1. ASSUME NEW w \in Workers, Store(w) PROVE IInv'
  <2> DEFINE item == Head(proc[w].work)
             c == item.id
             r == Embedded(chunk[c], [of |-> item.text, dim |-> proc[w].dim])
  <2>1. /\ item \in Items /\ Current(item) /\ proc[w].dim \in Dims
        /\ proc[w].at \in Busy /\ column = proc[w].dim
    BY <1>a, <1>1 DEF Store, Busy
  <2>2. CASE chunk[c].row # "there"
    <3>1. UNCHANGED <<chunk, column, crashes>>
      BY <1>1, <2>2 DEF Store
    <3>2. PICK at \in Busy : Done(w, at)
      BY <1>1 DEF Store, Busy
    <3>3. /\ proc' \in [Workers -> Process]
          /\ \A v \in Workers : ProcessOK(proc'[v])
          /\ WorkIsCurrent'
          /\ \A v \in Workers \ {w} : proc'[v] = proc[v]
      BY <1>0, <2>1, <3>1, <3>2, RowsUnchanged, DoneStep
    <3>4. \A v \in Workers : proc[v].at = "reset" => proc'[v].at = "reset"
      BY <2>1, <3>3 DEF Busy
    <3> QED
      BY <1>0, <3>1, <3>3, <3>4, QuietStep
  <2>3. CASE chunk[c].row = "there"
    <3>1. c \in Ids /\ chunk[c].text = item.text /\ item.text \in Texts
      BY <2>1, <2>3 DEF Current, Items
    <3>2. chunk' = [chunk EXCEPT ![c] = r] /\ UNCHANGED <<column, crashes>>
      BY <1>0, <1>1, <2>3, <3>1 DEF Store, Embedded
    <3>3. [of |-> item.text, dim |-> proc[w].dim] \in Vectors
      BY <2>1, <3>1 DEF Vectors
    <3>4. /\ r \in Chunk
          /\ r.row = "there" /\ r.text = chunk[c].text
          /\ r.vector = [of |-> item.text, dim |-> proc[w].dim]
      <4>1. chunk[c] \in Chunk
        BY <1>0, <3>1
      <4> HIDE DEF c, item
      <4> QED
        BY <2>3, <3>3, <4>1, EmbeddedIsTyped
    <3>5. /\ r.vector \in Vectors /\ r.vector # NoVector
          /\ ContentOf[r.vector.of] = ContentOf[r.text] /\ r.vector.dim = column
      <4> HIDE DEF r, c, item
      <4>1. r.vector.of = item.text /\ r.vector.dim = proc[w].dim
        BY <3>4
      <4>2. r.vector \in Vectors /\ r.vector # NoVector
        BY <3>3, <3>4 DEF Vectors
      <4> QED
        BY <2>1, <3>1, <3>4, <4>1, <4>2
    <3> HIDE DEF r, c, item
    <3>6. chunk' \in [Ids -> Chunk] /\ RowsKeep
      BY <1>0, <2>3, <3>1, <3>2, <3>4 DEF RowsKeep
    <3>7. PICK at \in Busy : Done(w, at)
      BY <1>1 DEF Store, Busy
    <3>8. /\ proc' \in [Workers -> Process]
          /\ \A v \in Workers : ProcessOK(proc'[v])
          /\ WorkIsCurrent'
          /\ \A v \in Workers \ {w} : proc'[v] = proc[v]
      BY <1>0, <2>1, <3>6, <3>7, DoneStep
    <3>9. \A v \in Workers : proc[v].at = "reset" => proc'[v].at = "reset"
      BY <2>1, <3>8 DEF Busy
    <3>10. SettlesIfExhausted(r)
      BY <3>5, Zenon DEF SettlesIfExhausted
    <3> QED
      <4>1. proc' \in [Workers -> Process] /\ WorkIsCurrent'
        BY <3>8
      <4>2. \A v \in Workers : ProcessOK(proc'[v])
        BY <3>8
      <4> QED
        BY <2>3, <3>1, <3>2, <3>4, <3>5, <3>9, <3>10, <4>1, <4>2, ChunkStep
  <2> QED
    BY <2>2, <2>3
<1>2. ASSUME NEW w \in Workers, MarkFailed(w) PROVE IInv'
  <2> DEFINE c == Head(proc[w].work).id
             r == AfterFailure(chunk[c])
  <2>1. /\ c \in Ids /\ proc[w].at \in Busy /\ Done(w, "single")
        /\ UNCHANGED <<column, crashes>>
    BY <1>a, <1>2 DEF MarkFailed, Busy, Items
  <2>2. CASE ~Markable(c)
    <3>1. UNCHANGED chunk
      BY <1>2, <2>2 DEF MarkFailed
    <3>2. /\ proc' \in [Workers -> Process]
          /\ \A v \in Workers : ProcessOK(proc'[v])
          /\ WorkIsCurrent'
          /\ \A v \in Workers \ {w} : proc'[v] = proc[v]
      BY <1>0, <2>1, <3>1, RowsUnchanged, DoneStep DEF Busy
    <3>3. \A v \in Workers : proc[v].at = "reset" => proc'[v].at = "reset"
      BY <2>1, <3>2 DEF Busy
    <3> QED
      BY <1>0, <2>1, <3>1, <3>2, <3>3, QuietStep
  <2>3. CASE Markable(c)
    <3>1. chunk[c].row = "there" /\ chunk' = [chunk EXCEPT ![c] = r]
      BY <1>0, <1>2, <2>1, <2>3 DEF MarkFailed, Markable
    <3>2. /\ r \in Chunk
          /\ r.row = "there" /\ r.text = chunk[c].text /\ r.vector = chunk[c].vector
          /\ SettlesIfExhausted(r)
      BY <1>0, <2>1, <3>1, FailureIsTyped
    <3> HIDE DEF r, c
    <3>3. chunk' \in [Ids -> Chunk] /\ RowsKeep
      BY <1>0, <2>1, <3>1, <3>2 DEF RowsKeep
    <3>4. /\ proc' \in [Workers -> Process]
          /\ \A v \in Workers : ProcessOK(proc'[v])
          /\ WorkIsCurrent'
          /\ \A v \in Workers \ {w} : proc'[v] = proc[v]
      BY <1>0, <2>1, <3>3, DoneStep DEF Busy
    <3>5. \A v \in Workers : proc[v].at = "reset" => proc'[v].at = "reset"
      BY <2>1, <3>4 DEF Busy
    <3> QED
      <4>1. proc' \in [Workers -> Process] /\ WorkIsCurrent'
        BY <3>4
      <4>2. \A v \in Workers : ProcessOK(proc'[v])
        BY <3>4
      <4>3. c \in Ids /\ UNCHANGED <<column, crashes>>
        BY <2>1
      <4> QED
        BY <3>1, <3>2, <3>5, <4>1, <4>2, <4>3, ChunkStep
  <2> QED
    BY <2>2, <2>3
<1>3. ASSUME NEW c \in Ids, BackoffElapses(c) PROVE IInv'
  <2> DEFINE r == Due(chunk[c])
  <2>1. chunk' = [chunk EXCEPT ![c] = r] /\ UNCHANGED <<column, proc, crashes>>
    BY <1>0, <1>3 DEF BackoffElapses, Due
  <2>2. chunk[c].row = "there"
    BY <1>0, <1>3 DEF BackoffElapses, ChunkOK, Absent
  <2>3. /\ r \in Chunk
        /\ r.row = "there" /\ r.text = chunk[c].text /\ r.vector = chunk[c].vector
        /\ r.attempts = chunk[c].attempts /\ r.failed = chunk[c].failed
    BY <1>0, <2>2, DueIsTyped
  <2> HIDE DEF r
  <2>4. chunk' \in [Ids -> Chunk] /\ RowsKeep
    BY <1>0, <2>1, <2>2, <2>3 DEF RowsKeep
  <2>5. WorkIsCurrent'
    BY <1>0, <2>1, <2>4, ProcessesStay
  <2> QED
    <3>1. \A v \in Workers : ProcessOK(proc'[v])
      BY <1>0, <2>1
    <3>2. proc' \in [Workers -> Process]
      BY <1>0, <2>1
    <3>3. \A v \in Workers : proc[v].at = "reset" => proc'[v].at = "reset"
      BY <2>1
    <3> QED
      BY <2>1, <2>2, <2>3, <2>5, <3>1, <3>2, <3>3, ChunkStep
<1> QED
  BY <1>1, <1>2, <1>3

\* A duplicate has a vector copied to it, and a chunk that has one keeps it.
LEMMA DedupOfOneChunk ==
    ASSUME IInv, NEW w \in Workers, Dedup(w), NEW c \in Ids
    PROVE  \/ chunk'[c] = chunk[c]
           \/ \E d \in Ids : Duplicates(c, d) /\ chunk'[c] = [chunk[c] EXCEPT !.vector = chunk[d].vector]
<1>1. PICK from \in [Ids -> Ids] :
         /\ \A d \in Ids : (\E e \in Ids : Duplicates(d, e)) => Duplicates(d, from[d])
         /\ \A d \in Ids : ~(\E e \in Ids : Duplicates(d, e)) => from[d] = d
         /\ chunk' = [d \in Ids |-> [chunk[d] EXCEPT !.vector = chunk[from[d]].vector]]
  BY DEF Dedup
<1>2. chunk'[c] = [chunk[c] EXCEPT !.vector = chunk[from[c]].vector] /\ from[c] \in Ids
  BY <1>1
<1>3. CASE \E d \in Ids : Duplicates(c, d)
  BY <1>1, <1>2, <1>3
<1>4. CASE ~\E d \in Ids : Duplicates(c, d)
  <2>1. from[c] = c /\ chunk[c] \in Chunk
    BY <1>1, <1>4 DEF IInv, TypeOK
  <2> QED
    BY <1>2, <2>1 DEF Chunk
<1> QED
  BY <1>3, <1>4

LEMMA CopiedIsTyped ==
    ASSUME NEW r \in Chunk, NEW v \in Vectors \cup {NoVector}, NEW s, s = [r EXCEPT !.vector = v]
    PROVE  /\ s \in Chunk /\ s.vector = v
           /\ s.row = r.row /\ s.text = r.text
BY DEF Chunk

LEMMA DedupPreserves ==
    ASSUME IInv, NEW w \in Workers, Dedup(w)
    PROVE  IInv'
<1> USE EmbeddingAssumption
<1>0. /\ chunk \in [Ids -> Chunk] /\ \A c \in Ids : ChunkOK(chunk[c])
      /\ column \in Dims \cup {NoDim}
      /\ proc \in [Workers -> Process] /\ \A v \in Workers : ProcessOK(proc[v])
      /\ crashes \in 0..MaxCrashes
      /\ TypeOK /\ WorkIsCurrent
  BY TypeByRecord DEF IInv
<1>1. ASSUME NEW c \in Ids
      PROVE  \/ chunk'[c] = chunk[c]
             \/ /\ ChunkOK(chunk'[c])
                /\ chunk'[c].row = "there" /\ chunk'[c].row = chunk[c].row
                /\ chunk'[c].text = chunk[c].text
                /\ chunk'[c].vector # NoVector
                /\ ContentOf[chunk'[c].vector.of] = ContentOf[chunk'[c].text]
                /\ chunk'[c].vector.dim = column
  <2>1. CASE chunk'[c] # chunk[c]
    <3>1. PICK d \in Ids : /\ Duplicates(c, d)
                           /\ chunk'[c] = [chunk[c] EXCEPT !.vector = chunk[d].vector]
      BY <2>1, DedupOfOneChunk
    <3>2. /\ chunk[c] \in Chunk /\ chunk[c].row = "there"
          /\ chunk[d].vector # NoVector /\ chunk[d].vector \in Vectors \cup {NoVector}
          /\ ContentOf[chunk[d].text] = ContentOf[chunk[c].text]
      BY <1>0, <3>1 DEF Duplicates, Chunk
    <3>3. /\ chunk'[c] \in Chunk /\ chunk'[c].vector = chunk[d].vector
          /\ chunk'[c].row = chunk[c].row /\ chunk'[c].text = chunk[c].text
      BY <3>1, <3>2, CopiedIsTyped
    <3>4. /\ ContentOf[chunk[d].vector.of] = ContentOf[chunk[d].text]
          /\ chunk[d].vector.dim = column
      BY <3>2 DEF IInv, VectorsBelongToTheirContent
    <3>5. ChunkOK(chunk'[c])
      BY <1>0, <3>2, <3>3 DEF ChunkOK
    <3> QED
      BY <3>2, <3>3, <3>4, <3>5
  <2> QED
    BY <2>1
<1>2. \A c \in Ids : ChunkOK(chunk'[c])
  BY <1>0, <1>1
<1>3. chunk' \in [Ids -> Chunk]
  BY <1>2 DEF Dedup, ChunkOK
<1>4. RowsKeep
  BY <1>1, <1>3 DEF RowsKeep
<1>5. Goto(w, "fetch") /\ proc[w].at = "dedup" /\ UNCHANGED <<column, crashes>>
  BY DEF Dedup
<1>6. /\ proc' \in [Workers -> Process]
      /\ \A v \in Workers : ProcessOK(proc'[v])
      /\ WorkIsCurrent'
      /\ \A v \in Workers : proc'[v].at = IF v = w THEN "fetch" ELSE proc[v].at
  BY <1>0, <1>4, <1>5, GotoStep DEF Busy
<1>7. TypeOK'
  BY <1>0, <1>2, <1>3, <1>5, <1>6 DEF TypeOK, ChunkOK, ProcessOK, Live, Busy
<1>8. VectorsBelongToTheirContent'
  BY <1>1, <1>5 DEF IInv, VectorsBelongToTheirContent
<1>9. \A v \in Workers : proc[v].at = "reset" => proc'[v].at = "reset"
  BY <1>5, <1>6
<1>10. ExhaustedAreSettled'
  <2>1. ASSUME NEW c \in Ids, MaxAttempts > 0, chunk'[c].attempts >= MaxAttempts, crashes = 0,
               \A v \in Workers : proc'[v].at # "reset"
        PROVE  Settled(c)'
    <3>1. MaxAttempts > 0 /\ chunk[c].attempts >= MaxAttempts => Settled(c)
      BY <1>9, <2>1 DEF IInv, ExhaustedAreSettled
    <3>2. CASE chunk'[c] = chunk[c]
      BY <2>1, <3>1, <3>2 DEF Settled
    <3>3. CASE chunk'[c].vector # NoVector
      BY <3>3 DEF Settled
    <3> QED
      BY <1>1, <3>2, <3>3
  <2> QED
    BY <1>5, <2>1 DEF ExhaustedAreSettled
<1> QED
  BY <1>6, <1>7, <1>8, <1>10 DEF IInv

LEMMA ReindexPreserves ==
    ASSUME IInv, NEW gone \in SUBSET Ids, NEW fresh \in SUBSET Ids, NEW born \in [fresh -> Texts],
           Reindex(gone, born)
    PROVE  IInv'
<1> USE EmbeddingAssumption
<1>0. /\ chunk \in [Ids -> Chunk] /\ \A c \in Ids : ChunkOK(chunk[c])
      /\ column \in Dims \cup {NoDim}
      /\ proc \in [Workers -> Process] /\ \A v \in Workers : ProcessOK(proc[v])
      /\ crashes \in 0..MaxCrashes
      /\ TypeOK /\ WorkIsCurrent
  BY TypeByRecord DEF IInv
<1>1. UNCHANGED <<column, proc, crashes>>
  BY DEF Reindex
<1>2. ASSUME NEW c \in Ids
      PROVE  /\ ChunkOK(chunk'[c])
             /\ chunk[c].row # "unborn" => chunk'[c] = chunk[c] \/ chunk'[c].row = "gone"
             /\ \/ chunk'[c] = chunk[c]
                \/ chunk'[c].vector = NoVector /\ chunk'[c].attempts = 0
  <2>1. CASE c \in gone
    <3>1. chunk'[c] = Absent("gone")
      BY <2>1 DEF Reindex
    <3> QED
      BY <3>1, AbsentIsTyped
  <2>2. CASE c \notin gone /\ c \in fresh
    <3>1. chunk'[c] = Fresh(born[c]) /\ born[c] \in Texts /\ chunk[c].row = "unborn"
      BY <2>2 DEF Reindex
    <3> QED
      BY <3>1, FreshIsTyped
  <2>3. CASE c \notin gone /\ c \notin fresh
    <3>1. chunk'[c] = chunk[c]
      BY <2>3 DEF Reindex
    <3> QED
      BY <1>0, <3>1
  <2> QED
    BY <2>1, <2>2, <2>3
<1>3. chunk' \in [Ids -> Chunk]
  BY <1>2 DEF Reindex, ChunkOK
<1>4. RowsKeep
  BY <1>2 DEF RowsKeep
<1>5. WorkIsCurrent'
  BY <1>0, <1>1, <1>4, ProcessesStay
<1>6. TypeOK'
  BY <1>0, <1>1, <1>2, <1>3 DEF TypeOK, ChunkOK, ProcessOK, Live, Busy
<1>7. VectorsBelongToTheirContent'
  BY <1>1, <1>2 DEF IInv, VectorsBelongToTheirContent
<1>8. ExhaustedAreSettled'
  BY <1>1, <1>2 DEF IInv, ExhaustedAreSettled, Settled
<1> QED
  BY <1>5, <1>6, <1>7, <1>8 DEF IInv

LEMMA NextInvariant == IInv /\ [Next]_vars => IInv'
<1> SUFFICES ASSUME IInv, [Next]_vars PROVE IInv'
  OBVIOUS
<1>1. CASE UNCHANGED vars
  BY <1>1 DEF vars, IInv, TypeOK, WorkIsCurrent, Current, VectorsBelongToTheirContent,
              ExhaustedAreSettled, Settled, Live
<1>2. ASSUME NEW w \in Workers, Loop(w) PROVE IInv'
  BY <1>2, QuietLoopPreserves, AnswersPreserve, DedupPreserves DEF Loop
<1>3. ASSUME NEW w \in Workers, Startup(w) \/ Crash(w) PROVE IInv'
  BY <1>3, StartupPreserves, ColumnPreserves DEF Startup
<1>4. ASSUME NEW w \in Workers, NEW d \in Dims, Start(w, d) PROVE IInv'
  BY <1>4, StartupPreserves
<1>5. ASSUME NEW gone \in SUBSET Ids, NEW fresh \in SUBSET Ids, NEW born \in [fresh -> Texts],
             Reindex(gone, born)
      PROVE  IInv'
  BY <1>5, ReindexPreserves
<1>6. ASSUME NEW c \in Ids, BackoffElapses(c) PROVE IInv'
  BY <1>6, AnswersPreserve
<1> QED
  BY <1>1, <1>2, <1>3, <1>4, <1>5, <1>6 DEF Next

\* The invariant holds throughout, whatever statements fail, processes do or edits replace.
THEOREM Invariance == Spec => []IInv
<1> QED
  BY InitInvariant, NextInvariant, PTL DEF Spec

----------------------------------------------------------------------------
(* The theorems *)

\* Every reachable state is well formed; batches are in progress exactly where work is.
THEOREM TypeCorrect == Spec => []TypeOK
<1>1. IInv => TypeOK
  BY DEF IInv
<1> QED
  BY Invariance, <1>1, PTL

\* No vector is ever that of other content or of another width, for any number of processes
\* that fetch, copy and store while chunks are replaced and the column changes.
THEOREM VectorsBelong == Spec => []VectorsBelongToTheirContent
<1>1. IInv => VectorsBelongToTheirContent
  BY DEF IInv
<1> QED
  BY Invariance, <1>1, PTL

\* A chunk is never handed out once its attempts are used up, whatever the limit.
THEOREM ExhaustedNotRetried == Spec => []ExhaustedChunksAreNotRetried
<1>1. IInv => ExhaustedChunksAreNotRetried
  BY DEF IInv, ExhaustedAreSettled, ExhaustedChunksAreNotRetried, Settled, Pending
<1> QED
  BY Invariance, <1>1, PTL

\* No step takes the vector of an embedded chunk away, counts a failure against it or makes it
\* a dead letter, while the column stays: a late refusal of one process finds what another
\* has stored.
THEOREM EmbeddedStayDone == Spec => EmbeddedChunksAreDone
<1> DEFINE A(c) ==
        chunk[c].vector # NoVector /\ chunk'[c].row = "there" /\ column' = column =>
            /\ chunk'[c].vector # NoVector
            /\ chunk'[c].attempts <= chunk[c].attempts
            /\ chunk'[c].failed => chunk[c].failed
<1> USE EmbeddingAssumption
<1>1. ASSUME IInv, [Next]_vars, NEW c \in Ids PROVE A(c)
  <2> SUFFICES ASSUME chunk[c].vector # NoVector, chunk'[c].row = "there", column' = column
               PROVE  /\ chunk'[c].vector # NoVector
                      /\ chunk'[c].attempts <= chunk[c].attempts
                      /\ chunk'[c].failed => chunk[c].failed
    OBVIOUS
  <2>0. /\ chunk \in [Ids -> Chunk] /\ \A d \in Ids : ChunkOK(chunk[d])
        /\ proc \in [Workers -> Process] /\ \A w \in Workers : ProcessOK(proc[w])
        /\ chunk[c].row = "there"
        /\ chunk[c].attempts \in Nat
        /\ TypeOK
    <3>1. chunk \in [Ids -> Chunk] /\ \A d \in Ids : ChunkOK(chunk[d])
      BY <1>1, TypeByRecord DEF IInv
    <3>2. chunk[c].row = "there"
      BY <3>1, AbsentIsTyped DEF ChunkOK, Chunk
    <3> QED
      BY <1>1, <3>1, <3>2, TypeByRecord DEF IInv, Chunk
  <2>a. CASE chunk'[c] = chunk[c]
    BY <2>0, <2>a
  <2>1. CASE UNCHANGED vars
    BY <2>1, <2>a DEF vars
  <2>2. ASSUME NEW w \in Workers,
               \/ DedupFails(w) \/ Fetch(w) \/ FetchFails(w) \/ EmbedBatch(w) \/ EmbedOne(w)
               \/ StoreFails(w) \/ MarkFails(w) \/ AddColumn(w) \/ StartupFails(w) \/ Crash(w)
               \/ \E d \in Dims : Start(w, d)
        PROVE  A(c)
    <3>1. UNCHANGED chunk
      BY <2>2 DEF DedupFails, Fetch, FetchFails, EmbedBatch, EmbedOne, Embed, StoreFails,
                  MarkFails, AddColumn, StartupFails, Crash, Start
    <3> QED
      BY <2>a, <3>1
  <2>3. ASSUME NEW w \in Workers, Dedup(w) PROVE A(c)
    <3>1. \A d \in Ids : ~Duplicates(c, d)
      BY DEF Duplicates
    <3>2. chunk'[c] = chunk[c]
      BY <1>1, <2>3, <3>1, DedupOfOneChunk
    <3> QED
      BY <2>a, <3>2
  <2>4. ASSUME NEW w \in Workers, DropColumn(w) PROVE A(c)
    BY <2>4 DEF DropColumn
  <2>5. ASSUME NEW w \in Workers, ResetBookkeeping(w) PROVE A(c)
    <3>1. chunk'[c] = Requeued(chunk[c])
      BY <2>5 DEF ResetBookkeeping, Requeued
    <3>2. chunk'[c].attempts = 0 /\ chunk'[c].vector = chunk[c].vector
      BY <2>0, <3>1, RequeuedIsTyped
    <3>3. ~chunk'[c].failed
      BY <2>0, <3>1 DEF Requeued, Chunk
    <3> QED
      BY <2>0, <3>2, <3>3
  <2>6. ASSUME NEW w \in Workers, Store(w) PROVE A(c)
    <3> DEFINE item == Head(proc[w].work)
               v == [of |-> item.text, dim |-> proc[w].dim]
    <3>1. CASE chunk'[c] # chunk[c]
      <4>1. chunk'[c] = Embedded(chunk[c], v)
        BY <2>0, <2>6, <3>1 DEF Store, Embedded
      <4>2. proc[w].work \in Seq(Items) /\ proc[w].work # <<>> /\ proc[w].dim \in Dims
        BY <2>0, <2>6 DEF Store, ProcessOK, Process, Items, Busy
      <4>2a. item \in Items
        BY <4>2, HeadTailProperties
      <4>3. v \in Vectors
        BY <4>2, <4>2a DEF Items, Vectors
      <4> HIDE DEF v
      <4>4. /\ chunk'[c].vector = v /\ v # NoVector
            /\ chunk'[c].attempts = chunk[c].attempts
            /\ ~chunk'[c].failed
        BY <2>0, <4>1, <4>3, EmbeddedIsTyped DEF Vectors
      <4> QED
        BY <2>0, <4>4
    <3> QED
      BY <2>a, <3>1
  <2>7. ASSUME NEW w \in Workers, MarkFailed(w) PROVE A(c)
    <3>1. chunk'[c] = chunk[c]
      BY <2>0, <2>7 DEF MarkFailed, Markable
    <3> QED
      BY <2>a, <3>1
  <2>8. ASSUME NEW gone \in SUBSET Ids, NEW fresh \in SUBSET Ids, NEW born \in [fresh -> Texts],
               Reindex(gone, born)
        PROVE  A(c)
    <3>1. c \notin gone
      BY <2>8, AbsentIsTyped DEF Reindex
    <3>2. c \notin fresh
      BY <2>0, <2>8 DEF Reindex
    <3>3. chunk'[c] = chunk[c]
      BY <2>8, <3>1, <3>2 DEF Reindex
    <3> QED
      BY <2>a, <3>3
  <2>9. ASSUME NEW d \in Ids, BackoffElapses(d) PROVE A(c)
    <3>1. chunk'[c] = chunk[c] \/ chunk'[c] = Due(chunk[c])
      BY <2>0, <2>9 DEF BackoffElapses, Due
    <3>2. /\ Due(chunk[c]).vector = chunk[c].vector
          /\ Due(chunk[c]).attempts = chunk[c].attempts
          /\ Due(chunk[c]).failed = chunk[c].failed
      BY <2>0, DueIsTyped
    <3>3. CASE chunk'[c] = Due(chunk[c])
      BY <2>0, <3>2, <3>3
    <3> QED
      BY <2>a, <3>1, <3>3
  <2> QED
    BY <1>1, <2>1, <2>2, <2>3, <2>4, <2>5, <2>6, <2>7, <2>8, <2>9 DEF Next, Loop, Startup
<1>2. IInv /\ [Next]_vars => [\A c \in Ids : A(c)]_vars
  BY <1>1
<1> QED
  BY Invariance, <1>2, PTL DEF Spec, EmbeddedChunksAreDone

----------------------------------------------------------------------------
(* Refinement: the chunks as SemanticIndex sees them *)

\* A dead letter has used up its attempts, and there is a limit to use up.
DeadLettersAreExhausted ==
    \A c \in Ids : chunk[c].failed =>
        MaxAttempts > 0 /\ chunk[c].attempts >= MaxAttempts

\* The variables of SemanticIndex, as the rows say.
ContentBar == [c \in Live |-> ContentOf[chunk[c].text]]
PastBar == {c \in Ids : chunk[c].row = "gone"}
AnswerBar == [c \in Answered |-> [of |-> ContentOf[chunk[c].vector.of],
                                  dim |-> chunk[c].vector.dim]]

\* What the statements make of the failed flag of a row.
LEMMA FlagOfFailure ==
    ASSUME NEW r \in Chunk
    PROVE  /\ AfterFailure(r).attempts = r.attempts + 1
           /\ AfterFailure(r).failed <=> MaxAttempts > 0 /\ r.attempts + 1 >= MaxAttempts
<1> DEFINE n == r.attempts + 1
           b == MaxAttempts > 0 /\ r.attempts + 1 >= MaxAttempts
<1>1. AfterFailure(r) = [r EXCEPT !.attempts = n, !.due = "later", !.failed = b]
  BY DEF AfterFailure
<1>2. b \in BOOLEAN
  OBVIOUS
<1> HIDE DEF n, b
<1>3. AfterFailure(r).attempts = n /\ AfterFailure(r).failed = b
  BY <1>1, <1>2 DEF Chunk
<1>4. AfterFailure(r).attempts = r.attempts + 1
  BY <1>3 DEF n
<1>5. AfterFailure(r).failed <=> b
  BY <1>3
<1> QED
  BY <1>4, <1>5 DEF b

LEMMA FlagOfOthers ==
    ASSUME NEW r \in Chunk
    PROVE  /\ Dropped(r).failed = r.failed /\ Dropped(r).attempts = r.attempts
           /\ ~Requeued(r).failed
           /\ Due(r).failed = r.failed
BY DEF Dropped, Requeued, Due, Chunk

\* A store finds its chunk gone, or embeds it with a vector of its content and of the
\* width of the column.
LEMMA StoreOfOneChunk ==
    ASSUME IInv, NEW w \in Workers, Store(w)
    PROVE  /\ UNCHANGED column /\ column # NoDim
           /\ \/ UNCHANGED chunk
              \/ \E c \in Live, v \in Vectors :
                    /\ chunk' = [chunk EXCEPT ![c] = Embedded(@, v)]
                    /\ ContentOf[v.of] = ContentOf[chunk[c].text] /\ v.dim = column
<1> USE EmbeddingAssumption
<1> DEFINE item == Head(proc[w].work)
           c == item.id
           v == [of |-> item.text, dim |-> proc[w].dim]
<1>1. /\ chunk \in [Ids -> Chunk] /\ ProcessOK(proc[w]) /\ WorkIsCurrent
      /\ proc[w].at \in Busy /\ column = proc[w].dim
  BY TypeByRecord DEF IInv, Store, Busy
<1>2. proc[w].work \in Seq(Items) /\ proc[w].work # <<>> /\ proc[w].dim \in Dims
  BY <1>1 DEF ProcessOK, Process, Items, Busy
<1>3. Len(proc[w].work) \in Nat \ {0} /\ item = proc[w].work[1] /\ item \in Items
  BY <1>2, EmptySeq, HeadTailProperties
<1>4. Current(item)
  BY <1>1, <1>3 DEF WorkIsCurrent
<1>5. UNCHANGED column /\ column # NoDim
  BY <1>1, <1>2 DEF Store
<1>6. CASE chunk[c].row # "there"
  BY <1>5, <1>6 DEF Store
<1>7. CASE chunk[c].row = "there"
  <2>1. c \in Live /\ chunk[c].text = item.text /\ item.text \in Texts
    BY <1>3, <1>4, <1>7 DEF Current, Items, Live
  <2>2. v \in Vectors /\ v.of = item.text /\ v.dim = column
    BY <1>1, <1>2, <2>1 DEF Vectors
  <2>3. chunk' = [chunk EXCEPT ![c] = Embedded(@, v)]
    BY <1>1, <1>7, <2>1 DEF Store, Embedded, Live
  <2> HIDE DEF v, c, item
  <2> QED
    BY <1>5, <2>1, <2>2, <2>3
<1> QED
  BY <1>6, <1>7

\* Neither a failure nor anything else makes a dead letter of a chunk with attempts left.
LEMMA FlagsStep ==
    IInv /\ DeadLettersAreExhausted /\ [Next]_vars => DeadLettersAreExhausted'
<1> USE EmbeddingAssumption
<1> SUFFICES ASSUME IInv, DeadLettersAreExhausted, [Next]_vars, NEW c \in Ids, chunk'[c].failed
             PROVE  MaxAttempts > 0 /\ chunk'[c].attempts >= MaxAttempts
  BY DEF DeadLettersAreExhausted
<1> DEFINE Goal == MaxAttempts > 0 /\ chunk'[c].attempts >= MaxAttempts
<1>0. /\ chunk \in [Ids -> Chunk] /\ \A d \in Ids : ChunkOK(chunk[d])
      /\ chunk[c] \in Chunk
  BY TypeByRecord DEF IInv
<1>a. ASSUME chunk'[c].failed = chunk[c].failed, chunk'[c].attempts = chunk[c].attempts PROVE Goal
  BY <1>a DEF DeadLettersAreExhausted
<1>b. ASSUME chunk'[c] = chunk[c] PROVE Goal
  BY <1>a, <1>b
<1>1. ASSUME NEW w \in Workers, Dedup(w) PROVE Goal
  <2>1. CASE chunk'[c] # chunk[c]
    <3>1. PICK d \in Ids : chunk'[c] = [chunk[c] EXCEPT !.vector = chunk[d].vector]
      BY <1>1, <2>1, DedupOfOneChunk
    <3>2. chunk'[c].failed = chunk[c].failed /\ chunk'[c].attempts = chunk[c].attempts
      BY <1>0, <3>1 DEF Chunk
    <3> QED
      BY <1>a, <3>2
  <2> QED
    BY <1>b, <2>1
<1>2. ASSUME NEW w \in Workers, DropColumn(w) PROVE Goal
  <2>1. chunk'[c] = Dropped(chunk[c])
    BY <1>2 DEF DropColumn, Dropped
  <2> QED
    BY <1>0, <1>a, <2>1, FlagOfOthers
<1>3. ASSUME NEW w \in Workers, ResetBookkeeping(w) PROVE Goal
  <2>1. chunk'[c] = Requeued(chunk[c])
    BY <1>3 DEF ResetBookkeeping, Requeued
  <2> QED
    BY <1>0, <2>1, FlagOfOthers
<1>4. ASSUME NEW w \in Workers, Store(w) PROVE Goal
  <2>1. CASE UNCHANGED chunk
    BY <1>b, <2>1
  <2>2. ASSUME NEW e \in Live, NEW v \in Vectors, chunk' = [chunk EXCEPT ![e] = Embedded(@, v)]
        PROVE  Goal
    <3>1. e \in Ids /\ ~Embedded(chunk[e], v).failed
      BY <1>0, EmbeddedIsTyped DEF Live
    <3>2. c # e
      BY <1>0, <2>2, <3>1
    <3> QED
      BY <1>0, <1>b, <2>2, <3>1, <3>2
  <2> QED
    BY <1>4, <2>1, <2>2, StoreOfOneChunk
<1>5. ASSUME NEW w \in Workers, MarkFailed(w) PROVE Goal
  <2>1. chunk'[c] = chunk[c] \/ chunk'[c] = AfterFailure(chunk[c])
    BY <1>0, <1>5 DEF MarkFailed
  <2>2. CASE chunk'[c] = AfterFailure(chunk[c])
    BY <1>0, <2>2, FlagOfFailure
  <2> QED
    BY <1>b, <2>1, <2>2
<1>6. ASSUME NEW gone \in SUBSET Ids, NEW fresh \in SUBSET Ids, NEW born \in [fresh -> Texts],
             Reindex(gone, born)
      PROVE  Goal
  <2>1. \/ chunk'[c] = chunk[c] \/ chunk'[c] = Absent("gone")
        \/ \E t \in Texts : chunk'[c] = Fresh(t)
    BY <1>6 DEF Reindex
  <2>2. ~Absent("gone").failed /\ \A t \in Texts : ~Fresh(t).failed
    BY DEF Absent, Fresh
  <2> QED
    BY <1>b, <2>1, <2>2
<1>7. ASSUME NEW d \in Ids, BackoffElapses(d) PROVE Goal
  <2>1. chunk'[c] = chunk[c] \/ chunk'[c] = Due(chunk[c])
    BY <1>0, <1>7 DEF BackoffElapses, Due
  <2> QED
    BY <1>0, <1>a, <1>b, <2>1, FlagOfOthers, DueIsTyped
<1>8. CASE UNCHANGED chunk
  BY <1>b, <1>8
<1> QED
  BY <1>1, <1>2, <1>3, <1>4, <1>5, <1>6, <1>7, <1>8
     DEF Next, vars, Loop, Startup, DedupFails, Fetch, FetchFails, EmbedBatch, EmbedOne, Embed,
         StoreFails, MarkFails, AddColumn, StartupFails, Crash, Start

----------------------------------------------------------------------------
\* What search sees depends on no more of the rows than this.
LEMMA SameForSearch ==
    ASSUME UNCHANGED column,
           \A c \in Ids :
               /\ chunk'[c].row = chunk[c].row /\ chunk'[c].text = chunk[c].text
               /\ chunk'[c].vector = chunk[c].vector /\ chunk'[c].failed = chunk[c].failed
    PROVE  UNCHANGED <<ContentBar, PastBar, AnswerBar, DeadLetters, column>>
<1>1. Live' = Live /\ PastBar' = PastBar
  BY DEF Live, PastBar
<1>2. Live \subseteq Ids
  BY DEF Live
<1>3. Answered' = Answered /\ DeadLetters' = DeadLetters
  BY <1>1, <1>2 DEF Answered, DeadLetters
<1>4. ContentBar' = ContentBar /\ AnswerBar' = AnswerBar
  BY <1>1, <1>2, <1>3 DEF Answered, ContentBar, AnswerBar
<1> QED
  BY <1>1, <1>3, <1>4

\* Vectors of the right content and width that some chunks are given are answers.
LEMMA VectorsImplement ==
    ASSUME IInv, UNCHANGED column, column # NoDim,
           \A c \in Ids :
               /\ chunk'[c].row = chunk[c].row /\ chunk'[c].text = chunk[c].text
               /\ \/ chunk'[c] = chunk[c]
                  \/ /\ chunk[c].row = "there" /\ chunk'[c].vector # NoVector
                     /\ ContentOf[chunk'[c].vector.of] = ContentOf[chunk[c].text]
                     /\ chunk'[c].vector.dim = column
    PROVE  Index!Next
<1> DEFINE S == Live \cap (Answered' \ Answered)
<1>1. Live' = Live /\ PastBar' = PastBar /\ Live \subseteq Ids
  BY DEF Live, PastBar
<1>2. ContentBar' = ContentBar
  BY <1>1 DEF ContentBar
<1>3. Answered' = Answered \cup S /\ S \subseteq Live \ Answered /\ S \subseteq Ids
  BY <1>1 DEF Answered
<1>4. DeadLetters' = DeadLetters \ S
  BY <1>1, <1>3 DEF DeadLetters, Answered
<1>5. \A c \in Answered : /\ ContentOf[chunk[c].vector.of] = ContentOf[chunk[c].text]
                          /\ chunk[c].vector.dim = column
  BY <1>1 DEF IInv, VectorsBelongToTheirContent, Answered
<1>6. \A c \in Answered \cup S :
        /\ ContentOf[chunk'[c].vector.of] = ContentOf[chunk[c].text]
        /\ chunk'[c].vector.dim = column
  BY <1>1, <1>3, <1>5 DEF Answered
<1>7. AnswerBar' = [c \in DOMAIN AnswerBar \cup S |->
                      IF c \in S THEN [of |-> ContentBar[c], dim |-> column] ELSE AnswerBar[c]]
  BY <1>1, <1>3, <1>5, <1>6 DEF AnswerBar, ContentBar
<1>8. DOMAIN ContentBar = Live /\ DOMAIN AnswerBar = Answered
  BY DEF ContentBar, AnswerBar
<1> HIDE DEF S
<1>9. Index!Answer(S)
  BY <1>1, <1>2, <1>3, <1>4, <1>7, <1>8 DEF Index!Answer, ContentBar, PastBar, AnswerBar
<1>10. S \in SUBSET Ids
  BY <1>3
<1> QED
  BY <1>9, <1>10 DEF Index!Next, Index!Answer

LEMMA StoreImplements ==
    ASSUME IInv, NEW w \in Workers, Store(w)
    PROVE  Index!Next
<1> USE EmbeddingAssumption
<1>0. chunk \in [Ids -> Chunk] /\ UNCHANGED column /\ column # NoDim
  BY StoreOfOneChunk DEF IInv, TypeOK
<1>1. CASE UNCHANGED chunk
  BY <1>0, <1>1, VectorsImplement
<1>2. ASSUME NEW c \in Live, NEW v \in Vectors, chunk' = [chunk EXCEPT ![c] = Embedded(@, v)],
             ContentOf[v.of] = ContentOf[chunk[c].text], v.dim = column
      PROVE  Index!Next
  <2>1. c \in Ids /\ chunk[c].row = "there" /\ v # NoVector
    BY DEF Live, Vectors
  <2>2. /\ chunk'[c].vector = v
        /\ chunk'[c].row = chunk[c].row /\ chunk'[c].text = chunk[c].text
    BY <1>0, <1>2, <2>1, EmbeddedIsTyped
  <2>3. \A d \in Ids \ {c} : chunk'[d] = chunk[d]
    BY <1>0, <1>2
  <2> QED
    BY <1>0, <1>2, <2>1, <2>2, <2>3, VectorsImplement
<1> QED
  BY <1>1, <1>2, StoreOfOneChunk

LEMMA DedupImplements ==
    ASSUME IInv, NEW w \in Workers, Dedup(w)
    PROVE  Index!Next
<1>0. chunk \in [Ids -> Chunk] /\ UNCHANGED column /\ column # NoDim
  BY DEF IInv, TypeOK, Dedup
<1>1. ASSUME NEW c \in Ids
      PROVE  /\ chunk'[c].row = chunk[c].row /\ chunk'[c].text = chunk[c].text
             /\ \/ chunk'[c] = chunk[c]
                \/ /\ chunk[c].row = "there" /\ chunk'[c].vector # NoVector
                   /\ ContentOf[chunk'[c].vector.of] = ContentOf[chunk[c].text]
                   /\ chunk'[c].vector.dim = column
  <2>1. CASE chunk'[c] # chunk[c]
    <3>1. PICK d \in Ids : /\ Duplicates(c, d)
                           /\ chunk'[c] = [chunk[c] EXCEPT !.vector = chunk[d].vector]
      BY <2>1, DedupOfOneChunk
    <3>2. /\ chunk[c] \in Chunk /\ chunk[c].row = "there"
          /\ chunk[d].vector # NoVector /\ chunk[d].vector \in Vectors \cup {NoVector}
          /\ ContentOf[chunk[d].text] = ContentOf[chunk[c].text]
      BY <1>0, <3>1 DEF Duplicates, Chunk
    <3>3. /\ chunk'[c].vector = chunk[d].vector
          /\ chunk'[c].row = chunk[c].row /\ chunk'[c].text = chunk[c].text
      BY <3>1, <3>2, CopiedIsTyped
    <3>4. /\ ContentOf[chunk[d].vector.of] = ContentOf[chunk[d].text]
          /\ chunk[d].vector.dim = column
      BY <3>2 DEF IInv, VectorsBelongToTheirContent
    <3> QED
      BY <3>2, <3>3, <3>4
  <2> QED
    BY <2>1
<1> QED
  BY <1>0, <1>1, VectorsImplement

\* A failure that counts gives its chunk up, or leaves it as it was.
LEMMA FailureImplements ==
    ASSUME IInv, DeadLettersAreExhausted, NEW w \in Workers, MarkFailed(w)
    PROVE  \/ UNCHANGED <<ContentBar, PastBar, AnswerBar, DeadLetters, column>>
           \/ Index!Next
<1> USE EmbeddingAssumption
<1> DEFINE c == Head(proc[w].work).id
           r == AfterFailure(chunk[c])
<1>0. /\ chunk \in [Ids -> Chunk] /\ ProcessOK(proc[w]) /\ UNCHANGED column
      /\ proc[w].at \in Busy
  BY TypeByRecord DEF IInv, MarkFailed, Busy
<1>1. proc[w].work \in Seq(Items) /\ proc[w].work # <<>>
  BY <1>0 DEF ProcessOK, Process, Items, Busy
<1>1a. Head(proc[w].work) \in Items
  BY <1>1, HeadTailProperties
<1>2. c \in Ids
  BY <1>1a DEF Items
<1>3. CASE ~Markable(c)
  BY <1>0, <1>3, SameForSearch DEF MarkFailed
<1>4. CASE Markable(c)
  <2>1. chunk[c].row = "there" /\ chunk[c].vector = NoVector /\ chunk' = [chunk EXCEPT ![c] = r]
    BY <1>0, <1>4 DEF MarkFailed, Markable
  <2>2. /\ r.row = chunk[c].row /\ r.text = chunk[c].text /\ r.vector = chunk[c].vector
        /\ r.failed <=> MaxAttempts > 0 /\ chunk[c].attempts + 1 >= MaxAttempts
        /\ chunk[c].attempts \in Nat /\ chunk[c] \in Chunk /\ r \in Chunk
    BY <1>0, <1>2, FailureIsTyped, FlagOfFailure DEF Chunk
  <2>3. chunk[c].failed => r.failed
    BY <1>2, <2>2 DEF DeadLettersAreExhausted
  <2>4. r.failed => MaxAttempts > 0
    BY <2>2
  <2>4a. r.failed \in BOOLEAN /\ chunk[c].failed \in BOOLEAN
    BY <2>2 DEF Chunk
  <2> HIDE DEF r, c
  <2>5. chunk'[c] = r /\ \A d \in Ids \ {c} : chunk'[d] = chunk[d]
    BY <1>0, <1>2, <2>1
  <2>6. \A d \in Ids : /\ chunk'[d].row = chunk[d].row /\ chunk'[d].text = chunk[d].text
                       /\ chunk'[d].vector = chunk[d].vector
    BY <2>2, <2>5
  <2>7. CASE r.failed = chunk[c].failed
    BY <1>0, <2>5, <2>6, <2>7, SameForSearch
  <2>8. CASE r.failed # chunk[c].failed
    <3>1. r.failed /\ ~chunk[c].failed
      BY <2>3, <2>4a, <2>8
    <3>2. Live' = Live /\ PastBar' = PastBar /\ Live \subseteq Ids /\ c \in Live \ Answered
      BY <1>2, <2>1, <2>6 DEF Live, PastBar, Answered
    <3>3. Answered' = Answered
      BY <2>6, <3>2 DEF Answered
    <3>4. DeadLetters' = DeadLetters \cup {c}
      BY <2>5, <3>1, <3>2, <3>3 DEF DeadLetters
    <3>5. ContentBar' = ContentBar /\ AnswerBar' = AnswerBar
      BY <2>6, <3>2, <3>3 DEF ContentBar, AnswerBar, Answered
    <3>6. DOMAIN ContentBar = Live /\ DOMAIN AnswerBar = Answered
      BY DEF ContentBar, AnswerBar
    <3>7. Index!GiveUp(c)
      BY <1>0, <2>4, <3>1, <3>2, <3>4, <3>5, <3>6 DEF Index!GiveUp, ContentBar, PastBar, AnswerBar
    <3> QED
      BY <1>2, <3>7 DEF Index!Next
  <2> QED
    BY <2>7, <2>8
<1> QED
  BY <1>3, <1>4
\* The column is dropped: a chunk that was a dead letter before a vector was copied to it is
\* one again.
LEMMA DropImplements ==
    ASSUME IInv, DeadLettersAreExhausted, NEW w \in Workers, DropColumn(w)
    PROVE  Index!Next
<1> DEFINE A == {c \in Answered : chunk[c].failed}
<1>1. \A c \in Ids : ChunkOK(chunk[c]) /\ chunk[c] \in Chunk
  BY TypeByRecord DEF IInv, ChunkOK
<1>2. \A c \in Ids : chunk'[c] = Dropped(chunk[c])
  BY DEF DropColumn, Dropped
<1>3. \A c \in Ids :
        /\ chunk'[c].row = chunk[c].row /\ chunk'[c].text = chunk[c].text
        /\ chunk'[c].vector = NoVector /\ chunk'[c].failed = chunk[c].failed
  <2> SUFFICES ASSUME NEW c \in Ids
               PROVE  /\ chunk'[c].row = chunk[c].row /\ chunk'[c].text = chunk[c].text
                      /\ chunk'[c].vector = NoVector /\ chunk'[c].failed = chunk[c].failed
    OBVIOUS
  <2>1. ChunkOK(chunk[c]) /\ chunk[c] \in Chunk /\ chunk'[c] = Dropped(chunk[c])
    BY <1>1, <1>2
  <2> QED
    BY <2>1, DroppedIsTyped, FlagOfOthers
<1>4. Live' = Live /\ PastBar' = PastBar /\ Live \subseteq Ids /\ Answered \subseteq Live
  BY <1>3 DEF Live, PastBar, Answered
<1>5. ContentBar' = ContentBar
  BY <1>3, <1>4 DEF ContentBar
<1>6. Answered' = {}
  BY <1>3, <1>4 DEF Answered
<1>7. AnswerBar' = [c \in {} |-> c]
  BY <1>6 DEF AnswerBar
<1>8. DeadLetters' = DeadLetters \cup A
  BY <1>3, <1>4, <1>6 DEF DeadLetters
<1>9. A \subseteq Answered /\ A \in SUBSET Ids /\ (A # {} => MaxAttempts > 0)
  BY <1>4 DEF DeadLettersAreExhausted
<1>10. DOMAIN AnswerBar = Answered /\ column # NoDim /\ column' = NoDim
  BY DEF AnswerBar, DropColumn
<1> HIDE DEF A
<1>11. Index!Drop(A)
  BY <1>4, <1>5, <1>7, <1>8, <1>9, <1>10
     DEF Index!Drop, Index!Nothing, ContentBar, PastBar, AnswerBar
<1> QED
  BY <1>9, <1>11 DEF Index!Next, Index!Drop

LEMMA ResetImplements ==
    ASSUME IInv, NEW w \in Workers, ResetBookkeeping(w)
    PROVE  Index!Next
<1>1. ASSUME NEW c \in Ids
      PROVE  /\ chunk'[c].row = chunk[c].row /\ chunk'[c].text = chunk[c].text
             /\ chunk'[c].vector = chunk[c].vector /\ ~chunk'[c].failed
  <2>1. ChunkOK(chunk[c]) /\ chunk[c] \in Chunk /\ chunk'[c] = Requeued(chunk[c])
    BY TypeByRecord DEF IInv, ChunkOK, ResetBookkeeping, Requeued
  <2> QED
    BY <2>1, RequeuedIsTyped, FlagOfOthers
<1>2. Live' = Live /\ PastBar' = PastBar /\ Live \subseteq Ids
  BY <1>1 DEF Live, PastBar
<1>3. Answered' = Answered /\ DeadLetters' = {}
  BY <1>1, <1>2 DEF Answered, DeadLetters
<1>4. ContentBar' = ContentBar /\ AnswerBar' = AnswerBar
  BY <1>1, <1>2, <1>3 DEF ContentBar, AnswerBar, Answered
<1>5. UNCHANGED column
  BY DEF ResetBookkeeping
<1>6. Index!Requeue
  BY <1>2, <1>3, <1>4, <1>5 DEF Index!Requeue, ContentBar, PastBar, AnswerBar
<1> QED
  BY <1>6 DEF Index!Next

\* The first process to add the column decides its width.
LEMMA AddImplements ==
    ASSUME IInv, NEW w \in Workers, AddColumn(w)
    PROVE  \/ UNCHANGED <<ContentBar, PastBar, AnswerBar, DeadLetters, column>>
           \/ Index!Next
<1>1. UNCHANGED chunk
  BY DEF AddColumn
<1>2. UNCHANGED <<ContentBar, PastBar, AnswerBar, DeadLetters>>
  BY <1>1 DEF ContentBar, PastBar, AnswerBar, DeadLetters, Answered, Live
<1>3. CASE column = NoDim
  <2>1. column' = proc[w].dim /\ proc[w].dim \in Dims
    BY <1>3 DEF AddColumn, IInv, TypeOK
  <2>2. Index!Widen(proc[w].dim)
    BY <1>2, <1>3, <2>1 DEF Index!Widen, ContentBar, PastBar, AnswerBar
  <2> QED
    BY <2>1, <2>2 DEF Index!Next
<1>4. CASE column # NoDim
  BY <1>2, <1>4 DEF AddColumn
<1> QED
  BY <1>3, <1>4

\* An edit brings chunks under ids nobody has had, and takes others away for good.
LEMMA ReindexImplements ==
    ASSUME IInv, NEW gone \in SUBSET Ids, NEW fresh \in SUBSET Ids, NEW born \in [fresh -> Texts],
           Reindex(gone, born)
    PROVE  Index!Next
<1> USE EmbeddingAssumption
<1> DEFINE B == [c \in fresh |-> ContentOf[born[c]]]
<1>0. \A c \in Ids : ChunkOK(chunk[c])
  BY TypeByRecord DEF IInv
<1>1. B \in [fresh -> Contents] /\ DOMAIN B = fresh
  OBVIOUS
<1>2. /\ gone \subseteq Live /\ \A c \in fresh : chunk[c].row = "unborn"
      /\ UNCHANGED column
  BY DEF Reindex
<1>3. \A c \in gone : chunk'[c] = Absent("gone")
  BY DEF Reindex
<1>4. \A c \in fresh : chunk'[c] = Fresh(born[c]) /\ born[c] \in Texts
  BY <1>2 DEF Reindex, Live
<1>5. \A c \in Ids \ (gone \cup fresh) : chunk'[c] = chunk[c]
  BY DEF Reindex
<1>6. \A c \in gone : chunk'[c].row = "gone"
  BY <1>3, AbsentIsTyped
<1>7. \A c \in fresh : /\ chunk'[c].row = "there" /\ chunk'[c].text = born[c]
                       /\ chunk'[c].vector = NoVector
  BY <1>4, FreshIsTyped
<1>7a. \A c \in fresh : ~chunk'[c].failed
  BY <1>4 DEF Fresh, Absent
<1>8. Live' = (Live \ gone) \cup fresh /\ Live \subseteq Ids /\ Live \cap fresh = {}
  BY <1>2, <1>5, <1>6, <1>7 DEF Live
<1>9. PastBar' = PastBar \cup gone /\ PastBar \cap fresh = {}
  BY <1>2, <1>5, <1>6, <1>7 DEF PastBar, Live
<1>10. Answered' = Answered \ gone /\ Answered \subseteq Live
  BY <1>2, <1>5, <1>7, <1>8 DEF Answered
<1>11. DeadLetters' = DeadLetters \ gone
  BY <1>5, <1>7a, <1>8, <1>10 DEF DeadLetters
<1>12. ContentBar' = [c \in (Live \ gone) \cup fresh |->
                        IF c \in fresh THEN B[c] ELSE ContentBar[c]]
  BY <1>5, <1>7, <1>8 DEF ContentBar
<1>13. AnswerBar' = [c \in Answered \ gone |-> AnswerBar[c]]
  BY <1>5, <1>8, <1>10 DEF AnswerBar
<1>14. DOMAIN ContentBar = Live /\ DOMAIN AnswerBar = Answered
  BY DEF ContentBar, AnswerBar
<1> HIDE DEF B
<1>15. Index!Edit(gone, B)
  BY <1>1, <1>2, <1>8, <1>9, <1>11, <1>12, <1>13, <1>14
     DEF Index!Edit, ContentBar, PastBar, AnswerBar
<1> QED
  BY <1>1, <1>15 DEF Index!Next

LEMMA IndexStep ==
    IInv /\ DeadLettersAreExhausted /\ [Next]_vars => [Index!Next]_(Index!vars)
<1> SUFFICES ASSUME IInv, DeadLettersAreExhausted, [Next]_vars
             PROVE  \/ UNCHANGED <<ContentBar, PastBar, AnswerBar, DeadLetters, column>>
                    \/ Index!Next
  BY DEF Index!vars, ContentBar, PastBar, AnswerBar
<1> DEFINE Same == UNCHANGED <<ContentBar, PastBar, AnswerBar, DeadLetters, column>>
<1>1. CASE UNCHANGED <<chunk, column>>
  BY <1>1, SameForSearch
<1>2. ASSUME NEW w \in Workers, Store(w) \/ Dedup(w) PROVE Index!Next
  BY <1>2, StoreImplements, DedupImplements
<1>3. ASSUME NEW w \in Workers, MarkFailed(w) PROVE Same \/ Index!Next
  BY <1>3, FailureImplements
<1>4. ASSUME NEW w \in Workers, DropColumn(w) \/ ResetBookkeeping(w) PROVE Index!Next
  BY <1>4, DropImplements, ResetImplements
<1>5. ASSUME NEW w \in Workers, AddColumn(w) PROVE Same \/ Index!Next
  BY <1>5, AddImplements
<1>6. ASSUME NEW gone \in SUBSET Ids, NEW fresh \in SUBSET Ids, NEW born \in [fresh -> Texts],
             Reindex(gone, born)
      PROVE  Index!Next
  BY <1>6, ReindexImplements
<1>7. ASSUME NEW c \in Ids, BackoffElapses(c) PROVE Same
  <2>1. chunk \in [Ids -> Chunk] /\ UNCHANGED column
    BY <1>7 DEF IInv, TypeOK, BackoffElapses
  <2>2. \A d \in Ids : chunk'[d] = chunk[d] \/ chunk'[d] = Due(chunk[d])
    BY <1>7, <2>1 DEF BackoffElapses, Due
  <2>3. ASSUME NEW d \in Ids
        PROVE  /\ chunk'[d].row = chunk[d].row /\ chunk'[d].text = chunk[d].text
               /\ chunk'[d].vector = chunk[d].vector /\ chunk'[d].failed = chunk[d].failed
    <3>1. chunk[d] \in Chunk /\ (chunk'[d] = chunk[d] \/ chunk'[d] = Due(chunk[d]))
      BY <2>1, <2>2
    <3> QED
      BY <3>1, DueIsTyped
  <2> QED
    BY <2>1, <2>3, SameForSearch
<1> QED
  BY <1>1, <1>2, <1>3, <1>4, <1>5, <1>6, <1>7
     DEF Next, vars, Loop, Startup, DedupFails, Fetch, FetchFails, EmbedBatch, EmbedOne, Embed,
         StoreFails, MarkFails, StartupFails, Crash, Start

LEMMA IndexInit == Init => DeadLettersAreExhausted /\ Index!Init
<1> SUFFICES ASSUME Init PROVE DeadLettersAreExhausted /\ Index!Init
  OBVIOUS
<1>1. \A c \in Ids : chunk[c].row = "unborn" /\ ~chunk[c].failed
  BY AbsentIsTyped DEF Init
<1>2. Live = {} /\ PastBar = {} /\ Answered = {} /\ DeadLetters = {}
  BY <1>1 DEF Live, PastBar, Answered, DeadLetters
<1>3. ContentBar = [c \in {} |-> c] /\ AnswerBar = [c \in {} |-> c]
  BY <1>2 DEF ContentBar, AnswerBar
<1> QED
  BY <1>1, <1>2, <1>3
     DEF Init, DeadLettersAreExhausted, Index!Init, Index!Nothing, ContentBar, PastBar, AnswerBar

\* Whatever the workers, edits, changes of width and crashes do, search is given what
\* SemanticIndex promises.
THEOREM Refinement == Spec => ImplementsSemanticIndex
<1>1. IInv /\ DeadLettersAreExhausted /\ [Next]_vars => DeadLettersAreExhausted'
  BY FlagsStep
<1> QED
  BY <1>1, IndexInit, IndexStep, Invariance, PTL DEF Spec, ImplementsSemanticIndex, Index!Spec

----------------------------------------------------------------------------
(* Attempts and batches *)

Distinct(work) == \A i, j \in 1..Len(work) : work[i].id = work[j].id => i = j
HeldIn(work, c) == \E i \in 1..Len(work) : work[i].id = c

BatchesAreDistinct == \A w \in Workers : Distinct(proc[w].work)

\* A chunk dealt with leaves its batch, and nothing enters.
LEMMA TailOfBatch ==
    ASSUME NEW s \in Seq(Items), s # <<>>, Distinct(s)
    PROVE  /\ Distinct(Tail(s))
           /\ HeldIn(s, Head(s).id) /\ ~HeldIn(Tail(s), Head(s).id)
           /\ \A c : HeldIn(Tail(s), c) => HeldIn(s, c)
<1>1. /\ Len(Tail(s)) = Len(s) - 1 /\ Len(s) \in Nat \ {0} /\ Head(s) = s[1]
      /\ \A i \in 1..Len(Tail(s)) : Tail(s)[i] = s[i + 1]
  BY HeadTailProperties, EmptySeq
<1>2. \A i \in 1..Len(Tail(s)) : i + 1 \in 1..Len(s) /\ i + 1 # 1 /\ i \in Nat
  BY <1>1
<1>3. 1 \in 1..Len(s)
  BY <1>1
<1>4. Distinct(Tail(s))
  BY <1>1, <1>2 DEF Distinct
<1>5. HeldIn(s, Head(s).id)
  BY <1>1, <1>3 DEF HeldIn
<1>6. ~HeldIn(Tail(s), Head(s).id)
  BY <1>1, <1>2, <1>3 DEF Distinct, HeldIn
<1>7. \A c : HeldIn(Tail(s), c) => HeldIn(s, c)
  BY <1>1, <1>2 DEF HeldIn
<1> QED
  BY <1>4, <1>5, <1>6, <1>7

LEMMA EmptyBatch == Distinct(<<>>) /\ \A c : ~HeldIn(<<>>, c)
BY EmptySeq DEF Distinct, HeldIn

\* One process changes its batch.
LEMMA BatchStep ==
    ASSUME IInv, BatchesAreDistinct, NEW w \in Workers,
           proc' \in [Workers -> Process],
           \A v \in Workers \ {w} : proc'[v].work = proc[v].work,
           Distinct(proc'[w].work)
    PROVE  /\ BatchesAreDistinct'
           /\ \A c \in Ids : /\ Holders(c)' \subseteq Holders(c) \cup {w}
                             /\ HeldIn(proc'[w].work, c) \/ w \notin Holders(c)'
<1>1. BatchesAreDistinct'
  <2>1. \A v \in Workers : Distinct(proc'[v].work)
    BY DEF BatchesAreDistinct
  <2> QED
    BY <2>1 DEF BatchesAreDistinct, Distinct
<1> QED
  BY <1>1 DEF Holders, HeldIn

HoldersKeep == \A c \in Ids : Holders(c)' \subseteq Holders(c)

\* Batches are made anew by a fetch, of chunks that are pending, and otherwise only shrink.
LEMMA HoldersStep ==
    ASSUME IInv, BatchesAreDistinct, [Next]_vars
    PROVE  /\ BatchesAreDistinct'
           /\ \A c \in Ids :
                Holders(c)' \subseteq Holders(c) \/ \E w \in Workers : Fetch(w) /\ Pending(c)
           /\ \A w \in Workers, c \in Ids : MarkFailed(w) /\ c = Head(proc[w].work).id =>
                w \in Holders(c) /\ w \notin Holders(c)'
<1> USE EmbeddingAssumption
<1> DEFINE Goal == /\ BatchesAreDistinct'
                   /\ \A c \in Ids : \/ Holders(c)' \subseteq Holders(c)
                                     \/ \E w \in Workers : Fetch(w) /\ Pending(c)
           Dealt(w) == \A c \in Ids : c = Head(proc[w].work).id =>
                         w \in Holders(c) /\ w \notin Holders(c)'
<1>0. /\ proc \in [Workers -> Process] /\ \A v \in Workers : ProcessOK(proc[v])
      /\ proc' \in [Workers -> Process]
  BY TypeByRecord, NextInvariant DEF IInv, TypeOK
<1>a. ASSUME \A v \in Workers : proc'[v].work = proc[v].work PROVE Goal
  <2>1. BatchesAreDistinct'
    BY <1>a DEF BatchesAreDistinct, Distinct
  <2>2. \A c \in Ids : Holders(c)' = Holders(c)
    BY <1>a DEF Holders
  <2> QED
    BY <2>1, <2>2
<1>b. ASSUME NEW w \in Workers, NEW at, Goto(w, at) PROVE Goal
  <2>1. \A v \in Workers : proc'[v].work = proc[v].work
    BY <1>0, <1>b DEF Goto, Process
  <2> QED
    BY <1>a, <2>1
<1>c. ASSUME NEW w \in Workers, NEW at, Done(w, at), proc[w].at \in Busy
      PROVE  Goal /\ Dealt(w)
  <2>1. proc[w].work \in Seq(Items) /\ proc[w].work # <<>> /\ Distinct(proc[w].work)
    BY <1>0, <1>c DEF ProcessOK, Process, Items, BatchesAreDistinct
  <2>2. proc'[w].work = Tail(proc[w].work) /\ \A v \in Workers \ {w} : proc'[v] = proc[v]
    BY <1>0, <1>c DEF Done, Process
  <2> DEFINE s == proc[w].work
  <2>3. /\ Distinct(Tail(s))
        /\ HeldIn(s, Head(s).id) /\ ~HeldIn(Tail(s), Head(s).id)
        /\ \A c : HeldIn(Tail(s), c) => HeldIn(s, c)
    BY <2>1, TailOfBatch
  <2>4. Head(s).id \in Ids
    <3>1. Head(s) \in Items
      BY <2>1, HeadTailProperties
    <3> QED
      BY <3>1 DEF Items
  <2>5. Distinct(proc'[w].work)
    BY <2>2, <2>3
  <2>6. /\ BatchesAreDistinct'
        /\ \A c \in Ids : /\ Holders(c)' \subseteq Holders(c) \cup {w}
                          /\ HeldIn(proc'[w].work, c) \/ w \notin Holders(c)'
    BY <1>0, <2>2, <2>5, BatchStep
  <2>7. \A c \in Ids : HeldIn(s, c) <=> w \in Holders(c)
    BY DEF Holders, HeldIn
  <2>8. proc'[w].work = Tail(s)
    BY <2>2
  <2> HIDE DEF s
  <2>9. \A c \in Ids : c = Head(s).id => w \in Holders(c)
    BY <2>3, <2>7
  <2>10. \A c \in Ids : c = Head(s).id => w \notin Holders(c)'
    BY <2>3, <2>6, <2>8
  <2>11. \A c \in Ids : Holders(c)' \subseteq Holders(c)
    BY <2>3, <2>6, <2>7, <2>8
  <2> QED
    BY <2>6, <2>9, <2>10, <2>11 DEF s
<1>d. ASSUME NEW w \in Workers, proc' = [proc EXCEPT ![w] = Down] PROVE Goal
  <2>1. proc'[w].work = <<>> /\ \A v \in Workers \ {w} : proc'[v] = proc[v]
    BY <1>0, <1>d DEF Down
  <2>2. Distinct(proc'[w].work) /\ \A c : ~HeldIn(proc'[w].work, c)
    BY <2>1, EmptyBatch
  <2>3. /\ BatchesAreDistinct'
        /\ \A c \in Ids : /\ Holders(c)' \subseteq Holders(c) \cup {w}
                          /\ HeldIn(proc'[w].work, c) \/ w \notin Holders(c)'
    BY <1>0, <2>1, <2>2, BatchStep
  <2> QED
    BY <2>2, <2>3
<1>1. ASSUME NEW w \in Workers, Fetch(w) PROVE Goal
  <2>0. PICK ids \in UNION {[1..n -> Ids] : n \in 0..BatchSize} :
           LET work == [i \in DOMAIN ids |-> [id |-> ids[i], text |-> chunk[ids[i]].text]]
           IN  /\ \A i \in DOMAIN ids : Pending(ids[i])
               /\ InOrder(work)
               /\ proc' = [proc EXCEPT ![w].work = work, ![w].at = AfterFetch(work)]
    BY <1>1, Zenon DEF Fetch
  <2>1. PICK n \in 0..BatchSize : ids \in [1..n -> Ids]
    OBVIOUS
  <2> DEFINE work == [i \in 1..n |-> [id |-> ids[i], text |-> chunk[ids[i]].text]]
  <2>2. /\ \A i \in 1..n : Pending(ids[i]) /\ work[i].id = ids[i]
        /\ InOrder(work) /\ n \in Nat
    BY <2>0, <2>1
  <2>3. proc'[w].work = work /\ \A v \in Workers \ {w} : proc'[v] = proc[v]
    BY <1>0, <2>0, <2>1 DEF Process
  <2>4. Len(work) = n
    BY <2>2
  <2> HIDE DEF work
  <2>5. Distinct(work)
    <3> SUFFICES ASSUME NEW i \in 1..n, NEW j \in 1..n, work[i].id = work[j].id PROVE i = j
      BY <2>4 DEF Distinct
    <3>1. ~(i < j) /\ ~(j < i)
      BY <2>2, <2>4 DEF InOrder
    <3> QED
      BY <2>2, <3>1
  <2>6. \A c : HeldIn(work, c) => Pending(c)
    BY <2>2, <2>4 DEF HeldIn
  <2>7. Distinct(proc'[w].work) /\ \A c : HeldIn(proc'[w].work, c) => Pending(c)
    BY <2>3, <2>5, <2>6
  <2>8. /\ BatchesAreDistinct'
        /\ \A c \in Ids : /\ Holders(c)' \subseteq Holders(c) \cup {w}
                          /\ HeldIn(proc'[w].work, c) \/ w \notin Holders(c)'
    BY <1>0, <2>3, <2>7, BatchStep
  <2> QED
    BY <1>1, <2>7, <2>8
<1>2. ASSUME NEW w \in Workers, NEW d \in Dims, Start(w, d) PROVE Goal
  <2>1. \A v \in Workers : proc'[v].work = proc[v].work
    BY <1>0, <1>2 DEF Start, Process
  <2> QED
    BY <1>a, <2>1
<1>3. ASSUME UNCHANGED proc PROVE Goal
  BY <1>a, <1>3
<1>4. ASSUME NEW w \in Workers, Store(w) \/ StoreFails(w) \/ MarkFailed(w) \/ MarkFails(w)
      PROVE  Goal /\ Dealt(w)
  BY <1>4, <1>c DEF Store, StoreFails, MarkFailed, MarkFails, Busy
<1>5. Goal
  BY <1>b, <1>d, <1>1, <1>2, <1>3, <1>4
     DEF Next, vars, Loop, Startup, Dedup, DedupFails, FetchFails, EmbedBatch, EmbedOne, Embed,
         DropColumn, ResetBookkeeping, AddColumn, StartupFails, Crash, Reindex, BackoffElapses
<1> QED
  BY <1>4, <1>5

\* Only a refusal counts, and only against the chunk it is about.
LEMMA AttemptsStep ==
    ASSUME IInv, [Next]_vars, NEW c \in Ids
    PROVE  \/ chunk'[c].attempts = chunk[c].attempts
           \/ chunk'[c].attempts = 0
           \/ \E w \in Workers : /\ MarkFailed(w) /\ c = Head(proc[w].work).id
                                 /\ chunk'[c].attempts = chunk[c].attempts + 1
<1> USE EmbeddingAssumption
<1> DEFINE Goal == \/ chunk'[c].attempts = chunk[c].attempts
                   \/ chunk'[c].attempts = 0
                   \/ \E w \in Workers : /\ MarkFailed(w) /\ c = Head(proc[w].work).id
                                         /\ chunk'[c].attempts = chunk[c].attempts + 1
<1>0. /\ chunk \in [Ids -> Chunk] /\ \A d \in Ids : ChunkOK(chunk[d])
      /\ chunk[c] \in Chunk
  BY TypeByRecord DEF IInv
<1>a. ASSUME chunk'[c].attempts = chunk[c].attempts PROVE Goal
  BY <1>a
<1>b. ASSUME chunk'[c] = chunk[c] PROVE Goal
  BY <1>b
<1>1. ASSUME NEW w \in Workers, Dedup(w) PROVE Goal
  <2>1. CASE chunk'[c] # chunk[c]
    <3>1. PICK d \in Ids : chunk'[c] = [chunk[c] EXCEPT !.vector = chunk[d].vector]
      BY <1>1, <2>1, DedupOfOneChunk
    <3> QED
      BY <1>0, <3>1 DEF Chunk
  <2> QED
    BY <1>b, <2>1
<1>2. ASSUME NEW w \in Workers, DropColumn(w) PROVE Goal
  <2>1. chunk'[c] = Dropped(chunk[c])
    BY <1>2 DEF DropColumn, Dropped
  <2> QED
    BY <1>0, <1>a, <2>1, FlagOfOthers
<1>3. ASSUME NEW w \in Workers, ResetBookkeeping(w) PROVE Goal
  BY <1>0, <1>3 DEF ResetBookkeeping, Chunk
<1>4. ASSUME NEW w \in Workers, Store(w) PROVE Goal
  <2>1. CASE UNCHANGED chunk
    BY <1>b, <2>1
  <2>2. ASSUME NEW e \in Live, NEW v \in Vectors, chunk' = [chunk EXCEPT ![e] = Embedded(@, v)]
        PROVE  Goal
    <3>1. e \in Ids /\ Embedded(chunk[e], v).attempts = chunk[e].attempts
      BY <1>0 DEF Live, Embedded, Chunk
    <3>2. CASE c # e
      BY <1>0, <1>b, <2>2, <3>2
    <3>3. CASE c = e
      BY <1>0, <1>a, <2>2, <3>1, <3>3
    <3> QED
      BY <3>2, <3>3
  <2> QED
    BY <1>4, <2>1, <2>2, StoreOfOneChunk
<1>5. ASSUME NEW w \in Workers, MarkFailed(w) PROVE Goal
  <2>1. \/ chunk'[c] = chunk[c]
        \/ c = Head(proc[w].work).id /\ chunk'[c] = AfterFailure(chunk[c])
    BY <1>0, <1>5 DEF MarkFailed
  <2>2. CASE c = Head(proc[w].work).id /\ chunk'[c] = AfterFailure(chunk[c])
    BY <1>0, <1>5, <2>2, FlagOfFailure
  <2> QED
    BY <1>b, <2>1, <2>2
<1>6. ASSUME NEW gone \in SUBSET Ids, NEW fresh \in SUBSET Ids, NEW born \in [fresh -> Texts],
             Reindex(gone, born)
      PROVE  Goal
  <2>1. \/ chunk'[c] = chunk[c] \/ chunk'[c] = Absent("gone")
        \/ \E t \in Texts : chunk'[c] = Fresh(t)
    BY <1>6 DEF Reindex
  <2>2. Absent("gone").attempts = 0 /\ \A t \in Texts : Fresh(t).attempts = 0
    BY DEF Absent, Fresh
  <2> QED
    BY <1>b, <2>1, <2>2
<1>7. ASSUME NEW d \in Ids, BackoffElapses(d) PROVE Goal
  <2>1. chunk'[c] = chunk[c] \/ chunk'[c] = Due(chunk[c])
    BY <1>0, <1>7 DEF BackoffElapses, Due
  <2>2. Due(chunk[c]).attempts = chunk[c].attempts
    BY <1>0 DEF Due, Chunk
  <2> QED
    BY <1>a, <1>b, <2>1, <2>2
<1>8. CASE UNCHANGED chunk
  BY <1>b, <1>8
<1> QED
  BY <1>1, <1>2, <1>3, <1>4, <1>5, <1>6, <1>7, <1>8
     DEF Next, vars, Loop, Startup, DedupFails, Fetch, FetchFails, EmbedBatch, EmbedOne, Embed,
         StoreFails, MarkFails, AddColumn, StartupFails, Crash, Start

\* No process is between the drop of a column and the reset, and none has stopped there.
Undisturbed == crashes = 0 /\ \A w \in Workers : proc[w].at # "reset"

\* Only the reset ends what a drop began, and it clears every count.
LEMMA DisturbanceStep ==
    ASSUME IInv, [Next]_vars, Undisturbed'
    PROVE  Undisturbed \/ \A c \in Ids : chunk'[c].attempts = 0
<1> USE EmbeddingAssumption
<1>0. /\ proc \in [Workers -> Process] /\ chunk \in [Ids -> Chunk] /\ crashes \in Nat
  BY TypeByRecord DEF IInv, TypeOK
<1>1. ASSUME NEW w \in Workers, ResetBookkeeping(w)
      PROVE  \A c \in Ids : chunk'[c].attempts = 0
  BY <1>0, <1>1 DEF ResetBookkeeping, Chunk
<1>a. ASSUME \A v \in Workers : proc[v].at = "reset" => proc'[v].at = "reset", UNCHANGED crashes
      PROVE  Undisturbed
  BY <1>a DEF Undisturbed
<1>b. ASSUME NEW w \in Workers, proc[w].at # "reset",
             \A v \in Workers \ {w} : proc'[v] = proc[v], UNCHANGED crashes
      PROVE  Undisturbed
  BY <1>a, <1>b
<1>2. ASSUME NEW w \in Workers, Loop(w) PROVE Undisturbed
  <2>1. proc[w].at # "reset" /\ UNCHANGED crashes
    BY <1>2 DEF Loop, Dedup, DedupFails, Fetch, FetchFails, EmbedBatch, EmbedOne, Embed, Store,
                StoreFails, MarkFailed, MarkFails
  <2>2. \A v \in Workers \ {w} : proc'[v] = proc[v]
    BY <1>0, <1>2 DEF Loop, Dedup, DedupFails, Fetch, FetchFails, EmbedBatch, EmbedOne, Embed,
                      Store, StoreFails, MarkFailed, MarkFails, Goto, Done
  <2> QED
    BY <1>b, <2>1, <2>2
<1>3. ASSUME NEW w \in Workers, DropColumn(w) \/ AddColumn(w) \/ StartupFails(w)
      PROVE  Undisturbed
  <2>1. proc[w].at # "reset" /\ UNCHANGED crashes
    BY <1>3 DEF DropColumn, AddColumn, StartupFails
  <2>2. \A v \in Workers \ {w} : proc'[v] = proc[v]
    BY <1>0, <1>3 DEF DropColumn, AddColumn, StartupFails, Goto
  <2> QED
    BY <1>b, <2>1, <2>2
<1>4. ASSUME NEW w \in Workers, NEW d \in Dims, Start(w, d) PROVE Undisturbed
  <2>1. proc[w].at # "reset" /\ UNCHANGED crashes
    BY <1>4 DEF Start
  <2>2. \A v \in Workers \ {w} : proc'[v] = proc[v]
    BY <1>0, <1>4 DEF Start
  <2> QED
    BY <1>b, <2>1, <2>2
<1>5. ASSUME NEW w \in Workers, Crash(w) PROVE FALSE
  BY <1>0, <1>5 DEF Crash, Undisturbed
<1>6. ASSUME UNCHANGED <<proc, crashes>> PROVE Undisturbed
  BY <1>a, <1>6
<1> QED
  BY <1>1, <1>2, <1>3, <1>4, <1>5, <1>6
     DEF Next, vars, Startup, Reindex, BackoffElapses

\* Sizes of sets of processes.
LEMMA HoldersCount ==
    \A S, T \in SUBSET Workers :
        /\ IsFiniteSet(S) /\ Cardinality(S) \in Nat /\ Cardinality(S) <= Cardinality(Workers)
        /\ S \subseteq T => Cardinality(S) <= Cardinality(T)
        /\ \A w \in Workers : w \in T /\ w \notin S /\ S \subseteq T => Cardinality(S) < Cardinality(T)
<1> SUFFICES ASSUME NEW S \in SUBSET Workers, NEW T \in SUBSET Workers
             PROVE  /\ IsFiniteSet(S) /\ Cardinality(S) \in Nat
                    /\ Cardinality(S) <= Cardinality(Workers)
                    /\ S \subseteq T => Cardinality(S) <= Cardinality(T)
                    /\ \A w \in Workers : w \in T /\ w \notin S /\ S \subseteq T
                         => Cardinality(S) < Cardinality(T)
  OBVIOUS
<1>1. /\ IsFiniteSet(Workers) /\ IsFiniteSet(S) /\ IsFiniteSet(T)
      /\ Cardinality(S) <= Cardinality(Workers)
  BY FS_Subset, EmbeddingAssumption DEF EmbeddingAssumption
<1>2. Cardinality(S) \in Nat /\ Cardinality(T) \in Nat
  BY <1>1, FS_CardinalityType
<1>3. S \subseteq T => Cardinality(S) <= Cardinality(T)
  BY <1>1, FS_Subset
<1>4. S \subseteq T /\ S # T => Cardinality(S) < Cardinality(T)
  BY <1>1, <1>2, FS_Subset
<1> QED
  BY <1>1, <1>2, <1>3, <1>4

\* Attempts and holders together stay below the bound.
LEMMA OverrunStep ==
    ASSUME IInv, BatchesAreDistinct, AttemptsOverrunIsBounded, [Next]_vars
    PROVE  AttemptsOverrunIsBounded'
<1> DEFINE a(c) == chunk[c].attempts
           h(c) == Cardinality(Holders(c))
           N == Cardinality(Workers)
<1> SUFFICES ASSUME NEW c \in Ids, MaxAttempts > 0, Undisturbed'
             PROVE  chunk'[c].attempts + Cardinality(Holders(c)') < MaxAttempts + N
  BY DEF AttemptsOverrunIsBounded, Undisturbed
<1>0. chunk[c].attempts \in Nat /\ chunk'[c].attempts \in Nat /\ MaxAttempts \in Nat
  <2>1. chunk \in [Ids -> Chunk] /\ chunk' \in [Ids -> Chunk]
    BY TypeByRecord, NextInvariant DEF IInv, TypeOK
  <2> QED
    BY <2>1, EmbeddingAssumption DEF Chunk, EmbeddingAssumption
<1>1. /\ Holders(c) \in SUBSET Workers /\ Holders(c)' \in SUBSET Workers
      /\ Workers \in SUBSET Workers
  BY DEF Holders
<1>2. /\ Cardinality(Holders(c)) \in Nat /\ Cardinality(Holders(c)') \in Nat /\ N \in Nat
      /\ Cardinality(Holders(c)) <= N /\ Cardinality(Holders(c)') <= N
      /\ Holders(c)' \subseteq Holders(c) => Cardinality(Holders(c)') <= Cardinality(Holders(c))
  BY <1>1, HoldersCount
<1>3. CASE chunk'[c].attempts = 0
  BY <1>0, <1>2, <1>3
<1>4. CASE chunk'[c].attempts # 0
  <2>1. Undisturbed
    BY <1>4, DisturbanceStep
  <2>2. chunk[c].attempts + Cardinality(Holders(c)) < MaxAttempts + N
    BY <2>1 DEF AttemptsOverrunIsBounded, Undisturbed
  <2>3. ASSUME NEW w \in Workers, MarkFailed(w), c = Head(proc[w].work).id,
               chunk'[c].attempts = chunk[c].attempts + 1
        PROVE  chunk'[c].attempts + Cardinality(Holders(c)') < MaxAttempts + N
    <3>1. w \in Holders(c) /\ w \notin Holders(c)'
      BY <2>3, HoldersStep
    <3>2. Holders(c)' \subseteq Holders(c)
      <4>1. ~\E v \in Workers : Fetch(v)
        BY <1>0, <2>3 DEF Fetch
      <4> QED
        BY <4>1, HoldersStep
    <3>3. Cardinality(Holders(c)') < Cardinality(Holders(c))
      BY <1>1, <3>1, <3>2, HoldersCount
    <3> QED
      BY <1>0, <1>2, <2>2, <2>3, <3>3
  <2>4. CASE chunk'[c].attempts = chunk[c].attempts
    <3>1. CASE Holders(c)' \subseteq Holders(c)
      BY <1>0, <1>2, <2>2, <2>4, <3>1
    <3>2. CASE \E w \in Workers : Fetch(w) /\ Pending(c)
      <4>1. chunk[c].attempts < MaxAttempts
        BY <1>0, <2>1, <3>2 DEF IInv, ExhaustedAreSettled, Settled, Pending, Undisturbed
      <4> QED
        BY <1>0, <1>2, <2>4, <4>1
    <3> QED
      BY <3>1, <3>2, HoldersStep
  <2> QED
    BY <1>4, <2>3, <2>4, AttemptsStep
<1> QED
  BY <1>3, <1>4

LEMMA OverrunInit == Init => BatchesAreDistinct /\ AttemptsOverrunIsBounded
<1> SUFFICES ASSUME Init PROVE BatchesAreDistinct /\ AttemptsOverrunIsBounded
  OBVIOUS
<1>1. \A w \in Workers : proc[w].work = <<>>
  BY DEF Init, Down
<1>2. BatchesAreDistinct
  BY <1>1, EmptyBatch DEF BatchesAreDistinct
<1>3. ASSUME NEW c \in Ids, MaxAttempts > 0
      PROVE  chunk[c].attempts + Cardinality(Holders(c)) < MaxAttempts + Cardinality(Workers)
  <2>1. chunk[c].attempts = 0
    BY DEF Init, Absent
  <2>2. Holders(c) = {}
    BY <1>1, EmptySeq DEF Holders
  <2>3. Cardinality(Holders(c)) = 0 /\ Cardinality(Workers) \in Nat /\ MaxAttempts \in Nat
    BY <2>2, FS_EmptySet, FS_CardinalityType, EmbeddingAssumption DEF EmbeddingAssumption
  <2> QED
    BY <1>3, <2>1, <2>3
<1> QED
  BY <1>2, <1>3 DEF AttemptsOverrunIsBounded

\* However many processes fetch a chunk before the first of them records its refusal, the
\* attempts it is charged exceed the limit by less than their number.
THEOREM AttemptsOverrun == Spec => []AttemptsOverrunIsBounded
<1>1. Init => BatchesAreDistinct /\ AttemptsOverrunIsBounded
  BY OverrunInit
<1>2. IInv /\ BatchesAreDistinct /\ AttemptsOverrunIsBounded /\ [Next]_vars
      => (BatchesAreDistinct /\ AttemptsOverrunIsBounded)'
  BY HoldersStep, OverrunStep
<1> QED
  BY Invariance, <1>1, <1>2, PTL DEF Spec

=============================================================================
