---------------------------- MODULE SemanticIndex ----------------------------
(***************************************************************************)
(* What the embedding queue promises semantic search: an answer, of the    *)
(* chunk's own content and of the width of the column, for every chunk     *)
(* that has one; chunks that wait for theirs; and chunks it has given up.  *)
(* Processes, batches, attempts, backoffs and crashes are all hidden here; *)
(* module EmbeddingWorker implements this specification.                   *)
(***************************************************************************)
EXTENDS Naturals

CONSTANTS
    Ids,        \* chunks
    Contents,   \* what is searched for
    Dims,       \* widths of the column
    GivesUp,    \* whether the number of attempts is limited at all
    NoDim

VARIABLES
    content,    \* the content of each chunk there is
    past,       \* the chunks there have been
    answer,     \* what each embedded chunk is found by: a content and a width
    skipped,    \* the chunks given up
    width       \* of the column, NoDim while there is none

vars == <<content, past, answer, skipped, width>>

Nothing == [c \in {} |-> c]

Init ==
    /\ content = Nothing
    /\ past = {}
    /\ answer = Nothing
    /\ skipped = {}
    /\ width = NoDim

\* An edit replaces chunks by new ones, which nobody has seen.
Edit(gone, born) ==
    /\ gone \subseteq DOMAIN content
    /\ DOMAIN born \cap (DOMAIN content \cup past) = {}
    /\ content' = [c \in (DOMAIN content \ gone) \cup DOMAIN born |->
                     IF c \in DOMAIN born THEN born[c] ELSE content[c]]
    /\ past' = past \cup gone
    /\ answer' = [c \in DOMAIN answer \ gone |-> answer[c]]
    /\ skipped' = skipped \ gone
    /\ UNCHANGED width

\* Chunks are answered for, be it late: a chunk given up may yet be.
Answer(chunks) ==
    /\ chunks \subseteq DOMAIN content \ DOMAIN answer
    /\ width # NoDim
    /\ answer' = [c \in DOMAIN answer \cup chunks |->
                    IF c \in chunks THEN [of |-> content[c], dim |-> width] ELSE answer[c]]
    /\ skipped' = skipped \ chunks
    /\ UNCHANGED <<content, past, width>>

\* Only a chunk that waits is given up, and none if attempts are not limited.
GiveUp(c) ==
    /\ GivesUp
    /\ c \in DOMAIN content \ DOMAIN answer
    /\ skipped' = skipped \cup {c}
    /\ UNCHANGED <<content, past, answer, width>>

\* With the column all answers are gone.  A chunk that was given up before it was answered
\* for is given up again.
Drop(again) ==
    /\ width # NoDim
    /\ again \subseteq DOMAIN answer
    /\ again # {} => GivesUp
    /\ width' = NoDim
    /\ answer' = Nothing
    /\ skipped' = skipped \cup again
    /\ UNCHANGED <<content, past>>

\* A new width is a new chance.
Requeue ==
    /\ skipped' = {}
    /\ UNCHANGED <<content, past, answer, width>>

Widen(d) ==
    /\ width = NoDim
    /\ width' = d
    /\ UNCHANGED <<content, past, answer, skipped>>

Next ==
    \/ \E gone, fresh \in SUBSET Ids : \E born \in [fresh -> Contents] : Edit(gone, born)
    \/ \E chunks \in SUBSET Ids : Answer(chunks) \/ Drop(chunks)
    \/ \E c \in Ids : GiveUp(c)
    \/ Requeue
    \/ \E d \in Dims : Widen(d)

Spec == Init /\ [][Next]_vars
=============================================================================
