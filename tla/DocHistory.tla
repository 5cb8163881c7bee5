----------------------------- MODULE DocHistory -----------------------------
(***************************************************************************)
(* What the document store promises a reader of one document: a history of *)
(* full snapshots that only grows at its end, whose last entry is the text *)
(* shown while the document is visible.  The single exception the store    *)
(* makes is that a trailing autosave may be amended in place by its own    *)
(* author (the debounce of crates/db/src/document.rs).  One actor at a     *)
(* time writes a document, and every snapshot bears the name of the actor  *)
(* who wrote it.  Clients, their copies, optimistic concurrency and the    *)
(* chunk index are hidden here; module Documents implements this           *)
(* specification.                                                          *)
(***************************************************************************)
EXTENDS Naturals, Sequences

CONSTANTS Docs, Texts, Actors

Snapshot == [content: Texts, kind: {"checkpoint", "autosave"}, actor: Actors]

VARIABLES
    history,   \* [Docs -> Seq(Snapshot)], empty until the document is created
    visible,   \* [Docs -> BOOLEAN], FALSE before creation and while deleted
    text,      \* [Docs -> Texts], the text readers are given
    writers    \* [Docs -> SUBSET Actors], who is writing the document: one actor or none

vars == <<history, visible, text, writers>>

LastOf(d) == history[d][Len(history[d])]

Init ==
    /\ history = [d \in Docs |-> <<>>]
    /\ visible = [d \in Docs |-> FALSE]
    /\ text \in [Docs -> Texts]
    /\ writers = [d \in Docs |-> {}]

EndsWriting(d) == writers' = [writers EXCEPT ![d] = {}]

\* An actor begins to write a visible document nobody is writing.
Begin(d, a) ==
    /\ visible[d]
    /\ writers[d] = {}
    /\ writers' = [writers EXCEPT ![d] = {a}]
    /\ UNCHANGED <<history, visible, text>>

\* It gives up, or changes nothing a reader of the text sees.
Quit(d) ==
    /\ writers[d] # {}
    /\ EndsWriting(d)
    /\ UNCHANGED <<history, visible, text>>

\* A first snapshot makes the document visible.
Create(d, s) ==
    /\ history[d] = <<>>
    /\ history' = [history EXCEPT ![d] = <<s>>]
    /\ visible' = [visible EXCEPT ![d] = TRUE]
    /\ text' = [text EXCEPT ![d] = s.content]
    /\ UNCHANGED writers

\* Updates, appends and restores add one snapshot, its writer's, after the last.
Extend(d, s) ==
    /\ visible[d]
    /\ writers[d] = {s.actor}
    /\ EndsWriting(d)
    /\ history' = [history EXCEPT ![d] = Append(@, s)]
    /\ text' = [text EXCEPT ![d] = s.content]
    /\ UNCHANGED visible

\* The author of the last snapshot, and nobody else, may overwrite it if it is an autosave.
Amend(d, a, t) ==
    /\ visible[d]
    /\ writers[d] = {a}
    /\ LastOf(d).kind = "autosave"
    /\ LastOf(d).actor = a
    /\ EndsWriting(d)
    /\ history' = [history EXCEPT ![d][Len(history[d])].content = t]
    /\ text' = [text EXCEPT ![d] = t]
    /\ UNCHANGED visible

\* Deletion hides the document and keeps its history; undeletion shows it as it was.
Hide(d) ==
    /\ visible[d]
    /\ writers[d] # {}
    /\ EndsWriting(d)
    /\ visible' = [visible EXCEPT ![d] = FALSE]
    /\ UNCHANGED <<history, text>>

Show(d) ==
    /\ ~ visible[d]
    /\ history[d] # <<>>
    /\ visible' = [visible EXCEPT ![d] = TRUE]
    /\ UNCHANGED <<history, text, writers>>

Next ==
    \E d \in Docs :
        \/ \E s \in Snapshot : Create(d, s) \/ Extend(d, s)
        \/ \E a \in Actors, t \in Texts : Amend(d, a, t)
        \/ \E a \in Actors : Begin(d, a)
        \/ Quit(d)
        \/ Hide(d)
        \/ Show(d)

Spec == Init /\ [][Next]_vars
=============================================================================
