----------------------------- MODULE MCDocuments -----------------------------
(* Small instances of Documents: the texts clients submit and the actors of clients. *)
EXTENDS Documents, TLC

CONSTANTS c1, c2, a1, a2, s1, s2

\* Two sessions of different actors.
TwoActors == c1 :> a1 @@ c2 :> a2

\* One to two sections: s2 under the heading s1, and under no other.
EditTexts == {<<s1>>, <<s1, s2>>, <<s2, s2>>}

\* Documents and paths are interchangeable: nothing orders or names them.
DocsAndPaths == Permutations(Docs) \cup Permutations(Paths)

OneText == {<<s1>>}
=============================================================================
