--------------------------- MODULE MCDocumentQuota ---------------------------
(* A small instance of DocumentQuota: the actors of the sessions and their text. *)
EXTENDS DocumentQuota, TLC

CONSTANTS c1, c2, a1, a2, s1

TwoActors == c1 :> a1 @@ c2 :> a2

OneText == {<<s1>>}

\* Documents and paths are interchangeable: nothing orders or names them.
DocsAndPaths == Permutations(Docs) \cup Permutations(Paths)
=============================================================================
