---------------------------- MODULE MCOAuthGrants ----------------------------
(* A small instance of OAuthGrants: organizations, grants and calls are interchangeable. *)
EXTENDS OAuthGrants, TLC

Interchangeable == Permutations(Orgs) \cup Permutations(Calls) \cup Permutations(Grants)
=============================================================================
