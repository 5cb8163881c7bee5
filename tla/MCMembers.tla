------------------------------ MODULE MCMembers ------------------------------
(* A small instance of Members: users and requests are interchangeable. *)
EXTENDS Members, TLC

Interchangeable ==
    Permutations(Users) \cup Permutations(Changes) \cup Permutations(SignIns)
=============================================================================
