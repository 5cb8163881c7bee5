------------------------------ MODULE MCAccess ------------------------------
(* A small instance of Access: an owner and one other user, one team. *)
EXTENDS Access, TLC

CONSTANTS first, other

Symmetry == Permutations(Calls) \cup Permutations(Keys)
MCInit ==
    /\ Init
    /\ role[first] = "owner" /\ role[other] # "owner"
    /\ \A t \in Teams : first \notin team[t]
MCNext == Next /\ role'[first] = "owner"
MCSpec == MCInit /\ [][MCNext]_vars
=============================================================================
