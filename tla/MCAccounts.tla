----------------------------- MODULE MCAccounts -----------------------------
(* A small instance of Accounts: two people of one local part, one of whom has two  *)
(* addresses and signs in twice at once.  One of them is the other person's but for *)
(* the case of its letters.                                                         *)
EXTENDS Accounts

CONSTANTS p, q, e, f, g, x, c1, c2, c3

Asserted == [r \in {p, q} |-> IF r = p THEN {e} ELSE {f, g}]
LowerCase == [a \in {e, f, g} |-> IF a = f THEN e ELSE a]
OneLocalPart == [a \in {e, f, g} |-> x]

\* Only one address is given an account by bootstrap, so there are never more than two rows.
MCNext == Next /\ \A i \in Ids : user'[i].email \in {f, g} => user'[i].sub # Nobody
MCSpec == Init /\ [][MCNext]_vars /\ Fairness
Tabs == [c \in {c1, c2, c3} |-> IF c = c1 THEN p ELSE q]
=============================================================================
