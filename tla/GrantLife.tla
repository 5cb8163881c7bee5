------------------------------ MODULE GrantLife ------------------------------
(***************************************************************************)
(* What the authorization server promises about one consent: it is asked   *)
(* for, approved or turned down, connected at most once, and from then on  *)
(* holds a single refresh token, which is exchanged for a new one until    *)
(* the connection ends, for good.  A token that has been given up never    *)
(* works again, and no token ever serves two consents.  Organizations,     *)
(* access tokens, families, transactions and their locks are hidden here;  *)
(* module OAuthGrants implements this specification.                       *)
(***************************************************************************)
EXTENDS FiniteSets

CONSTANTS Grants, Tokens

VARIABLES
    stage,   \* [Grants -> Stages]
    live,    \* [Grants -> SUBSET Tokens]: the refresh token that works, if any
    dead     \* [Grants -> SUBSET Tokens]: those exchanged or revoked

vars == <<stage, live, dead>>

Stages == {"unasked", "asked", "refused", "approved", "connected"}

Init ==
    /\ stage = [g \in Grants |-> "unasked"]
    /\ live = [g \in Grants |-> {}]
    /\ dead = [g \in Grants |-> {}]

Fresh(k) == \A g \in Grants : k \notin live[g] \cup dead[g]

\* A consent is asked for, given, or refused by the user or by time.
Decide(g, from, to) ==
    /\ stage[g] = from
    /\ <<from, to>> \in {<<"unasked", "asked">>, <<"asked", "approved">>,
                         <<"asked", "refused">>, <<"approved", "refused">>}
    /\ stage' = [stage EXCEPT ![g] = to]
    /\ UNCHANGED <<live, dead>>

\* The code is exchanged for the first refresh token.
Connect(g, k) ==
    /\ stage[g] = "approved"
    /\ Fresh(k)
    /\ stage' = [stage EXCEPT ![g] = "connected"]
    /\ live' = [live EXCEPT ![g] = {k}]
    /\ UNCHANGED dead

\* A refresh token buys its successor.
Renew(g, k) ==
    /\ live[g] # {}
    /\ Fresh(k)
    /\ live' = [live EXCEPT ![g] = {k}]
    /\ dead' = [dead EXCEPT ![g] = @ \cup live[g]]
    /\ UNCHANGED stage

\* Connections end, those of one family together.
End(G) ==
    /\ live' = [g \in Grants |-> IF g \in G THEN {} ELSE live[g]]
    /\ dead' = [g \in Grants |-> IF g \in G THEN dead[g] \cup live[g] ELSE dead[g]]
    /\ UNCHANGED stage

Next ==
    \/ \E g \in Grants :
        \/ \E from, to \in Stages : Decide(g, from, to)
        \/ \E k \in Tokens : Connect(g, k) \/ Renew(g, k)
    \/ \E G \in SUBSET Grants : End(G)

Spec == Init /\ [][Next]_vars
=============================================================================
