---------------------------- MODULE DocumentQuota ----------------------------
(***************************************************************************)
(* How far the quota of documents in a project holds.  create_document of  *)
(* crates/db/src/document.rs counts the live documents and inserts in a    *)
(* later statement, without a lock: sessions that count together all pass. *)
(* undelete_document does not count at all.  This module is Documents with *)
(* one history variable, the documents an undeletion has brought back.     *)
(***************************************************************************)
EXTENDS Documents

ASSUME QuotaAssumption ==
    /\ IsFiniteSet(Docs)
    /\ IsFiniteSet(Clients)
    /\ Clients # {}

VARIABLE restored   \* the live documents that undelete_document made live

quotaVars == <<vars, restored>>

\* The documents create_document made live, and the sessions that have counted.
Created == LiveDocs \ restored
Creating == {c \in Clients : tx[c].state = "creating"}

QuotaInit ==
    /\ Init
    /\ restored = {}

\* A deleted document becomes live by undelete_document and by nothing else.
QuotaNext ==
    /\ Next
    /\ restored' = {d \in LiveDocs' : d \in restored \/ document[d].status = "deleted"}

QuotaSpec == QuotaInit /\ [][QuotaNext]_quotaVars

----------------------------------------------------------------------------
(* Properties *)

\* Creations exceed max_docs_per_project by less than the number of sessions: whatever
\* the order of counts, inserts, deletions and undeletions, a session that loops cannot
\* slip in a second document past a count it has already used.
QuotaOverrunIsBounded ==
    Cardinality(Created) + Cardinality(Creating) < MaxDocs + Cardinality(Clients)
=============================================================================
