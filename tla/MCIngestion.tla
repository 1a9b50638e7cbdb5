----------------------------- MODULE MCIngestion -----------------------------
EXTENDS Ingestion
CONSTANTS b1, b2

\* Both batches of one user, or of two users.
MCOwner == [b \in Batch |-> "u1"]
MCOwners == [b \in Batch |-> IF b = b1 THEN "u1" ELSE "u2"]

\* One trace id for all, or a second one for one batch.
MCTraces == [b \in Batch |-> IF b = b1 THEN <<"t1", "t2">> ELSE <<"t1">>]
MCTables == [b \in Batch |-> IF b = b1 THEN <<"node", "edge">> ELSE <<"node">>]
=============================================================================
