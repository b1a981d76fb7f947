----------------------------- MODULE MCSnapshot -----------------------------
(***************************************************************************)
(* The block database with a history of what a transaction that is being   *)
(* begun could have seen: the contents from the start of dbCache.Snapshot  *)
(* to its end.                                                             *)
(***************************************************************************)
EXTENDS MCFfldb

VARIABLE shown

ShownInit == MCInit /\ shown = [t \in Txs |-> {}]
ShownNext ==
    /\ MCNext
    /\ shown' = [t \in Txs |-> IF stage'[t] = "none" THEN {}
                               ELSE IF stage[t] \in {"none", "ldb"}
                               THEN shown[t] \cup {Current, Current'}
                               ELSE shown[t]]
ShownSpec == ShownInit /\ [][ShownNext]_<<vars, scenario, mishaps, shown>>

OnlyReads == {Reads}

\* Every transaction sees the contents of the database at one point in time
\* between the start and the end of dbCache.Snapshot.
SnapshotIsPointInTime == \A t \in Txs : stage[t] = "open" => snap[t] \in shown[t]
=============================================================================
