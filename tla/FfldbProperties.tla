-------------------------- MODULE FfldbProperties ---------------------------
(***************************************************************************)
(* What must hold of the block database.                                   *)
(***************************************************************************)
EXTENDS Ffldb

\* The state of the abstract store that the database implements.
ContentsOf(rows) ==
    [keys   |-> [k \in Keys |-> rows[k]],
     blocks |-> {b \in Blocks : rows[b] # None /\ RecordAt(rows[b]) = b}]

NoWork     == [keys |-> [k \in Keys |-> None], blocks |-> {None}]
NoContents == [keys |-> [k \in Keys |-> None], blocks |-> {}]

CurrentContents == ContentsOf(Current)
DurableContents == ContentsOf(ldb)
WorkingContents ==
    IF stage[Writer] \in {"none", "ldb"} THEN NoWork
    ELSE [keys   |-> [k \in Keys |-> WriterView[k]],
          blocks |-> ContentsOf(snap[Writer]).blocks \cup PendingBlocks]

Promise == INSTANCE Store WITH
    Items   <- Values \cup {None},
    Empty   <- NoContents,
    NoTx    <- NoWork,
    current <- CurrentContents,
    durable <- DurableContents,
    working <- WorkingContents

\* The database keeps its promise: write transactions are all or nothing, in
\* the cache as on disk, and a block that is listed can be read, whatever
\* write, sync, delete, truncate or LevelDB commit fails and wherever in
\* writePendingAndCommit, flush, handleRollback or reconcileDB the process dies.
KeepsPromise == Promise!StoreSpec

\* Every block a reader finds in its snapshot can be read by it, from its
\* first look to the end of its transaction: no write, rollback or roll over
\* by the write transaction running beside it (writeBlock, handleRollback)
\* takes a record away.
ReadersFindBlocks ==
    \A r \in Readers, b \in Blocks :
        stage[r] \in {"ldb", "open"} /\ snap[r][b] # None => RecordAt(snap[r][b]) = b

\* A handle that blockFile has given to a reader stays open until it is
\* unlocked, and there are never more than maxOpenFiles read-only ones.
HandlesStayOpen ==
    /\ \A r \in Readers :
         /\ reading[r].handle = "write" => curOpen /\ reading[r].file = cursor.file
         /\ reading[r].handle = "read" =>
              /\ reading[r].file \in onDisk
              /\ \E i \in DOMAIN openFiles : openFiles[i] = reading[r].file
    /\ Len(openFiles) <= MaxOpenFiles
    /\ \A i, j \in DOMAIN openFiles : i # j => openFiles[i] # openFiles[j]

\* reconcileDB never finds the block files short of what the metadata says,
\* because every flush is preceded by the writes it lists.
NeverCorrupt == status # "corrupt"

\* A block that LevelDB lists has been synced, except in a file that
\* writeBlock closed, to move on to the next one, with records not yet synced.
ListedSyncedUnlessCutLoose ==
    \A b \in Blocks :
        ldb[b] # None /\ ldb[b].off >= synced[ldb[b].file] => ldb[b].file \in cutLoose
=============================================================================
