------------------------------- MODULE Ffldb --------------------------------
(***************************************************************************)
(* The block database (database/ffldb): one write transaction at a time    *)
(* and any number of read transactions over a LevelDB database, a cache of *)
(* committed changes in front of it, and the block files.                  *)
(*                                                                         *)
(* The metadata is one function from keys to values.  The row of a block   *)
(* holds where its record is, and the row WriteLoc the position of the     *)
(* write cursor.  LevelDB itself is external: its transactions are atomic  *)
(* and durable, and may fail.                                              *)
(***************************************************************************)
EXTENDS BlockFiles

CONSTANTS
    Keys, Values,   \* the other metadata
    WriteLoc,       \* writeLocKeyName
    None,           \* no value
    Writer          \* the write transaction

ASSUME RowAssumption ==
    /\ None \notin Values \cup Locations \cup Blocks
    /\ WriteLoc \notin Keys \cup Blocks
    /\ Keys \cap Blocks = {}
    /\ Writer \notin Readers

VARIABLES
    status,   \* of the database: open, closing, closed or corrupt
    ldb,      \* what LevelDB holds
    cache,    \* dbCache.cachedKeys and cachedRemove
    stage,    \* how far each transaction has come
    snap,     \* what the snapshot of each transaction shows
    pending,  \* pendingKeys, pendingRemove and pendingBlockData
    written,  \* how many of the pending blocks have been written
    saved     \* oldBlkFileNum and oldBlkOffset

dbVars == <<status, ldb, cache, stage, snap, pending, written, saved>>
vars   == <<fileVars, dbVars>>

Rows     == Keys \cup Blocks \cup {WriteLoc}
Contents == {f \in [Rows -> Values \cup Locations \cup {None}] :
                /\ \A k \in Keys : f[k] \in Values \cup {None}
                /\ \A b \in Blocks \cup {WriteLoc} : f[b] \in Locations \cup {None}}
Txs      == Readers \cup {Writer}
Nothing  == [k \in Rows |-> None]
Start    == [file |-> 0, off |-> 0]
NoCache  == [keys |-> Nothing, remove |-> {}]
NoPending == [keys |-> Nothing, remove |-> {}, blocks |-> << >>]

DbTypeOK ==
    /\ status \in {"open", "closing", "closed", "corrupt"}
    /\ ldb \in Contents
    /\ cache \in [keys : Contents, remove : SUBSET Rows]
    /\ stage \in [Txs -> {"none", "ldb", "open", "writing", "undo",
                          "synced", "flushed", "cleared"}]
    /\ snap \in [Txs -> Contents]
    /\ pending \in [keys : Contents, remove : SUBSET Rows, blocks : Seq(Blocks)]
    /\ written \in Nat
    /\ saved \in Locations

-----------------------------------------------------------------------------
\* Lookups and changes.

\* dbCacheSnapshot.Get, transaction.fetchKey and commitTreaps: removed keys
\* hide added ones, and both hide what is below.
Overlay(below, change) ==
    [k \in Rows |-> IF k \in change.remove THEN None
                    ELSE IF change.keys[k] # None THEN change.keys[k]
                    ELSE below[k]]

\* Deliberate slip: a key that is added again stays removed.
MergeKeepsRemoved(old, change) ==
    [keys   |-> [k \in Rows |-> IF k \in change.remove THEN None
                                ELSE IF change.keys[k] # None THEN change.keys[k]
                                ELSE old.keys[k]],
     remove |-> old.remove \cup change.remove]

\* The part of commitTx that applies a transaction to the cache.
Merge(old, change) ==
    [keys   |-> [k \in Rows |-> IF k \in change.remove THEN None
                                ELSE IF change.keys[k] # None THEN change.keys[k]
                                ELSE old.keys[k]],
     remove |-> {k \in old.remove : change.keys[k] = None} \cup change.remove]

\* What a transaction that starts now sees.
Current == Overlay(ldb, cache)

\* What the write transaction sees.
WriterView == Overlay(snap[Writer], pending)

PendingBlocks == {pending.blocks[i] : i \in DOMAIN pending.blocks}

\* transaction.hasBlock.
HasBlock(b) == b \in PendingBlocks \/ WriterView[b] # None

-----------------------------------------------------------------------------
\* Transactions.

DbInit ==
    /\ status = "closed"
    /\ ldb = [Nothing EXCEPT ![WriteLoc] = Start]
    /\ cache = NoCache
    /\ stage = [t \in Txs |-> "none"]
    /\ snap = [t \in Txs |-> Nothing]
    /\ pending = NoPending
    /\ written = 0
    /\ saved = Start

\* transaction.close.
CloseTx(t) ==
    /\ stage' = [stage EXCEPT ![t] = "none"]
    /\ snap' = [snap EXCEPT ![t] = Nothing]
    /\ pending' = IF t = Writer THEN NoPending ELSE pending
    /\ written' = IF t = Writer THEN 0 ELSE written
    /\ saved' = IF t = Writer THEN Start ELSE saved

\* db.begin up to the LevelDB snapshot that dbCache.Snapshot takes first.
Begin(t) ==
    /\ status = "open"
    /\ stage[t] = "none"
    /\ stage' = [stage EXCEPT ![t] = "ldb"]
    /\ snap' = [snap EXCEPT ![t] = ldb]
    /\ UNCHANGED <<fileVars, status, ldb, cache, pending, written, saved>>

\* The rest of dbCache.Snapshot: the roots of the cache.
SnapshotCache(t) ==
    /\ stage[t] = "ldb"
    /\ stage' = [stage EXCEPT ![t] = "open"]
    /\ snap' = [snap EXCEPT ![t] = Overlay(@, cache)]
    /\ UNCHANGED <<fileVars, status, ldb, cache, pending, written, saved>>

\* transaction.putKey.
PutKey(k, v) ==
    /\ stage[Writer] = "open"
    /\ pending' = [pending EXCEPT !.keys[k] = v, !.remove = @ \ {k}]
    /\ UNCHANGED <<fileVars, status, ldb, cache, stage, snap, written, saved>>

\* transaction.deleteKey.
DeleteKey(k) ==
    /\ stage[Writer] = "open"
    /\ pending' = [pending EXCEPT !.keys[k] = None, !.remove = @ \cup {k}]
    /\ UNCHANGED <<fileVars, status, ldb, cache, stage, snap, written, saved>>

\* transaction.StoreBlock.
StoreBlock(b) ==
    /\ stage[Writer] = "open"
    /\ ~HasBlock(b)
    /\ pending' = [pending EXCEPT !.blocks = Append(@, b)]
    /\ UNCHANGED <<fileVars, status, ldb, cache, stage, snap, written, saved>>

\* transaction.Rollback.
Rollback(t) ==
    /\ stage[t] = "open"
    /\ t \in Readers => reading[t] = NotReading
    /\ CloseTx(t)
    /\ UNCHANGED <<fileVars, status, ldb, cache>>

\* readBlock for the block b: the file of its record, then the read.
ReadBlock(r, b) ==
    /\ stage[r] = "open"
    /\ snap[r][b] # None
    /\ BlockFile(r, snap[r][b].file)
    /\ UNCHANGED dbVars

ReadDone(r) == DoneReading(r) /\ UNCHANGED dbVars

-----------------------------------------------------------------------------
\* Commit: writePendingAndCommit and dbCache.commitTx.

Commit ==
    /\ stage[Writer] = "open"
    /\ Len(pending.blocks) <= Room
    /\ stage' = [stage EXCEPT ![Writer] = "writing"]
    /\ saved' = cursor
    /\ UNCHANGED <<fileVars, status, ldb, cache, snap, pending, written>>

\* The next pending block is written, and its row put.
WritePending ==
    /\ stage[Writer] = "writing"
    /\ written < Len(pending.blocks)
    /\ LET b == pending.blocks[written + 1]
       IN  /\ WriteBlock(b)
           /\ pending' = [pending EXCEPT !.keys[b] = WritePosition,
                                         !.remove = @ \ {b}]
    /\ written' = written + 1
    /\ UNCHANGED <<status, ldb, cache, stage, snap, saved>>

\* Writing it fails, perhaps half way.
WritePendingFails ==
    /\ stage[Writer] = "writing"
    /\ written < Len(pending.blocks)
    /\ WriteBlock(Torn) \/ WriteNothing
    /\ stage' = [stage EXCEPT ![Writer] = "undo"]
    /\ UNCHANGED <<status, ldb, cache, snap, pending, written, saved>>

\* The closure rollback of writePendingAndCommit, and the end of Commit.
UndoWrites ==
    /\ stage[Writer] = "undo"
    /\ HandleRollback(cursor, saved, TRUE)
    /\ CloseTx(Writer)
    /\ UNCHANGED <<status, ldb, cache>>

AllWritten == stage[Writer] = "writing" /\ written = Len(pending.blocks)

\* Deliberate slip: the row of the write position is put before the blocks
\* are written.
CompleteTooEarly ==
    [keys   |-> [pending.keys EXCEPT ![WriteLoc] = saved],
     remove |-> pending.remove \ {WriteLoc},
     blocks |-> pending.blocks]

\* The pending changes with the row of the write position.
Complete ==
    [keys   |-> [pending.keys EXCEPT ![WriteLoc] = cursor],
     remove |-> pending.remove \ {WriteLoc},
     blocks |-> pending.blocks]

\* commitTx when no flush is needed.
CommitToCache ==
    /\ AllWritten
    /\ cache' = Merge(cache, Complete)
    /\ CloseTx(Writer)
    /\ UNCHANGED <<fileVars, status, ldb>>

\* Deliberate slip: the metadata goes to LevelDB without a sync before.
FlushUnsynced ==
    /\ AllWritten
    /\ pending' = Complete
    /\ stage' = [stage EXCEPT ![Writer] = "synced"]
    /\ UNCHANGED <<fileVars, status, ldb, cache, snap, written, saved>>

\* commitTx when a flush is needed, either because of the size of the cache
\* or because of the time: first the sync of flush.
FlushSync ==
    /\ AllWritten
    /\ SyncBlocks
    /\ pending' = Complete
    /\ stage' = [stage EXCEPT ![Writer] = "synced"]
    /\ UNCHANGED <<status, ldb, cache, snap, written, saved>>

\* Then the cache goes to LevelDB ...
FlushCommit ==
    /\ stage[Writer] = "synced"
    /\ ldb' = Current
    /\ stage' = [stage EXCEPT ![Writer] = "flushed"]
    /\ UNCHANGED <<fileVars, status, cache, snap, pending, written, saved>>

\* ... and is cleared ...
FlushClear ==
    /\ stage[Writer] = "flushed"
    /\ cache' = NoCache
    /\ stage' = [stage EXCEPT ![Writer] = "cleared"]
    /\ UNCHANGED <<fileVars, status, ldb, snap, pending, written, saved>>

\* ... and last the transaction itself is written.
CommitToLdb ==
    /\ stage[Writer] = "cleared"
    /\ ldb' = Overlay(ldb, pending)
    /\ CloseTx(Writer)
    /\ UNCHANGED <<fileVars, status, cache>>

\* The sync or a LevelDB transaction fails.  The block files stay as they are.
FlushFails ==
    /\ AllWritten \/ stage[Writer] \in {"synced", "cleared"}
    /\ CloseTx(Writer)
    /\ UNCHANGED <<fileVars, status, ldb, cache>>

-----------------------------------------------------------------------------
\* The database as a whole.

NoTxs == \A t \in Txs : stage[t] = "none"

\* dbCache.flush with no transaction running; every step of it may fail.
Flush ==
    \/ UNCHANGED <<fileVars, ldb, cache>>
    \/ SyncBlocks /\ UNCHANGED <<ldb, cache>>
    \/ SyncBlocks /\ ldb' = Current /\ cache' = NoCache

\* db.Flush.
FlushDB ==
    /\ status = "open" /\ NoTxs
    /\ Flush
    /\ UNCHANGED <<status, stage, snap, pending, written, saved>>

\* db.Close: the flush ...
CloseDB ==
    /\ status = "open" /\ NoTxs
    /\ status' = "closing"
    /\ Flush
    /\ UNCHANGED <<stage, snap, pending, written, saved>>

\* ... and, whether it worked or not, the end.
CloseFiles ==
    /\ status = "closing"
    /\ status' = "closed"
    /\ FilesClosed
    /\ cache' = NoCache
    /\ UNCHANGED <<ldb, stage, snap, pending, written, saved>>

\* The process dies.
Crash ==
    /\ status \in {"open", "closing"}
    /\ status' = "closed"
    /\ FilesClosed
    /\ cache' = NoCache
    /\ stage' = [t \in Txs |-> "none"]
    /\ snap' = [t \in Txs |-> Nothing]
    /\ pending' = NoPending
    /\ written' = 0
    /\ saved' = Start
    /\ UNCHANGED ldb

\* openDB and reconcileDB: the files must reach as far as the metadata claims.
OpenDB ==
    /\ status = "closed"
    /\ \E found \in ScanBlockFiles :
          LET claim == ldb[WriteLoc]
              short == Before(found, claim)
          IN  /\ status' = IF short THEN "corrupt" ELSE "open"
              /\ IF short THEN UNCHANGED fileVars
                 ELSE HandleRollback(found, claim, TRUE)
    /\ UNCHANGED <<ldb, cache, stage, snap, pending, written, saved>>

\* What the code does when nothing goes wrong around it ...
Work ==
    \/ \E t \in Txs : Begin(t) \/ SnapshotCache(t) \/ Rollback(t)
    \/ \E k \in Keys : DeleteKey(k) \/ \E v \in Values : PutKey(k, v)
    \/ \E b \in Blocks : StoreBlock(b)
    \/ \E r \in Readers : ReadDone(r) \/ \E b \in Blocks : ReadBlock(r, b)
    \/ Commit \/ WritePending \/ UndoWrites
    \/ CommitToCache \/ FlushSync \/ FlushCommit \/ FlushClear \/ CommitToLdb
    \/ FlushDB \/ CloseDB \/ CloseFiles \/ OpenDB

\* ... and what can go wrong.
Mishap == WritePendingFails \/ FlushFails \/ Crash

Next == Work \/ Mishap

Init == FilesInit /\ DbInit
Spec == Init /\ [][Next]_vars
=============================================================================
