----------------------------- MODULE UtxoCache -----------------------------
(***************************************************************************)
(* The cache of unspent transaction outputs between the chain and the      *)
(* database that stores them (internal/blockchain/utxocache.go), with the  *)
(* parts of connectBlock and disconnectBlock (chain.go) that update it.    *)
(*                                                                         *)
(* Two databases are involved.  The block database has the best block and  *)
(* the spend journal; what was committed to it may be lost in a crash up   *)
(* to its last flush, the most recent first.  The backend has the outputs  *)
(* and the block they are valid for, written together and synchronously.   *)
(* The cache delays writes to the backend, so a start may have to detach   *)
(* and replay blocks until the outputs match the best block again.         *)
(*                                                                         *)
(* Commit, a flush and a lookup run under the cache lock and are one step  *)
(* each.  The chain lock is held in all steps of a reorganization, but     *)
(* given up between two blocks, and not taken at all by FetchUtxoStats.    *)
(***************************************************************************)
EXTENDS UtxoView

CONSTANT Operations     \* the choices of what happens besides reorganizations

VARIABLES
    beside,     \* the choice made: "stats", "crash", both or none
    tip,        \* the tip of BlockChain.bestChain
    blockDB,    \* the block database: best block and blocks in the journal
    survivors,  \* the block database contents a crash may leave
    backend,    \* the outputs stored, and the block they are stored for
    cache,      \* UtxoCache.entries
    lastFlush,  \* UtxoCache.lastFlushHash
    view,       \* the view of the running reorganization or start
    pc,         \* where it is
    target,     \* the block it leads to
    node,       \* the block being connected or disconnected
    statsTip,   \* the tip FetchUtxoStats has read; NoBlock when not running
    panicked    \* an assertion of the code has failed

vars == <<beside, tip, blockDB, survivors, backend, cache, lastFlush, view, pc,
          target, node, statsTip, panicked>>

\* The state of an output in the cache:
\*   "absent"  no entry              "nil"    a nil entry
\*   "clean"   unspent, as stored    "dirty"  unspent, to be stored
\*   "fresh"   unspent, to be stored, known not to be in the backend
\*   "spent"   spent, to be removed
CacheStates == {"absent", "nil", "clean", "dirty", "fresh", "spent"}

TypeOK ==
    /\ beside \in Operations
    /\ tip \in Blocks
    /\ blockDB \in [tip : Blocks, journal : SUBSET Blocks]
    /\ blockDB \in survivors
    /\ backend \in [utxos : SUBSET Outputs, state : Blocks]
    /\ cache \in [Outputs -> CacheStates]
    /\ lastFlush \in Blocks
    /\ view \in [Outputs -> ViewStates]
    /\ pc \in {"idle", "reorg", "put", "commit", "flush", "unjournal", "settip",
               "start"}
    /\ target \in Blocks \cup {NoBlock}
    /\ node \in Blocks \cup {NoBlock}
    /\ statsTip \in Blocks \cup {NoBlock}
    /\ panicked \in BOOLEAN

NothingCached == [o \in Outputs |-> "absent"]

\* A new database; Initialize stores the state of a fresh backend.
Init ==
    /\ beside \in Operations
    /\ tip = Genesis
    /\ blockDB = [tip |-> Genesis, journal |-> {}]
    /\ survivors = {blockDB}
    /\ backend = [utxos |-> {}, state |-> Genesis]
    /\ cache = NothingCached
    /\ lastFlush = Genesis
    /\ view = EmptyView
    /\ pc = "idle"
    /\ target = NoBlock
    /\ node = NoBlock
    /\ statsTip = NoBlock
    /\ panicked = FALSE

-----------------------------------------------------------------------------
\* The operations on the entries.

\* Deliberate slips: an entry that replaces a spent one counts as fresh, the
\* spend of an output that is not cached is forgotten, and a flush leaves the
\* spent outputs in the backend.
AddEntryAlwaysFresh(entry) == "fresh"

SpendEntryCachedOnly(entry, stored) ==
    IF entry = "fresh" THEN "nil"
    ELSE IF entry \in {"clean", "dirty"} THEN "spent" ELSE entry

PutUtxosWithoutRemoval(c, b) ==
    [utxos |-> backend.utxos \cup {o \in Outputs : c[o] \in {"dirty", "fresh"}},
     state |-> b]

\* addEntry
AddEntry(entry) ==
    IF entry \in {"absent", "nil", "fresh"} THEN "fresh" ELSE "dirty"

\* spendEntry; stored says whether the backend has the output.
SpendEntry(entry, stored) ==
    CASE entry = "absent"            -> IF stored THEN "spent" ELSE "absent"
      [] entry = "fresh"             -> "nil"
      [] entry \in {"clean", "dirty"} -> "spent"
      [] OTHER                       -> entry

\* fetchEntry: a missing entry is loaded, also when there is nothing to load.
FetchEntry(entry, stored) ==
    IF entry # "absent" THEN entry ELSE IF stored THEN "clean" ELSE "nil"

\* FetchEntries on the outputs S, and what it tells the view about each.
Fetched(S) ==
    [o \in Outputs |-> IF o \in S THEN FetchEntry(cache[o], o \in backend.utxos)
                       ELSE cache[o]]

Found ==
    [o \in Outputs |->
        LET entry == FetchEntry(cache[o], o \in backend.utxos)
        IN  CASE entry = "nil"   -> "nil"
              [] entry = "spent" -> "gone"
              [] OTHER           -> "loaded"]

\* Commit of the view v to the cache c, what is left of the view, and the
\* assertion on outputs that only exist in the view.
Committed(c, v) ==
    [o \in Outputs |->
        CASE v[o] = "spent"   -> SpendEntry(c[o], o \in backend.utxos)
          [] v[o] = "unspent" -> AddEntry(c[o])
          [] OTHER            -> c[o]]

Remaining(v) ==
    [o \in Outputs |-> IF v[o] \in {"loaded", "gone"} THEN v[o] ELSE "none"]

CommitPanics(c, v) ==
    \E o \in Outputs : v[o] = "zeroconf" /\ c[o] \in {"clean", "dirty", "fresh"}

\* PutUtxos with the entries c for block b.
PutUtxos(c, b) ==
    [utxos |-> (backend.utxos \cup {o \in Outputs : c[o] \in {"dirty", "fresh"}})
                   \ {o \in Outputs : c[o] = "spent"},
     state |-> b]

\* The entries a flush keeps.  Entries of old blocks are evicted when the
\* cache is full: the set evicted stands for the ones below the eviction
\* height.
Kept(c, evicted) ==
    [o \in Outputs |-> IF c[o] \in {"clean", "dirty", "fresh"} /\ o \notin evicted
                       THEN "clean" ELSE "absent"]

\* flush of the cache c for block b.  The block database goes first.
FlushAs(c, b) ==
    /\ survivors' = {blockDB}
    /\ backend' = PutUtxos(c, b)
    /\ \E evicted \in {{}, Outputs} \cup {{o} : o \in Outputs} :
          cache' = Kept(c, evicted)
    /\ lastFlush' = b

\* MaybeFlush without force: nothing to do when the cache is flushed through
\* block b already; otherwise size and time decide.
MaybeFlush(c, b) ==
    \/ lastFlush # b /\ FlushAs(c, b)
    \/ cache' = c /\ UNCHANGED <<survivors, backend, lastFlush>>

-----------------------------------------------------------------------------
\* reorganizeChainInternal.

\* dbFetchSpendJournalEntry asserts that a block that spends outputs has an
\* entry.
JournalMissing(b) ==
    /\ \E t \in TxnsOf(b) : Ins[t] # {}
    /\ b \notin blockDB.journal

\* A new reorganization starts with an empty view.
Reorganize(b) ==
    /\ pc = "idle"
    /\ b # tip
    /\ target' = b
    /\ view' = EmptyView
    /\ pc' = "reorg"
    /\ UNCHANGED <<tip, blockDB, survivors, backend, cache, lastFlush, node,
                   statsTip, panicked>>

\* reorganizeChain ends: the target is reached, or a block turns out to be
\* invalid.  The cache is flushed when the chain has become current.
ReorganizeDone ==
    /\ pc = "reorg"
    /\ target' = NoBlock
    /\ pc' = "idle"
    /\ \/ FlushAs(cache, tip)
       \/ UNCHANGED <<survivors, backend, cache, lastFlush>>
    /\ UNCHANGED <<tip, blockDB, view, node, statsTip, panicked>>

\* The view of the block to connect next, from checkConnectBlock or
\* UtxoViewpoint.connectBlock.  The journal has the parent's spent outputs.
ConnectView ==
    LET n == NextOnPath(tip, target)
    IN  /\ pc = "reorg"
        /\ tip # target
        /\ IsAncestorOf(tip, target)
        /\ node' = n
        /\ view' = ViewConnectBlock(view, n, Found)
        /\ cache' = Fetched(ConnectLookups(view, n, Found))
        /\ panicked' = (\/ panicked
                        \/ n \notin Approves /\ JournalMissing(tip)
                        \/ ~AssertBlockUtxoView(view', n))
        /\ pc' = "put"
        /\ UNCHANGED <<tip, blockDB, survivors, backend, lastFlush, target,
                       statsTip>>

DisconnectView ==
    /\ pc = "reorg"
    /\ ~IsAncestorOf(tip, target)
    /\ node' = tip
    /\ view' = ViewDisconnectBlock(view, tip, Found)
    /\ cache' = Fetched(DisconnectLookups(view, tip, Found))
    /\ panicked' = (panicked \/ JournalMissing(tip))
    /\ pc' = "put"
    /\ UNCHANGED <<tip, blockDB, survivors, backend, lastFlush, target, statsTip>>

Connecting == node # tip

\* The transaction of connectBlock or disconnectBlock on the block database.
PutBestState ==
    /\ pc = "put"
    /\ blockDB' = IF Connecting
                  THEN [tip |-> node, journal |-> blockDB.journal \cup {node}]
                  ELSE [blockDB EXCEPT !.tip = Parent[node]]
    /\ survivors' = survivors \cup {blockDB'}
    /\ pc' = "commit"
    /\ UNCHANGED <<tip, backend, cache, lastFlush, view, target, node, statsTip,
                   panicked>>

\* Commit
Commit ==
    /\ pc = "commit"
    /\ cache' = Committed(cache, view)
    /\ view' = Remaining(view)
    /\ panicked' = (panicked \/ CommitPanics(cache, view))
    /\ pc' = "flush"
    /\ UNCHANGED <<tip, blockDB, survivors, backend, lastFlush, target, node,
                   statsTip>>

\* connectBlock forces a flush when the chain is current.
FlushConnected ==
    /\ pc = "flush"
    /\ Connecting
    /\ FlushAs(cache, node) \/ MaybeFlush(cache, node)
    /\ pc' = "settip"
    /\ UNCHANGED <<tip, blockDB, view, target, node, statsTip, panicked>>

\* A deliberate slip: the flush after a disconnect is not forced.
FlushDisconnectedUnforced ==
    /\ pc = "flush"
    /\ ~Connecting
    /\ MaybeFlush(cache, Parent[node])
    /\ pc' = "unjournal"
    /\ UNCHANGED <<tip, blockDB, view, target, node, statsTip, panicked>>

\* disconnectBlock always forces one.
FlushDisconnected ==
    /\ pc = "flush"
    /\ ~Connecting
    /\ FlushAs(cache, Parent[node])
    /\ pc' = "unjournal"
    /\ UNCHANGED <<tip, blockDB, view, target, node, statsTip, panicked>>

\* And only then drops the journal entry of the block.
RemoveSpendJournalEntry ==
    /\ pc = "unjournal"
    /\ blockDB' = [blockDB EXCEPT !.journal = @ \ {node}]
    /\ survivors' = survivors \cup {blockDB'}
    /\ pc' = "settip"
    /\ UNCHANGED <<tip, backend, cache, lastFlush, view, target, node, statsTip,
                   panicked>>

SetTip ==
    /\ pc = "settip"
    /\ tip' = IF Connecting THEN node ELSE Parent[node]
    /\ node' = NoBlock
    /\ pc' = "reorg"
    /\ UNCHANGED <<blockDB, survivors, backend, cache, lastFlush, view, target,
                   statsTip, panicked>>

-----------------------------------------------------------------------------
\* FetchUtxoEntry and the other lookups take the chain lock for reads.
FetchUtxoEntry(o) ==
    /\ pc \in {"idle", "reorg"}
    /\ cache' = Fetched({o})
    /\ UNCHANGED <<tip, blockDB, survivors, backend, lastFlush, view, pc, target,
                   node, statsTip, panicked>>

\* FetchUtxoStats reads the tip and has the cache flushed for it, without the
\* chain lock.
FetchUtxoStats ==
    /\ "stats" \in beside
    /\ pc # "start"
    /\ statsTip = NoBlock
    /\ statsTip' = tip
    /\ UNCHANGED <<tip, blockDB, survivors, backend, cache, lastFlush, view, pc,
                   target, node, panicked>>

FlushForStats ==
    /\ statsTip # NoBlock
    /\ FlushAs(cache, statsTip)
    /\ statsTip' = NoBlock
    /\ UNCHANGED <<tip, blockDB, view, pc, target, node, panicked>>

-----------------------------------------------------------------------------
\* The process ends.  It starts again from what it finds in the databases, and
\* Initialize begins at the block of the last flush.
StartFrom(db, flushed) ==
    /\ blockDB' = db
    /\ survivors' = {db}
    /\ tip' = db.tip
    /\ cache' = NothingCached
    /\ lastFlush' = flushed
    /\ view' = EmptyView
    /\ pc' = "start"
    /\ target' = db.tip
    /\ node' = flushed
    /\ statsTip' = NoBlock
    /\ UNCHANGED panicked

Crash ==
    /\ "crash" \in beside
    /\ \E db \in survivors : StartFrom(db, backend.state)
    /\ UNCHANGED backend

\* ShutdownUtxoCache flushes first, under the chain lock.
Shutdown ==
    /\ "crash" \in beside
    /\ pc \in {"idle", "reorg"}
    /\ backend' = PutUtxos(cache, tip)
    /\ StartFrom(blockDB, tip)

\* Initialize detaches the blocks that are not in the best chain.
InitializeDetach ==
    /\ pc = "start"
    /\ ~IsAncestorOf(node, tip)
    /\ LET v == ViewDisconnectBlock(view, node, Found)
           c == Fetched(DisconnectLookups(view, node, Found))
       IN  /\ MaybeFlush(Committed(c, v), Parent[node])
           /\ view' = Remaining(v)
           /\ panicked' = (\/ panicked
                           \/ JournalMissing(node)
                           \/ CommitPanics(c, v)
                           \/ \E o \in Outputs : v[o] = "panic")
    /\ node' = Parent[node]
    /\ UNCHANGED <<tip, blockDB, pc, target, statsTip>>

\* And replays the ones that lead to its tip.
InitializeReplay ==
    LET n == NextOnPath(node, tip)
    IN  /\ pc = "start"
        /\ node # tip
        /\ IsAncestorOf(node, tip)
        /\ LET v == ViewConnectBlock(view, n, Found)
               c == Fetched(ConnectLookups(view, n, Found))
           IN  /\ MaybeFlush(Committed(c, v), n)
               /\ view' = Remaining(v)
               /\ panicked' = (\/ panicked
                               \/ n \notin Approves /\ JournalMissing(node)
                               \/ CommitPanics(c, v)
                               \/ \E o \in Outputs : v[o] = "panic")
        /\ node' = n
        /\ UNCHANGED <<tip, blockDB, pc, target, statsTip>>

InitializeDone ==
    /\ pc = "start"
    /\ node = tip
    /\ node' = NoBlock
    /\ target' = NoBlock
    /\ pc' = "idle"
    /\ UNCHANGED <<tip, blockDB, survivors, backend, cache, lastFlush, view,
                   statsTip, panicked>>

-----------------------------------------------------------------------------
\* The chain and Initialize.
Step ==
    \/ ReorganizeDone
    \/ ConnectView
    \/ DisconnectView
    \/ PutBestState
    \/ Commit
    \/ FlushConnected
    \/ FlushDisconnected
    \/ RemoveSpendJournalEntry
    \/ SetTip
    \/ InitializeDetach
    \/ InitializeReplay
    \/ InitializeDone

Next ==
    /\ UNCHANGED beside
    /\ \/ Step
       \/ \E b \in Blocks : Reorganize(b)
       \/ \E o \in Outputs : FetchUtxoEntry(o)
       \/ FetchUtxoStats
       \/ FlushForStats
       \/ Crash
       \/ Shutdown

Spec == Init /\ [][Next]_vars
=============================================================================
