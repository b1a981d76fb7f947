# Verification of dcrd

TLA+ models of dcrd, the Decred full node, checked with TLC on small instances,
and theorems about them, checked by TLAPS for every instance.  The models follow
the code under `src/`; `PROJECT.json` maps each definition to its lines, lists the
hazards the properties are about, and names every part that is left out.

## The system and its parts

A node dials and accepts connections (`connmgr`), downloads headers, blocks and
transactions from its peers (`peer`, `netsync`), hands blocks to the chain
(`internal/blockchain`) and transactions to the pool (`mempool`), builds templates
for miners (`mining`), maintains optional indexes (`indexers`) and answers RPCs
(`rpcserver`).  Blocks and metadata are stored in `ffldb` (LevelDB and flat files),
unspent outputs in a second LevelDB.  `server.go` wires the parts together.

| part | what is hard about it | modelled |
| --- | --- | --- |
| chain tips (`blockindex.go`) | a stale cache hides branches | yes |
| block index (`blockindex.go`) | data before its parent, invalidity that must reach all descendants | yes |
| block processing (`process.go`, `chain.go`) | reorganizations that fail half way, changing targets, operator actions at odd times | yes |
| chain database (`chainio.go`) | dying between two transactions | index, best state, start |
| UTXO view, cache and backend (`utxo*.go`), spend journal | two databases that a crash leaves at different blocks | yes |
| storage (`database/ffldb`) | crashes between block files and metadata, readers beside a writer | without buckets and cursors |
| mempool, mining view | several maps that must agree, blocks that come and go | without revocations, treasury, mixing, fees |
| server (`server.go`) | many calls to the pool for one block, with others in between | what it does for the pool |
| netsync | a request lost with its peer, locks given up between steps | without mixing, data limits |
| connmgr | permits and maps under dial, cancel, close, remove and shutdown | without timeouts and rates |
| peer | deadlines, duplicate filters | what netsync sees of it |
| validation, scripts, stake tickets, agendas, indexes, templates, addrmgr, mixing, RPC | | no, see the end |

**How they interact.**  netsync and the RPC server call `ProcessBlock` and
`ProcessBlockHeader`; `processLock` admits one at a time.  The chain calls out with
notifications while the chain lock is given up, and the server changes the pool for
them, call by call.  Readers (lookups of outputs, statistics, read transactions of
the database) run next to all of that.  `BlockChain` models the first boundary,
`ChainServer` and `SyncManager` the second, together with the pool, and `UtxoCache`
and `Ffldb` the third.

## Modules

| module | models | source |
| --- | --- | --- |
| `BlockTree` | the tree of headers as constants; forks and paths | `blockindex.go`, `chainview.go` |
| `BlockTips` | operators on chain tips and their cache | `blockindex.go` |
| `ChainTips` | the life of the tips and of the cache | `blockindex.go` |
| `BlockIndex` | status flags, linking, candidates, best header, marking and unmarking | `blockindex.go`, `process.go` |
| `BlockChain` | block processing, reorganization, manual operations, database, restart; extends `BlockIndex` | `process.go`, `chain.go`, `chainio.go` |
| `UtxoView` | the effect of a block on a view; the reference set of outputs | `utxoviewpoint.go` |
| `UtxoCache` | view, cache, backend, spend journal, statistics, crash and start; extends `UtxoView` | `utxocache.go`, `utxobackend.go`, `chain.go` |
| `BlockFiles` | flat files: write, roll over, roll back, scan, shared handles | `ffldb/blockio.go` |
| `Ffldb` | transactions, cache, flush, close, crash, reconcile; extends `BlockFiles` | `ffldb/db.go`, `dbcache.go`, `reconcile.go` |
| `Store` | what a database promises its users (abstract) | `database/interface.go` |
| `Mempool` | the pool as operators from one pool to the next | `mempool/mempool.go`, `mining/mining_view.go` |
| `ChainServer` | moves of the best chain and the calls to the pool for each; extends `Mempool` | `server.go` |
| `SyncManager` | the sync manager, its peers and the RPC server beside it; extends `ChainServer` | `netsync/manager.go`, `peer/peer.go` |
| `ConnManager` | the connection manager and its goroutines | `connmgr/connmanager.go`, `semaphore.go` |

`BlockChainProperties`, `UtxoCacheProperties`, `FfldbProperties`, `NodeProperties`
and `ConnProperties` say what each part promises (`ChainTips` does so itself); the
modules that begin with `MC` are instances for TLC; `ChainTipsProofs`,
`BlockChainProofs`, `ChainHeaderProofs`, `ChainSelectionProofs`, `UtxoViewProofs`,
`UtxoProofs`, `FfldbProofs` and `ConnProofs` hold the theorems.

Definitions introduced as *deliberate slips* are mutated forms of the definition
that follows them.  Nothing uses them; each shows that some property notices a
plausible mistake in that place.

### BlockTree, ChainTips

A header names its parent by hash, so the tree exists before a node hears of it.
It is a constant; the other modules say which part a node knows.  Heights, work and
hash order are arbitrary functions restricted by the named assumptions
(`TreeAssumption`, `AncestorAssumption`, `PathAssumption`, ...).  `PathAssumption`
follows from the others (lemma `PathFollows` of `ChainHeaderProofs`); it is stated as
an assumption so that proofs need not repeat the induction.

`chainTips`, `totalTips`, `cachedTips`, `cachedTipsStart` are the fields of
`blockIndex`.  `AddNode` is the tip part of `addNode`; `ConnectBlock` and
`ReconsiderBlock` contain the prunes of `MaybePruneCachedTips` and
`pruneCachedTips`.  `DescendantTipsVisited` is about `forEachChainTipAfterHeight`,
which decides whether to trust the cache.

### BlockIndex and BlockChain

| variable | code |
| --- | --- |
| `known` | nodes of the index |
| `data`, `validated`, `failed`, `invalidAnc` | `statusDataStored`, `statusValidated`, `statusValidateFailed`, `statusInvalidAncestor` |
| `linked`, `order` | `isFullyLinked`, `receivedOrderID` |
| `unlinked` | all nodes in `unlinkedChildrenOf` (under their parent) |
| `candidates`, `bestHeader`, `bestInvalid`, `modified` | the fields of that name |
| `tip`, `contextChecked` | `bestChain.Tip()`, `recentContextChecks` |
| `disk` | index bucket and best state |
| `pc`, `op`, `node`, `target`, `linkedNodes`, `pos`, `fastAdd` | the point and the local variables of the operation that holds `processLock` |
| `verdict` | what `validate.go` would find, by the stage that finds it |

An operation is a sequence of steps from one index update, database transaction or
loop iteration to the next: `ProcessBlock`, `AcceptBlockData`, `LinkBlockData`,
`FlushLinked`, `AcceptBlock`, `SelectTarget`, then `DisconnectBlock`,
`ValidateBlock`, `ConnectBlock`, `ConnectFails` and `Retarget` for the loops of
`reorganizeChain`, and one `ReturnTo...` step for what the caller does afterwards.
`Restart` may take the place of any step: the process ends and `initChainState`
loads `disk`, with or without newly detected rules.

ffldb may lose its last commits in a crash but keeps a prefix of them (that is what
`Store` says and the theorem `StorageKeepsPromise` proves of it).  As memory is lost
too, a crash that loses the last commits is the same as a crash at the time of the
last commit that survives, so `disk` need only be the last commit.

### UtxoView and UtxoCache

An output is its identity; a view entry is one of eight states, a cache entry one of
six (`ViewStates`, `CacheStates`), which is what the flags of `UtxoEntry` come to.
`UtxoSet(b)` is the reference: what the transactions of the chain to `b` that no
block disapproves create and do not spend.  `ValidAssumption` is what
`checkConnectBlock` makes sure of, block by block.  Steps are what runs under one hold of
the cache lock or in one transaction: `ConnectView` / `DisconnectView`,
`PutBestState`, `Commit`, `FlushConnected` / `FlushDisconnected`,
`RemoveSpendJournalEntry`, `SetTip`.  `FetchUtxoEntry` takes the chain lock and
`FetchUtxoStats` / `FlushForStats` do not.

Two databases are involved, so here the lost commits matter: `survivors` holds every
content of the block database a crash may leave, and a flush reduces it to the
current one.  `Shutdown` is `ShutdownUtxoCache` followed by a start.  Any choice of
target by the chain is allowed, and a reorganization may end early, so nothing
depends on chain selection.  `Operations` says what may happen beside that, and a
behaviour chooses from it once (`beside`).

### BlockFiles, Ffldb and Store

A block file is a sequence of records, of which the last may be torn; `synced` says
how much of it a sync covers, `cursor` is the write position, `openFiles` the
least-recently-used list of read-only handles, `reading` who holds which handle, and
`cutLoose` the files that a roll over closed without a sync.  A file holds
`MaxFileSize` records and there are `MaxFile + 1` of them; a commit that would need
more is not begun (`Room`).  The metadata is a function from rows to values: keys,
blocks (their locations) and `WriteLoc`, the stored write position.  `ldb` is
LevelDB, `cache` the treaps of pending keys and removals, `Current` both together.
The one write transaction has a `stage`: begun (`ldb`, `open`), writing its blocks,
taking them back (`undo`), or one of the three LevelDB steps of a commit that
flushes.  A reader takes its snapshot in two steps, LevelDB first, as
`dbCache.Snapshot` does.  Failures and crashes (`Mishap`) may come at each step.

`Store` has three variables, what is current, what is durable and what the write
transaction sees, and six actions.  `FfldbProperties!Promise` is the refinement
mapping: the contents of a database are the keys it has and the blocks *whose
records can be read*, so the refinement also says that nothing listed is lost.

### Mempool, ChainServer and SyncManager

The pool is one record, and an exported method of `mempool.go`, which holds the pool
lock from beginning to end, one operator from a pool to the pools it may leave.
Transactions have a type (regular, ticket, vote), inputs and outputs; checks that do
not depend on pool, chain or height have passed.  `ChainServer` moves the best chain
block by block, and queues in `calls` what `handleBlockchainNotification` does for
it: one element is one call that takes the pool lock, so transactions get in
between.  `SyncManager` adds the peers.  `sm` is the state under the manager's
locks, `hand` the place of each goroutine (peers, RPC) in a handler that gives up
locks on the way, `sm.queue[p]` what peer `p` was asked and has not answered, `conn`
its connection, `remote[p]` the chain it is on.  `env` says which questions a peer
leaves unanswered and who may hang up.  The stall timer of the header sync may fire
while the sync peer leaves `getheaders` unanswered or is gone (`StallTimerFires`);
whom `HeaderStall` disconnects is decided in a later step, as in `stallHandler`.

### ConnManager

`persistent`, `pending`, `active`, `connIDByAddr`, the two semaphores, the counts per
host and the outbound groups are the fields of that name.  Every connection attempt
has an id and a point `pc` in the goroutine that serves it; `held` are the permits
its close callbacks will return, one step each.  `Connect`, `Accept`,
`AddPersistent`, `Disconnect`, `Remove` and `Close` are what callers do;
`outboundHandler`, `persistentHandler` and `run` are the goroutines of `Run`.

## What the runs check

| run | question | states |
| --- | --- | --- |
| `chain_tips` | do tip map, cache and cached lookup agree with the tree, while prunes do not go down? | 2,500 |
| `chain` | index, candidates, selected tip, best chain and database, for any order of arrival, with failures, restarts and an operator | 742,000 |
| `utxo` | do lookups find exactly the outputs of the best chain, and does every start get back there? | 287,000 |
| `storage` | is ffldb a transactional store in spite of failures and crashes, and do readers find their blocks? | 825,000 |
| `node` | does the pool fit the chain, do requests match answers, does the chain catch up? | 175,000 |
| `connections` | are the limits kept, permits returned, duplicates found, persistent entries served; does shutdown end? | 635,000 |

Six more runs each refute one statement of a comment; they are in the section on
disagreements.  Every run of the first group has deliberate slips that break each of
its properties.

**Instances and bounds.**

* *Trees.*  Three branches, `g-a1-a2`, `g-b1-b2` and `b1-c2`, with ties in work; a
  reorganization of two blocks and a third branch to turn to when it fails are what
  the loops of `reorganizeChain` can tell apart.
* *Chain.*  Three scenarios, chosen by the initial state: `sync` (three branches,
  headers and blocks in any order, at most one block with something wrong, at any
  stage), `restart` (two branches, the process may end at any step, new rules at
  `a2`, which also is the assume valid block), `manual` (two branches, forced
  reorganizations, invalidated and reconsidered blocks any number of times).
  `Running...` and `Arriving...` are the properties restricted to the scenarios in
  which they hold; the unrestricted ones are refuted by the violation runs or
  explained below.
* *Outputs.*  Blocks `a1`, `a2`, `b1`, `b2` on a common root with five outputs, stake
  and regular trees, disapprovals and a transaction that appears on both branches;
  either statistics or crashes beside the reorganizations, not both, since both
  together is the finding of `stats_flush_breaks_restart`.  Both branches have a block
  that disapproves its parent and repeats a transaction of it, but none whose output
  was unspent before and after (`NothingRevived`), which is the finding of
  `repeated_output_comes_back`.
* *Storage.*  Two files of two records, one open read-only file, so that roll over,
  rollback across files and eviction all happen with three blocks; two readers; two
  mishaps, as reconciling may itself fail or be cut short.  Four scenarios (`Writes`,
  `Mixed`, `Reads`, `Shared`) share out blocks, keys, readers and mishaps.  Symmetry
  over blocks and over readers, for safety properties only.
* *Node.*  Sixteen scenarios with two peers: six are about the pool (`reorganize`,
  `disapprove`, `vote`, `generations`, `orphan`) and unrequested messages (`stray`), the
  others about syncing with peers that are live, silent, too poor in work, still
  growing, on a fork, or hang up.  Two unconnected announcements in a row are the limit
  (10 in the code), so that `early` reaches it.  In `generations` a block confirms a
  transaction and its child while a grandchild is in the pool, and is disconnected or
  disapproved; nobody sends again what was confirmed (`Fresh`), for the reason given
  among the observations.  `CHECK_DEADLOCK FALSE`: a node with nothing to do rests.
* *Connections.*  Three connections; two ports of one host, another host, an inbound
  port and a whitelisted one; limits of 2 in total, 1 per host, 1 outbound, 2
  persistent; one listener.  Callers in this run do not add a persistent address
  again before the goroutine of the old entry has ended, and at shutdown add no entry
  and remove none whose goroutine has not started; what goes wrong otherwise is below.
  Of the theorems only `OutgoingIndexedAlways` has a condition of this kind.
  `CHECK_DEADLOCK FALSE`: `Run` returns.

**Fairness.**  `chain`: `StepsGoOn`, weak fairness of the steps of an operation under
way.  The goroutine that holds `processLock` is not stopped by anything but the end
of the process.  `node`: `Fairness`, something goes on as long as a goroutine can
run, an answer can arrive, a timer can fire or a connection can be made; weaker than
fairness of each handler, and what Go's scheduler and the peers' deadlines give.  The
conditions are written out (`Ready`) and not as `ENABLED`.

`SyncCompletes` is claimed for `live`, `mute`, `late`, `poor`, `grow` and `fork`, and says
that the chain gets as high as that of each honest peer that has not been lost.  It is
not claimed for `stingy`, `gossip` and `early`, in which it fails: blocks that the sync
peer owes when it leaves, or does not find because only another peer has them yet, are
not asked for again until the best header changes (see the observations).  In `drop`
both peers may hang up, and the pool's scenarios have nothing to sync.

`HonestLostOnlyLate` is about peers that answer in time, are on a valid chain with enough
work and do not hang up.  Two ways to lose one remain and both occur in the run: the
limit on unconnected announcements (`early`), and a stall of the sync peer before it
(`late`, `poor`).  `RequestsMatch` is about blocks only; for transactions it does not
hold, as the observations say.

**Type invariants** of `ChainTips`, `BlockChain`, `Ffldb` and `ConnManager` are part of
the inductive invariants below, so they are proved and not repeated in the runs.

## What is proved

All theorems hold for every value of the constants that the named assumptions allow:
any finite tree, work, verdicts, any number of files, blocks, readers, connections,
hosts and any limits.  None of TLC's bounds is used.  Each inductive invariant was
checked by TLC on the instances above before it was proved.

**`ChainTipsProofs`.**

* `TipsAreLeavesAlways`: `forEachChainTip` visits exactly the leaves, each once, and
  `totalTips` counts them.  Invariant `TipsInv`: the list of each height enumerates
  the leaves of that height without repetition, and the index is closed under parents
  (a new header must turn exactly one leaf, its parent, into an inner node).
* `CacheCompleteAlways`, `CacheIsTipsAlways`: from `cachedTipsStart` on the cache is the
  set of leaves.  Invariant `CacheInv`.
* `DescendantTipsVisitedAlways` combines the two: whether
  `forEachChainTipAfterHeight` uses the cache or not, it misses no tip above the
  block.  The last two are about `RisingSpec`, as the runs are.

**`BlockChainProofs`.**

* `BestChainHasDataAlways`, `RestartableAlways`, `TipMovesByOneBlockAlways`.  Invariant
  `ChainInv` in three parts that need each other.  `IndexInv`: the index is closed
  under ancestors, a linked block has all data below it, candidates are complete.
  `OperationInv`: tip, target and the linked blocks of the running operation are
  complete, so nothing it connects lacks data.  `DiskInv`: index and database differ in
  modified entries only, and the stored best block is the tip, with its data stored.
  A restart rebuilds the index from the database, a flush needs a closed index, and
  `connectBlock` may store its best state only because the flush before it has stored
  the entries.
* `BestChainCheckedAlways`: no unchecked block is ever connected.  `CheckedInv` adds
  what `statusValidated` in memory *and on disk* and `recentContextChecks` stand for,
  since both let later operations skip checks.  `BestChainValidAlways` is the
  corollary without an assume valid block.
* `DiskCurrentAlways`: no change of a status flag is lost.  `FlagsInv` relates each
  flag to its stored form outside the modified set; the argument is that each step
  changes the flags only of nodes it puts there (`ChangesOnly`).

**`ChainHeaderProofs`.**

* `BestHeaderHasMostWorkAlways`, by `HeadInv`: best header and failure flags fit each
  other, and the cache has every tip from its start height on.  Two inductions are
  needed, over a finite set (a best element exists, `BestOfIsBest`) and up a branch
  (`TreeInduction`); both go by the first or the lowest exception, for which the
  library supplies that a set of numbers has a least element.
* `InvalidityInheritedAlways`, `BestInvalidHasMostWorkAlways`, by `InheritInv`, which says
  that a descendant of an invalid block is marked in memory *and on disk*: a flush
  between the marking of a block and that of its descendants would be found after a
  restart.  That `MarkBlockFailedValidation` reaches all descendants uses that it
  walks down from every tip above the block, hence the cache of tips.
* Two hypotheses.  `RisingPrunes`: while the node runs, no prune of the cached tips
  uses a lower block than the one before, since the cache is incomplete afterwards (see
  the observations below).  `NoNewRules`, for the last two: a start that detects new
  rules unmarks some blocks of a branch and not others.

**`ChainSelectionProofs`.**

* `BestTipSelectedAlways`, `MostWorkSelectedAlways`, `CandidatesUsableAlways`,
  `NoCandidatePanicAlways`, `BestChainNotInvalidAlways`, by `SelectInv`.  That the tip is
  the best candidate is not inductive: candidates with less work are dropped when a
  block is connected, and the target may fail after that.  The invariant says that at
  any step there is an *anchored* candidate, which is validated and beside which no
  usable block with as much work is missing from the candidates.  Outside of
  `reorganizeChain` it is the tip, and within it is what the loop falls back to when its
  targets fail.  `LinkInv` and `ListInv` say where a block is between the arrival of its
  data and its being linked.
* `DataRememberedAlways`, by `RememberInv`: a block with data is linked, waits for a
  parent that is not, or is on the list that `linkBlockData` works off.
* Hypotheses, beside `RisingPrunes`: `OnlyArrivals`, because operator requests are the
  findings `invalidated_block_connects` and `reconsidered_block_forgotten` and because
  after a start only the tip is a candidate; `MerkleRootsMatch`, because a block whose
  data does not fit its header is not marked and stays a candidate.

**`UtxoViewProofs`, `UtxoProofs`.**

* `ConnectBlockEffect`, `DisconnectBlockEffect`: a view that starts out right about the
  outputs of one block becomes, by `connectBlock` or `disconnectBlock`, one that
  leads to those of the next, and nothing panics.  The loops over transactions are
  recursive functions; each is given a closed form, and two functions with the same
  recursion agree because there is no least number at which they differ
  (`LeastNumber`, `SameUpTo`).  That a chain spends only what it creates
  (`SpendsCreated`) is shown by the lowest block below which it would not.
* `JournalSufficesAlways`, by `JournalInv`, which ties the stored best block and the
  journal of each database that may survive a crash to the step reached.  It assumes
  nothing about transactions.
* `LookupsCorrectAlways`, `InSyncAlways`, `FreshNotStoredAlways`, `NoPanicAlways`, by
  `UtxoInv`: cache and backend together hold the outputs of the block committed last
  (which is not the tip in the middle of an operation, nor during a start), the
  backend those of its own state, and the view leads from the tip to the block under
  way.  Two hypotheses are stated with the theorems, since without them the code
  is wrong and a run shows it: `SeparateOperations` (no crashes beside flushes for the
  statistics) and `NothingRevived` (no block creates an unspent output of its parent
  again that it disapproves).  It was the proof of `ConnectBlockEffect` that led to the
  second: the case of such an output was left over and turned out to be a
  counterexample.

**`FfldbProofs`.**

* `NeverCorruptAlways` and `ReadersFindBlocksAlways`, by `IInv`: each row of LevelDB, of
  the cache and of every snapshot points to its record, before the stored write
  position, which the files reach; the pending rows of the transaction point to the
  records it has written so far; and no rollback goes back beyond the position at
  which the transaction began, which all listed records precede.
* `HandlesStayOpenAlways`, by `HandleInv`: a reader holds a handle only for the file of a
  block of its snapshot, so a rollback, which deletes files after all those blocks,
  never deletes one that is read from; and `blockFile` evicts no file in use.
* `ListedSyncedAlways`, by `SyncInv`: what the cache and the transaction list is in
  the write file or in a file cut loose, hence covered by the next `syncBlocks`,
  and what reaches LevelDB does so after it.
* `StorageKeepsPromise`: `Spec => KeepsPromise`, the refinement of `Store`.  Each step
  is shown to be one of the six actions of `Store` or a stutter; `IInv` supplies
  that blocks listed can be read before and after the step.

**`ConnProofs`.**

* `LimitsKeptAlways`, `PermitsReturnedAlways`, `PersistentServedAlways`, by `ConnInv`: which
  permits a connection holds at each point of its goroutine (`Placed`), that the
  semaphores and counters are the numbers of their holders (`Counted`), and where a
  persistent entry is (`PersistentPlaced`).  The limits do not follow from the
  semaphores alone: it takes `Placed` to know that whatever is pending or active holds
  its permits.  Group counts are bounds only, for the reason given below.
* `OutgoingIndexedAlways`: the address index is in step with the maps, as long as
  `AddressesApart` holds: nobody connects from an address that is dialed, and a
  persistent address is not added again before the goroutine of its old entry has
  ended.  What happens otherwise is among the observations below.

**Only model-checked.**

* `OperationsReturn`, `SyncCompletes` (liveness) and `RunNotStuck` (`ENABLED`) are out of
  the proof system's reach.
* All about pool and sync manager (`node`): counts of ancestors and orders of re-adding
  are defined by iteration over the pool.
* Selection with restarts or operator requests.  `RunningMostWorkSelected` and
  `RunningInvalidityInherited` cover the operator's requests in the runs, and
  `ArrivingCandidatesUsable`, `ArrivingDataRemembered` cover restarts; each holds there
  for reasons that end where another finding begins, and the theorems of
  `ChainSelectionProofs` stop at arrivals.
* `BestInvalidHasMostWork` and `NoCandidatePanic` hold in all scenarios of the run, also
  with new rules and with requests; the theorems have the hypotheses above.

## Where code and comments disagree

Each of these has a run in which TLC finds the counterexample.

* **An invalidated block may be connected** (`invalidated_block_connects`).
  `MarkBlockFailedValidation` (`blockindex.go:1130`) deletes the list of the block's
  children but not the block from its parent's list.  When the data of the parent
  arrives, `linkBlockData` links it without looking at its status.
* **A reconsidered block may be forgotten** (`reconsidered_block_forgotten`).
  `ReconsiderBlock` (`process.go:844`) puts a block that is not linked on its parent's
  list even when that parent is linked and its list will not be visited again.
* **Flags cleared for new rules are not written** (`unmarked_not_written`).
  `loadBlockIndex` (`chainio.go:1495`) changes the status without adding the node to the
  modified set, so the flush made for this purpose writes nothing.
* **Statistics may store outputs under the wrong block**
  (`stats_flush_breaks_restart`).  `FetchUtxoStats` (`utxocache.go:1105`) reads the tip
  and flushes for it without the chain lock; between `Commit` (`chain.go:717`) and the
  move of the tip (`chain.go:735`) the cache already holds the next block.  If the
  process dies before the next flush, the start replays that block and panics.
* **A spent output may come back** (`repeated_output_comes_back`).  When a block
  disapproves its parent and contains one of its transactions again, the view has the
  output as newly created, and `addEntry` (`utxocache.go:289`) marks it as fresh if the
  cache does not have it, as after a restart, although the backend does.  A spend
  before the next flush is then dropped as that of an output the backend never saw.
* **A snapshot may be of no point in time** (`snapshot_race`).  `dbCache.Snapshot`
  (`dbcache.go:387`) takes the LevelDB snapshot first and the roots of the cache later;
  a flush in between is missing from both.

Smaller observations, met while modelling and without a run of their own:

*Chain*

* `pruneCachedTips` (`blockindex.go:1050`) may lower `cachedTipsStart` when the best
  block is lower than at the last prune; tips between the two heights are then missing
  although `blockindex.go:597` says that the cache tracks all of them.  Hence
  `RisingSpec`.
* `maybeAcceptBlocks` (`process.go:373`) stops at the first failing block, also for
  its siblings, where the comment (`process.go:347`) speaks of descendants.
* `NTBlockAccepted` (`process.go:662`) carries the processed block for each accepted one.
* A block flushed but not connected before a crash is linked at the next start but no
  candidate until its branch grows (`chainio.go:1712`); hence `Running...`.
* `disconnectBlock` (`chain.go:861`) stores the work sum of the detached block with the
  new best state; nothing decides on it later.
* A block with a merkle mismatch is not marked and stays a candidate that fails each
  time.
* The checks of votes skipped for an assumed valid block are also skipped for the
  descendants linked with it (`process.go:523`); `BestChainChecked` excuses them.

*Storage*

* A roll over (`blockio.go:436`) closes the full file without a sync, and no later
  `syncBlocks` covers it, although `reconcile.go:100` and `dbcache.go:479` rely on blocks
  being synced before the metadata.  `ListedSyncedUnlessCutLoose` names the files.
* When the LevelDB step of a commit fails, the blocks written for it stay in the files;
  the next open truncates them.

*Pool and server*

* When a disapproved transaction cannot return because the chain or the pool spends its
  input, what depends on it may stay in the pool (`server.go:3084-3092`); `Stranded`.
* A ticket may enter the pool beside a transaction it spends if the two come in at the
  wrong moment (`mempool.go:1939`).
* `removeTransaction` with redeemers does not decrease `NumDescendants`.
* `updateStatsDescendantsAdded` and `updateStatsDescendantsRemoved`
  (`mining_view.go:361`, `413`) adjust a descendant by the one transaction that comes or
  goes, not by what lies above it.  Let a block with `A` and its child `R` be disconnected
  or disapproved while a child `L` of `R` is in the pool.  If `A` is submitted again
  after the chain has moved and before the server has put the block's transactions back,
  `R` comes between `A` and `L`, and `L` has one ancestor instead of two, although
  `mining.go:247` speaks of "the total number of ancestors".  Votes against the tip let
  the same happen without a race.  `AncestorsCounted` fails in `generations` without
  `Fresh`, and holds with it: transactions put back in reverse order are right.
* If it is `R` that is submitted again at that moment, it becomes an orphan, since `A` is
  missing.  `MaybeAcceptTransactions` then takes it for a duplicate (`mempool.go:2101`)
  and leaves it there, and `L` stays in the pool without the output it spends.
  `PoolSpendable` fails in `generations` without `Fresh` for this reason.
* `RemoveDoubleSpends` (`mempool.go:961`) compares pointers to hashes.
* Of two votes of one ticket, removing one clears the `outpoints` entry of both.
* A transaction accepted again because votes disapprove the tip stays if the next block
  approves it after all.
* A vote dropped from the pool but still tracked makes room for another of its ticket.

*Sync manager*

* `OnNotFound` (`manager.go:1804`) removes a block from the request map so that it can
  "eventually be requested from elsewhere", but it was taken off the list of needed
  blocks when it was requested (`manager.go:529`), so no other peer is asked until the
  best header changes.  Nor are the blocks of a peer that leaves, unless another has
  announced them (`manager.go:893`).
* A request made between a peer's disconnect and the end of its handler is left under
  the gone peer (`manager.go:853-856`, `1781-1787`).
* `OnTx` returns early for a rejected transaction and leaves the request
  (`manager.go:984-990`), and forgets the request for any other transaction no matter
  who sent it (`manager.go:1003`).
* `stallHandler` (`manager.go:2046-2054`) disconnects whoever is the sync peer when it
  gets to act.  If the silent sync peer has been replaced since the timer fired, it is
  the new one, which had no time to answer; `manager.go:263` says of such events that
  "there are no adverse effects".
* A peer that announces `maxConsecutiveOrphanHeaders` blocks before the first header sync
  has got to their parents is disconnected, though it did nothing wrong
  (`manager.go:1536-1543`).
* The count of blocks in flight (`manager.go:501`) is read before the lock is given up
  and may be exceeded; no property limits it.

*Connection manager*

* `Disconnect` and `Remove` of a pending connection take its address out of the outbound
  group, and its close does so again; a new connection to the address may lose its entry
  (`connmanager.go:422`, `483`).
* `Remove` of a persistent entry before its cancel function is set leaves its goroutine
  running (`connmanager.go:1209`).
* `AddPersistent` may block on a full channel while it holds `connMtx`
  (`connmanager.go:1850` says it cannot), for good after shutdown.
* A dial of a removed persistent entry may overwrite the index entry of the same address
  added again (`connmanager.go:615-617`: "kept in sync"; `1243-1245`), and the duplicate
  check of inbound connections is not atomic with their registration.
* Connections registered after `Run` has taken its list survive shutdown
  (`connmanager.go:2263`).
* `Run` starts a handler for every listener but closes them at shutdown only if
  `OnAccept` is set (`connmanager.go:2221-2230`, `2257`), so it would wait for good without
  that callback.  `server.go` always sets it, and the model has no other case.

## What is not modelled

* *Validation*: a block comes with a verdict and a transaction has passed all checks but
  those against pool, chain and height.  Scripts, stake rules, subsidies, difficulty and
  the treasury are functions behind that.
* *Bulk import* (`addblock`): every block is treated as an assumed valid one
  (`process.go:521`).
* *Serialization*, hashes, locators, read-only queries, buckets, cursors and block
  regions.
* *Database errors of the chain*: they end an operation with an error the caller cannot
  repair; a crash covers the states they leave on disk.  An interrupt is the end of the
  process.
* *Pool*: revocations, treasury spends, mixing, fees, standardness, sequence locks,
  maturity of inputs, the size limit of orphans, the limit of tracked ancestors (25) and
  the expiry order of orphans.
* *Sync manager*: headers of one message that do not connect to each other, other
  handlers between `needTx` and the request for a transaction, mix messages, the
  requests at the end of the initial sync (`onInitialChainSyncDone`), `RequestFromPeer`,
  peers that serve no data and the limits of the request maps.
* *Connection manager*: rate limiting, backoff and timeouts, which only delay or refuse.
* *Peer protocol*: handshake, output queue, wire encoding.
* *Mining templates* and *optional indexes*: each has a goroutine that follows the
  chain's notifications.  Their hazards are races of that goroutine with the chain,
  which takes a model of their own.
* The parts marked `not_modelled` in `PROJECT.json`, with the reason.
