------------------------ MODULE UtxoCacheProperties ------------------------
(***************************************************************************)
(* What the cache of unspent transaction outputs promises.                 *)
(***************************************************************************)
EXTENDS UtxoCache

\* Two conditions under which the properties hold.  Flushes for the statistics
\* and crashes do not come together (the run stats_flush_breaks_restart has
\* both), and no block creates an output again that it takes away with the
\* regular tree of its parent (in repeated_output_comes_back one does).
SeparateOperations == \A ops \in Operations : ~({"stats", "crash"} \subseteq ops)

NothingRevived == \A b \in Blocks \ {Genesis} : Revived(b) = {}

\* What a lookup finds: the cache, and behind it the backend.
LookupSet ==
    {o \in Outputs : FetchEntry(cache[o], o \in backend.utxos)
                         \in {"clean", "dirty", "fresh"}}

\* FetchUtxoEntry "loads and returns the requested unspent transaction output
\* from the point of view of the main chain tip": whenever the chain lock is
\* free, what lookups find is exactly what the transactions of the best chain
\* that were not disapproved have created and not spent, however the entries
\* are spread over cache and backend, and also after a start.
LookupsCorrect == pc \in {"idle", "reorg"} => LookupSet = UtxoSet(tip)

\* PutUtxos: "the UTXO set state is always updated in the same UTXO backend
\* transaction as the utxo set itself so that it is always in sync": the stored
\* outputs are those of the chain that ends in the block of the stored state,
\* as long as FetchUtxoStats does not flush in the middle of a block.
BackendInSync == backend.utxos = UtxoSet(backend.state)

InSyncWithoutStats == "stats" \notin beside => BackendInSync

\* "utxoStateFresh indicates that a txout is fresh, which means that it exists
\* in the utxo cache but does not exist in the underlying database", and
\* spendEntry relies on the same for nil entries: otherwise a spend would be
\* dropped and the output would come back from the backend.
FreshNotStored ==
    \A o \in Outputs :
        /\ cache[o] \in {"nil", "fresh"} => o \notin backend.utxos
        /\ cache[o] = "clean" => o \in backend.utxos

\* "If an unclean shutdown occurs, the cache will still be initialized
\* properly": whatever part of the block database survives, the journal has the
\* spent outputs of every block that Initialize would have to detach, in the
\* same case.
JournalSuffices ==
    \A db \in survivors :
        Ancestors[backend.state] \ Ancestors[db.tip] \subseteq
            db.journal \cup {Genesis}

JournalSufficesWithoutStats == "stats" \notin beside => JournalSuffices

\* No assertion fails: no spend of a missing or spent output, no missing spend
\* journal entry, no cached output that was thought to exist in a view only.
NoPanic == ~panicked /\ \A o \in Outputs : view[o] # "panic"
=============================================================================
