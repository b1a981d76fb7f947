----------------------------- MODULE BlockTips -----------------------------
(***************************************************************************)
(* The bookkeeping of chain tips in the block index, as pure operators     *)
(* (internal/blockchain/blockindex.go): the map of all tips by height, the *)
(* cache of recent tips, its pruning, and the iteration that uses the      *)
(* cache when it may.                                                      *)
(***************************************************************************)
EXTENDS BlockTree, Sequences

CONSTANT CachedTipsPruneDepth    \* cachedTipsPruneDepth

ASSUME PruneDepthAssumption == CachedTipsPruneDepth \in Nat

\* Deliberate slips of the operators below, substituted for them one at a
\* time to show that the properties notice: a removal that only looks at the
\* directly stored tip, a prune that is off by one, and a lookup that trusts
\* the cache one height too far down.
RemoveOnlyFirstTip(entry, tip) ==
    IF entry # << >> /\ Head(entry) = tip THEN Tail(entry) ELSE entry

PrunedOneTooMany(cached, best) ==
    {t \in cached : Height[t] > Height[best] - CachedTipsPruneDepth}

LookupOneTooLow(tips, cached, start, filter) ==
    LET visited == IF Height[filter] >= start - 2 THEN cached ELSE tips
    IN  {t \in visited : Height[t] > Height[filter]}

\* addChainTip on one height: the first tip of a height is stored directly
\* and the others behind it, in the order they arrive.
AddChainTip(entry, tip) == Append(entry, tip)

\* removeChainTip on one height: the tip stored directly is replaced by the
\* first of the others; another tip is cut out of the slice.
RemoveChainTip(entry, tip) ==
    LET at == {i \in DOMAIN entry : entry[i] = tip}
        i  == CHOOSE k \in at : \A j \in at : k <= j
    IN  IF at = {} THEN entry
        ELSE [j \in 1..(Len(entry) - 1) |->
                 IF j < i THEN entry[j] ELSE entry[j + 1]]

\* pruneCachedTips: nothing exists below height zero, so a low best block
\* leaves the cache as it is.
PruneHeight(best) == Height[best] - CachedTipsPruneDepth

PrunedTips(cached, best) ==
    IF PruneHeight(best) <= 0 THEN cached
    ELSE {t \in cached : Height[t] >= PruneHeight(best)}

PrunedStart(start, best) ==
    IF PruneHeight(best) <= 0 THEN start ELSE PruneHeight(best)

\* forEachChainTipAfterHeight: the tips visited for a filter node, from the
\* cache when the filter is not below the heights the cache tracks.
TipsAfterHeight(tips, cached, start, filter) ==
    LET visited == IF Height[filter] >= start - 1 THEN cached ELSE tips
    IN  {t \in visited : Height[t] > Height[filter]}
=============================================================================
