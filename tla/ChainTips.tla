----------------------------- MODULE ChainTips -----------------------------
(***************************************************************************)
(* The chain tip tracking of the block index over its lifetime             *)
(* (internal/blockchain/blockindex.go).                                    *)
(*                                                                         *)
(* Headers are added one at a time, in an order that keeps parents before  *)
(* children.  The cache of recent tips is pruned from time to time with    *)
(* the best block of that moment as the reference point: by connectBlock   *)
(* when the prune interval has passed and by ReconsiderBlock after its     *)
(* reorganization.  Which block is best is the business of BlockChain;     *)
(* here the best chain moves up and down the known headers freely.         *)
(***************************************************************************)
EXTENDS BlockTips

VARIABLES
    index,              \* the headers in the block index
    chainTips,          \* chainTips[h]: the tips at height h
    totalTips,          \* blockIndex.totalTips
    cachedTips,         \* blockIndex.cachedTips
    cachedTipsStart,    \* blockIndex.cachedTipsStart
    best                \* the tip of the best chain

vars == <<index, chainTips, totalTips, cachedTips, cachedTipsStart, best>>

Heights == {Height[b] : b \in Blocks}

\* The members of a sequence.
Elems(s) == {s[i] : i \in DOMAIN s}

\* The tips of the header tree: the known headers no known header builds on.
Leaves == {b \in index : Children(b) \cap index = {}}

AllTips == UNION {Elems(chainTips[h]) : h \in Heights}

TypeOK ==
    /\ index \subseteq Blocks
    /\ chainTips \in [Heights -> Seq(Blocks)]
    /\ totalTips \in Nat
    /\ cachedTips \subseteq Blocks
    /\ cachedTipsStart \in Nat
    /\ best \in Blocks

Init ==
    /\ index = {Genesis}
    /\ chainTips = [h \in Heights |-> IF h = 0 THEN <<Genesis>> ELSE << >>]
    /\ totalTips = 1
    /\ cachedTips = {Genesis}
    /\ cachedTipsStart = 0
    /\ best = Genesis

\* pruneCachedTips with ref as the best known block.
PruneCachedTips(ref) ==
    /\ cachedTips' = PrunedTips(cachedTips, ref)
    /\ cachedTipsStart' = PrunedStart(cachedTipsStart, ref)

\* addNode, the part about tips: the new header is a tip and its parent no
\* longer is.  The total counts the parent down only when it was a tip.
AddNode(b) ==
    LET p       == Parent[b]
        wasTip  == p \in Elems(chainTips[Height[p]])
    IN  /\ b \notin index
        /\ p \in index
        /\ index' = index \cup {b}
        /\ chainTips' = [h \in Heights |->
               IF h = Height[b] THEN AddChainTip(chainTips[h], b)
               ELSE IF h = Height[p] THEN RemoveChainTip(chainTips[h], p)
               ELSE chainTips[h]]
        /\ totalTips' = IF wasTip THEN totalTips ELSE totalTips + 1
        /\ cachedTips' = (cachedTips \cup {b}) \ {p}
        /\ UNCHANGED <<cachedTipsStart, best>>

\* connectBlock sets the tip of the best chain to the block and then prunes
\* the cache with it as reference when the prune interval has passed.
ConnectBlock(b) ==
    /\ b \in index
    /\ Parent[b] = best
    /\ best' = b
    /\ \/ UNCHANGED <<cachedTips, cachedTipsStart>>
       \/ PruneCachedTips(b)
    /\ UNCHANGED <<index, chainTips, totalTips>>

\* disconnectBlock moves the best chain back by one block.
DisconnectBlock ==
    /\ best # Genesis
    /\ best' = Parent[best]
    /\ UNCHANGED <<index, chainTips, totalTips, cachedTips, cachedTipsStart>>

\* ReconsiderBlock ends with a prune at whatever block is best by then.
ReconsiderBlock ==
    /\ PruneCachedTips(best)
    /\ UNCHANGED <<index, chainTips, totalTips, best>>

AddSome == \E b \in Blocks \ {Genesis} : AddNode(b)

ConnectSome == \E b \in Blocks : ConnectBlock(b)

Next == AddSome \/ ConnectSome \/ DisconnectBlock \/ ReconsiderBlock

Spec == Init /\ [][Next]_vars

\* The behaviours in which no prune uses a lower reference height than the
\* prune before it, as when the best chain recovers its height before the
\* next prune.
Rising == cachedTipsStart' >= cachedTipsStart

ConnectRising == ConnectSome /\ Rising

ReconsiderRising == ReconsiderBlock /\ Rising

NextRising == AddSome \/ ConnectRising \/ DisconnectBlock \/ ReconsiderRising

RisingSpec == Init /\ [][NextRising]_vars

-----------------------------------------------------------------------------
\* addChainTip and removeChainTip together keep the map exact: the tips it
\* lists are the headers without a known child, each of them once and at its
\* own height, and totalTips is their number.  forEachChainTip visits
\* exactly these when the best header is searched for.
TipsAreLeaves ==
    /\ AllTips = Leaves
    /\ \A h \in Heights :
          /\ \A t \in Elems(chainTips[h]) : Height[t] = h
          /\ \A i, j \in DOMAIN chainTips[h] :
                chainTips[h][i] = chainTips[h][j] => i = j
    /\ totalTips = Cardinality(Leaves)

\* blockIndex.cachedTips "is similar to chainTips except that it only tracks
\* chain tips starting at the height specified by cachedTipsStart": no tip at
\* or above that height is missing from the cache.
CacheComplete ==
    \A t \in Leaves : Height[t] >= cachedTipsStart => t \in cachedTips

\* What MarkBlockFailedValidation and ReconsiderBlock need of
\* forEachChainTipAfterHeight: for every known header it visits each tip that
\* descends from the header, whether or not it uses the cache.
DescendantTipsVisited ==
    \A n \in index : \A t \in Leaves \ {n} :
        IsAncestorOf(n, t) =>
            t \in TipsAfterHeight(AllTips, cachedTips, cachedTipsStart, n)

\* The cache holds nothing but tips: removeChainTip drops a header from it
\* as soon as another one builds on it.
CacheIsTips == cachedTips \subseteq Leaves
=============================================================================
