----------------------------- MODULE BlockIndex -----------------------------
(***************************************************************************)
(* The block index (internal/blockchain/blockindex.go): what a node knows  *)
(* about each header of the tree, and the updates the chain code makes.    *)
(*                                                                         *)
(* A status flag is the set of the blocks that carry it.  Every update     *)
(* below runs under the index lock and is therefore one step.  The actions *)
(* of BlockChain are made of these updates.                                *)
(***************************************************************************)
EXTENDS BlockTips

VARIABLES
    known,          \* the headers in the index
    data,           \* statusDataStored
    validated,      \* statusValidated
    failed,         \* statusValidateFailed
    invalidAnc,     \* statusInvalidAncestor
    linked,         \* blockNode.isFullyLinked
    order,          \* blockNode.receivedOrderID
    nextOrder,      \* blockIndex.nextReceivedOrderID
    candidates,     \* blockIndex.bestChainCandidates
    unlinked,       \* the blocks listed in unlinkedChildrenOf of their parent
    bestHeader,     \* blockIndex.bestHeader
    bestInvalid,    \* blockIndex.bestInvalid; NoBlock when nil
    modified,       \* blockIndex.modified
    cachedTips,     \* blockIndex.cachedTips
    cachedTipsStart \* blockIndex.cachedTipsStart

statusVars == <<data, validated, failed, invalidAnc>>
linkVars   == <<linked, order, nextOrder, candidates, unlinked>>
bestVars   == <<bestHeader, bestInvalid>>
tipVars    == <<cachedTips, cachedTipsStart>>
indexVars  == <<known, statusVars, linkVars, bestVars, modified, tipVars>>

KnownInvalid == failed \cup invalidAnc

\* canValidate: the block and all of its ancestors have their data.
CanValidate == linked \cap data

\* The chain tips; ChainTips shows that chainTips lists exactly these.
Leaves == {b \in known : Children(b) \cap known = {}}

\* betterCandidate, with the data and receive order it looks at.
BetterCandidate(a, b, dat, ord) ==
    \/ WorkSum[a] > WorkSum[b]
    \/ /\ WorkSum[a] = WorkSum[b]
       /\ \/ a \in dat /\ b \notin dat
          \/ /\ a \in dat <=> b \in dat
             /\ \/ ord[a] < ord[b]
                \/ ord[a] = ord[b] /\ HashRank[a] < HashRank[b]

\* The winner of a search that replaces its result by any better candidate.
\* betterCandidate is a strict order, so the order of the search is immaterial.
BestOf(S, dat, ord) ==
    LET best == {a \in S : \A b \in S \ {a} : BetterCandidate(a, b, dat, ord)}
    IN  IF best = {} THEN NoBlock ELSE CHOOSE a \in best : TRUE

\* FindBestChainCandidate
FindBestChainCandidate == BestOf(candidates, data, order)

-----------------------------------------------------------------------------
IndexTypeOK ==
    /\ known \subseteq Blocks
    /\ data \subseteq known
    /\ validated \subseteq known
    /\ failed \subseteq known
    /\ invalidAnc \subseteq known
    /\ linked \subseteq known
    /\ order \in [Blocks -> Nat]
    /\ nextOrder \in Nat \ {0}
    /\ candidates \subseteq known
    /\ unlinked \subseteq known
    /\ bestHeader \in known
    /\ bestInvalid \in known \cup {NoBlock}
    /\ modified \subseteq known
    /\ cachedTips \subseteq known
    /\ cachedTipsStart \in Nat

\* createChainState: the index of a new database holds the genesis block.
IndexInit ==
    /\ known = {Genesis}
    /\ data = {Genesis}
    /\ validated = {Genesis}
    /\ failed = {}
    /\ invalidAnc = {}
    /\ linked = {Genesis}
    /\ order = [b \in Blocks |-> 0]
    /\ nextOrder = 1
    /\ candidates = {Genesis}
    /\ unlinked = {}
    /\ bestHeader = Genesis
    /\ bestInvalid = NoBlock
    /\ modified = {}
    /\ cachedTips = {Genesis}
    /\ cachedTipsStart = 0

\* addNode and AddNode, except that the caller says how modified changes.
AddNode(b) ==
    /\ known' = known \cup {b}
    /\ bestHeader' = IF BetterCandidate(b, bestHeader, data, order)
                     THEN b ELSE bestHeader
    /\ cachedTips' = (cachedTips \cup {b}) \ {Parent[b]}
    /\ UNCHANGED <<statusVars, linkVars, bestInvalid, cachedTipsStart>>

\* The chain tips that descend from n, as forEachChainTipAfterHeight finds
\* them.
DescendantTips(n) ==
    {t \in TipsAfterHeight(Leaves, cachedTips, cachedTipsStart, n) :
        IsAncestorOf(n, t)}

\* The blocks above n on the way to one of the tips.
Between(n, tips) ==
    UNION {{b \in Ancestors[t] \ {n} : IsAncestorOf(n, b)} : t \in tips}

\* The blocks MarkBlockFailedValidation newly marks as having an invalid
\* ancestor.
NewlyInvalid(n) == Between(n, DescendantTips(n)) \ invalidAnc

\* The nodes whose status MarkBlockFailedValidation changes.
MarkTouches(n) ==
    NewlyInvalid(n) \cup (IF n \in failed \ validated THEN {} ELSE {n})

\* Deliberate slips of the operators below, substituted for them one at a
\* time to show that the properties notice: the descendants of a failed block
\* keep their place in the index, the best header is kept, and the best invalid
\* block ignores the tips.
FailedBlockOnly(n) == {n}

KeptBestHeader(n, invalid) == bestHeader

BestInvalidWithoutTips(n) ==
    BestOf({n} \cup ({bestInvalid} \ {NoBlock}), data, order)

\* The nodes MarkBlockFailedValidation takes out of the candidates and of the
\* unlinked children.
Disqualified(n) == NewlyInvalid(n) \cup {n}

\* The headers the search for a new best header comes by: those below a tip
\* that does not descend from n, and those below n.
HeadersBeside(n) ==
    (UNION {Ancestors[t] : t \in {l \in Leaves : ~IsAncestorOf(n, l)}})
        \cup Ancestors[n]

BestHeaderAfterMark(n, invalid) ==
    IF bestHeader \in invalid
    THEN BestOf(HeadersBeside(n) \ invalid, data, order)
    ELSE bestHeader

\* maybeUpdateBestInvalid on the block and on the tips above it.
BestInvalidAfterMark(n) ==
    BestOf({n} \cup DescendantTips(n) \cup ({bestInvalid} \ {NoBlock}),
           data, order)

\* MarkBlockFailedValidation, except that the caller says how modified
\* changes: the nodes in MarkTouches(n) join it.
MarkBlockFailedValidation(n) ==
    /\ failed' = failed \cup {n}
    /\ invalidAnc' = invalidAnc \cup NewlyInvalid(n)
    /\ validated' = validated \ Disqualified(n)
    /\ candidates' = candidates \ Disqualified(n)
    /\ unlinked' = {u \in unlinked : Parent[u] \notin Disqualified(n)}
    /\ bestInvalid' = BestInvalidAfterMark(n)
    /\ bestHeader' = BestHeaderAfterMark(n, failed' \cup invalidAnc')
    /\ UNCHANGED <<known, data, linked, order, nextOrder, tipVars>>

\* Deliberate slips: the current tip is not kept, and no child is waiting.
StrictlyMoreWorkCandidates(n) == {c \in candidates : WorkSum[c] > WorkSum[n]}

NoWaitingChildren(n) == {}

\* removeLessWorkCandidates
MoreWorkCandidates(n) == {c \in candidates : WorkSum[c] >= WorkSum[n]}

\* One iteration of linkBlockData: n is linked and gets the next place in
\* the receive order, and its waiting children leave the set of unlinked
\* blocks.
LinkNode(n, tip) ==
    /\ linked' = linked \cup {n}
    /\ order' = [order EXCEPT ![n] = nextOrder]
    /\ nextOrder' = nextOrder + 1
    /\ candidates' = IF WorkSum[n] >= WorkSum[tip]
                     THEN candidates \cup {n} ELSE candidates
    /\ unlinked' = unlinked \ Children(n)
    /\ UNCHANGED <<known, statusVars, bestVars, modified, tipVars>>

WaitingChildren(n) == unlinked \cap Children(n)

-----------------------------------------------------------------------------
\* The first part of ReconsiderBlock: the flags of the block and its
\* ancestors are cleared, and the lowest failed one among them is found.
ReconsideredPath(n) == Ancestors[n] \ {Genesis}

EarliestFailed(n) ==
    LET bad == ReconsideredPath(n) \cap failed
    IN  IF bad = {} THEN {n}
        ELSE {v \in bad : \A o \in bad : Height[v] <= Height[o]}

\* The blocks above it on the way to a chain tip.
AboveEarliest(n) ==
    UNION {Between(v, DescendantTips(v)) : v \in EarliestFailed(n)}

\* Deliberate slips: descendants that failed themselves are passed over, the
\* data of a new candidate is not asked for, and no new candidate is found.
AllDescendants(n) == AboveEarliest(n)

FirstNotInvalid(t) == Highest(Ancestors[t] \ KnownInvalid)

CurrentTipOnly(tip) == candidates \cup {tip}

\* Those of them that are below the first one that failed itself.
ReconsideredDescendants(n) ==
    {d \in AboveEarliest(n) :
        Ancestors[d] \cap AboveEarliest(n) \cap (failed \ ReconsideredPath(n)) = {}}

\* The update ReconsiderBlock makes under the index lock.
ReconsiderStatuses(n, tip) ==
    LET path  == ReconsideredPath(n)
        desc  == ReconsideredDescendants(n)
        valid == known \ (failed' \cup invalidAnc')
    IN  /\ failed' = failed \ path
        /\ invalidAnc' = invalidAnc \ (path \cup desc)
        /\ modified' = modified \cup (path \cap KnownInvalid)
                                \cup (desc \cap invalidAnc)
        /\ candidates' = candidates \cup
               {c \in (path \cup desc) \cap CanValidate :
                   WorkSum[c] >= WorkSum[tip]}
        /\ unlinked' = unlinked \cup (((path \cup desc) \cap data) \ linked)
        /\ bestInvalid' = BestOf(Leaves \ valid, data, order)
        /\ bestHeader' = BestOf(valid \cup {bestHeader}, data, order)
        /\ UNCHANGED <<known, data, validated, linked, order, nextOrder,
                       tipVars>>

\* The search of InvalidateBlock for new candidates: per chain tip with
\* enough work, the first block at or below it that can be validated and is
\* not known to be invalid.
FirstUsable(t) == Highest((Ancestors[t] \cap CanValidate) \ KnownInvalid)

RepopulatedCandidates(tip) ==
    LET tips == {t \in Leaves : WorkSum[t] >= WorkSum[tip]}
    IN  candidates \cup {tip} \cup
            {c \in UNION {FirstUsable(t) : t \in tips} : WorkSum[c] >= WorkSum[tip]}
=============================================================================
