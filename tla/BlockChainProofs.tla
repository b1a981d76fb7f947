-------------------------- MODULE BlockChainProofs --------------------------
(***************************************************************************)
(* Proofs about block processing, for every tree, every assignment of      *)
(* verdicts and every set of operations, crashes included.                 *)
(***************************************************************************)
EXTENDS BlockChainProperties, TLAPS, FiniteSetTheorems

-----------------------------------------------------------------------------
\* The inductive invariant.

\* The blocks that have their data together with all of their ancestors.
Complete == {b \in Blocks : Ancestors[b] \subseteq data}

\* The index is closed under ancestors and the sets kept with it are part of
\* it; a linked block has the data of everything below it.
IndexInv ==
    /\ known \subseteq Blocks
    /\ Genesis \in known
    /\ \A b \in known : Ancestors[b] \subseteq known
    /\ data \subseteq known
    /\ modified \subseteq known
    /\ cachedTips \subseteq known
    /\ linked \subseteq known
    /\ unlinked \subseteq data
    /\ \A b \in linked : Ancestors[b] \ {b} \subseteq data
    /\ candidates \subseteq Complete

\* Everything the running operation may connect is complete.
OperationInv ==
    /\ tip \in Complete
    /\ target \in Complete \cup {NoBlock}
    /\ linkedNodes \in Seq(Complete)
    /\ pos \in Nat \ {0}
    /\ node \in known \cup {NoBlock}
    /\ pc = "data" => node \in known
    /\ op = "invalidate" => node \in known

\* The database lags behind the index by the modified entries only, and holds
\* the best chain.
DiskInv ==
    /\ disk.known \subseteq known
    /\ known \subseteq disk.known \cup modified
    /\ disk.data \subseteq data
    /\ data \subseteq disk.data \cup modified
    /\ disk.data \subseteq disk.known
    /\ \A b \in disk.known : Ancestors[b] \subseteq disk.known
    /\ Genesis \in disk.known
    /\ disk.tip = tip
    /\ Ancestors[tip] \subseteq disk.data

ChainInv == IndexInv /\ OperationInv /\ DiskInv

-----------------------------------------------------------------------------
\* Facts about the tree and the operators of the model.

\* A block is its own ancestor, and the others are those of its parent.
LEMMA TreeFacts ==
    ASSUME NEW b \in Blocks
    PROVE  /\ b \in Ancestors[b]
           /\ Ancestors[b] \subseteq Blocks
           /\ b # Genesis => /\ Parent[b] \in Ancestors[b]
                             /\ Ancestors[b] = Ancestors[Parent[b]] \cup {b}
<1>1. \A a \in Blocks : a \in Ancestors[a] /\ Ancestors[a] \subseteq Blocks
    BY AncestorAssumption, TreeAssumption, Zenon
<1>2. b # Genesis => Parent[b] \in Blocks
    BY Zenon, TreeAssumption
<1> QED
    BY Zenon, <1>1, <1>2, AncestorAssumption

\* A search for the best candidate finds one of the blocks searched or none.
LEMMA BestOfFacts ==
    ASSUME NEW S, NEW dat, NEW ord
    PROVE  BestOf(S, dat, ord) \in S \cup {NoBlock}
<1> DEFINE best == {a \in S : \A b \in S \ {a} : BetterCandidate(a, b, dat, ord)}
<1> HIDE DEF best
<1>1. best \subseteq S
    BY Zenon DEF best
<1>2. best # {} => (CHOOSE a \in best : TRUE) \in best
    OBVIOUS
<1>3. BestOf(S, dat, ord) = IF best = {} THEN NoBlock ELSE CHOOSE a \in best : TRUE
    BY Zenon DEF BestOf, best
<1> QED
    BY Zenon, <1>1, <1>2, <1>3

\* A complete block stays complete as data arrives.
LEMMA CompleteGrows ==
    ASSUME data \subseteq data'
    PROVE  Complete \subseteq Complete'
BY Zenon DEF Complete

\* An element of a sequence over a set is in the set.
LEMMA SeqElement ==
    ASSUME NEW S, NEW s \in Seq(S), NEW i \in Nat \ {0}, i <= Len(s)
    PROVE  s[i] \in S
OBVIOUS

\* The empty sequence is one over every set.
LEMMA EmptySeq ==
    ASSUME NEW S
    PROVE  << >> \in Seq(S)
OBVIOUS

\* A larger set has the same sequences and more.
LEMMA SeqGrows ==
    ASSUME NEW S, NEW T, S \subseteq T, NEW s \in Seq(S)
    PROVE  s \in Seq(T)
OBVIOUS

\* The tips a lookup visits, and the blocks on the way to them, are known.
LEMMA BetweenKnown ==
    ASSUME IndexInv, NEW n \in known
    PROVE  Between(n, DescendantTips(n)) \subseteq known
<1>1. Leaves \subseteq known /\ cachedTips \subseteq known
    BY Zenon DEF Leaves, IndexInv
<1>2. DescendantTips(n) \subseteq known
    BY Zenon, <1>1 DEF DescendantTips, TipsAfterHeight
<1> QED
    BY <1>2 DEF Between, IndexInv

\* MarkBlockFailedValidation touches known nodes only, keeps the data and the
\* links, and adds no candidate.
LEMMA MarkFacts ==
    ASSUME IndexInv, NEW n \in known, MarkBlockFailedValidation(n)
    PROVE  /\ UNCHANGED <<known, data, linked, cachedTips>>
           /\ candidates' \subseteq candidates
           /\ unlinked' \subseteq unlinked
           /\ MarkTouches(n) \subseteq known
<1>1. MarkTouches(n) \subseteq known
    BY Zenon, BetweenKnown DEF MarkTouches, NewlyInvalid
<1> QED
    BY Zenon, <1>1 DEF MarkBlockFailedValidation, tipVars

\* A prune drops tips from the cache.
LEMMA PruneDrops ==
    ASSUME NEW S, NEW b
    PROVE  PrunedTips(S, b) \subseteq S
BY Zenon DEF PrunedTips

-----------------------------------------------------------------------------
\* How a step keeps each part of the invariant.

\* A step that leaves the headers, the data and the links alone.
LEMMA IndexKept ==
    ASSUME IndexInv, UNCHANGED <<known, data, linked>>,
           modified' \subseteq known, cachedTips' \subseteq known,
           unlinked' \subseteq data, candidates' \subseteq Complete
    PROVE  IndexInv'
BY Zenon DEF IndexInv, Complete

\* A step that adds a header.
LEMMA HeaderAdded ==
    ASSUME IndexInv, NEW b \in Blocks, HeaderAcceptable(b), AddNode(b),
           modified' \subseteq known \cup {b}
    PROVE  IndexInv' /\ known' = known \cup {b} /\ data' = data
<1>1. b # Genesis /\ Parent[b] \in known
    BY Zenon DEF HeaderAcceptable, IndexInv
<1>2. Ancestors[b] = Ancestors[Parent[b]] \cup {b}
    BY Zenon, <1>1, TreeFacts
<1>3. /\ known' = known \cup {b}
      /\ cachedTips' \subseteq known \cup {b}
      /\ UNCHANGED <<data, linked, unlinked, candidates>>
    BY Zenon DEF AddNode, statusVars, linkVars, IndexInv
<1>4. \A a \in known' : Ancestors[a] \subseteq known'
    BY Zenon, <1>1, <1>2, <1>3 DEF IndexInv
<1> QED
    BY Zenon, <1>3, <1>4 DEF IndexInv, Complete

\* A step that does not write to the database.
LEMMA DiskKept ==
    ASSUME DiskInv, UNCHANGED <<disk, tip>>, modified \subseteq modified',
           known \subseteq known', known' \subseteq known \cup modified',
           data \subseteq data', data' \subseteq data \cup modified'
    PROVE  DiskInv'
BY Zenon DEF DiskInv

\* A flush of the index, with or without a new best state.
LEMMA DiskWritten ==
    ASSUME DiskInv, IndexInv', NEW M, NEW best,
           FlushAndPutBestState(M, best), tip' = best,
           modified \subseteq M, M \subseteq known',
           known \subseteq known', known' \subseteq known \cup M,
           data \subseteq data', data' \subseteq data \cup M,
           Ancestors[best] \subseteq data'
    PROVE  DiskInv'
<1>1. /\ modified' = {}
      /\ disk'.known = disk.known \cup M
      /\ disk'.data = (disk.data \ M) \cup (data' \cap M)
      /\ disk'.tip = best
    BY Zenon DEF FlushAndPutBestState, Written
<1>2. /\ disk'.known \subseteq known' /\ known' \subseteq disk'.known
      /\ disk'.data \subseteq data' /\ data' \subseteq disk'.data
    BY Zenon, <1>1 DEF DiskInv
<1>3. disk'.known = known' /\ disk'.data = data'
    BY <1>2, Zenon
<1> QED
    BY Zenon, <1>1, <1>3 DEF DiskInv, IndexInv

\* A step that keeps the running operation, or ends it.
LEMMA OperationKept ==
    ASSUME OperationInv, data \subseteq data', known \subseteq known',
           tip' \in Complete,
           \/ UNCHANGED opVars /\ pc' # "data"
           \/ UNCHANGED <<opVars, pc>>
           \/ Idle
    PROVE  OperationInv'
<1>1. Complete \subseteq Complete'
    BY Zenon, CompleteGrows
<1>2. CASE UNCHANGED opVars /\ (pc' # "data" \/ pc' = pc)
    BY Zenon, <1>1, <1>2, SeqGrows DEF OperationInv, opVars
<1>3. CASE Idle
    BY <1>1, <1>3 DEF OperationInv, Idle
<1> QED
    BY Zenon, <1>2, <1>3

-----------------------------------------------------------------------------
\* The steps of the running operation.

\* A step that neither updates the index nor writes to the database.
LEMMA ControlStep ==
    ASSUME ChainInv, UNCHANGED <<indexVars, tip, disk>>, OperationInv'
    PROVE  ChainInv'
<1>1. UNCHANGED <<known, data, linked, modified, cachedTips, unlinked, candidates>>
    BY Zenon DEF indexVars, statusVars, linkVars, tipVars
<1>2. IndexInv'
    BY Zenon, <1>1, IndexKept DEF ChainInv, IndexInv
<1>3. DiskInv'
    BY Zenon, <1>1, DiskKept DEF ChainInv
<1> QED
    BY Zenon, <1>2, <1>3 DEF ChainInv

\* A step that marks a known block as failed and writes later.
LEMMA MarkStep ==
    ASSUME ChainInv, NEW n \in known, MarkBlockFailedValidation(n),
           modified' = modified \cup MarkTouches(n),
           UNCHANGED <<tip, disk>>, OperationInv'
    PROVE  ChainInv'
<1>1. IndexInv' /\ UNCHANGED <<known, data>>
    BY Zenon, MarkFacts, IndexKept DEF ChainInv, IndexInv
<1>2. DiskInv'
    BY Zenon, <1>1, DiskKept DEF ChainInv
<1> QED
    BY Zenon, <1>1, <1>2 DEF ChainInv

\* A step that only flushes the index and prunes the cache of tips.
LEMMA FlushStep ==
    ASSUME ChainInv, UNCHANGED <<known, data, linked, unlinked, candidates, tip>>,
           cachedTips' \subseteq known, FlushBlockIndex(modified), OperationInv'
    PROVE  ChainInv'
<1>1. IndexInv'
    <2>1. modified' = {}
        BY Zenon DEF FlushBlockIndex, FlushAndPutBestState
    <2> QED
        BY Zenon, <2>1, IndexKept DEF ChainInv, IndexInv
<1>2. disk.tip = tip /\ Ancestors[tip] \subseteq data /\ modified \subseteq known
    BY Zenon DEF ChainInv, DiskInv, IndexInv
<1>3. DiskInv'
    <2>1. FlushAndPutBestState(modified, tip) /\ tip' = tip
        BY Zenon, <1>2 DEF FlushBlockIndex
    <2> QED
        BY Zenon, <1>1, <1>2, <2>1, DiskWritten DEF ChainInv
<1> QED
    BY Zenon, <1>1, <1>3 DEF ChainInv

\* The data of a block is stored: the flags change for one known node.
LEMMA AcceptBlockDataStep ==
    ASSUME ChainInv, AcceptBlockData
    PROVE  ChainInv'
<1>1. /\ node \in known
      /\ data' = data \cup {node}
      /\ UNCHANGED <<known, linked, candidates, cachedTips, tip, op, node, target, pos>>
      /\ pc' # "data"
    BY Zenon DEF AcceptBlockData, ChainInv, OperationInv, tipVars
<1>2. Complete \subseteq Complete'
    BY Zenon, <1>1, CompleteGrows
<1>3. CASE /\ Parent[node] \in CanValidate
           /\ linkedNodes' = <<node>>
           /\ modified' = modified \cup {node}
           /\ UNCHANGED <<unlinked, disk>>
    <2>1. IndexInv'
        BY Zenon, <1>1, <1>2, <1>3 DEF ChainInv, IndexInv
    <2>2. DiskInv'
        BY Zenon, <1>1, <1>3, DiskKept DEF ChainInv
    <2>3. node \in Complete'
        <3>1. Parent[node] \in Blocks /\ node \in Blocks /\ node # Genesis
            BY Zenon, <1>1, <1>3, GenesisAssumption DEF CanValidate, ChainInv, IndexInv
        <3>2. Ancestors[Parent[node]] \subseteq data
            BY Zenon, <1>3 DEF CanValidate, ChainInv, IndexInv
        <3>3. Ancestors[node] \subseteq data'
            BY Zenon, <1>1, <3>1, <3>2, TreeFacts
        <3> QED
            BY Zenon, <3>1, <3>3 DEF Complete
    <2>4. linkedNodes' \in Seq(Complete')
        BY <1>3, <2>3
    <2>5. OperationInv'
        BY Zenon, <1>1, <1>2, <2>4 DEF ChainInv, OperationInv
    <2> QED
        BY Zenon, <2>1, <2>2, <2>5 DEF ChainInv
<1>4. CASE /\ unlinked' \subseteq unlinked \cup {node}
           /\ linkedNodes' = linkedNodes
           /\ FlushBlockIndex(modified \cup {node})
    <2>1. modified' = {}
        BY Zenon, <1>4 DEF FlushBlockIndex, FlushAndPutBestState
    <2>2. IndexInv'
        BY Zenon, <1>1, <1>2, <1>4, <2>1 DEF ChainInv, IndexInv
    <2>3. disk.tip = tip /\ Ancestors[tip] \subseteq data /\ modified \subseteq known
        BY Zenon DEF ChainInv, DiskInv, IndexInv
    <2>4. FlushAndPutBestState(modified \cup {node}, tip) /\ tip' = tip
        BY Zenon, <1>1, <1>4, <2>3 DEF FlushBlockIndex
    <2>5. DiskInv'
        BY <1>1, <2>2, <2>3, <2>4, DiskWritten DEF ChainInv
    <2>6. linkedNodes' \in Seq(Complete')
        BY Zenon, <1>2, <1>4, SeqGrows DEF ChainInv, OperationInv
    <2>7. OperationInv'
        BY Zenon, <1>1, <1>2, <2>6 DEF ChainInv, OperationInv
    <2> QED
        BY Zenon, <2>2, <2>5, <2>7 DEF ChainInv
<1> QED
    BY Zenon, <1>3, <1>4 DEF AcceptBlockData

\* A block is linked: it is complete, and so are the children that waited.
LEMMA LinkBlockDataStep ==
    ASSUME ChainInv, LinkBlockData
    PROVE  ChainInv'
<1> DEFINE n == linkedNodes[pos]
           W == WaitingChildren(n)
<1>1. n \in Complete
    <2>1. pos <= Len(linkedNodes) /\ pos \in Nat \ {0} /\ linkedNodes \in Seq(Complete)
        BY Zenon DEF LinkBlockData, ChainInv, OperationInv
    <2> QED
        BY <2>1, SeqElement, Zenon
<1>2. /\ linked' = linked \cup {n}
      /\ candidates' \subseteq candidates \cup {n}
      /\ unlinked' \subseteq unlinked
      /\ UNCHANGED <<known, data, modified, cachedTips, tip, disk, pc, op, node, target>>
      /\ pos' = pos + 1
    BY Zenon DEF LinkBlockData, LinkNode, statusVars, tipVars
<1>3. Complete' = Complete
    BY Zenon, <1>2 DEF Complete
<1>4. n \in known
    BY Zenon, <1>1, TreeFacts DEF Complete, ChainInv, IndexInv
<1>5. IndexInv'
    BY Zenon, <1>1, <1>2, <1>3, <1>4 DEF Complete, ChainInv, IndexInv
<1>6. W \subseteq Complete
    <2> SUFFICES ASSUME NEW w \in W PROVE w \in Complete
        OBVIOUS
    <2>1. w \in data /\ w \in Blocks /\ Parent[w] = n
        BY Zenon DEF WaitingChildren, Children, ChainInv, IndexInv
    <2>2. w # Genesis
        BY Zenon, <1>1, <2>1, GenesisAssumption DEF Complete
    <2>3. Ancestors[w] = Ancestors[n] \cup {w}
        BY Zenon, <2>1, <2>2, TreeFacts
    <2> QED
        BY Zenon, <1>1, <2>1, <2>3 DEF Complete
<1>7. linkedNodes' \in Seq(Complete)
    <2>1. PICK s \in Orderings(W) : linkedNodes' = linkedNodes \o s
        BY Zenon DEF LinkBlockData
    <2>2. IsFiniteSet(W)
        <3>1. W \subseteq Blocks
            BY Zenon, <1>6 DEF Complete
        <3> QED
            BY Zenon, <3>1, FiniteAssumption, FS_Subset
    <2>3. Cardinality(W) \in Nat
        BY Zenon, <2>2, FS_CardinalityType
    <2>4. s \in [1..Cardinality(W) -> W]
        BY Zenon, <2>1 DEF Orderings
    <2>5. s \in Seq(W)
        BY <2>3, <2>4
    <2>6. s \in Seq(Complete)
        BY Zenon, <1>6, <2>5, SeqGrows
    <2>7. linkedNodes \in Seq(Complete)
        BY Zenon DEF ChainInv, OperationInv
    <2> HIDE DEF W, n
    <2> QED
        BY <2>1, <2>6, <2>7
<1>8. OperationInv'
    BY <1>2, <1>3, <1>7 DEF ChainInv, OperationInv
<1>9. DiskInv'
    BY Zenon, <1>2, DiskKept DEF ChainInv
<1> QED
    BY Zenon, <1>5, <1>8, <1>9 DEF ChainInv

\* The next block to attach is the child of the tip on the branch of the
\* target.
LEMMA NextBlockFacts ==
    ASSUME ChainInv, Reorganizing, AtFork
    PROVE  /\ NextBlock \in known
           /\ NextBlock \in Complete
           /\ Parent[NextBlock] = tip
<1>1. target \in Complete /\ target \in Blocks
    BY Zenon DEF Reorganizing, ChainInv, OperationInv, Complete
<1>2. tip \in Ancestors[target] /\ tip # target
    BY Zenon DEF Reorganizing, AtFork, IsAncestorOf
<1>3. \E n \in Ancestors[target] : Parent[n] = tip
    BY Zenon, <1>1, <1>2, PathAssumption
<1>4. NextBlock \in Ancestors[target] /\ Parent[NextBlock] = tip
    BY Zenon, <1>3 DEF NextBlock, NextOnPath
<1>5. NextBlock \in data /\ NextBlock \in Blocks
    BY Zenon, <1>1, <1>4 DEF Complete, ChainInv, IndexInv
<1>6. Ancestors[NextBlock] \subseteq Ancestors[target]
    BY Zenon, <1>1, <1>4, PathAssumption
<1> QED
    BY Zenon, <1>1, <1>4, <1>5, <1>6 DEF Complete, ChainInv, IndexInv

\* The tip of the best chain moves to a complete block.
LEMMA BestStateStep ==
    ASSUME ChainInv, UNCHANGED <<known, data, linked, unlinked>>,
           candidates' \subseteq candidates, cachedTips' \subseteq cachedTips,
           NEW best \in Complete, tip' = best,
           FlushAndPutBestState(modified, best), UNCHANGED <<pc, opVars>>
    PROVE  ChainInv'
<1>1. modified' = {}
    BY Zenon DEF FlushAndPutBestState
<1>2. IndexInv'
    BY <1>1, IndexKept, ZenonT(60) DEF ChainInv, IndexInv
<1>3. DiskInv'
    BY Zenon, <1>2, DiskWritten DEF ChainInv, IndexInv, Complete
<1>4. OperationInv'
    BY Zenon, OperationKept DEF ChainInv
<1> QED
    BY Zenon, <1>2, <1>3, <1>4 DEF ChainInv

\* disconnectBlock: the parent of a complete block is complete, and its
\* stored state names a block that is stored.
LEMMA DisconnectBlockStep ==
    ASSUME ChainInv, DisconnectBlock
    PROVE  ChainInv' /\ tip' = Parent[tip]
<1>1. tip \in Complete /\ tip \in Blocks
    BY Zenon DEF ChainInv, OperationInv, Complete
<1>2. tip # Genesis
    <2>1. target \in Blocks /\ ~IsAncestorOf(tip, target)
        BY Zenon DEF DisconnectBlock, Reorganizing, AtFork, ChainInv, OperationInv, Complete
    <2> QED
        BY Zenon, <2>1, PathAssumption DEF IsAncestorOf
<1>3. Parent[tip] \in Complete
    <2>1. Parent[tip] \in Blocks /\ Ancestors[Parent[tip]] \subseteq Ancestors[tip]
        BY Zenon, <1>1, <1>2, TreeFacts, TreeAssumption
    <2> QED
        BY Zenon, <1>1, <2>1 DEF Complete
<1>4. tip' = Parent[tip] /\ FlushAndPutBestState(modified, Parent[tip])
      /\ UNCHANGED <<known, data, linked, unlinked, candidates, cachedTips, pc, opVars>>
    BY Zenon DEF DisconnectBlock, statusVars, linkVars, tipVars
<1> QED
    BY Zenon, <1>3, <1>4, BestStateStep

\* connectBlock: the next block of the branch to a complete target is
\* complete, and the flush before it has stored its index entry.
LEMMA ConnectBlockStep ==
    ASSUME ChainInv, ConnectBlock
    PROVE  ChainInv' /\ tip = Parent[tip']
<1>1. NextBlock \in Complete /\ Parent[NextBlock] = tip
    BY Zenon, NextBlockFacts DEF ConnectBlock
<1>2. /\ tip' = NextBlock
      /\ FlushAndPutBestState(modified, NextBlock)
      /\ candidates' \subseteq candidates
      /\ cachedTips' \subseteq cachedTips
      /\ UNCHANGED <<known, data, linked, unlinked, pc, opVars>>
    BY PruneDrops, Zenon DEF ConnectBlock, MoreWorkCandidates, statusVars, tipVars
<1> QED
    BY Zenon, <1>1, <1>2, BestStateStep

\* The steps of the running operation that remain, by what they change.
LEMMA StepKeeps ==
    ASSUME ChainInv, Step
    PROVE  ChainInv'
<1> USE DEF ChainInv
<1>1. ASSUME RejectBlockData \/ AcceptDone \/ ReorgDone \/ ReturnToProcessBlock
                 \/ Announce
      PROVE  ChainInv'
    <2>1. UNCHANGED <<indexVars, tip, disk>>
        BY Zenon, <1>1 DEF RejectBlockData, AcceptDone, ReorgDone, ReturnToProcessBlock,
                    Announce
    <2>2. Idle \/ (UNCHANGED opVars /\ pc' # "data")
        BY Zenon, <1>1 DEF RejectBlockData, AcceptDone, ReorgDone, ReturnToProcessBlock,
                    Announce, Goto
    <2>3. tip' \in Complete /\ data \subseteq data' /\ known \subseteq known'
        BY Zenon, <2>1 DEF OperationInv, indexVars, statusVars
    <2> QED
        BY <2>1, <2>2, <2>3, OperationKept, ControlStep, ZenonT(60)
<1>2. ASSUME FailBlockData
      PROVE  ChainInv'
    <2>1. node \in known /\ MarkBlockFailedValidation(node)
        BY Zenon, <1>2 DEF FailBlockData, OperationInv
    <2>2. UNCHANGED <<known, data>>
        BY Zenon, <2>1 DEF MarkBlockFailedValidation
    <2>3. OperationInv'
        BY <1>2, <2>2, OperationKept, ZenonT(60) DEF FailBlockData, OperationInv
    <2> QED
        BY Zenon, <1>2, <2>1, <2>3, MarkStep DEF FailBlockData
<1>3. ASSUME FlushLinked
      PROVE  ChainInv'
    <2>1. /\ UNCHANGED <<known, data, linked, unlinked, candidates, tip, cachedTips>>
          /\ FlushBlockIndex(modified)
        BY Zenon, <1>3 DEF FlushLinked, statusVars, linkVars, tipVars
    <2>2. /\ pos' = 1
          /\ pc' = "accept"
          /\ UNCHANGED <<op, node, target, linkedNodes>>
        BY <1>3, Zenon DEF FlushLinked
    <2>3. Complete' = Complete
        BY <2>1, Zenon DEF Complete
    <2>4. OperationInv'
        BY <2>1, <2>2, <2>3 DEF OperationInv
    <2> QED
        BY Zenon, <2>1, <2>4, FlushStep DEF IndexInv
<1>4. ASSUME AcceptBlock
      PROVE  ChainInv'
    <2> DEFINE n == linkedNodes[pos]
    <2>1. n \in Complete
        <3>1. pos <= Len(linkedNodes) /\ pos \in Nat \ {0} /\ linkedNodes \in Seq(Complete)
            BY <1>4, Zenon DEF AcceptBlock, OperationInv
        <3> QED
            BY <3>1, SeqElement, Zenon
    <2>2. n \in known
        BY <2>1, TreeFacts, ZenonT(60) DEF Complete, IndexInv
    <2>3. /\ UNCHANGED <<tip, disk, op, node, target, linkedNodes>>
          /\ pos' \in {pos, pos + 1}
          /\ pc' # "data"
        BY Zenon, <1>4 DEF AcceptBlock
    <2>4. CASE UNCHANGED indexVars
        <3>1. OperationInv'
            BY <2>3, <2>4 DEF OperationInv, Complete, indexVars, statusVars
        <3> QED
            BY <2>3, <2>4, <3>1, ControlStep, ZenonT(60)
    <2>5. CASE MarkBlockFailedValidation(n) /\ modified' = modified \cup MarkTouches(n)
        <3>1. UNCHANGED <<known, data>>
            BY Zenon, <2>5 DEF MarkBlockFailedValidation
        <3>2. OperationInv'
            BY <2>3, <3>1 DEF OperationInv, Complete
        <3> HIDE DEF n
        <3> QED
            BY <2>2, <2>3, <2>5, <3>2, MarkStep, ZenonT(60)
    <2> QED
        BY <1>4, <2>4, <2>5, Zenon DEF AcceptBlock
<1>5. ASSUME SelectTarget \/ Retarget
      PROVE  ChainInv'
    <2>1. UNCHANGED <<indexVars, tip, disk, op, node, linkedNodes, pos>>
        BY Zenon, <1>5 DEF SelectTarget, Retarget, Goto, opVars
    <2>2. pc' # "data" /\ target' \in {target, FindBestChainCandidate}
        BY Zenon, <1>5 DEF SelectTarget, Retarget, Goto, opVars
    <2>3. FindBestChainCandidate \in Complete \cup {NoBlock}
        BY BestOfFacts, Zenon DEF FindBestChainCandidate, IndexInv
    <2>4. OperationInv'
        BY <2>1, <2>2, <2>3, Zenon DEF OperationInv, Complete, indexVars, statusVars
    <2> QED
        BY Zenon, <2>1, <2>4, ControlStep
<1>6. ASSUME ValidateBlock
      PROVE  ChainInv'
    <2>1. NextBlock \in known
        BY <1>6, NextBlockFacts, Zenon DEF ValidateBlock
    <2>2. /\ UNCHANGED <<known, data, linked, unlinked, candidates, cachedTips,
                         tip, disk, pc, opVars>>
          /\ modified' = modified \cup {NextBlock}
        BY <1>6, ZenonT(60) DEF ValidateBlock, linkVars, tipVars
    <2>3. IndexInv'
        BY Zenon, <2>1, <2>2, IndexKept DEF IndexInv
    <2>4. DiskInv'
        BY Zenon, <2>2, DiskKept
    <2>5. OperationInv'
        BY Zenon, <2>2, OperationKept DEF OperationInv
    <2> QED
        BY Zenon, <2>3, <2>4, <2>5
<1>7. ASSUME ConnectFails
      PROVE  ChainInv'
    <2>1. NextBlock \in known
        BY Zenon, <1>7, NextBlockFacts DEF ConnectFails
    <2>2. UNCHANGED <<tip, disk, opVars>> /\ pc' = "failed"
        BY Zenon, <1>7 DEF ConnectFails, Goto
    <2>3. CASE UNCHANGED indexVars
        <3>1. OperationInv'
            BY Zenon, <2>2, <2>3, OperationKept DEF OperationInv, indexVars, statusVars
        <3> QED
            BY <2>2, <2>3, <3>1, ControlStep, ZenonT(60)
    <2>4. CASE /\ MarkBlockFailedValidation(NextBlock)
               /\ modified' = modified \cup MarkTouches(NextBlock)
        <3>1. UNCHANGED <<known, data>>
            BY Zenon, <2>4 DEF MarkBlockFailedValidation
        <3>2. OperationInv'
            BY <2>2, <3>1, OperationKept, ZenonT(60) DEF OperationInv
        <3> QED
            BY <2>1, <2>2, <2>4, <3>2, MarkStep, ZenonT(60)
    <2> QED
        BY <1>7, <2>3, <2>4, ZenonT(60) DEF ConnectFails
<1>8. ASSUME ReturnAndFlush \/ ReturnToReconsider
      PROVE  ChainInv'
    <2>1. /\ UNCHANGED <<known, data, linked, unlinked, candidates, tip>>
          /\ cachedTips' \subseteq cachedTips
          /\ FlushBlockIndex(modified)
          /\ Idle
        BY Zenon, <1>8, PruneDrops
        DEF ReturnAndFlush, ReturnToReconsider, statusVars, linkVars, tipVars
    <2>2. OperationInv'
        BY Zenon, <2>1, OperationKept DEF OperationInv
    <2> QED
        BY Zenon, <2>1, <2>2, FlushStep DEF IndexInv
<1>9. ASSUME ReturnToInvalidate
      PROVE  ChainInv'
    <2>1. node \in known /\ MarkBlockFailedValidation(node)
        BY <1>9, Zenon DEF ReturnToInvalidate, OperationInv
    <2>2. UNCHANGED <<known, data>>
        BY <2>1, ZenonT(60) DEF MarkBlockFailedValidation
    <2>3. OperationInv'
        BY Zenon, <1>9, <2>1, <2>2 DEF ReturnToInvalidate, OperationInv, Complete
    <2> QED
        BY Zenon, <1>9, <2>1, <2>3, MarkStep DEF ReturnToInvalidate
<1>10. ASSUME RepopulateCandidates
       PROVE  ChainInv'
    <2>1. /\ UNCHANGED <<known, data, linked, unlinked, modified, cachedTips,
                         tip, disk, opVars>>
          /\ pc' # "data"
          /\ candidates' = RepopulatedCandidates(tip)
        BY Zenon, <1>10 DEF RepopulateCandidates, Goto, statusVars, tipVars
    <2>2. CanValidate \subseteq Complete
        <3> SUFFICES ASSUME NEW b \in CanValidate PROVE b \in Complete
            OBVIOUS
        <3>1. b \in Blocks /\ b \in data /\ Ancestors[b] \ {b} \subseteq data
            BY Zenon DEF CanValidate, IndexInv
        <3> QED
            BY Zenon, <3>1 DEF Complete
    <2>3. RepopulatedCandidates(tip) \subseteq candidates \cup {tip} \cup CanValidate
        BY Zenon DEF RepopulatedCandidates, FirstUsable, Highest
    <2>4. candidates' \subseteq Complete
        BY <2>1, <2>2, <2>3, ZenonT(60) DEF IndexInv, OperationInv
    <2>5. IndexInv'
        BY Zenon, <2>1, <2>4, IndexKept DEF IndexInv
    <2>6. DiskInv'
        BY <2>1, DiskKept, ZenonT(60)
    <2>7. OperationInv'
        BY Zenon, <2>1, OperationKept DEF OperationInv
    <2> QED
        BY Zenon, <2>5, <2>6, <2>7
<1> QED
    BY <1>1, <1>2, <1>3, <1>4, <1>5, <1>6, <1>7, <1>8, <1>9, <1>10,
       AcceptBlockDataStep, LinkBlockDataStep, DisconnectBlockStep, ConnectBlockStep,
       ZenonT(60)
    DEF Step

-----------------------------------------------------------------------------
\* The operations the environment starts.

\* ProcessBlockHeader adds a header whose parent is known.
LEMMA ProcessBlockHeaderStep ==
    ASSUME ChainInv, NEW b \in Blocks, ProcessBlockHeader(b)
    PROVE  ChainInv'
<1> USE DEF ChainInv
<1>1. UNCHANGED <<tip, pc, opVars>> /\ tip \in Complete
    BY Zenon DEF ProcessBlockHeader, OperationInv
<1>2. CASE HeaderAcceptable(b) /\ AddNode(b) /\ FlushBlockIndex(modified \cup {b})
    <2>1. modified' = {}
        BY Zenon, <1>2 DEF FlushBlockIndex, FlushAndPutBestState
    <2>2. IndexInv' /\ known' = known \cup {b} /\ data' = data
        BY <1>2, <2>1, HeaderAdded, Zenon
    <2>3. disk.tip = tip /\ Ancestors[tip] \subseteq data /\ modified \subseteq known
        BY Zenon DEF DiskInv, IndexInv
    <2>4. DiskInv'
        BY <1>1, <1>2, <2>2, <2>3, DiskWritten, ZenonT(60) DEF FlushBlockIndex
    <2>5. OperationInv'
        BY <1>1, <2>2, OperationKept, ZenonT(60)
    <2> QED
        BY Zenon, <2>2, <2>4, <2>5
<1>3. CASE /\ UNCHANGED <<known, statusVars, linkVars, bestVars, tipVars>>
           /\ FlushBlockIndex(modified)
    <2>1. UNCHANGED <<known, data, linked, unlinked, candidates, cachedTips>>
        BY Zenon, <1>3 DEF statusVars, linkVars, tipVars
    <2>2. OperationInv'
        BY Zenon, <1>1, <2>1, OperationKept
    <2> QED
        BY <1>1, <1>3, <2>1, <2>2, FlushStep, ZenonT(60) DEF IndexInv
<1> QED
    BY Zenon, <1>2, <1>3 DEF ProcessBlockHeader

\* ProcessBlock, up to the point where the data is stored.
LEMMA ProcessBlockStep ==
    ASSUME ChainInv, NEW b \in Blocks, ProcessBlock(b)
    PROVE  ChainInv'
<1> USE DEF ChainInv
<1>1. /\ UNCHANGED <<tip, disk, linkedNodes, pos>>
      /\ op' = "block" /\ node' = b /\ pc' = "data" /\ target' = NoBlock
    BY Zenon DEF ProcessBlock, Start
<1>2. CASE HeaderAcceptable(b) /\ AddNode(b) /\ modified' = modified \cup {b}
    <2>1. IndexInv' /\ known' = known \cup {b} /\ data' = data
        BY <1>2, HeaderAdded, Zenon DEF IndexInv
    <2>2. DiskInv'
        BY <1>1, <1>2, <2>1, DiskKept, ZenonT(60)
    <2>3. OperationInv'
        BY Zenon, <1>1, <2>1 DEF OperationInv, Complete
    <2> QED
        BY Zenon, <2>1, <2>2, <2>3
<1>3. CASE b \in known /\ UNCHANGED indexVars
    <2>1. OperationInv'
        BY <1>1, <1>3, ZenonT(60) DEF OperationInv, Complete, indexVars, statusVars
    <2> QED
        BY <1>1, <1>3, <2>1, ControlStep, ZenonT(60)
<1> QED
    BY Zenon, <1>2, <1>3 DEF ProcessBlock

\* A sibling of the tip with data is complete because the tip is.
LEMMA ForceHeadReorganizationStep ==
    ASSUME ChainInv, NEW b \in Blocks, ForceHeadReorganization(b)
    PROVE  ChainInv'
<1>1. tip \in Blocks /\ Ancestors[tip] \subseteq data
    BY Zenon DEF ChainInv, OperationInv, Complete
<1>2. b # tip /\ Parent[b] = Parent[tip] /\ b \in data /\ b \in known
    BY Zenon DEF ForceHeadReorganization
<1>3. b # Genesis /\ tip # Genesis
    BY <1>1, <1>2, GenesisAssumption, TreeAssumption, ZenonT(60)
<1>4. Ancestors[b] \subseteq Ancestors[tip] \cup {b}
    BY <1>1, <1>2, <1>3, TreeFacts, ZenonT(60)
<1>5. b \in Complete
    BY Zenon, <1>1, <1>2, <1>4 DEF Complete
<1>6. /\ UNCHANGED <<indexVars, tip, disk, linkedNodes, pos>>
      /\ op' = "force" /\ node' = b /\ pc' = "reorg" /\ target' = b
    BY ZenonT(60) DEF ForceHeadReorganization, Start
<1>7. OperationInv'
    BY Zenon, <1>2, <1>5, <1>6 DEF ChainInv, OperationInv, Complete, indexVars, statusVars
<1> QED
    BY <1>6, <1>7, ControlStep, ZenonT(60)

\* InvalidateBlock on a block outside the best chain only marks blocks.
LEMMA InvalidateSideBlockStep ==
    ASSUME ChainInv, NEW b \in Blocks, InvalidateSideBlock(b)
    PROVE  ChainInv'
<1> USE DEF ChainInv
<1>1. /\ b \in known
      /\ MarkBlockFailedValidation(b)
      /\ FlushBlockIndex(modified \cup MarkTouches(b))
      /\ UNCHANGED <<tip, pc, opVars>>
    BY Zenon DEF InvalidateSideBlock
<1>2. modified' = {}
    BY <1>1, Zenon DEF FlushBlockIndex, FlushAndPutBestState
<1>3. IndexInv' /\ UNCHANGED <<known, data>> /\ MarkTouches(b) \subseteq known
    BY <1>1, <1>2, MarkFacts, IndexKept, ZenonT(60) DEF IndexInv
<1>4. disk.tip = tip /\ Ancestors[tip] \subseteq data /\ modified \subseteq known
    BY Zenon DEF DiskInv, IndexInv
<1>5. DiskInv'
    BY <1>1, <1>3, <1>4, DiskWritten, ZenonT(60) DEF FlushBlockIndex
<1>6. OperationInv'
    BY Zenon, <1>1, <1>3, OperationKept DEF OperationInv
<1> QED
    BY Zenon, <1>3, <1>5, <1>6

\* The parent of a block of the best chain is complete.
LEMMA InvalidateMainBlockStep ==
    ASSUME ChainInv, NEW b \in Blocks, InvalidateMainBlock(b)
    PROVE  ChainInv'
<1>1. tip \in Blocks /\ Ancestors[tip] \subseteq data
    BY Zenon DEF ChainInv, OperationInv, Complete
<1>2. b \in Ancestors[tip] /\ b # Genesis /\ b \in known
    BY Zenon DEF InvalidateMainBlock, IsAncestorOf
<1>3. Parent[b] \in Blocks /\ Ancestors[Parent[b]] \subseteq Ancestors[tip]
    BY <1>1, <1>2, TreeFacts, PathAssumption, TreeAssumption, ZenonT(60)
<1>4. Parent[b] \in Complete
    BY <1>1, <1>3, Zenon DEF Complete
<1>5. /\ UNCHANGED <<indexVars, tip, disk, linkedNodes, pos>>
      /\ op' = "invalidate" /\ node' = b /\ pc' = "reorg" /\ target' = Parent[b]
    BY ZenonT(60) DEF InvalidateMainBlock, Start
<1>6. OperationInv'
    BY Zenon, <1>2, <1>4, <1>5 DEF ChainInv, OperationInv, Complete, indexVars, statusVars
<1> QED
    BY <1>5, <1>6, ControlStep, ZenonT(60)

\* What ReconsiderBlock touches is known, and what it makes a candidate can be
\* validated.
LEMMA ReconsiderBlockStep ==
    ASSUME ChainInv, NEW b \in Blocks, ReconsiderBlock(b)
    PROVE  ChainInv'
<1>1. b \in known /\ ReconsiderStatuses(b, tip)
    BY ZenonT(60) DEF ReconsiderBlock
<1>2. ReconsideredPath(b) \subseteq known
    BY Zenon, <1>1 DEF ChainInv, IndexInv, ReconsideredPath
<1>3. EarliestFailed(b) \subseteq known
    BY Zenon, <1>1, <1>2 DEF EarliestFailed
<1>4. \A v \in EarliestFailed(b) : Between(v, DescendantTips(v)) \subseteq known
    BY Zenon, <1>3, BetweenKnown DEF ChainInv
<1>5. ReconsideredDescendants(b) \subseteq known
    BY Zenon, <1>4 DEF ReconsideredDescendants, AboveEarliest
<1>6. CanValidate \subseteq Complete
    <2> SUFFICES ASSUME NEW c \in CanValidate
                 PROVE  c \in Complete
        OBVIOUS
    <2>1. c \in Blocks /\ c \in data /\ Ancestors[c] \ {c} \subseteq data
        BY Zenon DEF CanValidate, ChainInv, IndexInv
    <2> QED
        BY Zenon, <2>1 DEF Complete
<1>7. candidates' \subseteq Complete /\ modified' \subseteq known
      /\ unlinked' \subseteq data /\ UNCHANGED <<known, data, linked, cachedTips>>
    <2>1. candidates' \subseteq candidates \cup CanValidate
        BY <1>1, Zenon DEF ReconsiderStatuses
    <2>2. modified' \subseteq modified \cup ReconsideredPath(b)
                                 \cup ReconsideredDescendants(b)
        BY <1>1, Zenon DEF ReconsiderStatuses
    <2>3. unlinked' \subseteq unlinked \cup data
        BY <1>1, Zenon DEF ReconsiderStatuses
    <2>4. UNCHANGED <<known, data, linked, cachedTips>>
        BY <1>1, Zenon DEF ReconsiderStatuses, tipVars
    <2> QED
        BY <1>2, <1>5, <1>6, <2>1, <2>2, <2>3, <2>4, ZenonT(60) DEF ChainInv, IndexInv
<1>8. IndexInv'
    BY <1>7, IndexKept, ZenonT(60) DEF ChainInv, IndexInv
<1>9. modified \subseteq modified'
    BY Zenon, <1>1 DEF ReconsiderStatuses
<1>10. /\ UNCHANGED <<tip, disk, linkedNodes, pos>>
       /\ op' = "reconsider" /\ node' = b /\ pc' = "select" /\ target' = NoBlock
    BY Zenon DEF ReconsiderBlock, Start
<1>11. DiskInv'
    BY <1>7, <1>9, <1>10, ZenonT(60) DEF ChainInv, DiskInv
<1>12. OperationInv'
    BY Zenon, <1>1, <1>7, <1>10 DEF ChainInv, OperationInv, Complete
<1> QED
    BY Zenon, <1>8, <1>11, <1>12 DEF ChainInv

\* Every operation that is called while the chain is idle.
LEMMA BeginKeeps ==
    ASSUME ChainInv, Begin
    PROVE  ChainInv'
BY ProcessBlockHeaderStep, ProcessBlockStep, ForceHeadReorganizationStep,
   InvalidateSideBlockStep, InvalidateMainBlockStep, ReconsiderBlockStep, ZenonT(60)
   DEF Begin

-----------------------------------------------------------------------------
\* Starting again.

\* What a crash leaves behind is closed under ancestors and holds the data of
\* the best chain.
LEMMA StoredFacts ==
    ASSUME ChainInv, NEW d \in Stored
    PROVE  /\ d.known \subseteq Blocks
           /\ Genesis \in d.known
           /\ \A b \in d.known : Ancestors[b] \subseteq d.known
           /\ d.data \subseteq d.known
           /\ d.tip = tip
           /\ tip \in Blocks
           /\ Ancestors[tip] \subseteq d.data
<1>1. tip \in Blocks /\ Ancestors[tip] \subseteq data
    BY Zenon DEF ChainInv, OperationInv, Complete
<1>2. CASE d = disk
    BY <1>1, <1>2, Zenon DEF ChainInv, DiskInv, IndexInv
<1>3. CASE d = Written(modified, disk.tip, data, validated, failed, invalidAnc)
    <2>1. /\ d.known = disk.known \cup modified
          /\ d.data = (disk.data \ modified) \cup (data \cap modified)
          /\ d.tip = disk.tip
        BY <1>3, Zenon DEF Written
    <2>2. d.known = known /\ d.data = data /\ d.tip = tip
        BY <2>1, ZenonT(60) DEF ChainInv, DiskInv, IndexInv
    <2> QED
        BY <1>1, <2>2, Zenon DEF ChainInv, IndexInv
<1> QED
    BY <1>2, <1>3, ZenonT(60) DEF Stored

\* initChainState after the process has died at any point: what is loaded
\* satisfies the invariant because what is stored satisfies DiskInv.
LEMMA RestartKeeps ==
    ASSUME ChainInv, Restart
    PROVE  ChainInv' /\ tip' = tip
<1>1. PICK d \in Stored : \E u : LoadChainState(d, u)
    BY Zenon DEF Restart
<1>2. PICK u : LoadChainState(d, u)
    BY <1>1, Zenon
<1> DEFINE leaves == {b \in d.known : Children(b) \cap d.known = {}}
<1>3. /\ known' = d.known
      /\ data' = d.data
      /\ linked' = {b \in d.known : Ancestors[b] \ {b} \subseteq d.data}
      /\ candidates' = {d.tip}
      /\ unlinked' = LoadedUnlinked(d, (d.failed \ u) \cup (d.invalidAnc \ u))
      /\ modified' = {}
      /\ cachedTips' = PrunedTips(leaves, d.tip)
      /\ tip' = d.tip
      /\ disk' = d
    BY <1>2, Zenon DEF LoadChainState
<1>4. /\ d.known \subseteq Blocks
      /\ Genesis \in d.known
      /\ \A b \in d.known : Ancestors[b] \subseteq d.known
      /\ d.data \subseteq d.known
      /\ d.tip = tip
      /\ tip \in Blocks
      /\ Ancestors[tip] \subseteq d.data
    BY StoredFacts, Zenon
<1>5. cachedTips' \subseteq d.known /\ unlinked' \subseteq d.data
    BY <1>3, PruneDrops, Zenon DEF LoadedUnlinked
<1>6. tip' \in Complete' /\ candidates' \subseteq Complete'
    BY <1>3, <1>4, Zenon DEF Complete
<1>7. IndexInv'
    BY <1>3, <1>4, <1>5, <1>6, ZenonT(60) DEF IndexInv
<1>8. DiskInv'
    BY Zenon, <1>3, <1>4 DEF DiskInv
<1>9. OperationInv'
    BY <1>6 DEF Restart, Idle, OperationInv
<1> QED
    BY Zenon, <1>3, <1>4, <1>7, <1>8, <1>9 DEF ChainInv

-----------------------------------------------------------------------------
\* The invariant holds.

\* A new chain, with nothing but the genesis block.
LEMMA ChainInit ==
    ASSUME Init
    PROVE  ChainInv
<1>1. Ancestors[Genesis] = {Genesis} /\ Genesis \in Blocks
    BY AncestorAssumption, GenesisAssumption, Zenon
<1>2. Complete = {b \in Blocks : Ancestors[b] \subseteq {Genesis}} /\ Genesis \in Complete
    BY <1>1, ZenonT(60) DEF Init, IndexInit, Complete
<1>3. IndexInv
    BY <1>1, <1>2, ZenonT(60) DEF Init, IndexInit, IndexInv
<1>4. OperationInv
    <2>1. /\ tip = Genesis /\ pc = "idle" /\ op = "none" /\ pos = 1
          /\ node = NoBlock /\ target = NoBlock /\ linkedNodes = << >>
        BY Zenon DEF Init, NoOperation
    <2>2. linkedNodes \in Seq(Complete)
        BY <2>1, EmptySeq, Zenon
    <2> QED
        BY <1>2, <2>1, <2>2 DEF OperationInv
<1>5. DiskInv
    BY <1>1, Zenon DEF Init, IndexInit, DiskInv
<1> QED
    BY Zenon, <1>3, <1>4, <1>5 DEF ChainInv

\* Every step of the specification keeps the inductive invariant.
LEMMA ChainNext ==
    ASSUME ChainInv, [Next]_vars
    PROVE  ChainInv'
<1>1. CASE Next
    BY <1>1, BeginKeeps, StepKeeps, RestartKeeps, ZenonT(60) DEF Next
<1>2. CASE UNCHANGED vars
    <2>1. UNCHANGED <<known, data, linked, unlinked, candidates, modified,
                      cachedTips, tip, disk, pc, op, node, target, linkedNodes, pos>>
        BY Zenon, <1>2 DEF vars, indexVars, statusVars, linkVars, tipVars, opVars
    <2> QED
        BY Zenon, <2>1 DEF ChainInv, IndexInv, OperationInv, DiskInv, Complete
<1> QED
    BY Zenon, <1>1, <1>2

\* The inductive invariant holds in every reachable state.
LEMMA ChainInvAlways == Spec => []ChainInv
BY ChainInit, ChainNext, PTL DEF Spec

\* reorganizeChain never leaves a block without data in the best chain:
\* whatever the tree, the verdicts, the order of arrival, the operator's
\* requests and the crashes.
THEOREM BestChainHasDataAlways == Spec => []BestChainHasData
<1>1. ChainInv => BestChainHasData
    BY Zenon DEF ChainInv, OperationInv, Complete, BestChainHasData
<1> QED
    BY <1>1, ChainInvAlways, PTL

\* Whatever connectBlock, disconnectBlock and the flushes of the block index
\* have written when the process dies, initChainState finds the parent of
\* every header, the best block and the data of the whole best chain.
THEOREM RestartableAlways == Spec => []Restartable
<1>1. ChainInv => Restartable
    <2> SUFFICES ASSUME ChainInv
                 PROVE  Restartable
        BY ZenonT(60)
    <2>1. \A b \in disk.known \ {Genesis} : Parent[b] \in disk.known
        BY TreeFacts, ZenonT(60) DEF ChainInv, DiskInv, IndexInv
    <2>2. Ancestors[disk.tip] \subseteq disk.known \cap disk.data
        BY Zenon DEF ChainInv, DiskInv
    <2> QED
        BY Zenon, <2>1, <2>2 DEF Restartable
<1> QED
    BY <1>1, ChainInvAlways, PTL

\* reorganizeChainInternal moves the best chain one block at a time and
\* initChainState finds it where it was.
THEOREM TipMovesByOneBlockAlways == Spec => TipMovesByOneBlock
<1> DEFINE Moves == tip' # tip => tip' = Parent[tip] \/ tip = Parent[tip']
<1>1. ChainInv /\ [Next]_vars => [Moves]_vars
    <2> SUFFICES ASSUME ChainInv, Next
                 PROVE  Moves
        BY Zenon
    <2>1. CASE Begin
        BY <2>1, Zenon DEF Begin, ProcessBlockHeader, ProcessBlock,
           ForceHeadReorganization, InvalidateSideBlock, InvalidateMainBlock,
           ReconsiderBlock
    <2>2. CASE Step
        <3>1. CASE DisconnectBlock
            BY Zenon, <3>1, DisconnectBlockStep
        <3>2. CASE ConnectBlock
            BY Zenon, <3>2, ConnectBlockStep
        <3> QED
            BY <2>2, <3>1, <3>2, ZenonT(60) DEF Step, RejectBlockData, FailBlockData,
               AcceptBlockData, LinkBlockData, FlushLinked, AcceptBlock,
               AcceptDone, SelectTarget, ReorgDone, ValidateBlock,
               ConnectFails, Retarget, ReturnToProcessBlock, Announce,
               ReturnAndFlush, ReturnToReconsider, ReturnToInvalidate,
               RepopulateCandidates
    <2>3. CASE Restart
        BY Zenon, <2>3, RestartKeeps
    <2> QED
        BY Zenon, <2>1, <2>2, <2>3 DEF Next
<1> QED
    BY <1>1, ChainInvAlways, PTL DEF Spec, TipMovesByOneBlock
-----------------------------------------------------------------------------
\* What statusValidated and the best chain stand for.

Checked(b) == verdict[b] = "ok" \/ Excused(b)

\* The inductive invariant: a block that is marked as validated, in memory or in
\* the database, or part of the best chain has been checked, and one whose
\* context has been checked can only fail to connect.
CheckedInv ==
    /\ \A b \in Ancestors[tip] \cup validated \cup disk.validated : Checked(b)
    /\ \A b \in contextChecked : verdict[b] = "connect" \/ Checked(b)
    /\ fastAdd => AssumeValid # NoBlock

\* A block that passes checkBlockContext, now or earlier.
LEMMA ContextPassed ==
    ASSUME CheckedInv, NEW b, ContextOK(b, fastAdd) \/ ContextOK(b, FALSE)
    PROVE  verdict[b] = "connect" \/ Checked(b)
BY Zenon DEF CheckedInv, ContextOK, Checked, Excused

\* A flush writes statusValidated as it is in memory.
LEMMA WrittenValidated ==
    ASSUME NEW M, NEW best, FlushAndPutBestState(M, best)
    PROVE  disk'.validated \subseteq disk.validated \cup validated'
<1>1. disk'.validated = (disk.validated \ M) \cup (validated' \cap M)
    BY Zenon DEF FlushAndPutBestState, Written
<1> QED
    BY Zenon, <1>1

\* A step that marks nothing as validated, and writes to the database, if at all,
\* the flags as it leaves them.
LEMMA CheckedKept ==
    ASSUME CheckedInv, verdict' = verdict, tip' = tip,
           fastAdd' \in {fastAdd, FALSE}, validated' \subseteq validated,
           contextChecked' \subseteq contextChecked,
           \/ disk' = disk
           \/ \E M, best : FlushAndPutBestState(M, best)
    PROVE  CheckedInv'
<1>1. disk'.validated \subseteq disk.validated \cup validated'
    BY WrittenValidated, Zenon
<1>2. fastAdd' => AssumeValid # NoBlock
    BY Zenon DEF CheckedInv
<1>3. \A b : Checked(b)' <=> Checked(b)
    BY Zenon DEF Checked, Excused
<1> QED
    BY <1>1, <1>2, <1>3, Zenon DEF CheckedInv

\* maybeAcceptBlockData marks a block as validated only below the assume valid
\* block.
LEMMA DataChecked ==
    ASSUME ChainInv, CheckedInv, AcceptBlockData
    PROVE  CheckedInv'
<1>1. /\ UNCHANGED <<verdict, tip, contextChecked>>
      /\ fastAdd' = AssumedValidAt(node)
      /\ validated' = IF AssumedValidAt(node) THEN validated \cup {node} ELSE validated
      /\ disk' = disk \/ FlushBlockIndex(modified \cup {node})
    BY Zenon DEF AcceptBlockData
<1>2. AssumedValidAt(node) => AssumeValid # NoBlock /\ IsAncestorOf(node, AssumeValid)
    BY GenesisAssumption, Zenon DEF AssumedValidAt, ChainInv, IndexInv
<1>3. \A b : Checked(b)' <=> Checked(b)
    BY <1>1, Zenon DEF Checked, Excused
<1>4. AssumedValidAt(node) => Checked(node)
    BY <1>2, Zenon DEF Checked, Excused
<1>5. \A b \in validated' : Checked(b)
    BY Zenon, <1>1, <1>4 DEF CheckedInv
<1>6. disk'.validated \subseteq disk.validated \cup validated'
    BY <1>1, WrittenValidated, Zenon DEF FlushBlockIndex
<1> QED
    BY <1>1, <1>2, <1>3, <1>5, <1>6, Zenon DEF CheckedInv

\* The context of a block is remembered once it has been checked.
LEMMA ContextChecked ==
    ASSUME CheckedInv, NEW b, verdict[b] = "connect" \/ Checked(b),
           UNCHANGED <<verdict, tip, disk, fastAdd>>,
           contextChecked' = contextChecked \cup {b},
           \A v \in validated' : v \in validated \/ Checked(v)
    PROVE  CheckedInv'
BY Zenon DEF CheckedInv, Checked, Excused

\* The best chain grows by a block that is marked as validated, or shrinks.
LEMMA TipChecked ==
    ASSUME ChainInv, CheckedInv, DisconnectBlock \/ ConnectBlock
    PROVE  CheckedInv'
<1>1. /\ UNCHANGED <<verdict, validated, contextChecked, fastAdd>>
      /\ disk'.validated \subseteq disk.validated \cup validated'
    <2>1. /\ UNCHANGED <<verdict, validated, contextChecked, fastAdd>>
          /\ \E M, best : FlushAndPutBestState(M, best)
        BY Zenon DEF DisconnectBlock, ConnectBlock, statusVars, opVars
    <2> QED
        BY Zenon, <2>1, WrittenValidated
<1>2. \A b \in Ancestors[tip'] : b \in Ancestors[tip] \/ b \in validated
    <2>1. CASE DisconnectBlock
        <3>1. tip \in Blocks /\ target \in Blocks /\ ~IsAncestorOf(tip, target)
            BY Zenon, <2>1 DEF DisconnectBlock, Reorganizing, AtFork, ChainInv,
                        OperationInv, Complete
        <3>2. tip # Genesis
            BY Zenon, <3>1, PathAssumption DEF IsAncestorOf
        <3> QED
            BY Zenon, <2>1, <3>1, <3>2, TreeFacts DEF DisconnectBlock
    <2>2. CASE ConnectBlock
        <3>1. /\ NextBlock \in Blocks /\ Parent[NextBlock] = tip /\ tip \in Blocks
              /\ NextBlock \in validated /\ tip' = NextBlock
            BY Zenon, <2>2, NextBlockFacts
            DEF ConnectBlock, Complete, ChainInv, OperationInv
        <3>2. NextBlock # Genesis
            BY Zenon, <3>1, GenesisAssumption
        <3> QED
            BY <3>1, <3>2, TreeFacts
    <2> QED
        BY <2>1, <2>2, Zenon
<1>3. \A b : Checked(b)' <=> Checked(b)
    BY <1>1, Zenon DEF Checked, Excused
<1> QED
    BY <1>1, <1>2, <1>3, Zenon DEF CheckedInv

\* What a start finds marked as validated has been marked before.
LEMMA RestartChecked ==
    ASSUME ChainInv, CheckedInv, Restart
    PROVE  CheckedInv'
<1>1. PICK d \in Stored : \E u : LoadChainState(d, u)
    BY Zenon DEF Restart
<1>2. validated' = d.validated /\ disk' = d /\ contextChecked' = {}
    BY <1>1, Zenon DEF LoadChainState
<1>3. d.validated \subseteq disk.validated \cup validated
    <2>1. d = disk \/ d = Written(modified, disk.tip, data, validated, failed, invalidAnc)
        BY Zenon DEF Stored
    <2> QED
        BY <2>1 DEF Written
<1>4. tip' = tip /\ verdict' = verdict /\ fastAdd' = FALSE
    BY RestartKeeps, Zenon DEF Restart, Idle
<1> QED
    BY Zenon, <1>2, <1>3, <1>4 DEF CheckedInv, Checked, Excused

\* Marking a block as failed takes statusValidated away.
LEMMA MarkUnvalidates ==
    ASSUME NEW n, MarkBlockFailedValidation(n)
    PROVE  validated' \subseteq validated
BY Zenon DEF MarkBlockFailedValidation

LEMMA BeginChecked ==
    ASSUME CheckedInv, Begin
    PROVE  CheckedInv'
<1>1. /\ UNCHANGED <<verdict, tip, fastAdd>>
      /\ contextChecked' \subseteq contextChecked
    BY Zenon
    DEF Begin, ProcessBlockHeader, ProcessBlock, ForceHeadReorganization,
        InvalidateSideBlock, InvalidateMainBlock, ReconsiderBlock, Start, opVars
<1>2. validated' \subseteq validated
    BY MarkUnvalidates, Zenon
    DEF Begin, ProcessBlockHeader, ProcessBlock, ForceHeadReorganization,
        InvalidateSideBlock, InvalidateMainBlock, ReconsiderBlock,
        ReconsiderStatuses, AddNode, indexVars, statusVars
<1>3. disk' = disk \/ \E M, best : FlushAndPutBestState(M, best)
    BY Zenon
    DEF Begin, ProcessBlockHeader, ProcessBlock, ForceHeadReorganization,
        InvalidateSideBlock, InvalidateMainBlock, ReconsiderBlock, FlushBlockIndex
<1> QED
    BY <1>1, <1>2, <1>3, CheckedKept, Zenon

LEMMA StepChecked ==
    ASSUME ChainInv, CheckedInv, Step
    PROVE  CheckedInv'
<1>1. ASSUME \/ RejectBlockData \/ LinkBlockData \/ AcceptDone \/ SelectTarget
             \/ ReorgDone \/ Retarget \/ ReturnToProcessBlock \/ Announce
             \/ RepopulateCandidates
      PROVE  CheckedInv'
    <2>1. UNCHANGED <<verdict, tip, contextChecked, disk, validated>>
        BY <1>1, Zenon
        DEF RejectBlockData, LinkBlockData, AcceptDone, SelectTarget, ReorgDone,
            Retarget, ReturnToProcessBlock, Announce, RepopulateCandidates,
            LinkNode, indexVars, statusVars
    <2>2. fastAdd' \in {fastAdd, FALSE}
        BY <1>1, Zenon
        DEF RejectBlockData, LinkBlockData, AcceptDone, SelectTarget, ReorgDone,
            Retarget, ReturnToProcessBlock, Announce, RepopulateCandidates, Idle,
            Goto, opVars
    <2> QED
        BY <2>1, <2>2, CheckedKept, Zenon
<1>2. ASSUME FlushLinked \/ ReturnAndFlush \/ ReturnToReconsider
      PROVE  CheckedInv'
    <2>1. /\ UNCHANGED <<verdict, tip, contextChecked, validated>>
          /\ fastAdd' \in {fastAdd, FALSE}
          /\ FlushAndPutBestState(modified, disk.tip)
        BY <1>2, Zenon
        DEF FlushLinked, ReturnAndFlush, ReturnToReconsider, FlushBlockIndex, Idle,
            statusVars
    <2> QED
        BY <2>1, CheckedKept, Zenon
<1>3. ASSUME FailBlockData \/ ReturnToInvalidate
      PROVE  CheckedInv'
    <2>1. /\ UNCHANGED <<verdict, tip, contextChecked, disk>>
          /\ fastAdd' \in {fastAdd, FALSE}
          /\ MarkBlockFailedValidation(node)
        BY <1>3, Zenon DEF FailBlockData, ReturnToInvalidate, Idle
    <2> QED
        BY <2>1, MarkUnvalidates, CheckedKept, Zenon
<1>4. ASSUME AcceptBlock
      PROVE  CheckedInv'
    <2> DEFINE n == linkedNodes[pos]
    <2>1. UNCHANGED <<verdict, tip, disk, fastAdd>>
        BY <1>4, Zenon DEF AcceptBlock
    <2>2. CASE /\ ContextOK(n, fastAdd) /\ contextChecked' = contextChecked \cup {n}
               /\ UNCHANGED indexVars
        <3>1. validated' = validated
            BY <2>2, Zenon DEF indexVars, statusVars
        <3>2. verdict[n] = "connect" \/ Checked(n)
            BY <2>2, ContextPassed, Zenon
        <3> HIDE DEF n
        <3> QED
            BY <2>1, <2>2, <3>1, <3>2, ContextChecked, Zenon
    <2>3. CASE /\ contextChecked' = contextChecked
               /\ UNCHANGED indexVars \/ MarkBlockFailedValidation(n)
        <3>1. validated' \subseteq validated
            BY <2>3, MarkUnvalidates, Zenon DEF indexVars, statusVars
        <3> QED
            BY <2>1, <2>3, <3>1, CheckedKept, Zenon
    <2> QED
        BY <1>4, <2>2, <2>3, Zenon DEF AcceptBlock
<1>5. ASSUME ValidateBlock
      PROVE  CheckedInv'
    <2>1. /\ UNCHANGED <<verdict, tip, disk, fastAdd>>
          /\ contextChecked' = contextChecked \cup {NextBlock}
          /\ validated' = validated \cup {NextBlock}
          /\ ContextOK(NextBlock, FALSE) /\ verdict[NextBlock] # "connect"
        BY <1>5, Zenon DEF ValidateBlock, opVars
    <2>2. Checked(NextBlock)
        BY <2>1, ContextPassed, Zenon
    <2> QED
        BY <2>1, <2>2, ContextChecked, Zenon
<1>6. ASSUME ConnectFails
      PROVE  CheckedInv'
    <2>1. UNCHANGED <<verdict, tip, disk, fastAdd>>
        BY <1>6, Zenon DEF ConnectFails, Goto, opVars
    <2>2. UNCHANGED indexVars \/ MarkBlockFailedValidation(NextBlock)
        BY <1>6, Zenon DEF ConnectFails
    <2>3. validated' \subseteq validated
        BY <2>2, MarkUnvalidates, Zenon DEF indexVars, statusVars
    <2>4. \/ contextChecked' = contextChecked
          \/ /\ ContextOK(NextBlock, FALSE)
             /\ contextChecked' = contextChecked \cup {NextBlock}
        BY <1>6, Zenon DEF ConnectFails
    <2>5. CASE contextChecked' = contextChecked
        BY <2>1, <2>3, <2>5, CheckedKept, Zenon
    <2>6. CASE /\ ContextOK(NextBlock, FALSE)
               /\ contextChecked' = contextChecked \cup {NextBlock}
        <3>1. verdict[NextBlock] = "connect" \/ Checked(NextBlock)
            BY <2>6, ContextPassed, Zenon
        <3> QED
            BY <2>1, <2>3, <2>6, <3>1, ContextChecked, Zenon
    <2> QED
        BY Zenon, <2>4, <2>5, <2>6
<1> QED
    BY <1>1, <1>2, <1>3, <1>4, <1>5, <1>6, DataChecked, TipChecked, ZenonT(60)
    DEF Step

LEMMA CheckedNext ==
    ASSUME ChainInv, CheckedInv, [Next]_vars
    PROVE  CheckedInv'
<1>1. CASE UNCHANGED vars
    <2>1. UNCHANGED <<verdict, tip, contextChecked, disk, validated, fastAdd>>
        BY <1>1, Zenon DEF vars, indexVars, statusVars, opVars
    <2> QED
        BY <2>1, CheckedKept, Zenon
<1> QED
    BY <1>1, BeginChecked, StepChecked, RestartChecked, Zenon DEF Next

LEMMA CheckedInit ==
    ASSUME Init
    PROVE  CheckedInv
<1>1. /\ tip = Genesis /\ validated = {Genesis} /\ disk.validated = {Genesis}
      /\ contextChecked = {} /\ fastAdd = FALSE /\ verdict[Genesis] = "ok"
    BY Zenon, VerdictAssumption DEF Init, IndexInit, NoOperation
<1> QED
    BY Zenon, <1>1, AncestorAssumption DEF CheckedInv, Checked

\* reorganizeChain connects no block that has not passed checkBlockContext and
\* checkConnectBlock, and no failed reorganization, forced or reconsidered block,
\* crash or start lets one slip into the best chain; an assume valid block excuses
\* its ancestors, and the checks of the votes above it.
THEOREM BestChainCheckedAlways == Spec => []BestChainChecked
<1>1. CheckedInv => BestChainChecked
    BY Zenon DEF CheckedInv, Checked, BestChainChecked
<1> QED
    BY <1>1, ChainInvAlways, CheckedInit, CheckedNext, PTL DEF Spec

\* Without an assume valid block, every block of the best chain is valid at all
\* times.
THEOREM BestChainValidAlways ==
    ASSUME AssumeValid = NoBlock
    PROVE  Spec => []BestChainValid
<1>1. BestChainChecked => BestChainValid
    BY Zenon DEF BestChainChecked, BestChainValid, Excused, GoodBranch
<1> QED
    BY <1>1, BestChainCheckedAlways, PTL
-----------------------------------------------------------------------------
\* The flags in the database.

\* An entry that is not waiting to be written has its flags in the database, but
\* for those of failures that a start with new rules has cleared.
FlagsInv ==
    \A b \in known \ modified :
        /\ b \in validated <=> b \in disk.validated
        /\ b \in failed => b \in disk.failed
        /\ b \in invalidAnc => b \in disk.invalidAnc
        /\ b \in disk.failed \ failed => b \in NewRulesBlocks
        /\ b \in disk.invalidAnc \ invalidAnc => b \in NewRulesBlocks

\* A step changes the flags of no node but those in M, and adds no other.
ChangesOnly(M) ==
    /\ known' \subseteq known \cup M
    /\ \A b \in known \ M :
          /\ b \in validated' <=> b \in validated
          /\ b \in failed' <=> b \in failed
          /\ b \in invalidAnc' <=> b \in invalidAnc

LEMMA FlagsKept ==
    ASSUME FlagsInv, ChangesOnly(modified'), modified \subseteq modified',
           disk' = disk
    PROVE  FlagsInv'
<1>1. ASSUME NEW b \in known' \ modified'
      PROVE  b \in known \ modified
    BY Zenon DEF ChangesOnly
<1> QED
    BY Zenon, <1>1 DEF FlagsInv, ChangesOnly

LEMMA FlagsWritten ==
    ASSUME FlagsInv, NEW M, NEW best, ChangesOnly(M), modified \subseteq M,
           FlushAndPutBestState(M, best)
    PROVE  FlagsInv'
<1>1. /\ modified' = {}
      /\ disk'.validated = (disk.validated \ M) \cup (validated' \cap M)
      /\ disk'.failed = (disk.failed \ M) \cup (failed' \cap M)
      /\ disk'.invalidAnc = (disk.invalidAnc \ M) \cup (invalidAnc' \cap M)
    BY Zenon DEF FlushAndPutBestState, Written
<1>2. ASSUME NEW b \in known'
      PROVE  /\ b \in validated' <=> b \in disk'.validated
             /\ b \in failed' => b \in disk'.failed
             /\ b \in invalidAnc' => b \in disk'.invalidAnc
             /\ b \in disk'.failed \ failed' => b \in NewRulesBlocks
             /\ b \in disk'.invalidAnc \ invalidAnc' => b \in NewRulesBlocks
    <2>1. CASE b \in M
        BY Zenon, <1>1, <2>1
    <2>2. CASE b \notin M
        BY Zenon, <1>1, <1>2, <2>2 DEF FlagsInv, ChangesOnly
    <2> QED
        BY Zenon, <2>1, <2>2
<1> QED
    BY Zenon, <1>1, <1>2 DEF FlagsInv

\* A step that changes no flag.
LEMMA NoFlags ==
    ASSUME UNCHANGED <<known, validated, failed, invalidAnc>>, NEW M
    PROVE  ChangesOnly(M)
BY Zenon DEF ChangesOnly

\* MarkBlockFailedValidation remembers the nodes whose flags it changes, which
\* need not include a block that had failed before.
LEMMA MarkChanges ==
    ASSUME NEW n, MarkBlockFailedValidation(n), NEW M, MarkTouches(n) \subseteq M
    PROVE  ChangesOnly(M)
<1>1. /\ known' = known
      /\ failed' = failed \cup {n}
      /\ invalidAnc' = invalidAnc \cup NewlyInvalid(n)
      /\ validated' = validated \ (NewlyInvalid(n) \cup {n})
    BY Zenon DEF MarkBlockFailedValidation, Disqualified
<1>2. NewlyInvalid(n) \subseteq M /\ (n \in M \/ n \in failed \ validated)
    BY Zenon DEF MarkTouches
<1> QED
    BY Zenon, <1>1, <1>2 DEF ChangesOnly

\* So does ReconsiderBlock.
LEMMA ReconsiderChanges ==
    ASSUME NEW n, ReconsiderStatuses(n, tip)
    PROVE  ChangesOnly(modified') /\ modified \subseteq modified'
<1>1. /\ UNCHANGED <<known, validated>>
      /\ failed' = failed \ ReconsideredPath(n)
      /\ invalidAnc' = invalidAnc \ (ReconsideredPath(n) \cup ReconsideredDescendants(n))
      /\ modified' = modified \cup (ReconsideredPath(n) \cap KnownInvalid)
                              \cup (ReconsideredDescendants(n) \cap invalidAnc)
    BY Zenon DEF ReconsiderStatuses
<1> QED
    BY Zenon, <1>1 DEF ChangesOnly, KnownInvalid

LEMMA BeginFlags ==
    ASSUME FlagsInv, Begin
    PROVE  FlagsInv'
<1>1. ASSUME NEW b \in Blocks, ProcessBlockHeader(b) PROVE FlagsInv'
    <2>1. CASE AddNode(b) /\ FlushBlockIndex(modified \cup {b})
        <3>1. ChangesOnly(modified \cup {b})
            BY Zenon, <2>1 DEF AddNode, statusVars, ChangesOnly
        <3> QED
            BY Zenon, <2>1, <3>1, FlagsWritten DEF FlushBlockIndex
    <2>2. CASE UNCHANGED <<known, statusVars>> /\ FlushBlockIndex(modified)
        BY Zenon, <2>2, NoFlags, FlagsWritten DEF FlushBlockIndex, statusVars
    <2> QED
        BY <1>1, <2>1, <2>2, Zenon DEF ProcessBlockHeader
<1>2. ASSUME NEW b \in Blocks, ProcessBlock(b) PROVE FlagsInv'
    <2>1. disk' = disk
        BY <1>2, Zenon DEF ProcessBlock
    <2>2. CASE AddNode(b) /\ modified' = modified \cup {b}
        <3>1. ChangesOnly(modified')
            BY Zenon, <2>2 DEF AddNode, statusVars, ChangesOnly
        <3> QED
            BY Zenon, <2>1, <2>2, <3>1, FlagsKept
    <2>3. CASE UNCHANGED indexVars
        BY Zenon, <2>1, <2>3, NoFlags, FlagsKept DEF indexVars, statusVars
    <2> QED
        BY <1>2, <2>2, <2>3, Zenon DEF ProcessBlock
<1>3. ASSUME NEW b \in Blocks, ForceHeadReorganization(b) \/ InvalidateMainBlock(b)
      PROVE  FlagsInv'
    <2>1. UNCHANGED <<indexVars, disk>>
        BY <1>3, Zenon DEF ForceHeadReorganization, InvalidateMainBlock
    <2> QED
        BY Zenon, <2>1, NoFlags, FlagsKept DEF indexVars, statusVars
<1>4. ASSUME NEW b \in Blocks, InvalidateSideBlock(b) PROVE FlagsInv'
    <2>1. /\ MarkBlockFailedValidation(b)
          /\ FlushBlockIndex(modified \cup MarkTouches(b))
        BY <1>4, Zenon DEF InvalidateSideBlock
    <2>2. ChangesOnly(modified \cup MarkTouches(b))
        BY Zenon, <2>1, MarkChanges
    <2> QED
        BY Zenon, <2>1, <2>2, FlagsWritten DEF FlushBlockIndex
<1>5. ASSUME NEW b \in Blocks, ReconsiderBlock(b) PROVE FlagsInv'
    <2>1. ReconsiderStatuses(b, tip) /\ disk' = disk
        BY <1>5, Zenon DEF ReconsiderBlock
    <2> QED
        BY Zenon, <2>1, ReconsiderChanges, FlagsKept
<1> QED
    BY <1>1, <1>2, <1>3, <1>4, <1>5, Zenon DEF Begin

LEMMA StepFlags ==
    ASSUME FlagsInv, Step
    PROVE  FlagsInv'
<1>1. ASSUME \/ RejectBlockData \/ LinkBlockData \/ AcceptDone \/ SelectTarget
             \/ ReorgDone \/ Retarget \/ ReturnToProcessBlock \/ Announce
             \/ RepopulateCandidates
      PROVE  FlagsInv'
    <2>1. UNCHANGED <<known, validated, failed, invalidAnc, modified, disk>>
        BY <1>1, Zenon
        DEF RejectBlockData, LinkBlockData, AcceptDone, SelectTarget, ReorgDone,
            Retarget, ReturnToProcessBlock, Announce, RepopulateCandidates,
            LinkNode, indexVars, statusVars
    <2> QED
        BY Zenon, <2>1, NoFlags, FlagsKept
<1>2. ASSUME \/ FlushLinked \/ ReturnAndFlush \/ ReturnToReconsider
             \/ DisconnectBlock \/ ConnectBlock
      PROVE  FlagsInv'
    <2>1. /\ UNCHANGED <<known, validated, failed, invalidAnc>>
          /\ \E best : FlushAndPutBestState(modified, best)
        BY <1>2, Zenon
        DEF FlushLinked, ReturnAndFlush, ReturnToReconsider, DisconnectBlock,
            ConnectBlock, FlushBlockIndex, statusVars
    <2> QED
        BY Zenon, <2>1, NoFlags, FlagsWritten
<1>3. ASSUME NEW n, MarkBlockFailedValidation(n), disk' = disk,
             modified' = modified \cup MarkTouches(n)
      PROVE  FlagsInv'
    BY Zenon, <1>3, MarkChanges, FlagsKept
<1>4. ASSUME UNCHANGED <<indexVars, disk>>
      PROVE  FlagsInv'
    <2>1. UNCHANGED <<known, validated, failed, invalidAnc, modified, disk>>
        BY <1>4, Zenon DEF indexVars, statusVars
    <2> QED
        BY Zenon, <2>1, NoFlags, FlagsKept
<1>5. ASSUME FailBlockData \/ ReturnToInvalidate \/ AcceptBlock \/ ConnectFails
      PROVE  FlagsInv'
    BY <1>3, <1>4, <1>5, Zenon
    DEF FailBlockData, ReturnToInvalidate, AcceptBlock, ConnectFails
<1>6. ASSUME ValidateBlock
      PROVE  FlagsInv'
    <2>1. /\ UNCHANGED <<known, failed, invalidAnc, disk>>
          /\ validated' = validated \cup {NextBlock}
          /\ modified' = modified \cup {NextBlock}
        BY <1>6, Zenon DEF ValidateBlock
    <2>2. ChangesOnly(modified')
        BY Zenon, <2>1 DEF ChangesOnly
    <2> QED
        BY Zenon, <2>1, <2>2, FlagsKept
<1>7. ASSUME AcceptBlockData
      PROVE  FlagsInv'
    <2>1. /\ UNCHANGED <<known, failed, invalidAnc>>
          /\ validated' \in {validated, validated \cup {node}}
          /\ \/ modified' = modified \cup {node} /\ disk' = disk
             \/ FlushBlockIndex(modified \cup {node})
        BY <1>7, Zenon DEF AcceptBlockData
    <2>2. ChangesOnly(modified \cup {node})
        BY Zenon, <2>1 DEF ChangesOnly
    <2> QED
        BY Zenon, <2>1, <2>2, FlagsKept, FlagsWritten DEF FlushBlockIndex
<1> QED
    BY <1>1, <1>2, <1>5, <1>6, <1>7, ZenonT(60) DEF Step

\* A start reads the flags that are stored, and clears some of them.
LEMMA RestartFlags ==
    ASSUME Restart
    PROVE  FlagsInv'
<1>1. PICK d \in Stored : \/ LoadChainState(d, {})
                         \/ LoadChainState(d, NewRulesBlocks)
    BY Zenon DEF Restart
<1>2. /\ validated' = d.validated /\ disk' = d
      /\ \/ failed' = d.failed \ {} /\ invalidAnc' = d.invalidAnc \ {}
         \/ /\ failed' = d.failed \ NewRulesBlocks
            /\ invalidAnc' = d.invalidAnc \ NewRulesBlocks
    BY <1>1, Zenon DEF LoadChainState
<1> QED
    BY Zenon, <1>2 DEF FlagsInv

LEMMA FlagsNext ==
    ASSUME FlagsInv, [Next]_vars
    PROVE  FlagsInv'
<1>1. CASE UNCHANGED vars
    <2>1. UNCHANGED <<known, validated, failed, invalidAnc, modified, disk>>
        BY <1>1, Zenon DEF vars, indexVars, statusVars
    <2> QED
        BY Zenon, <2>1, NoFlags, FlagsKept
<1> QED
    BY <1>1, BeginFlags, StepFlags, RestartFlags, Zenon DEF Next

LEMMA FlagsInit ==
    ASSUME Init
    PROVE  FlagsInv
BY Zenon DEF Init, IndexInit, FlagsInv

\* blockIndex.Flush writes all it has to: every change of a status flag by block
\* processing, by the operator and by failed reorganizations is in the modified
\* set until it is in the database.  Only the failures cleared for new rules by
\* loadBlockIndex are not.
THEOREM DiskCurrentAlways == Spec => []DiskCurrentUnlessUnmarked
<1>1. ChainInv /\ FlagsInv => DiskCurrentUnlessUnmarked
    <2> SUFFICES ASSUME ChainInv, FlagsInv, NEW b \in known \ modified
                 PROVE  /\ b \in disk.known
                        /\ b \in data <=> b \in disk.data
        BY Zenon DEF DiskCurrentUnlessUnmarked, FlagsInv
    <2> QED
        BY Zenon DEF ChainInv, DiskInv
<1> QED
    BY <1>1, ChainInvAlways, FlagsInit, FlagsNext, PTL DEF Spec
=============================================================================
