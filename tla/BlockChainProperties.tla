------------------------ MODULE BlockChainProperties ------------------------
(***************************************************************************)
(* What block processing promises.                                         *)
(***************************************************************************)
EXTENDS BlockChain

\* A block whose whole branch has nothing wrong with it.
GoodBranch(b) == \A a \in Ancestors[b] : verdict[a] = "ok"

\* The blocks that can be validated and are not known to be invalid.
Usable == CanValidate \ KnownInvalid

-----------------------------------------------------------------------------
\* The best chain never contains a block without data: reorganizeChain can
\* load every block it detaches and the chain view only ever shows blocks
\* that can be served.  Relates linkBlockData, the candidates and the tip over
\* out of order arrival, failed reorganizations and restarts.
BestChainHasData == Ancestors[tip] \subseteq data

\* FindBestChainCandidate: "all of the block data leading up to a block must
\* have already been received and must not be part of a chain that is already
\* known to be invalid".
CandidatesUsable == candidates \subseteq Usable

\* removeLessWorkCandidates panics when it leaves no candidate: that cannot
\* happen when the next block is connected.
NoCandidatePanic ==
    Reorganizing /\ AtFork => MoreWorkCandidates(NextBlock) # {}

\* "The best chain candidates must always contain at least the current best
\* chain tip", between operations.
TipIsCandidate == pc = "idle" => tip \in candidates

\* MarkBlockFailedValidation marks "all of its descendants (if any) as having
\* a failed ancestor", and a header is never added on top of an invalid one:
\* no block that is not known to be invalid builds on one that is.
InvalidityInherited ==
    \A b \in known \ {Genesis} : Parent[b] \in KnownInvalid => b \in KnownInvalid

\* BestHeader "returns the header with the most cumulative work that is NOT
\* known to be invalid".
BestHeaderHasMostWork ==
    /\ bestHeader \in known \ KnownInvalid
    /\ \A h \in known \ KnownInvalid : WorkSum[h] <= WorkSum[bestHeader]

\* The best invalid block, shown to users as the chain that was rejected, has
\* the most work of the blocks known to be invalid.
BestInvalidHasMostWork ==
    /\ bestInvalid = NoBlock <=> KnownInvalid = {}
    /\ bestInvalid # NoBlock =>
          /\ bestInvalid \in KnownInvalid
          /\ \A b \in KnownInvalid : WorkSum[b] <= WorkSum[bestInvalid]

\* ProcessBlock: "Upon return, the best chain tip will be whatever branch tip
\* has the most proof of work and also passed all validation checks", with the
\* tie break of betterCandidate.
BestTipSelected ==
    pc = "announce" =>
        \A b \in Usable \ {tip} :
            GoodBranch(b) => BetterCandidate(tip, b, data, order)

\* InvalidateBlock and ReconsiderBlock reorganize the chain "so the block with
\* the most cumulative proof of work that is valid becomes the tip of the main
\* chain": at the end of every operation no usable block of a good branch has
\* more work than the tip.
MostWorkSelected ==
    pc = "idle" =>
        \A b \in Usable : GoodBranch(b) => WorkSum[b] <= WorkSum[tip]

\* A block whose data has nothing wrong with it that the node would not excuse:
\* it may be below the assume valid block, or lack the checks of the votes that
\* BFFastAdd skips for what is linked together with such a block.
Excused(b) ==
    AssumeValid # NoBlock /\ (IsAncestorOf(b, AssumeValid) \/ verdict[b] = "votes")

\* Every block of the best chain has passed its checks, also while a
\* reorganization is under way, after failed ones, after the operator has
\* forced, invalidated or reconsidered blocks, and after restarts that trust the
\* stored statusValidated.
BestChainChecked == \A b \in Ancestors[tip] : verdict[b] = "ok" \/ Excused(b)

\* Without an assume valid block nothing is excused.
BestChainValid == GoodBranch(tip)

\* Once an operation has returned no block of the best chain is known to be
\* invalid.
BestChainNotInvalid == pc = "idle" => Ancestors[tip] \cap KnownInvalid = {}

\* No data is forgotten: a block whose data arrived before that of its parent
\* is either linked or waits for its parent, so it is validated as soon as all
\* of its ancestors are there.
DataRemembered ==
    pc # "link" =>
        \A b \in data \ KnownInvalid :
            \/ b \in linked
            \/ b \in unlinked /\ Parent[b] \notin CanValidate

\* An index entry that is not waiting to be written reads the same on disk.
DiskCurrent ==
    \A b \in known \ modified :
        /\ b \in disk.known
        /\ b \in data <=> b \in disk.data
        /\ b \in validated <=> b \in disk.validated
        /\ b \in failed <=> b \in disk.failed
        /\ b \in invalidAnc <=> b \in disk.invalidAnc

\* The same for every run of the node: only the failure flags that newly
\* detected rules clear while the index is loaded differ from the database.
DiskCurrentUnlessUnmarked ==
    \A b \in known \ modified :
        /\ b \in disk.known
        /\ b \in data <=> b \in disk.data
        /\ b \in validated <=> b \in disk.validated
        /\ b \in failed => b \in disk.failed
        /\ b \in invalidAnc => b \in disk.invalidAnc
        /\ b \in disk.failed \ failed => b \in NewRulesBlocks
        /\ b \in disk.invalidAnc \ invalidAnc => b \in NewRulesBlocks

\* Whatever the point at which the process dies, it can be started again: the
\* parent of every stored header is stored ("could not find parent for block"
\* otherwise), the stored best block is in the index ("cannot find chain tip")
\* and its whole chain has data.
Restartable ==
    /\ \A b \in disk.known \ {Genesis} : Parent[b] \in disk.known
    /\ Ancestors[disk.tip] \subseteq disk.known \cap disk.data

-----------------------------------------------------------------------------
\* While the node runs, no prune of the cached tips uses a lower block than the
\* one before it, as when the best chain is back at its height by then.
RisingPrunes == [][Restart \/ cachedTipsStart' >= cachedTipsStart]_vars

\* No start detects new consensus rules, so none clears a failure flag.
NoNewRules == NewRulesBlocks = {}

\* Headers and blocks are all that comes in: the node is not restarted, and the
\* operator does not interfere.
OnlyArrivals == Operations \subseteq {"header", "block"}

\* No block comes with data that does not fit the merkle root of its header; such
\* a block is not marked as invalid and stays a candidate.
MerkleRootsMatch == \A v \in VerdictChoices : \A b \in Blocks : v[b] # "merkle"

-----------------------------------------------------------------------------
\* The best chain changes one block at a time, and not by a restart.
TipMovesByOneBlock ==
    [][tip' # tip => tip' = Parent[tip] \/ tip = Parent[tip']]_vars

\* Every operation returns: the reorganization loop with its changing targets
\* ends.
OperationsReturn == []<>(pc = "idle")
=============================================================================
