----------------------------- MODULE BlockChain -----------------------------
(***************************************************************************)
(* Block processing and best chain selection                               *)
(* (internal/blockchain/process.go, chain.go and chainio.go).              *)
(*                                                                         *)
(* Headers and blocks arrive in any order that keeps the header of the     *)
(* parent first; a block is validated in stages as the data it depends on  *)
(* becomes available; the best chain is reorganized to the best candidate, *)
(* which may turn out to be invalid on the way; an operator may force a    *)
(* reorganization, invalidate a block or have it reconsidered; and the     *)
(* process may stop at any point and start again from its database.        *)
(*                                                                         *)
(* processLock admits one operation at a time.  An operation is a sequence *)
(* of steps, told apart by pc, that follow the code from one index update, *)
(* database write or loop iteration to the next.  A crash may fall between *)
(* any two of them.                                                        *)
(***************************************************************************)
EXTENDS BlockIndex

CONSTANTS
    VerdictChoices,     \* the assignments of verdicts to blocks to consider
    Operations,         \* the operations the environment may start
    AssumeValid,        \* the assume valid block; NoBlock when disabled
    TwoWeeks,           \* expectedBlocksInTwoWeeks
    NewRulesBlocks      \* the blocks whose past median time is not before the
                        \* start time of newly detected consensus rules

\* What is wrong with the data of a block, by the stage that finds it:
\*   "sanity"   checkBlockDataSanity and checkBlockDataPositional
\*   "merkle"   the merkle root check of checkBlockContext
\*   "context"  the other checks of checkBlockContext
\*   "votes"    the checks of checkBlockContext that BFFastAdd skips
\*   "connect"  checkConnectBlock
Verdicts == {"ok", "sanity", "merkle", "context", "votes", "connect"}

ASSUME VerdictAssumption ==
    \A v \in VerdictChoices : v \in [Blocks -> Verdicts] /\ v[Genesis] = "ok"

ASSUME SettingsAssumption ==
    /\ AssumeValid \in Blocks \cup {NoBlock}
    /\ TwoWeeks \in Nat
    /\ NewRulesBlocks \subseteq Blocks \ {Genesis}

VARIABLES
    verdict,        \* the verdict on each block, fixed from the start
    tip,            \* the tip of BlockChain.bestChain
    contextChecked, \* BlockChain.recentContextChecks
    disk,           \* the database: block index entries and best chain state
    pc,             \* where the running operation is
    op,             \* the running operation
    node,           \* the block the operation is about
    target,         \* the target of reorganizeChain
    linkedNodes,    \* the list linkBlockData returns
    pos,            \* the position in linkedNodes
    fastAdd         \* whether ProcessBlock passes on BFFastAdd

opVars   == <<op, node, target, linkedNodes, pos, fastAdd>>
vars     == <<indexVars, verdict, tip, contextChecked, disk, pc, opVars>>

PCs == {"idle", "data", "link", "accept", "select", "reorg", "failed",
        "return", "scour", "announce"}

TypeOK ==
    /\ IndexTypeOK
    /\ verdict \in VerdictChoices
    /\ tip \in known
    /\ contextChecked \subseteq known
    /\ disk.known \subseteq known
    /\ disk.data \cup disk.validated \cup disk.failed \cup disk.invalidAnc
          \subseteq disk.known
    /\ disk.tip \in disk.known
    /\ pc \in PCs
    /\ op \in {"none", "block", "force", "invalidate", "rollforward",
               "reconsider"}
    /\ node \in known \cup {NoBlock}
    /\ target \in known \cup {NoBlock}
    /\ linkedNodes \in Seq(known)
    /\ pos \in 1..(Len(linkedNodes) + 1)
    /\ fastAdd \in BOOLEAN

NoOperation ==
    /\ op = "none"
    /\ node = NoBlock
    /\ target = NoBlock
    /\ linkedNodes = << >>
    /\ pos = 1
    /\ fastAdd = FALSE

\* createChainState: a new database holds the genesis block as best block.
Init ==
    /\ IndexInit
    /\ verdict \in VerdictChoices
    /\ tip = Genesis
    /\ contextChecked = {}
    /\ disk = [known |-> {Genesis}, data |-> {Genesis}, validated |-> {Genesis},
               failed |-> {}, invalidAnc |-> {}, tip |-> Genesis]
    /\ pc = "idle"
    /\ NoOperation

-----------------------------------------------------------------------------
\* A deliberate slip: a flag that was cleared stays on disk.
WrittenAdditively(M, best, dat, val, fai, anc) ==
    [known      |-> disk.known \cup M,
     data       |-> disk.data \cup (dat \cap M),
     validated  |-> disk.validated \cup (val \cap M),
     failed     |-> disk.failed \cup (fai \cap M),
     invalidAnc |-> disk.invalidAnc \cup (anc \cap M),
     tip        |-> best]

\* blockIndex.Flush: the entries of the modified nodes M are written with
\* the given flags; the others keep what the database has.
Written(M, best, dat, val, fai, anc) ==
    [known      |-> disk.known \cup M,
     data       |-> (disk.data \ M) \cup (dat \cap M),
     validated  |-> (disk.validated \ M) \cup (val \cap M),
     failed     |-> (disk.failed \ M) \cup (fai \cap M),
     invalidAnc |-> (disk.invalidAnc \ M) \cup (anc \cap M),
     tip        |-> best]

\* flushBlockIndex with the flags as the step leaves them, followed by
\* dbPutBestState in a transaction of its own.
FlushAndPutBestState(M, best) ==
    /\ modified' = {}
    /\ disk' = Written(M, best, data', validated', failed', invalidAnc')

\* flushBlockIndex alone.
FlushBlockIndex(M) == FlushAndPutBestState(M, disk.tip)

Idle ==
    /\ pc' = "idle"
    /\ op' = "none"
    /\ node' = NoBlock
    /\ target' = NoBlock
    /\ linkedNodes' = << >>
    /\ pos' = 1
    /\ fastAdd' = FALSE

\* Starting an operation on block b with the given next step and target.
Start(operation, b, step, goal) ==
    /\ op' = operation
    /\ node' = b
    /\ pc' = step
    /\ target' = goal
    /\ UNCHANGED <<linkedNodes, pos, fastAdd>>

Goto(step) == pc' = step /\ UNCHANGED opVars

-----------------------------------------------------------------------------
\* maybeAcceptBlockHeader on a header that is not known yet.  The headers of
\* the tree pass the sanity and positional checks; others are never added.
HeaderAcceptable(b) ==
    /\ b \notin known
    /\ Parent[b] \in known
    /\ Parent[b] \notin KnownInvalid

\* ProcessBlockHeader.  A header that is known and not invalid is not an
\* error and gets the pending index updates written.
ProcessBlockHeader(b) ==
    /\ pc = "idle"
    /\ "header" \in Operations
    /\ \/ /\ HeaderAcceptable(b)
          /\ AddNode(b)
          /\ FlushBlockIndex(modified \cup {b})
       \/ /\ b \in known \ KnownInvalid
          /\ UNCHANGED <<known, statusVars, linkVars, bestVars, tipVars>>
          /\ FlushBlockIndex(modified)
    /\ UNCHANGED <<verdict, tip, contextChecked, pc, opVars>>

\* A deliberate slip: the headers that still have to be written are dropped
\* when another one is added.
ProcessBlockDroppingModified(b) ==
    /\ pc = "idle"
    /\ "block" \in Operations
    /\ b \notin data
    /\ HeaderAcceptable(b)
    /\ AddNode(b)
    /\ modified' = {b}
    /\ Start("block", b, "data", NoBlock)
    /\ UNCHANGED <<verdict, tip, contextChecked, disk>>

\* ProcessBlock up to the point where the header is in the index.  A block
\* that is already there, is known to be invalid, or does not connect is
\* turned away without effect.
ProcessBlock(b) ==
    /\ pc = "idle"
    /\ "block" \in Operations
    /\ b \notin data
    /\ \/ /\ HeaderAcceptable(b)
          /\ AddNode(b)
          /\ modified' = modified \cup {b}
       \/ /\ b \in known \ KnownInvalid
          /\ UNCHANGED indexVars
    /\ Start("block", b, "data", NoBlock)
    /\ UNCHANGED <<verdict, tip, contextChecked, disk>>

\* The received data is not what the header commits to, or the commitment is
\* not proven and a sanity check fails: the block is turned away and nothing
\* is said about its hash.
RejectBlockData ==
    /\ pc = "data"
    /\ Idle
    /\ UNCHANGED <<indexVars, verdict, tip, contextChecked, disk>>

\* The data is proven to belong to the header and violates a rule.
FailBlockData ==
    /\ pc = "data"
    /\ verdict[node] = "sanity"
    /\ MarkBlockFailedValidation(node)
    /\ modified' = modified \cup MarkTouches(node)
    /\ Idle
    /\ UNCHANGED <<verdict, tip, contextChecked, disk>>

\* isAssumeValidAncestor: assumeValidNode is set once its header is known and
\* is clamped back to two weeks worth of blocks behind the best header.
AssumedValidAt(b) ==
    LET clamp == Height[bestHeader] - TwoWeeks
    IN  /\ AssumeValid \in known
        /\ IsAncestorOf(b, bestHeader)
        /\ clamp >= 0
        /\ IsAncestorOf(b, AssumeValid)
        /\ Height[b] <= clamp

\* maybeAcceptBlockData: the data is stored, and the block is either linked
\* or remembered until its parent is.  When nothing is linked the index is
\* flushed right away.  The bulk import of addblock, in which every block skips
\* the checks like an assumed valid one, is left out.
AcceptBlockData ==
    LET assumed == AssumedValidAt(node)
    IN  /\ pc = "data"
        /\ verdict[node] # "sanity"
        /\ data' = data \cup {node}
        /\ validated' = IF assumed THEN validated \cup {node} ELSE validated
        /\ fastAdd' = assumed
        /\ \/ /\ Parent[node] \in CanValidate
              /\ linkedNodes' = <<node>>
              /\ pc' = "link"
              /\ modified' = modified \cup {node}
              /\ UNCHANGED <<unlinked, disk, failed, invalidAnc>>
           \/ /\ Parent[node] \notin CanValidate
              /\ unlinked' = IF Parent[node] \in KnownInvalid THEN unlinked
                             ELSE unlinked \cup {node}
              /\ pc' = "select"
              /\ UNCHANGED <<linkedNodes, failed, invalidAnc>>
              /\ FlushBlockIndex(modified \cup {node})
        /\ UNCHANGED <<known, linked, order, nextOrder, candidates, bestVars,
                       tipVars, verdict, tip, contextChecked, op, node, target,
                       pos>>

\* The orders in which the children of a block may have been remembered.
Orderings(S) ==
    {s \in [1..Cardinality(S) -> S] :
        \A i, j \in DOMAIN s : s[i] = s[j] => i = j}

\* One iteration of linkBlockData: the children that wait for the block are
\* appended to the list.
LinkBlockData ==
    /\ pc = "link"
    /\ pos <= Len(linkedNodes)
    /\ LinkNode(linkedNodes[pos], tip)
    /\ \E s \in Orderings(WaitingChildren(linkedNodes[pos])) :
          linkedNodes' = linkedNodes \o s
    /\ pos' = pos + 1
    /\ UNCHANGED <<verdict, tip, contextChecked, disk, pc, op, node, target,
                   fastAdd>>

\* ProcessBlock flushes the index once everything is linked.
FlushLinked ==
    /\ pc = "link"
    /\ pos > Len(linkedNodes)
    /\ UNCHANGED <<known, statusVars, linkVars, bestVars, tipVars>>
    /\ FlushBlockIndex(modified)
    /\ pos' = 1
    /\ pc' = "accept"
    /\ UNCHANGED <<verdict, tip, contextChecked, op, node, target, linkedNodes,
                   fastAdd>>

\* checkBlockContext: blocks in the cache of recent checks are not checked
\* again, and BFFastAdd skips some of the checks.
ContextOK(b, fast) ==
    \/ b \in contextChecked
    \/ verdict[b] \in {"ok", "connect"}
    \/ verdict[b] = "votes" /\ fast

\* One iteration of maybeAcceptBlocks.  The first failure ends the loop; a
\* wrong merkle root says nothing about the hash and is not recorded.
AcceptBlock ==
    LET n == linkedNodes[pos]
    IN  /\ pc = "accept"
        /\ pos <= Len(linkedNodes)
        /\ \/ /\ ContextOK(n, fastAdd)
              /\ contextChecked' = contextChecked \cup {n}
              /\ pos' = pos + 1
              /\ UNCHANGED <<indexVars, pc>>
           \/ /\ ~ContextOK(n, fastAdd)
              /\ verdict[n] = "merkle"
              /\ pc' = "select"
              /\ UNCHANGED <<indexVars, contextChecked, pos>>
           \/ /\ ~ContextOK(n, fastAdd)
              /\ verdict[n] # "merkle"
              /\ MarkBlockFailedValidation(n)
              /\ modified' = modified \cup MarkTouches(n)
              /\ pc' = "select"
              /\ UNCHANGED <<contextChecked, pos>>
        /\ UNCHANGED <<verdict, tip, disk, op, node, target, linkedNodes,
                       fastAdd>>

AcceptDone ==
    /\ pc = "accept"
    /\ pos > Len(linkedNodes)
    /\ Goto("select")
    /\ UNCHANGED <<indexVars, verdict, tip, contextChecked, disk>>

\* The best candidate becomes the target of the reorganization.
SelectTarget ==
    /\ pc = "select"
    /\ target' = FindBestChainCandidate
    /\ pc' = "reorg"
    /\ UNCHANGED <<indexVars, verdict, tip, contextChecked, disk, op, node,
                   linkedNodes, pos, fastAdd>>

-----------------------------------------------------------------------------
\* reorganizeChain and reorganizeChainInternal.

Reorganizing == pc = "reorg" /\ target # NoBlock /\ tip # target

\* Everything above the point where the branch of the target leaves the best
\* chain is detached.
AtFork == IsAncestorOf(tip, target)

\* The block to attach next once everything above the fork is detached.
NextBlock == NextOnPath(tip, target)

ReorgDone ==
    /\ pc = "reorg"
    /\ target = NoBlock \/ tip = target
    /\ Goto("return")
    /\ UNCHANGED <<indexVars, verdict, tip, contextChecked, disk>>

\* Deliberate slips: the chain goes back to the genesis block at once, and the
\* outcome of checkConnectBlock is ignored.
DisconnectEverything ==
    /\ Reorganizing
    /\ ~AtFork
    /\ tip' = Genesis
    /\ UNCHANGED <<known, statusVars, linkVars, bestVars, tipVars>>
    /\ FlushAndPutBestState(modified, Genesis)
    /\ UNCHANGED <<verdict, contextChecked, pc, opVars>>

ValidateAnyBlock ==
    /\ Reorganizing
    /\ AtFork
    /\ NextBlock \notin validated
    /\ ContextOK(NextBlock, FALSE)
    /\ contextChecked' = contextChecked \cup {NextBlock}
    /\ validated' = validated \cup {NextBlock}
    /\ modified' = modified \cup {NextBlock}
    /\ UNCHANGED <<known, data, failed, invalidAnc, linkVars, bestVars, tipVars,
                   verdict, tip, disk, pc, opVars>>

\* disconnectBlock
DisconnectBlock ==
    /\ Reorganizing
    /\ ~AtFork
    /\ tip' = Parent[tip]
    /\ UNCHANGED <<known, statusVars, linkVars, bestVars, tipVars>>
    /\ FlushAndPutBestState(modified, Parent[tip])
    /\ UNCHANGED <<verdict, contextChecked, pc, opVars>>

\* The checks of reorganizeChainInternal on a block that has not been
\* validated before.
ValidateBlock ==
    /\ Reorganizing
    /\ AtFork
    /\ NextBlock \notin validated
    /\ ContextOK(NextBlock, FALSE)
    /\ verdict[NextBlock] # "connect"
    /\ contextChecked' = contextChecked \cup {NextBlock}
    /\ validated' = validated \cup {NextBlock}
    /\ modified' = modified \cup {NextBlock}
    /\ UNCHANGED <<known, data, failed, invalidAnc, linkVars, bestVars, tipVars,
                   verdict, tip, disk, pc, opVars>>

\* connectBlock and the removal of the candidates with less work.  The cache
\* of tips is pruned when the prune interval has passed.
ConnectBlock ==
    /\ Reorganizing
    /\ AtFork
    /\ NextBlock \in validated
    /\ tip' = NextBlock
    /\ candidates' = MoreWorkCandidates(NextBlock)
    /\ \/ UNCHANGED tipVars
       \/ /\ cachedTips' = PrunedTips(cachedTips, NextBlock)
          /\ cachedTipsStart' = PrunedStart(cachedTipsStart, NextBlock)
    /\ UNCHANGED <<known, statusVars, linked, order, nextOrder, unlinked,
                   bestVars>>
    /\ FlushAndPutBestState(modified, NextBlock)
    /\ UNCHANGED <<verdict, contextChecked, pc, opVars>>

\* A rule violation is recorded, unless it is a wrong merkle root.
ConnectFails ==
    LET n == NextBlock
    IN  /\ Reorganizing
        /\ AtFork
        /\ n \notin validated
        /\ \/ /\ ContextOK(n, FALSE)
              /\ verdict[n] = "connect"
              /\ contextChecked' = contextChecked \cup {n}
              /\ MarkBlockFailedValidation(n)
              /\ modified' = modified \cup MarkTouches(n)
           \/ /\ ~ContextOK(n, FALSE)
              /\ verdict[n] # "merkle"
              /\ MarkBlockFailedValidation(n)
              /\ modified' = modified \cup MarkTouches(n)
              /\ UNCHANGED contextChecked
           \/ /\ ~ContextOK(n, FALSE)
              /\ verdict[n] = "merkle"
              /\ UNCHANGED <<indexVars, contextChecked>>
        /\ Goto("failed")
        /\ UNCHANGED <<verdict, tip, disk>>

\* Deliberate slips: the first failure ends the reorganization, and no failure
\* ever does.
GiveUp ==
    /\ pc = "failed"
    /\ Goto("return")
    /\ UNCHANGED <<indexVars, verdict, tip, contextChecked, disk>>

RetargetForever ==
    /\ pc = "failed"
    /\ target' = FindBestChainCandidate
    /\ pc' = "reorg"
    /\ UNCHANGED <<indexVars, verdict, tip, contextChecked, disk, op, node,
                   linkedNodes, pos, fastAdd>>

\* After a failure reorganizeChain turns to the best candidate that is left,
\* and gives up when that is the target that just failed.
Retarget ==
    /\ pc = "failed"
    /\ \/ /\ FindBestChainCandidate = target
          /\ Goto("return")
       \/ /\ FindBestChainCandidate # target
          /\ target' = FindBestChainCandidate
          /\ pc' = "reorg"
          /\ UNCHANGED <<op, node, linkedNodes, pos, fastAdd>>
    /\ UNCHANGED <<indexVars, verdict, tip, contextChecked, disk>>

-----------------------------------------------------------------------------
\* What an operation does once reorganizeChain has returned.

\* ProcessBlock announces the accepted blocks without the chain lock and
\* returns.  The index is not flushed.
ReturnToProcessBlock ==
    /\ pc = "return"
    /\ op = "block"
    /\ Goto("announce")
    /\ UNCHANGED <<indexVars, verdict, tip, contextChecked, disk>>

Announce ==
    /\ pc = "announce"
    /\ Idle
    /\ UNCHANGED <<indexVars, verdict, tip, contextChecked, disk>>

\* ForceHeadReorganization and the second reorganization of InvalidateBlock
\* end with a flush.
ReturnAndFlush ==
    /\ pc = "return"
    /\ op \in {"force", "rollforward"}
    /\ UNCHANGED <<known, statusVars, linkVars, bestVars, tipVars>>
    /\ FlushBlockIndex(modified)
    /\ Idle
    /\ UNCHANGED <<verdict, tip, contextChecked>>

\* ReconsiderBlock also prunes the cache of tips.
ReturnToReconsider ==
    /\ pc = "return"
    /\ op = "reconsider"
    /\ cachedTips' = PrunedTips(cachedTips, tip)
    /\ cachedTipsStart' = PrunedStart(cachedTipsStart, tip)
    /\ UNCHANGED <<known, statusVars, linkVars, bestVars>>
    /\ FlushBlockIndex(modified)
    /\ Idle
    /\ UNCHANGED <<verdict, tip, contextChecked>>

-----------------------------------------------------------------------------
\* ForceHeadReorganization to a sibling of the current tip.
ForceHeadReorganization(b) ==
    /\ pc = "idle"
    /\ "force" \in Operations
    /\ b \in (known \cap data) \ KnownInvalid
    /\ b # tip
    /\ Parent[b] = Parent[tip]
    /\ Start("force", b, "reorg", b)
    /\ UNCHANGED <<indexVars, verdict, tip, contextChecked, disk>>

\* InvalidateBlock on a block outside of the best chain.
InvalidateSideBlock(b) ==
    /\ pc = "idle"
    /\ "invalidate" \in Operations
    /\ b \in known \ failed
    /\ ~IsAncestorOf(b, tip)
    /\ contextChecked' = contextChecked \ {b}
    /\ MarkBlockFailedValidation(b)
    /\ FlushBlockIndex(modified \cup MarkTouches(b))
    /\ UNCHANGED <<verdict, tip, pc, opVars>>

\* InvalidateBlock on a block of the best chain starts by moving the chain
\* back to its parent.
InvalidateMainBlock(b) ==
    /\ pc = "idle"
    /\ "invalidate" \in Operations
    /\ b \in known \ failed
    /\ b # Genesis
    /\ IsAncestorOf(b, tip)
    /\ contextChecked' = contextChecked \ {b}
    /\ Start("invalidate", b, "reorg", Parent[b])
    /\ UNCHANGED <<indexVars, verdict, tip, disk>>

\* It then marks the block.
ReturnToInvalidate ==
    /\ pc = "return"
    /\ op = "invalidate"
    /\ MarkBlockFailedValidation(node)
    /\ modified' = modified \cup MarkTouches(node)
    /\ op' = "rollforward"
    /\ pc' = "scour"
    /\ UNCHANGED <<verdict, tip, contextChecked, disk, node, target,
                   linkedNodes, pos, fastAdd>>

\* And it searches the tree for candidates before it reorganizes again.
RepopulateCandidates ==
    /\ pc = "scour"
    /\ candidates' = RepopulatedCandidates(tip)
    /\ Goto("select")
    /\ UNCHANGED <<known, statusVars, linked, order, nextOrder, unlinked,
                   bestVars, modified, tipVars, verdict, tip, contextChecked,
                   disk>>

\* ReconsiderBlock up to the selection of the reorganization target.
ReconsiderBlock(b) ==
    /\ pc = "idle"
    /\ "reconsider" \in Operations
    /\ b \in known
    /\ ReconsiderStatuses(b, tip)
    /\ contextChecked' = contextChecked \
           ((ReconsideredPath(b) \cap KnownInvalid)
               \cup ReconsideredDescendants(b))
    /\ Start("reconsider", b, "select", NoBlock)
    /\ UNCHANGED <<verdict, tip, disk>>

-----------------------------------------------------------------------------
\* addNodeFromDB: the best header and the blocks that wait for their parent.
LoadedBestHeader(d, invalid) ==
    BestOf(d.known \ invalid, d.data, [b \in Blocks |-> 0])

LoadedUnlinked(d, invalid) ==
    {b \in d.data \ {Genesis} :
        /\ ~(Ancestors[b] \ {b} \subseteq d.data)
        /\ Parent[b] \notin invalid}

\* loadBlockIndex and initChainState on the database d.  When the software
\* detects new consensus rules, the blocks in unmark are loaded without their
\* failure flags.  The loaded nodes are not marked as modified, so the flush
\* that initChainState makes in that case writes nothing.
LoadChainState(d, unmark) ==
    LET fai  == d.failed \ unmark
        anc  == d.invalidAnc \ unmark
        ord  == [b \in Blocks |-> 0]
        tips == {b \in d.known : Children(b) \cap d.known = {}}
    IN  /\ known' = d.known
        /\ data' = d.data
        /\ validated' = d.validated
        /\ failed' = fai
        /\ invalidAnc' = anc
        /\ linked' = {b \in d.known : Ancestors[b] \ {b} \subseteq d.data}
        /\ order' = ord
        /\ nextOrder' = 1
        /\ candidates' = {d.tip}
        /\ unlinked' = LoadedUnlinked(d, fai \cup anc)
        /\ bestHeader' = LoadedBestHeader(d, fai \cup anc)
        /\ bestInvalid' = BestOf(fai \cup anc, d.data, ord)
        /\ modified' = {}
        /\ cachedTips' = PrunedTips(tips, d.tip)
        /\ cachedTipsStart' = PrunedStart(0, d.tip)
        /\ tip' = d.tip
        /\ contextChecked' = {}
        /\ disk' = d

\* What a crash may leave in the database: the last completed write, or, when
\* it falls between the two transactions of connectBlock or disconnectBlock,
\* the block index without the best state that goes with it.
Stored ==
    IF Reorganizing /\ (AtFork => NextBlock \in validated)
    THEN {disk, Written(modified, disk.tip, data, validated, failed, invalidAnc)}
    ELSE {disk}

\* The process ends and starts again.  A start with new rules is one after an
\* upgrade of the software.
Restart ==
    /\ "restart" \in Operations
    /\ \E d \in Stored :
          \/ LoadChainState(d, {})
          \/ "upgrade" \in Operations /\ LoadChainState(d, NewRulesBlocks)
    /\ Idle
    /\ UNCHANGED verdict

-----------------------------------------------------------------------------
\* The environment starts an operation.
Begin ==
    \/ \E b \in Blocks : ProcessBlockHeader(b)
    \/ \E b \in Blocks : ProcessBlock(b)
    \/ \E b \in Blocks : ForceHeadReorganization(b)
    \/ \E b \in Blocks : InvalidateSideBlock(b)
    \/ \E b \in Blocks : InvalidateMainBlock(b)
    \/ \E b \in Blocks : ReconsiderBlock(b)

\* The running operation takes its next step.
Step ==
    \/ RejectBlockData
    \/ FailBlockData
    \/ AcceptBlockData
    \/ LinkBlockData
    \/ FlushLinked
    \/ AcceptBlock
    \/ AcceptDone
    \/ SelectTarget
    \/ ReorgDone
    \/ DisconnectBlock
    \/ ValidateBlock
    \/ ConnectBlock
    \/ ConnectFails
    \/ Retarget
    \/ ReturnToProcessBlock
    \/ Announce
    \/ ReturnAndFlush
    \/ ReturnToReconsider
    \/ ReturnToInvalidate
    \/ RepopulateCandidates

Next == Begin \/ Step \/ Restart

\* An operation that has begun runs on: it holds processLock and waits for
\* nobody.
Spec == Init /\ [][Next]_vars /\ WF_vars(Step)
=============================================================================
