------------------------------ MODULE MCChain -------------------------------
(***************************************************************************)
(* Block processing for TLC.  A behaviour follows one scenario.            *)
(*                                                                         *)
(*   sync     headers and blocks of three branches arrive                  *)
(*   restart  blocks of two branches arrive, and the process may end at    *)
(*            any step; after a start only the tip is a candidate          *)
(*   manual   blocks of two branches arrive, and the operator forces       *)
(*            reorganizations and invalidates and reconsiders blocks       *)
(***************************************************************************)
EXTENDS MCBlockChain

VARIABLE scenario

\* What may be wrong with a block, and the blocks that arrive, in each case.
TreeAnyBad == AtMost(1, TreeBlocks, {"sanity", "context", "connect", "merkle", "votes"})
Found      == [sync |-> {"sanity", "context", "connect", "ok"},
               restart |-> {"connect", "merkle", "votes", "ok"},
               manual |-> {"connect", "ok"}]
Arriving   == [sync |-> TreeBlocks, restart |-> ForkBlocks, manual |-> ForkBlocks]

\* In the manual scenario nothing is wrong below the assume valid block, which
\* would be skipped.
ChainInit ==
    /\ Init
    /\ scenario \in {"sync", "restart", "manual"}
    /\ \A b \in Blocks : verdict[b] \in Found[scenario]
    /\ scenario # "sync" => \A b \in Blocks \ ForkBlocks : verdict[b] = "ok"
    /\ scenario = "manual" => \A b \in Ancestors[AssumeValid] : verdict[b] = "ok"

ChainNext ==
    /\ UNCHANGED scenario
    /\ \/ Step
       \/ \E b \in Arriving[scenario] : ProcessBlock(b)
       \/ scenario = "sync" /\ \E b \in Blocks : ProcessBlockHeader(b)
       \/ scenario = "restart" /\ Restart
       \/ /\ scenario = "manual"
          /\ \E b \in ForkBlocks :
                \/ ForceHeadReorganization(b)
                \/ InvalidateSideBlock(b) \/ InvalidateMainBlock(b)
                \/ ReconsiderBlock(b)

\* An operation that has begun runs on, as in BlockChain!Spec: it holds
\* processLock and waits for nobody.  No other one can begin before it returns,
\* so WF_vars(Step) comes to this.
StepsGoOn == []<>(pc = "idle") \/ []<><<TRUE>>_vars

ChainSpec == ChainInit /\ [][ChainNext]_<<vars, scenario>> /\ StepsGoOn

\* FindBestChainCandidate: a candidate has all of its data and is not known to
\* be invalid; invalidated blocks that wait for their parents are not found out
\* (run invalidated_block_connects).
ArrivingCandidatesUsable == scenario # "manual" => CandidatesUsable

\* linkBlockData forgets no block whose data arrived before that of its parent;
\* ReconsiderBlock does (run reconsidered_block_forgotten).
ArrivingDataRemembered == scenario # "manual" => DataRemembered

\* "The best chain candidates must always contain at least the current best
\* chain tip", between operations; at a start with unmarked blocks,
\* initChainState does not add it again.
RunningTipIsCandidate == scenario = "sync" => TipIsCandidate

\* ProcessBlock: "Upon return, the best chain tip will be whatever branch tip
\* has the most proof of work and also passed all validation checks"; after a
\* start only once a longer branch has grown.
RunningBestTipSelected == scenario = "sync" => BestTipSelected

\* InvalidateBlock and ReconsiderBlock reorganize to the valid chain with the
\* most work; after a start only once a longer branch has grown.
RunningMostWorkSelected == scenario # "restart" => MostWorkSelected

\* MarkBlockFailedValidation reaches every descendant; newly detected rules
\* unmark some blocks of a branch and not others.
RunningInvalidityInherited == scenario # "restart" => InvalidityInherited
=============================================================================
