SPECIFICATION ChainSpec
CONSTANTS
    Blocks <- TreeBlocks
    Genesis = "g"
    NoBlock = "none"
    Parent <- TreeParent
    Ancestors <- TreeAncestors
    Height <- TreeHeight
    WorkSum <- TreeHeight
    HashRank <- TreeHash
    CachedTipsPruneDepth = 1
    VerdictChoices <- TreeAnyBad
    Operations = {"header", "block", "restart", "upgrade", "force", "invalidate", "reconsider"}
    AssumeValid = "a2"
    TwoWeeks = 1
    NewRulesBlocks <- ForkNewRules
INVARIANTS
    ArrivingCandidatesUsable
    ArrivingDataRemembered
    RunningTipIsCandidate
    BestHeaderHasMostWork
    BestInvalidHasMostWork
    RunningBestTipSelected
    RunningMostWorkSelected
    BestChainHasData
    BestChainChecked
    RunningInvalidityInherited
    NoCandidatePanic
    DiskCurrentUnlessUnmarked
    Restartable
PROPERTIES
    TipMovesByOneBlock
    OperationsReturn
