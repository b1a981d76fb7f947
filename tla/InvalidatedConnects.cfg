SPECIFICATION Spec
CONSTANTS
    Blocks <- ForkBlocks
    Genesis = "g"
    NoBlock = "none"
    Parent <- ForkParent
    Ancestors <- ForkAncestors
    Height <- ForkHeight
    WorkSum <- ForkHeight
    HashRank <- ForkHash
    CachedTipsPruneDepth = 1
    VerdictChoices <- ForkGood
    Operations = {"block", "invalidate", "reconsider"}
    AssumeValid = "none"
    TwoWeeks = 1
    NewRulesBlocks = {}
INVARIANTS
    BestChainNotInvalid
