SPECIFICATION Spec
CONSTANTS
    Blocks <- ForkBlocks
    Genesis = "g"
    NoBlock = "none"
    Parent <- ForkParent
    Ancestors <- ForkAncestors
    Height <- ForkHeight
    WorkSum <- ForkHeight
    HashRank <- ForkHash
    CachedTipsPruneDepth = 1
    VerdictChoices <- ForkConnect
    Operations = {"block", "restart", "upgrade"}
    AssumeValid = "none"
    TwoWeeks = 1
    NewRulesBlocks <- ForkNewRules
INVARIANTS
    DiskCurrent
