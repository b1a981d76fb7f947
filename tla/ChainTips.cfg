SPECIFICATION RisingSpec
CONSTANTS
    Blocks <- TreeBlocks
    Genesis = "g"
    NoBlock = "none"
    Parent <- TreeParent
    Ancestors <- TreeAncestors
    Height <- TreeHeight
    WorkSum <- TreeHeight
    HashRank <- TreeHash
    CachedTipsPruneDepth = 1
INVARIANTS
    TipsAreLeaves
    CacheComplete
    DescendantTipsVisited
