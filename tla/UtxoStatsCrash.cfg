SPECIFICATION Spec
CONSTANTS
    Blocks <- MCBlocks
    Genesis = "g"
    NoBlock = "none"
    Parent <- MCParent
    Ancestors <- MCAncestors
    Height <- MCHeight
    WorkSum <- MCHeight
    HashRank <- MCHash
    Outputs <- MCOutputs
    Txns <- MCTxns
    Ins <- MCIns
    Outs <- MCOuts
    Regular <- MCRegular
    Stake <- MCStake
    Approves <- MCApproves
    Operations = {{"stats", "crash"}}
INVARIANTS
    NoPanic
