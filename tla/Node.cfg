SPECIFICATION NodeSpec
CONSTANTS
 Tx <- MCTx
 Block <- MCBlock
 Genesis = "g"
 Funds <- MCFunds
 NoTx = "none"
 MaxOrphanTxs = 2
 TicketsPerBlock = 1
 MaxVoteAge = 1
 MaxFutureVoteAge = 1
 MaxVoteDoubleSpends = 2
 HeightDiffToPruneTicket = 1
 HeightDiffToPruneVotes = 1
 Invalid = {"x1", "x5"}
 Recent = {"s4","s5","s6","x5","x6"}
 MinKnownHeight = 3
 Peers = {"p","q"}
 Rpc = "rpc"
 NoPeer = "none"
 NoBlock = "none"
 Outbound = {"p","q"}
 MaxBlockHeadersPerMsg = 2
 MaxExpectedAnnouncements = 2
 MaxConsecutiveOrphanHeaders = 2
 SyncHeightFetchOffset = 2
 MinInFlightBlocks = 2
 MaxInFlightBlocks = 3
 NextBlocksBuf = 4
INVARIANTS NoDoubleSpends PoolSpendable StageWaits AncestorsCounted RequestsMatch
PROPERTIES HonestLostOnlyLate SyncCompletes
CHECK_DEADLOCK FALSE
