SPECIFICATION ShownSpec
CONSTANTS
    b1 = b1  b2 = b2  b3 = b3  r1 = r1  r2 = r2  k1 = k1
    Torn = Torn  None = None  WriteLoc = WriteLoc  Writer = Writer
    Keys <- AllKeys
    Values = {v1}
    Blocks <- AllBlocks
    Readers <- AllReaders
    MaxFile = 1
    MaxFileSize = 2
    MaxOpenFiles = 1
    Scenarios <- OnlyReads
INVARIANT SnapshotIsPointInTime
