SPECIFICATION Spec
CONSTANTS
    raw_crc32 <- MCraw_crc32
    crc32 <- MCcrc32
    NoCrc <- MCNoCrc
    ListId <- McListId
    NULL = "NULL"
    SymbolLists <- TwoUntagged
    Invocations <- OnlyG
    Residue <- McNoResidue
    MaxRuns = 1
INVARIANTS EntireTreeRecorded
CHECK_DEADLOCK FALSE
