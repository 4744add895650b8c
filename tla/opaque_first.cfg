SPECIFICATION Spec
CONSTANTS
    raw_crc32 <- MCraw_crc32
    crc32 <- MCcrc32
    NoCrc <- MCNoCrc
    ListId <- McListId
    NULL = "NULL"
    SymbolLists <- FewGraphs
    Invocations <- OpaqueFirst
    Residue <- McNoResidue
    MaxRuns = 1
INVARIANTS MembersListed
CHECK_DEADLOCK FALSE
