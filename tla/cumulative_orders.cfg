SPECIFICATION Spec
CONSTANTS
    raw_crc32 <- MCraw_crc32
    crc32 <- MCcrc32
    NoCrc <- MCNoCrc
    ListId <- McListId
    NULL = "NULL"
    SymbolLists <- FewGraphs
    Invocations <- Cumulative
    Residue <- McNoResidue
    MaxRuns = 2
INVARIANTS OrderFindsSibling
CHECK_DEADLOCK FALSE
