SPECIFICATION ToolsSpec
CONSTANTS
    raw_crc32 <- MCraw_crc32
    crc32 <- MCcrc32
    NoCrc <- MCNoCrc
    ListId <- McListId
    NULL = "NULL"
    SymbolLists <- FewGraphs
    Invocations <- OnlySourceA
    Residue <- McNoResidue
    MaxRuns = 2
    Queries <- FunctionsOnly
    MaxLost = 0
INVARIANTS WhiteListedFound
CHECK_DEADLOCK FALSE
