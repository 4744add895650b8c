SPECIFICATION ToolsSpec
CONSTANTS
    raw_crc32 <- MCraw_crc32
    crc32 <- MCcrc32
    NoCrc <- MCNoCrc
    ListId <- McListId
    NULL = "NULL"
    SymbolLists <- ToolGraphs
    Invocations <- OnlySourceA
    Residue <- McNoResidue
    MaxRuns = 2
    Queries <- StructQueries
    MaxLost = 0
INVARIANTS EveryFunctionNamed
CHECK_DEADLOCK FALSE
