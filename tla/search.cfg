SPECIFICATION FairToolsSpec
CONSTANTS
    raw_crc32 <- MCraw_crc32
    crc32 <- MCcrc32
    NoCrc <- MCNoCrc
    ListId <- McListId
    NULL = "NULL"
    SymbolLists <- ToolGraphs
    Invocations <- McBuild
    Residue <- McResidue
    MaxRuns = 2
    Queries <- McQueries
    MaxLost = 1
INVARIANTS
    PathsReal
    FoundIffNeeded
    Legible
    WhiteListHonoured
    DeclTreePrinted
    ExportTreePrinted
    VerdictTrue
    LinesInContext
    CnodesFound
PROPERTIES SearchEnds
CHECK_DEADLOCK FALSE
