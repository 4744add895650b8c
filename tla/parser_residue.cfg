SPECIFICATION FairSpec
CONSTANTS
    raw_crc32 <- MCraw_crc32
    crc32 <- MCcrc32
    NoCrc <- MCNoCrc
    ListId <- McListId
    NULL = "NULL"
    SymbolLists <- FewGraphs
    Invocations <- McInvocations
    Residue <- McResidue
    MaxRuns = 1
INVARIANTS MembersListed ChildrenResolve
PROPERTIES Terminates
CHECK_DEADLOCK FALSE
