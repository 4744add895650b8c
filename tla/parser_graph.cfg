SPECIFICATION Spec
CONSTANTS
    raw_crc32 <- MCraw_crc32
    crc32 <- MCcrc32
    NoCrc <- MCNoCrc
    ListId <- McListId
    NULL = "NULL"
    SymbolLists <- McGraphs
    Invocations <- McInvocations
    Residue <- McNoResidue
    MaxRuns = 1
INVARIANTS TypeOK WalkInGraph ParentsResolve ChildrenResolve SiblingsResolve
  AttributionSound MembersListed DepthBounded Distinct
PROPERTIES GraphGrows ImplementsReach
CHECK_DEADLOCK FALSE
