CHECK_DEADLOCK FALSE
SPECIFICATION ExtensionsSpec
CONSTANTS
    g = g
    a1 = a1
    a2 = a2
    a3 = a3
    a4 = a4
    a5 = a5
    a6 = a6
    a7 = a7
    b1 = b1
    b2 = b2
    b3 = b3
    c4 = c4
    c5 = c5
    d6 = d6
    e2 = e2
    m23 = m23
    Blocks <- MCBlocks
    Genesis = g
    Parent <- MCParent
    Height <- MCHeight
    EmitsProof <- MCEmitsProof
    RequiredStates <- MCRequiredStates
    Works <- MCWorks
    MaxLength = 2
    Select <- ShortRange
INVARIANTS
    TypeOK
    FrontierIsTree
    BoundedLength
    BestTipStrongest
    RootLedgerMatchesRoot
    ProtocolStatesSuffice
    HistoryIsChainOfRoots
    HistoryCanBeServed
    RefcountIsExact
PROPERTIES
    FinalityIsMaxLengthDeep
    RemovedWorkIsUnreferenced
