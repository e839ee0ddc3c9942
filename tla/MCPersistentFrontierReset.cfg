SPECIFICATION FairSpec
CONSTANTS
    g = g
    a1 = a1
    a2 = a2
    a3 = a3
    a4 = a4
    a5 = a5
    b1 = b1
    c3 = c3
    Blocks <- MCBlocks
    Genesis = g
    Parent <- MCParent
    Height <- MCHeight
    EmitsProof <- MCEmitsProof
    RequiredStates <- MCRequiredStates
    MaxLength = 2
    Select <- ShortRange
    FlushCapacity = 2
    RepeatedBlocks = {}
    NoBlock = NoBlock
    NoDatabase = NoDatabase
    NoLedger = NoLedger
INVARIANT
    RootIdentifierWritten
