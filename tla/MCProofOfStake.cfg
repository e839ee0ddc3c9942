CHECK_DEADLOCK FALSE
SPECIFICATION Spec
CONSTANTS
    SlotsPerEpoch = 3
    SlotsPerSubWindow = 2
    SubWindowsPerWindow = 3
    GracePeriodSlots = 0
    MaxSlot = 9
    LastHash = 6
    MaxBlocks = 4
    Hashes <- MCHashes
    Offers <- AllOffers
INVARIANTS
    DensitiesCountBlocks
    MinDensityIsLeastWindow
    DescendantWins
    SelectIsDecisive
