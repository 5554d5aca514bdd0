SPECIFICATION FairSpec
CONSTANTS
    MaxLimit = 2
    NoList = NoList
    Limits <- MCLimits
    Offsets <- MCOffsets
    MaxInitial = 3
    MaxCreated = 2
    MaxRetries = 1
INVARIANTS
    TypeOK
    OnlyDeletionsHideEntries
    OnlyCreationsRepeatEntries
    QuietWalkIsExact
PROPERTY EveryWalkEnds
