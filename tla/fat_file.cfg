SPECIFICATION Spec
CONSTANTS
    BytesPerSector = 4
    ReservedSectors = 1
    NumberOfFats = 2
    SectorsPerFat = 3
    NumDirEntries = 1
    Chains <- MCChains
    EndMarks = {4088, 5, 2000}
    OtherEntry = 2748
    JunkBytes = {0, 2}
    Lengths = {3, 4, 9}
    MaxStream = 12
    MaxFailures = 1
INVARIANTS
    ReadsFollowChain
    EofAtEndOfChain
    NthClusterFound
    BufferIsFilled
PROPERTIES
    ReadReturns
CHECK_DEADLOCK FALSE
