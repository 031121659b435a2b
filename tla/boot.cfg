SPECIFICATION Spec
CONSTANTS
    BytesPerSector = 512
    ReservedSectors = 6
    NumberOfFats = 2
    SectorsPerFat = 9
    NumDirEntries = 224
    SectorsPerTrack = 18
    HeadsPerCylinder = 2
    TotalSectors = 2880
    Attempts = 5
    Memory <- MCMemory
    SecondStage = 72
    FAT_SEG = 22
    ROOT_DIRECTORY = 23
    IMAGE_RMODE = 128
    Segment = 128
    Chains <- MCChains
    EndMarks = {4088, 4095}
    RootEntries <- MCRootEntries
INVARIANTS
    KernelIsWhole
    AttemptsRunOut
PROPERTIES
    BootEnds
CHECK_DEADLOCK FALSE
