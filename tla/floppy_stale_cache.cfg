SPECIFICATION Spec
CONSTANTS
    Sectors <- MCSectors
    SectorsPerTrack = 18
    MaxCylinder = 2
    Tries = 3
    DmaBuffer = 32768
    BootDma <- MCBootDma
    MaxMisses = 3
    ReadsMayFail = FALSE
INVARIANTS
    CacheHoldsSector
