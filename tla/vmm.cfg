SPECIFICATION VSpec
CONSTANTS
    BlockSize = 4096
    WordBits = 8
    BoolBits = 8
    UIntValues = 1024
    Regions <- MCTinyRegions
    KernelBase = 16384
    KernelSize = 5000
    StackTop = 40960
    DmaBuffer = 8192
    MaxRun = 3
    MaxHeld = 16
    Entries = 16
    KernelEntry = 1
    Pages <- MCPages
    MaskedFrames = 64
    DeviceFrames = {20, 124}
INVARIANTS
    PagesHaveOwnFrames
    NoBlockIsLost
PROPERTIES
    TablesAreMapping
CHECK_DEADLOCK FALSE
