SPECIFICATION Spec
CONSTANTS
    BlockSize = 4096
    WordBits = 32
    BoolBits = 8
    UIntValues = 1073741824
    Regions <- MCRegions
    KernelBase = 1048576
    KernelSize = 40000
    StackTop = 589824
    DmaBuffer = 32768
    MaxRun = 2
    MaxHeld = 6
PROPERTIES
    AllocatedRunsWereFree
