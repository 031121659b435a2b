CONSTANTS
    TickValues = 4
    WaitTicks = 1
    MotorTicks = 2
    MaxKeys = 2
SPECIFICATION Spec
INVARIANTS
    OnlyEarlyKeysHang
    WaitsMatchCommands
PROPERTIES
    SleepIsLongEnough
    CommandsEnd
    BytesAreRead
