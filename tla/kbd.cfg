SPECIFICATION Spec
CONSTANTS
    Keys <- TwoCtrls
    KeyOf <- MCKeyOf
    BeyondTable = {1, 16387}
    MaxPresses = 3
    MaxQueue = 3
INVARIANTS
    FlagsMatchKeys
    LedsMatchLocks
PROPERTIES
    PressesReturnedInOrder
    CharactersComeFromKeys
    KeysReachCaller
CHECK_DEADLOCK FALSE
