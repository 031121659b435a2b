SPECIFICATION Spec
CONSTANTS
    Keys <- OneKeyEach
    KeyOf <- MCKeyOf
    BeyondTable = {1, 16387}
    MaxPresses = 2
    MaxQueue = 4
INVARIANTS
    DiscardsHandledPress
CHECK_DEADLOCK FALSE
