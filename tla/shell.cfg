SPECIFICATION Spec
CONSTANTS
    Disks <- MCDisks
    Text <- Ascii
    Lines <- MCLines
    PromptSize = 40
INVARIANTS
    PromptIsLastGiven
    SectorReadIsTyped
    PwdNamesCurrentDirectory
    OpenFollowsPwd
    ListedEntriesOpen
CHECK_DEADLOCK FALSE
