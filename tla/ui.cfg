SPECIFICATION Spec
CONSTANTS
    Width = 4
    Height = 5
    TabStop = 2
    Characters = {97, 98}
    LineLimit = 4
    Prompt <- MCPrompt
    MoreMessage <- MCMore
    PageLines = 2
    Buffers <- MCBuffers
    MaxKeys = 7
    MaxBuffers = 2
INVARIANTS
    ScreenShowsLine
    LineIsTyped
    EveryByteShown
    PageStaysOnScreen
PROPERTIES
    DisplayEnds
CHECK_DEADLOCK FALSE
