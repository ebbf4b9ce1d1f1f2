SPECIFICATION TSpec
CONSTANTS
    Modes = {"toAnthropic"}
    Texts <- MCTexts
    Actions = {"strip"}
    MaxChunk = 2
    WindowSize = 5
INVARIANTS NothingRejected
CHECK_DEADLOCK FALSE
