SPECIFICATION Spec
CONSTANTS
    MaxItems = 5
    MaxEdits = 2
    Start <- MCStart
    Files <- MCFiles
    Texts = {"blank", "a"}
    Blank = "blank"
INVARIANTS
    TreeSound
PROPERTIES
    SelectionHandled
    TextOfOthersKept
CHECK_DEADLOCK FALSE
