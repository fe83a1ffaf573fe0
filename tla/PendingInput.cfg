SPECIFICATION Spec
CONSTANTS
    Chars = {"a", " "}
    Blank = " "
    Letter = "a"
    SerialBytes = {"a", " ", "bs", "cr"}
    Words = {}
    LineCapacity = 2
    HistoryCapacity = 1
    PrefixTimeout = 1
    PasteLimit = 2
    NoValue = NoValue
INVARIANTS
    PendingInputIsShown
CHECK_DEADLOCK FALSE
