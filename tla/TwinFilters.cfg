SPECIFICATION TwinSpec
CONSTANTS
    WORDS = 3
    WORD_BITS = 3
    MAX_COUNTER = 13
INVARIANTS
    BitmapIsRecentPast
    VerdictExact
    SameVerdict
PROPERTIES
    RejectionIsFinal
    RefinesWindow
