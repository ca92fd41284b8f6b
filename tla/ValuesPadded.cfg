SPECIFICATION CxxSpec
CONSTANTS
    Terms <- Letters
    LaterTerms <- NoTerms
    CxxObjects <- NoObjects
    MaxLength = 20
    UnsignedHigh = {}
    IntMax = 1048575
    LongMax = 16777215
    MaxVersion = 1
    MaxRegistrations = 1
CHECK_DEADLOCK FALSE
INVARIANTS
    ReadBack
