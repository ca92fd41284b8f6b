SPECIFICATION CxxSpec
CONSTANTS
    Terms <- MCTerms
    LaterTerms <- MCLaterTerms
    CxxObjects <- MCCxxObjects
    MaxLength = 20
    UnsignedHigh = {4, 8}
    IntMax = 1048575
    LongMax = 16777215
    MaxVersion = 2
    MaxRegistrations = 2
INVARIANTS
    TypeOK
    ParsesAsWritten
    TopTypeAgrees
    ReadBack
    HeapIsRecord
    StringParsesBack
    CxxReadBack
    PythonAgrees
