SPECIFICATION StoreSpec
CONSTANTS
    a = a
    b = b
    c = c
    Copies = {app, tool}
    Names = {a, b, c}
    Categories = {general, performance}
    Buckets = {1, 2}
    Hash <- MCHash
    PublicVersion = 1
    OldCopies = {tool}
    MaxRegistrations = 4
    NoValue = NoValue
CHECK_DEADLOCK TRUE
INVARIANTS
    StoreTypeOK
PROPERTIES
    FreedByOthers
