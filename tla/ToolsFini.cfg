SPECIFICATION FairSpec
CONSTANTS
    Copies = {app}
    Names = {"a", "cputime", "walltime"}
    Categories = {"performance"}
    Buckets = {1}
    Hash <- MCHash
    PublicVersion = 1
    OldCopies = {}
    MaxRegistrations = 3
    NoValue = NoValue
    ToolKinds <- MixedKinds
    AppNames = {}
    CallbackNames = {"a"}
    SameNameReentry = TRUE
    InitCopies = {app}
    Rank = 1
    MaxTools = 2
    MaxDepth = 3
CHECK_DEADLOCK FALSE
INVARIANTS
    FiniIsLast
    PendingOrReplaced
PROPERTIES
    CallsReturn
