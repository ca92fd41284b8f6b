SPECIFICATION Spec
CONSTANTS
    Copies = {app}
    Names = {"a"}
    Categories = {"general"}
    Buckets = {1}
    Hash <- MCHash
    PublicVersion = 1
    OldCopies = {}
    MaxRegistrations = 1
    NoValue = NoValue
    ToolKinds <- MixedKinds
    AppNames = {"a"}
    CallbackNames = {}
    SameNameReentry = FALSE
    InitCopies = {app}
    Rank = 0
    MaxTools = 2
    MaxDepth = 1
CHECK_DEADLOCK FALSE
INVARIANTS
    InfoMatchesEvent
