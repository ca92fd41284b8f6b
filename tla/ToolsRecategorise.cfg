SPECIFICATION Spec
CONSTANTS
    Copies = {app}
    Names = {"a"}
    Categories = {"general", "performance"}
    Buckets = {1}
    Hash <- MCHash
    PublicVersion = 1
    OldCopies = {}
    MaxRegistrations = 2
    NoValue = NoValue
    ToolKinds <- GeneralKinds
    AppNames = {"a"}
    CallbackNames = {}
    SameNameReentry = FALSE
    InitCopies = {app}
    Rank = 0
    MaxTools = 1
    MaxDepth = 1
CHECK_DEADLOCK FALSE
INVARIANTS
    RetainedLive
