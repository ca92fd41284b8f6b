SPECIFICATION Spec
CONSTANTS
    Copies = {app, lib}
    Names = {"a", "b"}
    Categories = {"general"}
    Buckets = {1}
    Hash <- MCHash
    PublicVersion = 1
    OldCopies = {}
    MaxRegistrations = 3
    NoValue = NoValue
    ToolKinds <- MixedKinds
    AppNames = {"a"}
    CallbackNames = {"b"}
    SameNameReentry = FALSE
    InitCopies = {app}
    Rank = 1
    MaxTools = 2
    MaxDepth = 3
CHECK_DEADLOCK FALSE
INVARIANTS
    TypeOK
    MirrorCurrent
    CalledOnceInOrder
PROPERTIES
    ImplementsAdiakStore
