SPECIFICATION FairSpec
CONSTANTS
    ArgLists <- MCArgLists
    Titles <- MCTitles
    Loaded <- MCLoaded
    LaterLibraries <- MCLaterLibraries
    VersionWords <- MCVersionWords
    MpiInfos <- MCMpiInfos
    System <- MCSystem
    EndTimes <- MCEndTimes
    Ticks <- MCTicks
    MaxFaults = 1
    MaxInterrupts = 2
    MaxLoads = 1
    Garbage = Garbage
INVARIANTS
    TypeOK
    CmdlineWhole
    LibrariesInBounds
    VendorRight
    NumHostsAgree
    FailuresIndependent
    ResultTells
    WallTimeRight
PROPERTIES
    CallsReturn
