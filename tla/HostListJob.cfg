SPECIFICATION FairSpec
CONSTANTS
    N = 4
    Hosts <- MCHosts
    HostOf <- FourRanks
    Color <- MCColor
    MaxIndex = 3
    NoList = NoList
INVARIANTS
    TypeOK
    HostsStayTogether
    CommsFreed
    FreedTwiceOnlyByFailedSplit
    NumHostsRight
PROPERTIES
    ImplementsHostListSpec
    AllAnswered
CHECK_DEADLOCK FALSE
