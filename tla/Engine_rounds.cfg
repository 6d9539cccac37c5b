SPECIFICATION FairSpec
CONSTANTS
    Candidates <- MCNoAmnezia
    Base <- MCBase
    Protocol <- MCProtocol
    Iface <- MCIface
    Device <- MCDevice
    Port <- MCPort
    Table <- MCTable
    NoConfig = NoConfig
    Backend = "nft"
    NoMark = NoMark
    PolicyFails = FALSE
    AIEnabled = TRUE
    Timeouts = TRUE
    CommandsFail = TRUE
    WaitsFail = TRUE
    MaxPool = 3
    MaxCrashes = 1
    b1 = b1
    v1 = v1
    x1 = x1
    a1 = a1
INVARIANTS
    TypeOK
    
    SelectorsFollowActive
PROPERTIES
    ActiveUndisturbed
    CommittedCarries
    RoundEnds
