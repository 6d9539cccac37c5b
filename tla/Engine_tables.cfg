SPECIFICATION Spec
CONSTANTS
    Candidates <- MCCandidates
    Base <- MCBase
    Protocol <- MCProtocol
    Iface <- MCIface
    Device <- MCDevice
    Port <- MCPort
    Table <- MCSharedTable
    NoConfig = NoConfig
    Backend = "nft"
    NoMark = NoMark
    PolicyFails = FALSE
    AIEnabled = FALSE
    Timeouts = FALSE
    CommandsFail = FALSE
    WaitsFail = FALSE
    MaxPool = 3
    MaxCrashes = 0
    b1 = b1
    v1 = v1
    x1 = x1
    a1 = a1
INVARIANTS
    ProbesIndependent
