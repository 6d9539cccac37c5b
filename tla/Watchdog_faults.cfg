SPECIFICATION FairSpec
CONSTANTS
    ConfigIDs <- MCOneBase
    BaseIDs <- MCOneBase
    CandidatesOf <- MCNoVariants
    NoConfig = NoConfig
    MaxAge = 1
    SaveMayFail = TRUE
    MaxViable = 1
    DaemonConfigs <- MCSomeSettings
    Detections <- MCOneDetection
    NoDetection <- MCNoDetection
    MaxCrashes = 1
    MaxEdits = 1
    MaxTerms = 0
    MinOutage = 2
    b1 = b1
    b2 = b2
    v1 = v1
INVARIANTS
    ActiveWasVerified
PROPERTIES
    DegradedResolves
    OutageActedOn
    SwitchingResolvesUnlessKilled
