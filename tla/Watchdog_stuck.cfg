SPECIFICATION FairSpec
CONSTANTS
    ConfigIDs <- MCTwoIDs
    BaseIDs <- MCOneBase
    CandidatesOf <- MCOneCandidatesOf
    NoConfig = NoConfig
    MaxAge = 1
    SaveMayFail = FALSE
    MaxViable = 1
    DaemonConfigs <- MCOneSettings
    Detections <- MCOneDetection
    NoDetection <- MCNoDetection
    MaxCrashes = 1
    MaxEdits = 0
    MaxTerms = 0
    MinOutage = 2
    b1 = b1
    b2 = b2
    v1 = v1
PROPERTIES
    SwitchingResolves
