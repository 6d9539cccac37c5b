SPECIFICATION Spec
CONSTANTS
    ConfigIDs <- MCTwoIDs
    BaseIDs <- MCOneBase
    CandidatesOf <- MCOneCandidatesOf
    NoConfig = NoConfig
    MaxAge = 2
    SaveMayFail = FALSE
    MaxViable = 2
    DaemonConfigs <- MCSettings
    Detections <- MCDetections
    NoDetection <- MCNoDetection
    MaxCrashes = 1
    MaxEdits = 1
    MaxTerms = 1
    MinOutage = 2
    b1 = b1
    b2 = b2
    v1 = v1
INVARIANTS
    TypeOK
    OneDetectionPerEpisode
    NoLostReload
PROPERTIES
    OutageBeforeProbing
    CooldownSurvivesRestart
    ImplementsFailover
