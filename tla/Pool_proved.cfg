SPECIFICATION Spec
CONSTANTS
    MTUs <- AllMTUs
    Ports <- AllPorts
    Fingerprints <- MCFingerprints
    Transports <- MCTransports
    Paths <- MCPaths
    Profiles <- MCProfiles
    BaseIDs <- WGIDs
    ConfigsOf <- WGConfigsOf
    AutoTuned <- WGIDs
    Absent = Absent
    DPIProfile = "balanced"
    DPIMaxVariants = 8
    NetworksSeen <- MCNetworks
    Recommendations <- WGAnswers
    AIEnabled = TRUE
    MinConfidence = 70
    MaxCallsPerHour = 1
    Hour = 2
    PresetTTL = 2
    ProbeRest = 1
    Unreadable = Unreadable
    NoPreset = NoPreset
    NoRecommendation = NoRecommendation
    WritesFail = FALSE
    MaxViable = 1
    MaxLearned = 1
    MaxCount = 1
    MaxEdits = 0
    MaxKills = 0
INVARIANTS
    PriorityProved
