SPECIFICATION Spec
VIEW View
CONSTANTS
    MTUs <- MCMTUs
    Ports <- MCPorts
    Fingerprints <- MCFingerprints
    Transports <- MCTransports
    Paths <- MCPaths
    Profiles <- MCProfiles
    BaseIDs <- MCIDs
    ConfigsOf <- MCConfigsOf
    AutoTuned <- MCIDs
    Absent = Absent
    DPIProfile = "balanced"
    DPIMaxVariants = 1
    NetworksSeen <- MCNetworks
    Recommendations <- MCAnswers
    AIEnabled = TRUE
    MinConfidence = 70
    MaxCallsPerHour = 1
    Hour = 2
    PresetTTL = 1
    ProbeRest = 1
    Unreadable = Unreadable
    NoPreset = NoPreset
    NoRecommendation = NoRecommendation
    WritesFail = TRUE
    MaxViable = 1
    MaxLearned = 1
    MaxCount = 2
    MaxEdits = 1
    MaxKills = 1
INVARIANTS
    AIStaysOnAllowlist
    PresetsProbed
    CallsBounded
    TypeOK
    LearnedSurvives
    
PROPERTIES
    DiagnosisSteers
