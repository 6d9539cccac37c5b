SPECIFICATION FairSpec
CONSTANTS
    Files <- MCFilesShared
    Networks <- MCNetworks
    Worlds <- MCWorldsServed
    SettingsSeen <- MCSettingsSeen
    NoNetwork = NoNetwork
    NoConfig = NoConfig
    Missing = Missing
    MaxChanges = 1
    MaxReloads = 1
    MaxKills = 1
    MaxLost = 1
INVARIANTS
    TypeOK
    HistorySurvives
PROPERTIES
    OutcomesMoveScores
    WorkingTunnelKept
    CommittedOnMajority
    WorkingConfigFound
