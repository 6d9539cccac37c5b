SPECIFICATION Spec
CONSTANTS
    Files <- MCFiles
    Networks <- MCNetworks
    Worlds <- MCWorlds
    SettingsSeen <- MCSettingsSeen
    NoNetwork = NoNetwork
    NoConfig = NoConfig
    Missing = Missing
    MaxChanges = 0
    MaxReloads = 1
    MaxKills = 0
    MaxLost = 0
INVARIANTS
    DownOnlyIfKilled
