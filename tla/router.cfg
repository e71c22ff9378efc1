SPECIFICATION FairSpec
CONSTANTS
    CommandIds <- MCCommandIds
    Configs <- MCConfigs
    Players = {"vlc", "mpv"}
    MaxCommands = 2
    MaxChanges = 1
    MaxFaults = 2
INVARIANTS TypeOK OnlyPermitted AdvertisedWorks MediaFollowsShown
PROPERTIES SwitchesSettle
