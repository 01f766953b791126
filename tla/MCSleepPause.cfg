CONSTANTS
    EventQueueLength = 2
    MaxPauseDepth = 3
    Levels <- MCLevels
SPECIFICATION FairSpec
INVARIANTS
    AwakeDisplayWillSleep
    PausesHaveOwners
    SettingsPauseTheClient
    BacklightFollowsState
PROPERTIES
    WakeResumesClient
    SavedSettingsApply
