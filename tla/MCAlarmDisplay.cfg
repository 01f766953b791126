CONSTANTS
    AlarmKeys = {k1, k2, k3}
    AlarmCapacity = 2
    NotificationLimit = 2
    MaxAlarmGeneration = 4
SPECIFICATION AlarmDisplaySpec
INVARIANTS
    AlarmTableFollowsServer
    AlarmPageIsCurrent
PROPERTIES
    AlarmPageCatchesUp
CHECK_DEADLOCK FALSE
