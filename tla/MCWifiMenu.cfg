SPECIFICATION FairSpec
CONSTANTS
    QueueSize = 3
    MaxInputs = 3
    MaxHandlers = 2
INVARIANTS
    ScanMakesWay
PROPERTY ScanReachesList
CHECK_DEADLOCK FALSE
