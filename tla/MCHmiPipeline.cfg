CONSTANTS
    n1 = n1
    n2 = n2
    n3 = n3
    Plant = plant
    AlarmKeys = {}
    AlarmCapacity = 0
    Nodes <- MCNodes
    Values = {TRUE, FALSE}
    SemanticRoles = {"other"}
    EquipmentCapacity = 1
    TagCapacity = 2
    Spaces <- MCSpaces
    WritableNodes = {n2}
    WriteQueueLength = 1
    MaxConnects = 2
    MaxServerEvents = 1
    MaxTaps = 2
SPECIFICATION FairSpec
INVARIANTS
    ModelMatchesMap
    PageWithCurrentGenerationsIsCurrent
    CurrentWritesHitTheirTag
CHECK_DEADLOCK FALSE
PROPERTIES
    PageComesToShowServer
