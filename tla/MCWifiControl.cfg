SPECIFICATION FairSpec
CONSTANTS
    Networks = {home, plant}
    NoText = NoText
    EventLimit = 2
    MaxInputs = 3
INVARIANTS
    SavedPairBelongsTogether
    DisconnectIsRespected
CHECK_DEADLOCK FALSE
PROPERTIES
 LinkRecovers
 
