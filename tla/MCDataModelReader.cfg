CONSTANTS
    AlarmKeys = {}
    AlarmCapacity = 0
    Nodes = {n1}
    Values = {TRUE}
    SemanticRoles = {"pressure", "demand"}
    PublishedKinds = {"ACTIVE"}
    EquipmentCapacity = 2
    TagCapacity = 2
    MaxStructure = 3
    MaxValue = 2
SPECIFICATION ReaderSpec
INVARIANTS
    DataModelTypeOK
    GenerationIdentifiesStructure
CHECK_DEADLOCK FALSE
