SPECIFICATION FairSpec
CONSTANTS
    Endpoints = {e1, e2}
    QueueSize = 2
    MaxInputs = 7
INVARIANTS
    PortalFlagsAreTrue
    UartFollowsSection
    EndpointInUseIsSaved
PROPERTY SectionGetsItsPortal
CHECK_DEADLOCK FALSE
