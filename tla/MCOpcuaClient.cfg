CONSTANTS
    Endpoints = {e1, e2}
    NoEndpoint = none
    MaxPauseDepth = 2
    MaxStarts = 2
SPECIFICATION FairSpec
INVARIANTS
    TypeOK
    EndpointChangeNotLost
    AtMostOneAttemptWhilePaused
    StatusAndResourcesAgree
PROPERTIES
    StopTerminates
    PauseQuiesces
    EventuallyMonitors
    ImplementsEndpointSession
