CONSTANTS
    SessionIds = {s1}
    EndpointIds = {e1, e2}
    FourTuples = {f1, f2}
    UserNames = {u1, u2}
    IdleTimeout = 1
    MaxDelay = 1
    Rebind = TRUE
SPECIFICATION FairSpec
PROPERTIES
    TakeoverIsConfined
    SilentEndpointLeaves
