CONSTANTS
    SessionIds = {s1, s2}
    EndpointIds = {e1, e2}
    FourTuples = {f1, f2, f3}
    UserNames = {u1, u2, u3}
    IdleTimeout = 2
    MaxDelay = 1
    Rebind = FALSE
SPECIFICATION Spec
SYMMETRY Symmetry
INVARIANTS
    TypeOK
    EndpointsAreConnected
    IndexIsExact
    ForwardingStaysInSession
    IdleTransportsExpire
    AgesFollowPhase
PROPERTIES
    OnlyIdleOrClosedRemoved
    CandidateGoesWithTransport
    SessionGoesWithLastEndpoint
    ImplementsConnections
