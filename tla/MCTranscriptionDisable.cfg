CONSTANTS
    SessionIds = {1}
    EndpointIds = {e1, e2}
    Ssrcs = {x1, x2}
    Clients = {a}
    NumServers = 2
    MaxCmds = 2
SPECIFICATION Spec
INVARIANTS
    ExtractionFollowsEnable
