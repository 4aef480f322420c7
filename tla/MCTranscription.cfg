CONSTANTS
    SessionIds = {0, 1}
    EndpointIds = {e1}
    Ssrcs = {x1}
    Clients = {a, b}
    NumServers = 2
    MaxCmds = 2
SPECIFICATION Spec
SYMMETRY Symmetry
INVARIANTS
    TypeOK
    AudioFollowsStart
    LoadIsBalanced
