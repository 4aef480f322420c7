CONSTANTS
    Peers = {a, b, c}
    MaxMsgs = 3
SPECIFICATION FairSpec
INVARIANTS
    TypeOK
    NoOvertaking
    DrainedUnlessFailed
PROPERTIES
    NothingIsForgotten
