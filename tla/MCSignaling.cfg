CONSTANTS
    c1 = c1
    c2 = c2
    c3 = c3
    p1 = p1
    p2 = p2
    p3 = p3
    Calls = {c1, c2, c3}
    Ports = {p1, p2, p3}
    Kind <- MixedKind
    PortOf <- MixedPort
    Transcription = TRUE
    Threads = 2
    Failures = {"send_to", "panic"}
SPECIFICATION PoliteSpec
INVARIANTS
    TypeOK
    WaitingCallIsQueued
    HandledOfferIsAnswered
PROPERTIES
    EveryCallReturns
    ShutdownNeedsAWorker
CHECK_DEADLOCK FALSE
