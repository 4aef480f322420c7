CONSTANTS
    s1 = s1
    s2 = s2
    e1 = e1
    Keys <- TwoSessions
    KindOf <- OneOfEach
    Subs = {a, b}
    TopicOf <- OneTopic
    FrameSizes = {480, 1440}
    MinSamples = 320
    FlushSamples = 640
    Capacity = 1
    MaxSessions = 2
    MaxPackets = 2
SPECIFICATION Spec
INVARIANTS
    TypeOK
    TranscriptInOrder
    AudioIsAccounted
    PolledSessionsStay
PROPERTIES
    ImplementsFeed
