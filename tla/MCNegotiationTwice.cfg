CONSTANTS
    e1 = e1
    e2 = e2
    e3 = e3
    EndpointIds = {e1, e2}
    OwnMids = {m1}
    Offered <- Publishers
    Senderless = {}
    MaxJoins <- Once
SPECIFICATION Spec
INVARIANTS
    TransceiverListedOnce
CHECK_DEADLOCK FALSE
