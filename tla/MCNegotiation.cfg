CONSTANTS
    e1 = e1
    e2 = e2
    e3 = e3
    EndpointIds = {e1, e2, e3}
    OwnMids = {m1}
    Offered <- Roles
    Senderless = {e1}
    MaxJoins <- PublisherReturns
SPECIFICATION Spec
INVARIANTS
    TypeOK
    PublishedIsMirrored
    PublishedIsTold
    OffersAreMade
CHECK_DEADLOCK FALSE
