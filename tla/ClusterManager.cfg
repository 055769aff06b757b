SPECIFICATION Spec
CONSTANTS
    c1 = c1
    i1 = i1
    a1 = a1
    Name = {c1, c2}
    EndpointID = {i1, i2}
    Address = {a1, a2}
    Payload <- MCPayload
    Bootstrap <- MCBootstrap
    Runtime = {r1, r2, r3, r4}
    NoRuntime = NoRuntime
    NoCandidate = NoCandidate
    MaxEvents = 3
INVARIANTS StoreIsConsistent
PROPERTIES WritersKeepOut ImplementsFeed
CHECK_DEADLOCK FALSE
