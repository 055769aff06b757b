SPECIFICATION UpstreamSpec
CONSTANTS
    EndpointID = {i1, i2}
    Address = {a1, a2}
    Object = {o1, o2}
    MaxWrites = 2
    HealthyThreshold = 2
    UnhealthyThreshold = 2
    MaxProbes = 3
    Nothing = Nothing
    k1 = k1
    k2 = k2
    x1 = x1
    x2 = x2
    x3 = x3
    r1 = r1
    r2 = r2
    e1 = e1
    e2 = e2
    h1 = h1
    h2 = h2
    h3 = h3
INVARIANTS SlotsAreSound SnapshotsAreSound SessionIsSound PicksAreSound GrpcHostsAreSound
CHECK_DEADLOCK FALSE
