SPECIFICATION GrpcSpec
CONSTANTS
    Key = {k1}
    Getter = {g1, g2}
    Conn = {x1, x2, x3}
    NoConn = NoConn
    MaxTombstones = 0
    MaxEvents = 2
    Nothing = Nothing
    MaxMessages = 2
    MaxReplies = 2
    Caller = {c1, c2}
    Address = {k1}
    MaxFailures = 2
    c1 = c1
    c2 = c2
    s1 = s1
    s2 = s2
    f1 = f1
    f2 = f2
    f3 = f3
INVARIANTS ConnectionsAreSound RelayIsSound ReflectionIsSound
PROPERTIES CallsAreServed
CHECK_DEADLOCK FALSE
