SPECIFICATION PropagationSpec
CONSTANTS
    RouterID = {i1, i2}
    Node = {n1}
    MaxRoutes = 2
    TimerObj = {t1, t2}
    Waiter = {w1, w2}
    NoTimer = NoTimer
    Type = {"clusters", "listeners"}
    Key <- MCKey
    TypeOf <- MCTypeOf
    HasPrefix <- MCHasPrefix
    Conflict = {10}
    Nothing = Nothing
    MaxWrites = 2
    MaxBreaks = 2
    Cluster = {c1, c2}
    Service = {s1, s2}
    Value = {"e1", "e2"}
    Owned = {c2}
    None = None
    MaxEdits = 3
    MaxFaults = 1
INVARIANTS NoEditForgotten AdminIsFollowed CacheIsSound
PROPERTIES LastEditPublished Converges
CHECK_DEADLOCK FALSE
