SPECIFICATION ControlSpec
CONSTANTS
    ListenerKey <- MCListenerKey
    Static <- MCStatic
    Resources <- MCResources
    Call = {r1}
    NoId = NoId
    MaxReplacements = 2
    MaxRefreshes = 1
    MaxBindFailures = 1
    NoListener = NoListener
    Listener = {l1, l2}
    Request = {r1, r2}
    FileListener = {l1, l2}
    First = l1
    FileCluster = {c1, c2}
    Config <- MCConfig
    Initial <- Started
    Absent = Absent
    MaxReloads = 3
    MaxFailures = 1
    Route = {route}
    Backend = {s1, s2}
    Named = s1
    NoBackend = Absent
    Pod = {p1, p2}
    Listeners <- MCListeners
    Filters <- MCFilters
    States = {"none", "headless", "pods"}
    MaxObjectEdits = 1
    MaxWriteFailures = 1
    MaxCrashes = 1
    r1 = r1
    l1 = l1
    l2 = l2
    c1 = c1
    c2 = c2
    route = route
    s1 = s1
    s2 = s2
    p1 = p1
    p2 = p2
    g1 = g1
    g2 = g2
INVARIANTS NotCutOffEarly ReloadIsSound ProgrammedIsTrue ReportsAreTrue
PROPERTIES ChainsAreSound
CHECK_DEADLOCK FALSE
