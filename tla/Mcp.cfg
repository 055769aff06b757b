SPECIFICATION McpSpec
CONSTANTS
    Session = {1, 2, 3, 4}
    Initializer = {i1, i2}
    Request = {q1}
    Flusher = {f1, f2}
    MaxEntries = 2
    MaxMarks = 0
    MaxStreams = 0
    Idle = Idle
    Tool = {t1, t2}
    Tags <- MCTags
    Risk <- MCRisk
    Hidden = {t2}
    Value = {Absent, Empty, ann, bob}
    Absent = Absent
    Empty = Empty
    Rule <- MCRule
    Workflow <- MCWorkflow
    Name = {s1, s2}
    NoName = NoName
    MaxWorkflows = 2
    Identity = {ann, bob}
    Source = {s1, s2}
    Allowed <- MCAllowed
    Initial = {t1}
    Static = {t1, t2}
    ExpandAfter = 1
    Call = {c1, c2}
    Update = {u1, u2}
    Nothing = Nothing
    MaxCalls = 3
    MaxUpdates = 2
    ann = ann
    bob = bob
    t1 = t1
    t2 = t2
    s1 = s1
    s2 = s2
    i1 = i1
    c1 = c1
    c2 = c2
    u1 = u1
    u2 = u2
INVARIANTS SessionsAreSound PlansAreSound SelectionIsSound
PROPERTIES EventuallyNotified
CHECK_DEADLOCK FALSE
