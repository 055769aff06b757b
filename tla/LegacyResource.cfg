SPECIFICATION Spec
CONSTANTS
    Client = {c1, c2}
    Name = {n1, n2}
    Verb = {get}
    Path = {p1, p2}
    NoCall = NoCall
    MaxCalls = 3
    MaxIDRetries = 2
INVARIANTS RoutesAreSound
PROPERTIES DraftsAreSafe
SYMMETRY Symmetry
CHECK_DEADLOCK FALSE
