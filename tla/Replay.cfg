SPECIFICATION Spec
CONSTANTS
    Address = {a1}
    Name = {x}
    Metadata = {m1, m2}
    MaxEndpoints = 3
PROPERTY ReplayDoesNotGrow
CHECK_DEADLOCK FALSE
