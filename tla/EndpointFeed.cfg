SPECIFICATION Spec
CONSTANTS
    Key = {k1, k2}
    MaxEvents = 4
INVARIANTS ConsumerConverges
CHECK_DEADLOCK FALSE
