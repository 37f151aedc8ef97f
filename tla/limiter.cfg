SPECIFICATION Spec
CONSTANTS
    Address = {a1, a2}
    Configured = 2
    Minute = 2
    Horizon = 6
    MaxCalls = 5
SYMMETRY Interchangeable
INVARIANTS TypeOK RateIsLimited RefusedAfterBurst
CHECK_DEADLOCK FALSE
