SPECIFICATION Spec
CONSTANTS
    Address = {a1}
    Configured = 2
    Minute = 2
    Horizon = 6
    MaxCalls = 6
INVARIANT OnlyFrequentIsRefused
CHECK_DEADLOCK FALSE
