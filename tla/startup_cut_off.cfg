SPECIFICATION Spec
CONSTANTS
    MaxFaults = 1
    MaxRegistered = 0
INVARIANT ServingMeansSeeded
CHECK_DEADLOCK FALSE
