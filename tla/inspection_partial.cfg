SPECIFICATION Spec
CONSTANTS
    Significand = 4194304
    Inspection = {i1}
    Seeded = {}
    Item = {a, b}
    Request = {r1, r2}
    NoRequest = NoRequest
    MaxForm = 2
INVARIANTS CompletedMeansAllPassed
CHECK_DEADLOCK FALSE
