SPECIFICATION Spec
CONSTANTS
    Significand = 4194304
    Inspection = {i1}
    Seeded = {}
    Item = {a}
    Request = {r1, r2, r3, r4}
    NoRequest = NoRequest
    MaxForm = 1
INVARIANTS ReportIsWhole
PROPERTIES EveryRequestEnds
CHECK_DEADLOCK FALSE
