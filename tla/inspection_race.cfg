SPECIFICATION Spec
CONSTANTS
    Significand = 4194304
    Inspection = {i1}
    Seeded = {}
    Item = {a, b}
    Request = {r1, r2, r3}
    NoRequest = NoRequest
    MaxForm = 2
SYMMETRY Interchangeable
INVARIANTS TypeOK ExecutedOnce ResultOfOneForm CountsMatchItems
PROPERTIES FinishedIsFinal FollowsLifecycle
CHECK_DEADLOCK FALSE
