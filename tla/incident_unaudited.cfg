SPECIFICATION Spec
CONSTANTS
    Incident = {s1}
    Seeded = {s1}
    Request = {r1, r2, r3}
    Plan = {p1}
    NoPlan = NoPlan
    CallerRole = {"safety_manager"}
    Overlap = TRUE
INVARIANTS WritesAreAudited
CHECK_DEADLOCK FALSE
