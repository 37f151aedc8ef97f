SPECIFICATION Spec
CONSTANTS
    Incident = {i1}
    Seeded = {}
    Request = {r1, r2, r3, r4}
    Plan = {p1, p2}
    NoPlan = NoPlan
    CallerRole = {"safety_manager", "worker"}
    Overlap = TRUE
SYMMETRY Interchangeable
INVARIANTS TypeOK StageIsBacked AuditIsTruthful KeptUnlessOverlapped
PROPERTIES MovesBackOnlyByOverlap
CHECK_DEADLOCK FALSE
