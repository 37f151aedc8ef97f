SPECIFICATION Spec
CONSTANTS
    Incident = {i1, s1}
    Seeded = {s1}
    Request = {r1, r2, r3}
    Plan = {p1, p2}
    NoPlan = NoPlan
    CallerRole = {"safety_manager"}
    Overlap = FALSE
INVARIANTS TransitionOnce
PROPERTIES FollowsLifecycle EveryCallEnds
CHECK_DEADLOCK FALSE
