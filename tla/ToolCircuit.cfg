CONSTANTS
    FailureThreshold = 2
    Tools = {t1, t2}
    Calls = {c1, c2, c3}
    NoTool = NoTool
SYMMETRY Interchangeable
SPECIFICATION Spec
INVARIANTS
    TypeOK
    OneProbePerOpening
    ClosedBelowThreshold
    ProbedAfterCooldown
PROPERTIES
    HalfOpenAdmitsNobody
