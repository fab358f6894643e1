CONSTANTS
    Grants = {g1, g2}
    MaxSteps = 2
    MaxTime = 1
SYMMETRY GrantSymmetry
SPECIFICATION GrantsSpec
INVARIANTS
    GrantsTypeOK
    OneStepAhead
    CompletedPlanIsSpent
PROPERTIES
    ClosedPlanOnlyDrains
    NothingSpentAfterExpiry
