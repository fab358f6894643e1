CONSTANTS
    Grants = {g1}
    Runs = {r1, r2}
    NoRun = NoRun
    NoGrant = NoGrant
    MaxSteps = 2
    MaxTime = 1
    MaxAttempts = 2
SYMMETRY RunSymmetry
SPECIFICATION Spec
INVARIANTS
    ClaimIsExclusive
