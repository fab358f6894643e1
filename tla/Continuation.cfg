CONSTANTS
    Conts = {k1}
    Handlers = {h1, h2, h3, h4}
    Grants = {g1, g2}
    Plans = {p1, p2}
    MaxSteps = 1
    MaxTime = 2
    Lifetime = 1
    NoCont = NoCont
    NoGrant = NoGrant
    NoPlan = NoPlan
    NoSteps = NoSteps
CHECK_DEADLOCK FALSE
SYMMETRY Interchangeable
SPECIFICATION Spec
INVARIANTS
    TypeOK
    OneExecutionPerGrant
    CancelledGrantNeverPerformed
PROPERTIES
    PerformedOnConfirmation
    GrantsOneTime
