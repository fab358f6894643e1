CONSTANTS
    Items = {i1, i2, i3}
    Passes = {w1, w2}
    MaxRetries = 2
    MaxItems = 3
    NoItem = NoItem
SYMMETRY Interchangeable
SPECIFICATION Spec
INVARIANTS
    TypeOK
    OnePassPerItem
    ReplaysBounded
PROPERTIES
    SettledStaysSettled
