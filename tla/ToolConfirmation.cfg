CONSTANTS
    Calls = {c1, c2, c3}
    Actions = {a1, a2}
    alice1 = alice1
    alice2 = alice2
    bob1 = bob1
    alice = alice
    bob = bob
    Sessions <- MCSessions
    Users <- MCUsers
    UserOf <- MCUserOf
    MaxTime = 2
    Lifetime = 1
    Window = 2
    MaxCalls = 2
    NoAction = NoAction
    NoSession = NoSession
SYMMETRY Interchangeable
SPECIFICATION Spec
INVARIANTS
    TypeOK
    OneCallPerConfirmation
    ConfirmedByItsSession
    StopLeavesNothingPending
    CallsPerWindow
PROPERTIES
    StopHalts
    ConfirmsOneTime
