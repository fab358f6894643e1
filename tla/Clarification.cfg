CONSTANTS
    Sessions = {s1, s2}
    Requests = {q1, q2}
    MaxClars = 2
    MaxConts = 3
    MaxRetained = 1
    MaxFaults = 2
CHECK_DEADLOCK FALSE
SPECIFICATION Spec
INVARIANTS
    TypeOK
    ResolvedOnce
PROPERTIES
    AcknowledgedIsFinal
