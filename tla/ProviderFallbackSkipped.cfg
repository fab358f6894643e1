CONSTANTS
    FailureThreshold = 2
    p1 = p1
    p2 = p2
    Providers = {p1, p2}
    Requests = {r1, r2}
    Chains <- AllChains
    Kinds = {"chat"}
SPECIFICATION Spec
INVARIANT SkippedOnlyWhileProbed
