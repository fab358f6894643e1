CONSTANTS
    Grants = {g1}
    Runs = {r1, r2, r3}
    NoRun = NoRun
    NoGrant = NoGrant
    MaxSteps = 2
    MaxTime = 1
    MaxAttempts = 2
SPECIFICATION FairSpec
INVARIANTS
    TypeOK
    CalledOnceInOrder
    SingleExecutor
    CompletedMeansPerformed
    NoCallAfterUndo
PROPERTIES
    KeepsPromise
    LoopClosesPlan
