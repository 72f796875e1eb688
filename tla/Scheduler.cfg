\* Ids do not wrap: safety, liveness and the promise.
CONSTANTS
    NoTask = NoTask
    Task = {t1, t2, t3}
    MaxTime = 1
    MaxTaskId = 3
SPECIFICATION FairSpec
INVARIANTS
    NeverOversleeps
    PendingIdsIdentify
PROPERTIES
    ImplementsTimer
    ArmedFires
CHECK_DEADLOCK FALSE
