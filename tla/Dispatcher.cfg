\* Any thread may stop the dispatcher: safety, liveness and the promise.
CONSTANTS
    NoTask = NoTask
    Task = {t1, t2, t3, t4}
    Expiring = {t4}
    Urgent = {t2, t4}
SPECIFICATION FairSpec
INVARIANTS
    SafetyInv
    TasksAccounted
PROPERTIES
    ImplementsExecutor
    AcceptedIsExecuted
CHECK_DEADLOCK FALSE
