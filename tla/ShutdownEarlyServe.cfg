\* SIGQUIT before the services run.
CONSTANTS
    NoTask = NoTask
    Shutdown = shutdown
    Quit = {quit1}
    Term = {}
    Net = {}
    Timed = {}
    MaxTime = 1
    Early = TRUE
    IoFails = {}
SPECIFICATION Spec
INVARIANTS
    NoServiceOnClearedWorld
CHECK_DEADLOCK FALSE
