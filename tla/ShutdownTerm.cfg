\* SIGTERM: Game::shutdown waits for what nobody stopped.
CONSTANTS
    NoTask = NoTask
    Shutdown = shutdown
    Quit = {}
    Term = {term1}
    Net = {}
    Timed = {}
    MaxTime = 1
    Early = FALSE
    IoFails = {}
SPECIFICATION Spec
INVARIANTS
    NeverAborts
CHECK_DEADLOCK FALSE
