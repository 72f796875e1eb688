\* io_service::run() throws while a SIGQUIT is on its way: main() and the
\* dispatcher's task stop the same threads.
CONSTANTS
    NoTask = NoTask
    Shutdown = shutdown
    Quit = {quit1}
    Term = {}
    Net = {}
    Timed = {}
    MaxTime = 1
    Early = FALSE
    IoFails = {"signalled"}
SPECIFICATION Spec
INVARIANTS
    NeverAborts
CHECK_DEADLOCK FALSE
