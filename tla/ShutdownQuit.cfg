\* SIGQUIT, twice, while tasks are submitted and timed tasks fire and rearm; or
\* io_service::run() throws before.
CONSTANTS
    NoTask = NoTask
    Shutdown = shutdown
    Quit = {quit1, quit2}
    Term = {}
    Net = {net1}
    Timed = {timer1}
    MaxTime = 1
    Early = FALSE
    IoFails = {"alone"}
SPECIFICATION FairSpec
INVARIANTS
    NeverAborts
    EarlierTasksSeeTheWorld
PROPERTIES
    EndsUnlessAsleep
CHECK_DEADLOCK FALSE
