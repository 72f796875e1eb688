\* SIGQUIT: the shutdown may hang.
CONSTANTS
    NoTask = NoTask
    Shutdown = shutdown
    Quit = {quit1}
    Term = {}
    Net = {}
    Timed = {timer1}
    MaxTime = 1
    Early = FALSE
    IoFails = {}
SPECIFICATION FairSpec
PROPERTIES
    QuitEnds
CHECK_DEADLOCK FALSE
