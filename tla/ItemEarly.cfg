\* The assertion of testReleaseExpiration.
CONSTANTS
    Item = {item1}
    Delays = {2}
    MaxTime = 5
    MaxTasks = 3
SPECIFICATION Spec
INVARIANTS
    ExpiryIsDue
CHECK_DEADLOCK FALSE
