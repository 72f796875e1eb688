CONSTANTS Message = {m1, m2, m3}
          NoMessage = NoMessage
          SlowLimit = 100
          ForceCloseSlow = TRUE
SPECIFICATION FairSpec
INVARIANTS
    NoFault
    Accounted
    SealedWhenWritten
PROPERTIES
    ClosingEnds
CHECK_DEADLOCK FALSE
