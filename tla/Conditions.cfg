CONSTANTS
  Books <- MCBooks
  RingSpeed = 1
  PzTicks = 2
  SkullTicks = 3
  Lag = 2
  Never = Never
  Null = Null
SPECIFICATION ConditionsSpec
INVARIANTS
    ConditionsAgree
    HasteOrParalysed
PROPERTIES
    LockFades
