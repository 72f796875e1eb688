CONSTANTS Player = {p}
          Monster = {a, b}
          NoCreature = NoCreature
          ThinkDuration = 2
SPECIFICATION Spec
INVARIANTS
    ThinkingAgrees
    NoOrphans
CHECK_DEADLOCK FALSE
