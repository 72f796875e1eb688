CONSTANTS
  Players = {p1, p2, p3}
  Parties = {x1, x2}
  None = None
  SelfInvites = FALSE
SPECIFICATION Spec
INVARIANTS SocietyAgrees ListenersInWorld
