CONSTANTS
  Players = {p1, p2}
  Parties = {x1}
  None = None
  SelfInvites = FALSE
SPECIFICATION Spec
INVARIANT CompanionsListen
