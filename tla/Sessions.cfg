CONSTANTS
  Clients = {c1, c2, c3}
  c1 = c1
  n1 = n1
  Names = {n1, n2, n3}
  Premium = {n3}
  Casts <- MCCasts
  MaxPlayers = 2
  ReplaceKick = TRUE
  None = None
SPECIFICATION Spec
INVARIANTS
    SessionsAgree
PROPERTIES
    WaitingIsFair
    AbandonedLeave
