SPECIFICATION FairSpec
CONSTANTS
  u1 = u1
  u2 = u2
  Updaters = {u1, u2}
  Scopes <- MCScopes
  MaxRpcs = 1
  TickSeconds = 5
INVARIANTS
  Navigable
  HoldOnce
  ScreenFollowsNetwork
PROPERTIES
  DisplayComesUp
CHECK_DEADLOCK FALSE
