SPECIFICATION FairSpec
CONSTANTS
  Clients = {c1, c2}
  Fds = {3, 4, 5, 6, 7, 8}
  Runs = 2
INVARIANTS
  ReadNeverBlocks
  ResourcesSound
PROPERTIES
  ClientsServed
CHECK_DEADLOCK FALSE
