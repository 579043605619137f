SPECIFICATION FairSpec
CONSTANTS
  Streams = {s1, s2}
  ServerCap = 1
  NetCap = 1
  ClientCap = 1
  Scopes <- MCScopes
  None = None
INVARIANTS
  NeverStuck
PROPERTIES
  ImplementsEventQueue
  CallsReturn
  StreamReplaced
CHECK_DEADLOCK FALSE
