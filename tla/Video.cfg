SPECIFICATION FairSpec
CONSTANTS
  Threads = {t1, t2}
  Qualities = {4, 10}
  FirstQuality = 10
  FirstSource <- HD60
  Scopes <- MCScopes
  NoThread = NoThread
  NoSignal = NoSignal
INVARIANTS
  HandlesApart
  CallsHonoured
  ReaderWithinChannel
  BlocksReturned
  AwakeWhileStreaming
  EncoderRight
  NoWaitForEver
PROPERTIES
  ControlReturns
CHECK_DEADLOCK FALSE
