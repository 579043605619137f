SPECIFICATION Spec
CONSTANTS
  Threads = {t1, t2}
  Qualities = {10}
  FirstQuality = 10
  FirstSource <- HD60
  Scopes <- RaceScopes
  NoThread = NoThread
  NoSignal = NoSignal
INVARIANT HandlesSound
CHECK_DEADLOCK FALSE
