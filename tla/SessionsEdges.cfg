SPECIFICATION FairSpec
CONSTANTS
  Sessions = {s1, s2}
  None = None
  HideWhenIdle = TRUE
  NativeCrashes = TRUE
INVARIANTS
  CountExact
  AudioTrackAlive
  VideoOffWhenIdle
  DisplayShown
PROPERTIES
  IdleSleeps
