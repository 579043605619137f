SPECIFICATION FairSpec
CONSTANTS
  Radix = 2
  BlockSize = 2
  DefaultEDID <- MCDefault
  Inputs <- MCInputs
  Rotations = {90, 270, 45}
  Updates = {u1, u2}
  Drawers = {d1, d2}
  Blinkers = {b1, b2, b3, b4}
  Window = 6
  MaxRestarts = 3
  Scopes <- MCScopes
INVARIANTS
  DeviceMatchesConfig
  EdidSound
  PanelOriented
  DisplayRestored
  StatusWhole
PROPERTIES
  ComesToRest
CHECK_DEADLOCK FALSE
