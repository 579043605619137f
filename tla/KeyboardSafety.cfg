SPECIFICATION Spec
CONSTANTS
  a = a
  b = b
  c = c
  m = m
  ctrl = ctrl
  NormalKeys = {a, b, c}
  MediaKeys = {}
  Modifiers = {ctrl}
  NoKey = NoKey
  HidKeyBufferSize = 2
  Reports <- DistinctReports
  Handlers = {h1}
  Releasers = {r1}
INVARIANTS
  FiredEntryHasGoroutine
  NoAbandonedKey
  ClearIsFinal
PROPERTIES
  AutoReleaseExact
  ImplementsHeldKeys
SYMMETRY Symmetry
