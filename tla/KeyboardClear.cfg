SPECIFICATION FairSpec
CONSTANTS
  a = a
  b = b
  c = c
  m = m
  ctrl = ctrl
  NormalKeys = {a}
  MediaKeys = {}
  Modifiers = {ctrl}
  NoKey = NoKey
  HidKeyBufferSize = 1
  Reports <- DistinctReports
  Handlers = {h1}
  Releasers = {r1}
PROPERTIES
  ClearAlwaysFinal
