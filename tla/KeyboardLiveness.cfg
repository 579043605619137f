SPECIFICATION FairSpec
CONSTANTS
  a = a
  b = b
  c = c
  m = m
  ctrl = ctrl
  NormalKeys = {a}
  MediaKeys = {m}
  Modifiers = {}
  NoKey = NoKey
  HidKeyBufferSize = 1
  Reports <- DistinctReports
  Handlers = {h1}
  Releasers = {r1, r2}
PROPERTIES
  SilenceReleasesKeys
