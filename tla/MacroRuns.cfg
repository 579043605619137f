SPECIFICATION FairMacroSpec
CONSTANTS
  Threads = {t1, t2}
  None = None
  MaxPairs = 3
INVARIANTS
  EndedMacroHoldsNothing
PROPERTIES
  CancelledMacroEnds
