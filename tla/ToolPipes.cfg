SPECIFICATION FairSpec
CONSTANTS
  Capacity = 2
  MaxInput = 3
  MaxOutput = 3
CHECK_DEADLOCK FALSE
INVARIANTS
  OutputWhole
  JamNeedsBoth
PROPERTIES
  EndedToolIsReaped
  FittingInputReturns
