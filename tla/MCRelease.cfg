SPECIFICATION ReleaseSpec
CONSTANTS
  w1 = w1
  w2 = w2
  Workers = {w1, w2}
  MaxJobs = 3
  MaxFaults = 1
SYMMETRY WorkerSymmetry
INVARIANTS
  ShownOrReplaced
  OneJobSucceeds
  NoRepair
PROPERTIES
  StrandedForGood
