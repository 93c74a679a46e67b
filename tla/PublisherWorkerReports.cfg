SPECIFICATION Spec
CONSTANTS
  Workers = {w1, w2}
  MaxJobs = 2
  MaxFaults = 0
INVARIANTS
  OutcomeReported
