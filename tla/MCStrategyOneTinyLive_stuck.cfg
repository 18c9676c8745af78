SPECIFICATION Spec
CONSTANTS
  a1 = a1
  a2 = a2
  Attempts <- MCAttempts
  MaximumDailyAttempts = 1
  MaxLog = 6
  MaxRestarts = 1
  Faults = {"crash"}
SYMMETRY Symmetry
INVARIANTS
  ResolutionReopens
CHECK_DEADLOCK FALSE
