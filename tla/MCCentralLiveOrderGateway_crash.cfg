SPECIFICATION Spec
CONSTANTS
  k1 = k1
  k2 = k2
  c1 = c1
  c2 = c2
  Keys <- MCKeys
  Callers <- MCCallers
  Quantity = 2
  MaximumRecords = 1
  MaxRestarts = 1
  Faults = {"crash", "failedAppend", "lostReply"}
SYMMETRY Symmetry
INVARIANTS
  TypeOK
  SubmittedAtMostOnce
  SubmissionsAreJournaled
  FinalResultsAreFinal
  FillsAreReal
CHECK_DEADLOCK FALSE
