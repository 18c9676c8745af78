SPECIFICATION Spec
CONSTANTS
  a1 = a1
  a2 = a2
  Attempts <- MCAttempts
  MaximumDailyAttempts = 1
  MaxLog = 7
  MaxRestarts = 1
  Faults = {"crash"}
SYMMETRY Symmetry
INVARIANTS
  AuthorityJournalReplays
CHECK_DEADLOCK FALSE
