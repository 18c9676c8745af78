SPECIFICATION LiveSpec
CONSTANTS
  Plans <- MCOnePlan
  PlanExpiry <- MCOneExpiry
  Amount = 2
  InitialCapital = 3
  Profits <- MCLoss
  Paths = {"spot", "inverse"}
  LeaseTtl = 1
  EvidenceRetryDelay = 1
  MaximumEvidenceAttempts = 2
  MaximumRecoveryAge = 1
  MaximumRecords = 1
  MaxAttempts = 2
  MaxClock = 3
  Faults = {"crash", "failedAppend"}
  MaxFaults = 1
PROPERTIES
  PlansEnd
  CapitalComesBack
CHECK_DEADLOCK FALSE
