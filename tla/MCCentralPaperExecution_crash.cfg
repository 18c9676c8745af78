SPECIFICATION Spec
CONSTANTS
  Plans <- MCPlans
  PlanExpiry <- MCExpiry
  Amount = 2
  InitialCapital = 3
  Profits <- MCProfits
  Paths = {"spot"}
  LeaseTtl = 1
  EvidenceRetryDelay = 1
  MaximumEvidenceAttempts = 2
  MaximumRecoveryAge = 1
  MaximumRecords = 1
  MaxAttempts = 2
  MaxClock = 2
  Faults = {"crash"}
  MaxFaults = 1
INVARIANTS
  TypeOK
  CapitalIsCovered
  HeldIsOwned
  PostedIsBooked
  CapitalIsExplained
  PositionsAreFunded
  CompletedIsJournaled
PROPERTIES
  ResultsAreFunded
CHECK_DEADLOCK FALSE
