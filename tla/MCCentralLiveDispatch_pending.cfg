SPECIFICATION Spec
CONSTANTS
  Plans <- MCPlans
  EffectiveExpiry <- MCExpiry
  LeaseTtl = 1
  MaximumRecords = 2
  MaxClock = 2
  MaxInFlight = 2
  MaxRestarts = 1
  Redeployments = {}
  Faults = {"crash"}
INVARIANT PendingStaysResumable
CHECK_DEADLOCK FALSE
