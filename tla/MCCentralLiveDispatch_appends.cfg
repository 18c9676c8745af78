SPECIFICATION Spec
CONSTANTS
  Plans <- MCTwoPlans
  EffectiveExpiry <- MCTwoExpiry
  LeaseTtl = 1
  MaximumRecords = 2
  MaxClock = 2
  MaxInFlight = 1
  MaxRestarts = 1
  Redeployments = {}
  Faults = {"crash", "failedAppend", "failedRead"}
INVARIANTS
  DispatchedWithinAuthority
  OneUnsettledDispatch
CHECK_DEADLOCK FALSE
