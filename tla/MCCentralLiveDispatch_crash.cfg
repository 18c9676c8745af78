SPECIFICATION LiveSpec
CONSTANTS
  Plans <- MCPlans
  EffectiveExpiry <- MCExpiry
  LeaseTtl = 1
  MaximumRecords = 2
  MaxClock = 3
  MaxInFlight = 2
  MaxRestarts = 1
  Redeployments <- MCRedeployments
  Faults = {"crash"}
INVARIANTS
  TypeOK
  HandlersAreTraceable
  OutcomesAgree
PROPERTIES
  SettledForever
  PromiseKept
  PlansSettle
CHECK_DEADLOCK FALSE
