SPECIFICATION LiveSpec
CONSTANTS
  c1 = c1
  c2 = c2
  Callers <- MCCallers
  Quantity = 2
  FeeDivisor = 2
  FeeAssets = {"base"}
  MakerSides = {"buy"}
  MaximumBaseFee = 1
  MaximumQuoteFee = 0
  Tolerance = 0
  MaximumExposure = 0
  MaximumRecovery = 1
  MaximumReads = 1
  Faults = {"crash", "failedAppend", "lostReply", "fullStore"}
  MaxFaults = 1
INVARIANTS
  TypeOK
  HedgeIsExact
  SettlementIsTrue
  OutcomesAgree
  OutcomesAreTrue
  RecoveryIsTheResidual
PROPERTIES
  OrdersAreSettled
CHECK_DEADLOCK FALSE
