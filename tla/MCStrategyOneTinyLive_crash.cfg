SPECIFICATION Spec
CONSTANTS
  a1 = a1
  a2 = a2
  Attempts <- MCAttempts
  MaximumDailyAttempts = 1
  MaxLog = 7
  MaxRestarts = 1
  Faults = {"crash", "failedAppend", "lostReply"}
SYMMETRY Symmetry
INVARIANTS
  TypeOK
  OneAttemptAtATime
  DailyCapKept
  DispatchIsAuthorized
  ExposureBlocks
  VerdictsAreTrue
  ResolutionsAreTrue
  GateIsHonest
CHECK_DEADLOCK FALSE
