SPECIFICATION Spec
CONSTANTS
  k1 = k1
  k2 = k2
  c1 = c1
  c2 = c2
  Keys <- MCKeys
  Callers <- MCCallers
  Quantity = 1
  MaximumRecords = 1
  MaxRestarts = 0
  Faults = {"lostReply"}
INVARIANT AcceptedOrdersAreNotDenied
CHECK_DEADLOCK FALSE
