SPECIFICATION Spec
CONSTANTS
  Payloads = {s1, s2}
  Blank = blank
  MaxLength = 7
INVARIANTS
  RestartReadsSummary
PROPERTIES
  SummaryIsExact
CHECK_DEADLOCK FALSE
