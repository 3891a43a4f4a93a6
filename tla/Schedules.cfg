SPECIFICATION Spec
CONSTANTS
  Ids = {s1}
  NULL = NULL
  Intervals = {1, 2}
  RunLimits = {1, 2, NULL}
  Ends = {2, NULL}
  Budgets = {2, NULL}
  Costs = {0, 1}
  MaxTime = 5
  MaxRuns = 3
  MaxSpent = 2
INVARIANT
  TypeOK
PROPERTIES
  NoRunPastLimit
  NoBurst
CHECK_DEADLOCK FALSE
