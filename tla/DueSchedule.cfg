SPECIFICATION FairSpec
CONSTANTS
  Ids = {s1}
  NULL = NULL
  Intervals = {2}
  RunLimits = {2}
  Ends = {NULL}
  Budgets = {NULL}
  Costs = {1}
  MaxTime = 2
  MaxRuns = 3
  MaxSpent = 1
PROPERTY
  DueIsServed
CHECK_DEADLOCK FALSE
