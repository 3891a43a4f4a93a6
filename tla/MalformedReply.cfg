SPECIFICATION Spec
CONSTANTS
  a1 = a1
  a2 = a2
  Agents = {a1}
  NoAgent = NoAgent
  Compactor = NoAgent
  Delegates <- NoDelegates
  TurnLimited = {}
  Autonomous = {}
  MaxSteps = 2
  MaxRetries = 0
  MaxDepth = 0
  MaxSessionTasks = 1
  InitCap = 1
  Caps = {1}
  ToolKinds = {}
  Replies = {"final", "raise"}
  OperatorOps = {}
  Faults = {}
  MaxTasks = 1
  MaxSessions = 1
  MaxCalls = 3
  MaxApprovals = 0
  MaxEdits = 0
INVARIANT
  ModelCallsBounded
CHECK_DEADLOCK FALSE
