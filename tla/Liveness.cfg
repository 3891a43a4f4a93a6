SPECIFICATION FairSpec
CONSTANTS
  a1 = a1
  a2 = a2
  Agents = {a1, a2}
  NoAgent = NoAgent
  Compactor = a2
  Delegates <- OneWay
  TurnLimited = {}
  Autonomous = {}
  MaxSteps = 2
  MaxRetries = 0
  MaxDepth = 1
  MaxSessionTasks = 2
  InitCap = 1
  Caps = {1}
  ToolKinds = {"mutate"}
  Replies = {"final", "tool", "delegate", "await_children"}
  OperatorOps = {}
  Faults = {"crash"}
  MaxTasks = 2
  MaxSessions = 2
  MaxCalls = 5
  MaxApprovals = 2
  MaxEdits = 0
PROPERTY
  EveryTaskEnds
CHECK_DEADLOCK FALSE
