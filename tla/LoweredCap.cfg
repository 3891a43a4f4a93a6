SPECIFICATION FairSpec
CONSTANTS
  a1 = a1
  a2 = a2
  Agents = {a1}
  NoAgent = NoAgent
  Compactor = NoAgent
  Delegates <- NoDelegates
  TurnLimited = {}
  Autonomous = {}
  MaxSteps = 2
  MaxRetries = 0
  MaxDepth = 0
  MaxSessionTasks = 1
  InitCap = 2
  Caps = {1, 2}
  ToolKinds = {}
  Replies = {"final", "note"}
  OperatorOps = {"cap"}
  Faults = {}
  MaxTasks = 2
  MaxSessions = 2
  MaxCalls = 4
  MaxApprovals = 0
  MaxEdits = 1
PROPERTY
  RunningGoesOn
CHECK_DEADLOCK FALSE
