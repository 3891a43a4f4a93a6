SPECIFICATION FairSpec
CONSTANTS
  a1 = a1
  a2 = a2
  Agents = {a1, a2}
  NoAgent = NoAgent
  Compactor = NoAgent
  Delegates <- BothWays
  TurnLimited = {}
  Autonomous = {}
  MaxSteps = 2
  MaxRetries = 0
  MaxDepth = 1
  MaxSessionTasks = 2
  InitCap = 1
  Caps = {1}
  ToolKinds = {}
  Replies = {"delegate", "await_children"}
  OperatorOps = {}
  Faults = {}
  MaxTasks = 4
  MaxSessions = 2
  MaxCalls = 8
  MaxApprovals = 0
  MaxEdits = 0
PROPERTY
  ParentsResume
CHECK_DEADLOCK FALSE
