SPECIFICATION Spec
CONSTANTS
  a1 = a1
  a2 = a2
  Agents = {a1, a2}
  NoAgent = NoAgent
  Compactor = NoAgent
  Delegates <- BothWays
  TurnLimited = {a1}
  Autonomous = {}
  MaxSteps = 4
  MaxRetries = 0
  MaxDepth = 2
  MaxSessionTasks = 3
  InitCap = 1
  Caps = {1}
  ToolKinds = {}
  Replies = {"final", "http_error", "delegate", "await_children"}
  OperatorOps = {"continue", "cancel"}
  Faults = {}
  MaxTasks = 3
  MaxSessions = 1
  MaxCalls = 5
  MaxApprovals = 0
  MaxEdits = 0
INVARIANTS
  SessionOpenIffWork
  ChainsAcyclic
  RootAnswerWins
PROPERTY
  ImplementsSession
CHECK_DEADLOCK FALSE
