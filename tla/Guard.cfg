SPECIFICATION Spec
CONSTANTS
  a1 = a1
  a2 = a2
  Agents = {a1}
  NoAgent = NoAgent
  Compactor = NoAgent
  Delegates <- NoDelegates
  TurnLimited = {a1}
  Autonomous = {a1}
  MaxSteps = 4
  MaxRetries = 1
  MaxDepth = 1
  MaxSessionTasks = 4
  InitCap = 1
  Caps = {1}
  ToolKinds = {"mutate", "local"}
  Replies = {"tool", "await_human", "change", "raise"}
  OperatorOps = {"cancel", "rule", "permission"}
  Faults = {"crash", "drop", "late"}
  MaxTasks = 1
  MaxSessions = 1
  MaxCalls = 3
  MaxApprovals = 3
  MaxEdits = 2
INVARIANTS
  OneLiveCall
  InFlightIsRunning
  HumanIsAsked
  SentAsApproved
  AmbiguousNeedsHuman
  SessionOpenIffWork
PROPERTY
  EndedForever
CHECK_DEADLOCK FALSE
