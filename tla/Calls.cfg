SPECIFICATION Spec
CONSTANTS
  a1 = a1
  a2 = a2
  Agents = {a1}
  NoAgent = NoAgent
  Compactor = NoAgent
  Delegates <- NoDelegates
  TurnLimited = {a1}
  Autonomous = {}
  MaxSteps = 2
  MaxRetries = 1
  MaxDepth = 0
  MaxSessionTasks = 1
  InitCap = 1
  Caps = {1, 2}
  ToolKinds = {"query", "read"}
  Replies = {"tool", "note", "reject", "http_error"}
  OperatorOps = {"active", "provider", "cap"}
  Faults = {"crash", "late"}
  MaxTasks = 2
  MaxSessions = 2
  MaxCalls = 3
  MaxApprovals = 0
  MaxEdits = 1
INVARIANTS
  TypeOK
  OneLiveCall
  InFlightIsRunning
  WithinCap
  ModelCallsBounded
PROPERTY
  EndedForever
CHECK_DEADLOCK FALSE
