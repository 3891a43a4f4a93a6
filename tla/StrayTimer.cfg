SPECIFICATION Spec
CONSTANTS
  Calls <- HttpCalls
  Mcp <- McpCalls
  HTTP_THREADS = 1
  Rows <- AllRows
  Queue <- QueueOf
  Callee <- CalleeOf
  Stages <- Served
  Mixes <- OneFunction
  MaxBody = 1
  Faults = {}
  MaxFaults = 1
INVARIANT NoStrayInterrupt
