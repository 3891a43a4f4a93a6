SPECIFICATION FairSpec
CONSTANTS
  Calls <- HttpCalls
  Mcp <- McpCalls
  HTTP_THREADS = 1
  Rows <- AllRows
  Queue <- QueueOf
  Callee <- CalleeOf
  Stages <- Served
  Mixes <- RowMixes
  MaxBody = 2
  Faults = {"crash", "role", "spawn"}
  MaxFaults = 1
INVARIANTS
  TypeOK InFlightExact FlaggedIsLost UnsentIsUnsent BuiltIsCurrent AlwaysGuarded
PROPERTIES
  CancelStops ImplementsCallQueue 
