-------------------------- MODULE MCRuntimeWorker --------------------------
(* Small instances of RuntimeWorker for TLC.  The embedding and probe queues  *)
(* are served as the OAuth queue is, the procedures as the functions.         *)
EXTENDS RuntimeWorker, Sequences

Served == <<"outbound", "oauth", "sql", "function_build", "function_call">>

QueueOf == [mcp1 |-> "outbound", llm1 |-> "outbound", oauth1 |-> "oauth", sql1 |-> "sql",
            fn1 |-> "function_build", call1 |-> "function_call"]

AllRows == DOMAIN QueueOf
HttpCalls == {"mcp1", "llm1", "oauth1"}
McpCalls == {"mcp1"}
CalleeOf == [call1 |-> "fn1"]

RowMixes == {HttpCalls, {"mcp1", "fn1"}, {"sql1", "fn1", "call1"}, {"mcp1", "sql1"}}
OneFunction == {{"fn1", "call1"}}
============================================================================
