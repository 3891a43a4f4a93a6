----------------------------- MODULE RpcSocket -----------------------------
(***************************************************************************)
(* The socket between the web worker and the runtime worker: one exchange  *)
(* for each web connection that asks for it.  The web thread connects,     *)
(* writes the request and shuts its end down, and reads to the end (rpc in *)
(* src/web.rs); the runtime worker takes the connections one at a time, in *)
(* the order in which they were made (allgres_runtime_main), reads each to *)
(* its end and writes an answer (src/rpc.rs).                              *)
(*                                                                         *)
(* Either side gives up after some seconds, and the runtime worker may end *)
(* at any time; neither is told what the other had done by then.  Of an    *)
(* answer only its "ok" is kept.                                           *)
(***************************************************************************)
EXTENDS Naturals

CONSTANT Conns            \* the connections of the web worker

VARIABLES
  sock,         \* their connections to the runtime worker
  arrivals,     \* how many were made
  ready,        \* the runtime worker: did the last pump find the extension?
  done          \* history: the requests that dashboard_rpc executed and committed

rpcVars == <<sock, arrivals, ready, done>>

\* "ok": true, no "ok" at all, and "ok": false
Json == {"ok", "silent", "not_ok"}

\* Where a connection is: in the listener's backlog, at the runtime worker, or
\* closed by it.  nr is its place in the order of the connects; input is what the
\* web thread wrote before it shut its end down; answer is what it can read.
Handled == {"reading", "replying"}
NoSock == [at |-> "none", nr |-> 0, input |-> "empty", answer |-> "none"]

----------------------------------------------------------------------------
(* The web thread *)

Connected(c) ==
  /\ arrivals' = arrivals + 1
  /\ sock' = [sock EXCEPT ![c] = [at |-> "backlog", nr |-> arrivals + 1, input |-> "empty",
                                  answer |-> "none"]]
  /\ UNCHANGED <<ready, done>>

Written(c, input) ==
  /\ sock' = [sock EXCEPT ![c] = [at |-> @.at, nr |-> @.nr, input |-> input, answer |-> @.answer]]
  /\ UNCHANGED <<arrivals, ready, done>>

\* Mutant: an answer that cannot be parsed is taken for an empty object, as the
\* body of a request is.
ParsedEmpty(answer) == IF answer \in Json THEN answer ELSE "silent"

\* rpc: an answer that is missing or cut is an error like any other.
Parsed(answer) == IF answer \in Json THEN answer ELSE "not_ok"

\* Only an "ok" that is false makes the response an error.
Status(json) == IF json = "not_ok" THEN "400" ELSE "200"

----------------------------------------------------------------------------
(* The runtime worker *)

\* Mutant: a connection is accepted while another is being handled.
RpcAcceptMany(c) ==
  /\ sock[c].at = "backlog"
  /\ \A d \in Conns : sock[d].at = "backlog" => sock[c].nr <= sock[d].nr
  /\ sock' = [sock EXCEPT ![c] = [at |-> "reading", nr |-> @.nr, input |-> @.input, answer |-> @.answer]]
  /\ UNCHANGED <<arrivals, ready, done>>

\* The loop accepts the oldest connection once it is done with the one before.
RpcAccept(c) ==
  /\ sock[c].at = "backlog"
  /\ \A d \in Conns : /\ sock[d].at \notin Handled
                      /\ sock[d].at = "backlog" => sock[c].nr <= sock[d].nr
  /\ sock' = [sock EXCEPT ![c] = [at |-> "reading", nr |-> @.nr, input |-> @.input, answer |-> @.answer]]
  /\ UNCHANGED <<arrivals, ready, done>>

Answers(c, json) ==
  sock' = [sock EXCEPT ![c] = [at |-> "replying", nr |-> @.nr, input |-> @.input, answer |-> json]]

\* dashboard_rpc, in a transaction of its own: it is rolled back when privileges
\* cannot be dropped or the statement raises, else it commits and then answers.
\* It may commit and still say no, as of an action that has no result.
dashboard_rpc(c) ==
  \/ Answers(c, "not_ok") /\ UNCHANGED done
  \/ \E json \in Json : Answers(c, json) /\ done' = done \cup {c}

\* handle_rpc_stream: two seconds pass without the end of the request, or it ends
\* too early; it is too long; the extension is not there (yet); or it is executed.
RpcReceive(c) ==
  /\ sock[c].at = "reading"
  /\ \/ sock[c].input # "whole" /\ Answers(c, "not_ok") /\ UNCHANGED done
     \/ sock[c].input = "whole" /\ Answers(c, "not_ok") /\ UNCHANGED done
     \/ sock[c].input = "whole" /\ ready /\ dashboard_rpc(c)
  /\ UNCHANGED <<arrivals, ready>>

\* The answer is written, whole or (within two seconds) not, and the connection
\* closed.
RpcReply(c) ==
  /\ sock[c].at = "replying"
  /\ \E answer \in {sock[c].answer, "none"} :
       sock' = [sock EXCEPT ![c] = [at |-> "over", nr |-> @.nr, input |-> @.input, answer |-> answer]]
  /\ UNCHANGED <<arrivals, ready, done>>

\* A pump looks for the extension again.  (Before the first connection nobody can
\* tell.)
RpcPump ==
  /\ arrivals > 0
  /\ \A d \in Conns : sock[d].at \notin Handled
  /\ ready' = ~ready
  /\ UNCHANGED <<sock, arrivals, done>>

\* The runtime worker ends and is restarted: its connections and the backlog go
\* with the old socket, and no request is executed before the first pump.
RuntimeEnds ==
  /\ arrivals > 0
  /\ sock' = [d \in Conns |->
                IF sock[d].at \in Handled \cup {"backlog"}
                THEN [at |-> "over", nr |-> sock[d].nr, input |-> sock[d].input, answer |-> "none"]
                ELSE sock[d]]
  /\ ready' = FALSE
  /\ UNCHANGED <<arrivals, done>>

RpcInit ==
  /\ sock = [c \in Conns |-> NoSock]
  /\ arrivals = 0
  /\ ready = FALSE
  /\ done = {}

RpcServe ==
  \/ \E c \in Conns : RpcAccept(c) \/ RpcReceive(c) \/ RpcReply(c)
  \/ RpcPump
  \/ RuntimeEnds

============================================================================
