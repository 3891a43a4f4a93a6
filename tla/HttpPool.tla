------------------------------ MODULE HttpPool ------------------------------
(***************************************************************************)
(* The HTTP threads of the runtime worker (src/outbound.rs): the channel   *)
(* of jobs, perform_http with its cancellation flags and the MCP           *)
(* handshake, and the channel of results.                                  *)
(*                                                                         *)
(* A thread is known only by the call it runs, so the state says where     *)
(* each call is.  The order of the two channels is left out.  Nothing here *)
(* touches the database: the SPI thread sets the flags (RuntimeWorker).    *)
(***************************************************************************)
EXTENDS Naturals, FiniteSets

CONSTANTS
  Calls,         \* the calls of the four HTTP queues
  Mcp,           \* those of kind "mcp": a handshake before the tool request
  HTTP_THREADS   \* the threads spawn_http_pool starts

ASSUME PoolAssumption ==
  /\ IsFiniteSet(Calls)
  /\ Mcp \subseteq Calls
  /\ HTTP_THREADS \in Nat \ {0}

VARIABLES
  place,    \* where each call is
  flags,    \* the calls whose entry of OUTBOUND_CANCEL_FLAGS is true
  threads,  \* the threads that could be spawned
  effects   \* how often the call's own request went out (not the handshake)

poolVars == <<place, flags, threads>>

\* A thread is about to send a request, or has sent it and waits.
Dialing == {"dial_init", "dial_note", "dial_tool"}
Waiting == {"wait_init", "wait_note", "wait_tool"}

\* The status a result carries: -1 the request was not sent, 0 its outcome is
\* not known, or the status of the answer.
Results == {"unsent", "unknown", "answered"}

Places == {"none", "job"} \cup Dialing \cup Waiting \cup Results

\* The calls a thread runs: the keys of OUTBOUND_CANCEL_FLAGS.
Running == {c \in Calls : place[c] \in Dialing \cup Waiting}

InPool == {c \in Calls : place[c] # "none"}

\* What comes back: a good answer, JSON-RPC error -32601, status 400, 404 or
\* 405, another status that is no success, an answer that is no valid result,
\* or a body that breaks off.
Answers == {"ok", "method_not_found", "no_route", "rejected", "invalid", "truncated"}
Success == {"ok", "method_not_found", "invalid", "truncated"}

PoolInit ==
  /\ place = [c \in Calls |-> "none"]
  /\ flags = {}
  /\ threads = HTTP_THREADS

\* Mutant: the flag of a finished call is left behind.
GotoKeepsFlag(c, p) ==
  /\ place' = [place EXCEPT ![c] = p]
  /\ UNCHANGED <<flags, threads>>

\* Leaving perform_http drops the CancelGuard.
Goto(c, p) ==
  /\ place' = [place EXCEPT ![c] = p]
  /\ flags' = IF p \in Results THEN flags \ {c} ELSE flags
  /\ UNCHANGED threads

\* A free thread takes a job and enters perform_http, which is over at once
\* when the URL is missing or not http(s).
Recv(c) ==
  /\ place[c] = "job"
  /\ Cardinality(Running) < threads
  /\ Goto(c, "unsent") \/ Goto(c, IF c \in Mcp THEN "dial_init" ELSE "dial_tool")
  /\ UNCHANGED effects

\* Connect and transmit, unless check_cancelled sees the flag.
Dial(c) ==
  /\ c \notin flags
  /\ \/ place[c] = "dial_init" /\ Goto(c, "wait_init") /\ UNCHANGED effects
     \/ place[c] = "dial_note" /\ Goto(c, "wait_note") /\ UNCHANGED effects
     \/ /\ place[c] = "dial_tool"
        /\ Goto(c, "wait_tool")
        /\ effects' = [effects EXCEPT ![c] = @ + 1]

\* What perform_http does with an answer.
AfterAnswer(p, a) ==
  CASE p = "wait_init" -> IF a = "ok" THEN "dial_note"
                          ELSE IF a \in {"method_not_found", "no_route"} THEN "dial_tool"
                          ELSE "unsent"
    [] p = "wait_note" -> IF a \in Success THEN "dial_tool" ELSE "unsent"
    [] p = "wait_tool" -> IF a = "truncated" THEN "unknown" ELSE "answered"

Answer(c) ==
  /\ place[c] \in Waiting
  /\ \E a \in Answers : Goto(c, AfterAnswer(place[c], a))
  /\ UNCHANGED effects

\* Mutant: an answer that never came means that nothing was sent.
AfterErrorWaiting(p) == IF p = "dial_tool" THEN "unknown" ELSE "unsent"

\* The request fails: refused by the resolver or the peer, cancelled, or timed
\* out.  Only the call's own request leaves its outcome open.
AfterError(p) == IF p \in {"dial_tool", "wait_tool"} THEN "unknown" ELSE "unsent"

Fail(c) ==
  /\ c \in Running
  /\ Goto(c, AfterError(place[c]))
  /\ UNCHANGED effects

PoolStep(c) == Recv(c) \/ Dial(c) \/ Answer(c) \/ Fail(c)

=============================================================================
