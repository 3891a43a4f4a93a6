----------------------------- MODULE WebServer -----------------------------
(***************************************************************************)
(* The web worker (src/web.rs): an accept loop that gives every connection *)
(* a thread, the rate windows, the dashboard token, the single-use tickets *)
(* of the event stream, and the RPC to the runtime worker over its socket  *)
(* (RpcSocket).                                                            *)
(*                                                                         *)
(* A step is what a thread does under one lock, or one exchange with the   *)
(* runtime worker.  Time is a clock of coarse ticks.  What a page or a     *)
(* reply says is left out.                                                 *)
(***************************************************************************)
EXTENDS Naturals, FiniteSets, RpcSocket

CONSTANTS
  Ips,                    \* their addresses
  NoTicket,               \* a request without a ticket
  TokenSet,               \* is ALLGRES_DASHBOARD_TOKEN set?
  MAX_WEB_THREADS,
  RATE_GENERAL_LIMIT, RATE_GENERAL_WINDOW,
  RATE_AUTH_FAIL_LIMIT, RATE_AUTH_FAIL_WINDOW,
  SSE_TICKET_TTL,
  Mixes,                  \* bounds: the requests that are made together,
  MaxTime                 \* and the ticks of the clock

ASSUME WebAssumption ==
  /\ IsFiniteSet(Conns)
  /\ Ips # {}
  /\ NoTicket \notin Conns
  /\ TokenSet \in BOOLEAN
  /\ \A mix \in Mixes : mix \subseteq [path : {"ticket", "events", "api", "other"}, bearer : BOOLEAN]
  /\ {MAX_WEB_THREADS, RATE_GENERAL_LIMIT, RATE_GENERAL_WINDOW, RATE_AUTH_FAIL_LIMIT,
      RATE_AUTH_FAIL_WINDOW, SSE_TICKET_TTL, MaxTime} \subseteq Nat
  /\ MAX_WEB_THREADS > 0

VARIABLES
  conn,         \* the connections and the threads that handle them
  web_threads,  \* WEB_THREADS
  tickets,      \* SSE_TICKETS: a ticket is named after the connection it was minted for
  general,      \* RATE_LIMIT.general: the hits, each of one connection
  auth_fail,    \* RATE_LIMIT.auth_fail
  now,          \* the clock
  streams,      \* history: the event streams that were started
  failures,     \* history: the failed authorizations
  admitted      \* history: the requests that passed the general limit

shared == <<web_threads, tickets, general, auth_fail>>
history == <<streams, failures, admitted>>
vars == <<conn, shared, rpcVars, now, history>>

\* What a request asks for: something that needs no authorization (or cannot be
\* read, or comes from another origin), a ticket, the event stream, an RPC, or
\* something that is refused or unknown after all; and does it carry the token?
Ask == [path : {"public", "ticket", "events", "api", "other"}, bearer : BOOLEAN]
Request == [ask : Ask, ticket : Conns \cup {NoTicket}]

NoRequest == [ask |-> [path |-> "public", bearer |-> FALSE], ticket |-> NoTicket]

\* Where a thread is; a connection is "new" before it is accepted and "closed"
\* at the end, or "panicked" when its thread did not get there.
Running == {"rate", "locked", "authorize", "deny", "serve", "write", "rpc", "stream", "end"}

Threads == {c \in Conns : conn[c].pc \in Running}

Goto(c, p) == conn' = [conn EXCEPT ![c].pc = p]

\* A response is the last thing a thread does before it ends.
Respond(c, status) ==
  conn' = [conn EXCEPT ![c] = [pc |-> "end", ip |-> @.ip, req |-> @.req, reply |-> status]]

Fresh(hits, window) == {h \in hits : now - h.at < window}
HitsOf(hits, ip) == {h \in hits : conn[h.by].ip = ip}

----------------------------------------------------------------------------
(* The accept loop *)

\* Mutant: the count is not taken back when no thread can be spawned.
AcceptLeaky(c) ==
  /\ conn[c].pc = "new"
  /\ \E ip \in Ips :
       IF web_threads >= MAX_WEB_THREADS
       THEN Goto(c, "closed") /\ UNCHANGED web_threads
       ELSE /\ \/ conn' = [conn EXCEPT ![c] = [pc |-> "rate", ip |-> ip, req |-> @.req, reply |-> @.reply]]
               \/ Goto(c, "closed")
            /\ web_threads' = web_threads + 1
  /\ UNCHANGED <<tickets, general, auth_fail, rpcVars, now, history>>

\* A connection is accepted: refused when all threads are taken, else counted
\* and given a thread; the count is taken back when none can be spawned.
Accept(c) ==
  /\ conn[c].pc = "new"
  /\ \E ip \in Ips :
       \/ /\ web_threads >= MAX_WEB_THREADS
          /\ conn' = [conn EXCEPT ![c] = [pc |-> "closed", ip |-> @.ip, req |-> @.req, reply |-> "503"]]
          /\ UNCHANGED web_threads
       \/ /\ web_threads < MAX_WEB_THREADS
          /\ \/ /\ conn' = [conn EXCEPT ![c] = [pc |-> "rate", ip |-> ip, req |-> @.req, reply |-> @.reply]]
                /\ web_threads' = web_threads + 1
             \/ Goto(c, "closed") /\ UNCHANGED web_threads
  /\ UNCHANGED <<tickets, general, auth_fail, rpcVars, now, history>>

\* Mutant: a thread is given back for every connection that is over.
CloseAny(c) ==
  /\ conn[c].pc \in {"end", "closed"}
  /\ Goto(c, "closed")
  /\ web_threads' = web_threads - 1
  /\ UNCHANGED <<tickets, general, auth_fail, rpcVars, now, history>>

\* The thread is done.
Close(c) ==
  /\ conn[c].pc = "end"
  /\ Goto(c, "closed")
  /\ web_threads' = web_threads - 1
  /\ UNCHANGED <<tickets, general, auth_fail, rpcVars, now, history>>

----------------------------------------------------------------------------
(* handle_web_connection *)

\* The hits of one address in the window; the others stay as they are.
Retain(hits, ip, window) == (hits \ HitsOf(hits, ip)) \cup Fresh(HitsOf(hits, ip), window)

\* Mutant: one hit too many.
UnderOrAt(hits, ip, limit) == Cardinality(HitsOf(hits, ip)) <= limit

\* rate_check: is there room for one more hit?
Under(hits, ip, limit) == Cardinality(HitsOf(hits, ip)) < limit

\* The tickets a request may carry: any that was handed out.
Offered(a) == {NoTicket} \cup
  IF a.path = "events" \/ ~a.bearer THEN {c \in Conns : conn[c].req.ask.path = "ticket"} ELSE {}

Room(c, a) ==
  \E mix \in Mixes : {conn[d].req.ask : d \in {d \in Conns : conn[d].pc \notin {"new", "rate"}}}
                       \cup {a} \subseteq mix \cup {NoRequest.ask}

\* rate_limited, then the request is read.  One that cannot be read, asks for a
\* public page or comes from another origin is answered at once.
Rate(c) ==
  /\ conn[c].pc = "rate"
  /\ LET ip == conn[c].ip
         hits == Retain(general, ip, RATE_GENERAL_WINDOW)
         hit == [by |-> c, at |-> now]
     IN IF ~Under(hits, ip, RATE_GENERAL_LIMIT)
        THEN general' = hits /\ Respond(c, "429") /\ UNCHANGED admitted
        ELSE /\ general' = hits \cup {hit}
             /\ admitted' = admitted \cup {hit}
             /\ \E a \in Ask : \E t \in Offered(a) :
                  /\ Room(c, a)
                  /\ IF a.path = "public" THEN Respond(c, "200")
                     ELSE conn' = [conn EXCEPT ![c] = [pc |-> "locked", ip |-> ip, reply |-> @.reply,
                                                       req |-> [ask |-> a, ticket |-> t]]]
  /\ UNCHANGED <<web_threads, tickets, auth_fail, rpcVars, now, streams, failures>>

\* Mutant: the lockout begins one failure late.
LockedLate(c) ==
  /\ conn[c].pc = "locked"
  /\ LET hits == Retain(auth_fail, conn[c].ip, RATE_AUTH_FAIL_WINDOW)
     IN /\ auth_fail' = hits
        /\ IF Under(hits, conn[c].ip, RATE_AUTH_FAIL_LIMIT + 1)
           THEN Goto(c, "authorize") ELSE Respond(c, "429")
  /\ UNCHANGED <<web_threads, tickets, general, rpcVars, now, history>>

\* auth_failures_exceeded
Locked(c) ==
  /\ conn[c].pc = "locked"
  /\ LET hits == Retain(auth_fail, conn[c].ip, RATE_AUTH_FAIL_WINDOW)
     IN /\ auth_fail' = hits
        /\ IF Under(hits, conn[c].ip, RATE_AUTH_FAIL_LIMIT)
           THEN Goto(c, "authorize") ELSE Respond(c, "429")
  /\ UNCHANGED <<web_threads, tickets, general, rpcVars, now, history>>

\* Mutant: expired tickets are only dropped when a ticket is minted.
ValidAll == tickets

\* valid_sse_ticket and its siblings first drop the tickets that have expired.
Valid == {t \in tickets : now - t.at < SSE_TICKET_TTL}
Named(ts, name) == {t \in ts : t.by = name}

\* Mutant: a ticket opens every path.
AuthorizeTicket(c) ==
  /\ conn[c].pc = "authorize"
  /\ LET r == conn[c].req
     IN Goto(c, IF r.ask.bearer \/ Named(Valid, r.ticket) # {} THEN "serve" ELSE "deny")
  /\ tickets' = Valid
  /\ UNCHANGED <<web_threads, general, auth_fail, rpcVars, now, history>>

\* authorized: the token, or for the event stream a ticket that is valid now.
Authorize(c) ==
  /\ conn[c].pc = "authorize"
  /\ LET r == conn[c].req
         by_ticket == TokenSet /\ ~r.ask.bearer /\ r.ask.path = "events" /\ r.ticket # NoTicket
     IN /\ tickets' = IF by_ticket THEN Valid ELSE tickets
        /\ Goto(c, IF \/ ~TokenSet
                      \/ r.ask.bearer
                      \/ by_ticket /\ Named(Valid, r.ticket) # {}
                   THEN "serve" ELSE "deny")
  /\ UNCHANGED <<web_threads, general, auth_fail, rpcVars, now, history>>

\* record_auth_failure
Deny(c) ==
  /\ conn[c].pc = "deny"
  /\ auth_fail' = auth_fail \cup {[by |-> c, at |-> now]}
  /\ failures' = failures \cup {[by |-> c, at |-> now]}
  /\ Respond(c, "401")
  /\ UNCHANGED <<web_threads, tickets, general, rpcVars, now, streams, admitted>>

Serves(c, path) == conn[c].pc = "serve" /\ conn[c].req.ask.path = path

\* POST /api/v1/events/ticket: mint_sse_ticket
Mint(c) ==
  /\ Serves(c, "ticket")
  /\ tickets' = Valid \cup {[by |-> c, at |-> now]}
  /\ Respond(c, "200")
  /\ UNCHANGED <<web_threads, general, auth_fail, rpcVars, now, history>>

\* Mutant: the ticket that was found valid stays in the map.
ConsumeKeeps(c) ==
  /\ Serves(c, "events")
  /\ LET t == Named(Valid, conn[c].req.ticket)
     IN /\ IF t = {} THEN Respond(c, "401") ELSE Goto(c, "stream")
        /\ streams' = streams \cup
             {[by |-> c, ticket |-> x.by, issued |-> x.at, at |-> now] : x \in t}
        /\ tickets' = Valid
  /\ UNCHANGED <<web_threads, general, auth_fail, rpcVars, now, failures, admitted>>

\* GET /api/v1/events: the ticket is consumed, in a second look at the map.
Consume(c) ==
  /\ Serves(c, "events")
  /\ LET t == Named(Valid, conn[c].req.ticket)
     IN IF conn[c].req.ticket = NoTicket
        THEN Respond(c, "401") /\ UNCHANGED <<tickets, streams>>
        ELSE /\ tickets' = Valid \ t
             /\ IF t = {} THEN Respond(c, "401") /\ UNCHANGED streams
                ELSE /\ Goto(c, "stream")
                     /\ streams' = streams \cup
                          {[by |-> c, ticket |-> x.by, issued |-> x.at, at |-> now] : x \in t}
  /\ UNCHANGED <<web_threads, general, auth_fail, rpcVars, now, failures, admitted>>

\* stream_events ends at its deadline or with the first write that fails.
StreamEnd(c) ==
  /\ conn[c].pc = "stream"
  /\ Respond(c, "200")
  /\ UNCHANGED <<shared, rpcVars, now, history>>

\* A method or an action that is refused, or a route nobody knows.
Refuse(c) ==
  /\ Serves(c, "other")
  /\ Respond(c, "4xx")
  /\ UNCHANGED <<shared, rpcVars, now, history>>

----------------------------------------------------------------------------
(* The RPC of api_route; RpcSocket has the runtime worker at the other end *)

\* The socket may be gone, or the request have no action to ask for.  A body that
\* is a JSON array, string or number cannot take the action's name: the thread
\* panics, and its slot is lost.
RpcConnect(c) ==
  /\ Serves(c, "api")
  /\ \/ Goto(c, "write") /\ Connected(c)
     \/ Respond(c, Status("not_ok")) /\ UNCHANGED rpcVars
     \/ Goto(c, "panicked") /\ UNCHANGED rpcVars
  /\ UNCHANGED <<shared, now, history>>

\* The request is written and the end shut down.  The write fails when the other
\* side is gone or does not read for five seconds; the request is cut then.
RpcWrite(c) ==
  /\ conn[c].pc = "write"
  /\ \/ sock[c].at # "over" /\ Goto(c, "rpc") /\ Written(c, "whole")
     \/ Respond(c, Status("not_ok")) /\ Written(c, "cut")
  /\ UNCHANGED <<shared, now, history>>

\* The answer is read to its end, or five seconds pass without it.
RpcRead(c) ==
  /\ conn[c].pc = "rpc"
  /\ \/ sock[c].at = "over" /\ Respond(c, Status(Parsed(sock[c].answer)))
     \/ sock[c].at # "over" /\ Respond(c, Status("not_ok"))
  /\ UNCHANGED <<shared, rpcVars, now, history>>

Runtime == RpcServe /\ UNCHANGED <<conn, shared, now, history>>

----------------------------------------------------------------------------
Tick ==
  /\ now < MaxTime
  /\ now' = now + 1
  /\ UNCHANGED <<conn, shared, rpcVars, history>>

Init ==
  /\ conn = [c \in Conns |-> [pc |-> "new", ip |-> CHOOSE i \in Ips : TRUE, req |-> NoRequest,
                              reply |-> "none"]]
  /\ web_threads = 0
  /\ tickets = {} /\ general = {} /\ auth_fail = {}
  /\ RpcInit
  /\ now = 0
  /\ streams = {} /\ failures = {} /\ admitted = {}

Handle(c) ==
  \/ Rate(c) \/ Locked(c) \/ Authorize(c) \/ Deny(c)
  \/ Mint(c) \/ Consume(c) \/ StreamEnd(c) \/ Refuse(c)
  \/ RpcConnect(c) \/ RpcWrite(c) \/ RpcRead(c) \/ Close(c)

Next ==
  \/ \E c \in Conns : Accept(c) \/ Handle(c)
  \/ Runtime
  \/ Tick

Spec == Init /\ [][Next]_vars

----------------------------------------------------------------------------
Hits == [by : Conns, at : 0..MaxTime]

TypeOK ==
  /\ conn \in [Conns -> [pc : Running \cup {"new", "closed", "panicked"}, ip : Ips, req : Request,
                         reply : {"none", "200", "400", "401", "429", "4xx", "503"}]]
  /\ web_threads \in 0..MAX_WEB_THREADS
  /\ tickets \subseteq Hits /\ general \subseteq Hits /\ auth_fail \subseteq Hits
  /\ sock \in [Conns -> [at : Handled \cup {"none", "backlog", "over"}, nr : 0..arrivals,
                         input : {"empty", "cut", "whole"}, answer : Json \cup {"none"}]]
  /\ arrivals \in Nat /\ ready \in BOOLEAN /\ done \subseteq Conns
  /\ now \in 0..MaxTime
  /\ streams \subseteq [by : Conns, ticket : Conns, issued : 0..MaxTime, at : 0..MaxTime]
  /\ failures \subseteq Hits /\ admitted \subseteq Hits

\* WEB_THREADS counts the connections that have a thread, and those whose thread
\* panicked: no refused, failed or finished connection takes a slot away, and
\* the limit is kept.
ThreadsExact ==
  /\ web_threads = Cardinality(Threads \cup {c \in Conns : conn[c].pc = "panicked"})
  /\ web_threads <= MAX_WEB_THREADS

\* A ticket starts one event stream at most, though two connections may both
\* have found it valid before either consumed it.
TicketOnce == \A s, t \in streams : s.ticket = t.ticket => s = t

\* A stream starts within the lifetime of its ticket, however long its request
\* took from the check to the use.
TicketFresh == \A s \in streams : s.at - s.issued < SSE_TICKET_TTL

\* The hits of an address in the window that ends at t.
InWindow(hits, ip, t, window) == {h \in HitsOf(hits, ip) : h.at <= t /\ t - h.at < window}

\* No address gets more requests through in any window than the limit allows:
\* the window slides, it is not a bucket that is emptied.
RateKept ==
  \A ip \in Ips, t \in 0..now :
    Cardinality(InWindow(admitted, ip, t, RATE_GENERAL_WINDOW)) <= RATE_GENERAL_LIMIT

\* The lockout is checked before the token and the failure counted after it,
\* so threads that were already past the check may fail too, but no more than
\* there are threads beside the one that reaches the limit.
LockoutBounded ==
  \A ip \in Ips, t \in 0..now :
    Cardinality(InWindow(failures, ip, t, RATE_AUTH_FAIL_WINDOW))
      < RATE_AUTH_FAIL_LIMIT + MAX_WEB_THREADS

\* With a token set, nothing is minted, streamed or asked of the runtime worker
\* for a request that did not carry it, or a ticket minted for one that did.
OnlyAuthorized ==
  TokenSet =>
    /\ \A c \in Conns : sock[c].at # "none" => conn[c].req.ask.bearer
    /\ \A t \in tickets : conn[t.by].req.ask.bearer
    /\ \A s \in streams : conn[s.ticket].req.ask.bearer

\* A client that is told its RPC succeeded can rely on it, though the web worker
\* takes every answer for a success that does not say otherwise: the runtime
\* worker has executed and committed it, and neither a restart, a refusal, an
\* answer cut off nor one that never came reads as a success.  (Told that it
\* failed, a client knows nothing: it may have been, or may yet be, executed.)
OkIsExecuted ==
  \A c \in Conns : conn[c].req.ask.path = "api" /\ conn[c].reply = "200" => c \in done

\* What the runtime worker executes, it executes in the order in which it was
\* asked: a request whose client gave up waiting may be executed late, but never
\* after one that was made later and so undo what that one did.
ExecutedInOrder ==
  [][\A c \in done' \ done, d \in done : sock[d].nr < sock[c].nr]_vars

=============================================================================
