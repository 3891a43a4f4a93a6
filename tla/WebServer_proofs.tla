-------------------------- MODULE WebServer_proofs --------------------------
(***************************************************************************)
(* Proofs about WebServer, for every number of connections, addresses and  *)
(* threads and every limit, window and lifetime.                           *)
(***************************************************************************)
EXTENDS WebServer, FiniteSetTheorems, TLAPS

Pcs == Running \cup {"new", "closed", "panicked"}
Replies == {"none", "200", "400", "401", "429", "4xx", "503"}
Conn == [pc : Pcs, ip : Ips, req : Request, reply : Replies]
Over == {"end", "closed"}

\* A step of connection c moves it to p, with request r and reply s.
Moved(c, p, r, s) ==
  \A d \in Conns : conn'[d] = IF d = c THEN [pc |-> p, ip |-> conn[c].ip, req |-> r, reply |-> s]
                              ELSE conn[d]

\* Goto moves a thread and nothing else.
LEMMA GotoFacts ==
  ASSUME conn \in [Conns -> Conn], NEW c \in Conns, NEW p \in Pcs, Goto(c, p)
  PROVE  /\ conn' \in [Conns -> Conn]
         /\ Moved(c, p, conn[c].req, conn[c].reply)
BY DEF Goto, Moved, Conn

\* Respond ends a thread with a reply.
LEMMA RespondFacts ==
  ASSUME conn \in [Conns -> Conn], NEW c \in Conns, NEW s \in Replies, Respond(c, s)
  PROVE  /\ conn' \in [Conns -> Conn]
         /\ Moved(c, "end", conn[c].req, s)
BY DEF Respond, Moved, Conn, Pcs, Running

\* Where a thread is after Goto, whatever the place.
LEMMA GotoPc ==
  ASSUME conn \in [Conns -> Conn], NEW c \in Conns, NEW p, Goto(c, p)
  PROVE  conn'[c].pc = p
BY DEF Goto, Conn

\* Where it is after Respond, and with which reply.
LEMMA RespondPc ==
  ASSUME conn \in [Conns -> Conn], NEW c \in Conns, NEW s, Respond(c, s)
  PROVE  conn'[c].pc = "end" /\ conn'[c].reply = s
BY DEF Respond

----------------------------------------------------------------------------
\* The moves of a connection.
Edges ==
  {<<"new", "rate">>, <<"new", "closed">>, <<"rate", "end">>, <<"rate", "locked">>,
   <<"locked", "end">>, <<"locked", "authorize">>, <<"authorize", "serve">>,
   <<"authorize", "deny">>, <<"deny", "end">>, <<"serve", "end">>, <<"serve", "stream">>,
   <<"serve", "write">>, <<"serve", "panicked">>, <<"stream", "end">>, <<"write", "rpc">>,
   <<"write", "end">>, <<"rpc", "end">>,
   <<"end", "closed">>}

\* What a step of c does to the connections: the others stay, c follows an edge,
\* its address is fixed once it is accepted and its request once it is read.
Moves(c) ==
  /\ conn' \in [Conns -> Conn]
  /\ \A d \in Conns : d # c => conn'[d] = conn[d]
  /\ <<conn[c].pc, conn'[c].pc>> \in Edges
  /\ conn[c].pc # "new" => conn'[c].ip = conn[c].ip
  /\ conn'[c].pc = "locked" \/ conn'[c].req = conn[c].req
  /\ conn'[c].pc = "locked" => conn'[c].req.ask.path # "public"
  /\ conn'[c].pc \in Over \/ conn'[c].reply = conn[c].reply
  /\ conn[c].pc = "end" => conn'[c].reply = conn[c].reply

\* A move that keeps address and request.
LEMMA PlainMove ==
  ASSUME conn \in [Conns -> Conn], NEW c \in Conns, NEW p \in Pcs, NEW s \in Replies,
         conn' \in [Conns -> Conn], Moved(c, p, conn[c].req, s),
         <<conn[c].pc, p>> \in Edges, p # "locked",
         p \in Over \/ s = conn[c].reply,
         conn[c].pc = "end" => s = conn[c].reply
  PROVE  Moves(c)
<1>1. conn'[c] = [pc |-> p, ip |-> conn[c].ip, req |-> conn[c].req, reply |-> s]
  BY DEF Moved
<1>2. \A d \in Conns : d # c => conn'[d] = conn[d]
  BY DEF Moved
<1>3. conn'[c].pc = p /\ conn'[c].ip = conn[c].ip /\ conn'[c].req = conn[c].req /\ conn'[c].reply = s
  BY <1>1
<1> QED BY <1>2, <1>3 DEF Moves

\* A thread that goes on or responds.
LEMMA GotoMoves ==
  ASSUME conn \in [Conns -> Conn], NEW c \in Conns, NEW p \in Pcs, Goto(c, p),
         <<conn[c].pc, p>> \in Edges, p # "locked"
  PROVE  Moves(c) /\ conn'[c].pc = p /\ conn'[c].reply = conn[c].reply
<1>1. conn' \in [Conns -> Conn] /\ Moved(c, p, conn[c].req, conn[c].reply)
  BY GotoFacts
<1>2. conn[c].reply \in Replies
  BY DEF Conn
<1>3. Moves(c)
  BY <1>1, <1>2, PlainMove
<1> QED BY <1>1, <1>3 DEF Moved

\* A thread that responds is at its end, with that reply.
LEMMA RespondMoves ==
  ASSUME conn \in [Conns -> Conn], NEW c \in Conns, NEW s \in Replies, Respond(c, s),
         conn[c].pc \in {"rate", "locked", "deny", "serve", "stream", "write", "rpc"}
  PROVE  Moves(c) /\ conn'[c].pc = "end" /\ conn'[c].reply = s
<1>1. conn' \in [Conns -> Conn] /\ Moved(c, "end", conn[c].req, s)
  BY RespondFacts
<1>2. <<conn[c].pc, "end">> \in Edges /\ "end" \in Pcs
  BY DEF Edges, Pcs, Running
<1>3. Moves(c)
  BY <1>1, <1>2, PlainMove, ZenonT(30) DEF Over
<1> QED BY <1>1, <1>3 DEF Moved

\* An accepted connection.
LEMMA AcceptMoves ==
  ASSUME conn \in [Conns -> Conn], NEW c \in Conns, Accept(c)
  PROVE  /\ Moves(c)
         /\ conn[c].pc = "new"
         /\ \/ /\ conn'[c].pc = "rate"
               /\ web_threads < MAX_WEB_THREADS
               /\ web_threads' = web_threads + 1
            \/ conn'[c].pc = "closed" /\ web_threads' = web_threads
<1>1. CASE /\ \E ip \in Ips : conn' = [conn EXCEPT ![c] = [pc |-> "rate", ip |-> ip, req |-> @.req,
                                                           reply |-> @.reply]]
           /\ web_threads < MAX_WEB_THREADS
           /\ web_threads' = web_threads + 1
  <2>1. PICK ip \in Ips : conn' = [conn EXCEPT ![c] = [pc |-> "rate", ip |-> ip, req |-> @.req, reply |-> @.reply]]
    BY <1>1, ZenonT(30)
  <2>2. conn' \in [Conns -> Conn]
    BY <2>1 DEF Conn, Pcs, Running
  <2>3. conn'[c] = [pc |-> "rate", ip |-> ip, req |-> conn[c].req, reply |-> conn[c].reply]
    BY <2>1
  <2>4. conn'[c].pc = "rate" /\ conn'[c].req = conn[c].req /\ conn'[c].reply = conn[c].reply
    BY <2>3
  <2>5. \A d \in Conns : d # c => conn'[d] = conn[d]
    BY <2>1, ZenonT(30)
  <2>6. Moves(c)
    BY <2>2, <2>4, <2>5, ZenonT(30) DEF Moves, Edges, Accept
  <2> QED BY <1>1, <2>4, <2>6 DEF Accept
<1>2. CASE conn' = [conn EXCEPT ![c] = [pc |-> "closed", ip |-> @.ip, req |-> @.req, reply |-> "503"]] /\ UNCHANGED web_threads
  <2>1. conn' \in [Conns -> Conn]
    BY <1>2 DEF Conn, Pcs, Replies
  <2>2. Moved(c, "closed", conn[c].req, "503")
    BY <1>2 DEF Moved
  <2>3. conn[c].pc = "new" /\ "closed" \in Pcs /\ "503" \in Replies
    BY DEF Accept, Pcs, Replies
  <2>4. <<conn[c].pc, "closed">> \in Edges
    BY <2>3 DEF Edges
  <2>5. Moves(c)
    BY <2>1, <2>2, <2>3, <2>4, PlainMove, ZenonT(30) DEF Over
  <2> QED BY <1>2, <2>2, <2>3, <2>5, ZenonT(30) DEF Moved
<1>3. CASE Goto(c, "closed") /\ UNCHANGED web_threads
  <2>1. conn[c].pc = "new" /\ "closed" \in Pcs
    BY DEF Accept, Pcs
  <2>2. <<conn[c].pc, "closed">> \in Edges
    BY <2>1, ZenonT(30) DEF Edges
  <2> QED BY <1>3, <2>1, <2>2, GotoMoves, ZenonT(30)
<1> QED BY <1>1, <1>2, <1>3, ZenonT(30) DEF Accept

----------------------------------------------------------------------------

\* A request that passed the general limit, or did not.
LEMMA RateMoves ==
  ASSUME conn \in [Conns -> Conn], NEW c \in Conns, Rate(c)
  PROVE  /\ Moves(c)
         /\ conn[c].pc = "rate"
         /\ \/ conn'[c].pc = "end" /\ conn'[c].reply \in {"429", "200"}
            \/ conn'[c].pc = "locked"
<1>0. conn[c].pc = "rate"
  BY DEF Rate
<1>1. CASE Respond(c, "429") \/ Respond(c, "200")
  BY <1>0, <1>1, RespondMoves, ZenonT(30) DEF Replies
<1>2. CASE \E a \in Ask : \E tk \in Offered(a) :
             /\ a.path # "public"
             /\ conn' = [conn EXCEPT ![c] = [pc |-> "locked", ip |-> conn[c].ip, reply |-> @.reply,
                                             req |-> [ask |-> a, ticket |-> tk]]]
  <2>1. PICK a \in Ask : \E tk \in Offered(a) :
             /\ a.path # "public"
             /\ conn' = [conn EXCEPT ![c] = [pc |-> "locked", ip |-> conn[c].ip, reply |-> @.reply,
                                             req |-> [ask |-> a, ticket |-> tk]]]
    BY <1>2, ZenonT(30)
  <2>2. PICK tk \in Offered(a) :
             /\ a.path # "public"
             /\ conn' = [conn EXCEPT ![c] = [pc |-> "locked", ip |-> conn[c].ip, reply |-> @.reply,
                                             req |-> [ask |-> a, ticket |-> tk]]]
    BY <2>1, ZenonT(30)
  <2>3. tk \in Conns \cup {NoTicket}
    BY DEF Offered
  <2> DEFINE r == [ask |-> a, ticket |-> tk]
  <2>4. r \in Request /\ r.ask.path # "public"
    BY <2>2, <2>3, ZenonT(30) DEF Request
  <2>5. conn' = [conn EXCEPT ![c] = [pc |-> "locked", ip |-> conn[c].ip, reply |-> @.reply, req |-> r]]
    BY <2>2, ZenonT(30)
  <2> HIDE DEF r
  <2>6. conn' \in [Conns -> Conn]
    BY <2>4, <2>5, ZenonT(30) DEF Conn, Pcs, Running
  <2>7. conn'[c] = [pc |-> "locked", ip |-> conn[c].ip, reply |-> conn[c].reply, req |-> r]
    BY <2>5, ZenonT(30)
  <2>8. /\ conn'[c].pc = "locked" /\ conn'[c].ip = conn[c].ip
        /\ conn'[c].req = r /\ conn'[c].reply = conn[c].reply
    BY <2>7
  <2>9. \A d \in Conns : d # c => conn'[d] = conn[d]
    BY <2>5, ZenonT(30)
  <2>10. Moves(c)
    BY <1>0, <2>4, <2>6, <2>8, <2>9, ZenonT(30) DEF Moves, Edges
  <2> QED BY <1>0, <2>8, <2>10
<1> QED
  <2> DEFINE ip == conn[c].ip
             hits == Retain(general, ip, RATE_GENERAL_WINDOW)
             under == Under(hits, ip, RATE_GENERAL_LIMIT)
  <2>1. \/ Respond(c, "429")
        \/ \E a \in Ask : \E tk \in Offered(a) :
             IF a.path = "public" THEN Respond(c, "200")
             ELSE conn' = [conn EXCEPT ![c] = [pc |-> "locked", ip |-> conn[c].ip, reply |-> @.reply,
                                               req |-> [ask |-> a, ticket |-> tk]]]
    <3>1. CASE under
      BY <3>1, ZenonT(30) DEF Rate
    <3>2. CASE ~under
      BY <3>2, ZenonT(30) DEF Rate
    <3> QED BY <3>1, <3>2, ZenonT(30)
  <2> QED BY <1>1, <1>2, <2>1, ZenonT(30)

\* Every step of a thread is a move.
LEMMA HandleMoves ==
  ASSUME conn \in [Conns -> Conn], NEW c \in Conns, Handle(c)
  PROVE  Moves(c)
<1>1. CASE Rate(c)
  BY <1>1, RateMoves, ZenonT(30)
<1>2. CASE Locked(c)
  <2>1. conn[c].pc = "locked" /\ (Goto(c, "authorize") \/ Respond(c, "429"))
    BY <1>2 DEF Locked
  <2>2. "authorize" \in Pcs /\ "429" \in Replies /\ <<"locked", "authorize">> \in Edges
    BY DEF Pcs, Running, Replies, Edges
  <2> QED BY <2>1, <2>2, GotoMoves, RespondMoves, ZenonT(30)
<1>3. CASE Authorize(c)
  <2>1. conn[c].pc = "authorize" /\ (Goto(c, "serve") \/ Goto(c, "deny"))
    BY <1>3 DEF Authorize
  <2>2. {"serve", "deny"} \subseteq Pcs /\ <<"authorize", "serve">> \in Edges /\ <<"authorize", "deny">> \in Edges
    BY ZenonT(30) DEF Pcs, Running, Edges
  <2> QED BY <2>1, <2>2, GotoMoves, ZenonT(30)
<1>4. CASE Deny(c) \/ Mint(c) \/ StreamEnd(c) \/ Refuse(c) \/ RpcRead(c)
  <2>1. conn[c].pc \in {"deny", "serve", "stream", "rpc"}
    BY <1>4, ZenonT(30) DEF Deny, Mint, StreamEnd, Refuse, RpcRead, Serves
  <2>2. \A json : Status(json) \in Replies
    BY DEF Status, Replies
  <2>3. \E s \in Replies : Respond(c, s)
    BY <1>4, <2>2, ZenonT(30) DEF Deny, Mint, StreamEnd, Refuse, RpcRead, Replies
  <2> QED BY <2>1, <2>3, RespondMoves, ZenonT(30)
<1>5. CASE Consume(c)
  <2>1. conn[c].pc = "serve" /\ (Goto(c, "stream") \/ Respond(c, "401"))
    BY <1>5 DEF Consume, Serves
  <2>2. "stream" \in Pcs /\ "401" \in Replies /\ <<"serve", "stream">> \in Edges
    BY DEF Pcs, Running, Replies, Edges
  <2> QED BY <2>1, <2>2, GotoMoves, RespondMoves, ZenonT(30)
<1>6. CASE RpcConnect(c) \/ RpcWrite(c)
  <2>1. \/ conn[c].pc = "serve" /\ (Goto(c, "write") \/ Goto(c, "panicked") \/ Respond(c, "400"))
        \/ conn[c].pc = "write" /\ (Goto(c, "rpc") \/ Respond(c, "400"))
    BY <1>6 DEF RpcConnect, RpcWrite, Serves, Status
  <2>2. /\ {"write", "rpc", "panicked"} \subseteq Pcs /\ "400" \in Replies
        /\ <<"serve", "write">> \in Edges /\ <<"serve", "panicked">> \in Edges /\ <<"write", "rpc">> \in Edges
    BY DEF Pcs, Running, Replies, Edges
  <2> QED BY <2>1, <2>2, GotoMoves, RespondMoves, ZenonT(30)
<1>7. CASE Close(c)
  <2>1. conn[c].pc = "end" /\ Goto(c, "closed")
    BY <1>7 DEF Close
  <2>2. "closed" \in Pcs /\ <<"end", "closed">> \in Edges
    BY DEF Pcs, Edges
  <2> QED BY <2>1, <2>2, GotoMoves, ZenonT(30)
<1> QED BY <1>1, <1>2, <1>3, <1>4, <1>5, <1>6, <1>7, ZenonT(30) DEF Handle

----------------------------------------------------------------------------
(* The exchanges with the runtime worker *)

SockRow == [at : Handled \cup {"none", "backlog", "over"}, nr : Nat,
            input : {"empty", "cut", "whole"}, answer : Json \cup {"none"}]

RpcTypes ==
  /\ sock \in [Conns -> SockRow]
  /\ arrivals \in Nat /\ ready \in BOOLEAN /\ done \subseteq Conns
  /\ \A c \in Conns : sock[c].nr <= arrivals

\* What any step may do to them.
RpcStep ==
  \/ UNCHANGED rpcVars
  \/ RpcServe
  \/ \E c \in Conns : sock[c].at = "none" /\ Connected(c)
  \/ \E c \in Conns : Written(c, "whole") \/ Written(c, "cut")

\* Nothing has been asked.
LEMMA RpcTypesInit == RpcInit => RpcTypes
<1> SUFFICES ASSUME RpcInit PROVE RpcTypes
  OBVIOUS
<1>1. NoSock \in SockRow /\ NoSock.nr = 0
  BY DEF NoSock, SockRow
<1>2. sock = [c \in Conns |-> NoSock] /\ arrivals = 0 /\ ready = FALSE /\ done = {}
  BY DEF RpcInit
<1>3. sock \in [Conns -> SockRow] /\ \A c \in Conns : sock[c].nr = 0
  BY <1>1, <1>2
<1>4. arrivals \in Nat /\ \A c \in Conns : sock[c].nr <= arrivals
  BY <1>2, <1>3
<1> QED BY <1>2, <1>3, <1>4, ZenonT(30) DEF RpcTypes

\* The rows of the connections after a step that gives one of them a new row.
LEMMA SockFacts ==
  ASSUME sock \in [Conns -> SockRow], NEW c \in Conns, NEW row \in SockRow,
         sock' = [sock EXCEPT ![c] = row]
  PROVE  /\ sock' \in [Conns -> SockRow]
         /\ sock'[c] = row
         /\ \A d \in Conns : d # c => sock'[d] = sock[d]
OBVIOUS

\* A step of the runtime worker on one connection keeps its number and its input.
Served(c, p, answer) ==
  /\ sock' \in [Conns -> SockRow]
  /\ \A d \in Conns : d # c => sock'[d] = sock[d]
  /\ sock'[c].at = p /\ sock'[c].nr = sock[c].nr /\ sock'[c].answer = answer
  /\ UNCHANGED arrivals

\* What the three steps of an exchange do.
LEMMA ServeFacts ==
  ASSUME RpcTypes, NEW c \in Conns
  PROVE  /\ RpcAccept(c) => Served(c, "reading", sock[c].answer) /\ done' = done /\ ready' = ready
         /\ RpcReceive(c) => \E json \in Json :
              /\ Served(c, "replying", json) /\ ready' = ready
              /\ done' = done \cup {c} \/ (done' = done /\ json = "not_ok")
         /\ RpcReply(c) => \E answer \in {sock[c].answer, "none"} :
              Served(c, "over", answer) /\ done' = done /\ ready' = ready
<1>1. sock[c] \in SockRow /\ sock \in [Conns -> SockRow]
  BY DEF RpcTypes
<1>2. ASSUME NEW p \in Handled \cup {"over"}, NEW answer \in Json \cup {"none"}, UNCHANGED arrivals,
             sock' = [sock EXCEPT ![c] = [at |-> p, nr |-> @.nr, input |-> @.input, answer |-> answer]]
      PROVE  Served(c, p, answer)
  <2> DEFINE row == [at |-> p, nr |-> sock[c].nr, input |-> sock[c].input, answer |-> answer]
  <2>1. row \in SockRow
    BY <1>1 DEF SockRow
  <2>2. sock' = [sock EXCEPT ![c] = row]
    BY <1>2
  <2>3. row.at = p /\ row.nr = sock[c].nr /\ row.answer = answer
    OBVIOUS
  <2> HIDE DEF row
  <2> QED BY <1>1, <1>2, <2>1, <2>2, <2>3, SockFacts DEF Served
<1>3. sock[c].answer \in Json \cup {"none"} /\ {"reading", "replying"} \subseteq Handled /\ "not_ok" \in Json
  BY <1>1 DEF SockRow, Handled, Json
<1>4. ASSUME RpcAccept(c)
      PROVE  Served(c, "reading", sock[c].answer) /\ done' = done /\ ready' = ready
  <2>1. sock' = [sock EXCEPT ![c] = [at |-> "reading", nr |-> @.nr, input |-> @.input, answer |-> sock[c].answer]]
    BY <1>1, <1>4 DEF RpcAccept
  <2> QED BY <1>2, <1>3, <1>4, <2>1, ZenonT(30) DEF RpcAccept
<1>5. ASSUME RpcReceive(c)
      PROVE  \E json \in Json : /\ Served(c, "replying", json) /\ ready' = ready
                                /\ done' = done \cup {c} \/ (done' = done /\ json = "not_ok")
  <2>1. \E json \in Json : Answers(c, json) /\ (done' = done \cup {c} \/ (done' = done /\ json = "not_ok"))
    BY <1>3, <1>5, ZenonT(30) DEF RpcReceive, dashboard_rpc
  <2>2. \A json \in Json : Answers(c, json) => Served(c, "replying", json)
    BY <1>2, <1>3, <1>5, ZenonT(30) DEF Answers, RpcReceive
  <2> QED BY <1>5, <2>1, <2>2, ZenonT(30) DEF RpcReceive
<1>6. ASSUME RpcReply(c)
      PROVE  \E answer \in {sock[c].answer, "none"} : Served(c, "over", answer) /\ done' = done /\ ready' = ready
  BY <1>2, <1>3, <1>6, ZenonT(30) DEF RpcReply
<1> QED BY <1>4, <1>5, <1>6, ZenonT(30)

\* What the end of the runtime worker does to each of them.
LEMMA EndsFacts ==
  ASSUME RpcTypes, RuntimeEnds
  PROVE  /\ sock' \in [Conns -> SockRow] /\ done' = done /\ arrivals' = arrivals /\ ready' = FALSE
         /\ \A d \in Conns : /\ sock'[d].nr = sock[d].nr
                             /\ sock'[d] = sock[d] \/ (sock'[d].at = "over" /\ sock'[d].answer = "none")
                             /\ sock'[d].at \in {"none", "over"}
                             /\ sock'[d].at = "none" <=> sock[d].at = "none"
<1> DEFINE row(d) == [at |-> "over", nr |-> sock[d].nr, input |-> sock[d].input, answer |-> "none"]
<1>1. \A d \in Conns : sock[d] \in SockRow /\ row(d) \in SockRow
  BY DEF RpcTypes, SockRow
<1>2. \A d \in Conns : sock'[d] = IF sock[d].at \in Handled \cup {"backlog"} THEN row(d) ELSE sock[d]
  BY DEF RuntimeEnds
<1>3. \A d \in Conns : row(d).at = "over" /\ row(d).nr = sock[d].nr /\ row(d).answer = "none"
  OBVIOUS
<1>4. sock' \in [Conns -> SockRow]
  BY <1>1 DEF RuntimeEnds
<1>5. \A d \in Conns : sock[d].at \in Handled \cup {"none", "backlog", "over"}
  BY <1>1 DEF SockRow
<1>6. "none" \notin Handled
  BY DEF Handled
<1> HIDE DEF row
<1>7. ASSUME NEW d \in Conns
      PROVE  /\ sock'[d].nr = sock[d].nr
             /\ sock'[d] = sock[d] \/ (sock'[d].at = "over" /\ sock'[d].answer = "none")
             /\ sock'[d].at \in {"none", "over"}
             /\ sock'[d].at = "none" <=> sock[d].at = "none"
  <2>1. CASE sock[d].at \in Handled \cup {"backlog"}
    BY <1>2, <1>3, <1>6, <2>1, ZenonT(30)
  <2>2. CASE sock[d].at \notin Handled \cup {"backlog"}
    BY <1>2, <1>5, <2>2, ZenonT(30)
  <2> QED BY <2>1, <2>2
<1> QED BY <1>4, <1>7, ZenonT(30) DEF RuntimeEnds

\* What a new connection is, and what a request that is written changes.
LEMMA ClientFacts ==
  ASSUME RpcTypes, NEW c \in Conns
  PROVE  /\ Connected(c) => /\ sock' \in [Conns -> SockRow]
                            /\ \A d \in Conns : d # c => sock'[d] = sock[d]
                            /\ sock'[c].at = "backlog" /\ sock'[c].nr = arrivals + 1 /\ sock'[c].answer = "none"
                            /\ arrivals' = arrivals + 1 /\ done' = done /\ ready' = ready
         /\ \A input \in {"whole", "cut"} :
              Written(c, input) => Served(c, sock[c].at, sock[c].answer) /\ done' = done /\ ready' = ready
<1>1. sock[c] \in SockRow /\ sock \in [Conns -> SockRow] /\ arrivals + 1 \in Nat
  BY DEF RpcTypes
<1>2. ASSUME Connected(c)
      PROVE  /\ sock' \in [Conns -> SockRow]
             /\ \A d \in Conns : d # c => sock'[d] = sock[d]
             /\ sock'[c].at = "backlog" /\ sock'[c].nr = arrivals + 1 /\ sock'[c].answer = "none"
  <2> DEFINE row == [at |-> "backlog", nr |-> arrivals + 1, input |-> "empty", answer |-> "none"]
  <2>1. row \in SockRow /\ sock' = [sock EXCEPT ![c] = row]
    BY <1>1, <1>2 DEF SockRow, Connected
  <2>2. row.at = "backlog" /\ row.nr = arrivals + 1 /\ row.answer = "none"
    OBVIOUS
  <2> HIDE DEF row
  <2> QED BY <1>1, <2>1, <2>2, SockFacts
<1>3. ASSUME NEW input \in {"whole", "cut"}, Written(c, input)
      PROVE  Served(c, sock[c].at, sock[c].answer)
  <2> DEFINE row == [at |-> sock[c].at, nr |-> sock[c].nr, input |-> input, answer |-> sock[c].answer]
  <2>1. row \in SockRow /\ sock' = [sock EXCEPT ![c] = row]
    BY <1>1, <1>3 DEF SockRow, Written
  <2>2. row.at = sock[c].at /\ row.nr = sock[c].nr /\ row.answer = sock[c].answer
    OBVIOUS
  <2>3. arrivals' = arrivals
    BY <1>3 DEF Written
  <2> HIDE DEF row
  <2> QED BY <1>1, <2>1, <2>2, <2>3, SockFacts DEF Served
<1> QED BY <1>2, <1>3, ZenonT(30) DEF Connected, Written

\* Every step keeps the types of the exchanges.
LEMMA RpcTypesStep == RpcTypes /\ RpcStep => RpcTypes'
<1> SUFFICES ASSUME RpcTypes, RpcStep PROVE RpcTypes'
  OBVIOUS
<1>1. CASE UNCHANGED rpcVars
  BY <1>1, ZenonT(30) DEF rpcVars, RpcTypes
<1>2. ASSUME NEW c \in Conns, NEW p, NEW answer, Served(c, p, answer),
             done' \subseteq Conns, ready' = ready
      PROVE  RpcTypes'
  <2>1. \A d \in Conns : sock'[d].nr = sock[d].nr
    BY <1>2 DEF Served
  <2> QED BY <1>2, <2>1 DEF Served, RpcTypes
<1>3. ASSUME NEW c \in Conns, RpcAccept(c) \/ RpcReceive(c) \/ RpcReply(c)
      PROVE  RpcTypes'
  <2>1. done \subseteq Conns /\ done \cup {c} \subseteq Conns
    BY DEF RpcTypes
  <2> QED BY <1>2, <1>3, <2>1, ServeFacts, ZenonT(30)
<1>4. CASE RpcPump
  BY <1>4, ZenonT(30) DEF RpcPump, RpcTypes
<1>5. CASE RuntimeEnds
  BY <1>5, EndsFacts, ZenonT(30) DEF RpcTypes
<1>6. ASSUME NEW c \in Conns, Connected(c)
      PROVE  RpcTypes'
  <2>1. \A d \in Conns : sock'[d].nr <= arrivals'
    <3>1. /\ \A d \in Conns : d # c => sock'[d] = sock[d]
          /\ sock'[c].nr = arrivals + 1 /\ arrivals' = arrivals + 1
      BY <1>6, ClientFacts, ZenonT(30)
    <3>2. \A d \in Conns : sock[d].nr \in Nat /\ sock[d].nr <= arrivals
      BY DEF RpcTypes, SockRow
    <3>3. arrivals \in Nat
      BY DEF RpcTypes
    <3> QED BY <3>1, <3>2, <3>3
  <2>2. arrivals' \in Nat
    BY <1>6 DEF Connected, RpcTypes
  <2> QED BY <1>6, <2>1, <2>2, ClientFacts, ZenonT(30) DEF RpcTypes
<1>7. ASSUME NEW c \in Conns, Written(c, "whole") \/ Written(c, "cut")
      PROVE  RpcTypes'
  <2>1. done \subseteq Conns
    BY DEF RpcTypes
  <2> QED BY <1>2, <1>7, <2>1, ClientFacts, ZenonT(30)
<1> QED BY <1>1, <1>3, <1>4, <1>5, <1>6, <1>7, ZenonT(30) DEF RpcStep, RpcServe

\* What a step of a thread does to them.
LEMMA HandleRpc ==
  ASSUME NEW c \in Conns, Handle(c), conn[c].pc = "serve" => sock[c].at = "none"
  PROVE  RpcStep
<1>1. CASE RpcConnect(c) \/ RpcWrite(c)
  BY <1>1, ZenonT(30) DEF RpcConnect, RpcWrite, RpcStep, Serves
<1>2. CASE ~(RpcConnect(c) \/ RpcWrite(c))
  <2>1. UNCHANGED rpcVars
    BY <1>2, ZenonT(30) DEF Handle, Rate, Locked, Authorize, Deny, Mint, Consume, StreamEnd, Refuse, RpcRead, Close
  <2> QED BY <2>1 DEF RpcStep
<1> QED BY <1>1, <1>2

----------------------------------------------------------------------------
(* Types *)

Streams == [by : Conns, ticket : Conns, issued : 0..MaxTime, at : 0..MaxTime]

\* TypeOK, but for the bound of the thread count, and the finiteness of the sets.
Types ==
  /\ conn \in [Conns -> Conn]
  /\ web_threads \in Nat
  /\ tickets \subseteq Hits /\ general \subseteq Hits /\ auth_fail \subseteq Hits
  /\ RpcTypes
  /\ now \in 0..MaxTime
  /\ streams \subseteq Streams
  /\ failures \subseteq Hits /\ admitted \subseteq Hits
  /\ IsFiniteSet(general) /\ IsFiniteSet(auth_fail)
  /\ IsFiniteSet(failures) /\ IsFiniteSet(admitted)

\* The constants the proofs use.
LEMMA Constants ==
  /\ IsFiniteSet(Conns) /\ NoTicket \notin Conns /\ TokenSet \in BOOLEAN
  /\ MAX_WEB_THREADS \in Nat /\ MAX_WEB_THREADS > 0
  /\ RATE_GENERAL_LIMIT \in Nat /\ RATE_GENERAL_WINDOW \in Nat
  /\ RATE_AUTH_FAIL_LIMIT \in Nat /\ RATE_AUTH_FAIL_WINDOW \in Nat
  /\ SSE_TICKET_TTL \in Nat /\ MaxTime \in Nat
BY WebAssumption DEF WebAssumption

\* The initial state is typed.
LEMMA TypesInit == Init => Types
<1> SUFFICES ASSUME Init PROVE Types
  OBVIOUS
<1>1. (CHOOSE ip \in Ips : TRUE) \in Ips
  BY WebAssumption DEF WebAssumption
<1>2. NoRequest \in Request
  BY ZenonT(30) DEF NoRequest, Request, Ask
<1>3. conn \in [Conns -> Conn]
  BY <1>1, <1>2, ZenonT(30) DEF Init, Conn, Pcs, Replies
<1>4. IsFiniteSet({})
  BY FS_EmptySet
<1>5. 0 \in 0..MaxTime
  BY Constants
<1>6. RpcTypes
  BY RpcTypesInit DEF Init
<1> QED BY <1>3, <1>4, <1>5, <1>6, ZenonT(30) DEF Init, Types

\* What stays of a set of hits, and what a new hit adds, is typed and finite.
LEMMA RetainFacts ==
  ASSUME Types, NEW hits \in SUBSET Hits, IsFiniteSet(hits), NEW ip, NEW window
  PROVE  /\ Retain(hits, ip, window) \subseteq hits
         /\ IsFiniteSet(Retain(hits, ip, window))
         /\ \A h \in hits : now - h.at < window => h \in Retain(hits, ip, window)
<1>1. Retain(hits, ip, window) \subseteq hits
  BY ZenonT(30) DEF Retain, HitsOf, Fresh
<1>2. \A h \in hits : now - h.at < window => h \in Retain(hits, ip, window)
  BY DEF Retain, HitsOf, Fresh
<1> QED BY <1>1, <1>2, FS_Subset, ZenonT(30)

\* A hit made now is typed, and so is a set it is added to.
LEMMA HitFacts ==
  ASSUME Types, NEW c \in Conns, NEW hits \in SUBSET Hits, IsFiniteSet(hits)
  PROVE  /\ [by |-> c, at |-> now] \in Hits
         /\ hits \cup {[by |-> c, at |-> now]} \subseteq Hits
         /\ IsFiniteSet(hits \cup {[by |-> c, at |-> now]})
<1>1. [by |-> c, at |-> now] \in Hits
  BY ZenonT(30) DEF Types, Hits
<1> QED BY <1>1, FS_AddElement, ZenonT(30)

\* The general limit's bookkeeping.
LEMMA RateFacts ==
  ASSUME Types, NEW c \in Conns, Rate(c)
  PROVE  \/ /\ general' = Retain(general, conn[c].ip, RATE_GENERAL_WINDOW)
            /\ admitted' = admitted
         \/ /\ Under(Retain(general, conn[c].ip, RATE_GENERAL_WINDOW), conn[c].ip, RATE_GENERAL_LIMIT)
            /\ general' = Retain(general, conn[c].ip, RATE_GENERAL_WINDOW) \cup {[by |-> c, at |-> now]}
            /\ admitted' = admitted \cup {[by |-> c, at |-> now]}
<1> DEFINE under == Under(Retain(general, conn[c].ip, RATE_GENERAL_WINDOW), conn[c].ip, RATE_GENERAL_LIMIT)
<1>1. CASE under
  BY <1>1, ZenonT(30) DEF Rate
<1>2. CASE ~under
  BY <1>2, ZenonT(30) DEF Rate
<1> QED BY <1>1, <1>2, ZenonT(30)

\* What a ticket that is consumed becomes.
LEMMA ConsumeFacts ==
  ASSUME Types, NEW c \in Conns, Consume(c)
  PROVE  \/ tickets' \subseteq tickets /\ streams' = streams
         \/ /\ tickets' = Valid \ Named(Valid, conn[c].req.ticket)
            /\ streams' = streams \cup {[by |-> c, ticket |-> x.by, issued |-> x.at, at |-> now] :
                                          x \in Named(Valid, conn[c].req.ticket)}
<1>1. Valid \subseteq tickets
  BY ZenonT(30) DEF Valid
<1> QED BY <1>1 DEF Consume

\* Types are kept.
LEMMA TypesStep ==
  ASSUME Types, [Next]_vars, web_threads = 0 => \A c \in Conns : conn[c].pc # "end",
         \A c \in Conns : conn[c].pc = "serve" => sock[c].at = "none"
  PROVE  Types'
<1> USE DEF shared, history
<1>1. CASE UNCHANGED vars
  BY <1>1, ZenonT(30) DEF Types, vars, RpcTypes, rpcVars
<1>2. CASE Tick
  <2>1. now' \in 0..MaxTime
    BY <1>2, Constants DEF Types, Tick
  <2> QED BY <1>2, <2>1, ZenonT(30) DEF Types, Tick, RpcTypes, rpcVars
<1>3. ASSUME NEW c \in Conns, Accept(c)
      PROVE  Types'
  <2>1. conn' \in [Conns -> Conn]
    BY <1>3, AcceptMoves, ZenonT(30) DEF Moves, Types
  <2>2. web_threads' \in Nat
    BY <1>3, AcceptMoves DEF Types
  <2> QED BY <1>3, <2>1, <2>2, ZenonT(30) DEF Types, Accept, RpcTypes, rpcVars
<1>4. CASE Runtime
  <2>1. RpcTypes'
    BY <1>4, RpcTypesStep, ZenonT(30) DEF RpcStep, Types, Runtime
  <2> QED BY <1>4, <2>1, ZenonT(30) DEF Types, Runtime
<1>5. ASSUME NEW c \in Conns, Handle(c)
      PROVE  Types'
  <2>1. conn' \in [Conns -> Conn]
    BY <1>5, HandleMoves, ZenonT(30) DEF Moves, Types
  <2>0. RpcTypes'
    BY <1>5, HandleRpc, RpcTypesStep, ZenonT(30) DEF Types
  <2>2. CASE Rate(c)
    <3> DEFINE hits == Retain(general, conn[c].ip, RATE_GENERAL_WINDOW)
    <3>1. hits \subseteq Hits /\ IsFiniteSet(hits)
      BY RetainFacts, ZenonT(30) DEF Types
    <3>2. /\ admitted \cup {[by |-> c, at |-> now]} \subseteq Hits
          /\ IsFiniteSet(admitted \cup {[by |-> c, at |-> now]})
      BY HitFacts, ZenonT(30) DEF Types
    <3> HIDE DEF hits
    <3>3. hits \cup {[by |-> c, at |-> now]} \subseteq Hits /\ IsFiniteSet(hits \cup {[by |-> c, at |-> now]})
      BY <3>1, HitFacts, ZenonT(30)
    <3>4. /\ general' \subseteq Hits /\ IsFiniteSet(general')
          /\ admitted' \subseteq Hits /\ IsFiniteSet(admitted')
      BY <2>2, <3>1, <3>2, <3>3, RateFacts, ZenonT(30) DEF hits, Types
    <3> QED BY <2>0, <2>1, <2>2, <3>4, ZenonT(30) DEF Types, Rate
  <2>3. CASE Locked(c)
    <3>1. auth_fail' = Retain(auth_fail, conn[c].ip, RATE_AUTH_FAIL_WINDOW)
      BY <2>3, ZenonT(30) DEF Locked
    <3>2. auth_fail' \subseteq Hits /\ IsFiniteSet(auth_fail')
      BY <3>1, RetainFacts, ZenonT(30) DEF Types
    <3> QED BY <2>0, <2>1, <2>3, <3>2, ZenonT(30) DEF Types, Locked
  <2>4. CASE Authorize(c)
    <3>1. tickets' \subseteq Hits
      BY <2>4, ZenonT(30) DEF Authorize, Valid, Types
    <3> QED BY <2>0, <2>1, <2>4, <3>1, ZenonT(30) DEF Types, Authorize
  <2>5. CASE Deny(c)
    <3>1. /\ auth_fail' \subseteq Hits /\ IsFiniteSet(auth_fail')
          /\ failures' \subseteq Hits /\ IsFiniteSet(failures')
      BY <2>5, HitFacts, ZenonT(30) DEF Deny, Types
    <3> QED BY <2>0, <2>1, <2>5, <3>1, ZenonT(30) DEF Types, Deny
  <2>6. CASE Mint(c)
    <3>1. tickets' \subseteq Hits
      BY <2>6, HitFacts, ZenonT(30) DEF Mint, Valid, Types
    <3> QED BY <2>0, <2>1, <2>6, <3>1, ZenonT(30) DEF Types, Mint
  <2>7. CASE Consume(c)
    <3>1. Named(Valid, conn[c].req.ticket) \subseteq Hits /\ Valid \subseteq Hits
      BY ZenonT(30) DEF Named, Valid, Types
    <3>2. \A x \in Hits : [by |-> c, ticket |-> x.by, issued |-> x.at, at |-> now] \in Streams
      BY ZenonT(30) DEF Hits, Streams, Types
    <3>3. tickets' \subseteq Hits /\ streams' \subseteq Streams
      BY <2>7, <3>1, <3>2, ConsumeFacts DEF Types
    <3> QED BY <2>0, <2>1, <2>7, <3>3, ZenonT(30) DEF Types, Consume
  <2>8. CASE StreamEnd(c) \/ Refuse(c) \/ RpcRead(c)
    BY <2>0, <2>1, <2>8, ZenonT(30) DEF Types, StreamEnd, Refuse, RpcRead
  <2>9. CASE RpcConnect(c) \/ RpcWrite(c)
    BY <2>0, <2>1, <2>9, ZenonT(30) DEF Types, RpcConnect, RpcWrite
  <2>10. CASE Close(c)
    <3>1. web_threads' \in Nat
      BY <2>10 DEF Close, Types
    <3> QED BY <2>0, <2>1, <2>10, <3>1, ZenonT(30) DEF Types, Close
  <2> QED BY <1>5, <2>2, <2>3, <2>4, <2>5, <2>6, <2>7, <2>8, <2>9, <2>10, ZenonT(30) DEF Handle
<1> QED BY <1>1, <1>2, <1>3, <1>4, <1>5, ZenonT(30) DEF Next

----------------------------------------------------------------------------
(* Connections and their RPCs *)

Path(c) == conn[c].req.ask.path
Bearer(c) == conn[c].req.ask.bearer

\* The exchanges: an answer that is not an error is one of a request that was
\* committed, the runtime worker has one connection at a time, and what it has
\* committed is older than what it has and what it has is older than the backlog.
Exchange ==
  /\ \A c \in Conns : sock[c].answer \in {"ok", "silent"} => c \in done
  /\ \A c \in Conns : sock[c].at = "none" => c \notin done
  /\ \A c, d \in Conns : c \in done /\ sock[d].at \in {"backlog", "reading"} => sock[c].nr < sock[d].nr
  /\ \A c, d \in Conns : sock[c].at \in Handled /\ sock[d].at \in Handled => c = d
  /\ \A c, d \in Conns : sock[c].at \in Handled /\ sock[d].at = "backlog" => sock[c].nr < sock[d].nr
  /\ \A c, d \in Conns : sock[c].at # "none" /\ sock[d].at # "none" /\ sock[c].nr = sock[d].nr => c = d

\* Nothing has been asked.
LEMMA ExchangeInit == RpcInit => Exchange
<1> SUFFICES ASSUME RpcInit PROVE Exchange
  OBVIOUS
<1>1. done = {} /\ \A c \in Conns : sock[c].at = "none" /\ sock[c].answer = "none"
  BY DEF RpcInit, NoSock
<1> QED BY <1>1, SMTT(30), Z3T(30) DEF Exchange, Handled

\* No request is committed after one that was made later.
LEMMA CommitInOrder ==
  ASSUME RpcTypes, Exchange, RpcStep
  PROVE  /\ done \subseteq done'
         /\ \A c \in done' \ done, d \in done : sock[d].nr < sock[c].nr
<1>1. ASSUME NEW c \in Conns, RpcReceive(c)
      PROVE  /\ done \subseteq done'
             /\ \A e \in done' \ done, d \in done : sock[d].nr < sock[e].nr
  <2>1. sock[c].at = "reading" /\ done' \in {done, done \cup {c}} /\ done \subseteq Conns
    BY <1>1, ServeFacts, ZenonT(30) DEF RpcReceive, RpcTypes
  <2>2. \A d \in done : sock[d].nr < sock[c].nr
    BY <2>1, ZenonT(30) DEF Exchange
  <2> QED BY <2>1, <2>2, ZenonT(30)
<1>2. CASE \A c \in Conns : ~RpcReceive(c)
  <2>1. done' = done
    BY <1>2, ZenonT(30) DEF RpcStep, rpcVars, RpcServe, RpcAccept, RpcReply, RpcPump, RuntimeEnds, Connected, Written
  <2> QED BY <2>1, ZenonT(30)
<1> QED BY <1>1, <1>2, ZenonT(30)

\* Every step keeps the exchanges in order.
LEMMA ExchangeStep == RpcTypes /\ Exchange /\ RpcStep => Exchange'
<1> SUFFICES ASSUME RpcTypes, Exchange, RpcStep PROVE Exchange'
  OBVIOUS
<1>0. /\ \A d \in Conns : sock[d] \in SockRow /\ sock[d].nr \in Nat /\ sock[d].nr <= arrivals
      /\ done \subseteq Conns /\ arrivals \in Nat
  BY DEF RpcTypes, SockRow
<1>1. CASE UNCHANGED rpcVars
  BY <1>1, ZenonT(30) DEF rpcVars, Exchange
<1>2. ASSUME NEW c \in Conns, RpcAccept(c)
      PROVE  Exchange'
  <2>1. Served(c, "reading", sock[c].answer) /\ done' = done
    BY <1>2, ServeFacts, ZenonT(30)
  <2>2. sock[c].at = "backlog"
    BY <1>2 DEF RpcAccept
  <2>3. \A d \in Conns : sock[d].at \notin Handled /\ (sock[d].at = "backlog" /\ d # c => sock[c].nr < sock[d].nr)
    BY <1>0, <1>2, <2>2 DEF RpcAccept, Exchange
  <2> QED BY <2>1, <2>2, <2>3, SMTT(30), Z3T(30) DEF Exchange, Served, Handled
<1>3. ASSUME NEW c \in Conns, RpcReceive(c)
      PROVE  Exchange'
  <2>1. PICK json \in Json : /\ Served(c, "replying", json)
                             /\ done' = done \cup {c} \/ (done' = done /\ json = "not_ok")
    BY <1>3, ServeFacts, ZenonT(30)
  <2>2. sock[c].at = "reading" /\ "reading" \in Handled
    BY <1>3 DEF RpcReceive, Handled
  <2>3. \A d \in Conns : sock[d].at = "reading" => d = c
    BY <2>2, ZenonT(30) DEF Exchange
  <2> QED BY <2>1, <2>2, <2>3, SMTT(30), Z3T(30) DEF Exchange, Served, Handled
<1>4. ASSUME NEW c \in Conns, RpcReply(c)
      PROVE  Exchange'
  <2>1. PICK answer \in {sock[c].answer, "none"} : Served(c, "over", answer) /\ done' = done
    BY <1>4, ServeFacts, ZenonT(30)
  <2>2. sock[c].at = "replying"
    BY <1>4 DEF RpcReply
  <2> QED BY <2>1, <2>2, SMTT(30), Z3T(30) DEF Exchange, Served, Handled
<1>5. CASE RpcPump
  BY <1>5, ZenonT(30) DEF RpcPump, Exchange
<1>6. CASE RuntimeEnds
  <2>1. /\ done' = done
        /\ \A d \in Conns : /\ sock'[d].nr = sock[d].nr
                            /\ sock'[d] = sock[d] \/ (sock'[d].at = "over" /\ sock'[d].answer = "none")
                            /\ sock'[d].at \in {"none", "over"}
                            /\ sock'[d].at = "none" <=> sock[d].at = "none"
    BY <1>6, EndsFacts, ZenonT(30)
  <2> QED BY <2>1, SMTT(30), Z3T(30) DEF Exchange, Handled
<1>7. ASSUME NEW c \in Conns, sock[c].at = "none", Connected(c)
      PROVE  Exchange'
  <2>1. /\ \A d \in Conns : d # c => sock'[d] = sock[d]
        /\ sock'[c].at = "backlog" /\ sock'[c].nr = arrivals + 1 /\ sock'[c].answer = "none"
        /\ done' = done
    BY <1>7, ClientFacts, ZenonT(30)
  <2>2. c \notin done /\ \A d \in Conns : sock[d].nr < arrivals + 1
    BY <1>0, <1>7 DEF Exchange
  <2> QED BY <1>0, <2>1, <2>2, SMTT(30), Z3T(30) DEF Exchange, Handled
<1>8. ASSUME NEW c \in Conns, Written(c, "whole") \/ Written(c, "cut")
      PROVE  Exchange'
  <2>1. Served(c, sock[c].at, sock[c].answer) /\ done' = done
    BY <1>8, ClientFacts, ZenonT(30)
  <2> QED BY <2>1, SMTT(30), Z3T(30) DEF Exchange, Served
<1> QED BY <1>1, <1>2, <1>3, <1>4, <1>5, <1>6, <1>7, <1>8, ZenonT(30) DEF RpcStep, RpcServe

\* The runtime worker makes no exchange of its own.
LEMMA ServeOnly ==
  ASSUME RpcTypes, RpcServe
  PROVE  \A d \in Conns : sock'[d].at # "none" => sock[d].at # "none"
<1>1. ASSUME NEW c \in Conns, RpcAccept(c) \/ RpcReceive(c) \/ RpcReply(c)
      PROVE  \A d \in Conns : sock'[d].at # "none" => sock[d].at # "none"
  <2>1. sock[c].at # "none"
    BY <1>1 DEF RpcAccept, RpcReceive, RpcReply
  <2> QED BY <1>1, <2>1, ServeFacts, ZenonT(30) DEF Served
<1>2. RuntimeEnds => \A d \in Conns : sock'[d].at # "none" => sock[d].at # "none"
  BY EndsFacts, ZenonT(30)
<1>3. RpcPump => sock' = sock
  BY ZenonT(30) DEF RpcPump
<1> QED BY <1>1, <1>2, <1>3, ZenonT(30) DEF RpcServe

\* A reply comes last; RPCs and streams belong to their paths; whoever is served
\* off the event stream carries the token; a good reply means an executed RPC.
SteadyAt(c) ==
  /\ conn[c].pc \in {"new", "rate"} => conn[c].req = NoRequest
  /\ conn[c].reply # "none" => conn[c].pc \in Over
  /\ conn[c].pc \in {"write", "rpc"} => Path(c) = "api"
  /\ conn[c].pc = "stream" => Path(c) = "events"
  /\ conn[c].pc \in {"serve", "write", "rpc"} /\ Path(c) # "events" /\ TokenSet => Bearer(c)
  /\ sock[c].at # "none" => /\ conn[c].pc \in {"write", "rpc"} \cup Over
                            /\ Path(c) = "api"
                            /\ TokenSet => Bearer(c)
  /\ Path(c) = "api" /\ conn[c].reply = "200" => c \in done

Steady == \A c \in Conns : SteadyAt(c)

\* No connection has done anything yet.
LEMMA SteadyInit == Init => Steady
<1> SUFFICES ASSUME Init, NEW c \in Conns
             PROVE  SteadyAt(c)
  BY ZenonT(30) DEF Steady
<1>1. conn[c].pc = "new" /\ conn[c].req = NoRequest /\ conn[c].reply = "none" /\ sock[c].at = "none"
  BY DEF Init, RpcInit, NoSock
<1>2. NoRequest.ask.path = "public"
  BY DEF NoRequest
<1> QED BY <1>1, <1>2, ZenonT(30) DEF SteadyAt, Path, Bearer, Over

\* A connection that is served has no exchange yet.
LEMMA ServedFirst ==
  ASSUME Steady, NEW c \in Conns, conn[c].pc = "serve"
  PROVE  sock[c].at = "none"
BY ZenonT(30) DEF Steady, SteadyAt, Over

\* What any step does to the exchanges.
LEMMA EveryRpcStep ==
  ASSUME Steady, [Next]_vars
  PROVE  RpcStep
<1>1. CASE UNCHANGED vars \/ Tick \/ Runtime \/ \E c \in Conns : Accept(c)
  BY <1>1, ZenonT(30) DEF vars, Tick, Runtime, Accept, RpcStep
<1>2. CASE \E c \in Conns : Handle(c)
  BY <1>2, ServedFirst, HandleRpc, ZenonT(30)
<1> QED BY <1>1, <1>2, ZenonT(30) DEF Next

\* A step of c concerns only c.
LEMMA SteadyOthers ==
  ASSUME Types, Steady, NEW c \in Conns, Moves(c), done \subseteq done',
         \A d \in Conns : d # c /\ sock'[d].at # "none" => sock[d].at # "none",
         SteadyAt(c)'
  PROVE  Steady'
<1>1. \A d \in Conns : d # c => conn'[d] = conn[d]
  BY ZenonT(30) DEF Moves
<1>2. ASSUME NEW d \in Conns, d # c
      PROVE  SteadyAt(d)'
  <2>1. conn'[d] = conn[d] /\ (sock'[d].at # "none" => sock[d].at # "none") /\ SteadyAt(d)
    BY <1>1, <1>2, ZenonT(30) DEF Steady
  <2> QED BY <2>1, ZenonT(30) DEF SteadyAt, Path, Bearer
<1> QED BY <1>2 DEF Steady

\* Every step of the worker keeps the connections steady.
LEMMA SteadyStep ==
  ASSUME Types, Exchange, Steady, [Next]_vars
  PROVE  Steady'
<1> USE DEF shared, history, rpcVars, Path, Bearer
<1>1. CASE UNCHANGED vars
  BY <1>1, ZenonT(30) DEF vars, Steady, SteadyAt
<1>2. CASE Tick
  BY <1>2, ZenonT(30) DEF Tick, Steady, SteadyAt
<1>3. ASSUME NEW c \in Conns, Accept(c)
      PROVE  Steady'
  <2>1. Moves(c) /\ conn[c].pc = "new" /\ conn'[c].pc \in {"rate", "closed"}
    BY <1>3, AcceptMoves, ZenonT(30) DEF Types
  <2>2. sock' = sock /\ done' = done /\ SteadyAt(c) /\ NoRequest.ask.path = "public"
    BY <1>3, ZenonT(30) DEF Accept, Steady, NoRequest
  <2>3. SteadyAt(c)'
    BY <2>1, <2>2, ZenonT(30) DEF SteadyAt, Moves, Over
  <2> QED BY <2>1, <2>2, <2>3, SteadyOthers, ZenonT(30)
<1>4. CASE Runtime
  <2>1. conn' = conn /\ RpcTypes /\ RpcStep
    BY <1>4, ZenonT(30) DEF Types, RpcStep, Runtime
  <2>2. \A d \in Conns : sock'[d].at # "none" => sock[d].at # "none"
    BY <1>4, <2>1, ServeOnly, ZenonT(30) DEF Runtime
  <2>3. done \subseteq done'
    BY <2>1, CommitInOrder, ZenonT(30)
  <2>4. \A d \in Conns : SteadyAt(d)'
    BY <2>1, <2>2, <2>3, ZenonT(30) DEF Steady, SteadyAt
  <2> QED BY <2>4, ZenonT(30) DEF Steady
<1>5. ASSUME NEW c \in Conns, Handle(c)
      PROVE  Steady'
  <2>1. Moves(c) /\ SteadyAt(c)
    BY <1>5, HandleMoves, ZenonT(30) DEF Types, Steady
  <2>2. CASE Rate(c)
    <3>1. /\ conn[c].pc = "rate"
          /\ conn'[c].pc = "locked" \/ conn'[c].pc = "end"
      BY <2>2, RateMoves, ZenonT(30) DEF Types
    <3>2. sock' = sock /\ done' = done /\ NoRequest.ask.path = "public"
      BY <2>2, ZenonT(30) DEF Rate, NoRequest
    <3>3. SteadyAt(c)'
      BY <2>1, <3>1, <3>2, ZenonT(30) DEF SteadyAt, Moves, Over
    <3> QED BY <2>1, <3>2, <3>3, SteadyOthers, ZenonT(30)
  <2>3. CASE Locked(c)
    <3>1. sock' = sock /\ done' = done /\ conn[c].pc = "locked" /\ (Goto(c, "authorize") \/ Respond(c, "429"))
      BY <2>3, ZenonT(30) DEF Locked
    <3>2. \/ conn'[c].pc = "authorize"
          \/ conn'[c].pc = "end" /\ conn'[c].reply = "429"
      BY <3>1, GotoPc, RespondPc, ZenonT(30) DEF Types
    <3>3. SteadyAt(c)'
      BY <2>1, <3>1, <3>2, ZenonT(30) DEF SteadyAt, Moves, Over
    <3> QED BY <2>1, <3>1, <3>3, SteadyOthers, ZenonT(30)
  <2>4. CASE Authorize(c)
    <3>1. /\ sock' = sock /\ done' = done /\ conn[c].pc = "authorize"
          /\ \/ Goto(c, "deny")
             \/ Goto(c, "serve") /\ (TokenSet /\ Path(c) # "events" => Bearer(c))
      BY <2>4 DEF Authorize
    <3>2. \/ conn'[c].pc = "deny"
          \/ conn'[c].pc = "serve" /\ (TokenSet /\ Path(c) # "events" => Bearer(c))
      BY <3>1, GotoPc, ZenonT(30) DEF Types
    <3>3. SteadyAt(c)'
      BY <2>1, <3>1, <3>2, ZenonT(30) DEF SteadyAt, Moves, Over
    <3> QED BY <2>1, <3>1, <3>3, SteadyOthers, ZenonT(30)
  <2>5. CASE Deny(c) \/ Mint(c) \/ StreamEnd(c) \/ Refuse(c)
    <3>1. /\ sock' = sock /\ done' = done
          /\ \/ conn[c].pc \in {"deny", "stream"} /\ (Respond(c, "401") \/ (Respond(c, "200") /\ conn[c].pc = "stream"))
             \/ conn[c].pc = "serve" /\ Path(c) = "ticket" /\ Respond(c, "200")
             \/ conn[c].pc = "serve" /\ Path(c) = "other" /\ Respond(c, "4xx")
      BY <2>5, ZenonT(30) DEF Deny, Mint, StreamEnd, Refuse, Serves
    <3>2. conn'[c].pc = "end" /\ (conn'[c].reply = "200" => Path(c) # "api")
      BY <2>1, <3>1, SMTT(30), Z3T(30) DEF Respond, Types, SteadyAt
    <3>3. SteadyAt(c)'
      BY <2>1, <3>1, <3>2, ZenonT(30) DEF SteadyAt, Moves, Over
    <3> QED BY <2>1, <3>1, <3>3, SteadyOthers, ZenonT(30)
  <2>6. CASE Consume(c)
    <3>1. /\ sock' = sock /\ done' = done /\ conn[c].pc = "serve" /\ Path(c) = "events"
          /\ Goto(c, "stream") \/ Respond(c, "401")
      BY <2>6 DEF Consume, Serves
    <3>2. \/ conn'[c].pc = "stream"
          \/ conn'[c].pc = "end" /\ conn'[c].reply = "401"
      BY <3>1, GotoPc, RespondPc, ZenonT(30) DEF Types
    <3>3. SteadyAt(c)'
      BY <2>1, <3>1, <3>2, ZenonT(30) DEF SteadyAt, Moves, Over
    <3> QED BY <2>1, <3>1, <3>3, SteadyOthers, ZenonT(30)
  <2>7. CASE RpcConnect(c) \/ RpcWrite(c)
    <3>1. /\ conn[c].pc \in {"serve", "write"} /\ Path(c) = "api"
          /\ \/ Goto(c, "write") \/ Goto(c, "rpc")
             \/ Respond(c, "400")
             \/ conn[c].pc = "serve" /\ Goto(c, "panicked") /\ sock' = sock
      BY <2>1, <2>7, SMTT(30), Z3T(30) DEF RpcConnect, RpcWrite, Serves, Status, SteadyAt
    <3>2. \/ conn'[c].pc \in {"write", "rpc"}
          \/ conn'[c].pc = "end" /\ conn'[c].reply = "400"
          \/ conn'[c].pc = "panicked" /\ sock' = sock /\ conn[c].pc = "serve"
      BY <3>1, GotoPc, RespondPc, ZenonT(30) DEF Types
    <3>3. done' = done /\ \A d \in Conns : d # c /\ sock'[d].at # "none" => sock[d].at # "none"
      <4>1. UNCHANGED rpcVars \/ Connected(c) \/ Written(c, "whole") \/ Written(c, "cut")
        BY <2>7, ZenonT(30) DEF RpcConnect, RpcWrite
      <4> QED BY <4>1, ClientFacts, ZenonT(30) DEF Types, Served
    <3>4. SteadyAt(c)'
      BY <2>1, <3>1, <3>2, <3>3, ZenonT(30) DEF SteadyAt, Moves, Over
    <3> QED BY <2>1, <3>3, <3>4, SteadyOthers, ZenonT(30)
  <2>8. CASE RpcRead(c)
    <3>1. sock' = sock /\ done' = done /\ conn[c].pc = "rpc"
      BY <2>8, ZenonT(30) DEF RpcRead
    <3>2. Status(Parsed(sock[c].answer)) = "200" => c \in done
      BY DEF Status, Parsed, Json, Exchange
    <3>3. Status("not_ok") = "400"
      BY DEF Status
    <3>4. conn'[c].pc = "end" /\ (conn'[c].reply = "200" => c \in done)
      BY <2>8, <3>2, <3>3, RespondPc, ZenonT(30) DEF RpcRead, Types
    <3>5. SteadyAt(c)'
      BY <2>1, <3>1, <3>4, ZenonT(30) DEF SteadyAt, Moves, Over
    <3> QED BY <2>1, <3>1, <3>5, SteadyOthers, ZenonT(30)
  <2>9. CASE Close(c)
    <3>1. sock' = sock /\ done' = done /\ conn[c].pc = "end" /\ conn'[c].pc = "closed"
      BY <2>9 DEF Close, Goto, Types
    <3>2. SteadyAt(c)'
      BY <2>1, <3>1, ZenonT(30) DEF SteadyAt, Moves, Over
    <3> QED BY <2>1, <3>1, <3>2, SteadyOthers, ZenonT(30)
  <2> QED BY <1>5, <2>2, <2>3, <2>4, <2>5, <2>6, <2>7, <2>8, <2>9, ZenonT(30) DEF Handle
<1> QED BY <1>1, <1>2, <1>3, <1>4, <1>5, ZenonT(30) DEF Next

----------------------------------------------------------------------------
(* The thread count *)

Busy == Threads \cup {c \in Conns : conn[c].pc = "panicked"}

\* Every subset of the connections is finite.
LEMMA BusyFinite == IsFiniteSet(Busy) /\ Cardinality(Busy) \in Nat
<1>1. Busy \subseteq Conns
  BY ZenonT(30) DEF Busy, Threads
<1> QED BY <1>1, Constants, FS_Subset, FS_CardinalityType, ZenonT(30)

\* A thread that neither begins nor ends leaves the busy connections as they are.
LEMMA BusySame ==
  ASSUME Types, NEW c \in Conns, Moves(c), conn[c].pc \notin {"new", "end"}
  PROVE  Busy' = Busy
<1>1. c \in Busy /\ c \in Busy'
  BY ZenonT(30) DEF Moves, Edges, Busy, Threads, Running
<1>2. \A d \in Conns : d # c => conn'[d] = conn[d]
  BY ZenonT(30) DEF Moves
<1> QED BY <1>1, <1>2, ZenonT(30) DEF Busy, Threads

\* No thread runs and none is counted.
LEMMA CountInit == Init => ThreadsExact
<1> SUFFICES ASSUME Init PROVE ThreadsExact
  OBVIOUS
<1>1. \A c \in Conns : conn[c].pc = "new"
  BY DEF Init
<1>2. Busy = {}
  BY <1>1, ZenonT(30) DEF Busy, Threads, Running
<1>3. Cardinality(Busy) = 0
  BY <1>2, FS_EmptySet, ZenonT(30)
<1>4. web_threads = 0 /\ 0 <= MAX_WEB_THREADS
  BY Constants DEF Init
<1> QED BY <1>3, <1>4, ZenonT(30) DEF ThreadsExact, Busy

\* Accept counts a thread and Close takes it back; nothing else moves the count.
LEMMA CountStep ==
  ASSUME Types, ThreadsExact, [Next]_vars
  PROVE  ThreadsExact'
<1> USE DEF shared, history
<1>0. web_threads = Cardinality(Busy) /\ web_threads <= MAX_WEB_THREADS
  BY ZenonT(30) DEF ThreadsExact, Busy
<1>s. SUFFICES web_threads' = Cardinality(Busy') /\ web_threads' <= MAX_WEB_THREADS
  BY DEF ThreadsExact, Busy
<1>1. CASE conn' = conn /\ web_threads' = web_threads
  <2>1. Busy' = Busy
    BY <1>1 DEF Busy, Threads
  <2> QED BY <1>0, <1>1, <2>1, ZenonT(30)
<1>2. ASSUME NEW c \in Conns, Accept(c)
      PROVE  web_threads' = Cardinality(Busy') /\ web_threads' <= MAX_WEB_THREADS
  <2>1. Moves(c) /\ conn[c].pc = "new"
    BY <1>2, AcceptMoves, ZenonT(30) DEF Types
  <2>2. \A d \in Conns : d # c => conn'[d] = conn[d]
    BY <2>1, ZenonT(30) DEF Moves
  <2>3. c \notin Busy
    BY <2>1, ZenonT(30) DEF Busy, Threads, Running
  <2>4. CASE conn'[c].pc = "rate" /\ web_threads < MAX_WEB_THREADS /\ web_threads' = web_threads + 1
    <3>1. Busy' = Busy \cup {c}
      BY <2>2, <2>4, ZenonT(30) DEF Busy, Threads, Running
    <3>2. Cardinality(Busy \cup {c}) = Cardinality(Busy) + 1
      BY <2>3, BusyFinite, FS_AddElement, ZenonT(30)
    <3> QED BY <1>0, <2>4, <3>1, <3>2, BusyFinite, Constants
  <2>5. CASE conn'[c].pc = "closed" /\ web_threads' = web_threads
    <3>1. Busy' = Busy
      BY <2>1, <2>2, <2>5, ZenonT(30) DEF Busy, Threads, Running
    <3> QED BY <1>0, <2>5, <3>1, ZenonT(30)
  <2> QED BY <1>2, <2>4, <2>5, AcceptMoves, ZenonT(30) DEF Types
<1>3. ASSUME NEW c \in Conns, Close(c)
      PROVE  web_threads' = Cardinality(Busy') /\ web_threads' <= MAX_WEB_THREADS
  <2>1. Moves(c)
    BY <1>3, HandleMoves, ZenonT(30) DEF Types, Handle
  <2>2. conn[c].pc = "end" /\ conn'[c].pc = "closed" /\ web_threads' = web_threads - 1
    BY <1>3, GotoPc, ZenonT(30) DEF Close, Types
  <2>3. \A d \in Conns : d # c => conn'[d] = conn[d]
    BY <2>1, ZenonT(30) DEF Moves
  <2>4. Busy' = Busy \ {c} /\ c \in Busy
    BY <2>2, <2>3, ZenonT(30) DEF Busy, Threads, Running
  <2>5. Cardinality(Busy \ {c}) = Cardinality(Busy) - 1
    BY <2>4, BusyFinite, FS_RemoveElement, ZenonT(30)
  <2> QED BY <1>0, <2>2, <2>4, <2>5, BusyFinite, Constants
<1>4. ASSUME NEW c \in Conns, Handle(c), ~Close(c)
      PROVE  web_threads' = Cardinality(Busy') /\ web_threads' <= MAX_WEB_THREADS
  <2>1. web_threads' = web_threads /\ conn[c].pc \notin {"new", "end"}
    BY <1>4, ZenonT(30) DEF Handle, Rate, Locked, Authorize, Deny, Mint, Consume, StreamEnd, Refuse, RpcConnect,
                RpcWrite, RpcRead, Serves
  <2>2. Busy' = Busy
    BY <1>4, <2>1, HandleMoves, BusySame, ZenonT(30) DEF Types
  <2> QED BY <1>0, <2>1, <2>2, ZenonT(30)
<1>5. (UNCHANGED vars \/ Tick \/ Runtime) => conn' = conn /\ web_threads' = web_threads
  BY ZenonT(30) DEF vars, Tick, Runtime
<1> QED BY <1>1, <1>2, <1>3, <1>4, <1>5, ZenonT(30) DEF Next

\* Without a thread there is none to end.
LEMMA NoneEnds ==
  ASSUME ThreadsExact, web_threads = 0
  PROVE  \A c \in Conns : conn[c].pc # "end"
<1>1. Cardinality(Busy) = 0
  BY DEF ThreadsExact, Busy
<1>2. Busy = {}
  BY <1>1, BusyFinite, FS_EmptySet, ZenonT(30)
<1> QED BY <1>2, ZenonT(30) DEF Busy, Threads, Running

----------------------------------------------------------------------------
(* Tickets *)

\* Connection d was served a ticket.
Issued(d) == conn[d].pc \in Over /\ Path(d) = "ticket" /\ (TokenSet => Bearer(d))

TicketInv ==
  /\ \A t \in tickets : Issued(t.by)
  /\ \A t, u \in tickets : t.by = u.by => t = u
  /\ \A s \in streams : Issued(s.ticket)
  /\ \A s \in streams, t \in tickets : t.by # s.ticket
  /\ TicketOnce
  /\ TicketFresh

\* A ticket stays issued.
LEMMA IssuedStays ==
  ASSUME Types, [Next]_vars, NEW d \in Conns, Issued(d)
  PROVE  Issued(d)'
<1> USE DEF shared, history
<1>1. CASE conn' = conn
  BY <1>1, ZenonT(30) DEF Issued, Path, Bearer
<1>2. ASSUME NEW c \in Conns, Moves(c)
      PROVE  Issued(d)'
  <2>1. CASE d # c
    <3>1. conn'[d] = conn[d]
      BY <1>2, <2>1, ZenonT(30) DEF Moves
    <3> QED BY <3>1, ZenonT(30) DEF Issued, Path, Bearer
  <2>2. CASE d = c
    <3>1. conn'[c].pc = "closed" /\ conn'[c].req = conn[c].req
      BY <1>2, <2>2, ZenonT(30) DEF Moves, Edges, Issued, Over
    <3> QED BY <2>2, <3>1, ZenonT(30) DEF Issued, Path, Bearer, Over
  <2> QED BY <2>1, <2>2, ZenonT(30)
<1>3. (UNCHANGED vars \/ Tick \/ Runtime) => conn' = conn
  BY ZenonT(30) DEF vars, Tick, Runtime
<1> QED BY <1>1, <1>2, <1>3, AcceptMoves, HandleMoves, ZenonT(30) DEF Next, Types

\* Tickets that only go away disturb nothing.
LEMMA TicketsShrink ==
  ASSUME Types, TicketInv, [Next]_vars, tickets' \subseteq tickets, streams' = streams
  PROVE  TicketInv'
<1>1. \A x \in tickets : x.by \in Conns
  BY ZenonT(30) DEF Types, Hits
<1>2. \A s \in streams : s.ticket \in Conns
  BY ZenonT(30) DEF Types, Streams
<1>3. \A x \in tickets' : Issued(x.by)'
  BY <1>1, IssuedStays, ZenonT(30) DEF TicketInv
<1>4. \A s \in streams' : Issued(s.ticket)'
  BY <1>2, IssuedStays, ZenonT(30) DEF TicketInv
<1> QED BY <1>3, <1>4, ZenonT(30) DEF TicketInv, TicketOnce, TicketFresh

\* mint_sse_ticket and consume_sse_ticket keep the tickets apart.
LEMMA TicketStep ==
  ASSUME Types, Steady, TicketInv, [Next]_vars
  PROVE  TicketInv'
<1> USE DEF shared, history
<1>0. Valid \subseteq tickets
  BY ZenonT(30) DEF Valid
<1>1. ASSUME NEW c \in Conns, Mint(c)
      PROVE  TicketInv'
  <2> DEFINE new == [by |-> c, at |-> now]
  <2>1. tickets' = Valid \cup {new} /\ streams' = streams
    BY <1>1, ZenonT(30) DEF Mint
  <2>2. conn[c].pc = "serve" /\ Path(c) = "ticket" /\ (TokenSet => Bearer(c))
    BY <1>1, ZenonT(30) DEF Mint, Serves, Steady, SteadyAt, Path, Bearer
  <2>3. ~Issued(c) /\ new.by = c
    BY <2>2 DEF Issued, Over
  <2>4. Issued(c)'
    <3>1. conn'[c].pc = "end" /\ Moves(c)
      BY <1>1, RespondPc, HandleMoves, ZenonT(30) DEF Mint, Types, Handle
    <3>2. conn'[c].req = conn[c].req
      BY <3>1, ZenonT(30) DEF Moves
    <3> QED BY <2>2, <3>1, <3>2, ZenonT(30) DEF Issued, Path, Bearer, Over
  <2> HIDE DEF new
  <2>5. \A x \in tickets : x.by # c
    BY <2>3, ZenonT(30) DEF TicketInv
  <2>6. \A s \in streams : s.ticket # c
    BY <2>3 DEF TicketInv
  <2>7. \A x \in tickets' : Issued(x.by)'
    <3>1. \A x \in tickets : Issued(x.by)'
      BY IssuedStays, ZenonT(30) DEF TicketInv, Types, Hits
    <3> QED BY <1>0, <2>1, <2>3, <2>4, <3>1, ZenonT(30)
  <2>8. \A s \in streams' : Issued(s.ticket)'
    BY <2>1, IssuedStays, ZenonT(30) DEF TicketInv, Types, Streams
  <2>9. \A x, u \in tickets' : x.by = u.by => x = u
    BY <1>0, <2>1, <2>3, <2>5, ZenonT(30) DEF TicketInv
  <2>10. \A s \in streams', x \in tickets' : x.by # s.ticket
    BY <1>0, <2>1, <2>3, <2>6, ZenonT(30) DEF TicketInv
  <2> QED BY <2>1, <2>7, <2>8, <2>9, <2>10, ZenonT(30) DEF TicketInv, TicketOnce, TicketFresh
<1>2. ASSUME NEW c \in Conns, Consume(c)
      PROVE  TicketInv'
  <2> DEFINE name == conn[c].req.ticket
             used == Named(Valid, name)
             made(x) == [by |-> c, ticket |-> x.by, issued |-> x.at, at |-> now]
  <2>1. CASE tickets' \subseteq tickets /\ streams' = streams
    BY <2>1, TicketsShrink, ZenonT(30)
  <2>2. CASE /\ tickets' = Valid \ used
             /\ streams' = streams \cup {made(x) : x \in used}
    <3>1. \A x \in used : x \in tickets /\ x.by = name /\ now - x.at < SSE_TICKET_TTL
      BY ZenonT(30) DEF Named, Valid
    <3>2. \A x : made(x).ticket = x.by /\ made(x).issued = x.at /\ made(x).at = now
      OBVIOUS
    <3>3. \A x \in Valid \ used : x.by # name
      BY ZenonT(30) DEF Named
    <3>4. ASSUME NEW x \in used, NEW u \in used
          PROVE  x = u
      BY <3>1, ZenonT(30) DEF TicketInv
    <3> HIDE DEF used, name, made
    <3>5. \A s \in streams' : s \in streams \/ \E x \in used : s = made(x)
      BY <2>2, ZenonT(30)
    <3>6. \A s \in streams' : Issued(s.ticket)'
      <4>1. \A s \in streams : Issued(s.ticket)'
        BY IssuedStays, ZenonT(30) DEF TicketInv, Types, Streams
      <4>2. \A x \in used : Issued(x.by)'
        BY <3>1, IssuedStays, ZenonT(30) DEF TicketInv, Types, Hits
      <4> QED BY <3>2, <3>5, <4>1, <4>2, ZenonT(30)
    <3>7. \A x \in tickets' : Issued(x.by)'
      BY <1>0, <2>2, IssuedStays, ZenonT(30) DEF TicketInv, Types, Hits
    <3>8. \A x, u \in tickets' : x.by = u.by => x = u
      BY <1>0, <2>2, ZenonT(30) DEF TicketInv
    <3>9. \A s \in streams', x \in tickets' : x.by # s.ticket
      BY <1>0, <2>2, <3>1, <3>2, <3>3, <3>5, ZenonT(30) DEF TicketInv
    <3>10. TicketOnce'
      <4>1. \A s \in streams, x \in used : s.ticket # made(x).ticket
        BY <3>1, <3>2, ZenonT(30) DEF TicketInv
      <4> QED BY <3>4, <3>5, <4>1 DEF TicketInv, TicketOnce
    <3>11. TicketFresh'
      BY <3>1, <3>2, <3>5 DEF TicketInv, TicketFresh
    <3> QED BY <3>6, <3>7, <3>8, <3>9, <3>10, <3>11, ZenonT(30) DEF TicketInv
  <2> QED BY <1>2, <2>1, <2>2, ConsumeFacts, ZenonT(30)
<1>3. CASE tickets' \subseteq tickets /\ streams' = streams
  BY <1>3, TicketsShrink, ZenonT(30)
<1>4. ASSUME NEW c \in Conns, Handle(c), ~Mint(c), ~Consume(c)
      PROVE  tickets' \subseteq tickets /\ streams' = streams
  BY <1>0, <1>4, ZenonT(30) DEF Handle, Rate, Locked, Authorize, Deny, StreamEnd, Refuse, RpcConnect, RpcWrite, RpcRead, Close
<1>5. (UNCHANGED vars \/ Tick \/ Runtime \/ \E c \in Conns : Accept(c))
        => tickets' \subseteq tickets /\ streams' = streams
  BY ZenonT(30) DEF vars, Tick, Runtime, Accept
<1> QED BY <1>1, <1>2, <1>3, <1>4, <1>5, ZenonT(30) DEF Next

----------------------------------------------------------------------------
(* Windows *)

\* Every hit was made by a connection that has its address, and not after now.
HitsInv ==
  \A h \in general \cup auth_fail \cup failures \cup admitted : h.at <= now /\ conn[h.by].pc # "new"

\* A connection keeps its address.
LEMMA IpStays ==
  ASSUME Types, [Next]_vars, NEW d \in Conns, conn[d].pc # "new"
  PROVE  conn'[d].pc # "new" /\ conn'[d].ip = conn[d].ip
<1> USE DEF shared, history
<1>1. CASE conn' = conn
  BY <1>1, ZenonT(30)
<1>2. ASSUME NEW c \in Conns, Moves(c)
      PROVE  conn'[d].pc # "new" /\ conn'[d].ip = conn[d].ip
  <2>1. CASE d # c
    BY <1>2, <2>1, ZenonT(30) DEF Moves
  <2>2. CASE d = c
    BY <1>2, <2>2, ZenonT(30) DEF Moves, Edges
  <2> QED BY <2>1, <2>2, ZenonT(30)
<1>3. (UNCHANGED vars \/ Tick \/ Runtime) => conn' = conn
  BY DEF vars, Tick, Runtime
<1> QED BY <1>1, <1>2, <1>3, AcceptMoves, HandleMoves, ZenonT(30) DEF Next, Types

\* A step changes the hits in one of three ways.
LEMMA HitsChange ==
  ASSUME Types, [Next]_vars
  PROVE  \/ \E c \in Conns : Rate(c)
         \/ \E c \in Conns : Locked(c)
         \/ \E c \in Conns : Deny(c)
         \/ general' = general /\ auth_fail' = auth_fail /\ failures' = failures /\ admitted' = admitted
<1> USE DEF shared, history
<1>1. ASSUME NEW c \in Conns, Handle(c), ~Rate(c), ~Locked(c), ~Deny(c)
      PROVE  general' = general /\ auth_fail' = auth_fail /\ failures' = failures /\ admitted' = admitted
  BY <1>1, ZenonT(30) DEF Handle, Authorize, Mint, Consume, StreamEnd, Refuse, RpcConnect, RpcWrite, RpcRead, Close
<1>2. (UNCHANGED vars \/ Tick \/ Runtime \/ \E c \in Conns : Accept(c))
        => general' = general /\ auth_fail' = auth_fail /\ failures' = failures /\ admitted' = admitted
  BY DEF vars, Tick, Runtime, Accept
<1> QED BY <1>1, <1>2, ZenonT(30) DEF Next

\* Only Tick moves the clock.
LEMMA ClockMoves ==
  ASSUME Types, [Next]_vars
  PROVE  \/ now' = now
         \/ now' = now + 1 /\ conn' = conn /\ general' = general /\ auth_fail' = auth_fail
            /\ failures' = failures /\ admitted' = admitted
<1> USE DEF shared, history
<1>1. ASSUME NEW c \in Conns, Handle(c)
      PROVE  now' = now
  BY <1>1, ZenonT(30) DEF Handle, Rate, Locked, Authorize, Deny, Mint, Consume, StreamEnd, Refuse, RpcConnect,
              RpcWrite, RpcRead, Close
<1>2. (UNCHANGED vars \/ Runtime \/ \E c \in Conns : Accept(c)) => now' = now
  BY ZenonT(30) DEF vars, Runtime, Accept
<1>3. CASE Tick
  BY <1>3, ZenonT(30) DEF Tick
<1> QED BY <1>1, <1>2, <1>3, ZenonT(30) DEF Next

\* Hits are only made by accepted connections, at the present time.
LEMMA HitsStep ==
  ASSUME Types, HitsInv, [Next]_vars
  PROVE  HitsInv'
<1> DEFINE all == general \cup auth_fail \cup failures \cup admitted
           old(h) == h \in all \/ (h.at = now /\ h.by \in Conns /\ conn[h.by].pc # "new")
<1>1. \A h \in all : h.by \in Conns /\ h.at \in Nat /\ h.at <= now /\ conn[h.by].pc # "new"
  BY DEF HitsInv, Types, Hits
<1>2. now \in Nat /\ now' \in Nat /\ now <= now'
  BY ClockMoves DEF Types
<1>3. \A h \in all : h.at <= now' /\ conn'[h.by].pc # "new"
  BY <1>1, <1>2, IpStays
<1>4. ASSUME NEW c \in Conns, Rate(c)
      PROVE  \A h \in all' : old(h)
  <2>1. Retain(general, conn[c].ip, RATE_GENERAL_WINDOW) \subseteq general
    BY RetainFacts, ZenonT(30) DEF Types
  <2>2. conn[c].pc = "rate" /\ auth_fail' = auth_fail /\ failures' = failures
    BY <1>4, ZenonT(30) DEF Rate
  <2> QED BY <1>4, <2>1, <2>2, RateFacts
<1>5. ASSUME NEW c \in Conns, Locked(c)
      PROVE  \A h \in all' : old(h)
  <2>1. auth_fail' \subseteq auth_fail
    BY <1>5, RetainFacts, ZenonT(30) DEF Locked, Types
  <2> QED BY <1>5, <2>1, ZenonT(30) DEF Locked, history
<1>6. ASSUME NEW c \in Conns, Deny(c)
      PROVE  \A h \in all' : old(h)
  BY <1>6, SMTT(30), Z3T(30) DEF Deny
<1>7. \A h \in all' : old(h)
  BY <1>4, <1>5, <1>6, HitsChange, ZenonT(30)
<1>8. \A h \in all' : h.at <= now' /\ conn'[h.by].pc # "new"
  BY <1>2, <1>3, <1>7, IpStays, ZenonT(30)
<1> QED BY <1>8, ZenonT(30) DEF HitsInv

\* The hits of ip in a window, with the connections f.
Win(S, f, ip, t, w) == {h \in S : f[h.by].ip = ip /\ h.at <= t /\ t - h.at < w}

\* No step moves a recorded hit to another address.
LEMMA WinStays ==
  ASSUME Types, HitsInv, [Next]_vars, NEW S \in SUBSET (failures \cup admitted), NEW ip, NEW u, NEW w
  PROVE  Win(S, conn', ip, u, w) = Win(S, conn, ip, u, w)
<1>1. \A h \in S : h.by \in Conns /\ conn[h.by].pc # "new"
  BY ZenonT(30) DEF HitsInv, Types, Hits
<1>2. \A h \in S : conn'[h.by].ip = conn[h.by].ip
  BY <1>1, IpStays, ZenonT(30)
<1> QED BY <1>2, ZenonT(30) DEF Win

\* A window is finite, its definition is Win, and it shrinks as time passes.
LEMMA WinFacts ==
  ASSUME NEW S \in SUBSET Hits, IsFiniteSet(S), NEW f, NEW ip, NEW u \in Nat, NEW w \in Nat
  PROVE  /\ IsFiniteSet(Win(S, f, ip, u, w))
         /\ Cardinality(Win(S, f, ip, u, w)) \in Nat
         /\ (\A h \in S : h.at <= u) =>
              Cardinality(Win(S, f, ip, u + 1, w)) <= Cardinality(Win(S, f, ip, u, w))
<1>1. Win(S, f, ip, u, w) \subseteq S
  BY ZenonT(30) DEF Win
<1>2. IsFiniteSet(Win(S, f, ip, u, w)) /\ Cardinality(Win(S, f, ip, u, w)) \in Nat
  BY <1>1, FS_Subset, FS_CardinalityType, ZenonT(30)
<1>3. ASSUME \A h \in S : h.at <= u
      PROVE  Win(S, f, ip, u + 1, w) \subseteq Win(S, f, ip, u, w)
  <2>1. \A h \in S : h.at \in Nat
    BY Constants DEF Hits
  <2> QED BY <1>3, <2>1 DEF Win
<1> QED BY <1>2, <1>3, FS_Subset, ZenonT(30)

\* A hit made now is in no earlier window, and only in those of its address.
LEMMA WinAdd ==
  ASSUME NEW S \in SUBSET Hits, NEW x \in Hits, NEW f, NEW ip, NEW u \in Nat, NEW w \in Nat
  PROVE  /\ Win(S \cup {x}, f, ip, u, w) \subseteq Win(S, f, ip, u, w) \cup {x}
         /\ u < x.at \/ f[x.by].ip # ip => Win(S \cup {x}, f, ip, u, w) = Win(S, f, ip, u, w)
<1>1. x.at \in Nat
  BY Constants DEF Hits
<1> QED BY <1>1 DEF Win

----------------------------------------------------------------------------
(* The general limit *)

General(S, f, ip, u) == Win(S, f, ip, u, RATE_GENERAL_WINDOW)

\* The window the code keeps holds every admitted request that is still in it.
RateInv ==
  /\ \A h \in admitted : now - h.at < RATE_GENERAL_WINDOW => h \in general
  /\ \A ip \in Ips, u \in 0..now : Cardinality(General(admitted, conn, ip, u)) <= RATE_GENERAL_LIMIT

\* rate_check keeps the general limit.
LEMMA RateStep ==
  ASSUME Types, HitsInv, RateInv, [Next]_vars
  PROVE  RateInv'
<1> USE DEF shared, history
<1>0. /\ now \in Nat /\ \A h \in admitted : h.at \in Nat /\ h.at <= now
      /\ admitted \in SUBSET Hits /\ IsFiniteSet(admitted)
      /\ RATE_GENERAL_LIMIT \in Nat /\ RATE_GENERAL_WINDOW \in Nat
  BY Constants DEF Types, Hits, HitsInv
<1>a. \A ip, u : General(admitted, conn', ip, u) = General(admitted, conn, ip, u)
  BY WinStays, ZenonT(30) DEF General
<1>1. CASE admitted' = admitted /\ now' = now /\ general' = general
  BY <1>1, <1>a, ZenonT(30) DEF RateInv
<1>2. ASSUME NEW c \in Conns, Rate(c)
      PROVE  RateInv'
  <2> DEFINE hits == Retain(general, conn[c].ip, RATE_GENERAL_WINDOW)
             hit == [by |-> c, at |-> now]
  <2>1. now' = now /\ conn[c].pc = "rate"
    BY <1>2, ZenonT(30) DEF Rate
  <2>2. hits \subseteq general /\ IsFiniteSet(hits)
    BY RetainFacts, ZenonT(30) DEF Types
  <2>3. \A h \in admitted : now - h.at < RATE_GENERAL_WINDOW => h \in hits
    <3>1. \A h \in general : now - h.at < RATE_GENERAL_WINDOW => h \in hits
      BY RetainFacts, ZenonT(30) DEF Types
    <3> QED BY <3>1 DEF RateInv
  <2>4. CASE general' = hits /\ admitted' = admitted
    BY <1>a, <2>1, <2>3, <2>4, ZenonT(30) DEF RateInv
  <2>5. CASE /\ Under(hits, conn[c].ip, RATE_GENERAL_LIMIT)
             /\ general' = hits \cup {hit}
             /\ admitted' = admitted \cup {hit}
    <3>1. hit \in Hits /\ hit.at = now /\ hit.by = c
      BY HitFacts, ZenonT(30) DEF Types
    <3>2. conn'[c].ip = conn[c].ip
      BY <2>1, IpStays, ZenonT(30)
    <3>3. HitsOf(hits, conn[c].ip) \subseteq hits /\ Cardinality(HitsOf(hits, conn[c].ip)) < RATE_GENERAL_LIMIT
      BY <2>5, ZenonT(30) DEF Under, HitsOf
    <3>4. General(admitted, conn, conn[c].ip, now) \subseteq HitsOf(hits, conn[c].ip)
      BY <2>3, ZenonT(30) DEF General, Win, HitsOf
    <3> HIDE DEF hits, hit
    <3>5. ASSUME NEW ip \in Ips, NEW u \in 0..now
          PROVE  Cardinality(General(admitted', conn', ip, u)) <= RATE_GENERAL_LIMIT
      <4>0. u \in Nat /\ u <= now
        BY <1>0
      <4>1. CASE u < now \/ ip # conn[c].ip
        <5>0. u < hit.at \/ conn'[hit.by].ip # ip
          BY <3>1, <3>2, <4>1, ZenonT(30)
        <5>1. General(admitted \cup {hit}, conn', ip, u) = General(admitted, conn', ip, u)
          BY <1>0, <3>1, <4>0, <5>0, WinAdd, SMTT(30), Z3T(30) DEF General
        <5> QED BY <1>a, <2>5, <5>1, ZenonT(30) DEF RateInv
      <4>2. CASE u = now /\ ip = conn[c].ip
        <5>1. General(admitted', conn', ip, u) \subseteq General(admitted, conn', ip, u) \cup {hit}
          BY <1>0, <2>5, <3>1, <4>0, WinAdd, ZenonT(30) DEF General
        <5>2. General(admitted', conn', ip, u) \subseteq HitsOf(hits, conn[c].ip) \cup {hit}
          BY <1>a, <3>4, <4>2, <5>1, ZenonT(30)
        <5>3. IsFiniteSet(HitsOf(hits, conn[c].ip)) /\ Cardinality(HitsOf(hits, conn[c].ip)) \in Nat
          BY <2>2, <3>3, FS_Subset, FS_CardinalityType, ZenonT(30)
        <5>a. /\ IsFiniteSet(HitsOf(hits, conn[c].ip) \cup {hit})
              /\ \/ Cardinality(HitsOf(hits, conn[c].ip) \cup {hit}) = Cardinality(HitsOf(hits, conn[c].ip))
                 \/ Cardinality(HitsOf(hits, conn[c].ip) \cup {hit}) = Cardinality(HitsOf(hits, conn[c].ip)) + 1
          BY <5>3, FS_AddElement, ZenonT(30)
        <5>4. /\ IsFiniteSet(HitsOf(hits, conn[c].ip) \cup {hit})
              /\ Cardinality(HitsOf(hits, conn[c].ip) \cup {hit}) <= RATE_GENERAL_LIMIT
          BY <1>0, <3>3, <5>3, <5>a
        <5>5. /\ Cardinality(General(admitted', conn', ip, u)) <= Cardinality(HitsOf(hits, conn[c].ip) \cup {hit})
              /\ IsFiniteSet(General(admitted', conn', ip, u))
          BY <5>2, <5>4, FS_Subset, ZenonT(30)
        <5> QED BY <1>0, <5>4, <5>5, FS_CardinalityType, SMTT(30), Z3T(30)
      <4> QED BY <1>0, <4>0, <4>1, <4>2
    <3>6. \A h \in admitted' : now' - h.at < RATE_GENERAL_WINDOW => h \in general'
      BY <2>1, <2>3, <2>5, ZenonT(30)
    <3> QED BY <2>1, <3>5, <3>6, ZenonT(30) DEF RateInv
  <2> QED BY <1>2, <2>4, <2>5, RateFacts, ZenonT(30)
<1>3. CASE now' = now + 1 /\ conn' = conn /\ general' = general /\ admitted' = admitted
  <2>1. \A h \in admitted : now + 1 - h.at < RATE_GENERAL_WINDOW => now - h.at < RATE_GENERAL_WINDOW
    BY <1>0
  <2>2. ASSUME NEW ip \in Ips, NEW u \in 0..(now + 1)
        PROVE  Cardinality(General(admitted, conn, ip, u)) <= RATE_GENERAL_LIMIT
    <3>1. CASE u \in 0..now
      BY <3>1, ZenonT(30) DEF RateInv
    <3>2. CASE u = now + 1
      <4>1. Cardinality(General(admitted, conn, ip, now + 1)) <= Cardinality(General(admitted, conn, ip, now))
        BY <1>0, WinFacts, ZenonT(30) DEF General
      <4>2. Cardinality(General(admitted, conn, ip, now)) <= RATE_GENERAL_LIMIT
        BY <1>0 DEF RateInv
      <4>3. /\ Cardinality(General(admitted, conn, ip, now + 1)) \in Nat
            /\ Cardinality(General(admitted, conn, ip, now)) \in Nat
        BY <1>0, WinFacts, now + 1 \in Nat, ZenonT(30) DEF General
      <4> QED BY <1>0, <3>2, <4>1, <4>2, <4>3
    <3> QED BY <1>0, <3>1, <3>2
  <2>3. \A h \in admitted' : now' - h.at < RATE_GENERAL_WINDOW => h \in general'
    <3>1. \A h \in admitted : now + 1 - h.at < RATE_GENERAL_WINDOW => h \in general
      BY <2>1 DEF RateInv
    <3> QED BY <1>0, <1>3, <3>1
  <2>4. \A ip \in Ips, u \in 0..now' : Cardinality(General(admitted', conn', ip, u)) <= RATE_GENERAL_LIMIT
    BY <1>3, <2>2, ZenonT(30)
  <2> QED BY <2>3, <2>4, ZenonT(30) DEF RateInv
<1>4. ASSUME NEW c \in Conns, Locked(c) \/ Deny(c)
      PROVE  admitted' = admitted /\ now' = now /\ general' = general
  BY <1>4, ZenonT(30) DEF Locked, Deny
<1> QED BY <1>1, <1>2, <1>3, <1>4, HitsChange, ClockMoves, ZenonT(30)

----------------------------------------------------------------------------
(* The lockout *)

Failed(S, f, ip, u) == Win(S, f, ip, u, RATE_AUTH_FAIL_WINDOW)

\* The threads of an address that are past the lockout and may still fail.
Pending(f, ip) == {c \in Conns : f[c].pc \in {"authorize", "deny"} /\ f[c].ip = ip}

\* The failures in the window and those that may still come stay below the bound.
LockInv ==
  /\ \A h \in failures : now - h.at < RATE_AUTH_FAIL_WINDOW => h \in auth_fail
  /\ \A ip \in Ips : Cardinality(Failed(failures, conn, ip, now)) + Cardinality(Pending(conn, ip))
                       < RATE_AUTH_FAIL_LIMIT + MAX_WEB_THREADS
  /\ \A ip \in Ips, u \in 0..now : Cardinality(Failed(failures, conn, ip, u))
                                     < RATE_AUTH_FAIL_LIMIT + MAX_WEB_THREADS

\* The counted sets are finite.
LEMMA PendingFinite ==
  ASSUME NEW f, NEW ip
  PROVE  IsFiniteSet(Pending(f, ip)) /\ Cardinality(Pending(f, ip)) \in Nat
<1>1. Pending(f, ip) \subseteq Conns
  BY ZenonT(30) DEF Pending
<1> QED BY <1>1, Constants, FS_Subset, FS_CardinalityType, ZenonT(30)

\* Only Locked makes a connection pending.
LEMMA PendingShrinks ==
  ASSUME Types, [Next]_vars, ~ \E c \in Conns : Locked(c), NEW ip
  PROVE  Cardinality(Pending(conn', ip)) <= Cardinality(Pending(conn, ip))
<1> USE DEF shared, history
<1>1. SUFFICES Pending(conn', ip) \subseteq Pending(conn, ip)
  BY PendingFinite, FS_Subset, ZenonT(30)
<1>2. CASE conn' = conn
  BY <1>2, ZenonT(30)
<1>3. ASSUME NEW c \in Conns, Moves(c), conn[c].pc # "locked"
      PROVE  Pending(conn', ip) \subseteq Pending(conn, ip)
  <2>1. \A d \in Conns : d # c => conn'[d] = conn[d]
    BY <1>3, ZenonT(30) DEF Moves
  <2>2. conn'[c].pc \in {"authorize", "deny"} => conn[c].pc = "authorize" /\ conn'[c].ip = conn[c].ip
    BY <1>3, ZenonT(30) DEF Moves, Edges
  <2> QED BY <2>1, <2>2, ZenonT(30) DEF Pending
<1>4. ASSUME NEW c \in Conns, Handle(c)
      PROVE  conn[c].pc # "locked"
  BY <1>4, ZenonT(30) DEF Handle, Rate, Authorize, Deny, Mint, Consume, StreamEnd, Refuse, RpcConnect, RpcWrite, RpcRead,
              Close, Serves
<1>5. (UNCHANGED vars \/ Tick \/ Runtime) => conn' = conn
  BY ZenonT(30) DEF vars, Tick, Runtime
<1>6. ASSUME NEW c \in Conns, Accept(c)
      PROVE  Moves(c) /\ conn[c].pc # "locked"
  BY <1>6, AcceptMoves, ZenonT(30) DEF Types
<1> QED BY <1>2, <1>3, <1>4, <1>5, <1>6, HandleMoves, ZenonT(30) DEF Next, Types

\* The lockout check and the recording of a failure keep the bound between them.
LEMMA LockStep ==
  ASSUME Types, HitsInv, LockInv, ThreadsExact', [Next]_vars
  PROVE  LockInv'
<1> USE DEF shared, history
<1> DEFINE bound == RATE_AUTH_FAIL_LIMIT + MAX_WEB_THREADS
<1>0. /\ now \in Nat /\ \A h \in failures : h.at \in Nat /\ h.at <= now
      /\ failures \in SUBSET Hits /\ IsFiniteSet(failures)
      /\ RATE_AUTH_FAIL_LIMIT \in Nat /\ RATE_AUTH_FAIL_WINDOW \in Nat /\ MAX_WEB_THREADS \in Nat
  BY Constants DEF Types, Hits, HitsInv
<1>a. \A ip, u : Failed(failures, conn', ip, u) = Failed(failures, conn, ip, u)
  BY WinStays, ZenonT(30) DEF Failed
<1>b. \A ip \in Ips, u \in Nat : Cardinality(Failed(failures, conn, ip, u)) \in Nat
  BY <1>0, WinFacts, ZenonT(30) DEF Failed
<1>c. \A ip : Cardinality(Pending(conn, ip)) \in Nat /\ Cardinality(Pending(conn', ip)) \in Nat
  BY PendingFinite, ZenonT(30)
<1>1. CASE /\ failures' = failures /\ now' = now /\ auth_fail' = auth_fail
           /\ ~ \E c \in Conns : Locked(c)
  <2>1. \A ip \in Ips : Cardinality(Failed(failures, conn, ip, now)) + Cardinality(Pending(conn', ip)) < bound
    <3>1. \A ip \in Ips : Cardinality(Pending(conn', ip)) <= Cardinality(Pending(conn, ip))
      BY <1>1, PendingShrinks, ZenonT(30)
    <3> QED BY <1>0, <1>b, <1>c, <3>1 DEF LockInv
  <2> QED BY <1>1, <1>a, <2>1, ZenonT(30) DEF LockInv
<1>2. ASSUME NEW c \in Conns, Locked(c)
      PROVE  LockInv'
  <2> DEFINE addr == conn[c].ip
             hits == Retain(auth_fail, addr, RATE_AUTH_FAIL_WINDOW)
  <2>1. failures' = failures /\ now' = now /\ auth_fail' = hits /\ conn[c].pc = "locked"
    BY <1>2, ZenonT(30) DEF Locked
  <2>2. \A h \in failures : now - h.at < RATE_AUTH_FAIL_WINDOW => h \in hits
    <3>1. \A h \in auth_fail : now - h.at < RATE_AUTH_FAIL_WINDOW => h \in hits
      BY RetainFacts, ZenonT(30) DEF Types
    <3> QED BY <3>1, ZenonT(30) DEF LockInv
  <2>3. Moves(c)
    BY <1>2, HandleMoves, ZenonT(30) DEF Handle, Types
  <2>4. \A d \in Conns : d # c => conn'[d] = conn[d]
    BY <2>3, ZenonT(30) DEF Moves
  <2>5. conn'[c].ip = addr
    BY <2>1, <2>3, ZenonT(30) DEF Moves
  <2>6. ASSUME NEW ip \in Ips
        PROVE  Cardinality(Failed(failures, conn, ip, now)) + Cardinality(Pending(conn', ip)) < bound
    <3>1. CASE Under(hits, addr, RATE_AUTH_FAIL_LIMIT) /\ ip = addr
      <4>1. IsFiniteSet(HitsOf(hits, addr)) /\ Cardinality(HitsOf(hits, addr)) \in Nat
        <5>1. IsFiniteSet(hits)
          BY RetainFacts, ZenonT(30) DEF Types
        <5>2. HitsOf(hits, addr) \subseteq hits
          BY ZenonT(30) DEF HitsOf
        <5> QED BY <5>1, <5>2, FS_Subset, FS_CardinalityType, ZenonT(30)
      <4>2. Failed(failures, conn, ip, now) \subseteq HitsOf(hits, addr)
        BY <2>2, <3>1, ZenonT(30) DEF Failed, Win, HitsOf
      <4>3. Cardinality(Failed(failures, conn, ip, now)) <= Cardinality(HitsOf(hits, addr))
        BY <4>1, <4>2, FS_Subset, ZenonT(30)
      <4>4. Cardinality(HitsOf(hits, addr)) < RATE_AUTH_FAIL_LIMIT
        BY <3>1, ZenonT(30) DEF Under
      <4>5. Cardinality(Pending(conn', ip)) <= MAX_WEB_THREADS
        <5>1. Pending(conn', ip) \subseteq Busy'
          BY ZenonT(30) DEF Pending, Busy, Threads, Running
        <5>2. IsFiniteSet(Busy') /\ Cardinality(Busy') \in Nat
          <6>1. Busy' \subseteq Conns
            BY ZenonT(30) DEF Busy, Threads
          <6> QED BY <6>1, Constants, FS_Subset, FS_CardinalityType, ZenonT(30)
        <5>3. Cardinality(Pending(conn', ip)) <= Cardinality(Busy')
          BY <5>1, <5>2, FS_Subset, ZenonT(30)
        <5>4. Cardinality(Busy') <= MAX_WEB_THREADS
          BY ZenonT(30) DEF ThreadsExact, Busy
        <5> QED BY <1>0, <1>c, <5>2, <5>3, <5>4, SMTT(30), Z3T(30)
      <4> QED BY <1>0, <1>b, <1>c, <4>1, <4>3, <4>4, <4>5, SMTT(30), Z3T(30)
    <3>2. CASE ip # addr
      <4>1. Pending(conn', ip) = Pending(conn, ip)
        BY <2>4, <2>5, <3>2, ZenonT(30) DEF Pending
      <4> QED BY <4>1, ZenonT(30) DEF LockInv
    <3>3. CASE ~Under(hits, addr, RATE_AUTH_FAIL_LIMIT)
      <4>1. Respond(c, "429")
        BY <1>2, <3>3, ZenonT(30) DEF Locked
      <4>2. conn'[c].pc = "end"
        BY <4>1, RespondPc, ZenonT(30) DEF Types
      <4>3. Pending(conn', ip) = Pending(conn, ip)
        BY <2>1, <2>4, <4>2, ZenonT(30) DEF Pending
      <4> QED BY <4>3 DEF LockInv
    <3> QED BY <3>1, <3>2, <3>3, ZenonT(30)
  <2> HIDE DEF hits, addr
  <2> QED BY <1>a, <2>1, <2>2, <2>6, ZenonT(30) DEF LockInv
<1>3. ASSUME NEW c \in Conns, Deny(c)
      PROVE  LockInv'
  <2> DEFINE hit == [by |-> c, at |-> now]
  <2>1. /\ failures' = failures \cup {hit} /\ auth_fail' = auth_fail \cup {hit}
        /\ now' = now /\ conn[c].pc = "deny"
    BY <1>3, ZenonT(30) DEF Deny
  <2>2. hit \in Hits /\ hit.at = now /\ hit.by = c
    BY HitFacts, ZenonT(30) DEF Types
  <2>3. Moves(c) /\ conn'[c].pc = "end"
    BY <1>3, HandleMoves, RespondPc, ZenonT(30) DEF Handle, Types, Deny
  <2>4. \A d \in Conns : d # c => conn'[d] = conn[d]
    BY <2>3, ZenonT(30) DEF Moves
  <2>5. conn'[c].ip = conn[c].ip
    BY <2>1, <2>3, ZenonT(30) DEF Moves
  <2> HIDE DEF hit
  <2>6. ASSUME NEW ip \in Ips, NEW u \in 0..now, u < now \/ ip # conn[c].ip
        PROVE  Failed(failures', conn', ip, u) = Failed(failures, conn, ip, u)
    <3>1. u < hit.at \/ conn'[hit.by].ip # ip
      BY <2>2, <2>5, <2>6, ZenonT(30)
    <3>2. u \in Nat
      BY <1>0
    <3>3. Failed(failures \cup {hit}, conn', ip, u) = Failed(failures, conn', ip, u)
      <4>1. ~(hit.at <= u /\ conn'[hit.by].ip = ip)
        BY <1>0, <2>2, <3>1, <3>2
      <4> QED BY <4>1, ZenonT(30) DEF Failed, Win
    <3> QED BY <1>a, <2>1, <3>3, ZenonT(30)
  <2>7. ASSUME NEW ip \in Ips
        PROVE  /\ Cardinality(Failed(failures', conn', ip, now)) \in Nat
               /\ Cardinality(Failed(failures', conn', ip, now)) + Cardinality(Pending(conn', ip)) < bound
    <3>1. CASE ip # conn[c].ip
      <4>1. Pending(conn', ip) = Pending(conn, ip)
        BY <2>4, <2>5, <3>1, ZenonT(30) DEF Pending
      <4>2. Failed(failures', conn', ip, now) = Failed(failures, conn, ip, now)
        BY <1>0, <2>6, <3>1
      <4> QED BY <1>0, <1>b, <4>1, <4>2, ZenonT(30) DEF LockInv
    <3>2. CASE ip = conn[c].ip
      <4>1. Pending(conn', ip) = Pending(conn, ip) \ {c} /\ c \in Pending(conn, ip)
        BY <2>1, <2>3, <2>4, <3>2, ZenonT(30) DEF Pending
      <4>2. Cardinality(Pending(conn', ip)) = Cardinality(Pending(conn, ip)) - 1
        BY <4>1, PendingFinite, FS_RemoveElement, ZenonT(30)
      <4> DEFINE before == Failed(failures, conn, ip, now)
      <4>3. Failed(failures \cup {hit}, conn', ip, now) \subseteq Failed(failures, conn', ip, now) \cup {hit}
        BY <1>0, <2>2, WinAdd, ZenonT(30) DEF Failed
      <4>4. Failed(failures', conn', ip, now) \subseteq before \cup {hit}
        BY <1>a, <2>1, <4>3, ZenonT(30)
      <4>5. IsFiniteSet(before) /\ Cardinality(before) \in Nat
        BY <1>0, WinFacts, ZenonT(30) DEF Failed
      <4> HIDE DEF before
      <4>6. /\ IsFiniteSet(before \cup {hit})
            /\ \/ Cardinality(before \cup {hit}) = Cardinality(before)
               \/ Cardinality(before \cup {hit}) = Cardinality(before) + 1
        BY <4>5, FS_AddElement, ZenonT(30)
      <4>7. /\ Cardinality(Failed(failures', conn', ip, now)) <= Cardinality(before \cup {hit})
            /\ IsFiniteSet(Failed(failures', conn', ip, now))
        BY <4>4, <4>6, FS_Subset, ZenonT(30)
      <4>8. Cardinality(Failed(failures', conn', ip, now)) \in Nat
        BY <4>7, FS_CardinalityType, ZenonT(30)
      <4>9. Cardinality(before) + Cardinality(Pending(conn, ip)) < bound
        BY ZenonT(30) DEF before, LockInv
      <4> QED BY <1>0, <1>c, <4>2, <4>5, <4>6, <4>7, <4>8, <4>9, SMTT(30), Z3T(30)
    <3> QED BY <3>1, <3>2, ZenonT(30)
  <2>8. ASSUME NEW ip \in Ips, NEW u \in 0..now
        PROVE  Cardinality(Failed(failures', conn', ip, u)) < bound
    <3>1. CASE u = now
      BY <1>0, <1>c, <2>7, <3>1
    <3>2. CASE u < now
      BY <2>6, <3>2, ZenonT(30) DEF LockInv
    <3> QED BY <1>0, <3>1, <3>2
  <2>9. \A h \in failures' : now' - h.at < RATE_AUTH_FAIL_WINDOW => h \in auth_fail'
    BY <2>1, ZenonT(30) DEF LockInv
  <2> QED BY <2>1, <2>7, <2>8, <2>9, ZenonT(30) DEF LockInv
<1>4. CASE now' = now + 1 /\ conn' = conn /\ auth_fail' = auth_fail /\ failures' = failures
  <2>1. \A h \in failures : now + 1 - h.at < RATE_AUTH_FAIL_WINDOW => now - h.at < RATE_AUTH_FAIL_WINDOW
    BY <1>0
  <2>2. \A h \in failures : now + 1 - h.at < RATE_AUTH_FAIL_WINDOW => h \in auth_fail
    BY <2>1, ZenonT(30) DEF LockInv
  <2>3. ASSUME NEW ip \in Ips
        PROVE  /\ Cardinality(Failed(failures, conn, ip, now + 1)) + Cardinality(Pending(conn, ip)) < bound
               /\ Cardinality(Failed(failures, conn, ip, now + 1)) < bound
    <3>1. Cardinality(Failed(failures, conn, ip, now + 1)) <= Cardinality(Failed(failures, conn, ip, now))
      BY <1>0, WinFacts, ZenonT(30) DEF Failed
    <3>2. now + 1 \in Nat
      BY <1>0
    <3>3. Cardinality(Failed(failures, conn, ip, now)) + Cardinality(Pending(conn, ip)) < bound
      BY ZenonT(30) DEF LockInv
    <3> QED BY <1>0, <1>b, <1>c, <3>1, <3>2, <3>3, SMTT(30), Z3T(30)
  <2>4. \A ip \in Ips, u \in 0..(now + 1) : Cardinality(Failed(failures, conn, ip, u)) < bound
    <3>1. \A u \in 0..(now + 1) : u \in 0..now \/ u = now + 1
      BY <1>0
    <3> QED BY <2>3, <3>1, ZenonT(30) DEF LockInv
  <2>5. \A h \in failures' : now' - h.at < RATE_AUTH_FAIL_WINDOW => h \in auth_fail'
    BY <1>0, <1>4, <2>2
  <2>6. \A ip \in Ips : Cardinality(Failed(failures', conn', ip, now')) + Cardinality(Pending(conn', ip)) < bound
    BY <1>4, <2>3, ZenonT(30)
  <2>7. \A ip \in Ips, u \in 0..now' : Cardinality(Failed(failures', conn', ip, u)) < bound
    BY <1>4, <2>4, ZenonT(30)
  <2> QED BY <2>5, <2>6, <2>7, ZenonT(30) DEF LockInv
<1>5. ASSUME NEW c \in Conns, Rate(c)
      PROVE  failures' = failures /\ now' = now /\ auth_fail' = auth_fail
  BY <1>5, ZenonT(30) DEF Rate
<1> QED BY <1>1, <1>2, <1>3, <1>4, <1>5, HitsChange, ClockMoves, ZenonT(30)

----------------------------------------------------------------------------
(* The invariant and what follows from it *)

IInv == Types /\ Exchange /\ Steady /\ ThreadsExact /\ TicketInv /\ HitsInv /\ RateInv /\ LockInv

\* At the start nothing is counted, issued or recorded.
LEMMA IInvInit == Init => IInv
<1> SUFFICES ASSUME Init PROVE IInv
  OBVIOUS
<1>1. Types /\ Steady /\ ThreadsExact
  BY TypesInit, SteadyInit, CountInit, ZenonT(30)
<1>8. Exchange
  BY ExchangeInit DEF Init
<1>2. TicketInv /\ HitsInv
  BY ZenonT(30) DEF Init, TicketInv, TicketOnce, TicketFresh, HitsInv
<1>3. \A f, ip, u, w : Win({}, f, ip, u, w) = {}
  BY ZenonT(30) DEF Win
<1>4. Cardinality({}) = 0 /\ failures = {} /\ admitted = {}
  BY FS_EmptySet, ZenonT(30) DEF Init
<1>5. \A ip : Pending(conn, ip) = {}
  <2>1. \A c \in Conns : conn[c].pc = "new"
    BY DEF Init
  <2> QED BY <2>1, ZenonT(30) DEF Pending
<1>6. RateInv
  <2>1. \A ip, u : Cardinality(General(admitted, conn, ip, u)) = 0
    BY <1>3, <1>4, ZenonT(30) DEF General
  <2> QED BY <1>4, <2>1, Constants DEF RateInv
<1>7. LockInv
  <2>1. \A ip, u : Cardinality(Failed(failures, conn, ip, u)) = 0 /\ Cardinality(Pending(conn, ip)) = 0
    BY <1>3, <1>4, <1>5, ZenonT(30) DEF Failed
  <2>2. 0 < RATE_AUTH_FAIL_LIMIT + MAX_WEB_THREADS
    BY Constants
  <2> QED BY <1>4, <2>1, <2>2 DEF LockInv
<1> QED BY <1>1, <1>2, <1>6, <1>7, <1>8, ZenonT(30) DEF IInv

\* Every step keeps the invariant.
LEMMA IInvStep == IInv /\ [Next]_vars => IInv'
<1> SUFFICES ASSUME IInv, [Next]_vars PROVE IInv'
  OBVIOUS
<1>1. Types /\ Exchange /\ Steady /\ ThreadsExact /\ TicketInv /\ HitsInv /\ RateInv /\ LockInv
  BY ZenonT(30) DEF IInv
<1>2. Types'
  BY <1>1, NoneEnds, ServedFirst, TypesStep, ZenonT(30)
<1>7. Exchange'
  BY <1>1, EveryRpcStep, ExchangeStep, ZenonT(30) DEF Types
<1>3. ThreadsExact'
  BY <1>1, CountStep, ZenonT(30)
<1>4. Steady' /\ TicketInv'
  BY <1>1, SteadyStep, TicketStep, ZenonT(30)
<1>5. HitsInv' /\ RateInv'
  BY <1>1, HitsStep, RateStep, ZenonT(30)
<1>6. LockInv'
  BY <1>1, <1>3, LockStep, ZenonT(30)
<1> QED BY <1>2, <1>3, <1>4, <1>5, <1>6, <1>7, ZenonT(30) DEF IInv

\* The invariant holds in every reachable state.
THEOREM WebInvariant == Spec => []IInv
BY IInvInit, IInvStep, PTL DEF Spec

\* The web worker's state has its types, and WEB_THREADS is neither negative nor
\* past the limit.
THEOREM WebTypes == Spec => []TypeOK
<1>1. IInv => TypeOK
  <2> SUFFICES ASSUME IInv PROVE TypeOK
    OBVIOUS
  <2>1. Types /\ web_threads \in Nat /\ web_threads <= MAX_WEB_THREADS /\ MAX_WEB_THREADS \in Nat
    BY Constants, ZenonT(30) DEF IInv, Types, ThreadsExact
  <2>2. /\ sock \in [Conns -> [at : Handled \cup {"none", "backlog", "over"}, nr : 0..arrivals,
                               input : {"empty", "cut", "whole"}, answer : Json \cup {"none"}]]
        /\ arrivals \in Nat /\ ready \in BOOLEAN /\ done \subseteq Conns
    BY <2>1 DEF Types, RpcTypes, SockRow
  <2> QED BY <2>1, <2>2 DEF Types, TypeOK, Conn, Pcs, Replies, Streams
<1> QED BY <1>1, WebInvariant, PTL

\* The thread count of the accept loop is exact, for any number of threads.
THEOREM ThreadCountExact == Spec => []ThreadsExact
<1>1. IInv => ThreadsExact
  BY ZenonT(30) DEF IInv
<1> QED BY <1>1, WebInvariant, PTL

\* consume_sse_ticket: one stream for a ticket, whoever else found it valid.
THEOREM TicketsOnce == Spec => []TicketOnce
<1>1. IInv => TicketOnce
  BY ZenonT(30) DEF IInv, TicketInv
<1> QED BY <1>1, WebInvariant, PTL

\* consume_sse_ticket: no stream starts after its ticket has expired.
THEOREM TicketsInTime == Spec => []TicketFresh
<1>1. IInv => TicketFresh
  BY ZenonT(30) DEF IInv, TicketInv
<1> QED BY <1>1, WebInvariant, PTL

\* authorized: what is minted, streamed or executed was asked for with the token.
THEOREM AuthorizedOnly == Spec => []OnlyAuthorized
<1>1. IInv => OnlyAuthorized
  BY ZenonT(30) DEF IInv, Steady, SteadyAt, TicketInv, Issued, OnlyAuthorized, Path, Bearer
<1> QED BY <1>1, WebInvariant, PTL

\* rpc, handle_rpc_stream and dashboard_rpc: a client is told "200" only of an RPC
\* that the runtime worker executed and committed, wherever either side gave up
\* or ended.
THEOREM RepliesTruthful == Spec => []OkIsExecuted
<1>1. IInv => OkIsExecuted
  BY ZenonT(30) DEF IInv, Steady, SteadyAt, OkIsExecuted, Path
<1> QED BY <1>1, WebInvariant, PTL

\* allgres_runtime_main: the RPCs take effect in the order of their connects, for
\* any number of clients that give up, and any number of restarts.
THEOREM RpcsInOrder == Spec => ExecutedInOrder
<1>1. IInv /\ [Next]_vars => [\A c \in done' \ done, d \in done : sock[d].nr < sock[c].nr]_vars
  <2> SUFFICES ASSUME IInv, [Next]_vars
               PROVE  \A c \in done' \ done, d \in done : sock[d].nr < sock[c].nr
    BY ZenonT(30)
  <2> QED BY EveryRpcStep, CommitInOrder, ZenonT(30) DEF IInv, Types
<1> QED BY <1>1, WebInvariant, PTL DEF Spec, ExecutedInOrder

\* rate_check: the general limit holds in every window that ever was.
THEOREM GeneralLimitKept == Spec => []RateKept
<1>1. IInv => RateKept
  <2>1. \A ip, u : InWindow(admitted, ip, u, RATE_GENERAL_WINDOW) = General(admitted, conn, ip, u)
    BY ZenonT(30) DEF InWindow, HitsOf, General, Win
  <2> QED BY <2>1, ZenonT(30) DEF IInv, RateInv, RateKept
<1> QED BY <1>1, WebInvariant, PTL

\* auth_failures_exceeded and record_auth_failure: the failures of an address in
\* a window exceed the limit by less than the number of threads.
THEOREM LockoutHolds == Spec => []LockoutBounded
<1>1. IInv => LockoutBounded
  <2>1. \A ip, u : InWindow(failures, ip, u, RATE_AUTH_FAIL_WINDOW) = Failed(failures, conn, ip, u)
    BY DEF InWindow, HitsOf, Failed, Win
  <2> QED BY <2>1 DEF IInv, LockInv, LockoutBounded
<1> QED BY <1>1, WebInvariant, PTL

=============================================================================
