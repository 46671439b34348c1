------------------------------- MODULE Http -------------------------------
(***************************************************************************)
(* tpt-net-http over HTTP/1.1: serve_connection on the server's end of     *)
(* each connection, HttpClient::request with its Pool on the client's.     *)
(* Both ends share HttpConnection (a read buffer in front of the           *)
(* transport) and BodyReader.  The client may instead be somebody else's,  *)
(* which pipelines requests of any framing and leaves when it likes, and   *)
(* so may the server of an authority in Foreign.                           *)
(***************************************************************************)
EXTENDS HttpFraming, FiniteSets

CONSTANTS Tasks,             \* tasks that call HttpClient::request
          Authorities,       \* hosts
          Foreign,           \* those not served by serve_connection
          Requests,          \* what each task asks for
          Responses,         \* what the handlers answer
          ForeignRequests,   \* what a foreign client sends
          ForeignResponses,  \* what a foreign server answers
          BodyLimits,        \* the limits a handler reads the body with
          MaxPooledBody, MaxIdlePerHost, MaxRedirects,
          MaxConns, MaxMessages    \* bounds of the model

ASSUME HttpAssumption ==
  /\ Foreign \subseteq Authorities /\ 0 \notin Authorities
  /\ MaxIdlePerHost \in Nat /\ MaxRedirects \in Nat /\ MaxPooledBody \in Nat
  /\ MaxConns \in Nat \ {0} /\ MaxMessages \in Nat /\ BodyLimits \subseteq Nat

\* What is asked and answered.  Every sender frames its bodies as its heads
\* say, and sends none where HTTP allows none.
Lengths   == 0..(None - 1)
Locations == Authorities \cup {None, Relative}
ASSUME MessageAssumption ==
  /\ Requests \in [Tasks -> SUBSET [method : STRING \ {"HEAD"}, authority : Authorities,
                                    len : Lengths, connection : STRING]]
  /\ Responses \subseteq [status : Nat, len : Lengths, location : Locations, connection : STRING]
  /\ \A r \in Responses : r.status \in Bodyless => r.len = 0
  /\ ForeignRequests \subseteq
       [version : {10, 11}, connection : STRING, te : STRING, cl : 0..Invalid, len : Lengths,
        wellformed : BOOLEAN]
  /\ \A r \in ForeignRequests : Fits(RequestBodyKind(r), r, r.len)
  /\ ForeignResponses \subseteq
       [status : Nat, connection : STRING, te : STRING, cl : 0..Invalid, len : Lengths,
        location : Locations, closes : BOOLEAN]
  /\ \A r \in ForeignResponses : Fits(ResponseBodyKind(r, FALSE), r, r.len)

Conns == 1..MaxConns
Ends  == Conns \X {"client", "server"}
Peer(e) == <<e[1], IF e[2] = "client" THEN "server" ELSE "client">>

VARIABLES
  wire,      \* units on their way to an end
  open,      \* the transport of an end has not been dropped
  buf,       \* HttpConnection.buf
  rd,        \* BodyReader of the message being read
  srv,       \* serve_connection: where it is and the request in hand
  task,      \* HttpClient::request: where it is
  idle,      \* Pool.idle
  host,      \* authority a connection leads to
  client,    \* whose the clients are: "ours" or "foreign"
  messages,  \* number of requests sent so far, the next message's identity
  asked,     \* requests sent on a connection, with their bodies
  handled,   \* requests the handler was given, with the body it read
  result     \* what the last call of a task returned

net  == <<wire, open, buf, rd>>
hist == <<messages, asked, handled, result>>
vars == <<net, srv, task, idle, host, client, hist>>

NoReader == [kind |-> "empty", left |-> 0, chunk |-> 0, need |-> "none",
             state |-> "off", out |-> <<>>, max |-> 0]
NoMessage == [id |-> 0]
NoResult  == [kind |-> "none", id |-> 0, body |-> <<>>]

\* BodyReader::new and the first step of read_to_vec: a body of no bytes is
\* finished before it is read.
Reader(k, max) == [NoReader EXCEPT !.kind = k.kind, !.left = k.left, !.max = max,
                                   !.state = "reading"]

Idle == [phase |-> "idle", conn |-> 0, authority |-> 0, method |-> "", id |-> 0,
         len |-> 0, connection |-> "none", hops |-> 0, head |-> NoMessage]

Init ==
  /\ wire = [e \in Ends |-> <<>>] /\ open = [e \in Ends |-> FALSE]
  /\ buf = [e \in Ends |-> <<>>] /\ rd = [e \in Ends |-> NoReader]
  /\ srv = [c \in Conns |-> [phase |-> "off", head |-> NoMessage]]
  /\ task = [t \in Tasks |-> Idle]
  /\ idle = [a \in Authorities |-> <<>>]
  /\ host = [c \in Conns |-> 0]
  /\ client \in {"ours", "foreign"}
  /\ messages = 0
  /\ asked = [c \in Conns |-> <<>>] /\ handled = [c \in Conns |-> <<>>]
  /\ result = [t \in Tasks |-> NoResult]

-----------------------------------------------------------------------------
(* HttpConnection *)

AtEof(e) == wire[e] = <<>> /\ ~open[Peer(e)]

\* fill: one read of the transport, of any length.
Fill(e) ==
  \E n \in 1..Len(wire[e]) :
    /\ buf' = [buf EXCEPT ![e] = @ \o SubSeq(wire[e], 1, n)]
    /\ wire' = [wire EXCEPT ![e] = SubSeq(@, n + 1, Len(@))]

\* read_raw and expect_exact: what is buffered first, then the transport.
Available(e) == buf[e] \o wire[e]
Consume(e) ==
  IF buf[e] # <<>> THEN buf' = [buf EXCEPT ![e] = Tail(@)] /\ UNCHANGED wire
                   ELSE wire' = [wire EXCEPT ![e] = Tail(@)] /\ UNCHANGED buf

DropFront(e, n) == buf' = [buf EXCEPT ![e] = SubSeq(@, n + 1, Len(@))]

\* write_message: head, body and flush.  After the peer is gone the transport
\* may take the bytes without delivering them.
WriteMessage(e, msg, len) ==
  wire' = [wire EXCEPT ![Peer(e)] =
             IF open[Peer(e)] THEN @ \o MessageUnits(msg, len) ELSE @]

-----------------------------------------------------------------------------
(* BodyReader::read_to_vec, one read at a time *)

Reading(e) == open[e] /\ rd[e].state = "reading"
EndRead(e, state) == rd' = [rd EXCEPT ![e].state = state]

\* The body is complete: finished was set, or nothing remains.
ReadFinished(e) ==
  /\ rd[e].kind = "empty" \/ (rd[e].kind = "length" /\ rd[e].left = 0)
  /\ EndRead(e, "finished")
  /\ UNCHANGED <<wire, buf>>

\* out.len() + n > max is an error after the bytes were taken.
ReadBytes(e) ==
  /\ \/ rd[e].kind = "length" /\ rd[e].left > 0
     \/ rd[e].kind = "chunked" /\ rd[e].chunk > 0
     \/ rd[e].kind = "eof"
  /\ Available(e) # <<>>
  /\ Consume(e)
  /\ rd' = [rd EXCEPT ![e] =
       [rd[e] EXCEPT !.left  = IF rd[e].kind = "length" THEN @ - 1 ELSE @,
                     !.chunk = IF rd[e].kind = "chunked" THEN @ - 1 ELSE @,
                     !.need  = IF rd[e].kind = "chunked" /\ rd[e].chunk = 1 THEN "crlf" ELSE @,
                     !.out   = Append(@, Head(Available(e))),
                     !.state = IF Len(rd[e].out) + 1 > rd[e].max THEN "toolong" ELSE @]]

\* The CRLF after a chunk.
ReadChunkEnd(e) ==
  /\ rd[e].kind = "chunked" /\ rd[e].need = "crlf"
  /\ Available(e) # <<>>
  /\ Consume(e)
  /\ rd' = [rd EXCEPT ![e].need = "none",
                      ![e].state = IF Head(Available(e)).kind = "crlf" THEN @ ELSE "malformed"]

\* A size line, or a trailer line after the chunk of size 0.
ReadChunkLine(e) ==
  /\ rd[e].kind = "chunked" /\ rd[e].chunk = 0 /\ rd[e].need # "crlf"
  /\ IF LineEnd(buf[e]) = 0
     THEN Fill(e) /\ UNCHANGED rd
     ELSE LET line == buf[e][LineEnd(buf[e])] IN
          /\ DropFront(e, LineEnd(buf[e]))
          /\ UNCHANGED wire
          /\ \/ /\ rd[e].need = "trailer"
                /\ rd' = [rd EXCEPT ![e].state =
                            IF LineEnd(buf[e]) = 1 /\ line.kind = "crlf" THEN "finished" ELSE @]
             \/ /\ rd[e].need = "none"
                /\ IF LineEnd(buf[e]) = 1 /\ line.kind = "size"
                   THEN rd' = [rd EXCEPT ![e].chunk = line.n,
                                         ![e].need = IF line.n = 0 THEN "trailer" ELSE @]
                   ELSE EndRead(e, "malformed")

\* Mutant: the end of the connection inside a body is read again and again.
ReadEofOnlyWhenEofFramed(e) ==
  rd[e].kind = "eof" /\ AtEof(e) /\ buf[e] = <<>> /\ EndRead(e, "finished") /\ UNCHANGED <<wire, buf>>

\* The peer is gone: the end of an EOF-framed body, an error in any other.
ReadEof(e) ==
  /\ rd[e].kind \in {"chunked", "eof"} \/ (rd[e].kind = "length" /\ rd[e].left > 0)
  /\ AtEof(e)
  /\ IF rd[e].kind = "chunked" /\ rd[e].chunk = 0 /\ rd[e].need # "crlf"
     THEN LineEnd(buf[e]) = 0 ELSE buf[e] = <<>>
  /\ EndRead(e, IF rd[e].kind = "eof" THEN "finished" ELSE "closed")
  /\ UNCHANGED <<wire, buf>>

ReadBody(e) ==
  /\ Reading(e)
  /\ \/ ReadFinished(e) \/ ReadBytes(e) \/ ReadChunkEnd(e) \/ ReadChunkLine(e) \/ ReadEof(e)
  /\ UNCHANGED <<open, srv, task, idle, host, client, hist>>

\* The transport is dropped, and with it all that was buffered for it.
Drop(e) ==
  /\ open' = [open EXCEPT ![e] = FALSE]
  /\ buf' = [buf EXCEPT ![e] = <<>>]
  /\ rd' = [rd EXCEPT ![e] = NoReader]

-----------------------------------------------------------------------------
(* serve_connection *)

SEnd(c) == <<c, "server">>
Serving(c, phase) == srv[c].phase = phase

ServerReturns(c) ==
  /\ Drop(SEnd(c))
  /\ srv' = [srv EXCEPT ![c] = [phase |-> "returned", head |-> NoMessage]]

\* read_request_head: the buffer, more bytes, or the end of the connection.
\* An error, in the head or in its framing, ends serve_connection.
ServeHead(c) ==
  LET e == SEnd(c)
      head == buf[e][2].msg
  IN
  /\ Serving(c, "head")
  /\ \/ /\ ParseHead(buf[e]) = "head"
        /\ \/ /\ RequestBodyKind(head).kind = "error"
              /\ ServerReturns(c)
              /\ UNCHANGED <<wire, handled>>
           \/ /\ RequestBodyKind(head).kind # "error"
              /\ DropFront(e, 2)
              /\ rd' = [rd EXCEPT ![e] =
                          [Reader(RequestBodyKind(head), 0) EXCEPT !.state = "off"]]
              /\ srv' = [srv EXCEPT ![c] = [phase |-> "handle", head |-> head]]
              /\ handled' = [handled EXCEPT ![c] = Append(@, [id |-> head.id, body |-> <<>>, reply |-> None])]
              /\ UNCHANGED <<wire, open>>
     \/ /\ ParseHead(buf[e]) = "malformed"
        /\ ServerReturns(c)
        /\ UNCHANGED <<wire, handled>>
     \/ /\ ParseHead(buf[e]) = "more" /\ Fill(e)
        /\ UNCHANGED <<open, rd, srv, handled>>
     \/ /\ ParseHead(buf[e]) = "more" /\ AtEof(e)
        /\ ServerReturns(c)
        /\ UNCHANGED <<wire, handled>>
  /\ UNCHANGED <<task, idle, host, client, messages, asked, result>>

\* The handler asks for the body, or answers without it.
HandlerReadsBody(c, max) ==
  /\ Serving(c, "handle") /\ rd[SEnd(c)].state = "off"
  /\ rd' = [rd EXCEPT ![SEnd(c)].state = "reading", ![SEnd(c)].max = max]
  /\ UNCHANGED <<wire, open, buf, srv, task, idle, host, client, hist>>

\* BodyReader::is_finished, after read_to_vec or without it.
IsFinished(r) ==
  \/ r.state = "finished"
  \/ r.state = "off" /\ (r.kind = "empty" \/ (r.kind = "length" /\ r.left = 0))

\* render_head: content-length only for a body of some bytes.
RenderHead(id, r) ==
  [id |-> id, status |-> r.status, location |-> r.location, connection |-> r.connection,
   te |-> "none", wellformed |-> TRUE, cl |-> IF r.len > 0 THEN r.len ELSE None]

\* The response is written; then the next request, or the end.
Respond(c, r) ==
  LET e == SEnd(c) IN
  /\ Serving(c, "handle") /\ rd[e].state # "reading"
  /\ WriteMessage(e, RenderHead(srv[c].head.id, r), r.len)
  /\ handled' = [handled EXCEPT ![c][Len(handled[c])] =
                                  [@ EXCEPT !.body = rd[e].out, !.reply = r.len]]
  /\ \/ /\ KeepAliveRequested(srv[c].head) /\ IsFinished(rd[e])
        /\ srv' = [srv EXCEPT ![c] = [phase |-> "head", head |-> NoMessage]]
        /\ rd' = [rd EXCEPT ![e] = NoReader]
        /\ UNCHANGED <<open, buf>>
     \/ /\ ~(KeepAliveRequested(srv[c].head) /\ IsFinished(rd[e]))
        /\ ServerReturns(c)
     \/ /\ ~open[Peer(e)]                    \* the write fails
        /\ ServerReturns(c)
  /\ UNCHANGED <<task, idle, host, client, messages, asked, result>>

-----------------------------------------------------------------------------
(* HttpClient::request *)

CEnd(c) == <<c, "client">>
InPhase(t, phase) == task[t].phase = phase

Return(t, r) ==
  /\ task' = [task EXCEPT ![t] = Idle]
  /\ result' = [result EXCEPT ![t] = r]
Failed(t) == Return(t, [NoResult EXCEPT !.kind = "error", !.id = task[t].id])

\* A new call.  The authority is the Host header of the request.
StartRequest(t, r) ==
  /\ client = "ours" /\ InPhase(t, "idle") /\ messages < MaxMessages
  /\ task' = [task EXCEPT ![t] = [Idle EXCEPT !.phase = "connect", !.authority = r.authority,
                 !.method = r.method, !.len = r.len, !.connection = r.connection]]
  /\ result' = [result EXCEPT ![t] = NoResult]
  /\ UNCHANGED <<net, srv, idle, host, client, messages, asked, handled>>

\* Pool::take is a pop.  A connection gets a fresh HttpConnection each time.
TakeIdle(t) ==
  LET a == task[t].authority
      c == idle[a][Len(idle[a])]
  IN
  /\ InPhase(t, "connect") /\ idle[a] # <<>>
  /\ idle' = [idle EXCEPT ![a] = Front(@)]
  /\ task' = [task EXCEPT ![t].phase = "send", ![t].conn = c]
  /\ UNCHANGED <<net, srv, host, client, hist>>

\* Connector::connect, to serve_connection or to somebody else's server.
Connect(t) ==
  /\ InPhase(t, "connect") /\ idle[task[t].authority] = <<>>
  /\ \/ \E c \in Conns :
          /\ host[c] = 0 /\ \A d \in 1..(c - 1) : host[d] # 0
          /\ host' = [host EXCEPT ![c] = task[t].authority]
          /\ open' = [open EXCEPT ![CEnd(c)] = TRUE, ![SEnd(c)] = TRUE]
          /\ srv' = [srv EXCEPT ![c].phase =
                       IF task[t].authority \in Foreign THEN "foreign" ELSE "head"]
          /\ task' = [task EXCEPT ![t].phase = "send", ![t].conn = c]
          /\ UNCHANGED result
     \/ Failed(t) /\ UNCHANGED <<open, srv, host>>
  /\ UNCHANGED <<wire, buf, rd, idle, client, messages, asked, handled>>

\* ClientConnection::send up to its first read: the request always carries
\* its content-length.
SendRequest(t) ==
  LET c == task[t].conn
      msg == [id |-> messages + 1, method |-> task[t].method, version |-> 11,
              connection |-> task[t].connection, te |-> "none", cl |-> task[t].len,
              wellformed |-> TRUE]
  IN
  /\ InPhase(t, "send") /\ messages < MaxMessages
  /\ WriteMessage(CEnd(c), msg, task[t].len)
  /\ messages' = messages + 1
  /\ asked' = [asked EXCEPT ![c] = Append(@, [id |-> msg.id, len |-> task[t].len])]
  /\ \/ /\ task' = [task EXCEPT ![t].phase = "head", ![t].id = msg.id]
        /\ UNCHANGED <<open, buf, rd, result>>
     \/ /\ ~open[SEnd(c)]                   \* the write fails
        /\ Drop(CEnd(c)) /\ Failed(t)
  /\ UNCHANGED <<srv, idle, host, client, handled>>

\* read_response_head, the framing of the body, and the redirect checks.
ReadResponseHead(t) ==
  LET c == task[t].conn
      e == CEnd(c)
      head == buf[e][2].msg
      kind == ResponseBodyKind(head, task[t].method = "HEAD")
      refused == \/ kind.kind = "error"
                 \/ IsRedirect(head) /\ (task[t].hops >= MaxRedirects \/ head.location = None)
  IN
  /\ InPhase(t, "head")
  /\ \/ /\ ParseHead(buf[e]) = "head" /\ ~refused
        /\ DropFront(e, 2)
        /\ rd' = [rd EXCEPT ![e] = Reader(kind, MaxPooledBody)]
        /\ task' = [task EXCEPT ![t].phase = "body", ![t].head = head]
        /\ UNCHANGED <<wire, open, result>>
     \/ /\ \/ ParseHead(buf[e]) = "head" /\ refused
           \/ ParseHead(buf[e]) = "malformed"
           \/ ParseHead(buf[e]) = "more" /\ AtEof(e)
        /\ Drop(e) /\ Failed(t)
        /\ UNCHANGED wire
     \/ /\ ParseHead(buf[e]) = "more" /\ Fill(e)
        /\ UNCHANGED <<open, rd, task, result>>
  /\ UNCHANGED <<srv, idle, host, client, messages, asked, handled>>

\* Whatever became of the redirect's body, its connection is dropped.
FollowRedirect(t) ==
  LET e == CEnd(task[t].conn) IN
  /\ InPhase(t, "body") /\ rd[e].state # "reading" /\ IsRedirect(task[t].head)
  /\ Drop(e)
  /\ task' = [task EXCEPT ![t] = [task[t] EXCEPT !.phase = "connect", !.conn = 0, !.len = 0,
                 !.authority = ResolveRedirect(task[t].authority, task[t].head.location), !.hops = @ + 1]]
  /\ UNCHANGED <<wire, srv, idle, host, client, hist>>

\* Pool::put keeps at most max_idle_per_host.max(1) connections.
MaxIdle == IF MaxIdlePerHost > 1 THEN MaxIdlePerHost ELSE 1
CanKeep(a) == Len(idle[a]) < MaxIdle

\* The body was read: the response is returned, and the connection goes back to
\* the pool without its HttpConnection, or is dropped.
FinishRequest(t) ==
  LET c == task[t].conn
      e == CEnd(c)
      a == task[t].authority
      keep == KeepAliveFrom(task[t].head) /\ CanKeep(a)
  IN
  /\ InPhase(t, "body") /\ ~IsRedirect(task[t].head)
  /\ rd[e].state = "finished"
  /\ Return(t, [kind |-> "ok", id |-> task[t].id, body |-> rd[e].out])
  /\ \/ /\ keep
        /\ idle' = [idle EXCEPT ![a] = Append(@, c)]
        /\ buf' = [buf EXCEPT ![e] = <<>>]
        /\ rd' = [rd EXCEPT ![e] = NoReader]
        /\ UNCHANGED open
     \/ ~keep /\ Drop(e) /\ UNCHANGED idle
  /\ UNCHANGED <<wire, srv, host, client, messages, asked, handled>>

\* The body could not be read.
RequestFails(t) ==
  LET e == CEnd(task[t].conn) IN
  /\ InPhase(t, "body") /\ ~IsRedirect(task[t].head)
  /\ rd[e].state \in {"closed", "malformed", "toolong"}
  /\ Drop(e) /\ Failed(t)
  /\ UNCHANGED <<wire, srv, idle, host, client, messages, asked, handled>>

\* Mutant: a cancelled call gives its connection back.
CancelRequestToPool(t) ==
  /\ task[t].phase \in {"head", "body"} /\ CanKeep(task[t].authority)
  /\ idle' = [idle EXCEPT ![task[t].authority] = Append(@, task[t].conn)]
  /\ buf' = [buf EXCEPT ![CEnd(task[t].conn)] = <<>>]
  /\ rd' = [rd EXCEPT ![CEnd(task[t].conn)] = NoReader]
  /\ Return(t, [NoResult EXCEPT !.kind = "cancelled", !.id = task[t].id])
  /\ UNCHANGED <<wire, open, srv, host, client, messages, asked, handled>>

\* The future is dropped at an await, for instance by a timeout.
CancelRequest(t) ==
  /\ task[t].phase \in {"head", "body"}
  /\ Drop(CEnd(task[t].conn))
  /\ Return(t, [NoResult EXCEPT !.kind = "cancelled", !.id = task[t].id])
  /\ UNCHANGED <<wire, srv, idle, host, client, messages, asked, handled>>

-----------------------------------------------------------------------------
(* Clients and servers that are not of this crate *)

\* A client on connection 1 pipelines requests without reading answers.  It
\* may leave in the middle of one.
ForeignConnect ==
  /\ client = "foreign" /\ host[1] = 0
  /\ \E a \in Authorities \ Foreign : host' = [host EXCEPT ![1] = a]
  /\ open' = [open EXCEPT ![CEnd(1)] = TRUE, ![SEnd(1)] = TRUE]
  /\ srv' = [srv EXCEPT ![1].phase = "head"]
  /\ UNCHANGED <<wire, buf, rd, task, idle, client, hist>>

ForeignSend(r) ==
  LET msg == [id |-> messages + 1, method |-> "GET", version |-> r.version,
              connection |-> r.connection, te |-> r.te, cl |-> r.cl,
              wellformed |-> r.wellformed]
      units == MessageUnits(msg, r.len)
  IN
  /\ client = "foreign" /\ open[CEnd(1)] /\ messages < MaxMessages
  /\ \E n \in 1..Len(units) :
       /\ wire' = [wire EXCEPT ![SEnd(1)] = IF open[SEnd(1)] THEN @ \o SubSeq(units, 1, n) ELSE @]
       /\ open' = [open EXCEPT ![CEnd(1)] = (n = Len(units))]
  /\ messages' = messages + 1
  /\ asked' = [asked EXCEPT ![1] = Append(@, [id |-> msg.id, len |-> r.len])]
  /\ UNCHANGED <<buf, rd, srv, task, idle, host, client, handled, result>>

ForeignLeaves ==
  /\ client = "foreign" /\ open[CEnd(1)]
  /\ Drop(CEnd(1))
  /\ UNCHANGED <<wire, srv, task, idle, host, client, hist>>

\* A server answers a request it has read, whole or cut short by its end.
ForeignServe(c, r) ==
  LET e == SEnd(c)
      head == wire[e][2].msg
      msg == [id |-> head.id, status |-> r.status, location |-> r.location,
              connection |-> r.connection, te |-> r.te, cl |-> r.cl, wellformed |-> TRUE]
      units == MessageUnits(msg, r.len)
  IN
  /\ Serving(c, "foreign") /\ open[e] /\ Len(wire[e]) >= 2
  /\ \E n \in 1..Len(units) :
       /\ wire' = [wire EXCEPT ![e] = <<>>,
                               ![CEnd(c)] = IF open[CEnd(c)] THEN @ \o SubSeq(units, 1, n) ELSE @]
       /\ open' = [open EXCEPT ![e] = (n = Len(units) /\ ~r.closes)]
  /\ UNCHANGED <<buf, rd, srv, task, idle, host, client, hist>>

\* A server closes a connection it does not want any more.
ForeignCloses(c) ==
  /\ Serving(c, "foreign") /\ open[SEnd(c)]
  /\ open' = [open EXCEPT ![SEnd(c)] = FALSE]
  /\ UNCHANGED <<wire, buf, rd, srv, task, idle, host, client, hist>>

-----------------------------------------------------------------------------
ServeConnection(c) ==
  \/ ServeHead(c) \/ ReadBody(SEnd(c)) \/ \E r \in Responses : Respond(c, r)

Request(t) ==
  \/ TakeIdle(t) \/ Connect(t) \/ SendRequest(t) \/ ReadResponseHead(t)
  \/ InPhase(t, "body") /\ ReadBody(CEnd(task[t].conn))
  \/ FollowRedirect(t) \/ FinishRequest(t) \/ RequestFails(t)

Next ==
  \/ \E c \in Conns :
       \/ ServeConnection(c) \/ \E max \in BodyLimits : HandlerReadsBody(c, max)
       \/ ForeignCloses(c) \/ \E r \in ForeignResponses : ForeignServe(c, r)
  \/ \E t \in Tasks :
       \/ Request(t) \/ CancelRequest(t) \/ \E r \in Requests[t] : StartRequest(t, r)
  \/ ForeignConnect \/ ForeignLeaves \/ \E r \in ForeignRequests : ForeignSend(r)

Spec == Init /\ [][Next]_vars

\* Executors poll what is ready, handlers answer, a foreign server closes what
\* it does not use.
FairSpec ==
  /\ Spec
  /\ \A c \in Conns : WF_vars(ServeConnection(c) \/ ForeignCloses(c))
  /\ \A t \in Tasks : WF_vars(Request(t))

-----------------------------------------------------------------------------
TypeOK ==
  /\ DOMAIN wire = Ends /\ DOMAIN buf = Ends
  /\ open \in [Ends -> BOOLEAN]
  /\ \A e \in Ends : rd[e].state \in {"off", "reading", "finished", "closed", "malformed", "toolong"}
  /\ \A c \in Conns : srv[c].phase \in {"off", "head", "handle", "returned", "foreign"}
  /\ \A t \in Tasks : task[t].phase \in {"idle", "connect", "send", "head", "body"}
  /\ \A a \in Authorities : Range(idle[a]) \subseteq Conns
  /\ client \in {"ours", "foreign"} /\ messages \in 0..MaxMessages

\* Requests stay in step with their bodies.  Whatever the framing, the cuts of
\* the transport and the handler's use of the body, the handler is given the
\* requests of a connection in the order they were sent, none twice and none
\* left out, each with the bytes of its own body and no others; a body it was
\* given whole is whole.
RequestsInStep ==
  /\ TypeOK
  /\ \A c \in Conns : \A i \in DOMAIN handled[c] :
       LET a == asked[c][i]
           h == handled[c][i]
       IN  /\ Len(handled[c]) <= Len(asked[c]) /\ h.id = a.id
           /\ IsPrefix(h.body, DataUnits(a.id, a.len))
           /\ i = Len(handled[c]) /\ Serving(c, "handle") =>
                /\ IsPrefix(rd[SEnd(c)].out, DataUnits(a.id, a.len))
                /\ rd[SEnd(c)].state = "finished" => Len(rd[SEnd(c)].out) = a.len

\* The response a caller gets is the answer to its own request, with the
\* whole body serve_connection wrote and nothing else, although connections are reused by other
\* tasks, calls are cancelled and servers die.
ResponseIsForRequest ==
  \A t \in Tasks : result[t].kind = "ok" =>
    /\ result[t].body = DataUnits(result[t].id, Len(result[t].body))
    /\ \A c \in Conns : \A h \in Range(handled[c]) :
         h.id = result[t].id => Len(result[t].body) = h.reply

\* A connection in the pool, which holds no more than its limit, is in step:
\* nobody else uses it, no answer is still to come on it, and serve_connection
\* at its other end waits for a new head or has returned, because a request
\* asked it to or the handler left a body unread (see KeptIfNeitherCloses).
PooledInStep ==
  \A a \in Authorities : Len(idle[a]) <= MaxIdle /\ \A i \in DOMAIN idle[a] :
    LET c == idle[a][i] IN
    /\ host[c] = a /\ open[CEnd(c)]
    /\ \A j \in DOMAIN idle[a] : idle[a][j] = c => i = j
    /\ \A t \in Tasks : task[t].conn # c
    /\ wire[CEnd(c)] = <<>>
    /\ a \notin Foreign => \/ Serving(c, "returned")
                           \/ Serving(c, "head") /\ Available(SEnd(c)) = <<>>

\* What the doc of Pool says: a connection comes back only if neither side has
\* signalled close.  The code looks at the response alone: a connection whose
\* own request asked for the close is kept, and its server has left it.
KeptIfNeitherCloses ==
  [][\A t \in Tasks :
       FinishRequest(t) /\ open'[CEnd(task[t].conn)] =>
         "close" \notin {task[t].connection, task[t].head.connection}]_vars

\* A call of HttpClient::request returns, provided that a foreign server
\* answers or closes in the end (FairSpec) and whatever else happens, but for
\* one case: serve_connection puts no content-length on an answer without a
\* body, so the client reads on until the connection ends, and the server
\* that kept it alive waits for the next request.
Starved(t) ==
  LET c == task[t].conn IN
  InPhase(t, "body") /\ rd[CEnd(c)].kind = "eof" /\ Serving(c, "head")
RequestReturns ==
  \A t \in Tasks : task[t].phase \in {"connect", "head", "body"}
                    ~> task[t].phase \in {"idle", "send"} \/ Starved(t)

\* serve_connection returns once its client has left, whatever it was doing.
ServerReturnsAfterClient ==
  \A c \in Conns : srv[c].phase \in {"head", "handle"} /\ ~open[CEnd(c)]
                    ~> Serving(c, "returned")
=============================================================================
