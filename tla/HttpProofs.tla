----------------------------- MODULE HttpProofs -----------------------------
(***************************************************************************)
(* Proofs about Http, for any tasks, hosts, requests, responses, limits    *)
(* and number of connections, whoever is at either end: handlers get the   *)
(* requests of a connection in order, each with its own body; a caller     *)
(* gets the answer to its own request; a pooled connection is in step.     *)
(*                                                                         *)
(* The three rest on one inductive invariant, HttpInv.  It says of every   *)
(* connection what is still on its way: to the server the rest of the body *)
(* in hand (Reads) and behind it the requests not yet handled (Queued), to *)
(* the client nothing, or the one answer (CallInStep); and of every task   *)
(* and pool that nobody else has their connections (Owned).                *)
(***************************************************************************)
EXTENDS Http, ProofBasics

-----------------------------------------------------------------------------
\* What the sequences and records of the model consist of.
Text == STRING \cup {"", "none", "GET"}
RequestHeads ==
  [id : Nat, method : Text, version : {10, 11}, connection : Text, te : Text,
   cl : 0..Invalid, wellformed : BOOLEAN]
ResponseHeads ==
  [id : Nat, status : Nat, location : Locations, connection : Text, te : Text,
   cl : 0..Invalid, wellformed : BOOLEAN]
Units ==
  [kind : {"start", "head", "size", "data", "crlf"}, msg : Nat \cup RequestHeads \cup ResponseHeads,
   n : Nat]
Readers ==
  [kind : {"empty", "length", "chunked", "eof", "error"}, left : Nat, chunk : Nat,
   need : {"none", "crlf", "trailer"},
   state : {"off", "reading", "finished", "closed", "malformed", "toolong"},
   out : Seq(Units), max : Nat]

Servers ==
  [phase : {"off", "head", "handle", "returned", "foreign"}, head : {NoMessage} \cup RequestHeads]
Calls ==
  [phase : {"idle", "connect", "send", "head", "body"}, conn : {0} \cup Conns,
   authority : {0} \cup Authorities, method : Text \ {"HEAD"}, id : Nat, len : Lengths,
   connection : Text, hops : Nat, head : {NoMessage} \cup ResponseHeads]
Asks    == Seq([id : Nat, len : Lengths])
Hand    == [id : Nat, body : Seq(Units), reply : Nat]
Results == [kind : {"none", "ok", "error", "cancelled"}, id : Nat, body : Seq(Units)]

Types ==
  /\ wire \in [Ends -> Seq(Units)] /\ buf \in [Ends -> Seq(Units)] /\ open \in [Ends -> BOOLEAN]
  /\ rd \in [Ends -> Readers] /\ srv \in [Conns -> Servers] /\ task \in [Tasks -> Calls]
  /\ idle \in [Authorities -> Seq(Conns)] /\ host \in [Conns -> {0} \cup Authorities]
  /\ client \in {"ours", "foreign"} /\ messages \in 0..MaxMessages
  /\ asked \in [Conns -> Asks] /\ handled \in [Conns -> Seq(Hand)]
  /\ result \in [Tasks -> Results]

-----------------------------------------------------------------------------
\* r has taken the body of (msg, len) out of what it read, so far.
Taken(r, msg, len) == r.out = DataUnits(msg.id, Len(r.out)) /\ Len(r.out) <= len

\* r stands behind the first q units of that body.
Stands(r, msg, len, q) ==
  LET k == Len(r.out)
  IN  \/ r.kind = "empty" /\ q = 0 /\ k = 0 /\ len = 0 /\ msg.te # "chunked"
      \/ r.kind = "length" /\ q = k /\ r.left = len - k /\ msg.te # "chunked"
      \/ r.kind = "eof" /\ q = k /\ msg.te # "chunked"
      \/ /\ r.kind = "chunked" /\ msg.te = "chunked"
         /\ \/ r.state # "finished" /\ r.chunk = 0 /\ r.need = "none" /\ q = 3 * k
            \/ r.state # "finished" /\ r.chunk = 1 /\ r.need = "none" /\ q = 3 * k + 1 /\ k < len
            \/ r.state # "finished" /\ r.chunk = 0 /\ r.need = "crlf" /\ q = 3 * k - 1 /\ k > 0
            \/ /\ r.state # "finished" /\ r.chunk = 0 /\ r.need = "trailer" /\ k = len
               /\ q \in {3 * k + 1, 3 * k + 2}
            \/ r.state = "finished" /\ q = 3 * k + 3 /\ k = len

\* s is all of t, or the beginning of it if the sender broke off.
Arrives(s, t, broken) == \E u \in Seq(Units) : s \o u = t /\ (u # <<>> => broken)

\* What the reader r has before it: the rest of the body of (msg, len), then
\* rest; a is what of it has arrived.
Before(r, a, msg, len, rest, broken) ==
  LET body == BodyUnits(msg, len)
  IN  \E q \in 0..Len(body) :
        /\ Stands(r, msg, len, q)
        /\ Arrives(a, SubSeq(body, q + 1, Len(body)) \o rest, broken)
        /\ r.state = "finished" /\ r.kind # "eof" => q = Len(body)

\* r has the beginning of the body of (msg, len) and, unless it has given up,
\* the rest of it before it.
Reads(r, a, msg, len, rest, broken) ==
  /\ Taken(r, msg, len)
  /\ r.state \in {"off", "reading", "finished"} => Before(r, a, msg, len, rest, broken)

-----------------------------------------------------------------------------
\* w is what the requests behind the n-th of reqs (asked of one connection) are
\* on the wire, run[i] what those behind the i-th are.
Queued(reqs, n, w) ==
  \E head \in [(n + 1)..Len(reqs) -> RequestHeads], run \in [n..Len(reqs) -> Seq(Units)] :
    /\ run[n] = w /\ run[Len(reqs)] = <<>>
    /\ \A i \in (n + 1)..Len(reqs) :
         /\ head[i].id = reqs[i].id /\ Fits(RequestBodyKind(head[i]), head[i], reqs[i].len)
         /\ run[i - 1] = MessageUnits(head[i], reqs[i].len) \o run[i]

\* The server's end: what has arrived for it is what its clients sent behind
\* the request in hand.
ServesInStep(c) ==
  LET e == SEnd(c)
      n == Len(handled[c])
      left == ~open[CEnd(c)]
  IN
  /\ srv[c].phase = "head" =>
       /\ rd[e] = NoReader
       /\ \E w \in Seq(Units) : Queued(asked[c], n, w) /\ Arrives(Available(e), w, left)
  /\ srv[c].phase = "handle" =>
       /\ n > 0 /\ srv[c].head \in RequestHeads /\ srv[c].head.id = asked[c][n].id
       /\ rd[e].kind \notin {"eof", "error"} /\ (rd[e].state = "off" => rd[e].out = <<>>)
       /\ \E w \in Seq(Units) :
            /\ Queued(asked[c], n, w)
            /\ Reads(rd[e], Available(e), srv[c].head, asked[c][n].len, w, left)

\* The handler was given what was asked, in that order, and read of each request
\* bytes of its own body only.
HandledInOrder(c) ==
  /\ Len(handled[c]) <= Len(asked[c])
  /\ \A i \in 1..Len(handled[c]) :
       LET h == handled[c][i]
       IN  /\ h.id = asked[c][i].id
           /\ h.body = DataUnits(h.id, Len(h.body)) /\ Len(h.body) <= asked[c][i].len

\* A connection before and after it is made.
Connected(c) ==
  /\ host[c] = 0 =>
       /\ \A e \in {CEnd(c), SEnd(c)} :
            wire[e] = <<>> /\ buf[e] = <<>> /\ rd[e] = NoReader /\ ~open[e]
       /\ srv[c].phase = "off" /\ asked[c] = <<>> /\ handled[c] = <<>>
  /\ host[c] \in Foreign =>
       /\ srv[c].phase = "foreign" /\ handled[c] = <<>>
       /\ wire[SEnd(c)] = <<>> \/ (Len(wire[SEnd(c)]) >= 2 /\ wire[SEnd(c)][2].msg \in RequestHeads)
  /\ host[c] \in Authorities \ Foreign =>
       /\ srv[c].phase \in {"head", "handle", "returned"}
       /\ open[SEnd(c)] <=> srv[c].phase # "returned"
  /\ srv[c].phase # "handle" => rd[SEnd(c)] = NoReader

-----------------------------------------------------------------------------
\* Who uses a connection: one task, or one place in the pool, or nobody.
Uses(t) == task[t].phase \in {"send", "head", "body"}
TaskOwns(t) ==
  /\ task[t].conn # 0 <=> Uses(t)
  /\ task[t].phase # "idle" => task[t].authority \in Authorities
  /\ Uses(t) => host[task[t].conn] = task[t].authority /\ open[CEnd(task[t].conn)]
  /\ \A u \in Tasks : Uses(t) /\ task[t].conn = task[u].conn => t = u
PoolOwns(a) ==
  /\ Len(idle[a]) <= MaxIdle
  /\ \A i \in 1..Len(idle[a]) :
       /\ host[idle[a][i]] = a /\ open[CEnd(idle[a][i])]
       /\ \A t \in Tasks : task[t].conn # idle[a][i]
       /\ \A j \in 1..Len(idle[a]) : idle[a][j] = idle[a][i] => j = i
\* There is one kind of client: while it is foreign, HttpClient does nothing.
OursIdle ==
  client = "foreign" =>
    /\ \A t \in Tasks : task[t].phase = "idle"
    /\ \A a \in Authorities : idle[a] = <<>>
    /\ \A c \in Conns : host[c] \notin Foreign
Owned == OursIdle /\ (\A t \in Tasks : TaskOwns(t)) /\ (\A a \in Authorities : PoolOwns(a))

\* The other end has nothing more to say.
ServerQuiet(c) ==
  IF host[c] \in Foreign THEN wire[SEnd(c)] = <<>> \/ ~open[SEnd(c)]
  ELSE srv[c].phase = "returned"
       \/ (srv[c].phase = "head" /\ Len(handled[c]) = Len(asked[c]))

\* Nothing has come back on a connection.
Silent(c) == wire[CEnd(c)] = <<>> /\ buf[CEnd(c)] = <<>> /\ rd[CEnd(c)] = NoReader
Resting(c) == Silent(c) /\ ServerQuiet(c)

\* The request id is at the server, or lost there.
Unanswered(c, id) ==
  /\ Silent(c)
  /\ IF host[c] \in Foreign
     THEN open[SEnd(c)] => Len(wire[SEnd(c)]) >= 2 /\ wire[SEnd(c)][2].msg \in RequestHeads
                           /\ wire[SEnd(c)][2].msg.id = id
     ELSE \/ srv[c].phase = "returned"
          \/ srv[c].phase = "head" /\ Len(handled[c]) + 1 = Len(asked[c])
          \/ srv[c].phase = "handle" /\ Len(handled[c]) = Len(asked[c])

\* serve_connection answered the last request with len bytes.
Replied(c, len) ==
  host[c] \notin Foreign =>
    LET n == Len(handled[c]) IN n > 0 /\ n = Len(asked[c]) /\ handled[c][n].reply = len

\* A foreign server may stop in the middle of what it says.
BrokenOff(c) == host[c] \in Foreign /\ ~open[SEnd(c)]

\* The answer to request id, and nothing else, is on its way to the client.
Answered(c, id) ==
  /\ ServerQuiet(c) /\ rd[CEnd(c)] = NoReader
  /\ \E msg \in ResponseHeads, len \in Lengths :
       /\ msg.id = id /\ msg.wellformed /\ Fits(ResponseBodyKind(msg, FALSE), msg, len) /\ Replied(c, len)
       /\ Arrives(Available(CEnd(c)), MessageUnits(msg, len), BrokenOff(c))

\* The client is in the body of msg, and nothing follows it.
Answering(c, msg) ==
  /\ ServerQuiet(c) /\ rd[CEnd(c)].kind # "error" /\ rd[CEnd(c)].state # "off"
  /\ \E len \in Lengths :
       /\ Replied(c, len)
       /\ Reads(rd[CEnd(c)], Available(CEnd(c)), msg, len, <<>>, BrokenOff(c))
  /\ rd[CEnd(c)].state = "finished" => Available(CEnd(c)) = <<>>

\* What the call of t may find on its connection, by its phase.
CallInStep(t) ==
  LET c == task[t].conn
      k == task[t]
      last == asked[c][Len(asked[c])]
  IN
  /\ k.phase = "send" => Resting(c)
  /\ k.phase \in {"head", "body"} => asked[c] # <<>> /\ last.id = k.id
  /\ k.phase = "head" => Unanswered(c, k.id) \/ Answered(c, k.id)
  /\ k.phase = "body" =>
       /\ k.head \in ResponseHeads /\ k.head.id = k.id
       /\ IsRedirect(k.head) => k.head.location # None
       /\ Answering(c, k.head)

\* A connection in the pool is as if it were new.
PoolInStep == \A a \in Authorities : \A i \in 1..Len(idle[a]) : Resting(idle[a][i])

-----------------------------------------------------------------------------
\* Identities: no two requests share one.
IdsDiffer ==
  \A c, d \in Conns : \A i \in 1..Len(asked[c]) : \A j \in 1..Len(asked[d]) :
    /\ asked[c][i].id <= messages
    /\ asked[c][i].id = asked[d][j].id => c = d /\ i = j

\* Request i on c has been answered with n bytes, for good.
Settled(c, i, n) ==
  \/ srv[c].phase = "foreign"
  \/ /\ i <= Len(handled[c]) /\ handled[c][i].reply = n
     /\ ~(i = Len(handled[c]) /\ srv[c].phase = "handle")

\* What t was told is the whole answer to its request, wherever that was asked.
ResultTrue(t) ==
  result[t].kind = "ok" =>
    LET n == Len(result[t].body)
    IN  /\ result[t].body = DataUnits(result[t].id, n) /\ result[t].id <= messages
        /\ \A c \in Conns : \A i \in 1..Len(asked[c]) :
             asked[c][i].id = result[t].id => Settled(c, i, n)

ServerSide(c) == Connected(c) /\ HandledInOrder(c) /\ ServesInStep(c)

\* The inductive invariant.
HttpInv ==
  /\ Types /\ Owned /\ PoolInStep /\ IdsDiffer
  /\ \A c \in Conns : ServerSide(c)
  /\ \A t \in Tasks : CallInStep(t) /\ ResultTrue(t)

-----------------------------------------------------------------------------
Heads == RequestHeads \cup ResponseHeads

\* What a unit is made of.
LEMMA UnitFields ==
  \A k, m, n : /\ Unit(k, m, n).kind = k /\ Unit(k, m, n).msg = m /\ Unit(k, m, n).n = n
BY DEF Unit

\* Units, heads and bodies have the types and lengths their definitions say.
LEMMA UnitTypes ==
  ASSUME NEW k \in {"start", "head", "size", "data", "crlf"}, NEW m \in Nat \cup Heads, NEW n \in Nat
  PROVE  Unit(k, m, n) \in Units
BY DEF Unit, Units, Heads

\* A head has an identity.
LEMMA HeadId == \A msg \in Heads : msg.id \in Nat /\ msg.wellformed \in BOOLEAN
BY DEF Heads, RequestHeads, ResponseHeads

\* A head is two units, the second of which carries it.
LEMMA HeadElements ==
  ASSUME NEW msg \in Heads
  PROVE  /\ HeadUnits(msg) \in Seq(Units) /\ Len(HeadUnits(msg)) = 2
         /\ HeadUnits(msg)[1].kind = "start" /\ HeadUnits(msg)[2].kind = "head"
         /\ HeadUnits(msg)[2].msg = msg
<1>1. msg.id \in Nat
  BY HeadId
<1>2. Unit("start", msg.id, 0) \in Units /\ Unit("head", msg, 0) \in Units
  BY <1>1, UnitTypes
<1> QED BY <1>2, UnitFields DEF HeadUnits

\* The units of a body without chunks.
LEMMA DataElements ==
  ASSUME NEW id \in Nat, NEW len \in Nat
  PROVE  /\ DataUnits(id, len) \in Seq(Units) /\ Len(DataUnits(id, len)) = len
         /\ \A i \in 1..len : DataUnits(id, len)[i] = Unit("data", id, i)
<1>1. \A i \in 1..len : Unit("data", id, i) \in Units
  BY UnitTypes
<1> QED BY <1>1, MakeSeq DEF DataUnits

\* One more byte of a body.
LEMMA DataAppend ==
  ASSUME NEW id \in Nat, NEW k \in Nat
  PROVE  DataUnits(id, k + 1) = Append(DataUnits(id, k), Unit("data", id, k + 1))
<1> DEFINE s == DataUnits(id, k)
           u == Unit("data", id, k + 1)
           t == DataUnits(id, k + 1)
<1>1. /\ s \in Seq(Units) /\ Len(s) = k /\ \A i \in 1..k : s[i] = Unit("data", id, i)
      /\ t \in Seq(Units) /\ Len(t) = k + 1 /\ \A i \in 1..(k + 1) : t[i] = Unit("data", id, i)
  BY DataElements
<1>2. u \in Units
  BY UnitTypes
<1>3. \A i \in 1..k : t[i] = s[i]
  <2> HIDE DEF s, t
  <2> QED BY <1>1
<1>4. t[k + 1] = u
  BY <1>1
<1> HIDE DEF s, u, t
<1>5. Append(s, u) \in Seq(Units) /\ Len(Append(s, u)) = k + 1
  BY <1>1, <1>2
<1>6. \A i \in 1..(k + 1) : Append(s, u)[i] = t[i]
  BY <1>1, <1>2, <1>3, <1>4
<1>7. t = Append(s, u)
  BY <1>1, <1>5, <1>6, SeqEqual
<1> QED BY <1>7 DEF s, u, t

\* The units of a chunked body: three for each chunk, three for its end.
LEMMA ChunkedElements ==
  ASSUME NEW id \in Nat, NEW len \in Nat
  PROVE  LET s == ChunkedUnits(id, len)
         IN  /\ s \in Seq(Units) /\ Len(s) = 3 * len + 3
             /\ \A k \in 0..(len - 1) : /\ s[3 * k + 1] = Unit("size", id, 1)
                                       /\ s[3 * k + 2] = Unit("data", id, k + 1)
                                       /\ s[3 * k + 3] = Unit("crlf", id, 0)
             /\ s[3 * len + 1] = Unit("size", id, 0)
             /\ s[3 * len + 2] = Unit("size", id, 9)
             /\ s[3 * len + 3] = Unit("crlf", id, 0)
<1> DEFINE n == 3 * len
           u(i) == CASE i % 3 = 1 -> Unit("size", id, 1)
                     [] i % 3 = 2 -> Unit("data", id, (i + 1) \div 3)
                     [] OTHER     -> Unit("crlf", id, 0)
           a == [i \in 1..n |-> u(i)]
           b == <<Unit("size", id, 0), Unit("size", id, 9), Unit("crlf", id, 0)>>
<1>1. n \in Nat
  OBVIOUS
<1>2. \A i \in 1..n : u(i) \in Units
  <2> SUFFICES ASSUME NEW i \in 1..n PROVE u(i) \in Units
    OBVIOUS
  <2>1. i % 3 \in {0, 1, 2} /\ (i + 1) \div 3 \in Nat
    OBVIOUS
  <2>2. /\ Unit("size", id, 1) \in Units /\ Unit("data", id, (i + 1) \div 3) \in Units
        /\ Unit("crlf", id, 0) \in Units
    BY <2>1, UnitTypes
  <2> QED BY <2>1, <2>2
<1>3. a \in Seq(Units) /\ Len(a) = n /\ \A i \in 1..n : a[i] = u(i)
  <2> HIDE DEF n, u
  <2> QED BY <1>1, <1>2, MakeSeq
<1>4. /\ b \in Seq(Units) /\ Len(b) = 3 /\ b[1] = Unit("size", id, 0)
      /\ b[2] = Unit("size", id, 9) /\ b[3] = Unit("crlf", id, 0)
  <2>1. /\ Unit("size", id, 0) \in Units /\ Unit("size", id, 9) \in Units
        /\ Unit("crlf", id, 0) \in Units
    BY UnitTypes
  <2> QED BY <2>1
<1>5. /\ a \o b \in Seq(Units) /\ Len(a \o b) = n + 3
      /\ \A i \in 1..n : (a \o b)[i] = a[i]
      /\ \A i \in 1..3 : (a \o b)[n + i] = b[i]
  <2> HIDE DEF a, b, n
  <2>1. a \in Seq(Units) /\ b \in Seq(Units)
    BY <1>3, <1>4
  <2>2. /\ a \o b \in Seq(Units) /\ Len(a \o b) = Len(a) + Len(b)
        /\ \A i \in 1..Len(a) : (a \o b)[i] = a[i]
        /\ \A i \in 1..Len(b) : (a \o b)[Len(a) + i] = b[i]
    BY <2>1, ConcatElements
  <2> QED BY <1>1, <1>3, <1>4, <2>2
<1>6. ASSUME NEW k \in 0..(len - 1)
      PROVE  /\ 3 * k + 1 \in 1..n /\ 3 * k + 2 \in 1..n /\ 3 * k + 3 \in 1..n
             /\ u(3 * k + 1) = Unit("size", id, 1) /\ u(3 * k + 2) = Unit("data", id, k + 1)
             /\ u(3 * k + 3) = Unit("crlf", id, 0)
  <2>1. 3 * k + 1 \in 1..n /\ 3 * k + 2 \in 1..n /\ 3 * k + 3 \in 1..n
    OBVIOUS
  <2>2. /\ (3 * k + 1) % 3 = 1 /\ (3 * k + 2) % 3 = 2 /\ (3 * k + 3) % 3 = 0
        /\ ((3 * k + 2) + 1) \div 3 = k + 1
    OBVIOUS
  <2> QED BY <2>1, <2>2
<1>7. ChunkedUnits(id, len) = a \o b
  BY DEF ChunkedUnits
<1> HIDE DEF a, b, u
<1>8. \A k \in 0..(len - 1) :
        /\ (a \o b)[3 * k + 1] = Unit("size", id, 1) /\ (a \o b)[3 * k + 2] = Unit("data", id, k + 1)
        /\ (a \o b)[3 * k + 3] = Unit("crlf", id, 0)
  BY <1>3, <1>5, <1>6
<1>9. (a \o b)[n + 1] = b[1] /\ (a \o b)[n + 2] = b[2] /\ (a \o b)[n + 3] = b[3]
  <2> HIDE DEF n, a, b
  <2>1. 1 \in 1..3 /\ 2 \in 1..3 /\ 3 \in 1..3
    OBVIOUS
  <2>2. \A i \in 1..3 : (a \o b)[n + i] = b[i]
    BY <1>5
  <2> QED BY <2>1, <2>2
<1> QED BY <1>4, <1>5, <1>7, <1>8, <1>9

\* A message is its head and its body; how long the body is.
LEMMA BodyTypes ==
  ASSUME NEW msg \in Heads, NEW len \in Nat
  PROVE  /\ BodyUnits(msg, len) \in Seq(Units)
         /\ msg.te = "chunked" => BodyUnits(msg, len) = ChunkedUnits(msg.id, len)
                                  /\ Len(BodyUnits(msg, len)) = 3 * len + 3
         /\ msg.te # "chunked" => BodyUnits(msg, len) = DataUnits(msg.id, len)
                                  /\ Len(BodyUnits(msg, len)) = len
         /\ MessageUnits(msg, len) = HeadUnits(msg) \o BodyUnits(msg, len)
         /\ MessageUnits(msg, len) \in Seq(Units)
<1>1. msg.id \in Nat
  BY HeadId
<1>2. DataUnits(msg.id, len) \in Seq(Units) /\ Len(DataUnits(msg.id, len)) = len
  BY <1>1, DataElements
<1>3. ChunkedUnits(msg.id, len) \in Seq(Units) /\ Len(ChunkedUnits(msg.id, len)) = 3 * len + 3
  BY <1>1, ChunkedElements
<1>4. HeadUnits(msg) \in Seq(Units)
  BY HeadElements
<1>5. BodyUnits(msg, len) \in Seq(Units)
  BY <1>2, <1>3 DEF BodyUnits
<1>6. MessageUnits(msg, len) = HeadUnits(msg) \o BodyUnits(msg, len)
  BY DEF MessageUnits
<1>7. MessageUnits(msg, len) \in Seq(Units)
  BY <1>4, <1>5, <1>6, ConcatElements
<1> QED BY <1>2, <1>3, <1>5, <1>6, <1>7 DEF BodyUnits

-----------------------------------------------------------------------------
\* Concatenation of units is associative.
LEMMA Assoc == \A x, y, z \in Seq(Units) : (x \o y) \o z = x \o (y \o z)
BY ConcatJoin

\* What is left of a sequence when its first element is taken.
LEMMA FirstOff ==
  \A x, y \in Units : \A s, t \in Seq(Units) : <<y>> \o s = <<x>> \o t => x = y /\ s = t
<1> SUFFICES ASSUME NEW x \in Units, NEW y \in Units, NEW s \in Seq(Units), NEW t \in Seq(Units),
                    <<y>> \o s = <<x>> \o t
             PROVE  x = y /\ s = t
  OBVIOUS
<1>1. <<x>> \in Seq(Units) /\ <<y>> \in Seq(Units) /\ Len(<<x>>) = 1 /\ Len(<<y>>) = 1
  OBVIOUS
<1>2. (<<y>> \o s)[1] = y /\ (<<x>> \o t)[1] = x
  <2>1. \A i \in 1..1 : (<<y>> \o s)[i] = <<y>>[i]
    BY <1>1, ConcatElements
  <2>2. \A i \in 1..1 : (<<x>> \o t)[i] = <<x>>[i]
    BY <1>1, ConcatElements
  <2> QED BY <2>1, <2>2
<1>3. x = y
  BY <1>2
<1>4. <<x>> \o s = <<x>> \o t
  BY <1>3
<1>5. s = t
  BY <1>1, <1>4, ConcatSimplifications
<1> QED BY <1>3, <1>5

\* Taking the first unit of what arrives.
LEMMA ArrivesTake ==
  ASSUME NEW x \in Units, NEW y \in Units, NEW s \in Seq(Units), NEW t \in Seq(Units), NEW broken,
         Arrives(<<y>> \o s, <<x>> \o t, broken)
  PROVE  x = y /\ Arrives(s, t, broken)
<1>1. PICK u \in Seq(Units) : (<<y>> \o s) \o u = <<x>> \o t /\ (u # <<>> => broken)
  BY DEF Arrives
<1> DEFINE f == <<y>>
           v == s \o u
<1>2. f \in Seq(Units)
  OBVIOUS
<1>3. f \o v = <<x>> \o t
  <2>1. f \o v = (f \o s) \o u
    <3> HIDE DEF f
    <3> QED BY <1>2, Assoc
  <2> QED BY <1>1, <2>1
<1>4. v \in Seq(Units)
  BY ConcatElements
<1>5. x = y /\ v = t
  <2>1. <<y>> \o v = <<x>> \o t
    BY <1>3
  <2>2. <<y>> \o v = <<x>> \o t => x = y /\ v = t
    <3> HIDE DEF v
    <3> QED BY <1>4, FirstOff, ZenonT(60)
  <2> QED BY <2>1, <2>2
<1> QED BY <1>1, <1>5 DEF Arrives

\* What may be cut short may also be cut short later.
LEMMA ArrivesBroken ==
  ASSUME NEW s, NEW t, NEW broken, NEW later, Arrives(s, t, broken), broken => later
  PROVE  Arrives(s, t, later)
BY DEF Arrives

\* The same of what a reader has before it.
LEMMA ReadsBroken ==
  ASSUME NEW r, NEW a, NEW msg, NEW len, NEW rest, NEW broken, NEW later,
         Reads(r, a, msg, len, rest, broken), broken => later
  PROVE  Reads(r, a, msg, len, rest, later)
BY ArrivesBroken DEF Reads, Before

\* Of a message that is not broken off everything arrives.
LEMMA ArrivesWhole ==
  ASSUME NEW s \in Seq(Units), NEW t \in Seq(Units), NEW broken, Arrives(s, t, broken), ~broken
  PROVE  s = t
<1>1. PICK u \in Seq(Units) : s \o u = t /\ (u # <<>> => broken)
  BY DEF Arrives
<1>2. s \o <<>> = t
  BY <1>1
<1> QED BY <1>2, ConcatEmptySeq

\* What arrives whole arrives.
LEMMA ArrivesSame == ASSUME NEW s \in Seq(Units), NEW broken PROVE Arrives(s, s, broken)
<1>1. <<>> \in Seq(Units) /\ s \o <<>> = s
  BY ConcatEmptySeq
<1> QED BY <1>1 DEF Arrives

\* Where nothing is to come, nothing does.
LEMMA ArrivesNothing ==
  ASSUME NEW s \in Seq(Units), NEW broken, Arrives(s, <<>>, broken)
  PROVE  s = <<>>
<1>1. PICK u \in Seq(Units) : s \o u = <<>>
  BY DEF Arrives
<1> QED BY <1>1, ConcatSimplifications

\* The beginning of a new message behind all that was written before.
LEMMA ArrivesMore ==
  ASSUME NEW s \in Seq(Units), NEW v \in Seq(Units), NEW n \in 0..Len(v), NEW broken,
         n # Len(v) => broken
  PROVE  Arrives(s \o SubSeq(v, 1, n), s \o v, broken)
<1> DEFINE a == SubSeq(v, 1, n)
           b == SubSeq(v, n + 1, Len(v))
<1>1. a \in Seq(Units) /\ b \in Seq(Units) /\ Len(b) = Len(v) - n /\ a \o b = v /\ Len(v) \in Nat
  <2>1. v \in Seq(Units) /\ Len(v) \in Nat
    OBVIOUS
  <2>2. a \in Seq(Units) /\ b \in Seq(Units) /\ Len(b) = Len(v) - n /\ a \o b = v
    BY <2>1, CutSeq
  <2> QED BY <2>1, <2>2
<1> HIDE DEF a, b
<1>2. (s \o a) \o b = s \o v
  <2>1. (s \o a) \o b = s \o (a \o b)
    BY <1>1, Assoc
  <2> QED BY <1>1, <2>1
<1>3. b # <<>> => n # Len(v)
  <2> SUFFICES ASSUME n = Len(v) PROVE b = <<>>
    OBVIOUS
  <2>1. Len(b) = 0
    BY <1>1
  <2> QED BY <1>1, <2>1
<1> QED BY <1>1, <1>2, <1>3 DEF Arrives, a

-----------------------------------------------------------------------------
\* What a step of HttpConnection does to the bytes before a reader.
Bytes == wire \in [Ends -> Seq(Units)] /\ buf \in [Ends -> Seq(Units)]
\* No other end's bytes are touched.
OnlyAt(e) == \A x \in Ends \ {e} : wire'[x] = wire[x] /\ buf'[x] = buf[x]

\* Consume takes the first unit that is available.
LEMMA ConsumeTakes ==
  ASSUME Bytes, NEW e \in Ends, Available(e) # <<>>, Consume(e)
  PROVE  /\ Bytes' /\ OnlyAt(e)
         /\ Available(e) \in Seq(Units) /\ Available(e)' \in Seq(Units) /\ Head(Available(e)) \in Units
         /\ Available(e) = <<Head(Available(e))>> \o Available(e)'
<1> USE DEF Bytes
<1>1. buf[e] \in Seq(Units) /\ wire[e] \in Seq(Units)
  OBVIOUS
<1>2. Available(e) = buf[e] \o wire[e] /\ Available(e) \in Seq(Units)
  BY <1>1, ConcatElements DEF Available
<1>3. CASE buf[e] # <<>>
  <2> DEFINE b == buf[e]
  <2>1. buf' = [buf EXCEPT ![e] = Tail(b)] /\ wire' = wire
    BY <1>3 DEF Consume
  <2>2. Tail(b) \in Seq(Units) /\ Head(b) \in Units /\ b = <<Head(b)>> \o Tail(b) /\ <<Head(b)>> \in Seq(Units)
    BY <1>1, <1>3, HeadTailProperties
  <2>3. Bytes' /\ OnlyAt(e) /\ Available(e)' = Tail(b) \o wire[e]
    BY <1>1, <2>1, <2>2 DEF OnlyAt, Available
  <2>4. Available(e) = <<Head(b)>> \o (Tail(b) \o wire[e])
    <3>1. (<<Head(b)>> \o Tail(b)) \o wire[e] = <<Head(b)>> \o (Tail(b) \o wire[e])
      BY <1>1, <2>2, ConcatThree
    <3> QED BY <1>2, <2>2, <3>1
  <2>5. Tail(b) \o wire[e] \in Seq(Units)
    BY <1>1, <2>2, ConcatElements
  <2>6. Head(Available(e)) = Head(b)
    <3> HIDE DEF b
    <3>1. Head(<<Head(b)>> \o (Tail(b) \o wire[e])) = Head(b)
      BY <2>2, <2>5
    <3> QED BY <2>4, <3>1
  <2> QED BY <1>2, <2>2, <2>3, <2>4, <2>5, <2>6
<1>4. CASE buf[e] = <<>>
  <2> DEFINE w == wire[e]
  <2>1. wire' = [wire EXCEPT ![e] = Tail(w)] /\ buf' = buf
    BY <1>4 DEF Consume
  <2>2. Available(e) = w
    BY <1>1, <1>2, <1>4, ConcatEmptySeq
  <2>3. Tail(w) \in Seq(Units) /\ Head(w) \in Units /\ w = <<Head(w)>> \o Tail(w)
    BY <1>1, <2>2, HeadTailProperties
  <2>4. Bytes' /\ OnlyAt(e) /\ Available(e)' = <<>> \o Tail(w)
    BY <1>1, <1>4, <2>1, <2>3 DEF OnlyAt, Available
  <2>5. <<>> \o Tail(w) = Tail(w)
    BY <2>3, ConcatEmptySeq
  <2> QED BY <1>2, <2>2, <2>3, <2>4, <2>5
<1> QED BY <1>3, <1>4

\* fill moves units into the buffer: what is available stays the same.
LEMMA FillKeeps ==
  ASSUME Bytes, NEW e \in Ends, Fill(e)
  PROVE  Bytes' /\ OnlyAt(e) /\ Available(e)' = Available(e)
<1> USE DEF Bytes
<1> DEFINE w == wire[e]
<1>1. buf[e] \in Seq(Units) /\ w \in Seq(Units) /\ Len(w) \in Nat
  OBVIOUS
<1>2. PICK n \in 1..Len(w) : /\ buf' = [buf EXCEPT ![e] = @ \o SubSeq(w, 1, n)]
                             /\ wire' = [wire EXCEPT ![e] = SubSeq(@, n + 1, Len(@))]
  BY DEF Fill
<1> DEFINE a == SubSeq(w, 1, n)
           b == SubSeq(w, n + 1, Len(w))
<1>3. a \in Seq(Units) /\ b \in Seq(Units) /\ a \o b = w
  BY <1>1, CutSeq
<1>4. buf'[e] = buf[e] \o a /\ wire'[e] = b /\ OnlyAt(e)
  BY <1>1, <1>2 DEF OnlyAt
<1>5. buf[e] \o a \in Seq(Units)
  BY <1>1, <1>3, ConcatElements
<1>6. Bytes'
  BY <1>2, <1>3, <1>5
<1> HIDE DEF a, b
<1>7. (buf[e] \o a) \o b = buf[e] \o w
  <2>1. (buf[e] \o a) \o b = buf[e] \o (a \o b)
    BY <1>1, <1>3, Assoc
  <2> QED BY <1>3, <2>1
<1> QED BY <1>4, <1>6, <1>7 DEF Available

\* DropFront takes the first n units.
LEMMA DropTakes ==
  ASSUME Bytes, NEW e \in Ends, NEW n \in 0..Len(buf[e]), DropFront(e, n), UNCHANGED wire
  PROVE  /\ Bytes' /\ OnlyAt(e) /\ SubSeq(buf[e], 1, n) \in Seq(Units) /\ Available(e)' \in Seq(Units)
         /\ Available(e) = SubSeq(buf[e], 1, n) \o Available(e)'
<1> USE DEF Bytes
<1> DEFINE b == buf[e]
           x == SubSeq(b, 1, n)
           y == SubSeq(b, n + 1, Len(b))
<1>1. b \in Seq(Units) /\ wire[e] \in Seq(Units)
  OBVIOUS
<1>2. x \in Seq(Units) /\ y \in Seq(Units) /\ x \o y = b
  BY <1>1, CutSeq
<1>3. buf'[e] = y /\ OnlyAt(e)
  BY DEF DropFront, OnlyAt
<1>4. Bytes'
  BY <1>2 DEF DropFront
<1>5. y \o wire[e] \in Seq(Units)
  BY <1>1, <1>2, ConcatElements
<1> HIDE DEF x, y
<1>6. (x \o y) \o wire[e] = x \o (y \o wire[e])
  BY <1>1, <1>2, Assoc
<1>7. Available(e)' = y \o wire[e] /\ Available(e) = (x \o y) \o wire[e]
  BY <1>2, <1>3 DEF Available
<1> QED BY <1>2, <1>3, <1>4, <1>5, <1>6, <1>7 DEF x

-----------------------------------------------------------------------------
\* Requests that wait to be served: none, the first of them, one more.

\* What is known of a request that was asked.
LEMMA AskTypes ==
  ASSUME NEW reqs \in Asks, NEW i \in 1..Len(reqs)
  PROVE  reqs[i].id \in Nat /\ reqs[i].len \in Lengths /\ reqs[i].len \in Nat
<1>1. reqs \in Seq([id : Nat, len : Lengths])
  BY DEF Asks
<1>2. reqs[i] \in [id : Nat, len : Lengths]
  <2> DEFINE S == [id : Nat, len : Lengths]
  <2>1. reqs \in Seq(S) /\ i \in DOMAIN reqs
    BY <1>1
  <2> HIDE DEF S
  <2>2. reqs[i] \in S
    BY <2>1, SeqElement
  <2> QED BY <2>2 DEF S
<1>3. reqs[i].id \in Nat /\ reqs[i].len \in Lengths
  BY <1>2
<1>4. Lengths \subseteq Nat
  BY DEF Lengths, None
<1> QED BY <1>3, <1>4

\* Behind the last request nothing is queued.
LEMMA QueuedNothing ==
  ASSUME NEW reqs \in Asks
  PROVE  /\ Queued(reqs, Len(reqs), <<>>)
         /\ \A w : Queued(reqs, Len(reqs), w) => w = <<>>
<1> DEFINE n == Len(reqs)
<1>1. n \in Nat
  BY DEF Asks
<1>2. ASSUME NEW w, Queued(reqs, n, w) PROVE w = <<>>
  BY <1>2 DEF Queued
<1>3. Queued(reqs, n, <<>>)
  <2> DEFINE head == [i \in (n + 1)..n |-> NoMessage]
             run == [i \in n..n |-> <<>>]
  <2>1. head \in [(n + 1)..n -> RequestHeads]
    BY <1>1
  <2>2. run \in [n..n -> Seq(Units)] /\ run[n] = <<>>
    BY <1>1
  <2>3. \A i \in (n + 1)..n : FALSE
    BY <1>1
  <2> HIDE DEF head, run
  <2> QED BY <2>1, <2>2, <2>3 DEF Queued
<1> QED BY <1>2, <1>3

\* Behind any other the next message is, and then the rest.
LEMMA QueuedFirst ==
  ASSUME NEW reqs \in Asks, NEW n \in Nat, n < Len(reqs), NEW w, Queued(reqs, n, w)
  PROVE  /\ n + 1 \in 1..Len(reqs)
         /\ \E msg \in RequestHeads, v \in Seq(Units) :
              /\ msg.id = reqs[n + 1].id /\ Fits(RequestBodyKind(msg), msg, reqs[n + 1].len)
              /\ w = MessageUnits(msg, reqs[n + 1].len) \o v
              /\ Queued(reqs, n + 1, v)
<1> DEFINE l == Len(reqs)
<1>1. l \in Nat /\ n + 1 \in 1..l /\ n + 1 \in n..l /\ n + 1 \in (n + 1)..l /\ (n + 1) - 1 = n
  BY DEF Asks
<1>2. PICK head \in [(n + 1)..l -> RequestHeads], run \in [n..l -> Seq(Units)] :
        /\ run[n] = w /\ run[l] = <<>>
        /\ \A i \in (n + 1)..l :
             /\ head[i].id = reqs[i].id /\ Fits(RequestBodyKind(head[i]), head[i], reqs[i].len)
             /\ run[i - 1] = MessageUnits(head[i], reqs[i].len) \o run[i]
  BY DEF Queued
<1> HIDE DEF l
<1> DEFINE h == [i \in ((n + 1) + 1)..l |-> head[i]]
           r == [i \in (n + 1)..l |-> run[i]]
<1>3. h \in [((n + 1) + 1)..l -> RequestHeads] /\ r \in [(n + 1)..l -> Seq(Units)]
  BY <1>1
<1>4. r[n + 1] = run[n + 1] /\ r[l] = <<>>
  BY <1>1, <1>2
<1>5. ASSUME NEW i \in ((n + 1) + 1)..l
      PROVE  /\ h[i].id = reqs[i].id /\ Fits(RequestBodyKind(h[i]), h[i], reqs[i].len)
             /\ r[i - 1] = MessageUnits(h[i], reqs[i].len) \o r[i]
  <2>1. i \in (n + 1)..l /\ i - 1 \in (n + 1)..l
    BY <1>1
  <2>2. h[i] = head[i] /\ r[i] = run[i] /\ r[i - 1] = run[i - 1]
    BY <2>1
  <2> QED BY <1>2, <2>1, <2>2
<1>6. Queued(reqs, n + 1, run[n + 1])
  <2> HIDE DEF h, r
  <2> QED BY <1>3, <1>4, <1>5 DEF Queued, l
<1>7. /\ head[n + 1] \in RequestHeads /\ run[n + 1] \in Seq(Units)
      /\ head[n + 1].id = reqs[n + 1].id
      /\ Fits(RequestBodyKind(head[n + 1]), head[n + 1], reqs[n + 1].len)
      /\ w = MessageUnits(head[n + 1], reqs[n + 1].len) \o run[n + 1]
  BY <1>1, <1>2
<1> QED BY <1>1, <1>6, <1>7 DEF l

\* A message written behind all others is queued behind all others.
LEMMA QueuedMore ==
  ASSUME NEW reqs \in Asks, NEW n \in 0..Len(reqs), NEW w, Queued(reqs, n, w),
         NEW msg \in RequestHeads, NEW len \in Lengths, Fits(RequestBodyKind(msg), msg, len)
  PROVE  Queued(Append(reqs, [id |-> msg.id, len |-> len]), n, w \o MessageUnits(msg, len))
<1> DEFINE l == Len(reqs)
           m == MessageUnits(msg, len)
           bs == Append(reqs, [id |-> msg.id, len |-> len])
<1>1. l \in Nat /\ n \in Nat /\ n <= l
  BY DEF Asks
<1>2. /\ Len(bs) = l + 1 /\ \A i \in 1..l : bs[i] = reqs[i]
      /\ bs[l + 1].id = msg.id /\ bs[l + 1].len = len
  BY DEF Asks
<1>3. m \in Seq(Units)
  <2>1. msg \in Heads /\ len \in Nat
    BY DEF Heads, Lengths, None
  <2> QED BY <2>1, BodyTypes
<1>4. PICK head \in [(n + 1)..l -> RequestHeads], run \in [n..l -> Seq(Units)] :
        /\ run[n] = w /\ run[l] = <<>>
        /\ \A i \in (n + 1)..l :
             /\ head[i].id = reqs[i].id /\ Fits(RequestBodyKind(head[i]), head[i], reqs[i].len)
             /\ run[i - 1] = MessageUnits(head[i], reqs[i].len) \o run[i]
  BY DEF Queued
<1> HIDE DEF l, m, bs
<1> DEFINE h == [i \in (n + 1)..(l + 1) |-> IF i = l + 1 THEN msg ELSE head[i]]
           r == [i \in n..(l + 1) |-> IF i = l + 1 THEN <<>> ELSE run[i] \o m]
<1>5. h \in [(n + 1)..(l + 1) -> RequestHeads]
  BY <1>1
<1>6. r \in [n..(l + 1) -> Seq(Units)]
  <2>1. ASSUME NEW i \in n..(l + 1) PROVE r[i] \in Seq(Units)
    <3>1. CASE i = l + 1
      BY <3>1
    <3>2. CASE i # l + 1
      <4>1. i \in n..l
        BY <1>1, <3>2
      <4>2. run[i] \in Seq(Units)
        BY <4>1
      <4>3. run[i] \o m \in Seq(Units)
        BY <1>3, <4>2, ConcatElements
      <4> QED BY <3>2, <4>3
    <3> QED BY <3>1, <3>2
  <2>2. r = [i \in n..(l + 1) |-> r[i]]
    OBVIOUS
  <2> HIDE DEF r
  <2> QED BY <2>1, <2>2
<1>7. r[n] = w \o m /\ r[l + 1] = <<>> /\ r[l] = m
  <2>1. <<>> \o m = m
    BY <1>3, ConcatEmptySeq
  <2>2. n \in n..(l + 1) /\ n # l + 1 /\ l \in n..(l + 1) /\ l + 1 \in n..(l + 1) /\ l # l + 1
    BY <1>1
  <2> QED BY <1>4, <2>1, <2>2
<1>8. ASSUME NEW i \in (n + 1)..(l + 1)
      PROVE  /\ h[i].id = bs[i].id /\ Fits(RequestBodyKind(h[i]), h[i], bs[i].len)
             /\ r[i - 1] = MessageUnits(h[i], bs[i].len) \o r[i]
  <2>1. CASE i = l + 1
    <3>1. h[i] = msg /\ r[i] = <<>> /\ r[i - 1] = m
      <4>1. i - 1 = l /\ l + 1 \in (n + 1)..(l + 1)
        BY <1>1, <2>1
      <4>2. h[l + 1] = msg
        BY <4>1
      <4> HIDE DEF r, h
      <4> QED BY <1>7, <2>1, <4>1, <4>2
    <3>2. m \o <<>> = m
      BY <1>3, ConcatEmptySeq
    <3> QED BY <1>2, <2>1, <3>1, <3>2 DEF m
  <2>2. CASE i # l + 1
    <3>1. /\ i \in (n + 1)..l /\ i \in n..l /\ i - 1 \in n..l /\ i \in 1..l
          /\ i \in n..(l + 1) /\ i - 1 \in n..(l + 1) /\ i - 1 # l + 1
      BY <1>1, <2>2
    <3>2. h[i] = head[i] /\ r[i] = run[i] \o m /\ r[i - 1] = run[i - 1] \o m
      BY <2>2, <3>1
    <3>3. bs[i] = reqs[i]
      BY <1>2, <3>1
    <3> DEFINE x == MessageUnits(head[i], reqs[i].len)
    <3>4. run[i - 1] = x \o run[i]
      BY <1>4, <3>1
    <3>5. x \in Seq(Units)
      <4>1. head[i] \in Heads
        BY <3>1 DEF Heads
      <4>2. reqs[i].id \in Nat /\ reqs[i].len \in Nat
        BY <3>1, AskTypes DEF l
      <4> QED BY <4>1, <4>2, BodyTypes
    <3>6. (x \o run[i]) \o m = x \o (run[i] \o m)
      <4>1. run[i] \in Seq(Units)
        BY <3>1
      <4> HIDE DEF x
      <4> QED BY <1>3, <3>5, <4>1, Assoc
    <3>7. r[i - 1] = x \o r[i]
      <4> HIDE DEF x, r
      <4> QED BY <3>2, <3>4, <3>6
    <3>8. head[i].id = reqs[i].id /\ Fits(RequestBodyKind(head[i]), head[i], reqs[i].len)
      BY <1>4, <3>1
    <3> HIDE DEF h, r
    <3> QED BY <3>2, <3>3, <3>7, <3>8
  <2> QED BY <2>1, <2>2
<1>9. Queued(bs, n, w \o m)
  <2> HIDE DEF h, r
  <2> DEFINE k == Len(bs)
  <2>1. k = l + 1
    BY <1>2
  <2>2. /\ h \in [(n + 1)..k -> RequestHeads] /\ r \in [n..k -> Seq(Units)]
        /\ r[n] = w \o m /\ r[k] = <<>>
        /\ \A i \in (n + 1)..k :
             /\ h[i].id = bs[i].id /\ Fits(RequestBodyKind(h[i]), h[i], bs[i].len)
             /\ r[i - 1] = MessageUnits(h[i], bs[i].len) \o r[i]
    <3> HIDE DEF k
    <3> QED BY <1>5, <1>6, <1>7, <1>8, <2>1
  <2> QED BY <2>2 DEF Queued
<1> QED BY <1>9 DEF bs, m

-----------------------------------------------------------------------------
\* What ParseHead and LineEnd find.
LEMMA FirstFound ==
  ASSUME NEW I, I \subseteq Nat, I # {}
  PROVE  Min(I) \in I /\ \A i \in I : Min(I) <= i
<1>1. \E x \in I : \A y \in I : x <= y
  BY LeastNumber
<1> QED BY <1>1 DEF Min

\* Where ParseHead finds a head, it is the first two units.
LEMMA HeadParsed ==
  ASSUME NEW s \in Seq(Units), ParseHead(s) = "head"
  PROVE  /\ Len(s) >= 2 /\ Len(s) \in Nat /\ s[1].kind = "start" /\ s[2].kind = "head"
         /\ s[1] \in Units /\ s[2] \in Units /\ s[2].msg.wellformed
<1> DEFINE I == {i \in 1..Len(s) : s[i].kind = "head"}
           m == IF I # {} THEN Min(I) ELSE 0
<1>1. FirstUnit(s, LAMBDA u : u.kind = "head") = m
  BY DEF FirstUnit, SelectInSeq
<1>2. m = 2 /\ s[1].kind = "start" /\ s[2].msg.wellformed
  <2> HIDE DEF m
  <2>1. ParseHead(s) = IF m = 0 THEN "more"
                       ELSE IF m = 2 /\ s[1].kind = "start" /\ s[2].msg.wellformed
                            THEN "head" ELSE "malformed"
    BY <1>1 DEF ParseHead
  <2> QED BY <2>1
<1>3. I \subseteq Nat /\ I # {} /\ Min(I) = 2
  BY <1>2
<1>4. 2 \in I
  <2> HIDE DEF I
  <2> QED BY <1>3, FirstFound
<1>5. Len(s) \in Nat /\ 2 \in 1..Len(s) /\ 1 \in 1..Len(s) /\ s[2].kind = "head"
  BY <1>4
<1>6. s[1] \in Units /\ s[2] \in Units
  BY <1>5
<1> QED BY <1>2, <1>5, <1>6

\* A head at the front is found.
LEMMA HeadFound ==
  ASSUME NEW s \in Seq(Units), s # <<>>, s[1].kind = "start", Len(s) >= 2, s[2].kind = "head"
  PROVE  ParseHead(s) \in {"head", "malformed"} /\ (s[2].msg.wellformed => ParseHead(s) = "head")
<1> DEFINE I == {i \in 1..Len(s) : s[i].kind = "head"}
           m == IF I # {} THEN Min(I) ELSE 0
<1>1. FirstUnit(s, LAMBDA u : u.kind = "head") = m
  BY DEF FirstUnit, SelectInSeq
<1>2. Len(s) \in Nat /\ I \subseteq Nat /\ 2 \in I /\ 1 \notin I /\ 0 \notin I
  OBVIOUS
<1>3. Min(I) \in I /\ \A i \in I : Min(I) <= i
  <2> HIDE DEF I
  <2> QED BY <1>2, FirstFound
<1>4. m = 2
  <2>1. Min(I) \in Nat /\ Min(I) <= 2 /\ Min(I) # 0 /\ Min(I) # 1
    <3> HIDE DEF I
    <3> QED BY <1>2, <1>3
  <2>2. Min(I) = 2
    <3> DEFINE k == Min(I)
    <3> HIDE DEF k
    <3> QED BY <2>1 DEF k
  <2> QED BY <1>2, <2>2
<1> HIDE DEF m
<1> QED BY <1>1, <1>4 DEF ParseHead

\* Where a line ends.
LEMMA LineFound ==
  ASSUME NEW s \in Seq(Units), LineEnd(s) # 0
  PROVE  /\ s # <<>> /\ LineEnd(s) \in 1..Len(s) /\ Len(s) \in Nat
         /\ s[1].kind \in {"size", "crlf", "start", "head"} => LineEnd(s) = 1
<1> DEFINE I == {i \in 1..Len(s) : s[i].kind \in {"size", "crlf", "start", "head"}}
<1>1. LineEnd(s) = IF I # {} THEN Min(I) ELSE 0
  BY DEF LineEnd, FirstUnit, SelectInSeq
<1>2. I # {} /\ I \subseteq Nat /\ Len(s) \in Nat
  BY <1>1
<1>3. LineEnd(s) \in I /\ \A i \in I : LineEnd(s) <= i
  <2> HIDE DEF I
  <2> QED BY <1>1, <1>2, FirstFound
<1>4. LineEnd(s) \in 1..Len(s) /\ s # <<>>
  BY <1>3
<1>5. ASSUME s[1].kind \in {"size", "crlf", "start", "head"} PROVE LineEnd(s) = 1
  <2>1. 1 \in I
    BY <1>4, <1>5
  <2> HIDE DEF I
  <2> QED BY <1>3, <1>4, <2>1
<1> QED BY <1>2, <1>4, <1>5

\* The next unit of a body arrives.
LEMMA NextUnit ==
  ASSUME NEW body \in Seq(Units), NEW rest \in Seq(Units), NEW q \in 0..(Len(body) - 1),
         NEW y \in Units, NEW s \in Seq(Units), NEW broken,
         Arrives(<<y>> \o s, SubSeq(body, q + 1, Len(body)) \o rest, broken)
  PROVE  /\ q + 1 \in 0..Len(body) /\ y = body[q + 1]
         /\ Arrives(s, SubSeq(body, (q + 1) + 1, Len(body)) \o rest, broken)
<1> DEFINE t == SubSeq(body, q + 2, Len(body))
           x == body[q + 1]
<1>1. /\ q + 1 \in 1..Len(body) /\ x \in Units /\ t \in Seq(Units)
      /\ SubSeq(body, q + 1, Len(body)) = <<x>> \o t
  BY RestSeq
<1>2. (q + 1) + 1 = q + 2 /\ q + 1 \in 0..Len(body)
  BY <1>1
<1> HIDE DEF t, x
<1>3. (<<x>> \o t) \o rest = <<x>> \o (t \o rest)
  <2>1. <<x>> \in Seq(Units) /\ t \in Seq(Units)
    BY <1>1
  <2> QED BY <2>1, Assoc
<1>4. t \o rest \in Seq(Units)
  BY <1>1, ConcatElements
<1>5. Arrives(<<y>> \o s, <<x>> \o (t \o rest), broken)
  BY <1>1, <1>3
<1>6. x = y /\ Arrives(s, t \o rest, broken)
  <2> DEFINE r == t \o rest
  <2>1. r \in Seq(Units) /\ Arrives(<<y>> \o s, <<x>> \o r, broken)
    BY <1>4, <1>5
  <2> HIDE DEF r
  <2>2. x = y /\ Arrives(s, r, broken)
    BY <1>1, <2>1, ArrivesTake
  <2> QED BY <2>2 DEF r
<1> QED BY <1>2, <1>6 DEF t, x

\* The end of a body: what follows it arrives.
LEMMA BodyPassed ==
  ASSUME NEW body \in Seq(Units), NEW rest \in Seq(Units)
  PROVE  SubSeq(body, Len(body) + 1, Len(body)) \o rest = rest
<1> DEFINE t == SubSeq(body, Len(body) + 1, Len(body))
<1>1. Len(body) \in 0..Len(body)
  OBVIOUS
<1>2. t \in Seq(Units) /\ Len(t) = Len(body) - Len(body)
  BY <1>1, CutSeq
<1>3. t = <<>>
  <2>1. Len(t) = 0
    BY <1>1, <1>2
  <2> HIDE DEF t
  <2> QED BY <1>2, <2>1
<1> QED BY <1>3, ConcatEmptySeq

\* What the units of a body are, by their place.
LEMMA BodyPlaces ==
  ASSUME NEW msg \in Heads, NEW len \in Nat
  PROVE  LET b == BodyUnits(msg, len) IN
         /\ msg.te # "chunked" => \A q \in 0..(len - 1) : b[q + 1] = Unit("data", msg.id, q + 1)
         /\ msg.te = "chunked" =>
              /\ \A k \in 0..(len - 1) : /\ b[3 * k + 1] = Unit("size", msg.id, 1)
                                        /\ b[(3 * k + 1) + 1] = Unit("data", msg.id, k + 1)
                                        /\ b[(3 * k + 2) + 1] = Unit("crlf", msg.id, 0)
              /\ b[3 * len + 1] = Unit("size", msg.id, 0)
              /\ b[(3 * len + 1) + 1] = Unit("size", msg.id, 9)
              /\ b[(3 * len + 2) + 1] = Unit("crlf", msg.id, 0)
<1> DEFINE b == BodyUnits(msg, len)
<1>1. msg.id \in Nat
  BY HeadId
<1>2. ASSUME msg.te # "chunked", NEW q \in 0..(len - 1) PROVE b[q + 1] = Unit("data", msg.id, q + 1)
  <2>1. b = DataUnits(msg.id, len)
    BY <1>2, BodyTypes
  <2>2. q + 1 \in 1..len
    OBVIOUS
  <2> HIDE DEF b
  <2> QED BY <1>1, <2>1, <2>2, DataElements
<1>3. ASSUME msg.te = "chunked"
      PROVE  LET s == b IN
             /\ \A k \in 0..(len - 1) : /\ s[3 * k + 1] = Unit("size", msg.id, 1)
                                       /\ s[3 * k + 2] = Unit("data", msg.id, k + 1)
                                       /\ s[3 * k + 3] = Unit("crlf", msg.id, 0)
             /\ s[3 * len + 1] = Unit("size", msg.id, 0)
             /\ s[3 * len + 2] = Unit("size", msg.id, 9)
             /\ s[3 * len + 3] = Unit("crlf", msg.id, 0)
  <2>1. b = ChunkedUnits(msg.id, len)
    BY <1>3, BodyTypes
  <2> HIDE DEF b
  <2> QED BY <1>1, <2>1, ChunkedElements
<1>4. \A k \in Nat : 3 * k \in Nat /\ (3 * k + 1) + 1 = 3 * k + 2 /\ (3 * k + 2) + 1 = 3 * k + 3
  OBVIOUS
<1> HIDE DEF b
<1>5. \A k \in 0..(len - 1) : k \in Nat
  OBVIOUS
<1>6. QED
  BY <1>2, <1>3, <1>4, <1>5 DEF b

-----------------------------------------------------------------------------
\* Each step of a BodyReader keeps it in its body.
LEMMA ReaderFields ==
  ASSUME NEW r \in Readers
  PROVE  /\ r.kind \in {"empty", "length", "chunked", "eof", "error"} /\ r.left \in Nat
         /\ r.chunk \in Nat /\ r.need \in {"none", "crlf", "trailer"} /\ r.max \in Nat
         /\ r.state \in {"off", "reading", "finished", "closed", "malformed", "toolong"}
         /\ r.out \in Seq(Units) /\ Len(r.out) \in Nat
BY DEF Readers



\* A body of which nothing remains is finished.
LEMMA ReaderFinishes ==
  ASSUME NEW r \in Readers, NEW a, NEW msg \in Heads, NEW len \in Nat, NEW rest, NEW broken,
         Reads(r, a, msg, len, rest, broken), r.state \in {"off", "reading"},
         r.kind = "empty" \/ (r.kind = "length" /\ r.left = 0),
         NEW s, s = [r EXCEPT !.state = "finished"]
  PROVE  s \in Readers /\ s.kind = r.kind /\ s.out = r.out /\ s.state = "finished"
         /\ Reads(s, a, msg, len, rest, broken)
<1> DEFINE body == BodyUnits(msg, len)
<1>1. /\ s \in Readers /\ s.kind = r.kind /\ s.out = r.out /\ s.state = "finished" /\ s.left = r.left
      /\ s.chunk = r.chunk /\ s.need = r.need
  BY DEF Readers
<1>2. PICK q \in 0..Len(body) :
        Stands(r, msg, len, q) /\ Arrives(a, SubSeq(body, q + 1, Len(body)) \o rest, broken)
  BY DEF Reads, Before
<1>3. Len(r.out) \in Nat /\ Len(r.out) <= len
  BY ReaderFields DEF Reads, Taken
<1>4. msg.te # "chunked" /\ Stands(s, msg, len, q) /\ q = len
  BY <1>1, <1>2, <1>3 DEF Stands
<1>5. q = Len(body)
  BY <1>4, BodyTypes
<1>6. Before(s, a, msg, len, rest, broken)
  BY <1>2, <1>4, <1>5 DEF Before
<1> QED BY <1>1, <1>6 DEF Reads, Taken

\* The reader after a byte, a line end and a line.
AfterByte(r, y) ==
  [r EXCEPT !.left  = IF r.kind = "length" THEN @ - 1 ELSE @,
            !.chunk = IF r.kind = "chunked" THEN @ - 1 ELSE @,
            !.need  = IF r.kind = "chunked" /\ r.chunk = 1 THEN "crlf" ELSE @,
            !.out   = Append(@, y),
            !.state = IF Len(r.out) + 1 > r.max THEN "toolong" ELSE @]
\* The reader behind the line end of a chunk, and behind a size or trailer line.
AfterCrlf(r, y) == [r EXCEPT !.need = "none", !.state = IF y.kind = "crlf" THEN @ ELSE "malformed"]
AfterLine(r, y) ==
  IF r.need = "trailer" THEN [r EXCEPT !.state = IF y.kind = "crlf" THEN "finished" ELSE @]
  ELSE IF y.kind = "size" THEN [r EXCEPT !.chunk = y.n, !.need = IF y.n = 0 THEN "trailer" ELSE @]
  ELSE [r EXCEPT !.state = "malformed"]

\* A byte is the next byte of the body, whatever the framing.
LEMMA ReaderTakesByte ==
  ASSUME NEW r \in Readers, NEW y \in Units, NEW a \in Seq(Units), NEW msg \in Heads, NEW len \in Nat,
         NEW rest \in Seq(Units), NEW broken,
         Reads(r, <<y>> \o a, msg, len, rest, broken), r.state = "reading",
         \/ r.kind = "length" /\ r.left > 0
         \/ r.kind = "chunked" /\ r.chunk > 0
         \/ r.kind = "eof" /\ rest = <<>>,
         NEW s, s = AfterByte(r, y)
  PROVE  s \in Readers /\ s.kind = r.kind /\ s.state \in {"reading", "toolong"}
         /\ Reads(s, a, msg, len, rest, broken)
<1> DEFINE body == BodyUnits(msg, len)
           k == Len(r.out)
<1>1. /\ r.kind \in {"empty", "length", "chunked", "eof", "error"} /\ r.left \in Nat
      /\ r.chunk \in Nat /\ r.need \in {"none", "crlf", "trailer"} /\ r.max \in Nat
      /\ r.out \in Seq(Units) /\ k \in Nat
  BY ReaderFields
<1>2. /\ s.kind = r.kind /\ s.out = Append(r.out, y)
      /\ s.left = (IF r.kind = "length" THEN r.left - 1 ELSE r.left)
      /\ s.chunk = (IF r.kind = "chunked" THEN r.chunk - 1 ELSE r.chunk)
      /\ s.need = (IF r.kind = "chunked" /\ r.chunk = 1 THEN "crlf" ELSE r.need)
      /\ s.state \in {"reading", "toolong"}
  BY DEF Readers, AfterByte
<1>3. s \in Readers
  <2>1. s.out \in Seq(Units)
    BY <1>1, <1>2
  <2>2. /\ s.left \in Nat /\ s.chunk \in Nat /\ s.need \in {"none", "crlf", "trailer"}
        /\ s.kind \in {"empty", "length", "chunked", "eof", "error"}
    BY <1>1, <1>2
  <2>3. s = [kind |-> s.kind, left |-> s.left, chunk |-> s.chunk, need |-> s.need,
             state |-> s.state, out |-> s.out, max |-> r.max]
    BY DEF Readers, AfterByte
  <2>4. s.state \in {"off", "reading", "finished", "closed", "malformed", "toolong"}
    BY <1>2
  <2>5. [kind |-> s.kind, left |-> s.left, chunk |-> s.chunk, need |-> s.need,
         state |-> s.state, out |-> s.out, max |-> r.max] \in Readers
    BY <1>1, <2>1, <2>2, <2>4 DEF Readers
  <2> QED BY <2>3, <2>5
<1>4. PICK q \in 0..Len(body) :
        Stands(r, msg, len, q) /\ Arrives(<<y>> \o a, SubSeq(body, q + 1, Len(body)) \o rest, broken)
  BY DEF Reads, Before
<1>5. r.out = DataUnits(msg.id, k) /\ k <= len
  BY DEF Reads, Taken
<1>6. body \in Seq(Units) /\ Len(body) \in Nat
  BY BodyTypes
<1>7. /\ q \in 0..(Len(body) - 1) /\ k < len
      /\ r.kind # "chunked" => msg.te # "chunked" /\ q = k
      /\ r.kind = "chunked" => msg.te = "chunked" /\ q = 3 * k + 1 /\ r.chunk = 1
  <2>1. CASE r.kind = "length" /\ r.left > 0
    <3>1. q = k /\ r.left = len - k /\ msg.te # "chunked"
      BY <1>4, <2>1 DEF Stands
    <3>2. Len(body) = len
      BY <3>1, BodyTypes
    <3> HIDE DEF k, body
    <3> QED BY <1>1, <1>4, <1>5, <2>1, <3>1, <3>2
  <2>2. CASE r.kind = "chunked" /\ r.chunk > 0
    <3>1. q = 3 * k + 1 /\ k < len /\ msg.te = "chunked" /\ r.chunk = 1
      BY <1>4, <2>2 DEF Stands
    <3>2. Len(body) = 3 * len + 3
      BY <3>1, BodyTypes
    <3> HIDE DEF k, body
    <3> QED BY <1>1, <1>4, <1>5, <2>2, <3>1, <3>2
  <2>3. CASE r.kind = "eof" /\ rest = <<>>
    <3>1. q = k /\ msg.te # "chunked"
      BY <1>4, <2>3 DEF Stands
    <3>2. Len(body) = len
      BY <3>1, BodyTypes
    <3>3. q # len
      <4> SUFFICES ASSUME q = len PROVE FALSE
        OBVIOUS
      <4>1. SubSeq(body, Len(body) + 1, Len(body)) \o rest = <<>>
        <5> HIDE DEF body
        <5> QED BY <1>6, <2>3, BodyPassed
      <4>2. Arrives(<<y>> \o a, <<>>, broken)
        BY <1>4, <3>2, <4>1
      <4>3. <<y>> \in Seq(Units) /\ <<y>> \o a \in Seq(Units) /\ Len(<<y>> \o a) = 1 + Len(a)
        BY ConcatElements
      <4>4. <<y>> \o a = <<>>
        BY <4>2, <4>3, ArrivesNothing
      <4> QED BY <4>3, <4>4
    <3> HIDE DEF k, body
    <3> QED BY <1>1, <1>4, <1>5, <2>3, <3>1, <3>2, <3>3
  <2> QED BY <2>1, <2>2, <2>3
<1>8. /\ q + 1 \in 0..Len(body) /\ y = body[q + 1]
      /\ Arrives(a, SubSeq(body, (q + 1) + 1, Len(body)) \o rest, broken)
  <2> HIDE DEF body
  <2> QED BY <1>4, <1>6, <1>7, NextUnit
<1>9. y = Unit("data", msg.id, k + 1)
  <2>1. CASE r.kind # "chunked"
    <3>1. k \in 0..(len - 1) /\ q = k /\ msg.te # "chunked"
      <4> HIDE DEF k
      <4> QED BY <1>1, <1>7, <2>1
    <3>2. body[k + 1] = Unit("data", msg.id, k + 1)
      <4> HIDE DEF k
      <4> QED BY <3>1, BodyPlaces
    <3> QED BY <1>8, <3>1, <3>2
  <2>2. CASE r.kind = "chunked"
    <3>1. k \in 0..(len - 1) /\ q = 3 * k + 1 /\ msg.te = "chunked"
      <4> HIDE DEF k
      <4> QED BY <1>1, <1>7, <2>2
    <3>2. body[(3 * k + 1) + 1] = Unit("data", msg.id, k + 1)
      <4> HIDE DEF k
      <4> QED BY <3>1, BodyPlaces
    <3> QED BY <1>8, <3>1, <3>2
  <2> QED BY <2>1, <2>2
<1>10. Len(s.out) = k + 1 /\ s.out = DataUnits(msg.id, k + 1)
  <2>1. msg.id \in Nat
    BY HeadId
  <2>2. DataUnits(msg.id, k + 1) = Append(r.out, y)
    <3> HIDE DEF k
    <3> QED BY <1>1, <1>5, <1>9, <2>1, DataAppend
  <2> QED BY <1>1, <1>2, <2>2
<1>11. Stands(s, msg, len, q + 1)
  <2>1. CASE r.kind = "length"
    <3>1. q = k /\ r.left = len - k /\ msg.te # "chunked"
      BY <1>4, <2>1 DEF Stands
    <3>2. s.left = len - (k + 1) /\ q + 1 = k + 1
      <4> HIDE DEF k
      <4> QED BY <1>1, <1>2, <2>1, <3>1
    <3> QED BY <1>2, <1>10, <2>1, <3>1, <3>2 DEF Stands
  <2>2. CASE r.kind = "chunked"
    <3>1. /\ s.chunk = 0 /\ s.need = "crlf" /\ s.state # "finished" /\ msg.te = "chunked"
          /\ q + 1 = 3 * (k + 1) - 1 /\ k + 1 > 0
      <4> HIDE DEF k
      <4> QED BY <1>1, <1>2, <1>7, <2>2
    <3> QED BY <1>2, <1>10, <2>2, <3>1 DEF Stands
  <2>3. CASE r.kind = "eof"
    BY <1>2, <1>7, <1>10, <2>3 DEF Stands
  <2> QED BY <2>1, <2>2, <2>3
<1>12. Before(s, a, msg, len, rest, broken)
  <2> HIDE DEF body
  <2>1. s.state # "finished"
    BY <1>2
  <2> QED BY <1>8, <1>11, <2>1 DEF Before, body
<1>13. Taken(s, msg, len)
  <2> HIDE DEF k
  <2> QED BY <1>1, <1>7, <1>10 DEF Taken
<1> QED BY <1>2, <1>3, <1>12, <1>13 DEF Reads

\* Where the line end after the k-th of len chunks stands.
LEMMA CrlfPlace ==
  \A k, len \in Nat : k > 0 /\ k <= len =>
    /\ 3 * k - 1 \in 0..((3 * len + 3) - 1) /\ k - 1 \in 0..(len - 1)
    /\ 3 * k - 1 = 3 * (k - 1) + 2 /\ (3 * k - 1) + 1 = 3 * k
OBVIOUS

\* Behind a chunk there is a line end.
LEMMA ReaderTakesCrlf ==
  ASSUME NEW r \in Readers, NEW y \in Units, NEW a \in Seq(Units), NEW msg \in Heads, NEW len \in Nat,
         NEW rest \in Seq(Units), NEW broken,
         Reads(r, <<y>> \o a, msg, len, rest, broken), r.state = "reading",
         r.kind = "chunked", r.need = "crlf",
         NEW s, s = AfterCrlf(r, y)
  PROVE  s \in Readers /\ s.kind = r.kind /\ s.state = "reading"
         /\ Reads(s, a, msg, len, rest, broken)
<1> DEFINE body == BodyUnits(msg, len)
           k == Len(r.out)
<1>1. k \in Nat
  BY ReaderFields
<1>2. /\ s.kind = r.kind /\ s.out = r.out /\ s.left = r.left /\ s.chunk = r.chunk /\ s.need = "none"
      /\ s.state = IF y.kind = "crlf" THEN "reading" ELSE "malformed"
      /\ s \in Readers
  BY DEF Readers, AfterCrlf
<1>3. PICK q \in 0..Len(body) :
        Stands(r, msg, len, q) /\ Arrives(<<y>> \o a, SubSeq(body, q + 1, Len(body)) \o rest, broken)
  BY DEF Reads, Before
<1>4. k <= len
  BY DEF Reads, Taken
<1>5. r.chunk = 0 /\ q = 3 * k - 1 /\ k > 0 /\ msg.te = "chunked"
  BY <1>3 DEF Stands
<1>6. body \in Seq(Units) /\ Len(body) = 3 * len + 3
  BY <1>5, BodyTypes
<1>7. q \in 0..(Len(body) - 1) /\ k - 1 \in 0..(len - 1) /\ q = 3 * (k - 1) + 2 /\ q + 1 = 3 * k
  <2> HIDE DEF k, body
  <2> QED BY <1>1, <1>4, <1>5, <1>6, CrlfPlace
<1>8. /\ q + 1 \in 0..Len(body) /\ y = body[q + 1]
      /\ Arrives(a, SubSeq(body, (q + 1) + 1, Len(body)) \o rest, broken)
  <2> HIDE DEF body
  <2>1. body \in Seq(Units) /\ q \in 0..(Len(body) - 1)
    BY <1>6, <1>7
  <2>2. Arrives(<<y>> \o a, SubSeq(body, q + 1, Len(body)) \o rest, broken)
    BY <1>3
  <2> QED BY <2>1, <2>2, NextUnit
<1>9. y.kind = "crlf"
  <2> DEFINE j == k - 1
  <2>1. j \in 0..(len - 1) /\ q = 3 * j + 2
    BY <1>7
  <2> HIDE DEF j
  <2>2. body[(3 * j + 2) + 1] = Unit("crlf", msg.id, 0)
    BY <1>5, <2>1, BodyPlaces
  <2> QED BY <1>8, <2>1, <2>2, UnitFields
<1>10. Stands(s, msg, len, q + 1)
  BY <1>2, <1>5, <1>7, <1>9 DEF Stands
<1>11. Before(s, a, msg, len, rest, broken)
  <2> HIDE DEF body
  <2>1. s.state # "finished"
    BY <1>2, <1>9
  <2> QED BY <1>8, <1>10, <2>1 DEF Before, body
<1> QED BY <1>2, <1>9, <1>11 DEF Reads, Taken

\* The first unit of a line that a reader waits for is the whole line.
LEMMA ReaderAtLine ==
  ASSUME NEW r \in Readers, NEW y \in Units, NEW a \in Seq(Units), NEW msg \in Heads, NEW len \in Nat,
         NEW rest \in Seq(Units), NEW broken,
         Reads(r, <<y>> \o a, msg, len, rest, broken), r.state = "reading",
         r.kind = "chunked", r.chunk = 0, r.need # "crlf",
         NEW s, s = AfterLine(r, y)
  PROVE  y.kind \in {"size", "crlf"} /\ s \in Readers /\ s.kind = r.kind
         /\ s.state \in {"reading", "finished"} /\ Reads(s, a, msg, len, rest, broken)
<1> DEFINE body == BodyUnits(msg, len)
           k == Len(r.out)
<1>1. k \in Nat /\ r.need \in {"none", "crlf", "trailer"}
  BY ReaderFields
<1>2. PICK q \in 0..Len(body) :
        Stands(r, msg, len, q) /\ Arrives(<<y>> \o a, SubSeq(body, q + 1, Len(body)) \o rest, broken)
  BY DEF Reads, Before
<1>3. k <= len /\ msg.te = "chunked"
  BY <1>2 DEF Reads, Taken, Stands
<1>4. body \in Seq(Units) /\ Len(body) = 3 * len + 3
  BY <1>3, BodyTypes
<1>5. \/ r.need = "none" /\ q = 3 * k
      \/ r.need = "trailer" /\ k = len /\ q \in {3 * k + 1, 3 * k + 2}
  BY <1>1, <1>2 DEF Stands
<1>6. q \in 0..(Len(body) - 1)
  <2> HIDE DEF k, body
  <2> QED BY <1>1, <1>2, <1>3, <1>4, <1>5
<1>7. /\ q + 1 \in 0..Len(body) /\ y = body[q + 1]
      /\ Arrives(a, SubSeq(body, (q + 1) + 1, Len(body)) \o rest, broken)
  <2> HIDE DEF body
  <2> QED BY <1>2, <1>4, <1>6, NextUnit
<1>8. ASSUME s \in Readers, s.kind = "chunked", s.out = r.out, Stands(s, msg, len, q + 1),
             s.state \in {"reading", "finished"}, s.state = "finished" => q + 1 = Len(body)
      PROVE  Reads(s, a, msg, len, rest, broken)
  <2>1. Before(s, a, msg, len, rest, broken)
    <3> HIDE DEF body
    <3> QED BY <1>7, <1>8 DEF Before, body
  <2> QED BY <1>8, <2>1 DEF Reads, Taken
<1> HIDE DEF body
<1>9. CASE r.need = "none" /\ k < len
  <2>1. q = 3 * k /\ k \in 0..(len - 1)
    <3> HIDE DEF k
    <3> QED BY <1>1, <1>3, <1>5, <1>9
  <2>2. y.kind = "size" /\ y.n = 1
    <3>1. body[3 * k + 1] = Unit("size", msg.id, 1)
      <4> HIDE DEF k
      <4> QED BY <1>3, <2>1, BodyPlaces DEF body
    <3> QED BY <1>7, <2>1, <3>1, UnitFields
  <2>3. s = [r EXCEPT !.chunk = 1, !.need = "none"]
    BY <1>9, <2>2 DEF AfterLine
  <2>4. /\ s \in Readers /\ s.kind = "chunked" /\ s.out = r.out /\ s.chunk = 1 /\ s.need = "none"
        /\ s.state = "reading"
    <3>1. /\ s.kind = r.kind /\ s.out = r.out /\ s.chunk = 1 /\ s.need = "none" /\ s.state = r.state
          /\ s = [kind |-> r.kind, left |-> r.left, chunk |-> 1, need |-> "none", state |-> r.state,
                  out |-> r.out, max |-> r.max]
      BY <2>3 DEF Readers
    <3>2. [kind |-> r.kind, left |-> r.left, chunk |-> 1, need |-> "none", state |-> r.state,
           out |-> r.out, max |-> r.max] \in Readers
      BY ReaderFields DEF Readers
    <3> QED BY <3>1, <3>2
  <2>5. Stands(s, msg, len, q + 1)
    BY <1>3, <1>9, <2>1, <2>4 DEF Stands
  <2> QED BY <1>8, <2>2, <2>4, <2>5
<1>10. CASE r.need = "none" /\ k = len
  <2>1. y.kind = "size" /\ y.n = 0
    <3>1. body[3 * k + 1] = Unit("size", msg.id, 0)
      BY <1>3, <1>10, BodyPlaces DEF body
    <3>2. q = 3 * k
      BY <1>5, <1>10
    <3> QED BY <1>7, <3>1, <3>2, UnitFields
  <2>2. s = [r EXCEPT !.chunk = 0, !.need = "trailer"]
    BY <1>10, <2>1 DEF AfterLine
  <2>3. /\ s \in Readers /\ s.kind = "chunked" /\ s.out = r.out /\ s.chunk = 0 /\ s.need = "trailer"
        /\ s.state = "reading"
    BY <2>2 DEF Readers
  <2>4. Stands(s, msg, len, q + 1)
    <3>1. q + 1 = 3 * k + 1
      BY <1>5, <1>10
    <3> QED BY <1>3, <1>10, <2>3, <3>1 DEF Stands
  <2> QED BY <1>8, <2>1, <2>3, <2>4
<1>11. CASE r.need = "trailer" /\ q = 3 * k + 1
  <2>1. k = len
    BY <1>5, <1>11
  <2>2. y.kind = "size"
    <3>1. body[(3 * k + 1) + 1] = Unit("size", msg.id, 9)
      BY <1>3, <2>1, BodyPlaces DEF body
    <3> QED BY <1>7, <1>11, <3>1, UnitFields
  <2>3. s = r
    <3>1. s = [r EXCEPT !.state = @]
      BY <1>11, <2>2 DEF AfterLine
    <3> QED BY <3>1 DEF Readers
  <2>4. Stands(s, msg, len, q + 1)
    <3>1. q + 1 = 3 * k + 2
      <4> HIDE DEF k
      <4> QED BY <1>1, <1>11
    <3> QED BY <1>3, <1>11, <2>1, <2>3, <3>1 DEF Stands
  <2> QED BY <1>8, <2>2, <2>3, <2>4
<1>12. CASE r.need = "trailer" /\ q = 3 * k + 2
  <2>1. k = len
    BY <1>5, <1>12
  <2>2. y.kind = "crlf"
    <3>1. body[(3 * k + 2) + 1] = Unit("crlf", msg.id, 0)
      BY <1>3, <2>1, BodyPlaces DEF body
    <3> QED BY <1>7, <1>12, <3>1, UnitFields
  <2>3. s = [r EXCEPT !.state = "finished"]
    BY <1>12, <2>2 DEF AfterLine
  <2>4. s \in Readers /\ s.kind = "chunked" /\ s.out = r.out /\ s.state = "finished"
    BY <2>3 DEF Readers
  <2>5. q + 1 = 3 * k + 3
    <3> HIDE DEF k
    <3> QED BY <1>1, <1>12
  <2>6. Stands(s, msg, len, q + 1)
    BY <1>3, <2>1, <2>4, <2>5 DEF Stands
  <2>7. q + 1 = Len(body)
    BY <1>4, <2>1, <2>5 DEF body
  <2> QED BY <1>8, <2>2, <2>4, <2>6, <2>7
<1>13. (r.need = "none" /\ k < len) \/ (r.need = "none" /\ k = len)
       \/ (r.need = "trailer" /\ q = 3 * k + 1) \/ (r.need = "trailer" /\ q = 3 * k + 2)
  <2> HIDE DEF k
  <2> QED BY <1>1, <1>3, <1>5
<1> QED BY <1>9, <1>10, <1>11, <1>12, <1>13

-----------------------------------------------------------------------------
\* One unit taken off the front of the buffer.
LEMMA DropOne ==
  ASSUME Bytes, NEW e \in Ends, buf[e] # <<>>
  PROVE  /\ buf[e][1] \in Units
         /\ \E s \in Seq(Units) :
              /\ Available(e) = <<buf[e][1]>> \o s
              /\ DropFront(e, 1) /\ UNCHANGED wire => Bytes' /\ OnlyAt(e) /\ Available(e)' = s
<1> DEFINE b == buf[e]
           x == b[1]
           y == SubSeq(b, 0 + 2, Len(b))
           s == y \o wire[e]
<1>1. b \in Seq(Units) /\ wire[e] \in Seq(Units) /\ Len(b) \in Nat /\ Len(b) > 0
  BY DEF Bytes
<1>2. 0 \in 0..(Len(b) - 1) /\ 0 + 1 = 1 /\ 0 + 2 = 1 + 1
  BY <1>1
<1>3. x \in Units /\ y \in Seq(Units) /\ SubSeq(b, 0 + 1, Len(b)) = <<x>> \o y
  <2>1. b[0 + 1] \in Units /\ y \in Seq(Units) /\ SubSeq(b, 0 + 1, Len(b)) = <<b[0 + 1]>> \o y
    <3> HIDE DEF b
    <3> QED BY <1>1, <1>2, RestSeq
  <2> QED BY <1>2, <2>1
<1>4. SubSeq(b, 1, Len(b)) = b
  <2> HIDE DEF b
  <2> QED BY <1>1, SubSeqFull
<1>5. b = <<x>> \o y
  BY <1>2, <1>3, <1>4
<1>6. s \in Seq(Units)
  <2> HIDE DEF y
  <2> QED BY <1>1, <1>3, ConcatElements
<1>7. Available(e) = <<x>> \o s
  <2>1. <<x>> \in Seq(Units)
    BY <1>3
  <2>2. (<<x>> \o y) \o wire[e] = <<x>> \o (y \o wire[e])
    <3> HIDE DEF x, y
    <3> QED BY <1>1, <1>3, <2>1, Assoc
  <2> QED BY <1>5, <2>2 DEF Available
<1>8. ASSUME DropFront(e, 1), UNCHANGED wire PROVE Bytes' /\ OnlyAt(e) /\ Available(e)' = s
  <2>1. buf' = [buf EXCEPT ![e] = y]
    BY <1>2, <1>8 DEF DropFront
  <2> HIDE DEF y
  <2>2. buf'[e] = y /\ OnlyAt(e)
    BY <1>8, <2>1 DEF OnlyAt, Bytes
  <2>3. Bytes'
    BY <1>3, <1>8, <2>1 DEF Bytes
  <2> QED BY <1>8, <2>2, <2>3 DEF Available
<1> QED BY <1>3, <1>6, <1>7, <1>8

\* The steps of BodyReader.
ReadStep(e) == ReadFinished(e) \/ ReadBytes(e) \/ ReadChunkEnd(e) \/ ReadChunkLine(e) \/ ReadEof(e)

\* Each step of BodyReader takes the next bytes of the body, and only those.
LEMMA ReadBodyKeeps ==
  ASSUME Bytes, rd \in [Ends -> Readers], NEW e \in Ends, NEW msg \in Heads, NEW len \in Nat,
         NEW rest \in Seq(Units), NEW broken, Reads(rd[e], Available(e), msg, len, rest, broken),
         rd[e].kind = "eof" => rest = <<>>, rd[e].state = "reading", ReadStep(e)
  PROVE  /\ Bytes' /\ OnlyAt(e) /\ rd' \in [Ends -> Readers]
         /\ \A x \in Ends \ {e} : rd'[x] = rd[x]
         /\ rd'[e].kind = rd[e].kind /\ rd'[e].state # "off"
         /\ Reads(rd'[e], Available(e)', msg, len, rest, broken)
         /\ rd[e].kind = "eof" /\ rd'[e].state = "finished" => Available(e)' = <<>>
<1> DEFINE r == rd[e]
           s == rd'[e]
<1>1. r \in Readers
  OBVIOUS
<1>2. ASSUME NEW z, rd' = [rd EXCEPT ![e] = z]
      PROVE  s = z /\ (z \in Readers => rd' \in [Ends -> Readers])
             /\ \A x \in Ends \ {e} : rd'[x] = rd[x]
  BY <1>2
<1>3. ASSUME UNCHANGED <<wire, buf>>
      PROVE  Bytes' /\ OnlyAt(e) /\ Available(e)' = Available(e)
  BY <1>3 DEF Bytes, OnlyAt, Available
<1>4. ASSUME NEW v \in {"closed", "malformed", "toolong"}, rd' = [rd EXCEPT ![e] = [r EXCEPT !.state = v]]
      PROVE  s \in Readers /\ s.kind = r.kind /\ s.state = v
             /\ Reads(s, Available(e)', msg, len, rest, broken)
  <2>1. s = [r EXCEPT !.state = v]
    BY <1>4
  <2> HIDE DEF r, s
  <2>2. s \in Readers /\ s.kind = r.kind /\ s.state = v /\ s.out = r.out
    BY <1>1, <2>1 DEF Readers
  <2>3. Taken(r, msg, len)
    BY DEF Reads, r
  <2> QED BY <2>2, <2>3 DEF Reads, Taken
<1>5. CASE ReadFinished(e)
  <2>1. rd' = [rd EXCEPT ![e] = [r EXCEPT !.state = "finished"]] /\ UNCHANGED <<wire, buf>>
        /\ (r.kind = "empty" \/ (r.kind = "length" /\ r.left = 0))
    BY <1>5 DEF ReadFinished, EndRead
  <2>2. s = [r EXCEPT !.state = "finished"]
    BY <1>2, <2>1
  <2>3. s \in Readers /\ s.kind = r.kind /\ s.state = "finished"
        /\ Reads(s, Available(e), msg, len, rest, broken)
    <3>1. Reads(r, Available(e), msg, len, rest, broken) /\ r.state = "reading"
      OBVIOUS
    <3> HIDE DEF r, s
    <3> QED BY <1>1, <2>1, <2>2, <3>1, ReaderFinishes
  <2> QED BY <1>2, <1>3, <2>1, <2>2, <2>3
<1>6. CASE ReadBytes(e)
  <2> DEFINE y == Head(Available(e))
             a == Available(e)'
             z == AfterByte(r, y)
  <2>1. /\ rd' = [rd EXCEPT ![e] = z]
        /\ \/ r.kind = "length" /\ r.left > 0
           \/ r.kind = "chunked" /\ r.chunk > 0
           \/ r.kind = "eof"
        /\ Available(e) # <<>> /\ Consume(e)
    <3>1. rd' = [rd EXCEPT ![e] = z]
      BY <1>6 DEF ReadBytes, AfterByte
    <3>2. /\ \/ r.kind = "length" /\ r.left > 0
             \/ r.kind = "chunked" /\ r.chunk > 0
             \/ r.kind = "eof"
          /\ Available(e) # <<>> /\ Consume(e)
      BY <1>6 DEF ReadBytes
    <3> QED BY <3>1, <3>2
  <2>2. Bytes' /\ OnlyAt(e) /\ a \in Seq(Units) /\ y \in Units /\ Available(e) = <<y>> \o a
    BY <2>1, ConsumeTakes
  <2>3. s = z
    <3> HIDE DEF z
    <3> QED BY <1>2, <2>1
  <2>4. s \in Readers /\ s.kind = r.kind /\ s.state \in {"reading", "toolong"}
        /\ Reads(s, a, msg, len, rest, broken)
    <3>1. Reads(r, <<y>> \o a, msg, len, rest, broken) /\ r.state = "reading" /\ (r.kind = "eof" => rest = <<>>)
      BY <2>2
    <3> HIDE DEF r, s, y, a
    <3> QED BY <1>1, <2>1, <2>2, <2>3, <3>1, ReaderTakesByte
  <2> HIDE DEF z, a
  <2> QED BY <1>2, <2>1, <2>2, <2>3, <2>4 DEF a
<1>7. CASE ReadChunkEnd(e)
  <2> DEFINE y == Head(Available(e))
             a == Available(e)'
             z == AfterCrlf(r, y)
  <2>1. /\ rd' = [rd EXCEPT ![e] = z]
        /\ r.kind = "chunked" /\ r.need = "crlf"
        /\ Available(e) # <<>> /\ Consume(e)
    BY <1>7 DEF ReadChunkEnd, AfterCrlf
  <2>2. Bytes' /\ OnlyAt(e) /\ a \in Seq(Units) /\ y \in Units /\ Available(e) = <<y>> \o a
    BY <2>1, ConsumeTakes
  <2>3. s = z
    <3> HIDE DEF z
    <3> QED BY <1>2, <2>1
  <2>4. s \in Readers /\ s.kind = r.kind /\ s.state = "reading" /\ Reads(s, a, msg, len, rest, broken)
    <3>1. Reads(r, <<y>> \o a, msg, len, rest, broken) /\ r.state = "reading"
      BY <2>2
    <3> HIDE DEF r, s, y, a
    <3> QED BY <1>1, <2>1, <2>2, <2>3, <3>1, ReaderTakesCrlf
  <2> HIDE DEF z, a
  <2> QED BY <1>2, <2>1, <2>2, <2>3, <2>4 DEF a
<1>8. CASE ReadChunkLine(e) /\ LineEnd(buf[e]) = 0
  <2>1. Fill(e) /\ rd' = rd
    BY <1>8 DEF ReadChunkLine
  <2>2. Bytes' /\ OnlyAt(e) /\ Available(e)' = Available(e)
    BY <2>1, FillKeeps
  <2>3. r.kind = "chunked"
    BY <1>8 DEF ReadChunkLine
  <2> QED BY <2>1, <2>2, <2>3
<1>9. CASE ReadChunkLine(e) /\ LineEnd(buf[e]) # 0
  <2> DEFINE b == buf[e]
             y == b[1]
  <2>1. b \in Seq(Units)
    BY DEF Bytes
  <2>2. b # <<>> /\ (y.kind \in {"size", "crlf", "start", "head"} => LineEnd(b) = 1)
    <3> HIDE DEF b
    <3> QED BY <1>9, <2>1, LineFound DEF b
  <2>3. y \in Units
    BY <2>2, DropOne
  <2>4. PICK a \in Seq(Units) :
          /\ Available(e) = <<y>> \o a
          /\ DropFront(e, 1) /\ UNCHANGED wire => Bytes' /\ OnlyAt(e) /\ Available(e)' = a
    BY <2>2, DropOne
  <2>5. r.kind = "chunked" /\ r.chunk = 0 /\ r.need # "crlf" /\ r.need \in {"none", "trailer"}
    BY <1>9 DEF ReadChunkLine
  <2>6. Reads(r, <<y>> \o a, msg, len, rest, broken) /\ r.state = "reading"
    BY <2>4
  <2>7. y.kind \in {"size", "crlf"}
    <3> HIDE DEF r, y
    <3> QED BY <1>1, <2>3, <2>5, <2>6, ReaderAtLine
  <2>8. LineEnd(buf[e]) = 1
    BY <2>2, <2>7
  <2>9. DropFront(e, 1) /\ UNCHANGED wire
    BY <1>9, <2>8 DEF ReadChunkLine
  <2>10. rd' = [rd EXCEPT ![e] = AfterLine(r, y)]
    <3>1. CASE r.need = "trailer"
      <4>1. rd' = [rd EXCEPT ![e].state = IF LineEnd(buf[e]) = 1 /\ y.kind = "crlf" THEN "finished" ELSE @]
        BY <1>9, <2>8, <3>1 DEF ReadChunkLine
      <4>2. rd' = [rd EXCEPT ![e] = [r EXCEPT !.state = IF y.kind = "crlf" THEN "finished" ELSE @]]
        <5> HIDE DEF y
        <5> QED BY <2>8, <4>1
      <4> QED BY <3>1, <4>2 DEF AfterLine
    <3>2. CASE r.need = "none" /\ y.kind = "size"
      <4>1. rd' = [rd EXCEPT ![e].chunk = y.n, ![e].need = IF y.n = 0 THEN "trailer" ELSE @]
        BY <1>9, <2>8, <3>2 DEF ReadChunkLine
      <4>2. rd' = [rd EXCEPT ![e] = [r EXCEPT !.chunk = y.n, !.need = IF y.n = 0 THEN "trailer" ELSE @]]
        <5> HIDE DEF y
        <5> QED BY <4>1
      <4> QED BY <3>2, <4>2 DEF AfterLine
    <3>3. CASE r.need = "none" /\ y.kind # "size"
      <4>1. rd' = [rd EXCEPT ![e].state = "malformed"]
        BY <1>9, <2>8, <3>3 DEF ReadChunkLine, EndRead
      <4>2. rd' = [rd EXCEPT ![e] = [r EXCEPT !.state = "malformed"]]
        BY <4>1
      <4> QED BY <3>3, <4>2 DEF AfterLine
    <3> QED BY <2>5, <3>1, <3>2, <3>3
  <2>11. s = AfterLine(r, y)
    BY <1>2, <2>10
  <2>12. s \in Readers /\ s.kind = r.kind /\ s.state \in {"reading", "finished"}
         /\ Reads(s, a, msg, len, rest, broken)
    <3> HIDE DEF r, s, y
    <3> QED BY <1>1, <2>3, <2>5, <2>6, <2>11, ReaderAtLine
  <2> QED BY <1>2, <2>4, <2>5, <2>9, <2>10, <2>11, <2>12
<1>10. CASE ReadEof(e)
  <2>1. /\ rd' = [rd EXCEPT ![e] = [r EXCEPT !.state = IF r.kind = "eof" THEN "finished" ELSE "closed"]]
        /\ UNCHANGED <<wire, buf>> /\ AtEof(e) /\ (r.kind = "eof" => buf[e] = <<>>)
    BY <1>10 DEF ReadEof, EndRead
  <2>2. CASE r.kind = "eof"
    <3>1. s = [r EXCEPT !.state = "finished"]
      BY <1>2, <2>1, <2>2
    <3>2. Reads(r, Available(e), msg, len, rest, broken) /\ r.state = "reading"
      OBVIOUS
    <3>3. Available(e) = <<>>
      BY <2>1, <2>2 DEF AtEof, Available
    <3>4. s \in Readers /\ s.kind = "eof" /\ s.state = "finished"
          /\ Reads(s, Available(e), msg, len, rest, broken)
      <4> HIDE DEF r, s
      <4>1. s \in Readers /\ s.kind = "eof" /\ s.state = "finished" /\ s.out = r.out
        BY <1>1, <2>2, <3>1 DEF Readers
      <4>2. PICK q \in 0..Len(BodyUnits(msg, len)) :
              /\ Stands(r, msg, len, q)
              /\ Arrives(Available(e), SubSeq(BodyUnits(msg, len), q + 1, Len(BodyUnits(msg, len))) \o rest, broken)
        BY <3>2 DEF Reads, Before
      <4>3. Stands(s, msg, len, q)
        BY <2>2, <4>1, <4>2 DEF Stands
      <4>4. Before(s, Available(e), msg, len, rest, broken)
        BY <4>1, <4>2, <4>3 DEF Before
      <4> QED BY <3>2, <4>1, <4>4 DEF Reads, Taken
    <3> QED BY <1>2, <1>3, <2>1, <2>2, <3>1, <3>3, <3>4
  <2>3. CASE r.kind # "eof"
    <3>1. rd' = [rd EXCEPT ![e] = [r EXCEPT !.state = "closed"]]
      BY <2>1, <2>3
    <3>2. s \in Readers /\ s.kind = r.kind /\ s.state = "closed"
          /\ Reads(s, Available(e)', msg, len, rest, broken)
      BY <1>4, <3>1
    <3> QED BY <1>2, <1>3, <2>1, <2>3, <3>1, <3>2
  <2> QED BY <2>2, <2>3
<1> QED BY <1>5, <1>6, <1>7, <1>8, <1>9, <1>10 DEF ReadStep

-----------------------------------------------------------------------------
\* The two ends of each connection.
LEMMA TwoEnds ==
  /\ \A c \in Conns : /\ CEnd(c) \in Ends /\ SEnd(c) \in Ends /\ CEnd(c) # SEnd(c)
                      /\ Peer(CEnd(c)) = SEnd(c) /\ Peer(SEnd(c)) = CEnd(c)
  /\ \A c, d \in Conns : /\ CEnd(c) # SEnd(d)
                         /\ CEnd(c) = CEnd(d) => c = d
                         /\ SEnd(c) = SEnd(d) => c = d
  /\ \A e \in Ends : \E c \in Conns : e = CEnd(c) \/ e = SEnd(c)
<1>1. ASSUME NEW e \in Ends PROVE \E c \in Conns : e = CEnd(c) \/ e = SEnd(c)
  <2>1. e[1] \in Conns /\ (e = <<e[1], "client">> \/ e = <<e[1], "server">>)
    BY DEF Ends
  <2> QED BY <2>1 DEF CEnd, SEnd
<1>2. ASSUME NEW c \in Conns
      PROVE  /\ CEnd(c) \in Ends /\ SEnd(c) \in Ends /\ CEnd(c) # SEnd(c)
             /\ Peer(CEnd(c)) = SEnd(c) /\ Peer(SEnd(c)) = CEnd(c)
  BY DEF CEnd, SEnd, Ends, Peer
<1>3. ASSUME NEW c \in Conns, NEW d \in Conns
      PROVE  /\ CEnd(c) # SEnd(d) /\ (CEnd(c) = CEnd(d) => c = d)
             /\ (SEnd(c) = SEnd(d) => c = d)
  BY DEF CEnd, SEnd
<1> QED BY <1>1, <1>2, <1>3

\* Connections are numbered from 1.
LEMMA ConnNumbers == 0 \notin Conns /\ Conns \subseteq Nat /\ (\A c \in Conns : 1 \in Conns)
BY HttpAssumption DEF Conns

\* The types imply the type invariant of the model.
LEMMA TypesOK == Types => TypeOK
<1> SUFFICES ASSUME Types PROVE TypeOK
  OBVIOUS
<1>1. DOMAIN wire = Ends /\ DOMAIN buf = Ends /\ open \in [Ends -> BOOLEAN]
  BY DEF Types
<1>2. \A e \in Ends : rd[e].state \in {"off", "reading", "finished", "closed", "malformed", "toolong"}
  <2>1. \A e \in Ends : rd[e] \in Readers
    BY DEF Types
  <2> QED BY <2>1, ReaderFields
<1>3. \A c \in Conns : srv[c].phase \in {"off", "head", "handle", "returned", "foreign"}
  <2>1. \A c \in Conns : srv[c] \in Servers
    BY DEF Types
  <2> QED BY <2>1 DEF Servers
<1>4. \A t \in Tasks : task[t].phase \in {"idle", "connect", "send", "head", "body"}
  <2>1. \A t \in Tasks : task[t] \in Calls
    BY DEF Types
  <2> QED BY <2>1 DEF Calls
<1>5. \A a \in Authorities : Range(idle[a]) \subseteq Conns
  <2>1. \A a \in Authorities : idle[a] \in Seq(Conns)
    BY DEF Types
  <2>2. \A s \in Seq(Conns) : Range(s) \subseteq Conns
    BY SeqElement DEF Range
  <2> QED BY <2>1, <2>2
<1> QED BY <1>1, <1>2, <1>3, <1>4, <1>5 DEF TypeOK, Types

-----------------------------------------------------------------------------
\* A connection that a step does not touch.
SameEnd(e) == wire'[e] = wire[e] /\ buf'[e] = buf[e] /\ rd'[e] = rd[e] /\ open'[e] = open[e]
SameConn(c) ==
  /\ SameEnd(CEnd(c)) /\ SameEnd(SEnd(c))
  /\ srv'[c] = srv[c] /\ host'[c] = host[c] /\ asked'[c] = asked[c] /\ handled'[c] = handled[c]

\* What its owner knows of it: idle (in the pool or new), asked, being read.
Waits(c, id) == asked[c] # <<>> /\ asked[c][Len(asked[c])].id = id /\ (Unanswered(c, id) \/ Answered(c, id))
ClientKept(c) ==
  /\ Resting(c) => Resting(c)'
  /\ \A id \in Nat : Waits(c, id) => Waits(c, id)'
  /\ \A msg \in ResponseHeads : Answering(c, msg) => Answering(c, msg)'

\* What was settled stays, and what is asked anew has a new identity.
Grown(c) ==
  \A i \in 1..Len(asked'[c]) :
    \/ /\ i \in 1..Len(asked[c]) /\ asked'[c][i] = asked[c][i]
       /\ \A n \in Nat : Settled(c, i, n) => Settled(c, i, n)'
    \/ asked'[c][i].id > messages

\* The server's end does not change, the client's may but for its host.
SameServer(c) ==
  /\ SameEnd(SEnd(c)) /\ (open'[CEnd(c)] => open[CEnd(c)])
  /\ srv'[c] = srv[c] /\ host'[c] = host[c] /\ asked'[c] = asked[c] /\ handled'[c] = handled[c]

\* The server's end stays in step while only the client's end is closed or read.
LEMMA ServerKept ==
  ASSUME NEW c \in Conns, ServerSide(c), SameServer(c), SameConn(c) \/ host[c] # 0
  PROVE  ServerSide(c)'
<1>1. Connected(c)'
  BY TwoEnds DEF ServerSide, Connected, SameServer, SameConn, SameEnd
<1>2. HandledInOrder(c)'
  BY DEF ServerSide, HandledInOrder, SameServer
<1>3. ServesInStep(c)'
  <2> DEFINE e == SEnd(c)
             n == Len(handled[c])
             left == ~open[CEnd(c)]
             later == ~open'[CEnd(c)]
  <2>1. /\ srv'[c] = srv[c] /\ asked'[c] = asked[c] /\ handled'[c] = handled[c] /\ rd'[e] = rd[e]
        /\ Available(e)' = Available(e) /\ (left => later)
    BY DEF SameServer, SameEnd, Available
  <2>2. ASSUME srv[c].phase = "head"
        PROVE  /\ rd'[e] = NoReader
               /\ \E w \in Seq(Units) : Queued(asked'[c], Len(handled'[c]), w) /\ Arrives(Available(e)', w, later)
    <3>1. PICK w \in Seq(Units) : Queued(asked[c], n, w) /\ Arrives(Available(e), w, left)
      BY <2>2 DEF ServerSide, ServesInStep
    <3>2. Arrives(Available(e)', w, later)
      BY <2>1, <3>1, ArrivesBroken
    <3>3. rd[e] = NoReader
      BY <2>2 DEF ServerSide, ServesInStep
    <3> QED BY <2>1, <3>1, <3>2, <3>3
  <2>3. ASSUME srv[c].phase = "handle"
        PROVE  /\ n > 0 /\ srv[c].head \in RequestHeads /\ srv[c].head.id = asked[c][n].id
               /\ rd[e].kind \notin {"eof", "error"} /\ (rd[e].state = "off" => rd[e].out = <<>>)
               /\ \E w \in Seq(Units) :
                    /\ Queued(asked[c], n, w)
                    /\ Reads(rd[e], Available(e), srv[c].head, asked[c][n].len, w, later)
    <3>1. PICK w \in Seq(Units) :
            /\ Queued(asked[c], n, w)
            /\ Reads(rd[e], Available(e), srv[c].head, asked[c][n].len, w, left)
      BY <2>3 DEF ServerSide, ServesInStep
    <3>2. Reads(rd[e], Available(e), srv[c].head, asked[c][n].len, w, later)
      BY <2>1, <3>1, ReadsBroken
    <3> QED BY <2>3, <3>1, <3>2 DEF ServerSide, ServesInStep
  <2> QED BY <2>1, <2>2, <2>3 DEF ServesInStep
<1> QED BY <1>1, <1>2, <1>3 DEF ServerSide

\* A connection no step touches stays as it is.
LEMMA SameConnKeeps ==
  ASSUME NEW c \in Conns, ServerSide(c), SameConn(c)
  PROVE  ServerSide(c)' /\ ClientKept(c) /\ Grown(c)
<1>1. ServerSide(c)'
  <2>1. SameServer(c)
    BY DEF SameServer, SameConn, SameEnd
  <2> QED BY <2>1, ServerKept
<1>2. Available(CEnd(c))' = Available(CEnd(c))
  BY DEF SameConn, SameEnd, Available
<1>3. ClientKept(c)
  <2>1. /\ Silent(c)' = Silent(c) /\ ServerQuiet(c)' = ServerQuiet(c) /\ BrokenOff(c)' = BrokenOff(c)
        /\ \A len : Replied(c, len)' = Replied(c, len)
        /\ \A id : Unanswered(c, id)' = Unanswered(c, id)
    BY DEF SameConn, SameEnd, Silent, ServerQuiet, BrokenOff, Replied, Unanswered
  <2>2. \A id : Answered(c, id) => Answered(c, id)'
    BY <1>2, <2>1 DEF SameConn, SameEnd, Answered
  <2>3. \A msg : Answering(c, msg) => Answering(c, msg)'
    BY <1>2, <2>1 DEF SameConn, SameEnd, Answering
  <2> QED BY <2>1, <2>2, <2>3 DEF ClientKept, Resting, Waits, SameConn
<1>4. Grown(c)
  BY DEF Grown, Settled, SameConn
<1> QED BY <1>1, <1>3, <1>4

-----------------------------------------------------------------------------
\* Results stay true while requests are asked and answered.
LEMMA ResultKept ==
  ASSUME Types, Types', \A c \in Conns : Grown(c), messages <= messages', NEW t \in Tasks, ResultTrue(t),
         result'[t] = result[t] \/ result'[t].kind # "ok"
  PROVE  ResultTrue(t)'
<1> SUFFICES ASSUME result'[t].kind = "ok" PROVE ResultTrue(t)'
  BY DEF ResultTrue
<1>1. PICK r \in Results : r = result[t] /\ r = result'[t]
  BY DEF Types
<1>2. messages \in Nat /\ messages' \in Nat
  <2>1. MaxMessages \in Nat
    BY HttpAssumption
  <2> QED BY <2>1 DEF Types
<1>3. PICK n \in Nat : n = Len(r.body)
  BY DEF Results
<1>4. /\ r.body = DataUnits(r.id, n) /\ r.id <= messages
      /\ \A c \in Conns : \A i \in 1..Len(asked[c]) : asked[c][i].id = r.id => Settled(c, i, n)
  BY <1>1, <1>3 DEF ResultTrue
<1>5. ASSUME NEW c \in Conns, NEW i \in 1..Len(asked'[c]), asked'[c][i].id = r.id
      PROVE  Settled(c, i, n)'
  <2>1. r.id \in Nat
    BY DEF Results
  <2>2. ~ (asked'[c][i].id > messages)
    BY <1>2, <1>4, <1>5, <2>1
  <2>3. /\ i \in 1..Len(asked[c]) /\ asked'[c][i] = asked[c][i]
        /\ \A m \in Nat : Settled(c, i, m) => Settled(c, i, m)'
    BY <2>2 DEF Grown
  <2>4. Settled(c, i, n)
    BY <1>4, <1>5, <2>3
  <2> QED BY <2>3, <2>4
<1>6. r.id <= messages'
  <2>1. r.id \in Nat
    BY DEF Results
  <2> QED BY <1>2, <1>4, <2>1
<1> QED BY <1>1, <1>3, <1>4, <1>5, <1>6 DEF ResultTrue, Settled

\* The number of requests is a number.
LEMMA MessagesNat == Types => messages \in Nat
BY HttpAssumption DEF Types

\* A step of the server's end, or of its server.
LEMMA ServerStep ==
  ASSUME HttpInv, Types', NEW c \in Conns,
         UNCHANGED <<task, idle, host, client, messages, asked, result>>,
         \A d \in Conns \ {c} : SameConn(d), ServerSide(c)', open'[CEnd(c)] = open[CEnd(c)],
         open[CEnd(c)] => ClientKept(c), Grown(c)
  PROVE  HttpInv'
<1>1. \A d \in Conns : ServerSide(d)' /\ Grown(d) /\ (open[CEnd(d)] => ClientKept(d))
                       /\ open'[CEnd(d)] = open[CEnd(d)]
  <2> SUFFICES ASSUME NEW d \in Conns, d # c
               PROVE  ServerSide(d)' /\ Grown(d) /\ ClientKept(d) /\ open'[CEnd(d)] = open[CEnd(d)]
    OBVIOUS
  <2>1. ServerSide(d) /\ SameConn(d)
    BY DEF HttpInv
  <2> QED BY <2>1, SameConnKeeps DEF SameConn, SameEnd
<1>2. Owned'
  <2>1. \A t \in Tasks : task[t].conn \in {0} \cup Conns
    BY DEF HttpInv, Types, Calls
  <2>2. \A a \in Authorities : \A i \in 1..Len(idle[a]) : idle[a][i] \in Conns
    <3>1. \A a \in Authorities : idle[a] \in Seq(Conns)
      BY DEF HttpInv, Types
    <3> QED BY <3>1, SeqElement
  <2>3. \A t \in Tasks : TaskOwns(t)'
    <3> SUFFICES ASSUME NEW t \in Tasks PROVE TaskOwns(t)'
      OBVIOUS
    <3>1. TaskOwns(t)
      BY DEF HttpInv, Owned
    <3>2. Uses(t) => task[t].conn \in Conns
      BY <2>1, <3>1 DEF TaskOwns
    <3> QED BY <1>1, <3>1, <3>2 DEF TaskOwns, Uses
  <2>4. \A a \in Authorities : PoolOwns(a)'
    <3> SUFFICES ASSUME NEW a \in Authorities PROVE PoolOwns(a)'
      OBVIOUS
    <3>1. PoolOwns(a)
      BY DEF HttpInv, Owned
    <3> QED BY <1>1, <2>2, <3>1 DEF PoolOwns, MaxIdle
  <2>5. OursIdle'
    BY DEF HttpInv, Owned, OursIdle
  <2> QED BY <2>3, <2>4, <2>5 DEF Owned
<1>3. PoolInStep'
  <2> SUFFICES ASSUME NEW a \in Authorities, NEW i \in 1..Len(idle[a]) PROVE Resting(idle[a][i])'
    BY DEF PoolInStep
  <2> DEFINE d == idle[a][i]
  <2>1. d \in Conns
    <3>1. idle[a] \in Seq(Conns)
      BY DEF HttpInv, Types
    <3> QED BY <3>1, SeqElement
  <2>2. Resting(d) /\ open[CEnd(d)]
    BY DEF HttpInv, PoolInStep, Owned, PoolOwns
  <2>3. \A x \in Conns : open[CEnd(x)] /\ Resting(x) => Resting(x)'
    BY <1>1 DEF ClientKept
  <2>4. PICK x \in Conns : x = d
    BY <2>1
  <2>5. Resting(x)'
    BY <2>2, <2>3, <2>4
  <2>6. d' = d
    OBVIOUS
  <2> QED BY <2>4, <2>5, <2>6 DEF Resting, Silent, ServerQuiet
<1>4. IdsDiffer'
  BY DEF HttpInv, IdsDiffer
<1>5. ASSUME NEW t \in Tasks PROVE CallInStep(t)'
  <2>1. task[t] \in Calls /\ CallInStep(t) /\ TaskOwns(t)
    BY DEF HttpInv, Types, Owned
  <2>2. CASE ~Uses(t)
    BY <2>2 DEF Uses, CallInStep
  <2>3. CASE Uses(t)
    <3>1. task[t].conn \in Conns /\ open[CEnd(task[t].conn)] /\ task[t].id \in Nat
      BY <2>1, <2>3 DEF TaskOwns, Calls
    <3>2. PICK d \in Conns, id \in Nat : d = task[t].conn /\ id = task[t].id
      BY <3>1
    <3>3. ClientKept(d) /\ task'[t] = task[t] /\ asked' = asked
      BY <1>1, <3>1, <3>2
    <3>4. CASE task[t].phase = "send"
      BY <2>1, <3>2, <3>3, <3>4 DEF CallInStep, ClientKept
    <3>5. CASE task[t].phase = "head"
      <4>1. Waits(d, id)
        BY <2>1, <3>2, <3>5 DEF CallInStep, Waits
      <4>2. Waits(d, id)'
        BY <3>3, <4>1 DEF ClientKept
      <4> QED BY <3>2, <3>3, <3>5, <4>2 DEF CallInStep, Waits
    <3>6. CASE task[t].phase = "body"
      <4>1. PICK m \in ResponseHeads : m = task[t].head
        BY <2>1, <3>6 DEF CallInStep
      <4>2. Answering(d, m)'
        BY <2>1, <3>2, <3>3, <3>6, <4>1 DEF CallInStep, ClientKept
      <4> QED BY <2>1, <3>2, <3>3, <3>6, <4>1, <4>2 DEF CallInStep
    <3> QED BY <2>3, <3>4, <3>5, <3>6 DEF Uses
  <2> QED BY <2>2, <2>3
<1>6. ASSUME NEW t \in Tasks PROVE ResultTrue(t)'
  <2>1. Types /\ ResultTrue(t) /\ messages \in Nat
    BY MessagesNat DEF HttpInv
  <2> QED BY <1>1, <2>1, ResultKept
<1> QED BY <1>1, <1>2, <1>3, <1>4, <1>5, <1>6 DEF HttpInv

\* Nobody but t has c.
Mine(t, c) ==
  /\ \A u \in Tasks \ {t} : task[u].conn # c
  /\ \A a \in Authorities : \A i \in 1..Len(idle[a]) : idle[a][i] # c

\* The pool holds connections.
LEMMA PoolElement ==
  ASSUME Types, NEW a \in Authorities, NEW i \in 1..Len(idle[a])
  PROVE  idle[a][i] \in Conns
<1>1. idle[a] \in Seq(Conns)
  BY DEF Types
<1> QED BY <1>1, SeqElement

\* The pool is kept by a step at the connections C of a task.
LEMMA PoolKept ==
  ASSUME HttpInv, NEW t \in Tasks, NEW C \in SUBSET Conns, idle' = idle,
         \A u \in Tasks \ {t} : task'[u] = task[u],
         \A d \in Conns \ C : SameConn(d), \A c \in C : Mine(t, c),
         task'[t].conn \in {0} \cup C \/ task'[t].conn = task[t].conn
  PROVE  (\A a \in Authorities : PoolOwns(a)') /\ PoolInStep'
<1>1. ASSUME NEW a \in Authorities, NEW i \in 1..Len(idle[a])
      PROVE  /\ idle[a][i] \in Conns \ C /\ SameConn(idle[a][i]) /\ Resting(idle[a][i])
             /\ \A u \in Tasks : task'[u].conn # idle[a][i]
  <2>1. idle[a][i] \in Conns /\ PoolOwns(a) /\ PoolInStep
    BY PoolElement DEF HttpInv, Owned
  <2>2. idle[a][i] \notin C
    BY DEF Mine
  <2>3. \A u \in Tasks : task[u].conn # idle[a][i]
    BY <2>1 DEF PoolOwns
  <2>4. idle[a][i] # 0
    BY <2>1, ConnNumbers
  <2>5. task'[t].conn # idle[a][i]
    BY <2>2, <2>3, <2>4
  <2> QED BY <2>1, <2>2, <2>3, <2>5 DEF PoolInStep
<1>2. ASSUME NEW a \in Authorities PROVE PoolOwns(a)'
  <2>1. PoolOwns(a)
    BY DEF HttpInv, Owned
  <2> QED BY <1>1, <2>1 DEF PoolOwns, MaxIdle, SameConn, SameEnd
<1>3. PoolInStep'
  <2> SUFFICES ASSUME NEW a \in Authorities, NEW i \in 1..Len(idle[a]) PROVE Resting(idle[a][i])'
    BY DEF PoolInStep
  <2>1. PICK d \in Conns : d = idle[a][i]
    BY <1>1
  <2>2. ServerSide(d) /\ SameConn(d) /\ Resting(d)
    BY <1>1, <2>1 DEF HttpInv
  <2>3. Resting(d)'
    BY <2>2, SameConnKeeps DEF ClientKept
  <2> QED BY <2>1, <2>3 DEF Resting, Silent, ServerQuiet
<1> QED BY <1>2, <1>3

\* A step of a call, at the connections C.
LEMMA CallStep ==
  ASSUME HttpInv, Types', NEW t \in Tasks, NEW C \in SUBSET Conns, client = "ours", client' = client,
         \A u \in Tasks \ {t} : task'[u] = task[u] /\ result'[u] = result[u],
         \A d \in Conns \ C : SameConn(d),
         \A c \in C : Mine(t, c) /\ ServerSide(c)' /\ Grown(c),
         \A u \in Tasks \ {t} : task'[t].conn # 0 => task'[t].conn # task[u].conn,
         \A a \in Authorities : PoolOwns(a)', PoolInStep',
         task'[t].conn # 0 <=> Uses(t)', task'[t].phase # "idle" => task'[t].authority \in Authorities,
         Uses(t)' => host'[task'[t].conn] = task'[t].authority /\ open'[CEnd(task'[t].conn)],
         CallInStep(t)', ResultTrue(t)' \/ result'[t] = result[t] \/ result'[t].kind # "ok",
         IdsDiffer', messages <= messages'
  PROVE  HttpInv'
<1>1. \A d \in Conns : ServerSide(d)' /\ Grown(d)
  <2> SUFFICES ASSUME NEW d \in Conns \ C PROVE ServerSide(d)' /\ Grown(d)
    OBVIOUS
  <2>1. ServerSide(d) /\ SameConn(d)
    BY DEF HttpInv
  <2> QED BY <2>1, SameConnKeeps
<1>2. ASSUME NEW u \in Tasks \ {t}
      PROVE  /\ task'[u] = task[u] /\ TaskOwns(u) /\ CallInStep(u) /\ task[u] \in Calls
             /\ Uses(u) => task[u].conn \in Conns \ C
  <2>1. TaskOwns(u) /\ CallInStep(u) /\ task[u] \in Calls
    BY DEF HttpInv, Owned, Types
  <2>2. task[u].conn \notin C
    BY DEF Mine
  <2> QED BY <2>1, <2>2 DEF TaskOwns, Calls
<1>3. Owned'
  <2>1. ASSUME NEW u \in Tasks \ {t} PROVE TaskOwns(u)'
    <3>1. CASE Uses(u)
      <4>1. PICK d \in Conns \ C : d = task[u].conn
        BY <1>2, <3>1
      <4>2. SameConn(d) /\ d # 0 /\ (task'[t].conn # 0 => task'[t].conn # d)
        BY <4>1, ConnNumbers
      <4>3. task'[t].conn # d
        BY <4>2
      <4> QED BY <1>2, <3>1, <4>1, <4>2, <4>3 DEF TaskOwns, Uses, SameConn, SameEnd
    <3>2. CASE ~Uses(u)
      BY <1>2, <3>2 DEF TaskOwns, Uses
    <3> QED BY <3>1, <3>2
  <2>2. TaskOwns(t)'
    <3>1. ASSUME NEW u \in Tasks, Uses(t)', task'[t].conn = task'[u].conn PROVE t = u
      <4> SUFFICES ASSUME u # t PROVE FALSE
        OBVIOUS
      <4> QED BY <3>1
    <3> QED BY <3>1 DEF TaskOwns
  <2>3. OursIdle'
    BY DEF OursIdle
  <2> QED BY <2>1, <2>2, <2>3 DEF Owned
<1>4. ASSUME NEW u \in Tasks \ {t} PROVE CallInStep(u)'
  <2>1. CASE ~Uses(u)
    BY <1>2, <2>1 DEF Uses, CallInStep
  <2>2. CASE Uses(u)
    <3>1. PICK d \in Conns \ C : d = task[u].conn
      BY <1>2, <2>2
    <3>2. PICK id \in Nat : id = task[u].id
      BY <1>2 DEF Calls
    <3>3. ServerSide(d) /\ SameConn(d)
      BY DEF HttpInv
    <3>4. ClientKept(d) /\ asked'[d] = asked[d] /\ task'[u] = task[u]
      BY <1>2, <3>3, SameConnKeeps DEF SameConn
    <3>5. CASE task[u].phase = "send"
      BY <1>2, <3>1, <3>4, <3>5 DEF CallInStep, ClientKept
    <3>6. CASE task[u].phase = "head"
      <4>1. Waits(d, id)
        BY <1>2, <3>1, <3>2, <3>6 DEF CallInStep, Waits
      <4>2. Waits(d, id)'
        BY <3>4, <4>1 DEF ClientKept
      <4> QED BY <3>1, <3>2, <3>4, <3>6, <4>2 DEF CallInStep, Waits
    <3>7. CASE task[u].phase = "body"
      <4>1. PICK m \in ResponseHeads : m = task[u].head
        BY <1>2, <3>7 DEF CallInStep
      <4>2. Answering(d, m)'
        BY <1>2, <3>1, <3>4, <3>7, <4>1 DEF CallInStep, ClientKept
      <4> QED BY <1>2, <3>1, <3>2, <3>4, <3>7, <4>1, <4>2 DEF CallInStep
    <3> QED BY <2>2, <3>5, <3>6, <3>7 DEF Uses
  <2> QED BY <2>1, <2>2
<1>5. ASSUME NEW u \in Tasks PROVE ResultTrue(u)'
  <2>1. Types /\ ResultTrue(u)
    BY DEF HttpInv
  <2>2. ResultTrue(u)' \/ result'[u] = result[u] \/ result'[u].kind # "ok"
    OBVIOUS
  <2>3. (result'[u] = result[u] \/ result'[u].kind # "ok") => ResultTrue(u)'
    BY <1>1, <2>1, ResultKept
  <2> QED BY <2>2, <2>3
<1> QED BY <1>1, <1>3, <1>4, <1>5 DEF HttpInv

-----------------------------------------------------------------------------
\* serve_connection.

\* A step at one connection leaves the others alone.
LEMMA OneConn ==
  ASSUME NEW c \in Conns, \A x \in Ends \ {CEnd(c), SEnd(c)} : SameEnd(x),
         \A d \in Conns \ {c} : /\ srv'[d] = srv[d] /\ host'[d] = host[d]
                                /\ asked'[d] = asked[d] /\ handled'[d] = handled[d]
  PROVE  \A d \in Conns \ {c} : SameConn(d)
<1> SUFFICES ASSUME NEW d \in Conns \ {c} PROVE SameConn(d)
  OBVIOUS
<1>1. CEnd(d) \in Ends \ {CEnd(c), SEnd(c)} /\ SEnd(d) \in Ends \ {CEnd(c), SEnd(c)}
  BY TwoEnds
<1> QED BY <1>1 DEF SameConn

\* NoReader is a reader.
LEMMA NoReaderType == NoReader \in Readers
BY DEF NoReader, Readers

\* Who runs serve_connection.
LEMMA ServedHost ==
  ASSUME HttpInv, NEW c \in Conns, srv[c].phase \in {"head", "handle"}
  PROVE  host[c] \in Authorities \ Foreign /\ open[SEnd(c)]
<1>1. Connected(c) /\ host[c] \in {0} \cup Authorities
  BY DEF HttpInv, ServerSide, Types
<1> QED BY <1>1 DEF Connected

\* serve_connection returns.
LEMMA ReturnsKeep ==
  ASSUME HttpInv, NEW c \in Conns, srv[c].phase \in {"head", "handle"}, ServerReturns(c),
         UNCHANGED <<host, asked>>, HandledInOrder(c)'
  PROVE  /\ ServerSide(c)' /\ open'[CEnd(c)] = open[CEnd(c)]
         /\ open' \in [Ends -> BOOLEAN] /\ buf' \in [Ends -> Seq(Units)] /\ rd' \in [Ends -> Readers]
         /\ srv' \in [Conns -> Servers] /\ srv'[c].phase = "returned" /\ host[c] \in Authorities \ Foreign
         /\ \A x \in Ends \ {SEnd(c)} : buf'[x] = buf[x] /\ rd'[x] = rd[x] /\ open'[x] = open[x]
         /\ \A d \in Conns \ {c} : srv'[d] = srv[d]
<1> DEFINE e == SEnd(c)
<1>1. e \in Ends /\ CEnd(c) \in Ends /\ CEnd(c) # e
  BY TwoEnds
<1>2. /\ open' = [open EXCEPT ![e] = FALSE] /\ buf' = [buf EXCEPT ![e] = <<>>]
      /\ rd' = [rd EXCEPT ![e] = NoReader]
      /\ srv' = [srv EXCEPT ![c] = [phase |-> "returned", head |-> NoMessage]]
  BY DEF ServerReturns, Drop
<1>3. Types /\ Connected(c)
  BY DEF HttpInv, ServerSide
<1>4. host[c] \in Authorities \ Foreign
  BY ServedHost
<1> HIDE DEF e
<1>5. /\ srv'[c].phase = "returned" /\ rd'[e] = NoReader /\ ~open'[e]
      /\ open'[CEnd(c)] = open[CEnd(c)]
      /\ \A x \in Ends \ {e} : buf'[x] = buf[x] /\ rd'[x] = rd[x] /\ open'[x] = open[x]
      /\ \A d \in Conns \ {c} : srv'[d] = srv[d]
  BY <1>1, <1>2, <1>3 DEF Types
<1>6. /\ open' \in [Ends -> BOOLEAN] /\ buf' \in [Ends -> Seq(Units)] /\ rd' \in [Ends -> Readers]
      /\ srv' \in [Conns -> Servers]
  <2>1. [phase |-> "returned", head |-> NoMessage] \in Servers
    BY DEF Servers
  <2>2. /\ open \in [Ends -> BOOLEAN] /\ buf \in [Ends -> Seq(Units)] /\ rd \in [Ends -> Readers]
        /\ srv \in [Conns -> Servers]
    BY <1>3 DEF Types
  <2>3. open' \in [Ends -> BOOLEAN]
    BY <1>2, <2>2
  <2>4. buf' \in [Ends -> Seq(Units)]
    <3>1. <<>> \in Seq(Units)
      OBVIOUS
    <3> QED BY <1>2, <2>2, <3>1
  <2>5. rd' \in [Ends -> Readers]
    BY <1>2, <2>2, NoReaderType
  <2>6. srv' \in [Conns -> Servers]
    BY <1>2, <2>1, <2>2
  <2> QED BY <2>3, <2>4, <2>5, <2>6
<1>7. Connected(c)'
  <2>1. 0 \notin Authorities
    BY HttpAssumption
  <2> QED BY <1>4, <1>5, <2>1 DEF Connected, e
<1>8. ServesInStep(c)'
  BY <1>5 DEF ServesInStep
<1> QED BY <1>4, <1>5, <1>6, <1>7, <1>8 DEF ServerSide, e

\* What has been answered stays so while the client's end does not change.
LEMMA ClientView ==
  ASSUME NEW c \in Conns, SameEnd(CEnd(c)), ServerQuiet(c) => ServerQuiet(c)',
         BrokenOff(c) => BrokenOff(c)', \A len \in Lengths : Replied(c, len) => Replied(c, len)'
  PROVE  /\ \A id : Answered(c, id) => Answered(c, id)'
         /\ \A msg : Answering(c, msg) => Answering(c, msg)'
<1> DEFINE e == CEnd(c)
<1>1. Available(e)' = Available(e) /\ rd'[e] = rd[e]
  BY DEF SameEnd, Available
<1>2. ASSUME NEW id, Answered(c, id) PROVE Answered(c, id)'
  <2>1. ServerQuiet(c)' /\ rd'[e] = NoReader
    BY <1>1, <1>2 DEF Answered
  <2>2. PICK msg \in ResponseHeads, len \in Lengths :
          /\ msg.id = id /\ msg.wellformed /\ Fits(ResponseBodyKind(msg, FALSE), msg, len) /\ Replied(c, len)
          /\ Arrives(Available(e), MessageUnits(msg, len), BrokenOff(c))
    BY <1>2 DEF Answered
  <2>3. Arrives(Available(e), MessageUnits(msg, len), BrokenOff(c)')
    BY <2>2, ArrivesBroken
  <2>4. Arrives(Available(e)', MessageUnits(msg, len), BrokenOff(c)') /\ Replied(c, len)'
    BY <1>1, <2>2, <2>3
  <2> QED BY <2>1, <2>2, <2>4 DEF Answered
<1>3. ASSUME NEW msg, Answering(c, msg) PROVE Answering(c, msg)'
  <2>1. ServerQuiet(c)' /\ rd'[e].kind # "error" /\ rd'[e].state # "off"
        /\ (rd'[e].state = "finished" => Available(e)' = <<>>)
    BY <1>1, <1>3 DEF Answering
  <2>2. PICK len \in Lengths : Replied(c, len) /\ Reads(rd[e], Available(e), msg, len, <<>>, BrokenOff(c))
    BY <1>3 DEF Answering
  <2>3. Reads(rd[e], Available(e), msg, len, <<>>, BrokenOff(c)')
    BY <2>2, ReadsBroken
  <2>4. Reads(rd'[e], Available(e)', msg, len, <<>>, BrokenOff(c)') /\ Replied(c, len)'
    BY <1>1, <2>2, <2>3
  <2> QED BY <2>1, <2>4 DEF Answering
<1> QED BY <1>2, <1>3

\* What the client knows when serve_connection returns without an answer.
LEMMA ClientOfReturned ==
  ASSUME NEW c \in Conns, host[c] \notin Foreign, SameEnd(CEnd(c)), srv'[c].phase = "returned",
         UNCHANGED <<host, asked, handled>>
  PROVE  ClientKept(c)
<1>1. ServerQuiet(c)' /\ ~BrokenOff(c) /\ Silent(c)' = Silent(c)
      /\ \A len : Replied(c, len)' = Replied(c, len)
  BY DEF ServerQuiet, BrokenOff, Silent, Replied, SameEnd
<1>2. \A id : Unanswered(c, id) => Unanswered(c, id)'
  BY <1>1 DEF Unanswered
<1>3. /\ \A id : Answered(c, id) => Answered(c, id)'
      /\ \A msg : Answering(c, msg) => Answering(c, msg)'
  BY <1>1, ClientView
<1> QED BY <1>1, <1>2, <1>3 DEF ClientKept, Waits, Resting

\* serve_connection returns before it has given the handler anything.
LEMMA ServerGone ==
  ASSUME HttpInv, NEW c \in Conns, Serving(c, "head"), ServerReturns(c),
         UNCHANGED <<wire, handled, task, idle, host, client, messages, asked, result>>
  PROVE  HttpInv'
<1>1. HandledInOrder(c)'
  BY DEF HttpInv, ServerSide, HandledInOrder
<1>2. /\ ServerSide(c)' /\ open'[CEnd(c)] = open[CEnd(c)]
      /\ open' \in [Ends -> BOOLEAN] /\ buf' \in [Ends -> Seq(Units)] /\ rd' \in [Ends -> Readers]
      /\ srv' \in [Conns -> Servers] /\ srv'[c].phase = "returned" /\ host[c] \in Authorities \ Foreign
      /\ \A x \in Ends \ {SEnd(c)} : buf'[x] = buf[x] /\ rd'[x] = rd[x] /\ open'[x] = open[x]
      /\ \A d \in Conns \ {c} : srv'[d] = srv[d]
  BY <1>1, ReturnsKeep DEF Serving
<1>3. Types'
  BY <1>2 DEF HttpInv, Types
<1>4. \A d \in Conns \ {c} : SameConn(d)
  <2>1. \A x \in Ends \ {CEnd(c), SEnd(c)} : SameEnd(x)
    BY <1>2 DEF SameEnd
  <2> QED BY <1>2, <2>1, OneConn
<1>5. ClientKept(c)
  <2>1. SameEnd(CEnd(c))
    BY <1>2, TwoEnds DEF SameEnd
  <2> QED BY <1>2, <2>1, ClientOfReturned
<1>6. Grown(c)
  BY <1>2 DEF Grown, Settled, Serving
<1> QED BY <1>2, <1>3, <1>4, <1>5, <1>6, ServerStep

-----------------------------------------------------------------------------
\* A unit alone is a sequence of units.
LEMMA ElementSeq == \A x \in Units : <<x>> \in Seq(Units)
OBVIOUS

\* A head that has arrived and is taken.
LEMMA FirstTwo ==
  ASSUME NEW b \in Seq(Units), Len(b) >= 2, NEW w \in Seq(Units)
  PROVE  /\ b[1] \in Units /\ b[2] \in Units /\ SubSeq(b, 3, Len(b)) \in Seq(Units)
         /\ SubSeq(b, 3, Len(b)) \o w \in Seq(Units)
         /\ b \o w = <<b[1]>> \o (<<b[2]>> \o (SubSeq(b, 3, Len(b)) \o w))
<1>1. Len(b) \in Nat /\ 0 \in 0..(Len(b) - 1) /\ 1 \in 0..(Len(b) - 1)
      /\ 0 + 1 = 1 /\ 0 + 2 = 2 /\ 1 + 1 = 2 /\ 1 + 2 = 3
  OBVIOUS
<1>2. b[1] \in Units /\ SubSeq(b, 2, Len(b)) \in Seq(Units)
      /\ SubSeq(b, 1, Len(b)) = <<b[1]>> \o SubSeq(b, 2, Len(b))
  <2>1. /\ b[0 + 1] \in Units /\ SubSeq(b, 0 + 2, Len(b)) \in Seq(Units)
        /\ SubSeq(b, 0 + 1, Len(b)) = <<b[0 + 1]>> \o SubSeq(b, 0 + 2, Len(b))
    BY <1>1, RestSeq
  <2> QED BY <1>1, <2>1
<1>3. b[2] \in Units /\ SubSeq(b, 3, Len(b)) \in Seq(Units)
      /\ SubSeq(b, 2, Len(b)) = <<b[2]>> \o SubSeq(b, 3, Len(b))
  <2>1. /\ b[1 + 1] \in Units /\ SubSeq(b, 1 + 2, Len(b)) \in Seq(Units)
        /\ SubSeq(b, 1 + 1, Len(b)) = <<b[1 + 1]>> \o SubSeq(b, 1 + 2, Len(b))
    BY <1>1, RestSeq
  <2> QED BY <1>1, <2>1
<1>4. SubSeq(b, 1, Len(b)) = b
  BY SubSeqFull
<1>5. PICK p \in Seq(Units) : p = <<b[1]>>
  BY <1>2, ElementSeq
<1>6. PICK q \in Seq(Units) : q = <<b[2]>>
  BY <1>3, ElementSeq
<1>7. PICK s \in Seq(Units) : s = SubSeq(b, 3, Len(b))
  BY <1>3
<1>8. s \o w \in Seq(Units)
  BY ConcatElements
<1>9. PICK r \in Seq(Units) : r = q \o s
  BY ConcatElements
<1>10. b = p \o r
  BY <1>2, <1>3, <1>4, <1>5, <1>6, <1>7, <1>9
<1>11. b \o w = p \o (q \o (s \o w))
  <2>1. (p \o r) \o w = p \o (r \o w)
    BY Assoc, ZenonT(60)
  <2>2. (q \o s) \o w = q \o (s \o w)
    BY Assoc, ZenonT(60)
  <2> QED BY <1>9, <1>10, <2>1, <2>2
<1> QED BY <1>2, <1>3, <1>5, <1>6, <1>7, <1>8, <1>11

\* When ParseHead finds a head, it is that of the message that was sent, and
\* dropping it leaves its body.
LEMMA HeadArrives ==
  ASSUME Bytes, NEW e \in Ends, ParseHead(buf[e]) = "head", NEW msg \in Heads, NEW len \in Nat,
         NEW rest \in Seq(Units), NEW broken, Arrives(Available(e), MessageUnits(msg, len) \o rest, broken)
  PROVE  /\ Len(buf[e]) >= 2 /\ buf[e][2].msg = msg
         /\ DropFront(e, 2) /\ UNCHANGED wire =>
              /\ Bytes' /\ OnlyAt(e) /\ Available(e)' \in Seq(Units)
              /\ Arrives(Available(e)', BodyUnits(msg, len) \o rest, broken)
<1> DEFINE b == buf[e]
           s == SubSeq(b, 3, Len(b))
           a == s \o wire[e]
           h == HeadUnits(msg)
           body == BodyUnits(msg, len)
           t == body \o rest
<1>1. b \in Seq(Units) /\ wire[e] \in Seq(Units)
  BY DEF Bytes
<1>2. Len(b) >= 2 /\ b[2].kind = "head"
  BY <1>1, HeadParsed
<1>3. /\ b[1] \in Units /\ b[2] \in Units /\ s \in Seq(Units) /\ a \in Seq(Units)
      /\ Available(e) = <<b[1]>> \o (<<b[2]>> \o a)
  <2> HIDE DEF b
  <2> QED BY <1>1, <1>2, FirstTwo DEF Available, b
<1>4. h \in Seq(Units) /\ Len(h) = 2 /\ body \in Seq(Units) /\ MessageUnits(msg, len) = h \o body
  BY HeadElements, BodyTypes
<1>5. h[1] \in Units /\ h[2] \in Units /\ h[2].msg = msg
  <2> HIDE DEF h
  <2>1. h \in Seq(Units) /\ 1 \in DOMAIN h /\ 2 \in DOMAIN h
    BY <1>4
  <2>2. h[1] \in Units /\ h[2] \in Units
    BY <2>1, SeqElement
  <2> QED BY <2>2, HeadElements DEF h
<1>6. t \in Seq(Units)
  <2> HIDE DEF body
  <2> QED BY <1>4, ConcatElements
<1>7. MessageUnits(msg, len) \o rest = <<h[1]>> \o (<<h[2]>> \o t)
  <2> HIDE DEF h, body
  <2>1. (h \o body) \o rest = h \o (body \o rest)
    BY <1>4, Assoc
  <2>2. h \o t = <<h[1]>> \o (<<h[2]>> \o (SubSeq(h, 3, Len(h)) \o t))
    <3>1. h \in Seq(Units) /\ Len(h) >= 2 /\ t \in Seq(Units)
      BY <1>4, <1>6
    <3> HIDE DEF t
    <3> QED BY <3>1, FirstTwo
  <2>3. SubSeq(h, 3, Len(h)) = <<>>
    <3>1. 2 \in 0..Len(h) /\ 2 + 1 = 3 /\ Len(h) - 2 = 0
      BY <1>4
    <3>2. SubSeq(h, 2 + 1, Len(h)) \in Seq(Units) /\ Len(SubSeq(h, 2 + 1, Len(h))) = Len(h) - 2
      BY <1>4, <3>1, CutSeq
    <3>3. SubSeq(h, 3, Len(h)) \in Seq(Units) /\ Len(SubSeq(h, 3, Len(h))) = 0
      BY <3>1, <3>2
    <3> QED BY <3>3
  <2>4. <<>> \o t = t
    BY <1>6, ConcatEmptySeq
  <2> QED BY <1>4, <2>1, <2>2, <2>3, <2>4
<1> HIDE DEF b, s, a, h, body, t
<1>8. <<b[2]>> \o a \in Seq(Units) /\ <<h[2]>> \o t \in Seq(Units)
  <2>1. <<b[2]>> \in Seq(Units) /\ <<h[2]>> \in Seq(Units)
    BY <1>3, <1>5
  <2> QED BY <1>3, <1>6, <2>1, ConcatElements
<1>9. Arrives(<<b[2]>> \o a, <<h[2]>> \o t, broken)
  <2> DEFINE p == <<b[2]>> \o a
             q == <<h[2]>> \o t
  <2>1. p \in Seq(Units) /\ q \in Seq(Units) /\ Arrives(<<b[1]>> \o p, <<h[1]>> \o q, broken)
    BY <1>3, <1>7, <1>8
  <2> HIDE DEF p, q
  <2>2. Arrives(p, q, broken)
    BY <1>3, <1>5, <2>1, ArrivesTake
  <2> QED BY <2>2 DEF p, q
<1>10. h[2] = b[2] /\ Arrives(a, t, broken)
  BY <1>3, <1>5, <1>6, <1>9, ArrivesTake
<1>11. ASSUME DropFront(e, 2), UNCHANGED wire PROVE Bytes' /\ OnlyAt(e) /\ Available(e)' = a
  <2>1. buf' = [buf EXCEPT ![e] = s]
    BY <1>11 DEF DropFront, s, b
  <2>2. buf'[e] = s /\ OnlyAt(e)
    BY <1>11, <2>1 DEF OnlyAt, Bytes
  <2>3. Bytes'
    BY <1>3, <1>11, <2>1 DEF Bytes
  <2> QED BY <1>11, <2>2, <2>3 DEF Available, a
<1> QED BY <1>2, <1>3, <1>5, <1>10, <1>11 DEF b, t, body

-----------------------------------------------------------------------------
\* The reader a head calls for.
KindFits(k, msg) ==
  /\ k.kind \in {"empty", "length", "chunked", "eof", "error"} /\ k.left \in Nat
  /\ k.kind \in {"length", "eof"} => msg.te # "chunked"
  /\ k.kind = "chunked" => msg.te = "chunked"

\* A request's body never ends with the connection.
LEMMA RequestKind ==
  ASSUME NEW msg \in RequestHeads
  PROVE  KindFits(RequestBodyKind(msg), msg) /\ RequestBodyKind(msg).kind # "eof"
<1>1. msg.cl \in Nat
  BY DEF RequestHeads
<1> QED BY <1>1 DEF KindFits, RequestBodyKind, ContentLengthKind, TransferEncodingKind

\* How a response's body is framed.
LEMMA ResponseKind ==
  ASSUME NEW msg \in ResponseHeads
  PROVE  KindFits(ResponseBodyKind(msg, FALSE), msg)
<1>1. msg.cl \in Nat
  BY DEF ResponseHeads
<1> QED BY <1>1 DEF KindFits, ResponseBodyKind, ContentLengthKind, TransferEncodingKind

\* BodyReader::new stands at the beginning of the body.
LEMMA ReaderStarts ==
  ASSUME NEW msg \in Heads, NEW len \in Nat, NEW k, KindFits(k, msg), k.kind # "error", Fits(k, msg, len),
         NEW max \in Nat, NEW r,
         r = Reader(k, max) \/ r = [Reader(k, max) EXCEPT !.state = "off"]
  PROVE  /\ r \in Readers /\ r.kind = k.kind /\ r.out = <<>> /\ r.state \in {"off", "reading"}
         /\ \A a, rest, broken : Arrives(a, BodyUnits(msg, len) \o rest, broken)
                                  => Reads(r, a, msg, len, rest, broken)
<1> DEFINE body == BodyUnits(msg, len)
<1>1. r = [kind |-> k.kind, left |-> k.left, chunk |-> 0, need |-> "none", state |-> r.state,
           out |-> <<>>, max |-> max] /\ r.state \in {"off", "reading"}
  BY DEF Reader, NoReader
<1>2. r.kind = k.kind /\ r.left = k.left /\ r.chunk = 0 /\ r.need = "none" /\ r.out = <<>>
  BY <1>1
<1>3. r \in Readers
  <2>1. <<>> \in Seq(Units)
    OBVIOUS
  <2>2. [kind |-> k.kind, left |-> k.left, chunk |-> 0, need |-> "none", state |-> r.state,
         out |-> <<>>, max |-> max] \in Readers
    BY <1>1, <2>1 DEF Readers, KindFits
  <2> QED BY <1>1, <2>2
<1>4. Len(r.out) = 0
  BY <1>2
<1>5. Taken(r, msg, len)
  <2>1. msg.id \in Nat
    BY HeadId
  <2>2. DataUnits(msg.id, 0) \in Seq(Units) /\ Len(DataUnits(msg.id, 0)) = 0
    BY <2>1, DataElements
  <2>3. DataUnits(msg.id, 0) = <<>>
    BY <2>2
  <2> QED BY <1>2, <1>4, <2>3 DEF Taken
<1>6. Stands(r, msg, len, 0)
  BY <1>1, <1>2, <1>4 DEF Stands, Fits, KindFits
<1>7. ASSUME NEW a, NEW rest, NEW broken, Arrives(a, BodyUnits(msg, len) \o rest, broken)
      PROVE  Before(r, a, msg, len, rest, broken)
  <2>1. body \in Seq(Units) /\ Len(body) \in Nat /\ 0 \in 0..Len(body) /\ 0 + 1 = 1
    BY BodyTypes
  <2>2. SubSeq(body, 0 + 1, Len(body)) = body
    <3> HIDE DEF body
    <3> QED BY <2>1, SubSeqFull
  <2>3. r.state # "finished"
    BY <1>1
  <2> QED BY <1>6, <1>7, <2>1, <2>2, <2>3 DEF Before
<1> QED BY <1>1, <1>2, <1>3, <1>5, <1>7 DEF Reads

-----------------------------------------------------------------------------
\* A step of the server's end that reads: nothing else changes.
LEMMA ClientUnaware ==
  ASSUME NEW c \in Conns, host[c] \notin Foreign, SameEnd(CEnd(c)),
         UNCHANGED <<srv, host, asked, handled>>
  PROVE  ClientKept(c) /\ Grown(c)
<1>1. /\ ServerQuiet(c)' = ServerQuiet(c) /\ ~BrokenOff(c) /\ Silent(c)' = Silent(c)
      /\ \A len : Replied(c, len)' = Replied(c, len)
  BY DEF ServerQuiet, BrokenOff, Silent, Replied, SameEnd
<1>2. \A id : Unanswered(c, id) => Unanswered(c, id)'
  BY <1>1 DEF Unanswered
<1>3. /\ \A id : Answered(c, id) => Answered(c, id)'
      /\ \A msg : Answering(c, msg) => Answering(c, msg)'
  BY <1>1, ClientView
<1>4. Grown(c)
  BY DEF Grown, Settled
<1> QED BY <1>1, <1>2, <1>3, <1>4 DEF ClientKept, Waits, Resting

\* A step that only reads at the server's end keeps the invariant if that end
\* stays in step.
LEMMA ServerReads ==
  ASSUME HttpInv, NEW c \in Conns, srv[c].phase \in {"head", "handle"},
         Bytes', OnlyAt(SEnd(c)), rd' \in [Ends -> Readers],
         \A x \in Ends \ {SEnd(c)} : rd'[x] = rd[x], ServesInStep(c)',
         UNCHANGED <<open, srv, handled, task, idle, host, client, messages, asked, result>>
  PROVE  HttpInv'
<1>1. host[c] \in Authorities \ Foreign /\ host[c] # 0
  BY ServedHost, HttpAssumption
<1>2. Types'
  BY DEF HttpInv, Types, Bytes
<1>3. \A x \in Ends \ {SEnd(c)} : SameEnd(x)
  BY DEF OnlyAt, SameEnd
<1>4. \A d \in Conns \ {c} : SameConn(d)
  <2>1. \A x \in Ends \ {CEnd(c), SEnd(c)} : SameEnd(x)
    BY <1>3
  <2> QED BY <2>1, OneConn
<1>5. ClientKept(c) /\ Grown(c)
  <2>1. SameEnd(CEnd(c))
    BY <1>3, TwoEnds
  <2> QED BY <1>1, <2>1, ClientUnaware
<1>6. ServerSide(c)'
  <2>1. Connected(c) /\ HandledInOrder(c)
    BY DEF HttpInv, ServerSide
  <2>2. HandledInOrder(c)'
    BY <2>1 DEF HandledInOrder
  <2>3. srv[c].phase # "handle" => rd'[SEnd(c)] = NoReader
    BY DEF ServesInStep
  <2>4. Connected(c)'
    BY <1>1, <2>1, <2>3 DEF Connected
  <2> QED BY <2>2, <2>4 DEF ServerSide
<1> QED BY <1>2, <1>4, <1>5, <1>6, ServerStep

\* More bytes for the head.
LEMMA ServerFills ==
  ASSUME HttpInv, NEW c \in Conns, Serving(c, "head"), Fill(SEnd(c)),
         UNCHANGED <<open, rd, srv, handled, task, idle, host, client, messages, asked, result>>
  PROVE  HttpInv'
<1> DEFINE e == SEnd(c)
<1>1. Bytes' /\ OnlyAt(e) /\ Available(e)' = Available(e)
  <2>1. Bytes /\ e \in Ends
    BY TwoEnds DEF HttpInv, Types, Bytes
  <2> HIDE DEF e
  <2> QED BY <2>1, FillKeeps DEF e
<1>2. ServesInStep(c)'
  <2>1. rd[e] = NoReader /\ srv[c].phase = "head"
    BY DEF Serving, HttpInv, ServerSide, ServesInStep
  <2>2. PICK w \in Seq(Units) :
          Queued(asked[c], Len(handled[c]), w) /\ Arrives(Available(e), w, ~open[CEnd(c)])
    BY DEF Serving, HttpInv, ServerSide, ServesInStep
  <2>3. Arrives(Available(e)', w, ~open[CEnd(c)])
    BY <1>1, <2>2
  <2> QED BY <2>1, <2>2, <2>3 DEF ServesInStep
<1>3. rd' \in [Ends -> Readers]
  BY DEF HttpInv, Types
<1> QED BY <1>1, <1>2, <1>3, ServerReads DEF Serving

\* The handler's first read.
Opened(r, max) == [r EXCEPT !.state = "reading", !.max = max]

\* Opening the body does not move the reader.
LEMMA ReaderOpens ==
  ASSUME NEW r \in Readers, NEW max \in Nat, r.state = "off", NEW s, s = Opened(r, max)
  PROVE  /\ s \in Readers /\ s.kind = r.kind /\ s.state = "reading"
         /\ \A a, msg, len, rest, broken :
              Reads(r, a, msg, len, rest, broken) => Reads(s, a, msg, len, rest, broken)
<1>1. /\ s.kind = r.kind /\ s.left = r.left /\ s.chunk = r.chunk /\ s.need = r.need
      /\ s.out = r.out /\ s.state = "reading"
  BY DEF Readers, Opened
<1>2. s \in Readers
  BY DEF Readers, Opened
<1>3. ASSUME NEW a, NEW msg, NEW len, NEW rest, NEW broken, Reads(r, a, msg, len, rest, broken)
      PROVE  Reads(s, a, msg, len, rest, broken)
  <2>1. Taken(s, msg, len) /\ Before(r, a, msg, len, rest, broken)
    BY <1>1, <1>3 DEF Reads, Taken
  <2>2. \A q : Stands(r, msg, len, q) => Stands(s, msg, len, q)
    BY <1>1 DEF Stands
  <2>3. Before(s, a, msg, len, rest, broken)
    BY <1>1, <2>1, <2>2 DEF Before
  <2> QED BY <2>1, <2>3 DEF Reads
<1> QED BY <1>1, <1>2, <1>3

\* What serve_connection has before it while the handler works.
HandsOver(c, w) ==
  /\ Queued(asked[c], Len(handled[c]), w)
  /\ Reads(rd[SEnd(c)], Available(SEnd(c)), srv[c].head, asked[c][Len(handled[c])].len, w, ~open[CEnd(c)])

\* What is known of the request in hand.
LEMMA InHand ==
  ASSUME HttpInv, NEW c \in Conns, srv[c].phase = "handle"
  PROVE  /\ Len(handled[c]) \in 1..Len(asked[c]) /\ srv[c].head \in RequestHeads
         /\ srv[c].head.id = asked[c][Len(handled[c])].id
         /\ asked[c][Len(handled[c])].len \in Nat /\ rd[SEnd(c)] \in Readers
         /\ asked[c] \in Asks /\ handled[c] \in Seq(Hand) /\ SEnd(c) \in Ends
         /\ rd[SEnd(c)].kind \notin {"eof", "error"}
         /\ \E w \in Seq(Units) : HandsOver(c, w)
<1>1. /\ asked[c] \in Asks /\ handled[c] \in Seq(Hand) /\ SEnd(c) \in Ends
      /\ rd[SEnd(c)] \in Readers
  BY TwoEnds DEF HttpInv, Types
<1>2. ServesInStep(c) /\ HandledInOrder(c)
  BY DEF HttpInv, ServerSide
<1>3. Len(handled[c]) \in 1..Len(asked[c])
  <2>1. Len(handled[c]) \in Nat /\ Len(asked[c]) \in Nat
    BY <1>1 DEF Asks
  <2> QED BY <1>2, <2>1 DEF ServesInStep, HandledInOrder
<1>4. asked[c][Len(handled[c])].len \in Nat
  BY <1>1, <1>3, AskTypes
<1> QED BY <1>1, <1>2, <1>3, <1>4 DEF ServesInStep, HandsOver

\* The handler asks for the body.
LEMMA HandlerOpens ==
  ASSUME HttpInv, NEW c \in Conns, NEW max \in BodyLimits, HandlerReadsBody(c, max)
  PROVE  HttpInv'
<1> DEFINE e == SEnd(c)
           s == Opened(rd[e], max)
<1>1. srv[c].phase = "handle" /\ rd[e].state = "off" /\ max \in Nat
  BY HttpAssumption DEF HandlerReadsBody, Serving
<1>2. PICK w \in Seq(Units) : HandsOver(c, w)
  BY <1>1, InHand
<1>3. rd' = [rd EXCEPT ![e] = s]
  BY DEF HandlerReadsBody, Opened
<1>4. /\ s \in Readers /\ s.kind = rd[e].kind /\ s.state = "reading"
      /\ Reads(s, Available(e), srv[c].head, asked[c][Len(handled[c])].len, w, ~open[CEnd(c)])
  <2>1. PICK r \in Readers : r = rd[e]
    BY <1>1, InHand
  <2>2. Reads(r, Available(e), srv[c].head, asked[c][Len(handled[c])].len, w, ~open[CEnd(c)])
    BY <1>2, <2>1 DEF HandsOver
  <2>3. PICK m \in Nat : m = max
    BY <1>1
  <2>4. PICK x : x = Opened(r, m) /\ r.state = "off"
    BY <1>1, <2>1
  <2>5. /\ x \in Readers /\ x.kind = r.kind /\ x.state = "reading"
        /\ \A a, msg, len, rest, broken :
             Reads(r, a, msg, len, rest, broken) => Reads(x, a, msg, len, rest, broken)
    BY <2>4, ReaderOpens
  <2> HIDE DEF e
  <2>6. Reads(x, Available(e), srv[c].head, asked[c][Len(handled[c])].len, w, ~open[CEnd(c)])
    BY <2>2, <2>5
  <2> QED BY <2>1, <2>3, <2>4, <2>5, <2>6
<1>5. e \in Ends /\ rd \in [Ends -> Readers]
  BY <1>1, InHand DEF HttpInv, Types
<1>6. rd' \in [Ends -> Readers] /\ rd'[e] = s /\ \A x \in Ends \ {e} : rd'[x] = rd[x]
  BY <1>3, <1>4, <1>5
<1>7. Available(e)' = Available(e)
  BY DEF HandlerReadsBody, Available
<1> HIDE DEF s, e
<1>8. UNCHANGED <<wire, open, buf, srv, task, idle, host, client, messages, asked, handled, result>>
  BY DEF HandlerReadsBody, hist
<1>9. Reads(rd'[e], Available(e)', srv[c].head, asked[c][Len(handled[c])].len, w, ~open[CEnd(c)])
  BY <1>4, <1>6, <1>7
<1>10. ServesInStep(c)'
  <2>1. Len(handled[c]) > 0
    BY <1>1, InHand
  <2> QED BY <1>1, <1>2, <1>4, <1>6, <1>8, <1>9, <2>1, InHand DEF ServesInStep, HandsOver, e
<1>11. Bytes' /\ OnlyAt(e)
  BY <1>8 DEF HttpInv, Types, Bytes, OnlyAt
<1> QED BY <1>1, <1>6, <1>8, <1>10, <1>11, ServerReads DEF e

\* The handler reads a piece of the body.
LEMMA HandlerReads ==
  ASSUME HttpInv, NEW c \in Conns, ReadBody(SEnd(c))
  PROVE  HttpInv'
<1> DEFINE e == SEnd(c)
<1>1. rd[e].state = "reading" /\ ReadStep(e)
      /\ UNCHANGED <<open, srv, task, idle, host, client, messages, asked, handled, result>>
  BY DEF ReadBody, Reading, ReadStep, hist
<1>2. srv[c].phase = "handle"
  BY <1>1 DEF HttpInv, ServerSide, Connected, NoReader
<1>3. PICK w \in Seq(Units) : HandsOver(c, w)
  BY <1>2, InHand
<1>4. srv[c].head \in Heads /\ Bytes /\ rd \in [Ends -> Readers] /\ rd[e].kind \notin {"eof", "error"}
  BY <1>2, InHand DEF Heads, HttpInv, Types, Bytes
<1> HIDE DEF e
<1>5. PICK msg \in Heads, len \in Nat, broken \in BOOLEAN :
        msg = srv[c].head /\ len = asked[c][Len(handled[c])].len /\ broken = ~open[CEnd(c)]
  BY <1>2, <1>4, InHand
<1>6. /\ Bytes' /\ OnlyAt(e) /\ rd' \in [Ends -> Readers]
      /\ \A x \in Ends \ {e} : rd'[x] = rd[x]
      /\ rd'[e].kind = rd[e].kind /\ rd'[e].state # "off"
      /\ Reads(rd'[e], Available(e)', msg, len, w, broken)
  <2>1. Reads(rd[e], Available(e), msg, len, w, broken) /\ e \in Ends
    BY <1>2, <1>3, <1>5, InHand DEF HandsOver, e
  <2> QED BY <1>1, <1>4, <2>1, ReadBodyKeeps
<1>7. ServesInStep(c)'
  <2>1. Len(handled[c]) > 0
    BY <1>2, InHand
  <2> QED BY <1>1, <1>2, <1>3, <1>4, <1>5, <1>6, <2>1, InHand DEF ServesInStep, HandsOver, e
<1> QED BY <1>1, <1>2, <1>6, <1>7, ServerReads DEF e

-----------------------------------------------------------------------------
\* The next request: what was asked first of what has not been handled.
LEMMA AnswerIsLast ==
  ASSUME NEW c \in Conns, host[c] \notin Foreign, Len(handled[c]) # Len(asked[c]) \/ srv[c].phase = "handle",
         srv[c].phase \in {"head", "handle"}
  PROVE  ~ServerQuiet(c)
BY DEF ServerQuiet

\* The request at the front of what has arrived at the server.
LEMMA HeadIsNext ==
  ASSUME HttpInv, NEW c \in Conns, Serving(c, "head"), ParseHead(buf[SEnd(c)]) = "head"
  PROVE  LET n == Len(handled[c])
             e == SEnd(c)
             head == buf[e][2].msg
         IN  /\ n \in Nat /\ n < Len(asked[c]) /\ n + 1 \in 1..Len(asked[c])
             /\ head \in RequestHeads /\ head.id = asked[c][n + 1].id
             /\ Fits(RequestBodyKind(head), head, asked[c][n + 1].len)
             /\ DropFront(e, 2) /\ UNCHANGED wire => Bytes' /\ OnlyAt(e) /\ Available(e)' \in Seq(Units)
             /\ \E v \in Seq(Units) :
                  /\ Queued(asked[c], n + 1, v)
                  /\ DropFront(e, 2) /\ UNCHANGED wire =>
                       Arrives(Available(e)', BodyUnits(head, asked[c][n + 1].len) \o v, ~open[CEnd(c)])
<1> DEFINE e == SEnd(c)
           n == Len(handled[c])
           reqs == asked[c]
           broken == ~open[CEnd(c)]
<1>1. /\ Bytes /\ e \in Ends /\ reqs \in Asks /\ n \in Nat /\ Len(reqs) \in Nat /\ n <= Len(reqs)
      /\ buf[e] \in Seq(Units) /\ wire[e] \in Seq(Units)
  <2>1. Bytes /\ e \in Ends /\ reqs \in Asks /\ n \in Nat
    BY TwoEnds DEF HttpInv, Types, Bytes
  <2>2. n <= Len(reqs)
    BY DEF HttpInv, ServerSide, HandledInOrder
  <2> QED BY <2>1, <2>2 DEF Asks, Bytes
<1>2. PICK w \in Seq(Units) : Queued(reqs, n, w) /\ Arrives(Available(e), w, broken)
  BY DEF Serving, HttpInv, ServerSide, ServesInStep
<1>3. Available(e) \in Seq(Units) /\ Available(e) # <<>>
  <2>1. Len(buf[e]) >= 2
    <3> HIDE DEF e
    <3> QED BY <1>1, HeadParsed DEF e
  <2>2. buf[e] # <<>>
    BY <1>1, <2>1
  <2>3. buf[e] \o wire[e] \in Seq(Units)
    BY <1>1, ConcatElements
  <2>4. buf[e] \o wire[e] # <<>>
    BY <1>1, <2>2, ConcatSimplifications
  <2> QED BY <2>3, <2>4 DEF Available
<1> HIDE DEF e, n, reqs, broken
<1>4. n < Len(reqs)
  <2> SUFFICES ASSUME n = Len(reqs) PROVE FALSE
    BY <1>1
  <2>1. w = <<>>
    BY <1>1, <1>2, QueuedNothing
  <2>2. Arrives(Available(e), <<>>, broken)
    BY <1>2, <2>1
  <2> QED BY <1>3, <2>2, ArrivesNothing
<1>5. n + 1 \in 1..Len(reqs)
  BY <1>1, <1>4
<1>6. PICK msg \in RequestHeads, v \in Seq(Units) :
        /\ msg.id = reqs[n + 1].id /\ Fits(RequestBodyKind(msg), msg, reqs[n + 1].len)
        /\ w = MessageUnits(msg, reqs[n + 1].len) \o v
        /\ Queued(reqs, n + 1, v)
  BY <1>1, <1>2, <1>4, QueuedFirst
<1>7. PICK len \in Nat : len = reqs[n + 1].len
  BY <1>1, <1>5, AskTypes
<1>8. msg \in Heads
  BY DEF Heads
<1>9. /\ Len(buf[e]) >= 2 /\ buf[e][2].msg = msg
      /\ DropFront(e, 2) /\ UNCHANGED wire =>
           /\ Bytes' /\ OnlyAt(e) /\ Available(e)' \in Seq(Units)
           /\ Arrives(Available(e)', BodyUnits(msg, len) \o v, broken)
  <2>1. Arrives(Available(e), MessageUnits(msg, len) \o v, broken)
    BY <1>2, <1>6, <1>7
  <2>2. ParseHead(buf[e]) = "head"
    BY DEF e
  <2> QED BY <1>1, <1>8, <2>1, <2>2, HeadArrives
<1> QED BY <1>1, <1>4, <1>5, <1>6, <1>7, <1>9 DEF e, n, reqs, broken

\* What is noted of a request when it is given to the handler.
Given(head) == [id |-> head.id, body |-> <<>>, reply |-> None]

\* A request is given to the handler: it is the next one that was asked.
LEMMA ServerTakesHead ==
  ASSUME HttpInv, NEW c \in Conns, Serving(c, "head"), ParseHead(buf[SEnd(c)]) = "head",
         NEW head, head = buf[SEnd(c)][2].msg, RequestBodyKind(head).kind # "error",
         DropFront(SEnd(c), 2),
         rd' = [rd EXCEPT ![SEnd(c)] = [Reader(RequestBodyKind(head), 0) EXCEPT !.state = "off"]],
         srv' = [srv EXCEPT ![c] = [phase |-> "handle", head |-> head]],
         handled' = [handled EXCEPT ![c] = Append(@, Given(head))],
         UNCHANGED <<wire, open, task, idle, host, client, messages, asked, result>>
  PROVE  HttpInv'
<1> DEFINE e == SEnd(c)
           n == Len(handled[c])
           reqs == asked[c]
           broken == ~open[CEnd(c)]
           h == handled[c]
<1>1. /\ n \in Nat /\ n < Len(reqs) /\ n + 1 \in 1..Len(reqs)
      /\ head \in RequestHeads /\ head.id = reqs[n + 1].id
      /\ Fits(RequestBodyKind(head), head, reqs[n + 1].len)
      /\ Bytes' /\ OnlyAt(e) /\ Available(e)' \in Seq(Units)
  BY HeadIsNext
<1>2. PICK v \in Seq(Units) :
        /\ Queued(reqs, n + 1, v)
        /\ Arrives(Available(e)', BodyUnits(head, reqs[n + 1].len) \o v, broken)
  BY HeadIsNext
<1>3. e \in Ends /\ reqs \in Asks /\ h \in Seq(Hand) /\ Types
  BY TwoEnds DEF HttpInv, Types
<1>4. PICK msg \in RequestHeads, len \in Nat :
        msg = head /\ len = reqs[n + 1].len /\ len \in Lengths /\ msg \in Heads /\ msg.id \in Nat
  BY <1>1, <1>3, AskTypes, HeadId DEF Heads
<1>5. PICK r : r = [Reader(RequestBodyKind(head), 0) EXCEPT !.state = "off"]
  OBVIOUS
<1>6. /\ r \in Readers /\ r.kind = RequestBodyKind(head).kind /\ r.out = <<>>
      /\ Reads(r, Available(e)', msg, len, v, broken)
  <2>1. KindFits(RequestBodyKind(head), msg)
    BY <1>4, RequestKind
  <2>2. Arrives(Available(e)', BodyUnits(msg, len) \o v, broken)
    BY <1>2, <1>4
  <2> HIDE DEF e, broken
  <2>3. PICK k : k = RequestBodyKind(head)
    OBVIOUS
  <2>4. KindFits(k, msg) /\ k.kind # "error" /\ Fits(k, msg, len) /\ msg \in Heads
    BY <1>1, <1>4, <2>1, <2>3
  <2>5. r = [Reader(k, 0) EXCEPT !.state = "off"]
    BY <1>5, <2>3
  <2>6. /\ r \in Readers /\ r.kind = k.kind /\ r.out = <<>>
        /\ \A a, rest, lost : Arrives(a, BodyUnits(msg, len) \o rest, lost)
                                => Reads(r, a, msg, len, rest, lost)
    BY <2>4, <2>5, ReaderStarts, SMTT(30)
  <2> QED BY <2>2, <2>3, <2>6
<1>7. r.kind \notin {"eof", "error"}
  BY <1>1, <1>6, RequestKind
<1>8. /\ rd' \in [Ends -> Readers] /\ rd'[e] = r /\ \A x \in Ends \ {e} : rd'[x] = rd[x]
  BY <1>3, <1>5, <1>6 DEF Types
<1>9. /\ srv' \in [Conns -> Servers] /\ srv'[c].phase = "handle" /\ srv'[c].head = msg
      /\ \A d \in Conns \ {c} : srv'[d] = srv[d]
  <2>1. [phase |-> "handle", head |-> head] \in Servers
    BY <1>1 DEF Servers
  <2> QED BY <1>3, <1>4, <2>1 DEF Types
<1>10. /\ handled' \in [Conns -> Seq(Hand)] /\ handled'[c] = Append(h, Given(head))
       /\ Len(handled'[c]) = n + 1 /\ \A d \in Conns \ {c} : handled'[d] = handled[d]
       /\ \A i \in 1..n : handled'[c][i] = h[i]
       /\ handled'[c][n + 1] = Given(head)
  <2>1. Given(head) \in Hand
    <3>1. <<>> \in Seq(Units) /\ None \in Nat
      BY DEF None
    <3> QED BY <1>4, <3>1 DEF Given, Hand
  <2>2. /\ Append(h, Given(head)) \in Seq(Hand) /\ Len(Append(h, Given(head))) = n + 1
        /\ \A i \in 1..n : Append(h, Given(head))[i] = h[i]
        /\ Append(h, Given(head))[n + 1] = Given(head)
    BY <1>3, <2>1, AppendProperties
  <2>3. /\ handled' \in [Conns -> Seq(Hand)] /\ handled'[c] = Append(h, Given(head))
        /\ \A d \in Conns \ {c} : handled'[d] = handled[d]
    BY <1>3, <2>2 DEF Types
  <2> QED BY <2>2, <2>3
<1>11. host[c] \in Authorities \ Foreign /\ host[c] # 0 /\ open[e] /\ srv[c].phase = "head"
  BY ServedHost, HttpAssumption DEF Serving
<1> HIDE DEF e, n, reqs, broken, h
<1>12. Types'
  BY <1>1, <1>3, <1>8, <1>9, <1>10 DEF Types, Bytes
<1>13. ServerSide(c)'
  <2>1. Connected(c)'
    BY <1>9, <1>11 DEF Connected, e
  <2>2. HandledInOrder(c)'
    <3>1. HandledInOrder(c)
      BY DEF HttpInv, ServerSide
    <3>2. ASSUME NEW i \in 1..(n + 1)
          PROVE  LET x == handled'[c][i]
                 IN  /\ x.id = reqs[i].id
                     /\ x.body = DataUnits(x.id, Len(x.body)) /\ Len(x.body) <= reqs[i].len
      <4>1. CASE i \in 1..n
        BY <1>10, <3>1, <4>1 DEF HandledInOrder, n, h, reqs
      <4>2. CASE i = n + 1
        <5>1. handled'[c][i].id = msg.id /\ handled'[c][i].body = <<>>
          BY <1>4, <1>10, <4>2 DEF Given
        <5>2. DataUnits(msg.id, 0) = <<>>
          <6>1. DataUnits(msg.id, 0) \in Seq(Units) /\ Len(DataUnits(msg.id, 0)) = 0
            BY <1>4, DataElements
          <6> QED BY <6>1
        <5>3. Len(<<>>) = 0 /\ 0 <= len
          BY <1>4
        <5> QED BY <1>1, <1>4, <4>2, <5>1, <5>2, <5>3
      <4>3. i \in 1..n \/ i = n + 1
        BY <1>1
      <4> QED BY <4>1, <4>2, <4>3
    <3>3. Len(handled'[c]) <= Len(reqs)
      BY <1>1, <1>10
    <3> QED BY <1>10, <3>2, <3>3 DEF HandledInOrder, reqs
  <2>3. ServesInStep(c)'
    <3>1. Queued(asked'[c], Len(handled'[c]), v) /\ Len(handled'[c]) > 0
      BY <1>1, <1>2, <1>10 DEF reqs
    <3>2. Reads(rd'[e], Available(e)', srv'[c].head, asked'[c][Len(handled'[c])].len, v, ~open'[CEnd(c)])
      BY <1>4, <1>6, <1>8, <1>9, <1>10 DEF reqs, broken
    <3>3. srv'[c].head \in RequestHeads /\ srv'[c].head.id = asked'[c][Len(handled'[c])].id
      BY <1>1, <1>4, <1>9, <1>10 DEF reqs
    <3>4. rd'[e].kind \notin {"eof", "error"} /\ rd'[e].out = <<>>
      BY <1>6, <1>7, <1>8
    <3> QED BY <1>9, <3>1, <3>2, <3>3, <3>4 DEF ServesInStep, e
  <2> QED BY <2>1, <2>2, <2>3 DEF ServerSide
<1>14. \A d \in Conns \ {c} : SameConn(d)
  <2>1. \A x \in Ends \ {CEnd(c), SEnd(c)} : SameEnd(x)
    BY <1>1, <1>8 DEF OnlyAt, SameEnd, e
  <2> QED BY <1>9, <1>10, <2>1, OneConn
<1>15. ClientKept(c)
  <2>1. ~ServerQuiet(c)
    BY <1>1, <1>11 DEF ServerQuiet, n, reqs
  <2>2. SameEnd(CEnd(c))
    BY <1>1, <1>8, TwoEnds DEF OnlyAt, SameEnd, e
  <2>3. \A id : Unanswered(c, id) => Unanswered(c, id)'
    <3>1. Len(handled[c]) + 1 = Len(asked[c]) => Len(handled'[c]) = Len(asked'[c])
      BY <1>10 DEF n
    <3>2. Silent(c) => Silent(c)'
      BY <2>2 DEF Silent, SameEnd
    <3> QED BY <1>9, <1>11, <3>1, <3>2 DEF Unanswered
  <2> QED BY <2>1, <2>3 DEF ClientKept, Waits, Resting, Answered, Answering
<1>16. Grown(c)
  <2>1. ASSUME NEW i \in 1..Len(asked[c]), NEW m \in Nat, Settled(c, i, m) PROVE Settled(c, i, m)'
    <3>1. i \in 1..n /\ handled[c][i].reply = m
      BY <1>1, <1>11, <2>1 DEF Settled, n
    <3> QED BY <1>1, <1>10, <3>1 DEF Settled, n, h
  <2> QED BY <2>1 DEF Grown
<1> QED BY <1>12, <1>13, <1>14, <1>15, <1>16, ServerStep

\* read_request_head, whatever it finds.
LEMMA HeadServed ==
  ASSUME HttpInv, NEW c \in Conns, ServeHead(c)
  PROVE  HttpInv'
<1> DEFINE e == SEnd(c)
           head == buf[e][2].msg
<1>1. CASE ServerReturns(c) /\ UNCHANGED <<wire, handled>>
  BY <1>1, ServerGone DEF ServeHead
<1>2. CASE /\ ParseHead(buf[e]) = "head" /\ RequestBodyKind(head).kind # "error"
           /\ DropFront(e, 2)
           /\ rd' = [rd EXCEPT ![e] = [Reader(RequestBodyKind(head), 0) EXCEPT !.state = "off"]]
           /\ srv' = [srv EXCEPT ![c] = [phase |-> "handle", head |-> head]]
           /\ handled' = [handled EXCEPT ![c] = Append(@, [id |-> head.id, body |-> <<>>, reply |-> None])]
           /\ UNCHANGED <<wire, open>>
  BY <1>2, ServerTakesHead DEF ServeHead, Given
<1>3. CASE ParseHead(buf[e]) = "more" /\ Fill(e) /\ UNCHANGED <<open, rd, srv, handled>>
  BY <1>3, ServerFills DEF ServeHead
<1> QED BY <1>1, <1>2, <1>3 DEF ServeHead

-----------------------------------------------------------------------------
\* The strings the model uses are text.
LEMMA Texts ==
  /\ "" \in Text /\ "none" \in Text /\ "GET" \in Text /\ "" # "HEAD"
  /\ \A s \in STRING : s \in Text
BY Zenon DEF Text

\* The answer, and what its body's reader has left behind.
LEMMA ResponseRendered ==
  ASSUME NEW r \in Responses, NEW id \in Nat
  PROVE  /\ RenderHead(id, r) \in ResponseHeads /\ RenderHead(id, r) \in Heads
         /\ RenderHead(id, r).id = id /\ RenderHead(id, r).wellformed
         /\ r.len \in Lengths /\ r.len \in Nat
         /\ Fits(ResponseBodyKind(RenderHead(id, r), FALSE), RenderHead(id, r), r.len)
<1>1. /\ r.status \in Nat /\ r.len \in 0..999 /\ r.location \in Locations /\ r.connection \in Text
      /\ r.status \in Bodyless => r.len = 0
  <2>1. /\ r \in [status : Nat, len : Lengths, location : Locations, connection : STRING]
        /\ r.status \in Bodyless => r.len = 0
    BY MessageAssumption
  <2>2. /\ r.status \in Nat /\ r.len \in Lengths /\ r.location \in Locations /\ r.connection \in STRING
    BY <2>1
  <2>3. r.len \in 0..999
    BY <2>2 DEF Lengths, None
  <2>4. r.connection \in Text
    BY <2>2, Texts, Zenon
  <2> QED BY <2>1, <2>2, <2>3, <2>4
<1> DEFINE cl == IF r.len > 0 THEN r.len ELSE 1000
           msg == RenderHead(id, r)
<1>2. cl \in 0..1001 /\ (cl = 1000 \/ (cl = r.len /\ cl # 1001))
  BY <1>1, SMTT(30)
<1>3. msg = [id |-> id, status |-> r.status, location |-> r.location, connection |-> r.connection,
             te |-> "none", cl |-> cl, wellformed |-> TRUE]
  BY DEF RenderHead, None
<1> HIDE DEF cl, msg
<1>4. msg \in ResponseHeads
  <2>1. PICK status \in Nat, location \in Locations, connection \in Text :
          status = r.status /\ location = r.location /\ connection = r.connection
    BY <1>1
  <2>a. PICK m \in 0..1001 : m = cl
    BY <1>2
  <2>b. PICK te \in Text : te = "none"
    BY Texts, Zenon
  <2>2. msg = [id |-> id, status |-> status, location |-> location, connection |-> connection,
               te |-> te, cl |-> m, wellformed |-> TRUE]
    BY <1>3, <2>1, <2>a, <2>b
  <2> QED BY <2>2 DEF ResponseHeads, Invalid
<1>5. msg.id = id /\ msg.wellformed /\ msg.te = "none" /\ msg.cl = cl /\ msg.status = r.status
  BY <1>3
<1>6. Fits(ResponseBodyKind(msg, FALSE), msg, r.len)
  <2>1. CASE r.status \in Bodyless
    BY <1>1, <1>5, <2>1 DEF Fits, ResponseBodyKind
  <2>2. CASE r.status \notin Bodyless
    BY <1>2, <1>5, <2>2 DEF Fits, ResponseBodyKind, ContentLengthKind, None, Invalid
  <2> QED BY <2>1, <2>2
<1>7. r.len \in Lengths /\ r.len \in Nat
  BY <1>1, SMTT(30) DEF Lengths, None
<1> QED BY <1>4, <1>5, <1>6, <1>7 DEF msg, Heads

\* When IsFinished says so, the reader stands behind the body.
LEMMA ReaderDone ==
  ASSUME NEW r \in Readers, NEW msg \in Heads, NEW len \in Nat, IsFinished(r), r.kind # "eof"
  PROVE  \A a, rest, broken : rest \in Seq(Units) /\ Reads(r, a, msg, len, rest, broken)
                                => Arrives(a, rest, broken)
<1> SUFFICES ASSUME NEW a, NEW rest \in Seq(Units), NEW broken, Reads(r, a, msg, len, rest, broken)
             PROVE  Arrives(a, rest, broken)
  OBVIOUS
<1> DEFINE body == BodyUnits(msg, len)
<1>1. /\ body \in Seq(Units) /\ Len(body) \in Nat
      /\ msg.te # "chunked" => Len(body) = len
  <2>1. /\ body \in Seq(Units)
        /\ msg.te # "chunked" => Len(body) = len
    BY BodyTypes
  <2> HIDE DEF body
  <2> QED BY <2>1
<1>2. r.state \in {"off", "finished"} /\ Len(r.out) \in Nat /\ r.left \in Nat
  BY ReaderFields DEF IsFinished
<1>3. PICK q \in 0..Len(body) :
        /\ Stands(r, msg, len, q)
        /\ Arrives(a, SubSeq(body, q + 1, Len(body)) \o rest, broken)
        /\ r.state = "finished" /\ r.kind # "eof" => q = Len(body)
  BY <1>2 DEF Reads, Before
<1> HIDE DEF body
<1>4. q = Len(body)
  <2>1. CASE r.state = "finished"
    BY <1>3, <2>1
  <2>2. CASE r.state = "off"
    <3>1. r.kind = "empty" \/ (r.kind = "length" /\ r.left = 0)
      BY <2>2 DEF IsFinished
    <3>2. Stands(r, msg, len, q) /\ q \in Nat
      BY <1>1, <1>3
    <3>3. q = len /\ msg.te # "chunked"
      <4>1. CASE r.kind = "empty"
        BY <3>2, <4>1 DEF Stands
      <4>2. CASE r.kind = "length" /\ r.left = 0
        BY <1>2, <3>2, <4>2 DEF Stands
      <4> QED BY <3>1, <4>1, <4>2
    <3> QED BY <1>1, <3>3
  <2> QED BY <1>2, <2>1, <2>2
<1>5. SubSeq(body, Len(body) + 1, Len(body)) \o rest = rest
  BY <1>1, BodyPassed
<1> QED BY <1>3, <1>4, <1>5

\* What Respond notes about the request in hand.
Noted(c, r) ==
  [handled EXCEPT ![c][Len(handled[c])] = [@ EXCEPT !.body = rd[SEnd(c)].out, !.reply = r.len]]

\* The record of the handler's last request is completed.
LEMMA AnswerNoted ==
  ASSUME HttpInv, NEW c \in Conns, srv[c].phase = "handle", NEW r \in Responses,
         handled' = Noted(c, r),
         asked' = asked
  PROVE  LET n == Len(handled[c]) IN
         /\ handled' \in [Conns -> Seq(Hand)] /\ Len(handled'[c]) = n
         /\ handled'[c][n].reply = r.len /\ \A i \in 1..(n - 1) : handled'[c][i] = handled[c][i]
         /\ \A d \in Conns \ {c} : handled'[d] = handled[d]
         /\ HandledInOrder(c)'
<1> DEFINE n == Len(handled[c])
           h == handled[c]
           x == [h[n] EXCEPT !.body = rd[SEnd(c)].out, !.reply = r.len]
           s == [h EXCEPT ![n] = x]
<1>1. /\ n \in 1..Len(asked[c]) /\ srv[c].head.id = asked[c][n].id
      /\ asked[c][n].len \in Nat /\ rd[SEnd(c)] \in Readers /\ h \in Seq(Hand)
      /\ asked[c] \in Asks /\ srv[c].head \in RequestHeads
  BY InHand
<1>2. PICK w \in Seq(Units) : HandsOver(c, w)
  BY InHand
<1>3. n \in 1..Len(h) /\ n \in Nat /\ h[n] \in Hand /\ Len(asked[c]) \in Nat
  <2>1. n \in 1..Len(h) /\ n \in Nat /\ n \in DOMAIN h /\ Len(asked[c]) \in Nat
    <3>1. Len(asked[c]) \in Nat
      BY <1>1 DEF Asks
    <3>2. DOMAIN h = 1..Len(h) /\ Len(h) \in Nat
      BY <1>1
    <3>3. n = Len(h) /\ n >= 1
      BY <1>1, <3>1, <3>2
    <3> QED BY <3>1, <3>2, <3>3
  <2> HIDE DEF h
  <2>2. h[n] \in Hand
    BY <1>1, <2>1, SeqElement
  <2> QED BY <2>1, <2>2
<1>4. PICK out \in Seq(Units), len \in Nat :
        out = rd[SEnd(c)].out /\ len = r.len
  BY <1>1, ResponseRendered, ReaderFields
<1>5. x \in Hand /\ x.id = h[n].id /\ x.body = out /\ x.reply = r.len
  <2> HIDE DEF h
  <2>1. PICK y \in Hand : y = h[n]
    BY <1>3
  <2>2. x = [y EXCEPT !.body = out, !.reply = len]
    BY <1>4, <2>1
  <2> HIDE DEF x
  <2> QED BY <1>4, <2>1, <2>2 DEF Hand
<1> HIDE DEF x
<1>6. s \in Seq(Hand) /\ Len(s) = n /\ s[n] = x /\ \A i \in 1..(n - 1) : s[i] = h[i]
  <2> HIDE DEF h, n
  <2>1. s \in Seq(Hand) /\ Len(s) = Len(h)
    BY <1>1, <1>3, <1>5
  <2>2. s[n] = x /\ \A i \in 1..(n - 1) : s[i] = h[i]
    BY <1>1, <1>3
  <2> QED BY <2>1, <2>2 DEF n, h
<1>7. handled \in [Conns -> Seq(Hand)] /\ handled' = [handled EXCEPT ![c] = s]
  BY DEF HttpInv, Types, Noted, x
<1> HIDE DEF s
<1>8. /\ handled' \in [Conns -> Seq(Hand)] /\ handled'[c] = s
      /\ \A d \in Conns \ {c} : handled'[d] = handled[d]
  BY <1>6, <1>7
<1>9. HandledInOrder(c)'
  <2>1. HandledInOrder(c)
    BY DEF HttpInv, ServerSide
  <2>2. ASSUME NEW i \in 1..n
        PROVE  /\ s[i].id = asked[c][i].id /\ s[i].body = DataUnits(s[i].id, Len(s[i].body))
               /\ Len(s[i].body) <= asked[c][i].len
    <3>1. CASE i \in 1..(n - 1)
      BY <1>3, <1>6, <2>1, <3>1 DEF HandledInOrder
    <3>2. CASE i = n
      <4>1. Taken(rd[SEnd(c)], srv[c].head, asked[c][n].len)
        BY <1>2 DEF HandsOver, Reads
      <4>2. out = DataUnits(asked[c][n].id, Len(out)) /\ Len(out) <= asked[c][n].len
        BY <1>1, <1>4, <4>1 DEF Taken
      <4>3. h[n].id = asked[c][n].id
        BY <1>3, <2>1 DEF HandledInOrder
      <4> QED BY <1>5, <1>6, <3>2, <4>2, <4>3
    <3>3. i \in 1..(n - 1) \/ i = n
      BY <1>3
    <3> QED BY <3>1, <3>2, <3>3
  <2>3. n <= Len(asked[c])
    BY <1>1
  <2>4. PICK t : t = s
    OBVIOUS
  <2>5. /\ handled'[c] = t /\ Len(t) = n
        /\ \A i \in 1..Len(t) :
             /\ t[i].id = asked[c][i].id /\ t[i].body = DataUnits(t[i].id, Len(t[i].body))
             /\ Len(t[i].body) <= asked[c][i].len
    BY <1>6, <1>8, <2>2, <2>4
  <2> HIDE DEF n, h
  <2> QED BY <2>3, <2>5 DEF HandledInOrder
<1> QED BY <1>5, <1>6, <1>8, <1>9

\* The answer is the first thing the client reads, and settles the request.
LEMMA AnswerArrives ==
  ASSUME HttpInv, NEW c \in Conns, srv[c].phase = "handle", NEW r \in Responses,
         WriteMessage(SEnd(c), RenderHead(srv[c].head.id, r), r.len),
         handled' = Noted(c, r),
         UNCHANGED <<asked, host>>, rd'[CEnd(c)] = rd[CEnd(c)], buf'[CEnd(c)] = buf[CEnd(c)],
         srv'[c].phase \in {"head", "returned"}
  PROVE  /\ wire' \in [Ends -> Seq(Units)] /\ \A x \in Ends \ {CEnd(c)} : wire'[x] = wire[x]
         /\ open[CEnd(c)] => ClientKept(c)
         /\ Grown(c)
<1> DEFINE e == CEnd(c)
           n == Len(handled[c])
           msg == RenderHead(srv[c].head.id, r)
           u == MessageUnits(msg, r.len)
<1>1. /\ n \in 1..Len(asked[c]) /\ srv[c].head.id = asked[c][n].id
      /\ asked[c] \in Asks /\ srv[c].head \in RequestHeads
  BY InHand
<1>2. /\ Len(handled'[c]) = n /\ handled'[c][n].reply = r.len
      /\ \A i \in 1..(n - 1) : handled'[c][i] = handled[c][i]
  BY AnswerNoted
<1>3. n \in Nat /\ Len(asked[c]) \in Nat
  BY <1>1 DEF Asks
<1>4. srv[c].head.id \in Nat
  BY <1>1, HeadId DEF Heads
<1>5. /\ msg \in ResponseHeads /\ msg.id = srv[c].head.id /\ msg.wellformed /\ r.len \in Lengths
      /\ Fits(ResponseBodyKind(msg, FALSE), msg, r.len) /\ u \in Seq(Units)
  <2>1. msg \in ResponseHeads /\ msg \in Heads /\ r.len \in Nat
        /\ msg.id = srv[c].head.id /\ msg.wellformed /\ r.len \in Lengths
        /\ Fits(ResponseBodyKind(msg, FALSE), msg, r.len)
    BY <1>4, ResponseRendered
  <2>2. u \in Seq(Units)
    <3> HIDE DEF msg
    <3> QED BY <2>1, BodyTypes
  <2> QED BY <2>1, <2>2
<1>6. /\ e \in Ends /\ Peer(SEnd(c)) = e /\ wire \in [Ends -> Seq(Units)] /\ buf \in [Ends -> Seq(Units)]
      /\ wire' = [wire EXCEPT ![e] = IF open[e] THEN @ \o u ELSE @]
  BY TwoEnds DEF HttpInv, Types, WriteMessage
<1>7. host[c] \notin Foreign
  BY ServedHost
<1> HIDE DEF e, n, msg, u
<1>8. /\ wire' \in [Ends -> Seq(Units)] /\ \A x \in Ends \ {e} : wire'[x] = wire[x]
      /\ open[e] => wire'[e] = wire[e] \o u
  <2>1. wire[e] \o u \in Seq(Units)
    BY <1>5, <1>6, ConcatElements
  <2> QED BY <1>6, <2>1
<1>9. Grown(c)
  <2>1. ASSUME NEW i \in 1..Len(asked[c]), NEW m \in Nat, Settled(c, i, m) PROVE Settled(c, i, m)'
    <3>1. i \in 1..n /\ handled[c][i].reply = m /\ i # n
      BY <1>1, <1>3, <2>1 DEF Settled, n
    <3> QED BY <1>2, <1>3, <3>1 DEF Settled, n
  <2> QED BY <2>1 DEF Grown
<1>10. ASSUME open[e] PROVE ClientKept(c)
  <2>1. ~ServerQuiet(c)
    BY <1>7 DEF ServerQuiet
  <2>2. ASSUME NEW id \in Nat, Waits(c, id) PROVE Answered(c, id)'
    <3>1. Silent(c) /\ n = Len(asked[c]) /\ asked[c][n].id = id
      BY <1>7, <2>1, <2>2 DEF Waits, Unanswered, Answered, n
    <3>2. ServerQuiet(c)' /\ rd'[e] = NoReader
      BY <1>2, <1>7, <3>1 DEF ServerQuiet, Silent, e
    <3>3. msg.id = id
      BY <1>1, <1>5, <3>1
    <3>4. Replied(c, r.len)'
      BY <1>1, <1>2, <1>3, <3>1 DEF Replied
    <3>5. Available(e)' = u
      <4>1. wire[e] = <<>> /\ buf'[e] = <<>> /\ wire'[e] = wire[e] \o u
        BY <1>8, <1>10, <3>1 DEF Silent, e
      <4>2. <<>> \o u = u
        BY <1>5, ConcatEmptySeq
      <4> QED BY <4>1, <4>2 DEF Available
    <3>6. Arrives(Available(e)', u, BrokenOff(c)')
      BY <1>5, <3>5, ArrivesSame
    <3> QED BY <1>5, <3>2, <3>3, <3>4, <3>6 DEF Answered, u, e
  <2>3. \A id \in Nat : Waits(c, id) => Waits(c, id)'
    BY <2>2 DEF Waits
  <2> QED BY <2>1, <2>3 DEF ClientKept, Resting, Answering
<1> QED BY <1>8, <1>9, <1>10 DEF e

\* serve_connection writes an answer, and goes on or returns.
LEMMA Responds ==
  ASSUME HttpInv, NEW c \in Conns, NEW r \in Responses, Respond(c, r)
  PROVE  HttpInv'
<1> DEFINE e == SEnd(c)
<1>1. /\ srv[c].phase = "handle" /\ rd[e].state # "reading"
      /\ WriteMessage(e, RenderHead(srv[c].head.id, r), r.len) /\ handled' = Noted(c, r)
      /\ UNCHANGED <<task, idle, host, client, messages, asked, result>>
  BY DEF Respond, Serving, Noted
<1>2. /\ handled' \in [Conns -> Seq(Hand)]
      /\ \A d \in Conns \ {c} : handled'[d] = handled[d]
      /\ HandledInOrder(c)'
  BY <1>1, AnswerNoted
<1>3. host[c] \in Authorities \ Foreign /\ host[c] # 0 /\ open[e] /\ e \in Ends /\ CEnd(c) \in Ends /\ CEnd(c) # e
  BY <1>1, ServedHost, HttpAssumption, TwoEnds
<1>4. Types
  BY DEF HttpInv
<1> HIDE DEF e
<1>5. CASE ServerReturns(c)
  <2>1. /\ ServerSide(c)' /\ open'[CEnd(c)] = open[CEnd(c)]
        /\ open' \in [Ends -> BOOLEAN] /\ buf' \in [Ends -> Seq(Units)] /\ rd' \in [Ends -> Readers]
        /\ srv' \in [Conns -> Servers] /\ srv'[c].phase = "returned"
        /\ \A x \in Ends \ {e} : buf'[x] = buf[x] /\ rd'[x] = rd[x] /\ open'[x] = open[x]
        /\ \A d \in Conns \ {c} : srv'[d] = srv[d]
    BY <1>1, <1>2, <1>5, ReturnsKeep DEF e
  <2>2. /\ wire' \in [Ends -> Seq(Units)] /\ \A x \in Ends \ {CEnd(c)} : wire'[x] = wire[x]
        /\ open[CEnd(c)] => ClientKept(c)
        /\ Grown(c)
    BY <1>1, <1>3, <2>1, AnswerArrives DEF e
  <2>3. Types'
    BY <1>1, <1>2, <1>4, <2>1, <2>2 DEF Types
  <2>4. \A d \in Conns \ {c} : SameConn(d)
    <3>1. \A x \in Ends \ {CEnd(c), SEnd(c)} : SameEnd(x)
      BY <2>1, <2>2 DEF SameEnd, e
    <3> QED BY <1>1, <1>2, <2>1, <3>1, OneConn
  <2> QED BY <1>1, <2>1, <2>2, <2>3, <2>4, ServerStep
<1>6. CASE /\ KeepAliveRequested(srv[c].head) /\ IsFinished(rd[e])
           /\ srv' = [srv EXCEPT ![c] = [phase |-> "head", head |-> NoMessage]]
           /\ rd' = [rd EXCEPT ![e] = NoReader]
           /\ UNCHANGED <<open, buf>>
  <2>1. /\ srv' \in [Conns -> Servers] /\ srv'[c].phase = "head"
        /\ \A d \in Conns \ {c} : srv'[d] = srv[d]
    <3>1. [phase |-> "head", head |-> NoMessage] \in Servers
      BY DEF Servers
    <3> QED BY <1>4, <1>6, <3>1 DEF Types
  <2>2. rd' \in [Ends -> Readers] /\ rd'[e] = NoReader /\ \A x \in Ends \ {e} : rd'[x] = rd[x]
    BY <1>3, <1>4, <1>6, NoReaderType DEF Types
  <2>3. /\ wire' \in [Ends -> Seq(Units)] /\ \A x \in Ends \ {CEnd(c)} : wire'[x] = wire[x]
        /\ open[CEnd(c)] => ClientKept(c)
        /\ Grown(c)
    BY <1>1, <1>3, <1>6, <2>1, <2>2, AnswerArrives DEF e
  <2>4. Types'
    BY <1>1, <1>2, <1>4, <1>6, <2>1, <2>2, <2>3 DEF Types
  <2>5. \A d \in Conns \ {c} : SameConn(d)
    <3>1. \A x \in Ends \ {CEnd(c), SEnd(c)} : SameEnd(x)
      BY <1>6, <2>2, <2>3 DEF SameEnd, e
    <3> QED BY <1>1, <1>2, <2>1, <3>1, OneConn
  <2>6. Connected(c)'
    BY <1>1, <1>3, <1>6, <2>1, <2>2 DEF Connected, e
  <2>7. ServesInStep(c)'
    <3>1. PICK w \in Seq(Units) : HandsOver(c, w)
      BY <1>1, InHand
    <3>2. Queued(asked'[c], Len(handled'[c]), w)
      BY <1>1, <3>1, AnswerNoted DEF HandsOver, e
    <3>3. Available(e)' = Available(e)
      BY <1>3, <1>6, <2>3 DEF Available
    <3>4. Arrives(Available(e), w, ~open[CEnd(c)])
      <4>1. PICK x \in Readers, msg \in Heads, len \in Nat :
              x = rd[e] /\ msg = srv[c].head /\ len = asked[c][Len(handled[c])].len
        BY <1>1, InHand DEF Heads, e
      <4>2. x.kind # "eof" /\ IsFinished(x)
        BY <1>1, <1>6, <4>1, InHand DEF e
      <4>3. \A a, rest, broken : rest \in Seq(Units) /\ Reads(x, a, msg, len, rest, broken)
                                   => Arrives(a, rest, broken)
        BY <4>2, ReaderDone
      <4>4. Reads(x, Available(e), msg, len, w, ~open[CEnd(c)])
        BY <3>1, <4>1 DEF HandsOver, e
      <4> QED BY <4>3, <4>4
    <3>5. Arrives(Available(e)', w, ~open'[CEnd(c)])
      BY <1>6, <3>3, <3>4
    <3> QED BY <2>1, <2>2, <3>2, <3>5 DEF ServesInStep, e
  <2>8. ServerSide(c)'
    BY <1>2, <2>6, <2>7 DEF ServerSide
  <2>9. open'[CEnd(c)] = open[CEnd(c)]
    BY <1>6
  <2> QED BY <1>1, <2>3, <2>4, <2>5, <2>8, <2>9, ServerStep
<1> QED BY <1>5, <1>6 DEF Respond, e

-----------------------------------------------------------------------------
\* Servers that are not of this crate.
Reply(id, r) ==
  [id |-> id, status |-> r.status, location |-> r.location,
   connection |-> r.connection, te |-> r.te, cl |-> r.cl, wellformed |-> TRUE]

\* A foreign server's answer is well framed.
LEMMA ReplyFits ==
  ASSUME NEW r \in ForeignResponses, NEW id \in Nat
  PROVE  /\ Reply(id, r) \in ResponseHeads /\ Reply(id, r) \in Heads
         /\ Reply(id, r).id = id /\ Reply(id, r).wellformed
         /\ r.len \in Lengths /\ r.len \in Nat
         /\ Fits(ResponseBodyKind(Reply(id, r), FALSE), Reply(id, r), r.len)
<1> DEFINE msg == Reply(id, r)
<1>1. /\ r.status \in Nat /\ r.connection \in STRING /\ r.te \in STRING /\ r.cl \in 0..Invalid
      /\ r.len \in Lengths /\ r.location \in Locations
      /\ Fits(ResponseBodyKind(r, FALSE), r, r.len)
  <2>1. /\ r \in [status : Nat, connection : STRING, te : STRING, cl : 0..Invalid, len : Lengths,
                  location : Locations, closes : BOOLEAN]
        /\ Fits(ResponseBodyKind(r, FALSE), r, r.len)
    BY MessageAssumption
  <2> QED BY <2>1
<1>2. r.connection \in Text /\ r.te \in Text
  BY <1>1, Texts, Zenon
<1>3. msg = [id |-> id, status |-> r.status, location |-> r.location, connection |-> r.connection,
             te |-> r.te, cl |-> r.cl, wellformed |-> TRUE]
  BY DEF Reply
<1> HIDE DEF msg
<1>4. msg \in ResponseHeads
  BY <1>1, <1>2, <1>3 DEF ResponseHeads
<1>5. msg.id = id /\ msg.wellformed /\ msg.te = r.te /\ msg.cl = r.cl /\ msg.status = r.status
  BY <1>3
<1>6. Fits(ResponseBodyKind(msg, FALSE), msg, r.len)
  BY <1>1, <1>5 DEF Fits, ResponseBodyKind, ContentLengthKind, TransferEncodingKind
<1>7. r.len \in Nat
  BY <1>1, SMTT(30) DEF Lengths, None
<1> QED BY <1>1, <1>4, <1>5, <1>6, <1>7 DEF msg, Heads

\* A foreign server is at a foreign host.
LEMMA ForeignHost ==
  ASSUME HttpInv, NEW c \in Conns, srv[c].phase = "foreign"
  PROVE  host[c] \in Foreign /\ host[c] # 0
<1>1. Connected(c) /\ host[c] \in {0} \cup Authorities /\ 0 \notin Authorities /\ Foreign \subseteq Authorities
  BY HttpAssumption DEF HttpInv, ServerSide, Types
<1> QED BY <1>1 DEF Connected

\* A step of such a server: what its client has to know of it.
LEMMA ForeignStep ==
  ASSUME HttpInv, NEW c \in Conns, srv[c].phase = "foreign",
         wire' \in [Ends -> Seq(Units)], open' \in [Ends -> BOOLEAN],
         \A x \in Ends \ {CEnd(c), SEnd(c)} : wire'[x] = wire[x] /\ open'[x] = open[x],
         open'[CEnd(c)] = open[CEnd(c)],
         wire'[SEnd(c)] = <<>> \/ wire'[SEnd(c)] = wire[SEnd(c)],
         open[CEnd(c)] => ClientKept(c),
         UNCHANGED <<buf, rd, srv, task, idle, host, client, hist>>
  PROVE  HttpInv'
<1>1. host[c] \in Foreign /\ host[c] # 0
  BY ForeignHost
<1>2. UNCHANGED <<messages, asked, handled, result>>
  BY DEF hist
<1>3. Types'
  BY <1>2 DEF HttpInv, Types
<1>4. \A d \in Conns \ {c} : SameConn(d)
  <2>1. \A x \in Ends \ {CEnd(c), SEnd(c)} : SameEnd(x)
    BY DEF SameEnd
  <2> QED BY <1>2, <2>1, OneConn
<1>5. ServerSide(c)'
  <2>1. Connected(c) /\ HandledInOrder(c)
    BY DEF HttpInv, ServerSide
  <2>2. Connected(c)'
    BY <1>1, <1>2, <2>1 DEF Connected
  <2>3. HandledInOrder(c)'
    BY <1>2, <2>1 DEF HandledInOrder
  <2>4. ServesInStep(c)'
    BY DEF ServesInStep
  <2> QED BY <2>2, <2>3, <2>4 DEF ServerSide
<1>6. Grown(c)
  BY <1>2 DEF Grown, Settled
<1> QED BY <1>2, <1>3, <1>4, <1>5, <1>6, ServerStep

\* A foreign server closes the connection.
LEMMA ForeignShuts ==
  ASSUME HttpInv, NEW c \in Conns, ForeignCloses(c)
  PROVE  HttpInv'
<1>1. /\ srv[c].phase = "foreign" /\ open' = [open EXCEPT ![SEnd(c)] = FALSE]
      /\ UNCHANGED <<wire, buf, rd, srv, task, idle, host, client, hist>>
  BY DEF ForeignCloses, Serving
<1>2. host[c] \in Foreign
  BY <1>1, ForeignHost
<1>3. CEnd(c) \in Ends /\ SEnd(c) \in Ends /\ CEnd(c) # SEnd(c)
  BY TwoEnds
<1>4. open \in [Ends -> BOOLEAN] /\ wire \in [Ends -> Seq(Units)]
  BY DEF HttpInv, Types
<1>5. /\ open' \in [Ends -> BOOLEAN] /\ ~open'[SEnd(c)] /\ open'[CEnd(c)] = open[CEnd(c)]
      /\ \A x \in Ends \ {SEnd(c)} : open'[x] = open[x]
  BY <1>1, <1>3, <1>4
<1>6. ClientKept(c)
  <2>1. SameEnd(CEnd(c)) /\ ServerQuiet(c)' /\ BrokenOff(c)' /\ Silent(c)' = Silent(c)
    BY <1>1, <1>2, <1>5 DEF SameEnd, ServerQuiet, BrokenOff, Silent
  <2>2. \A len \in Lengths : Replied(c, len) => Replied(c, len)'
    BY <1>1 DEF Replied, hist
  <2>3. /\ \A id : Answered(c, id) => Answered(c, id)'
        /\ \A msg : Answering(c, msg) => Answering(c, msg)'
    BY <2>1, <2>2, ClientView
  <2>4. \A id : Unanswered(c, id) => Unanswered(c, id)'
    BY <1>1, <1>2, <1>5, <2>1 DEF Unanswered
  <2> QED BY <1>1, <2>1, <2>3, <2>4 DEF ClientKept, Waits, Resting, hist
<1> QED BY <1>1, <1>4, <1>5, <1>6, ForeignStep

\* A foreign server answers, whole or cut short.
LEMMA ForeignServes ==
  ASSUME HttpInv, NEW c \in Conns, NEW r \in ForeignResponses, ForeignServe(c, r)
  PROVE  HttpInv'
<1> DEFINE e == SEnd(c)
           d == CEnd(c)
           id == wire[e][2].msg.id
           msg == Reply(id, r)
           u == MessageUnits(msg, r.len)
<1>1. /\ srv[c].phase = "foreign" /\ open[e] /\ Len(wire[e]) >= 2
      /\ UNCHANGED <<buf, rd, srv, task, idle, host, client, hist>>
  BY DEF ForeignServe, Serving
<1>2. PICK n \in 1..Len(u) :
        /\ wire' = [wire EXCEPT ![e] = <<>>, ![d] = IF open[d] THEN @ \o SubSeq(u, 1, n) ELSE @]
        /\ open' = [open EXCEPT ![e] = (n = Len(u) /\ ~r.closes)]
  BY DEF ForeignServe, Reply
<1>3. host[c] \in Foreign
  BY <1>1, ForeignHost
<1>4. d \in Ends /\ e \in Ends /\ d # e
  BY TwoEnds
<1>5. open \in [Ends -> BOOLEAN] /\ wire \in [Ends -> Seq(Units)]
  BY DEF HttpInv, Types
<1>6. wire[e] # <<>>
  <2>1. wire[e] \in Seq(Units)
    BY <1>4, <1>5
  <2> HIDE DEF e
  <2> QED BY <1>1, <2>1
<1>7. wire[e][2].msg \in RequestHeads
  BY <1>3, <1>6 DEF HttpInv, ServerSide, Connected
<1>8. id \in Nat
  BY <1>7, HeadId DEF Heads
<1> HIDE DEF e, d, id
<1>9. /\ msg \in ResponseHeads /\ msg.id = id /\ msg.wellformed /\ r.len \in Lengths
      /\ Fits(ResponseBodyKind(msg, FALSE), msg, r.len) /\ u \in Seq(Units)
  <2>1. msg \in ResponseHeads /\ msg \in Heads /\ r.len \in Nat
        /\ msg.id = id /\ msg.wellformed /\ r.len \in Lengths
        /\ Fits(ResponseBodyKind(msg, FALSE), msg, r.len)
    BY <1>8, ReplyFits
  <2>2. u \in Seq(Units)
    <3> HIDE DEF msg
    <3> QED BY <2>1, BodyTypes
  <2> QED BY <2>1, <2>2
<1> HIDE DEF msg, u
<1>10. SubSeq(u, 1, n) \in Seq(Units) /\ n \in 0..Len(u) /\ Len(u) \in Nat
  <2>1. n \in 0..Len(u) /\ Len(u) \in Nat
    BY <1>9
  <2> QED BY <1>9, <2>1, CutSeq
<1>11. /\ wire' \in [Ends -> Seq(Units)] /\ wire'[e] = <<>>
       /\ \A x \in Ends \ {d, e} : wire'[x] = wire[x]
       /\ open[d] => wire'[d] = wire[d] \o SubSeq(u, 1, n)
  <2>1. wire[d] \o SubSeq(u, 1, n) \in Seq(Units)
    BY <1>4, <1>5, <1>10, ConcatElements
  <2>2. <<>> \in Seq(Units)
    OBVIOUS
  <2>3. PICK x \in Seq(Units) : x = IF open[d] THEN wire[d] \o SubSeq(u, 1, n) ELSE wire[d]
    BY <1>4, <1>5, <2>1
  <2>4. wire' = [wire EXCEPT ![e] = <<>>, ![d] = x]
    BY <1>2, <1>4, <2>3
  <2> QED BY <1>4, <1>5, <2>2, <2>3, <2>4
<1>12. /\ open' \in [Ends -> BOOLEAN] /\ open'[d] = open[d]
       /\ \A x \in Ends \ {e} : open'[x] = open[x]
       /\ n # Len(u) => ~open'[e]
  BY <1>2, <1>4, <1>5
<1>13. ASSUME open[d] PROVE ClientKept(c)
  <2>1. ~ServerQuiet(c)
    BY <1>1, <1>3, <1>6 DEF ServerQuiet, e
  <2>2. ASSUME NEW i \in Nat, Waits(c, i) PROVE Answered(c, i)'
    <3>1. Silent(c) /\ id = i
      BY <1>1, <1>3, <2>1, <2>2 DEF Waits, Unanswered, Answered, id, e
    <3>2. ServerQuiet(c)' /\ rd'[d] = NoReader /\ host'[c] = host[c]
      BY <1>1, <1>3, <1>11, <3>1 DEF ServerQuiet, Silent, d, e
    <3>3. Replied(c, r.len)'
      BY <1>3, <3>2 DEF Replied
    <3>4. Available(d)' = SubSeq(u, 1, n)
      <4>1. buf'[d] = <<>> /\ wire[d] = <<>> /\ wire'[d] = <<>> \o SubSeq(u, 1, n)
        BY <1>1, <1>11, <1>13, <3>1 DEF Silent, d
      <4>2. <<>> \o SubSeq(u, 1, n) = SubSeq(u, 1, n)
        BY <1>10, ConcatEmptySeq
      <4> QED BY <4>1, <4>2 DEF Available
    <3>5. Arrives(Available(d)', u, BrokenOff(c)')
      <4>1. n # Len(u) => BrokenOff(c)'
        BY <1>3, <1>12, <3>2 DEF BrokenOff, e
      <4>2. PICK broken : broken = BrokenOff(c)'
        OBVIOUS
      <4>3. <<>> \in Seq(Units) /\ <<>> \o SubSeq(u, 1, n) = SubSeq(u, 1, n) /\ <<>> \o u = u
        BY <1>9, <1>10, ConcatEmptySeq
      <4>4. Arrives(<<>> \o SubSeq(u, 1, n), <<>> \o u, broken)
        BY <1>9, <1>10, <4>1, <4>2, <4>3, ArrivesMore
      <4> QED BY <3>4, <4>2, <4>3, <4>4
    <3> QED BY <1>9, <3>1, <3>2, <3>3, <3>5 DEF Answered, u, d
  <2>3. \A i \in Nat : Waits(c, i) => Waits(c, i)'
    BY <1>1, <2>2 DEF Waits, hist
  <2> QED BY <2>1, <2>3 DEF ClientKept, Resting, Answering
<1> QED BY <1>1, <1>11, <1>12, <1>13, ForeignStep DEF d, e

-----------------------------------------------------------------------------
\* HttpClient::request.

\* The connection a call uses is its own.
LEMMA OwnConn ==
  ASSUME HttpInv, NEW t \in Tasks, Uses(t), NEW c, c = task[t].conn
  PROVE  /\ c \in Conns /\ c # 0 /\ host[c] = task[t].authority /\ host[c] \in Authorities /\ host[c] # 0
         /\ open[CEnd(c)] /\ Mine(t, c) /\ client = "ours" /\ ServerSide(c) /\ task[t] \in Calls
         /\ CEnd(c) \in Ends /\ SEnd(c) \in Ends /\ rd[CEnd(c)] \in Readers
<1>1. TaskOwns(t) /\ task[t] \in Calls
  BY DEF HttpInv, Owned, Types
<1>2. c \in Conns /\ c # 0
  BY <1>1, ConnNumbers DEF TaskOwns, Calls
<1>3. host[c] = task[t].authority /\ host[c] \in Authorities /\ open[CEnd(c)]
  BY <1>1 DEF TaskOwns, Uses
<1>4. host[c] # 0
  BY <1>3, HttpAssumption
<1>5. Mine(t, c)
  <2>1. \A u \in Tasks \ {t} : task[u].conn # c
    BY <1>1 DEF TaskOwns
  <2>2. \A a \in Authorities : \A i \in 1..Len(idle[a]) : idle[a][i] # c
    BY DEF HttpInv, Owned, PoolOwns
  <2> QED BY <2>1, <2>2 DEF Mine
<1>6. client = "ours"
  BY DEF HttpInv, Owned, OursIdle, Uses, Types
<1>7. ServerSide(c)
  BY <1>2 DEF HttpInv
<1>8. CEnd(c) \in Ends /\ SEnd(c) \in Ends
  BY <1>2, TwoEnds
<1>9. rd[CEnd(c)] \in Readers
  BY <1>8 DEF HttpInv, Types
<1> QED BY <1>1, <1>2, <1>3, <1>4, <1>5, <1>6, <1>7, <1>8, <1>9

\* A step of a call at its end of its connection.
LEMMA ClientStep ==
  ASSUME HttpInv, Types', NEW t \in Tasks, Uses(t), NEW c, c = task[t].conn,
         UNCHANGED <<srv, idle, host, client, messages, asked, handled>>,
         \A u \in Tasks \ {t} : task'[u] = task[u] /\ result'[u] = result[u],
         \A x \in Ends \ {CEnd(c)} : SameEnd(x),
         task'[t].conn \in {0, c}, task'[t].conn # 0 <=> Uses(t)',
         task'[t].phase # "idle" => task'[t].authority \in Authorities,
         Uses(t)' => task'[t].authority = task[t].authority /\ open'[CEnd(c)],
         CallInStep(t)', ResultTrue(t)' \/ result'[t] = result[t] \/ result'[t].kind # "ok"
  PROVE  HttpInv'
<1>1. /\ c \in Conns /\ c # 0 /\ host[c] = task[t].authority /\ host[c] # 0
      /\ open[CEnd(c)] /\ Mine(t, c) /\ client = "ours" /\ ServerSide(c)
  BY OwnConn
<1> DEFINE C == {c}
<1>2. \A d \in Conns \ C : SameConn(d)
  <2>1. \A x \in Ends \ {CEnd(c), SEnd(c)} : SameEnd(x)
    OBVIOUS
  <2> QED BY <1>1, <2>1, OneConn
<1>3. ServerSide(c)' /\ Grown(c)
  <2>1. SameServer(c)
    BY <1>1, TwoEnds DEF SameServer
  <2>2. ServerSide(c)'
    BY <1>1, <2>1, ServerKept
  <2> QED BY <2>2 DEF Grown, Settled
<1>4. \A u \in Tasks \ {t} : task'[t].conn # 0 => task'[t].conn # task[u].conn
  BY <1>1 DEF Mine
<1>5. (\A a \in Authorities : PoolOwns(a)') /\ PoolInStep'
  <2>1. /\ C \in SUBSET Conns /\ \A d \in C : Mine(t, d)
        /\ task'[t].conn \in {0} \cup C
    BY <1>1
  <2>2. idle' = idle /\ \A u \in Tasks \ {t} : task'[u] = task[u]
    OBVIOUS
  <2> HIDE DEF C
  <2> QED BY <1>2, <2>1, <2>2, PoolKept
<1>6. Uses(t)' => host'[task'[t].conn] = task'[t].authority /\ open'[CEnd(task'[t].conn)]
  BY <1>1
<1>7. IdsDiffer' /\ messages <= messages'
  <2>1. messages \in Nat /\ IdsDiffer
    BY MessagesNat DEF HttpInv
  <2> QED BY <2>1 DEF IdsDiffer
<1>8. client' = client /\ \A d \in C : Mine(t, d) /\ ServerSide(d)' /\ Grown(d)
  BY <1>1, <1>3
<1>9. C \in SUBSET Conns
  BY <1>1
<1> HIDE DEF C
<1> QED BY <1>1, <1>2, <1>4, <1>5, <1>6, <1>7, <1>8, <1>9, CallStep

\* A record of every type, for a task that does nothing.
LEMMA IdleType == Idle \in Calls /\ Idle.phase = "idle" /\ Idle.conn = 0
<1>1. PICK m \in Text \ {"HEAD"} : m = ""
  BY Texts, Zenon
<1>2. PICK t \in Text : t = "none"
  BY Texts, Zenon
<1>3. 0 \in Lengths /\ 0 \in Nat
  BY DEF Lengths, None
<1>4. Idle = [phase |-> "idle", conn |-> 0, authority |-> 0, method |-> m, id |-> 0,
              len |-> 0, connection |-> t, hops |-> 0, head |-> NoMessage]
  BY <1>1, <1>2, Zenon DEF Idle
<1> QED BY <1>3, <1>4 DEF Calls

\* What dropping a transport does.
LEMMA DropTypes ==
  ASSUME Types, NEW e \in Ends, Drop(e)
  PROVE  /\ open' \in [Ends -> BOOLEAN] /\ buf' \in [Ends -> Seq(Units)] /\ rd' \in [Ends -> Readers]
         /\ ~open'[e] /\ buf'[e] = <<>> /\ rd'[e] = NoReader
         /\ \A x \in Ends \ {e} : open'[x] = open[x] /\ buf'[x] = buf[x] /\ rd'[x] = rd[x]
<1>1. <<>> \in Seq(Units) /\ NoReader \in Readers
  BY NoReaderType
<1> QED BY <1>1 DEF Drop, Types

\* A call that ends without a response drops its connection.
LEMMA CallEnds ==
  ASSUME HttpInv, NEW t \in Tasks, Uses(t), NEW r \in Results, r.kind # "ok",
         Drop(CEnd(task[t].conn)), Return(t, r),
         UNCHANGED <<wire, srv, idle, host, client, messages, asked, handled>>
  PROVE  HttpInv'
<1> DEFINE c == task[t].conn
           e == CEnd(c)
<1>1. /\ c \in Conns /\ open[e] /\ e \in Ends
  BY OwnConn
<1>2. Types /\ Idle \in Calls /\ Idle.phase = "idle" /\ Idle.conn = 0
  BY IdleType DEF HttpInv
<1>3. task' = [task EXCEPT ![t] = Idle] /\ result' = [result EXCEPT ![t] = r]
  BY DEF Return
<1>4. /\ task' \in [Tasks -> Calls] /\ task'[t] = Idle /\ result' \in [Tasks -> Results] /\ result'[t] = r
      /\ \A u \in Tasks \ {t} : task'[u] = task[u] /\ result'[u] = result[u]
  BY <1>2, <1>3 DEF Types
<1>5. /\ open' \in [Ends -> BOOLEAN] /\ buf' \in [Ends -> Seq(Units)] /\ rd' \in [Ends -> Readers]
      /\ \A x \in Ends \ {e} : open'[x] = open[x] /\ buf'[x] = buf[x] /\ rd'[x] = rd[x]
  BY <1>1, <1>2, DropTypes
<1>6. Types'
  BY <1>2, <1>4, <1>5 DEF Types
<1>7. \A x \in Ends \ {e} : SameEnd(x)
  BY <1>5 DEF SameEnd
<1>8. /\ task'[t].conn = 0 /\ task'[t].phase = "idle" /\ ~Uses(t)' /\ result'[t].kind # "ok"
      /\ CallInStep(t)'
  BY <1>2, <1>4 DEF Uses, CallInStep
<1> HIDE DEF c, e
<1> QED BY <1>4, <1>6, <1>7, <1>8, ClientStep DEF c, e

\* An error and a cancelled call.
Ended(t, kind) == [NoResult EXCEPT !.kind = kind, !.id = task[t].id]

\* The result of a call that failed or was cancelled.
LEMMA NotOk ==
  ASSUME Types, NEW t \in Tasks
  PROVE  /\ Ended(t, "error") \in Results /\ Ended(t, "error").kind # "ok"
         /\ Ended(t, "cancelled") \in Results /\ Ended(t, "cancelled").kind # "ok"
<1>1. task[t].id \in Nat /\ <<>> \in Seq(Units)
  BY DEF Types, Calls
<1> QED BY <1>1 DEF NoResult, Results, Ended

\* A call is cancelled.
LEMMA Cancels ==
  ASSUME HttpInv, NEW t \in Tasks, CancelRequest(t)
  PROVE  HttpInv'
<1>1. Types
  BY DEF HttpInv
<1>2. Uses(t) /\ Drop(CEnd(task[t].conn)) /\ Return(t, Ended(t, "cancelled"))
      /\ UNCHANGED <<wire, srv, idle, host, client, messages, asked, handled>>
  BY DEF CancelRequest, Uses, Ended
<1> QED BY <1>1, <1>2, NotOk, CallEnds

\* A call fails after its connection was made.
LEMMA Fails ==
  ASSUME HttpInv, NEW t \in Tasks, Uses(t), Drop(CEnd(task[t].conn)), Failed(t),
         UNCHANGED <<wire, srv, idle, host, client, messages, asked, handled>>
  PROVE  HttpInv'
<1>1. Types
  BY DEF HttpInv
<1>2. Return(t, Ended(t, "error"))
  BY DEF Failed, Ended
<1> QED BY <1>1, <1>2, NotOk, CallEnds

\* The body of the answer cannot be read.
LEMMA BodyFails ==
  ASSUME HttpInv, NEW t \in Tasks, RequestFails(t)
  PROVE  HttpInv'
<1>1. Uses(t)
  BY DEF RequestFails, InPhase, Uses
<1> QED BY <1>1, Fails DEF RequestFails

\* What the server's end says of a connection.
LEMMA ServerUnaware ==
  ASSUME NEW c \in Conns, SameEnd(SEnd(c)), UNCHANGED <<srv, host, asked, handled>>
  PROVE  /\ ServerQuiet(c)' = ServerQuiet(c) /\ BrokenOff(c)' = BrokenOff(c)
         /\ \A len : Replied(c, len)' = Replied(c, len)
BY DEF SameEnd, ServerQuiet, BrokenOff, Replied

\* More bytes for the head of the response: they are those of the answer.
LEMMA ResponseFills ==
  ASSUME HttpInv, NEW t \in Tasks, InPhase(t, "head"), Fill(CEnd(task[t].conn)),
         UNCHANGED <<open, rd, task, result, srv, idle, host, client, messages, asked, handled>>
  PROVE  HttpInv'
<1>1. Uses(t)
  BY DEF InPhase, Uses
<1>a. PICK c \in Conns : c = task[t].conn
  BY <1>1, OwnConn
<1>b. PICK e \in Ends : e = CEnd(c)
  BY TwoEnds
<1>2. /\ c \in Conns /\ host[c] \in Authorities /\ host[c] = task[t].authority /\ open[e] /\ e \in Ends
      /\ SEnd(c) \in Ends /\ SEnd(c) # e
  BY <1>1, <1>a, <1>b, OwnConn, TwoEnds
<1>3. Bytes
  BY DEF HttpInv, Types, Bytes
<1>4. Bytes' /\ OnlyAt(e) /\ Available(e)' = Available(e)
  BY <1>2, <1>3, <1>a, <1>b, FillKeeps
<1>5. Types'
  BY <1>4 DEF HttpInv, Types, Bytes
<1>6. \A x \in Ends \ {e} : SameEnd(x)
  BY <1>4 DEF OnlyAt, SameEnd
<1>7. ~Silent(c)
  <2>1. PICK n : n \in 1..Len(wire[e])
    BY <1>a, <1>b DEF Fill
  <2>2. wire[e] # <<>>
    BY <2>1
  <2> QED BY <2>2, <1>b DEF Silent
<1>8. Answered(c, task[t].id) /\ asked[c] # <<>> /\ asked[c][Len(asked[c])].id = task[t].id
  BY <1>7, <1>a DEF HttpInv, CallInStep, InPhase, Unanswered
<1>9. Answered(c, task[t].id)'
  <2>1. SameEnd(SEnd(c))
    BY <1>2, <1>6
  <2>2. /\ ServerQuiet(c)' = ServerQuiet(c) /\ BrokenOff(c)' = BrokenOff(c)
        /\ \A len : Replied(c, len)' = Replied(c, len)
    BY <1>2, <2>1, ServerUnaware
  <2> QED BY <1>4, <1>8, <1>b, <2>2 DEF Answered
<1>10. CallInStep(t)'
  BY <1>8, <1>9, <1>a DEF CallInStep, InPhase
<1>11. Uses(t)' /\ task'[t].conn = c /\ c # 0 /\ open'[e] /\ task'[t].authority = task[t].authority
       /\ task'[t].authority \in Authorities
  BY <1>1, <1>2, <1>a, ConnNumbers DEF Uses
<1> QED BY <1>1, <1>2, <1>5, <1>6, <1>10, <1>11, <1>a, <1>b, ClientStep

\* The body of the response.
LEMMA ResponseReads ==
  ASSUME HttpInv, NEW t \in Tasks, InPhase(t, "body"), ReadBody(CEnd(task[t].conn))
  PROVE  HttpInv'
<1>1. Uses(t)
  BY DEF InPhase, Uses
<1>a. PICK c \in Conns : c = task[t].conn
  BY <1>1, OwnConn
<1>b. PICK e \in Ends : e = CEnd(c)
  BY TwoEnds
<1>c. PICK msg \in ResponseHeads : msg = task[t].head
  BY DEF HttpInv, CallInStep, InPhase
<1>2. /\ c \in Conns /\ host[c] \in Authorities /\ host[c] = task[t].authority /\ open[e] /\ e \in Ends
      /\ SEnd(c) \in Ends /\ SEnd(c) # e /\ rd[e] \in Readers
  BY <1>1, <1>a, <1>b, OwnConn, TwoEnds
<1>3. Bytes /\ rd \in [Ends -> Readers]
  BY DEF HttpInv, Types, Bytes
<1>4. /\ asked[c] # <<>> /\ asked[c][Len(asked[c])].id = task[t].id
      /\ msg.id = task[t].id /\ (IsRedirect(msg) => msg.location # None)
      /\ Answering(c, msg)
  BY <1>a, <1>c DEF HttpInv, CallInStep, InPhase
<1>5. /\ rd[e].state = "reading" /\ ReadStep(e)
      /\ UNCHANGED <<open, srv, task, idle, host, client, messages, asked, handled, result>>
  BY <1>a, <1>b DEF ReadBody, Reading, ReadStep, hist
<1>6. PICK len \in Lengths : Replied(c, len) /\ Reads(rd[e], Available(e), msg, len, <<>>, BrokenOff(c))
  BY <1>4, <1>b DEF Answering
<1>7. PICK broken : broken = BrokenOff(c)
  OBVIOUS
<1>8. msg \in Heads /\ len \in Nat /\ <<>> \in Seq(Units)
  BY DEF Heads, Lengths, None
<1>9. /\ Bytes' /\ OnlyAt(e) /\ rd' \in [Ends -> Readers] /\ \A x \in Ends \ {e} : rd'[x] = rd[x]
      /\ rd'[e].kind = rd[e].kind /\ rd'[e].state # "off"
      /\ Reads(rd'[e], Available(e)', msg, len, <<>>, broken)
      /\ rd[e].kind = "eof" /\ rd'[e].state = "finished" => Available(e)' = <<>>
  BY <1>2, <1>3, <1>5, <1>6, <1>7, <1>8, ReadBodyKeeps
<1>10. Types'
  BY <1>5, <1>9 DEF HttpInv, Types, Bytes
<1>11. \A x \in Ends \ {e} : SameEnd(x)
  BY <1>5, <1>9 DEF OnlyAt, SameEnd
<1>12. rd'[e].state = "finished" => Available(e)' = <<>>
  <2> SUFFICES ASSUME rd'[e].state = "finished", rd[e].kind # "eof" PROVE Available(e)' = <<>>
    BY <1>9
  <2>1. rd'[e] \in Readers /\ IsFinished(rd'[e]) /\ rd'[e].kind # "eof"
    BY <1>2, <1>9 DEF IsFinished
  <2>2. PICK r \in Readers : r = rd'[e]
    BY <2>1
  <2>3. Arrives(Available(e)', <<>>, broken)
    BY <1>8, <1>9, <2>1, <2>2, ReaderDone
  <2>4. Available(e)' \in Seq(Units)
    <3>1. PICK x, y \in Seq(Units) : x = buf'[e] /\ y = wire'[e]
      BY <1>2, <1>9 DEF Bytes
    <3>2. x \o y \in Seq(Units)
      BY ConcatElements
    <3> QED BY <3>1, <3>2 DEF Available
  <2> QED BY <2>3, <2>4, ArrivesNothing
<1>13. Answering(c, msg)'
  <2>1. SameEnd(SEnd(c))
    BY <1>2, <1>11
  <2>2. /\ ServerQuiet(c)' = ServerQuiet(c) /\ BrokenOff(c)' = BrokenOff(c)
        /\ Replied(c, len)' = Replied(c, len)
    BY <1>2, <1>5, <2>1, ServerUnaware
  <2>3. ServerQuiet(c) /\ rd[e].kind # "error"
    BY <1>4, <1>b DEF Answering
  <2> QED BY <1>6, <1>7, <1>9, <1>12, <1>b, <2>2, <2>3 DEF Answering
<1>14. CallInStep(t)'
  BY <1>4, <1>5, <1>13, <1>a, <1>c DEF CallInStep, InPhase
<1>15. Uses(t)' /\ task'[t].conn = c /\ c # 0 /\ open'[e] /\ task'[t].authority = task[t].authority
       /\ task'[t].authority \in Authorities
  BY <1>1, <1>2, <1>5, <1>a, ConnNumbers DEF Uses
<1> QED BY <1>1, <1>2, <1>5, <1>10, <1>11, <1>14, <1>15, <1>a, <1>b, ClientStep

\* The head of the response, and the reader of its body.
GotHead(k, m) == [k EXCEPT !.phase = "body", !.head = m]

\* The call after its head was read.
LEMMA GotHeadType ==
  ASSUME NEW k \in Calls, NEW m \in ResponseHeads
  PROVE  /\ GotHead(k, m) \in Calls /\ GotHead(k, m).phase = "body" /\ GotHead(k, m).head = m
         /\ GotHead(k, m).conn = k.conn /\ GotHead(k, m).id = k.id /\ GotHead(k, m).authority = k.authority
BY DEF GotHead, Calls

\* BodyReader::new at the client's end.
LEMMA ReaderBegins ==
  ASSUME NEW msg \in Heads, NEW len \in Nat, NEW k, KindFits(k, msg), k.kind # "error", Fits(k, msg, len),
         NEW max \in Nat
  PROVE  /\ Reader(k, max) \in Readers /\ Reader(k, max).kind = k.kind /\ Reader(k, max).state = "reading"
         /\ \A a, rest, broken : Arrives(a, BodyUnits(msg, len) \o rest, broken)
                                  => Reads(Reader(k, max), a, msg, len, rest, broken)
<1>1. PICK r : r = Reader(k, max)
  OBVIOUS
<1>2. /\ r \in Readers /\ r.kind = k.kind
      /\ \A a, rest, broken : Arrives(a, BodyUnits(msg, len) \o rest, broken)
                               => Reads(r, a, msg, len, rest, broken)
  BY <1>1, ReaderStarts
<1>3. Reader(k, max).state = "reading"
  BY DEF Reader, NoReader
<1> QED BY <1>1, <1>2, <1>3

\* r is ready for the body behind the head m.
Begins(r, m) ==
  /\ r \in Readers /\ r.kind # "error" /\ r.state = "reading"
  /\ \A len \in Lengths : Fits(ResponseBodyKind(m, FALSE), m, len) =>
       \A a, rest, broken : Arrives(a, BodyUnits(m, len) \o rest, broken)
                             => Reads(r, a, m, len, rest, broken)

\* The same with the limit of HttpClient.
LEMMA KindBegins ==
  ASSUME NEW m \in Heads, NEW k, KindFits(k, m), k.kind # "error"
  PROVE  LET r == Reader(k, MaxPooledBody)
         IN  /\ r \in Readers /\ r.kind # "error" /\ r.state = "reading"
             /\ \A len \in Lengths : Fits(k, m, len) =>
                  \A a, rest, broken : Arrives(a, BodyUnits(m, len) \o rest, broken)
                                        => Reads(r, a, m, len, rest, broken)
<1>1. MaxPooledBody \in Nat
  BY HttpAssumption
<1>2. 0 \in Lengths /\ Lengths \subseteq Nat
  BY DEF Lengths, None
<1>3. ASSUME NEW len \in Lengths, Fits(k, m, len)
      PROVE  /\ Reader(k, MaxPooledBody) \in Readers /\ Reader(k, MaxPooledBody).kind = k.kind
             /\ \A a, rest, broken : Arrives(a, BodyUnits(m, len) \o rest, broken)
                                      => Reads(Reader(k, MaxPooledBody), a, m, len, rest, broken)
  <2>1. len \in Nat
    BY <1>2
  <2> QED BY <1>1, <1>3, <2>1, ReaderBegins
<1>4. Reader(k, MaxPooledBody).state = "reading" /\ Reader(k, MaxPooledBody).kind = k.kind
  BY DEF Reader, NoReader
<1>5. Reader(k, MaxPooledBody) \in Readers
  <2>1. k.kind \in {"empty", "length", "chunked", "eof", "error"} /\ k.left \in Nat
    BY DEF KindFits
  <2> QED BY <1>1, <2>1, NoReaderType DEF Reader, Readers, NoReader
<1> QED BY <1>3, <1>4, <1>5

\* The same for the framing of a response.
LEMMA ResponseBegins ==
  ASSUME NEW m \in ResponseHeads, ResponseBodyKind(m, FALSE).kind # "error"
  PROVE  Begins(Reader(ResponseBodyKind(m, FALSE), MaxPooledBody), m)
<1>1. m \in Heads
  BY DEF Heads
<1>2. KindFits(ResponseBodyKind(m, FALSE), m)
  BY ResponseKind
<1> QED BY <1>1, <1>2, KindBegins DEF Begins

\* t takes head off the front of e, and r is to read the body.
TakesHead(t, e, head, r) ==
  /\ InPhase(t, "head") /\ e = CEnd(task[t].conn) /\ ParseHead(buf[e]) = "head"
  /\ head = buf[e][2].msg /\ (IsRedirect(head) => head.location # None)
  /\ head \in ResponseHeads => Begins(r, head)
  /\ DropFront(e, 2) /\ rd' = [rd EXCEPT ![e] = r]
  /\ task' = [task EXCEPT ![t] = GotHead(task[t], head)]
  /\ UNCHANGED <<wire, open, result, srv, idle, host, client, messages, asked, handled>>

\* The head that is read is that of the answer to the call's own request.
LEMMA ResponseTakesHead ==
  ASSUME HttpInv, NEW t \in Tasks, NEW e, NEW head, NEW r, TakesHead(t, e, head, r)
  PROVE  HttpInv'
<1>1. Uses(t)
  BY DEF TakesHead, InPhase, Uses
<1>t. /\ InPhase(t, "head") /\ e = CEnd(task[t].conn) /\ ParseHead(buf[e]) = "head"
      /\ head = buf[e][2].msg /\ (IsRedirect(head) => head.location # None)
  BY DEF TakesHead
<1>u. /\ DropFront(e, 2) /\ rd' = [rd EXCEPT ![e] = r]
      /\ UNCHANGED <<wire, open, result, srv, idle, host, client, messages, asked, handled>>
  BY DEF TakesHead
<1>2. PICK c \in Conns : c = task[t].conn
  BY <1>1, OwnConn
<1>3. /\ host[c] \in Authorities /\ host[c] = task[t].authority /\ open[e] /\ e \in Ends
      /\ SEnd(c) \in Ends /\ SEnd(c) # e /\ task[t] \in Calls /\ e = CEnd(c) /\ c # 0
  BY <1>1, <1>2, <1>t, OwnConn, TwoEnds
<1>4. Bytes /\ rd \in [Ends -> Readers] /\ buf[e] \in Seq(Units) /\ wire[e] \in Seq(Units)
      /\ task \in [Tasks -> Calls]
  BY <1>3 DEF HttpInv, Types, Bytes
<1>5. ~Silent(c)
  <2>1. buf[e] # <<>>
    BY <1>4, <1>t, HeadParsed
  <2> QED BY <1>3, <2>1 DEF Silent
<1>6. Answered(c, task[t].id) /\ asked[c] # <<>> /\ asked[c][Len(asked[c])].id = task[t].id
  BY <1>2, <1>5, <1>t DEF HttpInv, CallInStep, InPhase, Unanswered
<1>7. PICK m \in ResponseHeads, len \in Lengths :
        /\ m.id = task[t].id /\ m.wellformed /\ Fits(ResponseBodyKind(m, FALSE), m, len) /\ Replied(c, len)
        /\ Arrives(Available(e), MessageUnits(m, len), BrokenOff(c))
  BY <1>3, <1>6 DEF Answered
<1>8. PICK broken : broken = BrokenOff(c)
  OBVIOUS
<1>9. m \in Heads /\ len \in Nat /\ <<>> \in Seq(Units)
  BY DEF Heads, Lengths, None
<1>10. /\ MessageUnits(m, len) \o <<>> = MessageUnits(m, len)
       /\ BodyUnits(m, len) \o <<>> = BodyUnits(m, len)
  <2>1. MessageUnits(m, len) \in Seq(Units) /\ BodyUnits(m, len) \in Seq(Units)
    BY <1>9, BodyTypes
  <2> QED BY <2>1, ConcatEmptySeq
<1>11. /\ head = m /\ Bytes' /\ OnlyAt(e)
       /\ Arrives(Available(e)', BodyUnits(m, len) \o <<>>, broken)
  <2>1. Arrives(Available(e), MessageUnits(m, len) \o <<>>, broken)
    BY <1>7, <1>8, <1>10
  <2> QED BY <1>3, <1>4, <1>9, <1>t, <1>u, <2>1, HeadArrives
<1>14. Begins(r, m)
  BY <1>11 DEF TakesHead
<1>15. \A a, rest, b : Arrives(a, BodyUnits(m, len) \o rest, b) => Reads(r, a, m, len, rest, b)
  BY <1>7, <1>14 DEF Begins
<1>16. r \in Readers /\ r.state = "reading" /\ r.kind # "error"
  BY <1>14 DEF Begins
<1>17. rd' \in [Ends -> Readers] /\ rd'[e] = r /\ \A x \in Ends \ {e} : rd'[x] = rd[x]
  BY <1>3, <1>4, <1>16, <1>u
<1>18. Reads(rd'[e], Available(e)', m, len, <<>>, broken)
  <2>1. Reads(r, Available(e)', m, len, <<>>, broken)
    BY <1>11, <1>15
  <2> QED BY <1>17, <2>1
<1>19. /\ task' \in [Tasks -> Calls] /\ task'[t].phase = "body" /\ task'[t].head = m
       /\ task'[t].conn = c /\ task'[t].id = task[t].id /\ task'[t].authority = task[t].authority
       /\ \A u \in Tasks \ {t} : task'[u] = task[u]
  <2>1. task' = [task EXCEPT ![t] = GotHead(task[t], m)]
    BY <1>11 DEF TakesHead
  <2>2. PICK g \in Calls :
          /\ g = GotHead(task[t], m) /\ g.phase = "body" /\ g.head = m
          /\ g.conn = c /\ g.id = task[t].id /\ g.authority = task[t].authority
    BY <1>2, <1>3, GotHeadType
  <2>3. task' = [task EXCEPT ![t] = g]
    BY <2>1, <2>2
  <2> QED BY <1>4, <2>2, <2>3
<1>20. Types'
  BY <1>11, <1>17, <1>19, <1>u DEF HttpInv, Types, Bytes
<1>21. \A x \in Ends \ {e} : SameEnd(x)
  BY <1>11, <1>17, <1>u DEF OnlyAt, SameEnd
<1>22. Answering(c, m)'
  <2>1. SameEnd(SEnd(c))
    BY <1>3, <1>21
  <2>2. /\ ServerQuiet(c)' = ServerQuiet(c) /\ BrokenOff(c)' = BrokenOff(c)
        /\ Replied(c, len)' = Replied(c, len)
    BY <1>3, <1>u, <2>1, ServerUnaware
  <2>3. ServerQuiet(c)
    BY <1>6 DEF Answered
  <2>4. Reads(rd'[e], Available(e)', m, len, <<>>, BrokenOff(c)')
    BY <1>8, <1>18, <2>2
  <2>5. rd'[e].kind # "error" /\ rd'[e].state = "reading"
    BY <1>16, <1>17
  <2>6. Replied(c, len)' /\ ServerQuiet(c)'
    BY <1>7, <2>2, <2>3
  <2> QED BY <1>3, <2>4, <2>5, <2>6 DEF Answering
<1>23. CallInStep(t)'
  <2>1. IsRedirect(m) => m.location # None
    BY <1>11, <1>t
  <2>2. asked' = asked /\ m.id = task[t].id
    BY <1>7, <1>u
  <2> QED BY <1>6, <1>19, <1>22, <2>1, <2>2 DEF CallInStep
<1>24. Uses(t)'
  BY <1>19 DEF Uses
<1>25. /\ UNCHANGED <<srv, idle, host, client, messages, asked, handled>>
       /\ \A u \in Tasks \ {t} : task'[u] = task[u] /\ result'[u] = result[u]
       /\ task'[t].conn \in {0, c} /\ (task'[t].conn # 0 <=> Uses(t)')
  BY <1>3, <1>19, <1>24, <1>u
<1>26. /\ task'[t].authority = task[t].authority /\ task'[t].authority \in Authorities /\ open'[CEnd(c)]
       /\ result'[t] = result[t]
  BY <1>3, <1>19, <1>u
<1> QED BY <1>1, <1>2, <1>3, <1>20, <1>21, <1>23, <1>25, <1>26, ClientStep

\* read_response_head, whatever it finds.
LEMMA HeadRead ==
  ASSUME HttpInv, NEW t \in Tasks, ReadResponseHead(t)
  PROVE  HttpInv'
<1>1. Uses(t) /\ InPhase(t, "head") /\ UNCHANGED <<srv, idle, host, client, messages, asked, handled>>
  BY DEF ReadResponseHead, InPhase, Uses
<1>2. PICK e : e = CEnd(task[t].conn)
  OBVIOUS
<1>3. PICK head : head = buf[e][2].msg
  OBVIOUS
<1>4. ResponseBodyKind(head, task[t].method = "HEAD") = ResponseBodyKind(head, FALSE)
  <2>1. task[t].method # "HEAD"
    BY DEF HttpInv, Types, Calls
  <2> QED BY <2>1 DEF ResponseBodyKind
<1>5. \/ /\ ParseHead(buf[e]) = "head" /\ ResponseBodyKind(head, FALSE).kind # "error"
         /\ (IsRedirect(head) => head.location # None)
         /\ DropFront(e, 2) /\ rd' = [rd EXCEPT ![e] = Reader(ResponseBodyKind(head, FALSE), MaxPooledBody)]
         /\ task' = [task EXCEPT ![t].phase = "body", ![t].head = head]
         /\ UNCHANGED <<wire, open, result>>
      \/ Drop(e) /\ Failed(t) /\ UNCHANGED wire
      \/ Fill(e) /\ UNCHANGED <<open, rd, task, result>>
  BY <1>2, <1>3, <1>4 DEF ReadResponseHead
<1>6. CASE /\ ParseHead(buf[e]) = "head" /\ ResponseBodyKind(head, FALSE).kind # "error"
           /\ (IsRedirect(head) => head.location # None)
           /\ DropFront(e, 2) /\ rd' = [rd EXCEPT ![e] = Reader(ResponseBodyKind(head, FALSE), MaxPooledBody)]
           /\ task' = [task EXCEPT ![t].phase = "body", ![t].head = head]
           /\ UNCHANGED <<wire, open, result>>
  <2>1. task' = [task EXCEPT ![t] = GotHead(task[t], head)]
    <3>1. task \in [Tasks -> Calls]
      BY DEF HttpInv, Types
    <3> QED BY <1>6, <3>1 DEF GotHead
  <2>2. PICK r : r = Reader(ResponseBodyKind(head, FALSE), MaxPooledBody) /\ rd' = [rd EXCEPT ![e] = r]
    BY <1>6
  <2>3. head \in ResponseHeads => Begins(r, head)
    BY <1>6, <2>2, ResponseBegins
  <2>4. TakesHead(t, e, head, r)
    BY <1>1, <1>2, <1>3, <1>6, <2>1, <2>2, <2>3 DEF TakesHead
  <2> QED BY <2>4, ResponseTakesHead
<1>7. CASE Drop(e) /\ Failed(t) /\ UNCHANGED wire
  BY <1>1, <1>2, <1>7, Fails
<1>8. CASE Fill(e) /\ UNCHANGED <<open, rd, task, result>>
  BY <1>1, <1>2, <1>8, ResponseFills
<1> QED BY <1>5, <1>6, <1>7, <1>8

\* A redirect is followed on another connection.
Redirected(k) ==
  [k EXCEPT !.phase = "connect", !.conn = 0, !.len = 0,
            !.authority = ResolveRedirect(k.authority, k.head.location), !.hops = @ + 1]

\* The fields of a call that a step sets.
Moved(k, p, c) == [k EXCEPT !.phase = p, !.conn = c]
Aimed(k, l, a) == [k EXCEPT !.len = l, !.authority = a]

\* Each leaves the others as they are.
LEMMA MovedType ==
  ASSUME NEW k \in Calls, NEW p \in {"idle", "connect", "send", "head", "body"}, NEW c \in {0} \cup Conns
  PROVE  /\ Moved(k, p, c) \in Calls /\ Moved(k, p, c).phase = p /\ Moved(k, p, c).conn = c
         /\ Moved(k, p, c).authority = k.authority /\ Moved(k, p, c).id = k.id
BY DEF Moved, Calls

\* The same of a call that has got a connection.
LEMMA SendType ==
  \A k \in Calls, c \in Conns :
    /\ Moved(k, "send", c) \in Calls /\ Moved(k, "send", c).phase = "send" /\ Moved(k, "send", c).conn = c
    /\ Moved(k, "send", c).authority = k.authority
<1>1. ASSUME NEW k \in Calls, NEW c \in {0} \cup Conns
      PROVE  /\ Moved(k, "send", c) \in Calls /\ Moved(k, "send", c).phase = "send"
             /\ Moved(k, "send", c).conn = c /\ Moved(k, "send", c).authority = k.authority
  BY DEF Moved, Calls
<1> QED BY <1>1

\* The same of a call that is sent elsewhere.
LEMMA AimedType ==
  ASSUME NEW k \in Calls, NEW l \in Lengths, NEW a \in Authorities
  PROVE  /\ Aimed(k, l, a) \in Calls /\ Aimed(k, l, a).phase = k.phase /\ Aimed(k, l, a).conn = k.conn
         /\ Aimed(k, l, a).authority = a
BY DEF Aimed, Calls

\* The same of the number of redirects.
LEMMA HoppedType ==
  ASSUME NEW k \in Calls, NEW h \in Nat
  PROVE  /\ [k EXCEPT !.hops = h] \in Calls /\ [k EXCEPT !.hops = h].phase = k.phase
         /\ [k EXCEPT !.hops = h].conn = k.conn /\ [k EXCEPT !.hops = h].authority = k.authority
BY DEF Calls

\* A redirected call has no connection.
LEMMA RedirectedType ==
  ASSUME NEW k \in Calls, k.head \in ResponseHeads, k.head.location # None, k.authority \in Authorities
  PROVE  /\ Redirected(k) \in Calls /\ Redirected(k).phase = "connect" /\ Redirected(k).conn = 0
         /\ Redirected(k).authority \in Authorities
<1>1. PICK a \in Authorities : a = ResolveRedirect(k.authority, k.head.location)
  BY DEF ResolveRedirect, ResponseHeads, Locations
<1>2. 0 \in Lengths
  BY DEF Lengths, None
<1>3. PICK h \in Nat : h = k.hops + 1
  BY DEF Calls
<1>4. Redirected(k) = [k EXCEPT !.phase = "connect", !.conn = 0, !.len = 0, !.authority = a, !.hops = h]
  BY <1>1, <1>3 DEF Redirected
<1>5. PICK l \in Lengths : l = 0
  BY <1>2
<1>6. PICK f \in Calls : f = Moved(k, "connect", 0) /\ f.phase = "connect" /\ f.conn = 0
  BY MovedType
<1>7. PICK g \in Calls : g = Aimed(f, l, a) /\ g.authority = a /\ g.phase = f.phase /\ g.conn = f.conn
  BY AimedType
<1>8. [g EXCEPT !.hops = h] \in Calls /\ [g EXCEPT !.hops = h].authority = a
      /\ [g EXCEPT !.hops = h].phase = g.phase /\ [g EXCEPT !.hops = h].conn = g.conn
  BY <1>7, HoppedType
<1>9. Redirected(k) = [g EXCEPT !.hops = h]
  BY <1>4, <1>5, <1>6, <1>7 DEF Moved, Aimed
<1> QED BY <1>6, <1>7, <1>8, <1>9

\* A redirect drops the connection.
LEMMA Redirects ==
  ASSUME HttpInv, NEW t \in Tasks, FollowRedirect(t)
  PROVE  HttpInv'
<1>1. Uses(t) /\ InPhase(t, "body") /\ Drop(CEnd(task[t].conn)) /\ IsRedirect(task[t].head)
      /\ UNCHANGED <<wire, srv, idle, host, client, messages, asked, handled, result>>
  BY DEF FollowRedirect, InPhase, Uses, hist
<1>2. task' = [task EXCEPT ![t] = Redirected(task[t])]
  BY DEF FollowRedirect, Redirected
<1>3. PICK c \in Conns : c = task[t].conn
  BY <1>1, OwnConn
<1>4. PICK e \in Ends : e = CEnd(c)
  BY TwoEnds
<1>5. Types /\ task \in [Tasks -> Calls] /\ task[t] \in Calls /\ task[t].authority \in Authorities
      /\ task[t].head \in ResponseHeads /\ task[t].head.location # None
  <2>1. CallInStep(t) /\ TaskOwns(t) /\ Types
    BY DEF HttpInv, Owned
  <2>2. task \in [Tasks -> Calls]
    BY <2>1 DEF Types
  <2> QED BY <1>1, <2>1, <2>2 DEF CallInStep, TaskOwns, InPhase
<1>6. PICK g \in Calls :
        g = Redirected(task[t]) /\ g.phase = "connect" /\ g.conn = 0 /\ g.authority \in Authorities
  BY <1>5, RedirectedType
<1>7. /\ task' \in [Tasks -> Calls] /\ task'[t] = g /\ \A u \in Tasks \ {t} : task'[u] = task[u]
  BY <1>2, <1>5, <1>6
<1>8. /\ open' \in [Ends -> BOOLEAN] /\ buf' \in [Ends -> Seq(Units)] /\ rd' \in [Ends -> Readers]
      /\ \A x \in Ends \ {e} : open'[x] = open[x] /\ buf'[x] = buf[x] /\ rd'[x] = rd[x]
  BY <1>1, <1>3, <1>4, <1>5, DropTypes
<1>9. Types'
  BY <1>1, <1>5, <1>7, <1>8 DEF Types
<1>10. \A x \in Ends \ {e} : SameEnd(x)
  BY <1>1, <1>8 DEF SameEnd
<1>11. /\ task'[t].conn = 0 /\ ~Uses(t)' /\ CallInStep(t)' /\ task'[t].authority \in Authorities
  BY <1>6, <1>7 DEF Uses, CallInStep
<1>12. \A u \in Tasks \ {t} : task'[u] = task[u] /\ result'[u] = result[u]
  BY <1>1, <1>7
<1> QED BY <1>1, <1>3, <1>4, <1>9, <1>10, <1>11, <1>12, ClientStep

-----------------------------------------------------------------------------
\* A body that is finished although its sender did not break off is whole.
LEMMA BodyWhole ==
  ASSUME NEW r \in Readers, NEW msg \in Heads, NEW len \in Nat, r.state = "finished",
         Reads(r, <<>>, msg, len, <<>>, FALSE)
  PROVE  Len(r.out) = len
<1> DEFINE body == BodyUnits(msg, len)
<1>1. PICK q \in 0..Len(body) :
        /\ Stands(r, msg, len, q)
        /\ Arrives(<<>>, SubSeq(body, q + 1, Len(body)) \o <<>>, FALSE)
        /\ r.kind # "eof" => q = Len(body)
  BY DEF Reads, Before
<1>2. /\ body \in Seq(Units) /\ Len(body) \in Nat
      /\ msg.te # "chunked" => Len(body) = len
  <2>1. body \in Seq(Units) /\ (msg.te # "chunked" => Len(body) = len)
    BY BodyTypes
  <2> HIDE DEF body
  <2> QED BY <2>1
<1> HIDE DEF body
<1>3. q = Len(body)
  <2>1. PICK s \in Seq(Units) : s = SubSeq(body, q + 1, Len(body)) /\ Len(s) = Len(body) - q
    <3>1. SubSeq(body, q + 1, Len(body)) \in Seq(Units) /\ Len(SubSeq(body, q + 1, Len(body))) = Len(body) - q
      BY <1>2, CutSeq
    <3> QED BY <3>1
  <2>2. s \o <<>> = s
    BY ConcatEmptySeq
  <2>3. Arrives(<<>>, s, FALSE)
    BY <1>1, <2>1, <2>2
  <2>4. s = <<>>
    BY <2>3 DEF Arrives
  <2>5. Len(s) = 0
    BY <2>4
  <2> QED BY <1>2, <2>1, <2>5
<1>4. Len(r.out) \in Nat
  BY ReaderFields
<1> QED BY <1>1, <1>2, <1>3, <1>4 DEF Stands

\* What the caller of a finished call is told.
LEMMA FinishedTrue ==
  ASSUME HttpInv, NEW t \in Tasks, InPhase(t, "body"), NEW c \in Conns, c = task[t].conn,
         NEW r \in Readers, r = rd[CEnd(c)], r.state = "finished"
  PROVE  /\ r.out = DataUnits(task[t].id, Len(r.out)) /\ task[t].id <= messages
         /\ ServerQuiet(c) /\ Available(CEnd(c)) = <<>>
         /\ \A d \in Conns : \A i \in 1..Len(asked[d]) :
              asked[d][i].id = task[t].id => Settled(d, i, Len(r.out))
<1>1. PICK msg \in ResponseHeads : msg = task[t].head
  BY DEF HttpInv, CallInStep, InPhase
<1>2. /\ msg.id = task[t].id /\ Answering(c, msg) /\ asked[c] # <<>>
      /\ asked[c][Len(asked[c])].id = task[t].id
  BY <1>1 DEF HttpInv, CallInStep, InPhase
<1>3. ServerQuiet(c) /\ Available(CEnd(c)) = <<>>
  BY <1>2 DEF Answering
<1>4. PICK len \in Lengths : Replied(c, len) /\ Reads(r, <<>>, msg, len, <<>>, BrokenOff(c))
  BY <1>2, <1>3 DEF Answering
<1>5. r.out = DataUnits(msg.id, Len(r.out))
  BY <1>4 DEF Reads, Taken
<1>6. msg \in Heads /\ len \in Nat
  BY DEF Heads, Lengths, None
<1>7. PICK n \in Nat : n = Len(asked[c]) /\ n \in 1..Len(asked[c])
  <2>1. asked[c] \in Asks
    BY DEF HttpInv, Types
  <2>2. PICK s \in Asks : s = asked[c]
    BY <2>1
  <2>3. Len(s) \in Nat /\ Len(s) \in 1..Len(s)
    BY <1>2, <2>2 DEF Asks
  <2> QED BY <2>2, <2>3
<1>8. Settled(c, n, Len(r.out))
  <2>1. CASE host[c] \in Foreign
    BY <2>1 DEF HttpInv, ServerSide, Connected, Settled
  <2>2. CASE host[c] \notin Foreign
    <3>1. BrokenOff(c) = FALSE
      BY <2>2 DEF BrokenOff
    <3>2. Reads(r, <<>>, msg, len, <<>>, FALSE)
      BY <1>4, <3>1
    <3>3. Len(r.out) = len
      BY <1>6, <3>2, BodyWhole
    <3>4. n = Len(handled[c]) /\ handled[c][n].reply = len
      BY <1>4, <1>7, <2>2 DEF Replied
    <3>5. srv[c].phase # "handle"
      BY <1>3, <2>2 DEF ServerQuiet
    <3> QED BY <3>3, <3>4, <3>5 DEF Settled
  <2> QED BY <2>1, <2>2
<1>9. IdsDiffer
  BY DEF HttpInv
<1>10. task[t].id <= messages
  BY <1>2, <1>7, <1>9 DEF IdsDiffer
<1>11. ASSUME NEW d \in Conns, NEW i \in 1..Len(asked[d]), asked[d][i].id = task[t].id
       PROVE  Settled(d, i, Len(r.out))
  <2>1. d = c /\ i = n
    BY <1>2, <1>7, <1>9, <1>11 DEF IdsDiffer
  <2> QED BY <1>8, <2>1
<1> QED BY <1>2, <1>3, <1>5, <1>10, <1>11

\* A connection that belongs into the pool of b.
Pooled(b, d) == host[d] = b /\ open[CEnd(d)] /\ Resting(d) /\ \A u \in Tasks : task[u].conn # d

\* p is what the pool may hold for b.
Pool(b, p) ==
  /\ Len(p) <= MaxIdle
  /\ \A i \in 1..Len(p) :
       /\ \E d \in Conns : d = p[i] /\ Pooled(b, d)
       /\ \A j \in 1..Len(p) : p[j] = p[i] => j = i

\* The pool, host by host.
LEMMA PoolFrom ==
  ASSUME \A b \in Authorities : \E p \in Seq(Conns) : p = idle'[b] /\ Pool(b, p)'
  PROVE  (\A b \in Authorities : PoolOwns(b)') /\ PoolInStep'
<1>1. ASSUME NEW b \in Authorities, NEW i \in 1..Len(idle'[b])
      PROVE  /\ host'[idle'[b][i]] = b /\ open'[CEnd(idle'[b][i])]
             /\ \A u \in Tasks : task'[u].conn # idle'[b][i]
             /\ Len(idle'[b]) <= MaxIdle
             /\ \A j \in 1..Len(idle'[b]) : idle'[b][j] = idle'[b][i] => j = i
             /\ \E d \in Conns : d = idle'[b][i] /\ Pooled(b, d)'
  <2>1. PICK p \in Seq(Conns) : p = idle'[b] /\ Pool(b, p)'
    OBVIOUS
  <2>2. PICK d \in Conns : d = p[i] /\ Pooled(b, d)'
    BY <2>1 DEF Pool
  <2>3. Len(p) <= MaxIdle /\ \A j \in 1..Len(p) : p[j] = p[i] => j = i
    BY <2>1 DEF Pool, MaxIdle
  <2>4. host'[d] = b /\ open'[CEnd(d)] /\ \A u \in Tasks : task'[u].conn # d
    BY <2>2 DEF Pooled
  <2> QED BY <2>1, <2>2, <2>3, <2>4
<1>2. \A b \in Authorities : PoolOwns(b)'
  <2> SUFFICES ASSUME NEW b \in Authorities PROVE PoolOwns(b)'
    OBVIOUS
  <2>1. Len(idle'[b]) <= MaxIdle
    BY DEF Pool, MaxIdle
  <2> QED BY <1>1, <2>1 DEF PoolOwns, MaxIdle
<1>3. PoolInStep'
  <2> SUFFICES ASSUME NEW b \in Authorities, NEW i \in 1..Len(idle'[b]) PROVE Resting(idle[b][i])'
    BY DEF PoolInStep
  <2>1. PICK d \in Conns : d = idle'[b][i] /\ Pooled(b, d)'
    BY <1>1
  <2>2. Resting(d)'
    BY <2>1 DEF Pooled
  <2> QED BY <2>1, <2>2 DEF Resting, Silent, ServerQuiet
<1> QED BY <1>2, <1>3

\* What is in the pool stays fit for it.
LEMMA PooledStays ==
  ASSUME HttpInv, NEW t \in Tasks, NEW c \in Conns, \A u \in Tasks \ {t} : task'[u] = task[u],
         \A d \in Conns \ {c} : SameConn(d), NEW b \in Authorities, NEW i \in 1..Len(idle[b]),
         idle[b][i] # c, task'[t].conn \in {0, c} \/ task'[t].conn = task[t].conn
  PROVE  \E d \in Conns \ {c} : d = idle[b][i] /\ Pooled(b, d)'
<1>1. idle[b][i] \in Conns /\ PoolOwns(b) /\ PoolInStep
  BY PoolElement DEF HttpInv, Owned
<1>2. PICK d \in Conns \ {c} : d = idle[b][i]
  BY <1>1
<1>3. SameConn(d) /\ ServerSide(d) /\ Resting(d)
  BY <1>1, <1>2 DEF HttpInv, PoolInStep
<1>4. Resting(d)'
  BY <1>3, SameConnKeeps DEF ClientKept
<1>5. host'[d] = b /\ open'[CEnd(d)]
  BY <1>1, <1>2, <1>3 DEF PoolOwns, SameConn, SameEnd
<1>6. \A u \in Tasks : task'[u].conn # d
  <2>1. \A u \in Tasks : task[u].conn # d
    BY <1>1, <1>2 DEF PoolOwns
  <2>2. d # 0
    BY ConnNumbers
  <2> QED BY <2>1, <2>2
<1> QED BY <1>2, <1>4, <1>5, <1>6 DEF Pooled

\* A connection is put into the pool.
LEMMA PoolGrows ==
  ASSUME HttpInv, NEW t \in Tasks, NEW c \in Conns, NEW a \in Authorities, Mine(t, c), CanKeep(a),
         idle' = [idle EXCEPT ![a] = Append(@, c)], \A u \in Tasks \ {t} : task'[u] = task[u],
         task'[t].conn = 0, \A d \in Conns \ {c} : SameConn(d),
         host'[c] = a, open'[CEnd(c)], Resting(c)'
  PROVE  (\A b \in Authorities : PoolOwns(b)') /\ PoolInStep'
<1>1. ASSUME NEW b \in Authorities, NEW i \in 1..Len(idle[b])
      PROVE  /\ \E d \in Conns : d = idle[b][i] /\ Pooled(b, d)'
             /\ idle[b][i] # c /\ \A j \in 1..Len(idle[b]) : idle[b][j] = idle[b][i] => j = i
  <2>1. idle[b][i] # c /\ PoolOwns(b)
    BY DEF Mine, HttpInv, Owned
  <2>2. \A j \in 1..Len(idle[b]) : idle[b][j] = idle[b][i] => j = i
    BY <2>1 DEF PoolOwns
  <2>3. \E d \in Conns \ {c} : d = idle[b][i] /\ Pooled(b, d)'
    BY <2>1, PooledStays
  <2> QED BY <2>1, <2>2, <2>3
<1>2. idle \in [Authorities -> Seq(Conns)] /\ MaxIdle \in Nat
  BY HttpAssumption DEF HttpInv, Types, MaxIdle
<1>3. PICK s \in Seq(Conns) : s = idle[a]
  BY <1>2
<1>4. PICK n \in Nat : n = Len(s)
  OBVIOUS
<1>5. PICK w \in Seq(Conns) : w = Append(s, c)
  <2>1. Append(s, c) \in Seq(Conns)
    BY AppendProperties
  <2> QED BY <2>1
<1>6. /\ Len(w) = n + 1 /\ w[n + 1] = c /\ \A i \in 1..n : w[i] = s[i]
  BY <1>4, <1>5, AppendProperties
<1>7. idle'[a] = w /\ \A b \in Authorities \ {a} : idle'[b] = idle[b]
  BY <1>2, <1>3, <1>5
<1>8. Pooled(a, c)'
  BY ConnNumbers DEF Mine, Pooled
<1>9. ASSUME NEW b \in Authorities \ {a}
      PROVE  \E p \in Seq(Conns) : p = idle'[b] /\ Pool(b, p)'
  <2>1. PICK p \in Seq(Conns) : p = idle[b]
    BY <1>2
  <2>2. idle'[b] = p /\ Len(p) <= MaxIdle
    BY <1>7, <2>1 DEF HttpInv, Owned, PoolOwns
  <2>3. \A i \in 1..Len(p) : /\ \E d \in Conns : d = p[i] /\ Pooled(b, d)'
                             /\ \A j \in 1..Len(p) : p[j] = p[i] => j = i
    BY <1>1, <2>1
  <2>4. Pool(b, p)'
    BY <2>2, <2>3 DEF Pool, MaxIdle
  <2> QED BY <2>2, <2>4
<1>10. n + 1 <= MaxIdle
  BY <1>2, <1>3, <1>4 DEF CanKeep
<1>11. ASSUME NEW i \in 1..(n + 1)
       PROVE  /\ \E d \in Conns : d = w[i] /\ Pooled(a, d)'
              /\ \A j \in 1..(n + 1) : w[j] = w[i] => j = i
  <2>1. \A j \in 1..(n + 1) : j \in 1..n \/ j = n + 1
    OBVIOUS
  <2>2. \A j \in 1..n : w[j] # c /\ w[j] = s[j]
    BY <1>1, <1>3, <1>4, <1>6
  <2>3. CASE i \in 1..n
    <3>1. /\ \E d \in Conns : d = s[i] /\ Pooled(a, d)'
          /\ \A j \in 1..n : s[j] = s[i] => j = i
      BY <1>1, <1>3, <1>4, <2>3
    <3> QED BY <1>6, <2>1, <2>2, <2>3, <3>1
  <2>4. CASE i = n + 1
    BY <1>6, <1>8, <2>1, <2>2, <2>4
  <2> QED BY <2>1, <2>3, <2>4
<1>12. Pool(a, w)'
  <2>1. Len(w) = n + 1
    BY <1>6
  <2> QED BY <1>10, <1>11, <2>1 DEF Pool, MaxIdle
<1>13. ASSUME NEW b \in Authorities
       PROVE  \E p \in Seq(Conns) : p = idle'[b] /\ Pool(b, p)'
  <2>1. CASE b = a
    BY <1>7, <1>12, <2>1
  <2>2. CASE b # a
    BY <1>9, <2>2
  <2> QED BY <2>1, <2>2
<1> QED BY <1>13, PoolFrom

\* The response is returned.
Whole(id, s) == [kind |-> "ok", id |-> id, body |-> s]

\* The result of a call that succeeded.
LEMMA WholeType ==
  ASSUME NEW id \in Nat, NEW s \in Seq(Units)
  PROVE  Whole(id, s) \in Results /\ Whole(id, s).kind = "ok" /\ Whole(id, s).id = id /\ Whole(id, s).body = s
BY DEF Whole, Results

\* Nothing is the concatenation of nothing and nothing.
LEMMA BothEmpty ==
  ASSUME NEW x \in Seq(Units), NEW y \in Seq(Units), x \o y = <<>>
  PROVE  x = <<>> /\ y = <<>>
<1>1. Len(x \o y) = Len(x) + Len(y)
  BY ConcatProperties
<1>2. Len(x) = 0 /\ Len(y) = 0
  <2>1. Len(x \o y) = 0
    OBVIOUS
  <2> QED BY <1>1, <2>1
<1> QED BY <1>2, EmptySeq

\* A call ends, and its connection is in step when it goes into the pool.
LEMMA Finishes ==
  ASSUME HttpInv, NEW t \in Tasks, FinishRequest(t)
  PROVE  HttpInv'
<1>1. Uses(t) /\ InPhase(t, "body")
  BY DEF FinishRequest, InPhase, Uses
<1>2. PICK c \in Conns : c = task[t].conn
  BY <1>1, OwnConn
<1>3. PICK e \in Ends : e = CEnd(c)
  BY TwoEnds
<1>4. PICK r \in Readers : r = rd[e]
  BY DEF HttpInv, Types
<1>5. PICK a \in Authorities : a = task[t].authority
  BY <1>1 DEF HttpInv, Owned, TaskOwns, InPhase
<1>6. PICK v \in Results : v = Whole(task[t].id, r.out) /\ v.kind = "ok" /\ v.id = task[t].id /\ v.body = r.out
  <2>1. task[t].id \in Nat
    BY DEF HttpInv, Types, Calls
  <2>2. r.out \in Seq(Units)
    BY ReaderFields
  <2> QED BY <2>1, <2>2, WholeType
<1>7. /\ r.state = "finished" /\ Return(t, v)
      /\ \/ /\ CanKeep(a)
            /\ idle' = [idle EXCEPT ![a] = Append(@, c)]
            /\ buf' = [buf EXCEPT ![e] = <<>>]
            /\ rd' = [rd EXCEPT ![e] = NoReader]
            /\ UNCHANGED open
         \/ Drop(e) /\ UNCHANGED idle
      /\ UNCHANGED <<wire, srv, host, client, messages, asked, handled>>
  BY <1>2, <1>3, <1>4, <1>5, <1>6 DEF FinishRequest, Whole
<1>8. /\ r.out = DataUnits(task[t].id, Len(r.out)) /\ task[t].id <= messages
      /\ ServerQuiet(c) /\ Available(e) = <<>>
      /\ \A d \in Conns : \A i \in 1..Len(asked[d]) :
           asked[d][i].id = task[t].id => Settled(d, i, Len(r.out))
  BY <1>1, <1>2, <1>3, <1>4, <1>7, FinishedTrue
<1>9. Types /\ Idle \in Calls /\ Idle.phase = "idle" /\ Idle.conn = 0
  BY IdleType DEF HttpInv
<1>10. /\ task' \in [Tasks -> Calls] /\ task'[t] = Idle /\ result' \in [Tasks -> Results] /\ result'[t] = v
       /\ \A u \in Tasks \ {t} : task'[u] = task[u] /\ result'[u] = result[u]
  BY <1>7, <1>9 DEF Types, Return
<1>11. ResultTrue(t)'
  <2>1. \A d \in Conns : \A i, n : Settled(d, i, n)' = Settled(d, i, n)
    BY <1>7 DEF Settled
  <2>2. /\ v.body = DataUnits(v.id, Len(v.body)) /\ v.id <= messages
        /\ \A d \in Conns : \A i \in 1..Len(asked[d]) : asked[d][i].id = v.id => Settled(d, i, Len(v.body))'
    BY <1>6, <1>8, <2>1
  <2>3. asked' = asked /\ messages' = messages
    BY <1>7
  <2> QED BY <1>10, <2>2, <2>3 DEF ResultTrue, Settled
<1>12. task'[t].conn = 0 /\ task'[t].phase = "idle" /\ ~Uses(t)' /\ CallInStep(t)'
  BY <1>9, <1>10 DEF Uses, CallInStep
<1>13. CASE Drop(e) /\ UNCHANGED idle
  <2>1. /\ open' \in [Ends -> BOOLEAN] /\ buf' \in [Ends -> Seq(Units)] /\ rd' \in [Ends -> Readers]
        /\ \A x \in Ends \ {e} : open'[x] = open[x] /\ buf'[x] = buf[x] /\ rd'[x] = rd[x]
    BY <1>9, <1>13, DropTypes
  <2>2. Types'
    BY <1>7, <1>9, <1>10, <1>13, <2>1 DEF Types
  <2>3. \A x \in Ends \ {CEnd(c)} : SameEnd(x)
    BY <1>3, <1>7, <2>1 DEF SameEnd
  <2>4. UNCHANGED <<srv, idle, host, client, messages, asked, handled>>
    BY <1>7, <1>13
  <2> QED BY <1>1, <1>2, <1>10, <1>11, <1>12, <2>2, <2>3, <2>4, ClientStep
<1>14. CASE /\ CanKeep(a)
            /\ idle' = [idle EXCEPT ![a] = Append(@, c)]
            /\ buf' = [buf EXCEPT ![e] = <<>>]
            /\ rd' = [rd EXCEPT ![e] = NoReader]
            /\ UNCHANGED open
  <2>1. /\ c # 0 /\ host[c] = a /\ host[c] # 0 /\ open[e] /\ Mine(t, c) /\ client = "ours" /\ ServerSide(c)
    BY <1>1, <1>2, <1>3, <1>5, OwnConn
  <2>2. /\ buf' \in [Ends -> Seq(Units)] /\ rd' \in [Ends -> Readers] /\ buf'[e] = <<>> /\ rd'[e] = NoReader
        /\ \A x \in Ends \ {e} : buf'[x] = buf[x] /\ rd'[x] = rd[x]
    <3>1. <<>> \in Seq(Units) /\ NoReader \in Readers
      BY NoReaderType
    <3> QED BY <1>9, <1>14, <3>1 DEF Types
  <2>3. idle' \in [Authorities -> Seq(Conns)]
    <3>1. idle \in [Authorities -> Seq(Conns)] /\ idle[a] \in Seq(Conns)
      BY <1>9 DEF Types
    <3>2. PICK p \in Seq(Conns) : p = Append(idle[a], c)
      <4>1. Append(idle[a], c) \in Seq(Conns)
        BY <3>1, AppendProperties
      <4> QED BY <4>1
    <3>3. idle' = [idle EXCEPT ![a] = p]
      BY <1>14, <3>2
    <3> QED BY <3>1, <3>3
  <2>4. Types'
    BY <1>7, <1>9, <1>10, <1>14, <2>2, <2>3 DEF Types
  <2>5. \A x \in Ends \ {e} : SameEnd(x)
    BY <1>7, <1>14, <2>2 DEF SameEnd
  <2>6. \A d \in Conns \ {c} : SameConn(d)
    <3>1. \A x \in Ends \ {CEnd(c), SEnd(c)} : SameEnd(x)
      BY <1>3, <2>5
    <3>2. UNCHANGED <<srv, host, asked, handled>>
      BY <1>7
    <3> QED BY <3>1, <3>2, OneConn
  <2>7. Resting(c)'
    <3>1. buf[e] \in Seq(Units) /\ wire[e] \in Seq(Units) /\ buf[e] \o wire[e] = <<>>
      BY <1>8, <1>9 DEF Types, Available
    <3>2. wire'[e] = <<>>
      BY <1>7, <3>1, BothEmpty
    <3>3. SameEnd(SEnd(c)) /\ UNCHANGED <<srv, host, asked, handled>>
      BY <1>3, <1>7, <2>5, TwoEnds
    <3>4. ServerQuiet(c)'
      BY <1>8, <3>3, ServerUnaware
    <3> QED BY <1>3, <2>2, <3>2, <3>4 DEF Resting, Silent
  <2>8. (\A b \in Authorities : PoolOwns(b)') /\ PoolInStep'
    <3>1. host'[c] = a /\ open'[CEnd(c)]
      BY <1>3, <1>7, <1>14, <2>1
    <3>2. CanKeep(a) /\ idle' = [idle EXCEPT ![a] = Append(@, c)]
      BY <1>14
    <3> QED BY <1>10, <1>12, <2>1, <2>6, <2>7, <3>1, <3>2, PoolGrows
  <2>9. ServerSide(c)' /\ Grown(c)
    <3>1. SameServer(c)
      BY <1>3, <1>7, <1>14, <2>5, TwoEnds DEF SameServer
    <3>2. ServerSide(c)'
      BY <2>1, <3>1, ServerKept
    <3> QED BY <1>7, <3>2 DEF Grown, Settled
  <2>10. IdsDiffer' /\ messages <= messages'
    <3>1. messages \in Nat /\ IdsDiffer
      BY MessagesNat DEF HttpInv
    <3> QED BY <1>7, <3>1 DEF IdsDiffer
  <2>11. PICK C \in SUBSET Conns : C = {c}
    OBVIOUS
  <2>12. /\ \A d \in Conns \ C : SameConn(d)
         /\ \A d \in C : Mine(t, d) /\ ServerSide(d)' /\ Grown(d)
         /\ client' = client
    BY <1>7, <2>1, <2>6, <2>9, <2>11
  <2> QED BY <1>10, <1>11, <1>12, <2>1, <2>4, <2>8, <2>10, <2>12, CallStep
<1> QED BY <1>7, <1>13, <1>14

-----------------------------------------------------------------------------
\* A step of a call before it uses a connection.
LEMMA TaskStep ==
  ASSUME HttpInv, Types', NEW t \in Tasks, client = "ours",
         UNCHANGED <<net, srv, host, client, messages, asked, handled>>,
         \A u \in Tasks \ {t} : task'[u] = task[u] /\ result'[u] = result[u],
         \A u \in Tasks \ {t} : task'[t].conn # 0 => task'[t].conn # task[u].conn,
         \A a \in Authorities : PoolOwns(a)', PoolInStep',
         task'[t].conn # 0 <=> Uses(t)', task'[t].phase # "idle" => task'[t].authority \in Authorities,
         Uses(t)' => host[task'[t].conn] = task'[t].authority /\ open[CEnd(task'[t].conn)],
         CallInStep(t)', result'[t] = result[t] \/ result'[t].kind # "ok"
  PROVE  HttpInv'
<1>1. \A d \in Conns : SameConn(d)
  BY DEF SameConn, SameEnd, net
<1>2. PICK C \in SUBSET Conns : C = {}
  OBVIOUS
<1>3. IdsDiffer' /\ messages <= messages'
  <2>1. messages \in Nat /\ IdsDiffer
    BY MessagesNat DEF HttpInv
  <2> QED BY <2>1 DEF IdsDiffer
<1>4. client' = client /\ host' = host /\ open' = open
  BY DEF net
<1>5. Uses(t)' => host'[task'[t].conn] = task'[t].authority /\ open'[CEnd(task'[t].conn)]
  BY <1>4
<1>6. /\ \A d \in Conns \ C : SameConn(d)
      /\ \A d \in C : Mine(t, d) /\ ServerSide(d)' /\ Grown(d)
  BY <1>1, <1>2
<1> QED BY <1>3, <1>4, <1>5, <1>6, CallStep

\* A step without a connection leaves the pool as it is.
LEMMA PoolUntouched ==
  ASSUME HttpInv, NEW t \in Tasks, idle' = idle, UNCHANGED <<net, srv, host, asked, handled>>,
         \A u \in Tasks \ {t} : task'[u] = task[u], task'[t].conn = 0
  PROVE  (\A a \in Authorities : PoolOwns(a)') /\ PoolInStep'
<1>1. \A d \in Conns : SameConn(d)
  BY DEF SameConn, SameEnd, net
<1>2. PICK C \in SUBSET Conns : C = {}
  OBVIOUS
<1>3. (\A d \in Conns \ C : SameConn(d)) /\ (\A d \in C : Mine(t, d)) /\ task'[t].conn \in {0} \cup C
  BY <1>1, <1>2
<1> QED BY <1>3, PoolKept

\* A new call.
Called(r) ==
  [Idle EXCEPT !.phase = "connect", !.authority = r.authority,
               !.method = r.method, !.len = r.len, !.connection = r.connection]

Phased(k, p, a) == [k EXCEPT !.phase = p, !.authority = a]
Asked(k, m, l)  == [k EXCEPT !.method = m, !.len = l]

\* Starting a call sets its fields one by one.
LEMMA PhasedType ==
  ASSUME NEW k \in Calls, NEW p \in {"idle", "connect", "send", "head", "body"}, NEW a \in Authorities
  PROVE  /\ Phased(k, p, a) \in Calls /\ Phased(k, p, a).phase = p /\ Phased(k, p, a).conn = k.conn
         /\ Phased(k, p, a).authority = a
BY DEF Phased, Calls

\* The same of method and length.
LEMMA AskedType ==
  ASSUME NEW k \in Calls, NEW m \in Text \ {"HEAD"}, NEW l \in Lengths
  PROVE  /\ Asked(k, m, l) \in Calls /\ Asked(k, m, l).phase = k.phase /\ Asked(k, m, l).conn = k.conn
         /\ Asked(k, m, l).authority = k.authority
BY DEF Asked, Calls

\* The same of the Connection header.
LEMMA ConnectionType ==
  ASSUME NEW k \in Calls, NEW x \in Text
  PROVE  /\ [k EXCEPT !.connection = x] \in Calls /\ [k EXCEPT !.connection = x].phase = k.phase
         /\ [k EXCEPT !.connection = x].conn = k.conn
         /\ [k EXCEPT !.connection = x].authority = k.authority
BY DEF Calls

\* A new call has no connection.
LEMMA CalledType ==
  ASSUME NEW t \in Tasks, NEW r \in Requests[t]
  PROVE  /\ Called(r) \in Calls /\ Called(r).phase = "connect" /\ Called(r).conn = 0
         /\ Called(r).authority \in Authorities
<1>1. /\ r.method \in STRING \ {"HEAD"} /\ r.authority \in Authorities
      /\ r.len \in Lengths /\ r.connection \in STRING
  <2>1. r \in [method : STRING \ {"HEAD"}, authority : Authorities, len : Lengths, connection : STRING]
    BY MessageAssumption
  <2> QED BY <2>1
<1>2. PICK m \in Text \ {"HEAD"} : m = r.method
  BY <1>1, Texts, Zenon
<1>3. PICK x \in Text : x = r.connection
  BY <1>1, Texts, Zenon
<1>4. PICK a \in Authorities, l \in Lengths : a = r.authority /\ l = r.len
  BY <1>1
<1>5. PICK f \in Calls : f = Phased(Idle, "connect", a) /\ f.phase = "connect" /\ f.conn = 0 /\ f.authority = a
  <2>1. PICK j \in Calls : j = Idle /\ j.conn = 0
    BY IdleType
  <2>2. /\ Phased(j, "connect", a) \in Calls /\ Phased(j, "connect", a).phase = "connect"
        /\ Phased(j, "connect", a).conn = j.conn /\ Phased(j, "connect", a).authority = a
    BY PhasedType
  <2> QED BY <2>1, <2>2
<1>6. PICK g \in Calls : g = Asked(f, m, l) /\ g.phase = f.phase /\ g.conn = f.conn /\ g.authority = f.authority
  BY AskedType
<1>7. /\ [g EXCEPT !.connection = x] \in Calls /\ [g EXCEPT !.connection = x].phase = g.phase
      /\ [g EXCEPT !.connection = x].conn = g.conn
      /\ [g EXCEPT !.connection = x].authority = g.authority
  BY ConnectionType
<1>8. Called(r) = [g EXCEPT !.connection = x]
  BY <1>2, <1>3, <1>4, <1>5, <1>6, Zenon DEF Called, Phased, Asked
<1> QED BY <1>5, <1>6, <1>7, <1>8

\* No result is a result.
LEMMA NoResultType == NoResult \in Results /\ NoResult.kind = "none"
BY DEF NoResult, Results

\* A call starts.
LEMMA Starts ==
  ASSUME HttpInv, NEW t \in Tasks, NEW r \in Requests[t], StartRequest(t, r)
  PROVE  HttpInv'
<1>1. /\ client = "ours" /\ task' = [task EXCEPT ![t] = Called(r)]
      /\ result' = [result EXCEPT ![t] = NoResult]
      /\ UNCHANGED <<net, srv, idle, host, client, messages, asked, handled>>
  BY DEF StartRequest, Called
<1>2. PICK k \in Calls : k = Called(r) /\ k.phase = "connect" /\ k.conn = 0 /\ k.authority \in Authorities
  BY CalledType
<1>3. Types
  BY DEF HttpInv
<1>4. /\ task' \in [Tasks -> Calls] /\ task'[t] = k /\ result' \in [Tasks -> Results]
      /\ result'[t].kind # "ok"
      /\ \A u \in Tasks \ {t} : task'[u] = task[u] /\ result'[u] = result[u]
  BY <1>1, <1>2, <1>3, NoResultType DEF Types
<1>5. Types'
  BY <1>1, <1>3, <1>4 DEF Types, net
<1>6. /\ task'[t].conn = 0 /\ ~Uses(t)' /\ CallInStep(t)' /\ task'[t].authority \in Authorities
  BY <1>2, <1>4 DEF Uses, CallInStep
<1>7. (\A a \in Authorities : PoolOwns(a)') /\ PoolInStep'
  BY <1>1, <1>4, <1>6, PoolUntouched
<1>8. UNCHANGED <<net, srv, host, client, messages, asked, handled>>
  BY <1>1
<1> QED BY <1>1, <1>4, <1>5, <1>6, <1>7, <1>8, TaskStep

\* A connection is taken out of the pool.
LEMMA Takes ==
  ASSUME HttpInv, NEW t \in Tasks, TakeIdle(t)
  PROVE  HttpInv'
<1>1. Types /\ TaskOwns(t) /\ task[t] \in Calls /\ task[t].phase = "connect"
  BY DEF HttpInv, Owned, Types, TakeIdle, InPhase
<1>2. PICK a \in Authorities : a = task[t].authority
  BY <1>1 DEF TaskOwns
<1>3. PICK s \in Seq(Conns) : s = idle[a]
  BY <1>1 DEF Types
<1>4. PICK n \in Nat : n = Len(s) /\ n # 0
  <2>1. s # <<>>
    BY <1>2, <1>3 DEF TakeIdle
  <2> QED BY <2>1
<1>5. PICK c \in Conns : c = s[n]
  <2>1. s[n] \in Conns
    BY <1>4
  <2> QED BY <2>1
<1>6. PICK p \in Seq(Conns) : p = Front(s) /\ Len(p) = n - 1 /\ \A i \in 1..(n - 1) : p[i] = s[i]
  <2>1. n - 1 \in 0..Len(s)
    BY <1>4
  <2>2. SubSeq(s, 1, n - 1) \in Seq(Conns) /\ Len(SubSeq(s, 1, n - 1)) = n - 1
        /\ \A i \in 1..(n - 1) : SubSeq(s, 1, n - 1)[i] = s[i]
    BY <2>1, CutSeq
  <2>3. Front(s) = SubSeq(s, 1, n - 1)
    BY <1>4 DEF Front
  <2> QED BY <2>2, <2>3
<1>7. PICK k \in Calls : k = Moved(task[t], "send", c) /\ k.phase = "send" /\ k.conn = c /\ k.authority = a
  <2>1. PICK j \in Calls : j = task[t]
    BY <1>1
  <2>2. /\ Moved(j, "send", c) \in Calls /\ Moved(j, "send", c).phase = "send" /\ Moved(j, "send", c).conn = c
        /\ Moved(j, "send", c).authority = j.authority
    BY SendType
  <2> QED BY <1>2, <2>1, <2>2
<1>8. /\ idle' = [idle EXCEPT ![a] = p] /\ task' = [task EXCEPT ![t] = k]
      /\ UNCHANGED <<net, srv, host, client, hist>>
  <2>1. idle' = [idle EXCEPT ![a] = p]
    BY <1>2, <1>3, <1>6 DEF TakeIdle
  <2>2. task' = [task EXCEPT ![t].phase = "send", ![t].conn = c]
    BY <1>2, <1>3, <1>4, <1>5 DEF TakeIdle
  <2>3. task' = [task EXCEPT ![t] = k]
    BY <1>7, <2>2 DEF Moved
  <2> QED BY <2>1, <2>3 DEF TakeIdle
<1>9. /\ task' \in [Tasks -> Calls] /\ task'[t] = k /\ \A u \in Tasks \ {t} : task'[u] = task[u]
  BY <1>1, <1>8 DEF Types
<1>10. /\ idle' \in [Authorities -> Seq(Conns)] /\ idle'[a] = p
       /\ \A b \in Authorities \ {a} : idle'[b] = idle[b]
  BY <1>1, <1>8 DEF Types
<1>11. Types'
  BY <1>1, <1>8, <1>9, <1>10 DEF Types, net, hist
<1>12. UNCHANGED <<wire, open, buf, rd, srv, host, client, messages, asked, handled, result>>
  BY <1>8 DEF net, hist
<1>13. \A d \in Conns : SameConn(d)
  BY <1>12 DEF SameConn, SameEnd
<1>14. n \in 1..Len(idle[a]) /\ idle[a][n] = c
  BY <1>3, <1>4, <1>5
<1>15. /\ host[c] = a /\ open[CEnd(c)] /\ Resting(c) /\ \A u \in Tasks : task[u].conn # c
  <2>1. PoolOwns(a) /\ PoolInStep
    BY DEF HttpInv, Owned
  <2> QED BY <1>14, <2>1 DEF PoolOwns, PoolInStep
<1>16. Resting(c)'
  <2>1. ServerSide(c) /\ SameConn(c)
    BY <1>13 DEF HttpInv
  <2> QED BY <1>15, <2>1, SameConnKeeps DEF ClientKept
<1>17. MaxIdle \in Nat /\ \A b \in Authorities : PoolOwns(b)
  BY HttpAssumption DEF HttpInv, Owned, MaxIdle
<1>18. ASSUME NEW b \in Authorities, NEW i \in 1..Len(idle[b]), idle[b][i] # c
       PROVE  \E d \in Conns : d = idle[b][i] /\ Pooled(b, d)'
  <2>1. task'[t].conn \in {0, c}
    BY <1>7, <1>9
  <2>2. \A d \in Conns \ {c} : SameConn(d)
    BY <1>13
  <2> QED BY <1>9, <1>18, <2>1, <2>2, PooledStays, SMTT(30)
<1>19. Pool(a, p)'
  <2>1. ASSUME NEW i \in 1..(n - 1)
        PROVE  /\ \E d \in Conns : d = p[i] /\ Pooled(a, d)'
               /\ \A j \in 1..(n - 1) : p[j] = p[i] => j = i
    <3>1. i \in 1..Len(idle[a]) /\ i # n /\ p[i] = idle[a][i]
      BY <1>3, <1>4, <1>6
    <3>2. \A x, j \in 1..Len(idle[a]) : idle[a][j] = idle[a][x] => j = x
      BY <1>17 DEF PoolOwns
    <3>3. idle[a][i] # c
      BY <1>14, <3>1, <3>2
    <3>4. \E d \in Conns : d = p[i] /\ Pooled(a, d)'
      BY <1>18, <3>1, <3>3
    <3>5. \A j \in 1..(n - 1) : j \in 1..Len(idle[a]) /\ p[j] = idle[a][j]
      BY <1>3, <1>4, <1>6
    <3> QED BY <3>1, <3>2, <3>4, <3>5
  <2>2. Len(p) <= MaxIdle
    BY <1>3, <1>4, <1>6, <1>17 DEF PoolOwns
  <2> QED BY <1>6, <2>1, <2>2 DEF Pool, MaxIdle
<1>20. ASSUME NEW b \in Authorities, b # a PROVE \E q \in Seq(Conns) : q = idle'[b] /\ Pool(b, q)'
  <2>1. PICK q \in Seq(Conns) : q = idle[b] /\ q = idle'[b]
    BY <1>1, <1>10, <1>20 DEF Types
  <2>2. ASSUME NEW i \in 1..Len(q)
        PROVE  /\ \E d \in Conns : d = q[i] /\ Pooled(b, d)'
               /\ \A j \in 1..Len(q) : q[j] = q[i] => j = i
    <3>a. \A x \in 1..Len(idle[b]) :
            host[idle[b][x]] = b /\ \A j \in 1..Len(idle[b]) : idle[b][j] = idle[b][x] => j = x
      BY <1>17 DEF PoolOwns
    <3>b. q = idle[b]
      BY <2>1
    <3>1. host[q[i]] = b /\ \A j \in 1..Len(q) : q[j] = q[i] => j = i
      BY <3>a, <3>b
    <3>2. q[i] # c
      BY <1>15, <1>20, <3>1
    <3> QED BY <1>18, <2>1, <3>1, <3>2
  <2>3. Len(q) <= MaxIdle
    BY <1>17, <2>1 DEF PoolOwns
  <2>4. Pool(b, q)'
    BY <2>2, <2>3 DEF Pool, MaxIdle
  <2> QED BY <2>1, <2>4
<1>21. (\A b \in Authorities : PoolOwns(b)') /\ PoolInStep'
  <2>1. \A b \in Authorities : \E q \in Seq(Conns) : q = idle'[b] /\ Pool(b, q)'
    BY <1>10, <1>19, <1>20
  <2> QED BY <2>1, PoolFrom
<1>22. /\ client = "ours" /\ UNCHANGED <<net, srv, host, client, messages, asked, handled>>
       /\ \A u \in Tasks \ {t} : task'[u] = task[u] /\ result'[u] = result[u]
  <2>1. client = "ours"
    BY <1>1 DEF HttpInv, Owned, OursIdle, Types
  <2> QED BY <1>9, <1>12, <2>1 DEF net
<1>23. /\ task'[t].conn = c /\ task'[t].phase = "send" /\ task'[t].authority = a /\ Uses(t)'
  BY <1>7, <1>9 DEF Uses
<1>24. c # 0 /\ \A u \in Tasks \ {t} : task'[t].conn # task[u].conn
  BY <1>15, <1>23, ConnNumbers
<1>25. CallInStep(t)'
  BY <1>16, <1>23 DEF CallInStep
<1>26. host[task'[t].conn] = task'[t].authority /\ open[CEnd(task'[t].conn)] /\ result'[t] = result[t]
  BY <1>12, <1>15, <1>23
<1> QED BY <1>11, <1>21, <1>22, <1>23, <1>24, <1>25, <1>26, TaskStep

\* No call gets a connection.
LEMMA ConnectFails ==
  ASSUME HttpInv, NEW t \in Tasks, InPhase(t, "connect"), Failed(t),
         UNCHANGED <<wire, open, buf, rd, srv, host, idle, client, messages, asked, handled>>
  PROVE  HttpInv'
<1>1. Types /\ TaskOwns(t)
  BY DEF HttpInv, Owned
<1>2. PICK v \in Results : v = Ended(t, "error") /\ v.kind # "ok"
  BY <1>1, NotOk
<1>3. task' = [task EXCEPT ![t] = Idle] /\ result' = [result EXCEPT ![t] = v]
  BY <1>2 DEF Failed, Return, Ended
<1>4. /\ task' \in [Tasks -> Calls] /\ task'[t] = Idle /\ result' \in [Tasks -> Results]
      /\ result'[t].kind # "ok"
      /\ \A u \in Tasks \ {t} : task'[u] = task[u] /\ result'[u] = result[u]
  BY <1>1, <1>2, <1>3, IdleType DEF Types
<1>5. Types'
  BY <1>1, <1>4 DEF Types
<1>6. /\ task'[t].conn = 0 /\ task'[t].phase = "idle" /\ ~Uses(t)' /\ CallInStep(t)'
  BY <1>4, IdleType DEF Uses, CallInStep
<1>7. UNCHANGED <<net, srv, host, client, messages, asked, handled>> /\ idle' = idle
  BY DEF net
<1>8. (\A a \in Authorities : PoolOwns(a)') /\ PoolInStep'
  <2>1. UNCHANGED <<net, srv, host, asked, handled>>
    BY <1>7
  <2> QED BY <1>4, <1>6, <1>7, <2>1, PoolUntouched
<1>9. client = "ours"
  BY <1>1 DEF HttpInv, Owned, OursIdle, Types, InPhase
<1> QED BY <1>4, <1>5, <1>6, <1>7, <1>8, <1>9, TaskStep

\* A connection nobody has used.
LEMMA FreshConn ==
  ASSUME HttpInv, NEW c \in Conns, host[c] = 0
  PROVE  /\ wire[CEnd(c)] = <<>> /\ wire[SEnd(c)] = <<>> /\ buf[CEnd(c)] = <<>> /\ buf[SEnd(c)] = <<>>
         /\ rd[CEnd(c)] = NoReader /\ rd[SEnd(c)] = NoReader
         /\ asked[c] = <<>> /\ handled[c] = <<>> /\ \A t \in Tasks : Mine(t, c)
<1>1. Connected(c)
  BY DEF HttpInv, ServerSide
<1>2. /\ \A e \in {CEnd(c), SEnd(c)} : wire[e] = <<>> /\ buf[e] = <<>> /\ rd[e] = NoReader
      /\ asked[c] = <<>> /\ handled[c] = <<>>
  BY <1>1 DEF Connected
<1>3. ASSUME NEW u \in Tasks PROVE task[u].conn # c
  <2>1. TaskOwns(u) /\ c # 0 /\ 0 \notin Authorities
    BY ConnNumbers, HttpAssumption DEF HttpInv, Owned
  <2>2. CASE Uses(u)
    BY <2>1, <2>2 DEF TaskOwns, Uses
  <2>3. CASE ~Uses(u)
    BY <2>1, <2>3 DEF TaskOwns
  <2> QED BY <2>2, <2>3
<1>4. ASSUME NEW a \in Authorities, NEW i \in 1..Len(idle[a]) PROVE idle[a][i] # c
  BY HttpAssumption DEF HttpInv, Owned, PoolOwns
<1> QED BY <1>2, <1>3, <1>4 DEF Mine

\* Its server's end once it is made.
LEMMA FreshServer ==
  ASSUME NEW c \in Conns, asked'[c] = <<>>, handled'[c] = <<>>,
         wire'[SEnd(c)] = <<>>, buf'[SEnd(c)] = <<>>, rd'[SEnd(c)] = NoReader, open'[SEnd(c)],
         host'[c] \in Authorities,
         (host'[c] \in Foreign /\ srv'[c].phase = "foreign") \/ (host'[c] \notin Foreign /\ srv'[c].phase = "head")
  PROVE  ServerSide(c)'
<1>1. Connected(c)'
  BY HttpAssumption DEF Connected
<1>2. HandledInOrder(c)'
  BY DEF HandledInOrder
<1>3. ServesInStep(c)'
  <2>1. Available(SEnd(c))' = <<>>
    BY ConcatEmptySeq DEF Available
  <2>2. PICK reqs \in Asks : reqs = asked'[c] /\ Len(reqs) = 0 /\ Len(handled'[c]) = 0
    <3>1. <<>> \in Asks
      BY DEF Asks
    <3> QED BY <3>1
  <2>3. Queued(reqs, 0, <<>>)
    BY <2>2, QueuedNothing
  <2>4. PICK w \in Seq(Units) : w = <<>>
    <3>1. <<>> \in Seq(Units)
      OBVIOUS
    <3> QED BY <3>1
  <2>5. Arrives(w, w, ~open'[CEnd(c)])
    BY ArrivesSame
  <2>6. Queued(asked'[c], Len(handled'[c]), w) /\ Arrives(Available(SEnd(c))', w, ~open'[CEnd(c)])
    BY <2>1, <2>2, <2>3, <2>4, <2>5
  <2> QED BY <2>6 DEF ServesInStep
<1> QED BY <1>1, <1>2, <1>3 DEF ServerSide

\* A server that begins with a connection.
Serves(s, p) == [s EXCEPT !.phase = p]

\* A server that starts.
LEMMA ServesType ==
  \A s \in Servers, p \in {"head", "foreign"} : Serves(s, p) \in Servers /\ Serves(s, p).phase = p
BY DEF Serves, Servers

\* A new connection leads to the host of the call, and nothing is on it.
LEMMA ConnectDone ==
  ASSUME HttpInv, NEW t \in Tasks, InPhase(t, "connect"), NEW c \in Conns, host[c] = 0,
         host' = [host EXCEPT ![c] = task[t].authority],
         open' = [open EXCEPT ![CEnd(c)] = TRUE, ![SEnd(c)] = TRUE],
         srv' = [srv EXCEPT ![c].phase = IF task[t].authority \in Foreign THEN "foreign" ELSE "head"],
         task' = [task EXCEPT ![t].phase = "send", ![t].conn = c],
         UNCHANGED <<wire, buf, rd, idle, client, messages, asked, handled, result>>
  PROVE  HttpInv'
<1>1. Types /\ TaskOwns(t) /\ task[t] \in Calls /\ task[t].phase = "connect"
  BY DEF HttpInv, Owned, Types, InPhase
<1>2. PICK a \in Authorities : a = task[t].authority
  BY <1>1 DEF TaskOwns
<1>3. PICK k \in Calls : k = Moved(task[t], "send", c) /\ k.phase = "send" /\ k.conn = c /\ k.authority = a
  <2>1. PICK j \in Calls : j = task[t]
    BY <1>1
  <2>2. /\ Moved(j, "send", c) \in Calls /\ Moved(j, "send", c).phase = "send" /\ Moved(j, "send", c).conn = c
        /\ Moved(j, "send", c).authority = j.authority
    BY SendType
  <2> QED BY <1>2, <2>1, <2>2
<1>4. /\ task' \in [Tasks -> Calls] /\ task'[t] = k /\ \A u \in Tasks \ {t} : task'[u] = task[u]
  <2>1. task' = [task EXCEPT ![t] = k]
    BY <1>3 DEF Moved
  <2> QED BY <1>1, <2>1 DEF Types
<1>5. PICK p \in {"head", "foreign"} : p = IF a \in Foreign THEN "foreign" ELSE "head"
  OBVIOUS
<1>6. PICK s \in Servers : s = Serves(srv[c], p) /\ s.phase = p
  <2>1. srv[c] \in Servers
    BY <1>1 DEF Types
  <2> QED BY <2>1, ServesType
<1>7. /\ srv' \in [Conns -> Servers] /\ srv'[c] = s /\ \A d \in Conns \ {c} : srv'[d] = srv[d]
  <2>1. srv' = [srv EXCEPT ![c] = s]
    BY <1>2, <1>5, <1>6 DEF Serves
  <2> QED BY <1>1, <2>1 DEF Types
<1>8. CEnd(c) \in Ends /\ SEnd(c) \in Ends /\ CEnd(c) # SEnd(c)
  BY TwoEnds
<1>9. /\ open' \in [Ends -> BOOLEAN] /\ open'[CEnd(c)] /\ open'[SEnd(c)]
      /\ \A x \in Ends \ {CEnd(c), SEnd(c)} : open'[x] = open[x]
  BY <1>1, <1>8 DEF Types
<1>10. host' \in [Conns -> {0} \cup Authorities] /\ host'[c] = a /\ \A d \in Conns \ {c} : host'[d] = host[d]
  BY <1>1, <1>2 DEF Types
<1>11. Types'
  BY <1>1, <1>4, <1>7, <1>9, <1>10 DEF Types
<1>12. /\ wire[CEnd(c)] = <<>> /\ wire[SEnd(c)] = <<>> /\ buf[CEnd(c)] = <<>> /\ buf[SEnd(c)] = <<>>
       /\ rd[CEnd(c)] = NoReader /\ rd[SEnd(c)] = NoReader
       /\ asked[c] = <<>> /\ handled[c] = <<>> /\ Mine(t, c)
  BY FreshConn
<1>13. ServerSide(c)'
  <2>1. (a \in Foreign /\ srv'[c].phase = "foreign") \/ (a \notin Foreign /\ srv'[c].phase = "head")
    BY <1>5, <1>6, <1>7
  <2> QED BY <1>9, <1>10, <1>12, <2>1, FreshServer
<1>14. Grown(c)
  BY <1>12 DEF Grown
<1>15. Resting(c)'
  <2>1. ServerQuiet(c)'
    BY <1>5, <1>6, <1>7, <1>10, <1>12 DEF ServerQuiet
  <2> QED BY <1>12, <2>1 DEF Resting, Silent
<1>16. \A d \in Conns \ {c} : SameConn(d)
  <2>1. \A x \in Ends \ {CEnd(c), SEnd(c)} : SameEnd(x)
    BY <1>9 DEF SameEnd
  <2>2. \A d \in Conns \ {c} : /\ srv'[d] = srv[d] /\ host'[d] = host[d]
                               /\ asked'[d] = asked[d] /\ handled'[d] = handled[d]
    BY <1>7, <1>10
  <2> QED BY <2>1, <2>2, OneConn
<1>17. PICK C \in SUBSET Conns : C = {c}
  OBVIOUS
<1>18. /\ \A d \in Conns \ C : SameConn(d)
       /\ \A d \in C : Mine(t, d) /\ ServerSide(d)' /\ Grown(d)
  BY <1>12, <1>13, <1>14, <1>16, <1>17
<1>19. /\ task'[t].conn = c /\ task'[t].phase = "send" /\ task'[t].authority = a /\ Uses(t)'
  BY <1>3, <1>4 DEF Uses
<1>20. (\A b \in Authorities : PoolOwns(b)') /\ PoolInStep'
  <2>1. idle' = idle /\ task'[t].conn \in {0} \cup C /\ \A d \in C : Mine(t, d)
    BY <1>17, <1>18, <1>19
  <2> QED BY <1>4, <1>18, <2>1, PoolKept
<1>21. IdsDiffer' /\ messages <= messages'
  <2>1. messages \in Nat /\ IdsDiffer
    BY MessagesNat DEF HttpInv
  <2> QED BY <2>1 DEF IdsDiffer
<1>22. client = "ours" /\ client' = client
  BY <1>1 DEF HttpInv, Owned, OursIdle, Types
<1>23. c # 0 /\ \A u \in Tasks \ {t} : task'[t].conn # task[u].conn
  BY <1>12, <1>19, ConnNumbers DEF Mine
<1>24. CallInStep(t)'
  BY <1>15, <1>19 DEF CallInStep
<1>25. host'[task'[t].conn] = task'[t].authority /\ open'[CEnd(task'[t].conn)] /\ result' = result
  BY <1>9, <1>10, <1>19
<1> QED BY <1>4, <1>11, <1>18, <1>19, <1>20, <1>21, <1>22, <1>23, <1>24, <1>25, CallStep

\* Connector::connect, whether it succeeds or not.
LEMMA Connects ==
  ASSUME HttpInv, NEW t \in Tasks, Connect(t)
  PROVE  HttpInv'
<1>1. InPhase(t, "connect") /\ UNCHANGED <<wire, buf, rd, idle, client, messages, asked, handled>>
  BY DEF Connect
<1>2. CASE Failed(t) /\ UNCHANGED <<open, srv, host>>
  BY <1>1, <1>2, ConnectFails
<1>3. ASSUME NEW c \in Conns,
             /\ host[c] = 0
             /\ host' = [host EXCEPT ![c] = task[t].authority]
             /\ open' = [open EXCEPT ![CEnd(c)] = TRUE, ![SEnd(c)] = TRUE]
             /\ srv' = [srv EXCEPT ![c].phase =
                          IF task[t].authority \in Foreign THEN "foreign" ELSE "head"]
             /\ task' = [task EXCEPT ![t].phase = "send", ![t].conn = c]
             /\ UNCHANGED result
      PROVE  HttpInv'
  <2>1. UNCHANGED <<wire, buf, rd, idle, client, messages, asked, handled, result>>
    BY <1>1, <1>3
  <2> QED BY <1>1, <1>3, <2>1, ConnectDone
<1> QED BY <1>2, <1>3 DEF Connect

-----------------------------------------------------------------------------
\* A request is sent, or the beginning of it.
LEMMA ReadsMore ==
  ASSUME NEW r, NEW a \in Seq(Units), NEW msg \in Heads, NEW len \in Nat,
         NEW rest \in Seq(Units), NEW v \in Seq(Units), NEW n \in 0..Len(v), NEW later, n # Len(v) => later,
         Reads(r, a, msg, len, rest, FALSE)
  PROVE  Reads(r, a \o SubSeq(v, 1, n), msg, len, rest \o v, later)
<1> DEFINE body == BodyUnits(msg, len)
           b == a \o SubSeq(v, 1, n)
<1>1. ASSUME r.state \in {"off", "reading", "finished"} PROVE Before(r, b, msg, len, rest \o v, later)
  <2>1. PICK q \in 0..Len(body) :
          /\ Stands(r, msg, len, q) /\ Arrives(a, SubSeq(body, q + 1, Len(body)) \o rest, FALSE)
          /\ r.state = "finished" /\ r.kind # "eof" => q = Len(body)
    BY <1>1 DEF Reads, Before
  <2>2. body \in Seq(Units)
    BY BodyTypes
  <2> HIDE DEF body
  <2>3. PICK s \in Seq(Units) : s = SubSeq(body, q + 1, Len(body))
    <3>1. SubSeq(body, q + 1, Len(body)) \in Seq(Units)
      BY <2>2, CutSeq
    <3> QED BY <3>1
  <2>4. PICK t \in Seq(Units) : t = s \o rest
    BY ConcatElements
  <2>5. a = t
    BY <2>1, <2>3, <2>4, ArrivesWhole
  <2>6. Arrives(t \o SubSeq(v, 1, n), t \o v, later)
    BY ArrivesMore
  <2>7. t \o v = s \o (rest \o v)
    BY <2>4, Assoc, SMTT(30)
  <2>8. Arrives(b, s \o (rest \o v), later)
    BY <2>5, <2>6, <2>7
  <2> HIDE DEF b
  <2> QED BY <2>1, <2>3, <2>8 DEF Before, body
<1>2. Taken(r, msg, len)
  BY DEF Reads
<1> HIDE DEF b
<1>3. Reads(r, b, msg, len, rest \o v, later)
  BY <1>1, <1>2 DEF Reads
<1> QED BY <1>3 DEF b

\* What is noted of a request when it is sent.
Ask(msg, len) == [id |-> msg.id, len |-> len]

\* n units of the request msg go out on c.
Sends(c, msg, len, n) ==
  /\ messages' = messages + 1 /\ asked' = [asked EXCEPT ![c] = Append(@, Ask(msg, len))]
  /\ wire' = [wire EXCEPT ![SEnd(c)] =
                IF open[SEnd(c)] THEN @ \o SubSeq(MessageUnits(msg, len), 1, n) ELSE @]
  /\ n # Len(MessageUnits(msg, len)) => ~open'[CEnd(c)]
  /\ rd'[SEnd(c)] = rd[SEnd(c)] /\ buf'[SEnd(c)] = buf[SEnd(c)] /\ open'[SEnd(c)] = open[SEnd(c)]
  /\ UNCHANGED <<srv, host, handled>>

\* What was asked grows at its end, under a new identity.
LEMMA AskGrows ==
  ASSUME HttpInv, NEW c \in Conns, NEW msg \in RequestHeads, NEW len \in Lengths, NEW n,
         msg.id = messages + 1, Sends(c, msg, len, n)
  PROVE  /\ asked' \in [Conns -> Asks] /\ asked'[c] = Append(asked[c], Ask(msg, len))
         /\ \A d \in Conns \ {c} : asked'[d] = asked[d]
         /\ Grown(c) /\ IdsDiffer' /\ messages <= messages'
         /\ asked'[c] # <<>> /\ Len(asked'[c]) = Len(asked[c]) + 1 /\ asked'[c][Len(asked'[c])].id = msg.id
         /\ \A i \in 1..Len(asked[c]) : asked'[c][i] = asked[c][i]
<1>1. asked \in [Conns -> Asks] /\ messages \in Nat /\ messages' = messages + 1
      /\ asked' = [asked EXCEPT ![c] = Append(@, Ask(msg, len))] /\ IdsDiffer
      /\ UNCHANGED <<srv, handled>>
  BY MessagesNat DEF HttpInv, Types, Sends
<1>2. PICK s \in Asks : s = asked[c]
  BY <1>1
<1>3. PICK x \in [id : Nat, len : Lengths] : x = Ask(msg, len) /\ x.id = messages + 1 /\ x.id = msg.id
  <2>1. PICK k \in Nat : k = messages + 1 /\ k = msg.id
    BY <1>1
  <2>2. Ask(msg, len) = [id |-> k, len |-> len]
    BY <2>1 DEF Ask
  <2>3. PICK x \in [id : Nat, len : Lengths] : x = [id |-> k, len |-> len]
    OBVIOUS
  <2> QED BY <2>1, <2>2, <2>3
<1>4. PICK m \in Nat : m = Len(s)
  <2>1. Len(s) \in Nat
    BY DEF Asks
  <2> QED BY <2>1
<1>5. PICK w \in Asks : w = Append(s, x) /\ Len(w) = m + 1 /\ w[m + 1] = x /\ \A i \in 1..m : w[i] = s[i]
  <2> DEFINE S == [id : Nat, len : Lengths]
  <2>1. s \in Seq(S) /\ x \in S
    BY DEF Asks
  <2> HIDE DEF S
  <2>2. Append(s, x) \in Seq(S) /\ Len(Append(s, x)) = m + 1 /\ Append(s, x)[m + 1] = x
        /\ \A i \in 1..m : Append(s, x)[i] = s[i]
    BY <1>4, <2>1, AppendProperties
  <2> QED BY <2>2 DEF Asks, S
<1>6. /\ asked' \in [Conns -> Asks] /\ asked'[c] = w /\ \A d \in Conns \ {c} : asked'[d] = asked[d]
  BY <1>1, <1>2, <1>3, <1>5
<1>7. ASSUME NEW d \in Conns, NEW i \in 1..Len(asked'[d])
      PROVE  /\ asked'[d][i].id \in Nat
             /\ \/ i \in 1..Len(asked[d]) /\ asked'[d][i] = asked[d][i] /\ asked[d][i].id <= messages
                \/ d = c /\ i = m + 1 /\ asked'[d][i].id = messages + 1
  <2>1. PICK reqs \in Asks : reqs = asked'[d]
    BY <1>6
  <2>2. asked'[d][i].id \in Nat
    BY <2>1, AskTypes
  <2>3. CASE d = c
    <3>1. i \in 1..m \/ i = m + 1
      BY <1>5, <1>6, <2>3
    <3>2. CASE i \in 1..m
      <4>1. i \in 1..Len(asked[d]) /\ asked'[d][i] = asked[d][i]
        BY <1>2, <1>4, <1>5, <1>6, <2>3, <3>2
      <4>2. asked[d][i].id <= messages
        BY <1>1, <4>1 DEF IdsDiffer
      <4> QED BY <2>2, <4>1, <4>2
    <3>3. CASE i = m + 1
      BY <1>3, <1>5, <1>6, <2>2, <2>3, <3>3
    <3> QED BY <3>1, <3>2, <3>3
  <2>4. CASE d # c
    <3>1. asked'[d] = asked[d]
      BY <1>6, <2>4
    <3>2. i \in 1..Len(asked[d])
      BY <3>1
    <3>3. asked[d][i].id <= messages
      BY <1>1, <3>2 DEF IdsDiffer
    <3> QED BY <2>2, <3>1, <3>2, <3>3
  <2> QED BY <2>3, <2>4
<1>8. Grown(c)
  <2> SUFFICES ASSUME NEW i \in 1..Len(asked'[c])
               PROVE  \/ /\ i \in 1..Len(asked[c]) /\ asked'[c][i] = asked[c][i]
                         /\ \A k \in Nat : Settled(c, i, k) => Settled(c, i, k)'
                      \/ asked'[c][i].id > messages
    BY DEF Grown, Settled
  <2>1. \A k \in Nat : Settled(c, i, k) => Settled(c, i, k)'
    BY <1>1 DEF Settled
  <2>2. CASE i \in 1..Len(asked[c]) /\ asked'[c][i] = asked[c][i]
    BY <2>1, <2>2
  <2>3. CASE asked'[c][i].id = messages + 1
    BY <1>1, <2>3
  <2> QED BY <1>7, <2>2, <2>3
<1>9. IdsDiffer'
  <2> SUFFICES ASSUME NEW d \in Conns, NEW e \in Conns, NEW i \in 1..Len(asked'[d]), NEW j \in 1..Len(asked'[e])
               PROVE  /\ asked'[d][i].id <= messages'
                      /\ asked'[d][i].id = asked'[e][j].id => d = e /\ i = j
    BY DEF IdsDiffer
  <2>1. PICK p \in Nat, q \in Nat : p = asked'[d][i].id /\ q = asked'[e][j].id
    BY <1>7
  <2>2. \/ i \in 1..Len(asked[d]) /\ asked[d][i].id = p /\ p <= messages
        \/ d = c /\ i = m + 1 /\ p = messages + 1
    BY <1>7, <2>1
  <2>3. \/ j \in 1..Len(asked[e]) /\ asked[e][j].id = q /\ q <= messages
        \/ e = c /\ j = m + 1 /\ q = messages + 1
    BY <1>7, <2>1
  <2>4. p <= messages'
    BY <1>1, <2>2
  <2>5. p = q => d = e /\ i = j
    BY <1>1, <2>2, <2>3 DEF IdsDiffer
  <2> QED BY <2>1, <2>4, <2>5
<1>10. messages <= messages'
  BY <1>1
<1>11. asked'[c] # <<>> /\ Len(asked'[c]) = Len(asked[c]) + 1 /\ asked'[c][Len(asked'[c])].id = msg.id
       /\ \A i \in 1..Len(asked[c]) : asked'[c][i] = asked[c][i]
  BY <1>2, <1>3, <1>4, <1>5, <1>6
<1> QED BY <1>2, <1>3, <1>5, <1>6, <1>8, <1>9, <1>10, <1>11

\* The second unit of a message is its head.
LEMMA HeadInFront ==
  ASSUME NEW h \in Seq(Units), NEW b \in Seq(Units), NEW msg, Len(h) = 2, h[2].msg = msg
  PROVE  Len(h \o b) >= 2 /\ (h \o b)[2].msg = msg
<1>1. Len(h \o b) = Len(h) + Len(b) /\ Len(b) \in Nat /\ \A i \in 1..Len(h) : (h \o b)[i] = h[i]
  BY ConcatElements, ZenonT(60)
<1> QED BY <1>1

\* The server finds it behind what it was sent before.
LEMMA AskServed ==
  ASSUME HttpInv, NEW c \in Conns, host[c] \in Authorities, open[CEnd(c)],
         NEW msg \in RequestHeads, NEW len \in Lengths, NEW n \in 1..Len(MessageUnits(msg, len)),
         msg.id = messages + 1, Fits(RequestBodyKind(msg), msg, len), Sends(c, msg, len, n),
         host[c] \in Foreign => n = Len(MessageUnits(msg, len)) /\ (open[SEnd(c)] => wire[SEnd(c)] = <<>>)
  PROVE  /\ ServerSide(c)' /\ wire' \in [Ends -> Seq(Units)]
         /\ \A x \in Ends \ {SEnd(c)} : wire'[x] = wire[x]
         /\ host[c] \in Foreign /\ open[SEnd(c)] =>
              Len(wire'[SEnd(c)]) >= 2 /\ wire'[SEnd(c)][2].msg = msg
<1>1. PICK e \in Ends : e = SEnd(c)
  BY TwoEnds
<1>2. PICK u \in Seq(Units) : u = MessageUnits(msg, len) /\ Len(u) >= 2 /\ u[2].msg = msg
  <2>1. msg \in Heads /\ len \in Nat
    BY DEF Heads, Lengths, None
  <2>2. /\ MessageUnits(msg, len) = HeadUnits(msg) \o BodyUnits(msg, len)
        /\ BodyUnits(msg, len) \in Seq(Units) /\ MessageUnits(msg, len) \in Seq(Units)
        /\ HeadUnits(msg) \in Seq(Units) /\ Len(HeadUnits(msg)) = 2 /\ HeadUnits(msg)[2].msg = msg
    BY <2>1, BodyTypes, HeadElements
  <2>3. Len(HeadUnits(msg) \o BodyUnits(msg, len)) >= 2 /\ (HeadUnits(msg) \o BodyUnits(msg, len))[2].msg = msg
    BY <2>2, HeadInFront
  <2>4. Len(MessageUnits(msg, len)) >= 2 /\ MessageUnits(msg, len)[2].msg = msg
    BY <2>2, <2>3
  <2> QED BY <2>2, <2>4
<1>3. PICK v \in Seq(Units) : v = SubSeq(u, 1, n) /\ n \in 0..Len(u) /\ (n = Len(u) => v = u)
  <2>1. n \in 0..Len(u) /\ Len(u) \in Nat
    BY <1>2
  <2>2. SubSeq(u, 1, n) \in Seq(Units)
    BY <2>1, CutSeq
  <2>3. n = Len(u) => SubSeq(u, 1, n) = u
    OBVIOUS
  <2> QED BY <2>1, <2>2, <2>3
<1>4. /\ wire' = [wire EXCEPT ![e] = IF open[e] THEN @ \o v ELSE @]
      /\ (n # Len(u) => ~open'[CEnd(c)])
      /\ rd'[e] = rd[e] /\ buf'[e] = buf[e] /\ open'[e] = open[e] /\ UNCHANGED <<srv, host, handled>>
  BY <1>1, <1>2, <1>3 DEF Sends
<1>5. Types /\ wire \in [Ends -> Seq(Units)] /\ buf \in [Ends -> Seq(Units)] /\ rd \in [Ends -> Readers]
      /\ asked \in [Conns -> Asks]
  BY DEF HttpInv, Types
<1>6. PICK w0 \in Seq(Units), b0 \in Seq(Units) : w0 = wire[e] /\ b0 = buf[e]
  BY <1>5
<1>7. /\ wire' \in [Ends -> Seq(Units)] /\ \A x \in Ends \ {e} : wire'[x] = wire[x]
      /\ open[e] => wire'[e] = w0 \o v
      /\ ~open[e] => wire'[e] = w0
  <2>1. w0 \o v \in Seq(Units)
    BY ConcatElements
  <2>2. PICK x \in Seq(Units) : x = IF open[e] THEN w0 \o v ELSE w0
    BY <2>1
  <2>3. wire' = [wire EXCEPT ![e] = x]
    BY <1>4, <1>6, <2>2
  <2> QED BY <1>5, <2>2, <2>3
<1>8. /\ asked'[c] = Append(asked[c], Ask(msg, len)) /\ Len(asked'[c]) = Len(asked[c]) + 1
      /\ \A i \in 1..Len(asked[c]) : asked'[c][i] = asked[c][i]
  BY AskGrows
<1>9. Connected(c) /\ HandledInOrder(c) /\ ServesInStep(c)
  BY DEF HttpInv, ServerSide
<1>10. host[c] \in Foreign /\ open[e] => wire'[e] = u
  <2> SUFFICES ASSUME host[c] \in Foreign, open[e] PROVE wire'[e] = u
    OBVIOUS
  <2>1. w0 = <<>> /\ v = u
    BY <1>1, <1>2, <1>3, <1>6
  <2>2. <<>> \o u = u
    BY ConcatEmptySeq
  <2> QED BY <1>7, <2>1, <2>2
<1>11. Connected(c)'
  <2>1. host[c] # 0 /\ 0 \notin Authorities
    BY HttpAssumption
  <2>2. host[c] \in Foreign => wire'[e] = <<>> \/ (Len(wire'[e]) >= 2 /\ wire'[e][2].msg \in RequestHeads)
    BY <1>1, <1>2, <1>6, <1>7, <1>9, <1>10 DEF Connected
  <2> QED BY <1>1, <1>4, <1>9, <2>1, <2>2 DEF Connected
<1>12. PICK reqs \in Asks, k \in 0..Len(asked[c]) :
         reqs = asked[c] /\ k = Len(handled[c]) /\ k = Len(handled'[c]) /\ Len(reqs) \in Nat
  <2>1. asked[c] \in Asks
    BY <1>5
  <2>2. \A s \in Asks : Len(s) \in Nat
    BY DEF Asks
  <2>3. Len(handled[c]) \in Nat
    BY DEF HttpInv, Types
  <2>4. Len(handled[c]) \in 0..Len(asked[c])
    BY <1>9, <2>1, <2>2, <2>3 DEF HandledInOrder
  <2> QED BY <1>4, <2>1, <2>2, <2>4
<1>13. HandledInOrder(c)'
  <2>1. ASSUME NEW i \in 1..k PROVE asked'[c][i] = asked[c][i]
    BY <1>8, <1>12
  <2> QED BY <1>4, <1>8, <1>9, <1>12, <2>1 DEF HandledInOrder
<1>14. ASSUME NEW w \in Seq(Units), Queued(asked[c], k, w)
       PROVE  w \o u \in Seq(Units) /\ Queued(asked'[c], k, w \o u)
  <2>1. Queued(Append(reqs, Ask(msg, len)), k, w \o MessageUnits(msg, len))
    BY <1>12, <1>14, QueuedMore DEF Ask
  <2> QED BY <1>2, <1>8, <1>12, <2>1, ConcatElements
<1>15. ASSUME open[e]
       PROVE  Available(e)' = Available(e) \o v /\ Available(e) \in Seq(Units)
  <2>1. buf'[e] = b0 /\ wire'[e] = w0 \o v
    BY <1>4, <1>6, <1>7, <1>15
  <2>2. (b0 \o w0) \o v = b0 \o (w0 \o v) /\ b0 \o w0 \in Seq(Units)
    BY Assoc, ConcatElements
  <2> QED BY <1>6, <2>1, <2>2 DEF Available
<1>16. ASSUME srv[c].phase \in {"head", "handle"} PROVE open[e]
  BY <1>1, <1>16, ServedHost
<1>17. ASSUME srv[c].phase = "head"
       PROVE  /\ rd[e] = NoReader
              /\ \E w \in Seq(Units) : /\ Queued(asked'[c], k, w)
                                       /\ Arrives(Available(e)', w, ~open'[CEnd(c)])
  <2>1. PICK w \in Seq(Units) : Queued(asked[c], k, w) /\ Arrives(Available(e), w, ~open[CEnd(c)])
    BY <1>1, <1>9, <1>12, <1>17 DEF ServesInStep
  <2>2. Available(e)' = Available(e) \o v /\ Available(e) \in Seq(Units)
    BY <1>15, <1>16, <1>17
  <2>3. Available(e) = w
    BY <2>1, <2>2, ArrivesWhole
  <2>4. Arrives(w \o v, w \o u, ~open'[CEnd(c)])
    BY <1>3, <1>4, ArrivesMore
  <2>5. rd[e] = NoReader
    BY <1>1, <1>9, <1>17 DEF ServesInStep
  <2> QED BY <1>14, <2>1, <2>2, <2>3, <2>4, <2>5
<1>18. ASSUME srv[c].phase = "handle"
       PROVE  /\ k > 0 /\ srv[c].head \in RequestHeads /\ srv[c].head.id = asked'[c][k].id
              /\ rd[e].kind \notin {"eof", "error"} /\ (rd[e].state = "off" => rd[e].out = <<>>)
              /\ \E w \in Seq(Units) :
                   /\ Queued(asked'[c], k, w)
                   /\ Reads(rd[e], Available(e)', srv[c].head, asked'[c][k].len, w, ~open'[CEnd(c)])
  <2>1. PICK w \in Seq(Units) :
          /\ Queued(asked[c], k, w)
          /\ Reads(rd[e], Available(e), srv[c].head, asked[c][k].len, w, ~open[CEnd(c)])
    BY <1>1, <1>9, <1>12, <1>18 DEF ServesInStep
  <2>2. Available(e)' = Available(e) \o v /\ Available(e) \in Seq(Units)
    BY <1>15, <1>16, <1>18
  <2>3. /\ k > 0 /\ srv[c].head \in RequestHeads /\ srv[c].head.id = asked[c][k].id
        /\ rd[e].kind \notin {"eof", "error"} /\ (rd[e].state = "off" => rd[e].out = <<>>)
    BY <1>1, <1>9, <1>12, <1>18 DEF ServesInStep
  <2>4. k \in 1..Len(reqs) /\ asked'[c][k] = asked[c][k]
    BY <1>8, <1>12, <2>3
  <2>5. asked[c][k].len \in Nat
    BY <1>12, <2>4, AskTypes
  <2>6. PICK l \in Nat, h \in Heads, r \in Readers, a \in Seq(Units) :
          l = asked[c][k].len /\ h = srv[c].head /\ r = rd[e] /\ a = Available(e)
    <3>1. rd[e] \in Readers
      BY <1>5
    <3> QED BY <2>2, <2>3, <2>5, <3>1 DEF Heads
  <2>7. PICK later : later = ~open'[CEnd(c)] /\ (n # Len(u) => later)
    BY <1>4
  <2>8. Reads(r, a, h, l, w, FALSE)
    <3>1. (~open[CEnd(c)]) = FALSE
      OBVIOUS
    <3> QED BY <2>1, <2>6, <3>1
  <2>9. Reads(r, a \o v, h, l, w \o u, later)
    BY <1>3, <2>7, <2>8, ReadsMore
  <2> QED BY <1>14, <2>1, <2>2, <2>3, <2>4, <2>6, <2>7, <2>9
<1>19. ServesInStep(c)'
  BY <1>1, <1>4, <1>12, <1>17, <1>18 DEF ServesInStep
<1>20. ServerSide(c)'
  BY <1>11, <1>13, <1>19 DEF ServerSide
<1> QED BY <1>1, <1>2, <1>7, <1>10, <1>20

\* ClientConnection::send.
AskOf(k, id) ==
  [id |-> id, method |-> k.method, version |-> 11, connection |-> k.connection, te |-> "none",
   cl |-> k.len, wellformed |-> TRUE]

\* A request of HttpClient is well framed.
LEMMA AskOfFits ==
  ASSUME NEW k \in Calls, NEW id \in Nat
  PROVE  /\ AskOf(k, id) \in RequestHeads /\ AskOf(k, id).id = id /\ k.len \in Lengths
         /\ Fits(RequestBodyKind(AskOf(k, id)), AskOf(k, id), k.len)
<1>1. k.method \in Text /\ k.connection \in Text /\ k.len \in Lengths
  BY DEF Calls
<1>2. k.len \in 0..999
  BY <1>1 DEF Lengths, None
<1>3. PICK m \in Text, x \in Text, te \in Text : m = k.method /\ x = k.connection /\ te = "none"
  BY <1>1, Texts, Zenon
<1>4. PICK l \in 0..Invalid : l = k.len /\ l # 1000 /\ l # 1001
  BY <1>2 DEF Invalid
<1> DEFINE msg == AskOf(k, id)
<1>5. msg = [id |-> id, method |-> m, version |-> 11, connection |-> x, te |-> te, cl |-> l,
             wellformed |-> TRUE]
  BY <1>3, <1>4 DEF AskOf
<1> HIDE DEF msg
<1>6. msg \in RequestHeads
  BY <1>5 DEF RequestHeads
<1>7. msg.id = id /\ msg.te = "none" /\ msg.cl = k.len
  BY <1>3, <1>4, <1>5
<1>8. Fits(RequestBodyKind(msg), msg, k.len)
  BY <1>4, <1>7 DEF Fits, RequestBodyKind, ContentLengthKind, None, Invalid
<1> QED BY <1>1, <1>6, <1>7, <1>8 DEF msg

\* The call after its request was sent.
Waiting(k, id) == [k EXCEPT !.phase = "head", !.id = id]

\* It keeps its connection.
LEMMA WaitingType ==
  \A k \in Calls, id \in Nat :
    /\ Waiting(k, id) \in Calls /\ Waiting(k, id).phase = "head" /\ Waiting(k, id).conn = k.conn
    /\ Waiting(k, id).authority = k.authority /\ Waiting(k, id).id = id
BY DEF Waiting, Calls

\* ClientConnection::send, whether its write succeeds or not.
LEMMA RequestGoesOut ==
  ASSUME HttpInv, NEW t \in Tasks, SendRequest(t)
  PROVE  HttpInv'
<1>1. /\ InPhase(t, "send") /\ Uses(t) /\ messages < MaxMessages /\ messages' = messages + 1
      /\ UNCHANGED <<srv, idle, host, client, handled>>
  BY DEF SendRequest, InPhase, Uses
<1>2. PICK c \in Conns : c = task[t].conn
  BY <1>1, OwnConn
<1>3. PICK e \in Ends, s \in Ends : e = CEnd(c) /\ s = SEnd(c) /\ e # s /\ Peer(e) = s
  BY TwoEnds
<1>4. /\ c # 0 /\ host[c] = task[t].authority /\ host[c] \in Authorities /\ host[c] # 0
      /\ open[e] /\ Mine(t, c) /\ client = "ours" /\ ServerSide(c) /\ task[t] \in Calls
  BY <1>1, <1>2, <1>3, OwnConn
<1>5. PICK k \in Calls, id \in Nat : k = task[t] /\ id = messages + 1
  <2>1. messages + 1 \in Nat
    BY MessagesNat DEF HttpInv
  <2> QED BY <1>4, <2>1
<1>6. PICK msg \in RequestHeads, len \in Lengths :
        msg = AskOf(k, id) /\ msg.id = id /\ len = k.len /\ Fits(RequestBodyKind(msg), msg, len)
  BY AskOfFits
<1>7. /\ wire' = [wire EXCEPT ![s] = IF open[s] THEN @ \o MessageUnits(msg, len) ELSE @]
      /\ asked' = [asked EXCEPT ![c] = Append(@, Ask(msg, len))]
      /\ \/ /\ task' = [task EXCEPT ![t] = Waiting(k, id)]
            /\ UNCHANGED <<open, buf, rd, result>>
         \/ /\ ~open[s]
            /\ Drop(e) /\ Failed(t)
  <2>1. /\ wire' = [wire EXCEPT ![s] = IF open[s] THEN @ \o MessageUnits(AskOf(k, id), k.len) ELSE @]
        /\ asked' = [asked EXCEPT ![c] = Append(@, [id |-> id, len |-> k.len])]
    BY <1>2, <1>3, <1>5 DEF SendRequest, WriteMessage, AskOf
  <2>2. \/ /\ task' = [task EXCEPT ![t].phase = "head", ![t].id = id]
           /\ UNCHANGED <<open, buf, rd, result>>
        \/ /\ ~open[s]
           /\ Drop(e) /\ Failed(t)
    BY <1>2, <1>3, <1>5 DEF SendRequest
  <2>3. task' = [task EXCEPT ![t].phase = "head", ![t].id = id] => task' = [task EXCEPT ![t] = Waiting(k, id)]
    BY <1>5 DEF Waiting
  <2> QED BY <1>6, <2>1, <2>2, <2>3 DEF Ask
<1>8. Types /\ messages \in Nat /\ MaxMessages \in Nat /\ Resting(c)
  <2>1. MaxMessages \in Nat
    BY HttpAssumption
  <2>2. Resting(c)
    BY <1>1, <1>2 DEF HttpInv, CallInStep, InPhase
  <2> QED BY <2>1, <2>2, MessagesNat DEF HttpInv
<1>9. PICK n \in 1..Len(MessageUnits(msg, len)) :
        n = Len(MessageUnits(msg, len)) /\ SubSeq(MessageUnits(msg, len), 1, n) = MessageUnits(msg, len)
  <2>1. msg \in Heads /\ len \in Nat
    BY DEF Heads, Lengths, None
  <2>2. /\ MessageUnits(msg, len) = HeadUnits(msg) \o BodyUnits(msg, len)
        /\ BodyUnits(msg, len) \in Seq(Units) /\ MessageUnits(msg, len) \in Seq(Units)
        /\ HeadUnits(msg) \in Seq(Units) /\ Len(HeadUnits(msg)) = 2 /\ HeadUnits(msg)[2].msg = msg
    BY <2>1, BodyTypes, HeadElements
  <2>3. Len(HeadUnits(msg) \o BodyUnits(msg, len)) >= 2
    BY <2>2, HeadInFront
  <2>4. PICK u \in Seq(Units) : u = MessageUnits(msg, len) /\ Len(u) >= 2
    BY <2>2, <2>3
  <2>5. Len(u) \in 1..Len(u) /\ SubSeq(u, 1, Len(u)) = u
    BY <2>4
  <2> QED BY <2>4, <2>5
<1>10. rd'[s] = rd[s] /\ buf'[s] = buf[s] /\ open'[s] = open[s]
  <2>1. CASE UNCHANGED <<open, buf, rd, result>>
    BY <2>1
  <2>2. CASE Drop(e)
    BY <1>3, <1>8, <2>2, DropTypes
  <2> QED BY <1>7, <2>1, <2>2
<1>11. Sends(c, msg, len, n)
  BY <1>1, <1>3, <1>5, <1>7, <1>9, <1>10 DEF Sends
<1>12. msg.id = messages + 1
  BY <1>5, <1>6
<1>13. /\ asked' \in [Conns -> Asks] /\ \A d \in Conns \ {c} : asked'[d] = asked[d]
       /\ Grown(c) /\ IdsDiffer' /\ messages <= messages'
       /\ asked'[c] # <<>> /\ Len(asked'[c]) = Len(asked[c]) + 1 /\ asked'[c][Len(asked'[c])].id = id
  BY <1>6, <1>11, <1>12, AskGrows
<1>14. host[c] \in Foreign => (open[s] => wire[s] = <<>>)
  BY <1>3, <1>8 DEF Resting, ServerQuiet
<1>15. /\ ServerSide(c)' /\ wire' \in [Ends -> Seq(Units)]
       /\ \A x \in Ends \ {s} : wire'[x] = wire[x]
       /\ host[c] \in Foreign /\ open[s] => Len(wire'[s]) >= 2 /\ wire'[s][2].msg = msg
  <2>1. host[c] \in Foreign => n = Len(MessageUnits(msg, len)) /\ (open[SEnd(c)] => wire[SEnd(c)] = <<>>)
    BY <1>3, <1>9, <1>14
  <2>2. open[CEnd(c)]
    BY <1>3, <1>4
  <2> QED BY <1>3, <1>4, <1>6, <1>11, <1>12, <2>1, <2>2, AskServed
<1>16. messages' \in 0..MaxMessages
  BY <1>1, <1>8
<1>17. PICK C \in SUBSET Conns : C = {c}
  OBVIOUS
<1>18. ASSUME task' \in [Tasks -> Calls], result' \in [Tasks -> Results],
              open' \in [Ends -> BOOLEAN], buf' \in [Ends -> Seq(Units)], rd' \in [Ends -> Readers],
              \A u \in Tasks \ {t} : task'[u] = task[u] /\ result'[u] = result[u],
              \A x \in Ends \ {e} : open'[x] = open[x] /\ buf'[x] = buf[x] /\ rd'[x] = rd[x],
              task'[t].conn \in {0, c}, task'[t].conn # 0 <=> Uses(t)',
              task'[t].phase # "idle" => task'[t].authority = host[c],
              Uses(t)' => open'[e], CallInStep(t)', result'[t] = result[t] \/ result'[t].kind # "ok"
       PROVE  HttpInv'
  <2>1. Types'
    BY <1>1, <1>8, <1>13, <1>15, <1>16, <1>18 DEF Types
  <2>2. \A d \in Conns \ {c} : SameConn(d)
    <3>1. \A x \in Ends \ {CEnd(c), SEnd(c)} : SameEnd(x)
      BY <1>3, <1>15, <1>18 DEF SameEnd
    <3>2. \A d \in Conns \ {c} : /\ srv'[d] = srv[d] /\ host'[d] = host[d]
                                 /\ asked'[d] = asked[d] /\ handled'[d] = handled[d]
      BY <1>1, <1>13
    <3> QED BY <3>1, <3>2, OneConn
  <2>3. /\ \A d \in Conns \ C : SameConn(d)
        /\ \A d \in C : Mine(t, d) /\ ServerSide(d)' /\ Grown(d)
    BY <1>4, <1>13, <1>15, <1>17, <2>2
  <2>4. (\A b \in Authorities : PoolOwns(b)') /\ PoolInStep'
    <3>1. idle' = idle /\ task'[t].conn \in {0} \cup C /\ (\A d \in C : Mine(t, d))
          /\ \A u \in Tasks \ {t} : task'[u] = task[u]
      BY <1>1, <1>17, <1>18, <2>3
    <3> QED BY <2>3, <3>1, PoolKept
  <2>5. client' = client /\ \A u \in Tasks \ {t} : task'[t].conn # 0 => task'[t].conn # task[u].conn
    BY <1>1, <1>4, <1>18 DEF Mine
  <2>6. Uses(t)' => host'[task'[t].conn] = task'[t].authority /\ open'[CEnd(task'[t].conn)]
    <3> SUFFICES ASSUME Uses(t)' PROVE host'[task'[t].conn] = task'[t].authority /\ open'[CEnd(task'[t].conn)]
      OBVIOUS
    <3>1. task'[t].conn = c /\ task'[t].phase # "idle"
      BY <1>18 DEF Uses
    <3> QED BY <1>1, <1>3, <1>18, <3>1
  <2>7. task'[t].phase # "idle" => task'[t].authority \in Authorities
    BY <1>4, <1>18
  <2>8. UNCHANGED client /\ IdsDiffer' /\ messages <= messages' /\ client = "ours"
    BY <1>1, <1>4, <1>13
  <2> QED BY <1>18, <2>1, <2>3, <2>4, <2>5, <2>6, <2>7, <2>8, CallStep
<1>19. CASE task' = [task EXCEPT ![t] = Waiting(k, id)] /\ UNCHANGED <<open, buf, rd, result>>
  <2>1. PICK j \in Calls : /\ j = Waiting(k, id) /\ j.phase = "head" /\ j.conn = k.conn
                           /\ j.authority = k.authority /\ j.id = id
    BY WaitingType
  <2>2. /\ task' \in [Tasks -> Calls] /\ task'[t] = j /\ \A u \in Tasks \ {t} : task'[u] = task[u]
    BY <1>8, <1>19, <2>1 DEF Types
  <2>3. /\ task'[t].phase = "head" /\ task'[t].conn = c /\ task'[t].authority = host[c] /\ task'[t].id = id
        /\ Uses(t)'
    BY <1>2, <1>4, <1>5, <2>1, <2>2 DEF Uses
  <2>4. Unanswered(c, id)'
    <3>1. Silent(c)'
      BY <1>3, <1>8, <1>15, <1>19 DEF Silent, Resting
    <3>2. host[c] \in Foreign /\ open'[s] => Len(wire'[s]) >= 2 /\ wire'[s][2].msg \in RequestHeads
                                             /\ wire'[s][2].msg.id = id
      BY <1>6, <1>15, <1>19
    <3>3. host[c] \notin Foreign =>
            \/ srv[c].phase = "returned"
            \/ srv[c].phase = "head" /\ Len(handled[c]) + 1 = Len(asked'[c])
      BY <1>8, <1>13 DEF Resting, ServerQuiet
    <3> QED BY <1>1, <1>3, <3>1, <3>2, <3>3 DEF Unanswered
  <2>5. CallInStep(t)'
    BY <1>13, <2>3, <2>4 DEF CallInStep
  <2>6. /\ open' \in [Ends -> BOOLEAN] /\ buf' \in [Ends -> Seq(Units)] /\ rd' \in [Ends -> Readers]
        /\ result' \in [Tasks -> Results]
    BY <1>8, <1>19 DEF Types
  <2>7. (task'[t].conn # 0 <=> Uses(t)') /\ open'[e]
    BY <1>4, <1>19, <2>3
  <2> QED BY <1>18, <1>19, <2>2, <2>3, <2>5, <2>6, <2>7
<1>20. CASE Drop(e) /\ Failed(t)
  <2>1. PICK v \in Results : v = Ended(t, "error") /\ v.kind # "ok"
    BY <1>8, NotOk
  <2>2. task' = [task EXCEPT ![t] = Idle] /\ result' = [result EXCEPT ![t] = v]
    BY <1>20, <2>1 DEF Failed, Return, Ended
  <2>3. /\ task' \in [Tasks -> Calls] /\ task'[t] = Idle /\ result' \in [Tasks -> Results]
        /\ result'[t].kind # "ok"
        /\ \A u \in Tasks \ {t} : task'[u] = task[u] /\ result'[u] = result[u]
    BY <1>8, <2>1, <2>2, IdleType DEF Types
  <2>4. /\ task'[t].conn = 0 /\ task'[t].phase = "idle" /\ ~Uses(t)' /\ CallInStep(t)'
    BY <2>3, IdleType DEF Uses, CallInStep
  <2>5. /\ open' \in [Ends -> BOOLEAN] /\ buf' \in [Ends -> Seq(Units)] /\ rd' \in [Ends -> Readers]
        /\ \A x \in Ends \ {e} : open'[x] = open[x] /\ buf'[x] = buf[x] /\ rd'[x] = rd[x]
    BY <1>8, <1>20, DropTypes
  <2> QED BY <1>18, <2>3, <2>4, <2>5
<1> QED BY <1>7, <1>19, <1>20

-----------------------------------------------------------------------------
\* Clients that are not of this crate.
LEMMA GuestStep ==
  ASSUME HttpInv, client = "foreign", Types', NEW c \in Conns, UNCHANGED <<task, idle, client, result>>,
         \A d \in Conns \ {c} : SameConn(d), ServerSide(c)', Grown(c), IdsDiffer', messages <= messages',
         host'[c] \notin Foreign
  PROVE  HttpInv'
<1>1. /\ \A t \in Tasks : task[t].phase = "idle" /\ ~Uses(t) /\ task[t].conn = 0
      /\ \A a \in Authorities : idle[a] = <<>>
      /\ \A d \in Conns : host[d] \notin Foreign
  BY DEF HttpInv, Owned, OursIdle, TaskOwns, Uses
<1>2. \A d \in Conns : ServerSide(d)' /\ Grown(d)
  <2> SUFFICES ASSUME NEW d \in Conns \ {c} PROVE ServerSide(d)' /\ Grown(d)
    OBVIOUS
  <2>1. ServerSide(d) /\ SameConn(d)
    BY DEF HttpInv
  <2> QED BY <2>1, SameConnKeeps
<1>3. OursIdle'
  <2>1. \A d \in Conns : host'[d] \notin Foreign
    BY <1>1 DEF SameConn
  <2> QED BY <1>1, <2>1 DEF OursIdle
<1>4. \A t \in Tasks : TaskOwns(t)' /\ CallInStep(t)'
  BY <1>1 DEF TaskOwns, CallInStep, Uses
<1>5. (\A a \in Authorities : PoolOwns(a)') /\ PoolInStep'
  <2>1. \A a \in Authorities : Len(idle'[a]) = 0 /\ 1..0 = {}
    BY <1>1
  <2>2. MaxIdle \in Nat
    BY HttpAssumption DEF MaxIdle
  <2> QED BY <2>1, <2>2 DEF PoolOwns, PoolInStep, MaxIdle
<1>6. ASSUME NEW t \in Tasks PROVE ResultTrue(t)'
  <2>1. Types /\ ResultTrue(t)
    BY DEF HttpInv
  <2> QED BY <1>2, <2>1, ResultKept
<1> QED BY <1>2, <1>3, <1>4, <1>5, <1>6 DEF HttpInv, Owned

\* A client on a new connection.
LEMMA GuestConnects ==
  ASSUME HttpInv, ForeignConnect
  PROVE  HttpInv'
<1>1. PICK c \in Conns : c = 1
  BY HttpAssumption DEF Conns
<1>2. PICK a \in Authorities \ Foreign : host' = [host EXCEPT ![c] = a]
  BY <1>1 DEF ForeignConnect
<1>3. /\ client = "foreign" /\ host[c] = 0
      /\ open' = [open EXCEPT ![CEnd(c)] = TRUE, ![SEnd(c)] = TRUE]
      /\ srv' = [srv EXCEPT ![c].phase = "head"]
      /\ UNCHANGED <<wire, buf, rd, task, idle, client, messages, asked, handled, result>>
  BY <1>1 DEF ForeignConnect, hist
<1>4. Types
  BY DEF HttpInv
<1>5. PICK s \in Servers : s = Serves(srv[c], "head") /\ s.phase = "head"
  <2>1. srv[c] \in Servers
    BY <1>4 DEF Types
  <2> QED BY <2>1, ServesType
<1>6. /\ srv' \in [Conns -> Servers] /\ srv'[c] = s /\ \A d \in Conns \ {c} : srv'[d] = srv[d]
  <2>1. srv' = [srv EXCEPT ![c] = s]
    BY <1>3, <1>5 DEF Serves
  <2> QED BY <1>4, <2>1 DEF Types
<1>7. CEnd(c) \in Ends /\ SEnd(c) \in Ends /\ CEnd(c) # SEnd(c)
  BY TwoEnds
<1>8. /\ open' \in [Ends -> BOOLEAN] /\ open'[CEnd(c)] /\ open'[SEnd(c)]
      /\ \A x \in Ends \ {CEnd(c), SEnd(c)} : open'[x] = open[x]
  BY <1>3, <1>4, <1>7 DEF Types
<1>9. host' \in [Conns -> {0} \cup Authorities] /\ host'[c] = a /\ \A d \in Conns \ {c} : host'[d] = host[d]
  BY <1>2, <1>4 DEF Types
<1>10. Types'
  BY <1>3, <1>4, <1>6, <1>8, <1>9 DEF Types
<1>11. /\ wire[SEnd(c)] = <<>> /\ buf[SEnd(c)] = <<>> /\ rd[SEnd(c)] = NoReader
       /\ asked[c] = <<>> /\ handled[c] = <<>>
  BY <1>3, FreshConn
<1>12. ServerSide(c)'
  <2>1. host'[c] \notin Foreign /\ host'[c] \in Authorities /\ srv'[c].phase = "head"
    BY <1>5, <1>6, <1>9
  <2> QED BY <1>3, <1>8, <1>11, <2>1, FreshServer
<1>13. \A d \in Conns \ {c} : SameConn(d)
  <2>1. \A x \in Ends \ {CEnd(c), SEnd(c)} : SameEnd(x)
    BY <1>3, <1>8 DEF SameEnd
  <2>2. \A d \in Conns \ {c} : /\ srv'[d] = srv[d] /\ host'[d] = host[d]
                               /\ asked'[d] = asked[d] /\ handled'[d] = handled[d]
    BY <1>3, <1>6, <1>9
  <2> QED BY <2>1, <2>2, OneConn
<1>14. Grown(c)
  BY <1>3, <1>11 DEF Grown
<1>15. IdsDiffer' /\ messages <= messages'
  <2>1. messages \in Nat /\ IdsDiffer
    BY MessagesNat DEF HttpInv
  <2> QED BY <1>3, <2>1 DEF IdsDiffer
<1> QED BY <1>3, <1>9, <1>10, <1>12, <1>13, <1>14, <1>15, GuestStep

\* It leaves.
LEMMA GuestLeaves ==
  ASSUME HttpInv, ForeignLeaves
  PROVE  HttpInv'
<1>1. PICK c \in Conns : c = 1
  BY HttpAssumption DEF Conns
<1>2. PICK e \in Ends, s \in Ends : e = CEnd(c) /\ s = SEnd(c) /\ e # s
  BY TwoEnds
<1>3. /\ client = "foreign" /\ open[e] /\ Drop(e)
      /\ UNCHANGED <<wire, srv, host, task, idle, client, messages, asked, handled, result>>
  BY <1>1, <1>2 DEF ForeignLeaves, hist
<1>4. Types /\ ServerSide(c) /\ IdsDiffer /\ messages \in Nat
  BY MessagesNat DEF HttpInv
<1>5. /\ open' \in [Ends -> BOOLEAN] /\ buf' \in [Ends -> Seq(Units)] /\ rd' \in [Ends -> Readers]
      /\ \A x \in Ends \ {e} : open'[x] = open[x] /\ buf'[x] = buf[x] /\ rd'[x] = rd[x]
  BY <1>3, <1>4, DropTypes
<1>6. Types'
  BY <1>3, <1>4, <1>5 DEF Types
<1>7. \A x \in Ends \ {e} : SameEnd(x)
  BY <1>3, <1>5 DEF SameEnd
<1>8. \A d \in Conns \ {c} : SameConn(d)
  <2>1. \A x \in Ends \ {CEnd(c), SEnd(c)} : SameEnd(x)
    BY <1>2, <1>7
  <2>2. UNCHANGED <<srv, host, asked, handled>>
    BY <1>3
  <2> QED BY <2>1, <2>2, OneConn
<1>9. host[c] # 0
  <2>1. host[c] = 0 => ~open[CEnd(c)]
    BY <1>4 DEF ServerSide, Connected
  <2> QED BY <1>2, <1>3, <2>1
<1>10. ServerSide(c)'
  <2>1. SameServer(c)
    BY <1>2, <1>3, <1>7 DEF SameServer
  <2> QED BY <1>4, <1>9, <2>1, ServerKept
<1>11. Grown(c)
  BY <1>3 DEF Grown, Settled
<1>12. IdsDiffer' /\ messages <= messages'
  BY <1>3, <1>4 DEF IdsDiffer
<1>13. host'[c] \notin Foreign
  BY <1>3 DEF HttpInv, Owned, OursIdle
<1> QED BY <1>3, <1>6, <1>8, <1>10, <1>11, <1>12, <1>13, GuestStep

\* It sends a request, or the beginning of one.
GuestAsk(r, id) ==
  [id |-> id, method |-> "GET", version |-> r.version, connection |-> r.connection, te |-> r.te,
   cl |-> r.cl, wellformed |-> r.wellformed]

\* A foreign client's request is well framed or refused.
LEMMA GuestAskFits ==
  ASSUME NEW r \in ForeignRequests, NEW id \in Nat
  PROVE  /\ GuestAsk(r, id) \in RequestHeads /\ GuestAsk(r, id).id = id /\ r.len \in Lengths
         /\ Fits(RequestBodyKind(GuestAsk(r, id)), GuestAsk(r, id), r.len)
<1>1. /\ r.version \in {10, 11} /\ r.connection \in STRING /\ r.te \in STRING /\ r.cl \in 0..Invalid
      /\ r.len \in Lengths /\ r.wellformed \in BOOLEAN /\ Fits(RequestBodyKind(r), r, r.len)
  <2>1. /\ r \in [version : {10, 11}, connection : STRING, te : STRING, cl : 0..Invalid, len : Lengths,
                  wellformed : BOOLEAN]
        /\ Fits(RequestBodyKind(r), r, r.len)
    BY MessageAssumption
  <2> QED BY <2>1
<1>2. PICK m \in Text, x \in Text, te \in Text : m = "GET" /\ x = r.connection /\ te = r.te
  BY <1>1, Texts, Zenon
<1> DEFINE msg == GuestAsk(r, id)
<1>3. msg = [id |-> id, method |-> m, version |-> r.version, connection |-> x, te |-> te,
             cl |-> r.cl, wellformed |-> r.wellformed]
  BY <1>2 DEF GuestAsk
<1> HIDE DEF msg
<1>4. msg \in RequestHeads
  BY <1>1, <1>3 DEF RequestHeads
<1>5. msg.id = id /\ msg.te = r.te /\ msg.cl = r.cl
  BY <1>2, <1>3
<1>6. Fits(RequestBodyKind(msg), msg, r.len)
  BY <1>1, <1>5 DEF Fits, RequestBodyKind, ContentLengthKind, TransferEncodingKind
<1> QED BY <1>1, <1>4, <1>5, <1>6 DEF msg

\* A foreign client sends a request, or breaks off in it.
LEMMA GuestSends ==
  ASSUME HttpInv, NEW r \in ForeignRequests, ForeignSend(r)
  PROVE  HttpInv'
<1>1. PICK c \in Conns : c = 1
  BY HttpAssumption DEF Conns
<1>2. PICK e \in Ends, s \in Ends : e = CEnd(c) /\ s = SEnd(c) /\ e # s
  BY TwoEnds
<1>3. Types /\ ServerSide(c) /\ messages \in Nat /\ MaxMessages \in Nat
  BY MessagesNat, HttpAssumption DEF HttpInv
<1>4. PICK id \in Nat : id = messages + 1
  BY <1>3
<1>5. PICK msg \in RequestHeads, len \in Lengths :
        msg = GuestAsk(r, id) /\ msg.id = id /\ len = r.len /\ Fits(RequestBodyKind(msg), msg, len)
  BY GuestAskFits
<1>6. /\ client = "foreign" /\ open[e] /\ messages < MaxMessages /\ messages' = messages + 1
      /\ UNCHANGED <<buf, rd, srv, task, idle, host, client, handled, result>>
  BY <1>1, <1>2 DEF ForeignSend
<1>7. PICK n \in 1..Len(MessageUnits(msg, len)) :
        /\ wire' = [wire EXCEPT ![s] = IF open[s] THEN @ \o SubSeq(MessageUnits(msg, len), 1, n) ELSE @]
        /\ open' = [open EXCEPT ![e] = (n = Len(MessageUnits(msg, len)))]
        /\ asked' = [asked EXCEPT ![c] = Append(@, Ask(msg, len))]
  BY <1>1, <1>2, <1>4, <1>5 DEF ForeignSend, GuestAsk, Ask
<1>8. /\ open' \in [Ends -> BOOLEAN] /\ (n # Len(MessageUnits(msg, len)) => ~open'[e])
      /\ \A x \in Ends \ {e} : open'[x] = open[x]
  BY <1>3, <1>7 DEF Types
<1>9. Sends(c, msg, len, n)
  BY <1>2, <1>6, <1>7, <1>8 DEF Sends
<1>10. msg.id = messages + 1
  BY <1>4, <1>5
<1>11. /\ asked' \in [Conns -> Asks] /\ \A d \in Conns \ {c} : asked'[d] = asked[d]
       /\ Grown(c) /\ IdsDiffer' /\ messages <= messages'
  BY <1>9, <1>10, AskGrows
<1>12. host[c] \in Authorities \ Foreign
  <2>1. host[c] = 0 => ~open[CEnd(c)]
    BY <1>3 DEF ServerSide, Connected
  <2>2. host[c] \in {0} \cup Authorities /\ host[c] \notin Foreign
    BY <1>3, <1>6 DEF Types, HttpInv, Owned, OursIdle
  <2> QED BY <1>2, <1>6, <2>1, <2>2
<1>13. /\ ServerSide(c)' /\ wire' \in [Ends -> Seq(Units)]
       /\ \A x \in Ends \ {s} : wire'[x] = wire[x]
  <2>1. open[CEnd(c)] /\ host[c] \in Authorities /\ ~(host[c] \in Foreign)
    BY <1>2, <1>6, <1>12
  <2> QED BY <1>2, <1>5, <1>9, <1>10, <2>1, AskServed
<1>14. Types'
  BY <1>3, <1>6, <1>8, <1>11, <1>13 DEF Types
<1>15. \A d \in Conns \ {c} : SameConn(d)
  <2>1. \A x \in Ends \ {CEnd(c), SEnd(c)} : SameEnd(x)
    BY <1>2, <1>6, <1>8, <1>13 DEF SameEnd
  <2>2. \A d \in Conns \ {c} : /\ srv'[d] = srv[d] /\ host'[d] = host[d]
                               /\ asked'[d] = asked[d] /\ handled'[d] = handled[d]
    BY <1>6, <1>11
  <2> QED BY <2>1, <2>2, OneConn
<1>16. host'[c] \notin Foreign
  BY <1>6, <1>12
<1> QED BY <1>6, <1>11, <1>13, <1>14, <1>15, <1>16, GuestStep

-----------------------------------------------------------------------------
\* The invariant holds at the start, and every step keeps it.
LEMMA HttpInit == ASSUME Init PROVE HttpInv
<1>1. Types
  <2>1. <<>> \in Seq(Units) /\ <<>> \in Seq(Conns) /\ <<>> \in Seq(Hand) /\ <<>> \in Asks
    BY DEF Asks
  <2>2. [phase |-> "off", head |-> NoMessage] \in Servers
    BY DEF Servers
  <2>3. 0 \in 0..MaxMessages
    BY HttpAssumption
  <2>4. wire \in [Ends -> Seq(Units)] /\ buf \in [Ends -> Seq(Units)] /\ open \in [Ends -> BOOLEAN]
    BY <2>1 DEF Init
  <2>5. rd \in [Ends -> Readers]
    BY NoReaderType DEF Init
  <2>6. srv \in [Conns -> Servers]
    BY <2>2 DEF Init
  <2>7. task \in [Tasks -> Calls]
    BY IdleType DEF Init
  <2>8. idle \in [Authorities -> Seq(Conns)] /\ host \in [Conns -> {0} \cup Authorities]
    BY <2>1 DEF Init
  <2>9. asked \in [Conns -> Asks] /\ handled \in [Conns -> Seq(Hand)]
    BY <2>1 DEF Init
  <2>10. result \in [Tasks -> Results]
    BY NoResultType DEF Init
  <2> QED BY <2>3, <2>4, <2>5, <2>6, <2>7, <2>8, <2>9, <2>10 DEF Types, Init
<1>2. \A t \in Tasks : task[t] = Idle /\ task[t].phase = "idle" /\ task[t].conn = 0
  BY IdleType DEF Init
<1>3. Owned
  <2>1. \A t \in Tasks : TaskOwns(t)
    BY <1>2 DEF TaskOwns, Uses
  <2>2. \A a \in Authorities : idle[a] = <<>> /\ Len(idle[a]) = 0 /\ 0 <= MaxIdle
    BY HttpAssumption DEF Init, MaxIdle
  <2>3. \A a \in Authorities : PoolOwns(a)
    BY <2>2 DEF PoolOwns
  <2>4. OursIdle
    BY <1>2, <2>2, HttpAssumption DEF OursIdle, Init
  <2> QED BY <2>1, <2>3, <2>4 DEF Owned
<1>4. PoolInStep
  BY DEF PoolInStep, Init
<1>5. IdsDiffer
  BY DEF IdsDiffer, Init
<1>6. ASSUME NEW c \in Conns PROVE ServerSide(c)
  <2>1. CEnd(c) \in Ends /\ SEnd(c) \in Ends /\ 0 \notin Authorities /\ Foreign \subseteq Authorities
    BY TwoEnds, HttpAssumption
  <2>2. srv[c].phase = "off" /\ host[c] = 0 /\ asked[c] = <<>> /\ handled[c] = <<>>
    BY DEF Init
  <2>3. Connected(c)
    BY <2>1, <2>2 DEF Connected, Init
  <2>4. HandledInOrder(c)
    BY <2>2 DEF HandledInOrder
  <2>5. ServesInStep(c)
    BY <2>2 DEF ServesInStep
  <2> QED BY <2>3, <2>4, <2>5 DEF ServerSide
<1>7. ASSUME NEW t \in Tasks PROVE CallInStep(t) /\ ResultTrue(t)
  <2>1. result[t].kind = "none"
    BY NoResultType DEF Init
  <2> QED BY <1>2, <2>1 DEF CallInStep, ResultTrue
<1> QED BY <1>1, <1>3, <1>4, <1>5, <1>6, <1>7 DEF HttpInv

\* A step that changes nothing.
LEMMA HttpStutters == ASSUME HttpInv, UNCHANGED vars PROVE HttpInv'
<1>1. PICK c \in Conns : c = 1
  BY HttpAssumption DEF Conns
<1>2. UNCHANGED <<wire, open, buf, rd, srv, task, idle, host, client, messages, asked, handled, result>>
  BY DEF vars, net, hist
<1>3. Types'
  BY <1>2 DEF HttpInv, Types
<1>4. \A d \in Conns : SameConn(d)
  BY <1>2 DEF SameConn, SameEnd
<1>5. ServerSide(c)' /\ ClientKept(c) /\ Grown(c)
  BY <1>4, SameConnKeeps DEF HttpInv
<1> QED BY <1>2, <1>3, <1>4, <1>5, ServerStep

\* Every step keeps the invariant.
LEMMA HttpStep == ASSUME HttpInv, [Next]_vars PROVE HttpInv'
<1>1. CASE UNCHANGED vars
  BY <1>1, HttpStutters
<1>2. ASSUME NEW c \in Conns, ServeConnection(c) PROVE HttpInv'
  <2>1. CASE ServeHead(c)
    BY <2>1, HeadServed
  <2>2. CASE ReadBody(SEnd(c))
    BY <2>2, HandlerReads
  <2>3. CASE \E r \in Responses : Respond(c, r)
    BY <2>3, Responds
  <2> QED BY <1>2, <2>1, <2>2, <2>3 DEF ServeConnection
<1>3. ASSUME NEW c \in Conns, NEW max \in BodyLimits, HandlerReadsBody(c, max) PROVE HttpInv'
  BY <1>3, HandlerOpens
<1>4. ASSUME NEW c \in Conns, ForeignCloses(c) PROVE HttpInv'
  BY <1>4, ForeignShuts
<1>5. ASSUME NEW c \in Conns, NEW r \in ForeignResponses, ForeignServe(c, r) PROVE HttpInv'
  BY <1>5, ForeignServes
<1>6. ASSUME NEW t \in Tasks, Request(t) PROVE HttpInv'
  <2>1. CASE TakeIdle(t)
    BY <2>1, Takes
  <2>2. CASE Connect(t)
    BY <2>2, Connects
  <2>3. CASE SendRequest(t)
    BY <2>3, RequestGoesOut
  <2>4. CASE ReadResponseHead(t)
    BY <2>4, HeadRead
  <2>5. CASE InPhase(t, "body") /\ ReadBody(CEnd(task[t].conn))
    BY <2>5, ResponseReads
  <2>6. CASE FollowRedirect(t)
    BY <2>6, Redirects
  <2>7. CASE FinishRequest(t)
    BY <2>7, Finishes
  <2>8. CASE RequestFails(t)
    BY <2>8, BodyFails
  <2> QED BY <1>6, <2>1, <2>2, <2>3, <2>4, <2>5, <2>6, <2>7, <2>8 DEF Request
<1>7. ASSUME NEW t \in Tasks, CancelRequest(t) PROVE HttpInv'
  BY <1>7, Cancels
<1>8. ASSUME NEW t \in Tasks, NEW r \in Requests[t], StartRequest(t, r) PROVE HttpInv'
  BY <1>8, Starts
<1>9. CASE ForeignConnect
  BY <1>9, GuestConnects
<1>10. CASE ForeignLeaves
  BY <1>10, GuestLeaves
<1>11. ASSUME NEW r \in ForeignRequests, ForeignSend(r) PROVE HttpInv'
  BY <1>11, GuestSends
<1> QED BY <1>1, <1>2, <1>3, <1>4, <1>5, <1>6, <1>7, <1>8, <1>9, <1>10, <1>11 DEF Next

\* The invariant holds in every reachable state.
LEMMA HttpInvariance == Spec => []HttpInv
<1>1. Init => HttpInv
  BY HttpInit
<1>2. HttpInv /\ [Next]_vars => HttpInv'
  BY HttpStep
<1> QED BY <1>1, <1>2, PTL DEF Spec

-----------------------------------------------------------------------------
\* What the invariant says about the handlers: a prefix of a body's bytes.
LEMMA DataPrefix ==
  ASSUME NEW id \in Nat, NEW len \in Nat, NEW s, s = DataUnits(id, Len(s)), Len(s) \in Nat, Len(s) <= len
  PROVE  IsPrefix(s, DataUnits(id, len))
<1>1. PICK k \in Nat : k = Len(s) /\ s = DataUnits(id, k)
  OBVIOUS
<1>2. PICK t : t = DataUnits(id, len)
  OBVIOUS
<1>3. /\ s \in Seq(Units) /\ \A i \in 1..k : s[i] = Unit("data", id, i)
      /\ t \in Seq(Units) /\ Len(t) = len /\ \A i \in 1..len : t[i] = Unit("data", id, i)
  <2>1. s \in Seq(Units) /\ \A i \in 1..k : s[i] = Unit("data", id, i)
    BY <1>1, DataElements
  <2>2. t \in Seq(Units) /\ Len(t) = len /\ \A i \in 1..len : t[i] = Unit("data", id, i)
    BY <1>2, DataElements
  <2> QED BY <2>1, <2>2
<1>4. k \in 0..Len(s) /\ k \in 0..Len(t)
  BY <1>1, <1>3
<1>5. /\ SubSeq(s, 1, k) \in Seq(Units) /\ Len(SubSeq(s, 1, k)) = k /\ \A i \in 1..k : SubSeq(s, 1, k)[i] = s[i]
      /\ SubSeq(t, 1, k) \in Seq(Units) /\ Len(SubSeq(t, 1, k)) = k /\ \A i \in 1..k : SubSeq(t, 1, k)[i] = t[i]
  BY <1>3, <1>4, CutSeq
<1>6. PICK x \in Seq(Units), y \in Seq(Units) : x = SubSeq(s, 1, k) /\ y = SubSeq(t, 1, k)
  BY <1>5
<1>7. ASSUME NEW i \in 1..k PROVE x[i] = y[i]
  <2>1. i \in 1..len
    BY <1>1
  <2>2. x[i] = s[i] /\ y[i] = t[i]
    BY <1>5, <1>6
  <2> QED BY <1>3, <2>1, <2>2
<1>8. Len(x) = k /\ Len(y) = k /\ \A i \in 1..Len(x) : x[i] = y[i]
  BY <1>5, <1>6, <1>7
<1>9. x = y
  BY <1>8, SeqEqual
<1> QED BY <1>1, <1>2, <1>3, <1>6, <1>9 DEF IsPrefix

\* A body that was read to its end, with more behind it: it is whole.
LEMMA BodyRead ==
  ASSUME NEW r \in Readers, NEW a, NEW msg \in Heads, NEW len \in Nat, NEW w, NEW broken,
         r.state = "finished", r.kind # "eof", Reads(r, a, msg, len, w, broken)
  PROVE  Len(r.out) = len
<1>1. PICK q \in 0..Len(BodyUnits(msg, len)) : Stands(r, msg, len, q) /\ q = Len(BodyUnits(msg, len))
  BY DEF Reads, Before
<1>2. msg.te # "chunked" => Len(BodyUnits(msg, len)) = len
  BY BodyTypes
<1>3. Len(r.out) \in Nat
  BY ReaderFields
<1> QED BY <1>1, <1>2, <1>3 DEF Stands

\* The invariant implies what the handlers are promised.
LEMMA HandlersServed == HttpInv => RequestsInStep
<1> SUFFICES ASSUME HttpInv PROVE RequestsInStep
  OBVIOUS
<1>1. TypeOK
  BY TypesOK DEF HttpInv
<1>2. ASSUME NEW c \in Conns, NEW i \in DOMAIN handled[c]
      PROVE  LET a == asked[c][i]
                 h == handled[c][i]
             IN  /\ Len(handled[c]) <= Len(asked[c]) /\ h.id = a.id
                 /\ IsPrefix(h.body, DataUnits(a.id, a.len))
                 /\ i = Len(handled[c]) /\ Serving(c, "handle") =>
                      /\ IsPrefix(rd[SEnd(c)].out, DataUnits(a.id, a.len))
                      /\ rd[SEnd(c)].state = "finished" => Len(rd[SEnd(c)].out) = a.len
  <2>1. PICK reqs \in Asks, done \in Seq(Hand) : reqs = asked[c] /\ done = handled[c]
    BY DEF HttpInv, Types
  <2>2. HandledInOrder(c)
    BY DEF HttpInv, ServerSide
  <2>3. i \in 1..Len(done) /\ done[i] \in Hand /\ Len(done) <= Len(reqs) /\ Len(done) \in Nat
    BY <2>1, <2>2, SeqElement DEF HandledInOrder
  <2>4. Len(reqs) \in Nat
    BY DEF Asks
  <2>5. i \in 1..Len(reqs)
    BY <2>3, <2>4
  <2>6. PICK id \in Nat, len \in Nat : id = reqs[i].id /\ len = reqs[i].len
    BY <2>5, AskTypes
  <2>7. PICK h \in Hand : h = done[i]
    BY <2>3
  <2>8. h.body \in Seq(Units) /\ Len(h.body) \in Nat
    BY DEF Hand
  <2>9. h.id = id /\ h.body = DataUnits(id, Len(h.body)) /\ Len(h.body) <= len
    BY <2>1, <2>2, <2>3, <2>6, <2>7 DEF HandledInOrder
  <2>10. PICK s : s = h.body
    OBVIOUS
  <2>11. IsPrefix(s, DataUnits(id, len))
    BY <2>8, <2>9, <2>10, DataPrefix
  <2>12. ASSUME i = Len(handled[c]), Serving(c, "handle")
         PROVE  /\ IsPrefix(rd[SEnd(c)].out, DataUnits(id, len))
                /\ rd[SEnd(c)].state = "finished" => Len(rd[SEnd(c)].out) = len
    <3>1. srv[c].phase = "handle"
      BY <2>12 DEF Serving
    <3>2. PICK w \in Seq(Units) : HandsOver(c, w)
      BY <3>1, InHand
    <3>3. PICK msg \in Heads, r \in Readers : msg = srv[c].head /\ r = rd[SEnd(c)]
      BY <3>1, InHand DEF Heads
    <3>4. msg.id = id /\ r.kind # "eof"
      BY <2>1, <2>6, <2>12, <3>1, <3>3, InHand
    <3>5. Reads(r, Available(SEnd(c)), msg, len, w, ~open[CEnd(c)])
      BY <2>1, <2>6, <2>12, <3>2, <3>3 DEF HandsOver
    <3>6. PICK out : out = r.out
      OBVIOUS
    <3>7. Len(out) \in Nat
      BY <3>6, ReaderFields
    <3>8. out = DataUnits(id, Len(out)) /\ Len(out) <= len
      BY <3>4, <3>5, <3>6 DEF Reads, Taken
    <3>9. IsPrefix(out, DataUnits(id, len))
      BY <3>7, <3>8, DataPrefix
    <3>10. ASSUME r.state = "finished" PROVE Len(r.out) = len
      BY <3>4, <3>5, <3>10, BodyRead
    <3> QED BY <3>3, <3>6, <3>9, <3>10
  <2> QED BY <2>1, <2>3, <2>6, <2>7, <2>9, <2>10, <2>11, <2>12
<1> QED BY <1>1, <1>2 DEF RequestsInStep

\* The invariant implies what the callers are promised.
LEMMA CallersServed == HttpInv => ResponseIsForRequest
<1> SUFFICES ASSUME HttpInv, NEW t \in Tasks, result[t].kind = "ok"
             PROVE  /\ result[t].body = DataUnits(result[t].id, Len(result[t].body))
                    /\ \A c \in Conns : \A h \in Range(handled[c]) :
                         h.id = result[t].id => Len(result[t].body) = h.reply
  BY DEF ResponseIsForRequest
<1>1. ResultTrue(t)
  BY DEF HttpInv
<1>2. ASSUME NEW c \in Conns, NEW h \in Range(handled[c]), h.id = result[t].id
      PROVE  Len(result[t].body) = h.reply
  <2>1. PICK i \in DOMAIN handled[c] : h = handled[c][i]
    BY <1>2 DEF Range
  <2>2. PICK reqs \in Asks, done \in Seq(Hand) : reqs = asked[c] /\ done = handled[c]
    BY DEF HttpInv, Types
  <2>3. HandledInOrder(c) /\ Connected(c)
    BY DEF HttpInv, ServerSide
  <2>4. i \in 1..Len(done) /\ Len(done) <= Len(reqs) /\ Len(done) \in Nat
    BY <2>1, <2>2, <2>3, SeqElement DEF HandledInOrder
  <2>5. Len(reqs) \in Nat
    BY DEF Asks
  <2>6. i \in 1..Len(asked[c]) /\ asked[c][i].id = result[t].id
    BY <1>2, <2>1, <2>2, <2>3, <2>4, <2>5 DEF HandledInOrder
  <2>7. Settled(c, i, Len(result[t].body))
    BY <1>1, <2>6 DEF ResultTrue
  <2>8. srv[c].phase # "foreign"
    <3>1. SUFFICES ASSUME srv[c].phase = "foreign" PROVE FALSE
      OBVIOUS
    <3>2. handled[c] = <<>>
      BY <2>3, <3>1, ForeignHost DEF Connected
    <3> QED BY <2>2, <2>4, <3>2
  <2> QED BY <2>1, <2>7, <2>8 DEF Settled
<1> QED BY <1>1, <1>2 DEF ResultTrue

\* The invariant implies that pooled connections are in step.
LEMMA PoolServed == HttpInv => PooledInStep
<1> SUFFICES ASSUME HttpInv, NEW a \in Authorities
             PROVE  Len(idle[a]) <= MaxIdle /\ \A i \in DOMAIN idle[a] :
                      LET c == idle[a][i] IN
                      /\ host[c] = a /\ open[CEnd(c)]
                      /\ \A j \in DOMAIN idle[a] : idle[a][j] = c => i = j
                      /\ \A t \in Tasks : task[t].conn # c
                      /\ wire[CEnd(c)] = <<>>
                      /\ a \notin Foreign => \/ Serving(c, "returned")
                                             \/ Serving(c, "head") /\ Available(SEnd(c)) = <<>>
  BY DEF PooledInStep
<1>1. PoolOwns(a) /\ PoolInStep
  BY DEF HttpInv, Owned
<1>2. PICK p \in Seq(Conns) : p = idle[a]
  BY DEF HttpInv, Types
<1>3. ASSUME NEW i \in DOMAIN idle[a], NEW c, c = idle[a][i]
      PROVE  /\ host[c] = a /\ open[CEnd(c)]
             /\ \A j \in DOMAIN idle[a] : idle[a][j] = c => i = j
             /\ \A t \in Tasks : task[t].conn # c
             /\ wire[CEnd(c)] = <<>>
             /\ a \notin Foreign => \/ Serving(c, "returned")
                                    \/ Serving(c, "head") /\ Available(SEnd(c)) = <<>>
  <2>1. i \in 1..Len(p) /\ c \in Conns /\ DOMAIN p = 1..Len(p)
    BY <1>2, <1>3, SeqElement
  <2>2. /\ host[c] = a /\ open[CEnd(c)] /\ \A t \in Tasks : task[t].conn # c
        /\ \A j \in 1..Len(p) : p[j] = c => j = i
    BY <1>1, <1>2, <1>3, <2>1 DEF PoolOwns
  <2>3. Resting(c)
    BY <1>1, <1>2, <1>3, <2>1 DEF PoolInStep
  <2>4. ASSUME a \notin Foreign, ~Serving(c, "returned")
        PROVE  Serving(c, "head") /\ Available(SEnd(c)) = <<>>
    <3>1. srv[c].phase = "head" /\ Len(handled[c]) = Len(asked[c])
      BY <2>2, <2>3, <2>4 DEF Resting, ServerQuiet, Serving
    <3>2. ServesInStep(c) /\ asked[c] \in Asks
      BY <2>1 DEF HttpInv, ServerSide, Types
    <3>3. PICK w \in Seq(Units) :
            Queued(asked[c], Len(asked[c]), w) /\ Arrives(Available(SEnd(c)), w, ~open[CEnd(c)])
      BY <3>1, <3>2 DEF ServesInStep
    <3>4. PICK reqs \in Asks : reqs = asked[c]
      BY <3>2
    <3>5. w = <<>>
      BY <3>3, <3>4, QueuedNothing
    <3>6. PICK s \in Seq(Units) : s = Available(SEnd(c))
      <4>1. wire[SEnd(c)] \in Seq(Units) /\ buf[SEnd(c)] \in Seq(Units)
        BY <2>1, TwoEnds DEF HttpInv, Types
      <4>2. buf[SEnd(c)] \o wire[SEnd(c)] \in Seq(Units)
        BY <4>1, ConcatElements
      <4> QED BY <4>2 DEF Available
    <3>7. \E broken : Arrives(s, <<>>, broken)
      BY <3>3, <3>5, <3>6
    <3>8. s = <<>>
      BY <3>7, ArrivesNothing
    <3> QED BY <3>1, <3>6, <3>8 DEF Serving
  <2> QED BY <1>2, <2>1, <2>2, <2>3, <2>4 DEF Resting, Silent
<1>4. Len(idle[a]) <= MaxIdle
  BY <1>1 DEF PoolOwns
<1> QED BY <1>3, <1>4

\* Whatever the framing, the cuts of the transport, what the handler does with
\* a body and when clients leave, serve_connection gives the handler the
\* requests of a connection in the order they were sent, each with bytes of
\* its own body only, and with all of them when BodyReader says it is finished.
THEOREM HandlersStayInStep == Spec => []RequestsInStep
BY HttpInvariance, HandlersServed, PTL

\* What HttpClient::request returns is the answer to that very request, with
\* the whole body serve_connection wrote for it, although connections are
\* reused, calls cancelled and servers die.
THEOREM ResponsesAnswerRequests == Spec => []ResponseIsForRequest
BY HttpInvariance, CallersServed, PTL

\* Pool::put and Pool::take: a connection in the pool is open, nobody's, and
\* has no answer left on it; serve_connection at its other end waits for a new
\* head with nothing in front of it, or has returned.
THEOREM PoolStaysInStep == Spec => []PooledInStep
BY HttpInvariance, PoolServed, PTL

=============================================================================
