--------------------------- MODULE WebSocketProofs --------------------------
(***************************************************************************)
(* Two WebSocketStreams, proved for every choice of what the two ends may  *)
(* do and every bound.  Whatever mix of close, echo, protocol error,       *)
(* cancellation and broken transport: an end writes one Close, and recv    *)
(* returns whole messages in order.  And no message is lost between ends   *)
(* that let recv run on between two fragments.                             *)
(***************************************************************************)
EXTENDS WebSocket, ProofBasics

\* The types of what the handshake reads and writes.
CloseTypes ==
  /\ close_sent \in [Ends -> BOOLEAN]
  /\ close_received \in [Ends -> BOOLEAN]
  /\ dropped \in [Ends -> BOOLEAN]
  /\ closes \in [Ends -> Nat]
  /\ op \in [Ends -> {"idle", "send", "recv", "close"}]
  /\ after \in [Ends -> {"none", "return", "decode", "ping", "echoed", "protocol"}]
  /\ writing = [e \in Ends |-> writing[e]]

\* close_sent is set before the Close is written, so in between it stands for
\* the write in progress; a write that failed has lost its peer.
CloseInvAt(e) ==
  /\ closes[e] <= 1
  /\ writing[e] = Close => close_sent[e] /\ closes[e] = 0
  /\ closes[e] = 1 => close_sent[e]
  /\ close_sent[e] => writing[e] = Close \/ closes[e] = 1 \/ dropped[Peer(e)]
  /\ after[e] = "echoed" => writing[e] = Close
  /\ close_received[e] => closes[e] = 1 \/ dropped[Peer(e)]
  /\ op[e] = "idle" => writing[e] = NoFrame

CloseInv == CloseTypes /\ \A e \in Ends : CloseInvAt(e)

-----------------------------------------------------------------------------
\* Only the Close frame is a Close.
LEMMA FramesDiffer ==
  /\ Close # NoFrame /\ Ping # Close /\ Pong # Close /\ Ping # NoFrame
  /\ \A m : Message(m) # Close
BY DEF Close, NoFrame, Ping, Pong, Message, Frame

\* The peer of an end is the other end.
LEMMA PeerIsEnd == \A e \in Ends : Peer(e) \in Ends /\ Peer(e) # e /\ Peer(Peer(e)) = e
BY WebSocketAssumption DEF Ends, Peer

\* The close handshake has not begun.
LEMMA CloseInit == Init => CloseInv
BY PeerIsEnd, FramesDiffer DEF Init, CloseInv, CloseTypes, CloseInvAt

\* A call that starts or continues with a write of f from a state where
\* nothing is being written keeps the invariant, if it sends a Close only once.
LEMMA SendStep ==
  ASSUME CloseInv, NEW e \in Ends, NEW f, NEW next,
         writing[e] = NoFrame, f = Close => ~close_sent[e],
         next \in {"return", "decode", "ping", "echoed", "protocol"},
         next = "echoed" => f = Close,
         Send(e, f, next),
         op' \in [Ends -> {"idle", "send", "recv", "close"}],
         op'[e] # "idle",
         \A x \in Ends \ {e} : op'[x] = op[x],
         UNCHANGED <<close_received, dropped, closes>>
  PROVE  CloseInv'
<1> USE DEF CloseInv, CloseTypes
<1>1. CloseTypes'
  BY DEF Send
<1>2. ASSUME NEW x \in Ends PROVE CloseInvAt(x)'
  <2>1. CASE x = e
    <3>1. writing'[e] = f /\ after'[e] = next
      BY DEF Send
    <3>2. close_sent'[e] <=> (close_sent[e] \/ f = Close)
      BY DEF Send
    <3>3. CloseInvAt(e) /\ Peer(e) \in Ends
      BY PeerIsEnd
    <3> QED BY <2>1, <3>1, <3>2, <3>3, FramesDiffer DEF CloseInvAt
  <2>2. CASE x # e
    BY <2>2, PeerIsEnd DEF Send, CloseInvAt
  <2> QED BY <2>1, <2>2
<1> QED BY <1>1, <1>2

\* A step that leaves the handshake alone keeps the invariant; it may end or
\* begin a call, but not while a frame is being written.
LEMMA CallStep ==
  ASSUME CloseInv,
         op' \in [Ends -> {"idle", "send", "recv", "close"}],
         \A x \in Ends : op'[x] # op[x] => writing[x] = NoFrame,
         UNCHANGED <<close_sent, close_received, closes, writing, after, dropped>>
  PROVE  CloseInv'
BY PeerIsEnd DEF CloseInv, CloseTypes, CloseInvAt

-----------------------------------------------------------------------------
\* One step of an end.
LEMMA WriteKeeps == ASSUME CloseInv, NEW e \in Ends, Write(e) PROVE CloseInv'
<1> USE DEF CloseInv, CloseTypes
<1>1. CloseTypes'
  <2>0. closes' \in [Ends -> Nat]
    BY DEF Write
  <2>1. /\ writing' = [x \in Ends |-> writing'[x]]
        /\ after' \in [Ends -> {"none", "return", "decode", "ping", "echoed", "protocol"}]
        /\ UNCHANGED <<dropped, close_sent>>
    BY DEF Write, WriteDone
  <2>2. /\ close_received' \in [Ends -> BOOLEAN]
        /\ op' \in [Ends -> {"idle", "send", "recv", "close"}]
    BY DEF Write, Result
  <2> QED BY <2>0, <2>1, <2>2
<1>2. ASSUME NEW x \in Ends PROVE CloseInvAt(x)'
  <2>1. CASE x = e
    BY <2>1, PeerIsEnd, FramesDiffer DEF Write, WriteDone, CloseInvAt
  <2>2. CASE x # e
    BY <2>2, PeerIsEnd DEF Write, WriteDone, Result, CloseInvAt
  <2> QED BY <2>1, <2>2
<1> QED BY <1>1, <1>2

\* A write that fails has lost its peer.
LEMMA WriteFailsKeeps == ASSUME CloseInv, NEW e \in Ends, WriteFails(e) PROVE CloseInv'
<1> USE DEF CloseInv, CloseTypes
<1>1. CloseTypes'
  BY DEF WriteFails, WriteDone, Result, flags, link
<1>2. ASSUME NEW x \in Ends PROVE CloseInvAt(x)'
  <2>1. CASE x = e
    BY <2>1, PeerIsEnd, FramesDiffer DEF WriteFails, WriteDone, CloseInvAt, flags, link
  <2>2. CASE x # e
    BY <2>2, PeerIsEnd DEF WriteFails, WriteDone, Result, CloseInvAt, flags, link
  <2> QED BY <2>1, <2>2
<1> QED BY <1>1, <1>2

\* A protocol violation is answered with a Close only by an end that has sent
\* none.
LEMMA ViolationKeeps ==
  ASSUME CloseInv, NEW e \in Ends, InRecv(e), Violation(e), UNCHANGED <<dropped, closes>>
  PROVE  CloseInv'
<1> USE DEF CloseInv, CloseTypes
<1>1. CASE close_sent[e]
  BY <1>1, CallStep DEF Violation, Result, InRecv, Send
<1>2. CASE ~close_sent[e]
  BY <1>2, SendStep DEF Violation, InRecv
<1> QED BY <1>1, <1>2

\* The peer's Close: an end that has already sent its own sees the close at
\* once, and its own has been written, for nothing is being written now.
LEMMA DecodeCloseKeeps ==
  ASSUME CloseInv, NEW e \in Ends, InRecv(e), DecodeClose(e), UNCHANGED <<dropped, closes>>
  PROVE  CloseInv'
<1> USE DEF CloseInv, CloseTypes
<1>1. CASE close_sent[e]
  <2>1. /\ UNCHANGED <<close_sent, writing, after, dropped, closes>>
        /\ close_received' = [close_received EXCEPT ![e] = TRUE]
        /\ op' = [op EXCEPT ![e] = "idle"]
    BY <1>1 DEF DecodeClose, Result
  <2>2. CloseTypes'
    BY <2>1
  <2>3. ASSUME NEW x \in Ends PROVE CloseInvAt(x)'
    <3>1. CASE x = e
      BY <1>1, <2>1, <3>1, FramesDiffer, PeerIsEnd DEF CloseInvAt, InRecv
    <3>2. CASE x # e
      BY <2>1, <3>2, PeerIsEnd DEF CloseInvAt
    <3> QED BY <3>1, <3>2
  <2> QED BY <2>2, <2>3
<1>2. CASE ~close_sent[e]
  BY <1>2, SendStep DEF DecodeClose, InRecv
<1> QED BY <1>1, <1>2

\* What is decoded, and the Close or echo it may start to write.
LEMMA DecodeKeeps == ASSUME CloseInv, NEW e \in Ends, Decode(e) PROVE CloseInv'
<1> USE DEF CloseInv, CloseTypes
<1>1. InRecv(e) /\ UNCHANGED <<dropped, closes>>
  BY DEF Decode, link
<1>2. CASE Violation(e)
  BY <1>1, <1>2, ViolationKeeps
<1>3. CASE DecodePing(e)
  BY <1>1, <1>3, SendStep, FramesDiffer DEF DecodePing, InRecv
<1>4. CASE DecodePong(e)
  BY <1>1, <1>4, CallStep DEF DecodePong, Result, InRecv
<1>5. CASE DecodeClose(e)
  BY <1>1, <1>5, DecodeCloseKeeps
<1>6. CASE \E f : DecodeData(e, f)
  BY <1>1, <1>6, CallStep DEF DecodeData, Result, InRecv
<1> QED BY <1>2, <1>3, <1>4, <1>5, <1>6 DEF Decode

\* The calls an application makes.
LEMMA CallsKeep ==
  ASSUME CloseInv, NEW e \in Ends,
         SendMessage(e) \/ SendPing(e) \/ SendClose(e) \/ Recv(e) \/ CloseCall(e)
  PROVE  CloseInv'
<1> USE DEF CloseInv, CloseTypes
<1>0. op[e] = "idle" => writing[e] = NoFrame
  BY DEF CloseInvAt
<1>1. CASE SendMessage(e)
  BY <1>0, <1>1, SendStep, FramesDiffer DEF SendMessage, Idle, link, history
<1>2. CASE SendPing(e)
  BY <1>0, <1>2, SendStep, FramesDiffer DEF SendPing, Idle, link
<1>3. CASE SendClose(e)
  BY <1>0, <1>3, SendStep DEF SendClose, Idle, link, history
<1>4. CASE Recv(e)
  BY <1>0, <1>4, CallStep DEF Recv, Idle, link, history, flags
<1>5. CASE CloseCall(e)
  <2>1. CASE close_sent[e]
    BY <1>0, <1>5, <2>1, CallStep DEF CloseCall, Idle, link, history, Send
  <2>2. CASE ~close_sent[e]
    BY <1>0, <1>5, <2>2, SendStep DEF CloseCall, Idle, link, history
  <2> QED BY <2>1, <2>2
<1> QED BY <1>1, <1>2, <1>3, <1>4, <1>5

\* Reads, timeouts, cancellation and the peer.
LEMMA OthersKeep ==
  ASSUME CloseInv, NEW e \in Ends,
         \/ Read(e) \/ ReadEof(e) \/ KeepAliveExpires(e)
         \/ Cancel(e) \/ DropTransport(e) \/ SendFragment(e) \/ SendBad(e)
  PROVE  CloseInv'
<1> USE DEF CloseInv, CloseTypes
<1>1. CASE Read(e)
  BY <1>1, CallStep DEF Read, call, history
<1>2. CASE ReadEof(e)
  BY <1>2, CallStep DEF ReadEof, Expecting, InRecv, Result, link
<1>3. CASE KeepAliveExpires(e)
  <2>1. CASE ping_outstanding[e]
    BY <1>3, <2>1, CallStep DEF KeepAliveExpires, Expecting, InRecv, Result, link
  <2>2. CASE ~ping_outstanding[e]
    BY <1>3, <2>2, SendStep, FramesDiffer DEF KeepAliveExpires, Expecting, InRecv, link
  <2> QED BY <2>1, <2>2
<1>4. CASE Cancel(e)
  BY <1>4, CallStep DEF Cancel, Expecting, InRecv, link, flags
<1>5. CASE DropTransport(e)
  <2>1. CloseTypes'
    BY <1>5 DEF DropTransport, flags, call, history
  <2>2. ASSUME NEW x \in Ends PROVE CloseInvAt(x)'
    BY <1>5, PeerIsEnd DEF DropTransport, flags, call, history, CloseInvAt
  <2> QED BY <2>1, <2>2
<1>6. CASE SendFragment(e)
  BY <1>6, CallStep DEF SendFragment, flags, call
<1>7. CASE SendBad(e)
  BY <1>7, CallStep DEF SendBad, flags, call
<1> QED BY <1>1, <1>2, <1>3, <1>4, <1>5, <1>6, <1>7

\* Every step keeps the invariant of the close handshake.
LEMMA CloseInductive == CloseInv /\ [Next]_vars => CloseInv'
<1> SUFFICES ASSUME CloseInv, [Next]_vars PROVE CloseInv'
  OBVIOUS
<1>1. CASE Next
  <2>1. PICK e \in Ends :
          \/ Progress(e) \/ KeepAliveExpires(e)
          \/ SendMessage(e) \/ SendPing(e) \/ SendClose(e) \/ Recv(e) \/ CloseCall(e)
          \/ Cancel(e) \/ DropTransport(e)
          \/ SendFragment(e) \/ SendBad(e)
    BY <1>1 DEF Next
  <2> QED
    BY <2>1, WriteKeeps, WriteFailsKeeps, DecodeKeeps, CallsKeep, OthersKeep DEF Progress
<1>2. CASE UNCHANGED vars
  BY <1>2 DEF vars, link, flags, call, history, CloseInv, CloseTypes, CloseInvAt
<1> QED BY <1>1, <1>2

-----------------------------------------------------------------------------
\* Whatever close, recv, the echo of a Close and the answer to a protocol
\* violation do, an end of a WebSocketStream sends at most one Close, and it
\* has sent it when it has seen the close, unless the peer is gone.
THEOREM OneClose == Spec => []ClosedWithOneClose
<1>1. CloseInv => ClosedWithOneClose
  BY DEF CloseInv, CloseInvAt, ClosedWithOneClose
<1> QED BY <1>1, CloseInit, CloseInductive, PTL DEF Spec

-----------------------------------------------------------------------------
\* Parts are numbered through: part k of all that an end sends.  Messages of
\* two parts make odd parts the first of a message and even ones the last.
Part(k)     == IF k % 2 = 1 THEN <<(k + 1) \div 2, 1>> ELSE <<k \div 2, 2>>
Span(a, b)  == [k \in 1..(b - a) |-> Part(a + k)]

\* Frame f of end p carries the parts after a up to b.  A Close is behind the
\* messages sent before it; what else is said of written and limit is their
\* value in closes[p] and sentAtClose[p].
Takes(p, f, a, b, written, limit) ==
  \/ f = Malformed /\ a = b
  \/ f = Ping /\ a = b /\ p \in Pinging \cup KeepAlive
  \/ f = Pong /\ a = b /\ Peer(p) \in Pinging \cup KeepAlive
  \/ f = Close /\ a = b /\ written > 0 /\ 2 * limit <= a
  \/ \E m \in 0..MaxMsgs :
       \/ f = Stray /\ a = 2 * m /\ b = a
       \/ f = Message(m + 1) /\ a = 2 * m /\ b = a + 2
       \/ f = FirstPart(m + 1) /\ a = 2 * m /\ b = a + 1 /\ p \in Fragmenting
       \/ f = LastPart(m + 1) /\ a = 2 * m + 1 /\ b = a + 1

\* c counts the parts carried by s, one frame after the other, from a to b.
IsCount(c, p, s, a, b, written, limit) ==
  /\ c \in [0..Len(s) -> Nat]
  /\ c[0] = a /\ c[Len(s)] = b
  /\ \A i \in 1..Len(s) : Takes(p, s[i], c[i - 1], c[i], written, limit)

Carries(p, s, a, b, written, limit) ==
  \E c \in [0..Len(s) -> Nat] : IsCount(c, p, s, a, b, written, limit)

\* The parts end e has begun to send.
Top(e) == 2 * sent[e] - (IF half[e] THEN 1 ELSE 0)

\* e loses no fragment of its own accord: if its peer sends messages in two
\* frames, e drops no recv between them, and neither its application nor its
\* keepalive asks for a Pong that would make recv return there.
Attentive(e) == Peer(e) \in Fragmenting => e \notin Cancelling \cup Pinging \cup KeepAlive

\* Where a call is.  A call in progress has not ended the connection, and
\* only recv_message has a message half assembled.
CallAt(e) ==
  /\ op[e] # "idle" => ended[e] = "no" /\ ~dropped[e]
  /\ op[e] \notin {"recv", "close"} => ~message_opcode[e]
  /\ after[e] = "return" => op[e] = "send"
  /\ writing[e] = NoFrame => after[e] = "none"
  /\ writing[e] \in {NoFrame, Ping, Pong, Close, Message(sent[e] + 1)}
  /\ writing[e] = Ping => e \in Pinging \cup KeepAlive
  /\ writing[e] = Pong => Peer(e) \in Pinging \cup KeepAlive
  /\ writing[e] = Message(sent[e] + 1) => ~half[e] /\ sent[e] < MaxMsgs
  /\ half[e] => e \in Fragmenting /\ sent[e] > 0

\* What recv has made of the parts: whole messages and at most the first part
\* of the next.
AssemblyAt(e) ==
  /\ received[e] = [i \in 1..Len(received[e]) |-> Whole(i)]
  /\ assembled[e] = IF message_opcode[e] THEN <<<<Len(received[e]) + 1, 1>>>> ELSE <<>>
  /\ message_opcode[e] => Peer(e) \in Fragmenting

\* An end that has seen the close has every message sent before it.
ClosedAt(e) ==
  after[e] = "echoed" \/ close_received[e] \/ ended[e] = "closed" =>
    closes[Peer(e)] > 0 /\ Len(received[e]) >= sentAtClose[Peer(e)]

\* a is the part at which e decodes: behind the messages it has handed out,
\* or behind a first part that it has lost; then the last part is a violation.
PlaceAt(e, a) ==
  LET done == 2 * Len(received[e])
  IN  /\ after[e] # "protocol" =>
           a \in {done, done + 1} /\ (message_opcode[e] => a = done + 1)
      /\ Attentive(e) => a = done + (IF message_opcode[e] THEN 1 ELSE 0)

\* While the connection lasts, the frames in the buffer and on the wire carry,
\* in order, everything from there to the last part the peer has sent.
StreamAt(e) ==
  ended[e] = "no" /\ ~dropped[e] =>
    LET p == Peer(e)
    IN  \E a, d \in Nat :
          /\ PlaceAt(e, a)
          /\ Carries(p, frame_buf[e], a, d, closes[p], sentAtClose[p])
          /\ Carries(p, wire[e], d, Top(p), closes[p], sentAtClose[p])

MessageInv ==
  /\ CloseInv /\ TypeOK
  /\ \A e \in Ends : CallAt(e) /\ AssemblyAt(e) /\ ClosedAt(e) /\ StreamAt(e)

-----------------------------------------------------------------------------
\* The fields of the frames.
LEMMA FrameFields ==
  /\ NoFrame.kind = "none" /\ Ping.kind = "ping" /\ Pong.kind = "pong"
  /\ Close.kind = "close" /\ Malformed.kind = "bad" /\ Malformed.payload = <<>>
  /\ Ping.payload = <<>> /\ Pong.payload = <<>> /\ Close.payload = <<>>
  /\ Stray.kind = "cont" /\ Stray.fin = TRUE /\ Stray.payload = <<>>
  /\ \A m : /\ Message(m).kind = "data" /\ Message(m).fin = TRUE
            /\ Message(m).payload = Whole(m)
            /\ FirstPart(m).kind = "data" /\ FirstPart(m).fin = FALSE
            /\ FirstPart(m).payload = <<<<m, 1>>>>
            /\ LastPart(m).kind = "cont" /\ LastPart(m).fin = TRUE
            /\ LastPart(m).payload = <<<<m, 2>>>>
BY DEF Frame, NoFrame, Ping, Pong, Close, Malformed, Stray, Message, FirstPart, LastPart

\* What a frame carries, by its kind.
LEMMA TakesByKind ==
  ASSUME NEW p, NEW f, NEW a, NEW b, NEW written, NEW limit, Takes(p, f, a, b, written, limit)
  PROVE  /\ f.kind \in {"bad", "ping", "pong", "close", "data", "cont"}
         /\ f.kind = "bad" => a = b
         /\ f.kind = "ping" => a = b /\ p \in Pinging \cup KeepAlive
         /\ f.kind = "pong" => a = b /\ Peer(p) \in Pinging \cup KeepAlive
         /\ f.kind = "close" => f = Close /\ a = b /\ written > 0 /\ 2 * limit <= a
         /\ f.kind = "data" =>
              \E m \in 0..MaxMsgs :
                \/ a = 2 * m /\ b = a + 2 /\ f.fin /\ f.payload = Whole(m + 1)
                \/ /\ a = 2 * m /\ b = a + 1 /\ ~f.fin /\ f.payload = <<<<m + 1, 1>>>>
                   /\ p \in Fragmenting
         /\ f.kind = "cont" =>
              \E m \in 0..MaxMsgs :
                \/ a = 2 * m /\ b = a /\ f.payload = <<>>
                \/ a = 2 * m + 1 /\ b = a + 1 /\ f.fin /\ f.payload = <<<<m + 1, 2>>>>
<1>1. CASE f \in {Malformed, Ping, Pong, Close}
  BY <1>1, FrameFields DEF Takes
<1>2. CASE f \notin {Malformed, Ping, Pong, Close}
  <2>1. PICK m \in 0..MaxMsgs :
          \/ f = Stray /\ a = 2 * m /\ b = a
          \/ f = Message(m + 1) /\ a = 2 * m /\ b = a + 2
          \/ f = FirstPart(m + 1) /\ a = 2 * m /\ b = a + 1 /\ p \in Fragmenting
          \/ f = LastPart(m + 1) /\ a = 2 * m + 1 /\ b = a + 1
    BY <1>2 DEF Takes
  <2>2. CASE f = Stray /\ a = 2 * m /\ b = a
    BY <2>2, FrameFields
  <2>3. CASE f = Message(m + 1) /\ a = 2 * m /\ b = a + 2
    BY <2>3, FrameFields
  <2>4. CASE f = FirstPart(m + 1) /\ a = 2 * m /\ b = a + 1 /\ p \in Fragmenting
    BY <2>4, FrameFields
  <2>5. CASE f = LastPart(m + 1) /\ a = 2 * m + 1 /\ b = a + 1
    BY <2>5, FrameFields
  <2> QED BY <2>1, <2>2, <2>3, <2>4, <2>5
<1> QED BY <1>1, <1>2

\* Before its first Close, what an end has sent says nothing of closes.
LEMMA TakesBeforeClose ==
  ASSUME NEW p, NEW f, NEW a, NEW b, NEW written, NEW limit, NEW l, Takes(p, f, a, b, 0, l)
  PROVE  Takes(p, f, a, b, written, limit)
BY DEF Takes

\* A frame carries parts in order.
LEMMA TakesForward ==
  ASSUME NEW p, NEW f, NEW a \in Nat, NEW b, NEW written, NEW limit,
         Takes(p, f, a, b, written, limit)
  PROVE  b \in Nat /\ a <= b
<1>1. CASE f \in {Malformed, Ping, Pong, Close} /\ a = b
  BY <1>1
<1>2. CASE \E m \in 0..MaxMsgs : b = a \/ b = a + 2 \/ b = a + 1
  BY <1>2
<1> QED BY <1>1, <1>2 DEF Takes

\* An empty sequence carries nothing.
LEMMA CarriesNothing ==
  \A p, written, limit : \A a \in Nat :
    /\ Carries(p, <<>>, a, a, written, limit)
    /\ \A b : Carries(p, <<>>, a, b, written, limit) => b = a
<1> SUFFICES ASSUME NEW p, NEW written, NEW limit, NEW a \in Nat
             PROVE  /\ Carries(p, <<>>, a, a, written, limit)
                    /\ \A b : Carries(p, <<>>, a, b, written, limit) => b = a
  OBVIOUS
<1>1. Len(<<>>) = 0
  OBVIOUS
<1>2. Carries(p, <<>>, a, a, written, limit)
  <2> DEFINE c == [i \in 0..0 |-> a]
  <2>1. c \in [0..0 -> Nat] /\ c[0] = a /\ 1..0 = {}
    OBVIOUS
  <2> HIDE DEF c
  <2>2. IsCount(c, p, <<>>, a, a, written, limit)
    BY <1>1, <2>1 DEF IsCount
  <2> QED BY <1>1, <2>1, <2>2 DEF Carries
<1>3. ASSUME NEW b, Carries(p, <<>>, a, b, written, limit) PROVE b = a
  BY <1>1, <1>3 DEF Carries, IsCount
<1> QED BY <1>2, <1>3

\* One more frame at the end.
LEMMA CarriesAppend ==
  \A p, written, limit, a, f, S : \A b, d \in Nat : \A s \in Seq(S) :
    Carries(p, s, a, b, written, limit) /\ Takes(p, f, b, d, written, limit) /\ f \in S
      => Carries(p, Append(s, f), a, d, written, limit)
<1> SUFFICES ASSUME NEW p, NEW written, NEW limit, NEW a, NEW f, NEW b \in Nat, NEW d \in Nat,
                    NEW S, NEW s \in Seq(S), f \in S,
                    Carries(p, s, a, b, written, limit), Takes(p, f, b, d, written, limit)
             PROVE  Carries(p, Append(s, f), a, d, written, limit)
  OBVIOUS
<1> DEFINE n == Len(s)
           t == Append(s, f)
<1>1. PICK c \in [0..n -> Nat] : IsCount(c, p, s, a, b, written, limit)
  BY DEF Carries
<1> DEFINE e == [i \in 0..(n + 1) |-> IF i = n + 1 THEN d ELSE c[i]]
<1>2. n \in Nat /\ Len(t) = n + 1 /\ t[n + 1] = f /\ \A i \in 1..n : t[i] = s[i]
  OBVIOUS
<1> HIDE DEF t
<1>3. c[0] = a /\ c[n] = b /\ \A i \in 1..n : Takes(p, s[i], c[i - 1], c[i], written, limit)
  BY <1>1 DEF IsCount
<1> HIDE DEF n
<1>4. e \in [0..(n + 1) -> Nat] /\ e[0] = a /\ e[n] = b /\ e[n + 1] = d
  BY <1>2, <1>3
<1>5. \A i \in 0..n : e[i] = c[i]
  BY <1>2
<1> HIDE DEF e
<1>6. ASSUME NEW i \in 1..(n + 1) PROVE Takes(p, t[i], e[i - 1], e[i], written, limit)
  <2>1. CASE i = n + 1
    <3>1. (n + 1) - 1 = n
      BY <1>2
    <3> QED BY <1>2, <1>4, <2>1, <3>1
  <2>2. CASE i \in 1..n
    <3>1. i \in 0..n /\ i - 1 \in 0..n
      BY <1>2, <2>2
    <3> QED BY <1>2, <1>3, <1>5, <2>2, <3>1
  <2> QED BY <1>2, <2>1, <2>2
<1>7. IsCount(e, p, t, a, d, written, limit) /\ e \in [0..Len(t) -> Nat]
  BY <1>2, <1>4, <1>6 DEF IsCount
<1> QED BY <1>7 DEF Carries, t

\* A sequence cut in two.
LEMMA CarriesCut ==
  \A p, written, limit, a, b, S : \A s \in Seq(S) : \A n \in 0..Len(s) :
    Carries(p, s, a, b, written, limit) =>
      \E d \in Nat : /\ Carries(p, SubSeq(s, 1, n), a, d, written, limit)
                     /\ Carries(p, SubSeq(s, n + 1, Len(s)), d, b, written, limit)
<1> SUFFICES ASSUME NEW p, NEW written, NEW limit, NEW a, NEW b,
                    NEW S, NEW s \in Seq(S), NEW n \in 0..Len(s),
                    Carries(p, s, a, b, written, limit)
             PROVE  \E d \in Nat :
                      /\ Carries(p, SubSeq(s, 1, n), a, d, written, limit)
                      /\ Carries(p, SubSeq(s, n + 1, Len(s)), d, b, written, limit)
  OBVIOUS
<1> DEFINE m == Len(s) - n
           u == SubSeq(s, 1, n)
           v == SubSeq(s, n + 1, Len(s))
<1>1. PICK c \in [0..Len(s) -> Nat] : IsCount(c, p, s, a, b, written, limit)
  BY DEF Carries
<1>2. /\ Len(u) = n /\ Len(v) = m
      /\ \A i \in 1..n : u[i] = s[i]
      /\ \A i \in 1..m : v[i] = s[n + i]
  BY CutSeq
<1>3. n \in Nat /\ m \in Nat /\ Len(s) = n + m
  OBVIOUS
<1> HIDE DEF u, v, m
<1>4. c[0] = a /\ c[n + m] = b /\ c \in [0..(n + m) -> Nat]
      /\ \A i \in 1..(n + m) : Takes(p, s[i], c[i - 1], c[i], written, limit)
  BY <1>1, <1>3 DEF IsCount
<1> DEFINE x == [i \in 0..n |-> c[i]]
           y == [i \in 0..m |-> c[n + i]]
<1>5. Carries(p, u, a, c[n], written, limit)
  <2>1. x \in [0..n -> Nat] /\ x[0] = a /\ x[n] = c[n] /\ \A i \in 0..n : x[i] = c[i]
    BY <1>3, <1>4
  <2> HIDE DEF x
  <2>2. ASSUME NEW i \in 1..n PROVE Takes(p, u[i], x[i - 1], x[i], written, limit)
    <3>1. i \in 0..n /\ i - 1 \in 0..n /\ i \in 1..(n + m)
      BY <1>3
    <3> QED BY <1>2, <1>4, <2>1, <3>1
  <2>3. IsCount(x, p, u, a, c[n], written, limit) /\ x \in [0..Len(u) -> Nat]
    BY <1>2, <2>1, <2>2 DEF IsCount
  <2> QED BY <2>3 DEF Carries
<1>6. Carries(p, v, c[n], b, written, limit)
  <2>1. y \in [0..m -> Nat] /\ y[0] = c[n] /\ y[m] = b /\ \A i \in 0..m : y[i] = c[n + i]
    BY <1>3, <1>4
  <2> HIDE DEF y
  <2>2. ASSUME NEW i \in 1..m PROVE Takes(p, v[i], y[i - 1], y[i], written, limit)
    <3>1. i \in 0..m /\ i - 1 \in 0..m /\ n + i \in 1..(n + m) /\ n + (i - 1) = (n + i) - 1
      BY <1>3
    <3>2. y[i - 1] = c[(n + i) - 1] /\ y[i] = c[n + i] /\ v[i] = s[n + i]
      BY <1>2, <2>1, <3>1
    <3> QED BY <1>4, <3>1, <3>2
  <2>3. IsCount(y, p, v, c[n], b, written, limit) /\ y \in [0..Len(v) -> Nat]
    BY <1>2, <2>1, <2>2 DEF IsCount
  <2> QED BY <2>3 DEF Carries
<1>7. c[n] \in Nat
  BY <1>3, <1>4
<1> QED BY <1>5, <1>6, <1>7 DEF u, v

\* The first frame and the others.
LEMMA CarriesHead ==
  \A p, written, limit, a, b, S : \A s \in Seq(S) :
    s # <<>> /\ Carries(p, s, a, b, written, limit) =>
      \E d \in Nat : /\ Takes(p, Head(s), a, d, written, limit)
                     /\ Carries(p, Tail(s), d, b, written, limit)
<1> SUFFICES ASSUME NEW p, NEW written, NEW limit, NEW a, NEW b, NEW S, NEW s \in Seq(S),
                    s # <<>>, Carries(p, s, a, b, written, limit)
             PROVE  \E d \in Nat : /\ Takes(p, Head(s), a, d, written, limit)
                                   /\ Carries(p, Tail(s), d, b, written, limit)
  OBVIOUS
<1> DEFINE n == Len(s)
           t == Tail(s)
<1>1. PICK c \in [0..n -> Nat] : IsCount(c, p, s, a, b, written, limit)
  BY DEF Carries
<1>2. n \in Nat \ {0} /\ Head(s) = s[1] /\ Len(t) = n - 1 /\ \A i \in 1..(n - 1) : t[i] = s[i + 1]
  OBVIOUS
<1> HIDE DEF n, t
<1>3. c[0] = a /\ c[n] = b /\ \A i \in 1..n : Takes(p, s[i], c[i - 1], c[i], written, limit)
  BY <1>1 DEF IsCount, n
<1>4. Takes(p, Head(s), a, c[1], written, limit) /\ c[1] \in Nat
  <2>1. 1 \in 1..n /\ 1 - 1 = 0 /\ 1 \in 0..n
    BY <1>2
  <2> QED BY <1>2, <1>3, <2>1
<1> DEFINE e == [i \in 0..(n - 1) |-> c[i + 1]]
<1>5. e \in [0..(n - 1) -> Nat] /\ e[0] = c[1] /\ e[n - 1] = b /\ \A i \in 0..(n - 1) : e[i] = c[i + 1]
  BY <1>2, <1>3
<1> HIDE DEF e
<1>6. ASSUME NEW i \in 1..(n - 1) PROVE Takes(p, t[i], e[i - 1], e[i], written, limit)
  <2>1. i \in 0..(n - 1) /\ i - 1 \in 0..(n - 1) /\ (i - 1) + 1 = (i + 1) - 1 /\ i + 1 \in 1..n
    BY <1>2
  <2>2. e[i - 1] = c[(i + 1) - 1] /\ e[i] = c[i + 1] /\ t[i] = s[i + 1]
    BY <1>2, <1>5, <2>1
  <2> QED BY <1>3, <2>1, <2>2
<1>7. IsCount(e, p, t, c[1], b, written, limit) /\ e \in [0..Len(t) -> Nat]
  BY <1>2, <1>5, <1>6 DEF IsCount
<1> QED BY <1>4, <1>7 DEF Carries, t

\* Before its first Close, what is said of closes may change.
LEMMA CarriesBeforeClose ==
  \A p, s, a, b, written, limit, l :
    Carries(p, s, a, b, 0, l) => Carries(p, s, a, b, written, limit)
<1> SUFFICES ASSUME NEW p, NEW s, NEW a, NEW b, NEW written, NEW limit, NEW l,
                    Carries(p, s, a, b, 0, l)
             PROVE  Carries(p, s, a, b, written, limit)
  OBVIOUS
<1>1. PICK c \in [0..Len(s) -> Nat] : IsCount(c, p, s, a, b, 0, l)
  BY DEF Carries
<1>2. IsCount(c, p, s, a, b, written, limit)
  BY <1>1, TakesBeforeClose DEF IsCount
<1> QED BY <1>2 DEF Carries

-----------------------------------------------------------------------------
\* What a step of the other end leaves alone.
Mine(e) == <<op[e], writing[e], after[e], message_opcode[e], assembled[e], received[e],
             ended[e], dropped[e], close_received[e], sent[e], half[e], closes[e],
             sentAtClose[e]>>

\* The part of the invariant that is about one end.
EndInv(e) == CallAt(e) /\ AssemblyAt(e) /\ ClosedAt(e) /\ StreamAt(e)

\* A stream nobody reads from or writes to, at an end whose place in it stays.
LEMMA StreamQuiet ==
  ASSUME NEW e \in Ends, StreamAt(e),
         ended[e]' = "no" =>
           /\ ended[e] = "no"
           /\ after[e] = "protocol" => after[e]' = "protocol"
           /\ message_opcode[e]' => message_opcode[e]
           /\ message_opcode[e] /\ ~message_opcode[e]' => ~Attentive(e),
         ~dropped[e]' => ~dropped[e] /\ UNCHANGED <<wire[e], frame_buf[e]>>,
         UNCHANGED <<received[e], sent[Peer(e)], half[Peer(e)], closes[Peer(e)],
                     sentAtClose[Peer(e)]>>
  PROVE  StreamAt(e)'
<1> SUFFICES ASSUME ended[e]' = "no", ~dropped[e]' PROVE StreamAt(e)'
  BY DEF StreamAt
<1> DEFINE p == Peer(e)
<1>1. PICK a \in Nat, d \in Nat :
        /\ PlaceAt(e, a)
        /\ Carries(p, frame_buf[e], a, d, closes[p], sentAtClose[p])
        /\ Carries(p, wire[e], d, Top(p), closes[p], sentAtClose[p])
  BY DEF StreamAt
<1>2. PlaceAt(e, a)'
  BY <1>1 DEF PlaceAt
<1>3. Top(p)' = Top(p)
  BY DEF Top
<1>4. /\ Carries(p, frame_buf[e]', a, d, closes[p]', sentAtClose[p]')
      /\ Carries(p, wire[e]', d, Top(p)', closes[p]', sentAtClose[p]')
  BY <1>1, <1>3
<1> QED BY <1>2, <1>4 DEF StreamAt

\* The peer sends one more frame, which carries what it counts as sent.
LEMMA StreamGrows ==
  ASSUME NEW e \in Ends, StreamAt(e), TypeOK, NEW f \in Frames,
         UNCHANGED <<ended[e], dropped[e], after[e], message_opcode[e], received[e],
                     frame_buf[e]>>,
         ~dropped[e] => wire[e]' = Append(wire[e], f),
         \/ closes[Peer(e)] = 0
         \/ UNCHANGED <<closes[Peer(e)], sentAtClose[Peer(e)]>>,
         Top(Peer(e)) \in Nat, Top(Peer(e))' \in Nat,
         Takes(Peer(e), f, Top(Peer(e)), Top(Peer(e))', closes[Peer(e)]', sentAtClose[Peer(e)]')
  PROVE  StreamAt(e)'
<1> SUFFICES ASSUME ended[e]' = "no", ~dropped[e]' PROVE StreamAt(e)'
  BY DEF StreamAt
<1> DEFINE p == Peer(e)
           written == closes[p]'
           limit == sentAtClose[p]'
           top == Top(p)'
<1>1. PICK a \in Nat, d \in Nat :
        /\ PlaceAt(e, a)
        /\ Carries(p, frame_buf[e], a, d, closes[p], sentAtClose[p])
        /\ Carries(p, wire[e], d, Top(p), closes[p], sentAtClose[p])
  BY DEF StreamAt
<1>2. /\ Carries(p, frame_buf[e], a, d, written, limit)
      /\ Carries(p, wire[e], d, Top(p), written, limit)
  <2>1. CASE closes[p] = 0
    BY <1>1, <2>1, CarriesBeforeClose
  <2>2. CASE UNCHANGED <<closes[p], sentAtClose[p]>>
    BY <1>1, <2>2
  <2> QED BY <2>1, <2>2
<1>3. Takes(p, f, Top(p), top, written, limit) /\ top \in Nat /\ Top(p) \in Nat
  OBVIOUS
<1>4. wire[e] \in Seq(Frames) /\ wire[e]' = Append(wire[e], f)
  BY DEF TypeOK
<1>5. Carries(p, Append(wire[e], f), d, top, written, limit)
  <2> HIDE DEF p, written, limit, top
  <2> QED BY <1>2, <1>3, <1>4, CarriesAppend
<1>6. PlaceAt(e, a)'
  BY <1>1 DEF PlaceAt
<1>7. /\ Carries(p, frame_buf[e]', a, d, written, limit)
      /\ Carries(p, wire[e]', d, top, written, limit)
  BY <1>2, <1>4, <1>5
<1> QED BY <1>6, <1>7 DEF StreamAt

\* A step of e: what is left to show is about e and about what it has sent.
LEMMA StepOf ==
  ASSUME MessageInv, NEW e \in Ends,
         \A x \in Ends \ {e} : UNCHANGED Mine(x),
         closes[e] = 0 \/ UNCHANGED <<closes[e], sentAtClose[e]>>,
         CallAt(e)', AssemblyAt(e)', ClosedAt(e)', StreamAt(e)', StreamAt(Peer(e))'
  PROVE  \A x \in Ends : EndInv(x)'
<1> SUFFICES ASSUME NEW x \in Ends PROVE EndInv(x)'
  OBVIOUS
<1>1. CASE x = e
  BY <1>1 DEF EndInv
<1>2. CASE x # e
  <2>1. x = Peer(e) /\ Peer(x) = e /\ x \in Ends \ {e}
    BY <1>2, PeerIsEnd DEF Ends, Peer
  <2>2. UNCHANGED Mine(x)
    BY <2>1
  <2>3. CallAt(x) /\ AssemblyAt(x) /\ ClosedAt(x)
    BY DEF MessageInv
  <2>4. CallAt(x)'
    BY <2>2, <2>3 DEF CallAt, Mine
  <2>5. AssemblyAt(x)'
    BY <2>2, <2>3 DEF AssemblyAt, Mine
  <2>6. ClosedAt(x)'
    <3>1. closes[e] \in Nat
      BY DEF MessageInv, TypeOK
    <3> QED BY <2>1, <2>2, <2>3, <3>1 DEF ClosedAt, Mine
  <2> QED BY <2>1, <2>4, <2>5, <2>6 DEF EndInv
<1> QED BY <1>1, <1>2

-----------------------------------------------------------------------------
\* What holds at both ends before a step of e.
LEMMA Before ==
  ASSUME MessageInv, NEW e \in Ends
  PROVE  /\ TypeOK /\ CloseInvAt(e)
         /\ CallAt(e) /\ AssemblyAt(e) /\ ClosedAt(e) /\ StreamAt(e)
         /\ Peer(e) \in Ends /\ Peer(e) # e /\ Peer(Peer(e)) = e
         /\ CallAt(Peer(e)) /\ StreamAt(Peer(e))
BY PeerIsEnd DEF MessageInv, CloseInv

\* The calls an application makes while none is in progress.
LEMMA SendMessageStep ==
  ASSUME MessageInv, NEW e \in Ends, SendMessage(e) PROVE \A x \in Ends : EndInv(x)'
<1>0. TypeOK /\ CloseInvAt(e)
  BY Before
<1>1. /\ op[e] = "idle" /\ ~dropped[e] /\ ended[e] = "no" /\ ~half[e] /\ sent[e] < MaxMsgs
      /\ op'[e] = "send" /\ writing'[e] = Message(sent[e] + 1) /\ after'[e] = "return"
      /\ UNCHANGED <<wire, dropped, frame_buf, close_received, message_opcode, assembled,
                     sent, half, received, ended, closes, sentAtClose>>
      /\ \A x \in Ends \ {e} : UNCHANGED Mine(x)
  BY <1>0 DEF SendMessage, Idle, Send, TypeOK, link, history, Mine
<1>2. /\ CallAt(e)'
  BY <1>0, <1>1, Before, FrameFields DEF CallAt
<1>3. AssemblyAt(e)' /\ ClosedAt(e)'
  BY <1>1, Before DEF AssemblyAt, ClosedAt, CallAt, CloseInvAt
<1>4. StreamAt(e)' /\ StreamAt(Peer(e))'
  BY <1>1, Before, StreamQuiet DEF Mine, CallAt, CloseInvAt
<1> QED BY <1>1, <1>2, <1>3, <1>4, StepOf

\* The application sends a Ping.
LEMMA SendPingStep ==
  ASSUME MessageInv, NEW e \in Ends, SendPing(e) PROVE \A x \in Ends : EndInv(x)'
<1>0. TypeOK /\ CloseInvAt(e)
  BY Before
<1>1. /\ op[e] = "idle" /\ ~dropped[e] /\ ended[e] = "no" /\ e \in Pinging
      /\ op'[e] = "send" /\ writing'[e] = Ping /\ after'[e] = "return"
      /\ UNCHANGED <<wire, dropped, frame_buf, close_received, message_opcode, assembled,
                     sent, half, received, ended, closes, sentAtClose>>
      /\ \A x \in Ends \ {e} : UNCHANGED Mine(x)
  BY <1>0 DEF SendPing, Idle, Send, TypeOK, link, Mine
<1>2. /\ CallAt(e)'
  BY <1>0, <1>1, Before, FrameFields DEF CallAt
<1>3. AssemblyAt(e)' /\ ClosedAt(e)'
  BY <1>1, Before DEF AssemblyAt, ClosedAt, CallAt, CloseInvAt
<1>4. StreamAt(e)' /\ StreamAt(Peer(e))'
  BY <1>1, Before, StreamQuiet DEF Mine, CallAt, CloseInvAt
<1> QED BY <1>1, <1>2, <1>3, <1>4, StepOf

\* The application closes; a Close in progress is not written twice.
LEMMA SendCloseStep ==
  ASSUME MessageInv, NEW e \in Ends, SendClose(e) PROVE \A x \in Ends : EndInv(x)'
<1>0. TypeOK /\ CloseInvAt(e)
  BY Before
<1>1. /\ op[e] = "idle" /\ ~dropped[e] /\ ended[e] = "no"
      /\ op'[e] = "send" /\ writing'[e] = Close /\ after'[e] = "return"
      /\ UNCHANGED <<wire, dropped, frame_buf, close_received, message_opcode, assembled,
                     sent, half, received, ended, closes, sentAtClose>>
      /\ \A x \in Ends \ {e} : UNCHANGED Mine(x)
  BY <1>0 DEF SendClose, Idle, Send, TypeOK, link, history, Mine
<1>2. /\ CallAt(e)'
  BY <1>0, <1>1, Before, FrameFields DEF CallAt
<1>3. AssemblyAt(e)' /\ ClosedAt(e)'
  BY <1>1, Before DEF AssemblyAt, ClosedAt, CallAt, CloseInvAt
<1>4. StreamAt(e)' /\ StreamAt(Peer(e))'
  BY <1>1, Before, StreamQuiet DEF Mine, CallAt, CloseInvAt
<1> QED BY <1>1, <1>2, <1>3, <1>4, StepOf

\* The application calls recv.
LEMMA RecvStep ==
  ASSUME MessageInv, NEW e \in Ends, Recv(e) PROVE \A x \in Ends : EndInv(x)'
<1>0. TypeOK /\ CloseInvAt(e)
  BY Before
<1>1. /\ op[e] = "idle" /\ ~dropped[e] /\ ended[e] = "no"
      /\ op'[e] = "recv" /\ message_opcode'[e] = FALSE /\ assembled'[e] = <<>>
      /\ UNCHANGED <<wire, dropped, frame_buf, close_received, writing, after,
                     sent, half, received, ended, closes, sentAtClose>>
      /\ \A x \in Ends \ {e} : UNCHANGED Mine(x)
  BY <1>0 DEF Recv, Idle, FreshMessage, TypeOK, link, flags, history, Mine
<1>2. /\ CallAt(e)'
  BY <1>0, <1>1, Before DEF CallAt, CloseInvAt
<1>3. AssemblyAt(e)' /\ ClosedAt(e)'
  BY <1>1, Before DEF AssemblyAt, ClosedAt
<1>4. StreamAt(e)' /\ StreamAt(Peer(e))'
  BY <1>1, Before, StreamQuiet DEF Mine, CallAt
<1> QED BY <1>1, <1>2, <1>3, <1>4, StepOf

\* close waits for the echo.
LEMMA CloseCallStep ==
  ASSUME MessageInv, NEW e \in Ends, CloseCall(e) PROVE \A x \in Ends : EndInv(x)'
<1>0. TypeOK /\ CloseInvAt(e)
  BY Before
<1>1. /\ op[e] = "idle" /\ ~dropped[e] /\ ended[e] = "no"
      /\ op'[e] = "close" /\ message_opcode'[e] = FALSE /\ assembled'[e] = <<>>
      /\ \/ UNCHANGED <<writing, after>>
         \/ writing'[e] = Close /\ after'[e] = "decode"
      /\ UNCHANGED <<wire, dropped, frame_buf, close_received,
                     sent, half, received, ended, closes, sentAtClose>>
      /\ \A x \in Ends \ {e} : UNCHANGED Mine(x)
  <2>1. CASE close_sent[e]
    BY <1>0, <2>1 DEF CloseCall, Idle, FreshMessage, TypeOK, link, history, Mine
  <2>2. CASE ~close_sent[e]
    BY <1>0, <2>2 DEF CloseCall, Idle, FreshMessage, Send, TypeOK, link, history, Mine
  <2> QED BY <2>1, <2>2
<1>2. writing[e] = NoFrame /\ after[e] = "none" /\ ~message_opcode[e]
  BY <1>0, <1>1, Before DEF CallAt, CloseInvAt
<1>3. /\ CallAt(e)'
  BY <1>0, <1>1, <1>2, Before, FrameFields DEF CallAt
<1>4. AssemblyAt(e)' /\ ClosedAt(e)'
  BY <1>1, <1>2, Before DEF AssemblyAt, ClosedAt
<1>5. StreamAt(e)' /\ StreamAt(Peer(e))'
  BY <1>1, <1>2, Before, StreamQuiet DEF Mine
<1> QED BY <1>1, <1>3, <1>4, <1>5, StepOf

\* A call that is dropped while it awaits a read loses what it has assembled:
\* e is then not attentive, or was assembling nothing.
LEMMA CancelStep ==
  ASSUME MessageInv, NEW e \in Ends, Cancel(e) PROVE \A x \in Ends : EndInv(x)'
<1>0. TypeOK /\ CloseInvAt(e)
  BY Before
<1>1. /\ op[e] # "idle" /\ e \in Cancelling /\ writing[e] = NoFrame
      /\ op'[e] = "idle" /\ message_opcode'[e] = FALSE /\ assembled'[e] = <<>>
      /\ UNCHANGED <<wire, dropped, frame_buf, close_received, writing, after,
                     sent, half, received, ended, closes, sentAtClose>>
      /\ \A x \in Ends \ {e} : UNCHANGED Mine(x)
  BY <1>0 DEF Cancel, Expecting, InRecv, FreshMessage, TypeOK, link, flags, Mine
<1>2. /\ CallAt(e)'
  BY <1>0, <1>1, Before DEF CallAt
<1>3. AssemblyAt(e)' /\ ClosedAt(e)'
  BY <1>1, Before DEF AssemblyAt, ClosedAt
<1>4. StreamAt(e)' /\ StreamAt(Peer(e))'
  <2>1. message_opcode[e] => ~Attentive(e)
    BY <1>1, Before DEF AssemblyAt, Attentive
  <2>2. StreamAt(e)'
    BY <1>1, <2>1, Before, StreamQuiet
  <2>3. StreamAt(Peer(e))'
    BY <1>1, Before, StreamQuiet DEF Mine
  <2> QED BY <2>2, <2>3
<1> QED BY <1>1, <1>2, <1>3, <1>4, StepOf

\* The application drops the stream.
LEMMA DropTransportStep ==
  ASSUME MessageInv, NEW e \in Ends, DropTransport(e) PROVE \A x \in Ends : EndInv(x)'
<1>0. TypeOK /\ CloseInvAt(e)
  BY Before
<1>1. /\ op[e] = "idle" /\ dropped'[e] = TRUE
      /\ UNCHANGED <<close_received, op, writing, after, message_opcode, assembled,
                     sent, half, received, ended, closes, sentAtClose>>
      /\ \A x \in Ends \ {e} : UNCHANGED <<Mine(x), wire[x], frame_buf[x]>>
  BY <1>0 DEF DropTransport, TypeOK, flags, call, history, Mine
<1>2. /\ CallAt(e)'
  BY <1>0, <1>1, Before DEF CallAt
<1>3. AssemblyAt(e)' /\ ClosedAt(e)' /\ StreamAt(e)'
  BY <1>1, Before DEF AssemblyAt, ClosedAt, StreamAt
<1>4. StreamAt(Peer(e))'
  BY <1>1, Before, StreamQuiet DEF Mine
<1> QED BY <1>1, <1>2, <1>3, <1>4, StepOf

-----------------------------------------------------------------------------
\* A write that finishes puts its frame behind all that e has sent before.
LEMMA WriteTakes ==
  ASSUME MessageInv, NEW e \in Ends, Write(e)
  PROVE  /\ writing[e] \in Frames
         /\ Top(e) \in Nat /\ Top(e)' \in Nat
         /\ Takes(e, writing[e], Top(e), Top(e)', closes[e]', sentAtClose[e]')
         /\ closes[e] = 0 \/ UNCHANGED <<closes[e], sentAtClose[e]>>
<1>0. TypeOK /\ CloseInvAt(e) /\ CallAt(e)
  BY Before
<1> DEFINE f == writing[e]
<1>1. /\ f \in Frames /\ f # NoFrame /\ sent[e] \in 0..MaxMsgs /\ half[e] \in BOOLEAN
      /\ closes[e] \in Nat /\ MaxMsgs \in Nat
  BY <1>0, WebSocketAssumption DEF Write, TypeOK
<1>2. /\ half'[e] = half[e]
      /\ sent'[e] = IF f.kind = "data" THEN sent[e] + 1 ELSE sent[e]
      /\ closes'[e] = IF f = Close THEN closes[e] + 1 ELSE closes[e]
      /\ sentAtClose'[e] = IF f = Close /\ closes[e] = 0
                           THEN sent[e] - (IF half[e] THEN 1 ELSE 0) ELSE sentAtClose[e]
  BY <1>0 DEF Write, TypeOK
<1>3. half[e] => sent[e] > 0
  BY <1>0 DEF CallAt
<1>4. Top(e) \in Nat /\ Top(e)' \in Nat
  BY <1>1, <1>2, <1>3 DEF Top
<1>5. closes[e] = 0 \/ UNCHANGED <<closes[e], sentAtClose[e]>>
  BY <1>0, <1>2 DEF CloseInvAt
<1>6. Takes(e, f, Top(e), Top(e)', closes[e]', sentAtClose[e]')
  <2>1. CASE f \in {Ping, Pong}
    <3>1. Top(e)' = Top(e)
      BY <1>2, <2>1, FrameFields DEF Top
    <3> QED BY <1>0, <2>1, <3>1 DEF Takes, CallAt
  <2>2. CASE f = Close
    <3>1. Top(e)' = Top(e) /\ closes[e]' = 1
      BY <1>0, <1>2, <2>2, FrameFields DEF Top, CloseInvAt
    <3>2. 2 * sentAtClose[e]' <= Top(e)
      BY <1>0, <1>1, <1>2, <1>3, <2>2 DEF Top, CloseInvAt
    <3> QED BY <2>2, <3>1, <3>2 DEF Takes
  <2>3. CASE f = Message(sent[e] + 1)
    <3>1. ~half[e] /\ sent[e] \in 0..MaxMsgs
      BY <1>0, <1>1, <2>3 DEF CallAt
    <3>2. Top(e) = 2 * sent[e] /\ Top(e)' = Top(e) + 2
      BY <1>1, <1>2, <2>3, <3>1, FrameFields DEF Top
    <3> QED BY <2>3, <3>1, <3>2 DEF Takes
  <2> QED BY <1>0, <1>1, <2>1, <2>2, <2>3 DEF CallAt
<1> QED BY <1>1, <1>4, <1>5, <1>6

\* A frame goes onto the wire, behind all that was sent before it.
LEMMA WriteStep ==
  ASSUME MessageInv, NEW e \in Ends, Write(e) PROVE \A x \in Ends : EndInv(x)'
<1>0. TypeOK /\ CloseInvAt(e) /\ CallAt(e)
  BY Before
<1> DEFINE f == writing[e]
           over == after[e] \in {"echoed", "protocol"}
<1>1. /\ writing'[e] = NoFrame /\ after'[e] = "none" /\ f # NoFrame
      /\ UNCHANGED <<dropped, frame_buf, half, received>>
      /\ \A x \in Ends \ {e} : UNCHANGED <<Mine(x), frame_buf[x]>>
      /\ wire' = [wire EXCEPT ![Peer(e)] = IF dropped[Peer(e)] THEN @ ELSE Append(@, f)]
      /\ sent'[e] = IF f.kind = "data" THEN sent[e] + 1 ELSE sent[e]
  <2>1. /\ writing'[e] = NoFrame /\ after'[e] = "none" /\ f # NoFrame
        /\ UNCHANGED <<dropped, frame_buf, half, received>>
        /\ wire' = [wire EXCEPT ![Peer(e)] = IF dropped[Peer(e)] THEN @ ELSE Append(@, f)]
        /\ sent'[e] = IF f.kind = "data" THEN sent[e] + 1 ELSE sent[e]
    BY <1>0 DEF Write, WriteDone, TypeOK
  <2>2. \A x \in Ends \ {e} :
          UNCHANGED <<writing[x], after[x], sent[x], closes[x], sentAtClose[x]>>
    BY <1>0 DEF Write, WriteDone, TypeOK
  <2>3. \A x \in Ends \ {e} :
          UNCHANGED <<op[x], message_opcode[x], assembled[x], ended[x], close_received[x]>>
    <3>1. CASE after[e] \in {"echoed", "protocol"}
      BY <1>0, <3>1, SMTT(30) DEF Write, Result, FreshMessage, TypeOK
    <3>2. CASE after[e] \notin {"echoed", "protocol"}
      BY <1>0, <3>2, SMTT(30) DEF Write, TypeOK
    <3> QED BY <3>1, <3>2
  <2> QED BY <2>1, <2>2, <2>3 DEF Mine
<1>2. /\ over => /\ op'[e] = "idle" /\ message_opcode'[e] = FALSE /\ assembled'[e] = <<>>
                 /\ ended'[e] # "no"
                 /\ ended'[e] = "closed" => ended[e] = "closed" \/ after[e] = "echoed"
                 /\ close_received'[e] => close_received[e] \/ after[e] = "echoed"
      /\ ~over => /\ UNCHANGED <<message_opcode[e], assembled[e], ended[e], close_received[e]>>
                  /\ \/ op'[e] = op[e]
                     \/ after[e] = "return" /\ op'[e] = "idle"
  BY <1>0 DEF Write, Result, FreshMessage, TypeOK
<1>3. /\ wire'[e] = wire[e]
      /\ ~dropped[Peer(e)] => wire'[Peer(e)] = Append(wire[Peer(e)], f)
  BY <1>0, <1>1, Before DEF TypeOK
<1>4. sent[e] \in Nat /\ op[e] # "idle"
  BY <1>0, <1>1 DEF TypeOK, CloseInvAt
<1>5. CallAt(e)'
  <2>1. op'[e] # "idle" => ended'[e] = "no" /\ ~dropped'[e]
    BY <1>0, <1>1, <1>2, <1>4 DEF CallAt
  <2>2. op'[e] \notin {"recv", "close"} => ~message_opcode'[e]
    BY <1>0, <1>1, <1>2 DEF CallAt
  <2>3. half'[e] => e \in Fragmenting /\ sent'[e] > 0
    BY <1>0, <1>1, <1>4 DEF CallAt
  <2>4. NoFrame \notin {Ping, Pong} /\ \A m : NoFrame # Message(m)
    BY FrameFields
  <2> QED BY <1>1, <2>1, <2>2, <2>3, <2>4 DEF CallAt
<1>6. AssemblyAt(e)'
  BY <1>1, <1>2, Before DEF AssemblyAt
<1>7. ClosedAt(e)'
  <2>1. UNCHANGED <<closes[Peer(e)], sentAtClose[Peer(e)], received[e]>>
    BY <1>1, PeerIsEnd DEF Mine
  <2> QED BY <1>1, <1>2, <2>1, Before DEF ClosedAt
<1>8. StreamAt(e)'
  <2>1. UNCHANGED <<received[e], sent[Peer(e)], half[Peer(e)], closes[Peer(e)],
                    sentAtClose[Peer(e)]>>
    BY <1>1, PeerIsEnd DEF Mine
  <2> QED BY <1>1, <1>2, <1>3, <2>1, Before, StreamQuiet
<1>9. StreamAt(Peer(e))'
  <2> DEFINE p == Peer(e)
  <2>1. p \in Ends /\ Peer(p) = e /\ StreamAt(p)
    BY Before
  <2>2. UNCHANGED <<ended[p], dropped[p], after[p], message_opcode[p], received[p], frame_buf[p]>>
    BY <1>1, PeerIsEnd DEF Mine
  <2> HIDE DEF p
  <2>3. ~dropped[p] => wire[p]' = Append(wire[p], f)
    BY <1>3 DEF p
  <2>4. StreamAt(p)'
    BY <1>0, <2>1, <2>2, <2>3, WriteTakes, StreamGrows
  <2> QED BY <2>4 DEF p
<1>10. closes[e] = 0 \/ UNCHANGED <<closes[e], sentAtClose[e]>>
  BY WriteTakes
<1>11. \A x \in Ends \ {e} : UNCHANGED Mine(x)
  BY <1>1
<1> QED BY <1>5, <1>6, <1>7, <1>8, <1>9, <1>10, <1>11, StepOf

\* A write fails, and its call returns.
LEMMA WriteFailsStep ==
  ASSUME MessageInv, NEW e \in Ends, WriteFails(e) PROVE \A x \in Ends : EndInv(x)'
<1>0. TypeOK /\ CloseInvAt(e) /\ CallAt(e)
  BY Before
<1>1. /\ writing'[e] = NoFrame /\ after'[e] = "none"
      /\ op'[e] = "idle" /\ message_opcode'[e] = FALSE /\ assembled'[e] = <<>>
      /\ ended'[e] # "no" /\ (ended'[e] = "closed" => ended[e] = "closed")
      /\ UNCHANGED <<wire, dropped, frame_buf, close_received, sent, half, received,
                     closes, sentAtClose>>
      /\ \A x \in Ends \ {e} : UNCHANGED Mine(x)
  BY <1>0 DEF WriteFails, WriteDone, Result, FreshMessage, TypeOK, link, flags, Mine
<1>2. CallAt(e)'
  <2>1. NoFrame \notin {Ping, Pong} /\ \A m : NoFrame # Message(m)
    BY FrameFields
  <2> QED BY <1>0, <1>1, <2>1 DEF CallAt
<1>3. AssemblyAt(e)' /\ ClosedAt(e)' /\ StreamAt(e)'
  BY <1>1, Before DEF AssemblyAt, ClosedAt, StreamAt
<1>4. StreamAt(Peer(e))'
  BY <1>1, Before, StreamQuiet DEF Mine
<1> QED BY <1>1, <1>2, <1>3, <1>4, StepOf

\* Another implementation sends a fragment: the first part of its next
\* message, or the last of this one.
LEMMA SendFragmentStep ==
  ASSUME MessageInv, NEW e \in Ends, SendFragment(e) PROVE \A x \in Ends : EndInv(x)'
<1>0. TypeOK /\ CloseInvAt(e) /\ CallAt(e)
  BY Before
<1> DEFINE p == Peer(e)
           f == IF half[e] THEN LastPart(sent[e]) ELSE FirstPart(sent[e] + 1)
<1>1. /\ e \in Fragmenting /\ writing[e] = NoFrame
      /\ half'[e] = ~half[e]
      /\ sent'[e] = IF half[e] THEN sent[e] ELSE sent[e] + 1
      /\ half[e] \/ sent[e] < MaxMsgs
      /\ wire' = [wire EXCEPT ![Peer(e)] = IF dropped[Peer(e)] THEN @ ELSE Append(@, f)]
      /\ UNCHANGED <<dropped, frame_buf, close_received, op, writing, after, message_opcode,
                     assembled, received, ended, closes, sentAtClose>>
      /\ \A x \in Ends \ {e} : UNCHANGED Mine(x)
  BY <1>0 DEF SendFragment, TypeOK, flags, call, Mine
<1>2. sent[e] \in 0..MaxMsgs /\ MaxMsgs \in Nat /\ half[e] \in BOOLEAN /\ (half[e] => sent[e] > 0)
  BY <1>0, WebSocketAssumption DEF TypeOK, CallAt
<1>3. CallAt(e)'
  <2>1. NoFrame \notin {Ping, Pong} /\ \A m : NoFrame # Message(m)
    BY FrameFields
  <2> QED BY <1>0, <1>1, <1>2, <2>1 DEF CallAt
<1>4. AssemblyAt(e)' /\ ClosedAt(e)'
  BY <1>1, Before DEF AssemblyAt, ClosedAt
<1>5. StreamAt(e)'
  <2>1. UNCHANGED <<sent[Peer(e)], half[Peer(e)]>> /\ wire'[e] = wire[e]
    BY <1>0, <1>1, PeerIsEnd DEF Mine, TypeOK
  <2> QED BY <1>1, <2>1, Before, StreamQuiet
<1>6. StreamAt(p)'
  <2>1. p \in Ends /\ Peer(p) = e /\ StreamAt(p)
    BY Before
  <2>2. ~dropped[p] => wire[p]' = Append(wire[p], f)
    BY <1>0, <1>1, <2>1 DEF TypeOK
  <2>3. /\ f \in Frames /\ Top(e) \in Nat /\ Top(e)' \in Nat
        /\ Takes(e, f, Top(e), Top(e)', closes[e]', sentAtClose[e]')
    <3>1. CASE half[e]
      <4> DEFINE m == sent[e] - 1
      <4>1. m \in 0..MaxMsgs /\ m + 1 = sent[e] /\ 2 * sent[e] - 1 = 2 * m + 1
        BY <1>2, <3>1
      <4>3. Top(e) = 2 * sent[e] - 1 /\ Top(e)' = 2 * sent[e]
        <5>1. ~half'[e] /\ sent'[e] = sent[e]
          BY <1>1, <3>1
        <5> QED BY <1>2, <3>1, <5>1 DEF Top
      <4>4. f = LastPart(m + 1)
        BY <3>1, <4>1
      <4>2. f \in Frames
        BY <1>2, <3>1 DEF Frames
      <4> HIDE DEF m, f
      <4>5. Top(e) = 2 * m + 1 /\ Top(e)' = Top(e) + 1 /\ Top(e) \in Nat /\ Top(e)' \in Nat
        BY <1>2, <4>1, <4>3
      <4> QED BY <4>1, <4>2, <4>4, <4>5 DEF Takes
    <3>2. CASE ~half[e]
      <4>1. f = FirstPart(sent[e] + 1)
        BY <3>2
      <4>3. Top(e) = 2 * sent[e] /\ Top(e)' = 2 * (sent[e] + 1) - 1
        <5>1. half'[e] /\ sent'[e] = sent[e] + 1
          BY <1>1, <3>2
        <5> QED BY <1>2, <3>2, <5>1 DEF Top
      <4>2. f \in Frames
        BY <1>1, <1>2, <3>2 DEF Frames
      <4> HIDE DEF f
      <4>4. Top(e)' = Top(e) + 1 /\ Top(e) \in Nat /\ Top(e)' \in Nat
        BY <1>2, <4>3
      <4> QED BY <1>1, <1>2, <4>1, <4>2, <4>3, <4>4 DEF Takes
    <3> QED BY <3>1, <3>2
  <2>4. UNCHANGED <<ended[p], dropped[p], after[p], message_opcode[p], received[p], frame_buf[p]>>
    BY <1>1
  <2>5. UNCHANGED <<closes[e], sentAtClose[e]>>
    BY <1>1
  <2> HIDE DEF p, f
  <2> QED BY <1>0, <2>1, <2>2, <2>3, <2>4, <2>5, StreamGrows
<1> QED BY <1>1, <1>3, <1>4, <1>5, <1>6, StepOf

\* Another implementation sends a frame that recv rejects, between messages.
LEMMA SendBadStep ==
  ASSUME MessageInv, NEW e \in Ends, SendBad(e) PROVE \A x \in Ends : EndInv(x)'
<1>0. TypeOK /\ CloseInvAt(e) /\ CallAt(e)
  BY Before
<1> DEFINE p == Peer(e)
<1>1. PICK f \in {Malformed, Stray} :
        wire' = [wire EXCEPT ![Peer(e)] = IF dropped[Peer(e)] THEN @ ELSE Append(@, f)]
  BY DEF SendBad
<1>2. /\ ~half[e]
      /\ UNCHANGED <<dropped, frame_buf, close_received, op, writing, after, message_opcode,
                     assembled, received, ended, closes, sentAtClose, sent, half>>
      /\ \A x \in Ends \ {e} : UNCHANGED Mine(x)
  BY <1>0 DEF SendBad, flags, call, Mine
<1>3. sent[e] \in 0..MaxMsgs /\ MaxMsgs \in Nat
  BY <1>0, WebSocketAssumption DEF TypeOK
<1>4. CallAt(e)' /\ AssemblyAt(e)' /\ ClosedAt(e)'
  BY <1>2, Before DEF CallAt, AssemblyAt, ClosedAt
<1>5. StreamAt(e)'
  <2>1. wire'[e] = wire[e]
    BY <1>0, <1>1, PeerIsEnd DEF TypeOK
  <2> QED BY <1>2, <2>1, Before, StreamQuiet
<1>6. StreamAt(p)'
  <2>1. p \in Ends /\ Peer(p) = e /\ StreamAt(p)
    BY Before
  <2>2. ~dropped[p] => wire[p]' = Append(wire[p], f)
    BY <1>0, <1>1, <2>1 DEF TypeOK
  <2>3. f \in Frames /\ Top(e) \in Nat /\ Top(e)' = Top(e) /\ Top(e) = 2 * sent[e]
    BY <1>2, <1>3 DEF Top, Frames
  <2>4. Takes(e, f, Top(e), Top(e)', closes[e]', sentAtClose[e]')
    BY <1>3, <2>3 DEF Takes
  <2>5. UNCHANGED <<ended[p], dropped[p], after[p], message_opcode[p], received[p], frame_buf[p],
                    closes[e], sentAtClose[e]>>
    BY <1>2
  <2> HIDE DEF p
  <2> QED BY <1>0, <2>1, <2>2, <2>3, <2>4, <2>5, StreamGrows
<1> QED BY <1>2, <1>4, <1>5, <1>6, StepOf

-----------------------------------------------------------------------------
\* A read moves the cut between what is buffered and what is on the wire.
LEMMA ReadStep ==
  ASSUME MessageInv, NEW e \in Ends, Read(e) PROVE \A x \in Ends : EndInv(x)'
<1>0. TypeOK /\ CallAt(e)
  BY Before
<1> DEFINE p == Peer(e)
<1>1. PICK n \in 1..Len(wire[e]) :
        /\ frame_buf' = [frame_buf EXCEPT ![e] = SubSeq(wire[e], 1, n)]
        /\ wire' = [wire EXCEPT ![e] = SubSeq(@, n + 1, Len(@))]
  BY DEF Read
<1>2. /\ op[e] # "idle" /\ frame_buf[e] = <<>>
      /\ UNCHANGED <<dropped, close_received, op, writing, after, message_opcode,
                     assembled, received, ended, closes, sentAtClose, sent, half>>
      /\ \A x \in Ends \ {e} : UNCHANGED Mine(x)
  BY <1>0 DEF Read, Expecting, InRecv, call, history, Mine
<1>3. CallAt(e)' /\ AssemblyAt(e)' /\ ClosedAt(e)'
  BY <1>2, Before DEF CallAt, AssemblyAt, ClosedAt
<1>4. StreamAt(e)'
  <2>1. PICK a \in Nat, d \in Nat :
          /\ PlaceAt(e, a)
          /\ Carries(p, frame_buf[e], a, d, closes[p], sentAtClose[p])
          /\ Carries(p, wire[e], d, Top(p), closes[p], sentAtClose[p])
    BY <1>0, <1>2, Before DEF StreamAt, CallAt
  <2>2. d = a
    <3>1. Carries(p, <<>>, a, d, closes[p], sentAtClose[p])
      BY <1>2, <2>1
    <3> HIDE DEF p
    <3> QED BY <3>1, CarriesNothing
  <2>3. wire[e] \in Seq(Frames) /\ n \in 0..Len(wire[e])
    BY <1>0 DEF TypeOK
  <2>4. PICK b \in Nat :
          /\ Carries(p, SubSeq(wire[e], 1, n), a, b, closes[p], sentAtClose[p])
          /\ Carries(p, SubSeq(wire[e], n + 1, Len(wire[e])), b, Top(p), closes[p], sentAtClose[p])
    <3> HIDE DEF p
    <3> QED BY <2>1, <2>2, <2>3, CarriesCut
  <2>5. /\ frame_buf'[e] = SubSeq(wire[e], 1, n)
        /\ wire'[e] = SubSeq(wire[e], n + 1, Len(wire[e]))
    BY <1>0, <1>1 DEF TypeOK
  <2>6. PlaceAt(e, a)' /\ Top(p)' = Top(p)
    BY <1>2, <2>1 DEF PlaceAt, Top
  <2>7. /\ Carries(p, frame_buf[e]', a, b, closes[p]', sentAtClose[p]')
        /\ Carries(p, wire[e]', b, Top(p)', closes[p]', sentAtClose[p]')
    BY <1>2, <2>4, <2>5, <2>6
  <2> QED BY <2>6, <2>7 DEF StreamAt
<1>5. StreamAt(p)'
  <2>1. UNCHANGED <<wire[p], frame_buf[p]>>
    BY <1>0, <1>1, PeerIsEnd DEF TypeOK
  <2> QED BY <1>2, <2>1, Before, StreamQuiet
<1> QED BY <1>2, <1>3, <1>4, <1>5, StepOf

\* The peer is gone, and the call returns.
LEMMA ReadEofStep ==
  ASSUME MessageInv, NEW e \in Ends, ReadEof(e) PROVE \A x \in Ends : EndInv(x)'
<1>0. TypeOK /\ CallAt(e)
  BY Before
<1>1. /\ writing[e] = NoFrame
      /\ op'[e] = "idle" /\ message_opcode'[e] = FALSE /\ assembled'[e] = <<>>
      /\ ended'[e] # "no" /\ (ended'[e] = "closed" => ended[e] = "closed" \/ close_received[e])
      /\ UNCHANGED <<wire, dropped, frame_buf, close_received, sent, half, received,
                     closes, sentAtClose, writing, after>>
      /\ \A x \in Ends \ {e} : UNCHANGED Mine(x)
  BY <1>0 DEF ReadEof, Expecting, InRecv, Result, FreshMessage, TypeOK, link, Mine
<1>2. CallAt(e)'
  BY <1>0, <1>1 DEF CallAt
<1>3. AssemblyAt(e)' /\ ClosedAt(e)' /\ StreamAt(e)'
  BY <1>1, Before DEF AssemblyAt, ClosedAt, StreamAt
<1>4. StreamAt(Peer(e))'
  BY <1>1, Before, StreamQuiet DEF Mine
<1> QED BY <1>1, <1>2, <1>3, <1>4, StepOf

\* The keepalive sends a Ping or gives the peer up.
LEMMA KeepAliveStep ==
  ASSUME MessageInv, NEW e \in Ends, KeepAliveExpires(e) PROVE \A x \in Ends : EndInv(x)'
<1>0. TypeOK /\ CallAt(e)
  BY Before
<1>1. /\ e \in KeepAlive /\ op[e] \in {"recv", "close"} /\ writing[e] = NoFrame
      /\ UNCHANGED <<wire, dropped, frame_buf, close_received, sent, half, received,
                     closes, sentAtClose>>
      /\ \A x \in Ends \ {e} : UNCHANGED Mine(x)
  <2>1. CASE ping_outstanding[e]
    BY <1>0, <2>1 DEF KeepAliveExpires, Expecting, InRecv, Result, FreshMessage, TypeOK, link, Mine
  <2>2. CASE ~ping_outstanding[e]
    BY <1>0, <2>2 DEF KeepAliveExpires, Expecting, InRecv, Send, TypeOK, link, Mine
  <2> QED BY <2>1, <2>2
<1>2. \/ /\ op'[e] = "idle" /\ message_opcode'[e] = FALSE /\ assembled'[e] = <<>>
         /\ ended'[e] # "no" /\ (ended'[e] = "closed" => ended[e] = "closed")
         /\ UNCHANGED <<writing, after>>
      \/ /\ writing'[e] = Ping /\ after'[e] = "ping"
         /\ UNCHANGED <<op, ended, message_opcode, assembled>>
  <2>1. CASE ping_outstanding[e]
    BY <1>0, <2>1 DEF KeepAliveExpires, Result, FreshMessage, TypeOK
  <2>2. CASE ~ping_outstanding[e]
    BY <1>0, <2>2 DEF KeepAliveExpires, Send, TypeOK
  <2> QED BY <2>1, <2>2
<1>3. after[e] = "none"
  BY <1>0, <1>1 DEF CallAt
<1>4. CallAt(e)'
  BY <1>0, <1>1, <1>2, <1>3, FrameFields DEF CallAt
<1>5. AssemblyAt(e)' /\ ClosedAt(e)'
  BY <1>1, <1>2, <1>3, Before DEF AssemblyAt, ClosedAt
<1>6. StreamAt(e)' /\ StreamAt(Peer(e))'
  BY <1>1, <1>2, <1>3, Before, StreamQuiet DEF Mine
<1> QED BY <1>1, <1>4, <1>5, <1>6, StepOf

-----------------------------------------------------------------------------
\* What the frame that is decoded carries, and where what follows it begins.
LEMMA DecodeFinds ==
  ASSUME MessageInv, NEW e \in Ends, Decode(e)
  PROVE  LET p == Peer(e)
             f == Head(frame_buf[e])
             done == 2 * Len(received[e])
         IN  \E a, b, d \in Nat :
               /\ a \in {done, done + 1} /\ (message_opcode[e] => a = done + 1)
               /\ Attentive(e) => a = done + (IF message_opcode[e] THEN 1 ELSE 0)
               /\ Takes(p, f, a, b, closes[p], sentAtClose[p])
               /\ Carries(p, Tail(frame_buf[e]), b, d, closes[p], sentAtClose[p])
               /\ Carries(p, wire[e], d, Top(p), closes[p], sentAtClose[p])
<1> DEFINE p == Peer(e)
<1>0. /\ TypeOK /\ CallAt(e) /\ InRecv(e) /\ frame_buf[e] # <<>>
  BY Before DEF Decode
<1>1. after[e] = "none" /\ ended[e] = "no" /\ ~dropped[e]
  BY <1>0 DEF CallAt, InRecv
<1>2. PICK a \in Nat, d \in Nat :
        /\ PlaceAt(e, a)
        /\ Carries(p, frame_buf[e], a, d, closes[p], sentAtClose[p])
        /\ Carries(p, wire[e], d, Top(p), closes[p], sentAtClose[p])
  BY <1>1, Before DEF StreamAt
<1>3. frame_buf[e] \in Seq(Frames)
  BY <1>0 DEF TypeOK
<1>4. PICK b \in Nat :
        /\ Takes(p, Head(frame_buf[e]), a, b, closes[p], sentAtClose[p])
        /\ Carries(p, Tail(frame_buf[e]), b, d, closes[p], sentAtClose[p])
  <2> HIDE DEF p
  <2> QED BY <1>0, <1>2, <1>3, CarriesHead
<1> QED BY <1>1, <1>2, <1>4 DEF PlaceAt

\* A frame is drained: what is left of the stream begins behind it.
LEMMA StreamDrained ==
  ASSUME NEW e \in Ends, NEW b \in Nat, NEW d \in Nat,
         UNCHANGED <<wire[e], sent[Peer(e)], half[Peer(e)], closes[Peer(e)],
                     sentAtClose[Peer(e)]>>,
         frame_buf[e]' = Tail(frame_buf[e]),
         ended[e]' = "no" => PlaceAt(e, b)',
         Carries(Peer(e), Tail(frame_buf[e]), b, d, closes[Peer(e)], sentAtClose[Peer(e)]),
         Carries(Peer(e), wire[e], d, Top(Peer(e)), closes[Peer(e)], sentAtClose[Peer(e)])
  PROVE  StreamAt(e)'
<1> DEFINE p == Peer(e)
<1>1. Top(p)' = Top(p)
  BY DEF Top
<1>2. /\ Carries(p, frame_buf[e]', b, d, closes[p]', sentAtClose[p]')
      /\ Carries(p, wire[e]', d, Top(p)', closes[p]', sentAtClose[p]')
  BY <1>1
<1> QED BY <1>2 DEF StreamAt

\* What every decoded frame leaves alone.
LEMMA DecodeLeaves ==
  ASSUME MessageInv, NEW e \in Ends, Decode(e)
  PROVE  /\ op[e] \in {"recv", "close"} /\ writing[e] = NoFrame /\ after[e] = "none"
         /\ ended[e] = "no" /\ ~dropped[e]
         /\ UNCHANGED <<wire, dropped, sent, half, closes, sentAtClose>>
BY Before DEF Decode, InRecv, CallAt, link

\* A protocol violation ends the call, or first sends a Close; then the place
\* in the stream no longer matters, unless e is attentive.
LEMMA ViolationStep ==
  ASSUME MessageInv, NEW e \in Ends, Decode(e), Violation(e),
         \A x \in Ends \ {e} : UNCHANGED frame_buf[x],
         ended'[e] = "no" /\ after'[e] = "protocol" /\ message_opcode'[e] = message_opcode[e]
           => StreamAt(e)'
  PROVE  \A x \in Ends : EndInv(x)'
<1>0. TypeOK /\ CallAt(e)
  BY Before
<1>1. /\ UNCHANGED <<received, close_received>>
      /\ \A x \in Ends \ {e} : UNCHANGED Mine(x)
  <2>1. CASE close_sent[e]
    BY <1>0, <2>1, DecodeLeaves DEF Violation, Result, FreshMessage, TypeOK, Mine
  <2>2. CASE ~close_sent[e]
    BY <1>0, <2>2, DecodeLeaves DEF Violation, Send, TypeOK, Mine
  <2> QED BY <2>1, <2>2
<1>2. \/ /\ op'[e] = "idle" /\ message_opcode'[e] = FALSE /\ assembled'[e] = <<>>
         /\ ended'[e] = "protocol"
         /\ UNCHANGED <<writing, after>>
      \/ /\ writing'[e] = Close /\ after'[e] = "protocol"
         /\ UNCHANGED <<op, ended, message_opcode, assembled>>
  <2>1. CASE close_sent[e]
    BY <1>0, <2>1, DecodeLeaves DEF Violation, Result, FreshMessage, TypeOK
  <2>2. CASE ~close_sent[e]
    BY <1>0, <2>2 DEF Violation, Send, TypeOK
  <2> QED BY <2>1, <2>2
<1>3. CallAt(e)'
  BY <1>0, <1>1, <1>2, DecodeLeaves, FrameFields DEF CallAt
<1>4. AssemblyAt(e)' /\ ClosedAt(e)'
  BY <1>1, <1>2, Before, DecodeLeaves DEF AssemblyAt, ClosedAt
<1>5. StreamAt(e)'
  BY <1>2 DEF StreamAt
<1>6. StreamAt(Peer(e))'
  BY <1>1, Before, DecodeLeaves, StreamQuiet DEF Mine
<1> QED BY <1>1, <1>3, <1>4, <1>5, <1>6, DecodeLeaves, StepOf

\* A frame that does not decode, or one out of its place.
LEMMA DecodeBadStep ==
  ASSUME MessageInv, NEW e \in Ends, Decode(e), Violation(e), UNCHANGED frame_buf
  PROVE  \A x \in Ends : EndInv(x)'
<1>0. TypeOK
  BY Before
<1>1. UNCHANGED received
  BY DEF Violation
<1>2. ended'[e] = "no" /\ after'[e] = "protocol" /\ message_opcode'[e] = message_opcode[e]
        => StreamAt(e)'
  BY <1>1, Before, DecodeLeaves, StreamQuiet
<1> QED BY <1>2, ViolationStep

\* A first fragment inside a message, or a continuation outside one.
LEMMA OutOfPlaceStep ==
  ASSUME MessageInv, NEW e \in Ends, Decode(e), Violation(e),
         Head(frame_buf[e]).kind \in {"data", "cont"},
         (Head(frame_buf[e]).kind = "data") = message_opcode[e],
         frame_buf' = [frame_buf EXCEPT ![e] = Tail(@)]
  PROVE  \A x \in Ends : EndInv(x)'
<1> DEFINE p == Peer(e)
           f == Head(frame_buf[e])
           done == 2 * Len(received[e])
<1>0. TypeOK
  BY Before
<1>1. UNCHANGED received /\ frame_buf'[e] = Tail(frame_buf[e])
      /\ \A x \in Ends \ {e} : UNCHANGED frame_buf[x]
  BY <1>0 DEF Violation, TypeOK
<1>2. PICK a, b, d \in Nat :
        /\ a \in {done, done + 1} /\ (message_opcode[e] => a = done + 1)
        /\ Attentive(e) => a = done + (IF message_opcode[e] THEN 1 ELSE 0)
        /\ Takes(p, f, a, b, closes[p], sentAtClose[p])
        /\ Carries(p, Tail(frame_buf[e]), b, d, closes[p], sentAtClose[p])
        /\ Carries(p, wire[e], d, Top(p), closes[p], sentAtClose[p])
  BY DecodeFinds
<1>3. Attentive(e) => b = a
  <2> SUFFICES ASSUME Attentive(e) PROVE b = a
    OBVIOUS
  <2>1. Len(received[e]) \in Nat /\ message_opcode[e] \in BOOLEAN
    BY <1>0 DEF TypeOK
  <2>2. Takes(p, f, a, b, closes[p], sentAtClose[p])
    BY <1>2
  <2>3. CASE f.kind = "data"
    <3>1. a = 2 * Len(received[e]) + 1
      BY <1>2, <2>3
    <3>2. \E m \in 0..MaxMsgs : a = 2 * m
      <4> HIDE DEF p, f
      <4> QED BY <2>2, <2>3, TakesByKind
    <3> QED BY <2>1, <3>1, <3>2
  <2>4. CASE f.kind = "cont"
    <3>1. ~message_opcode[e]
      BY <2>1, <2>4
    <3>2. a = 2 * Len(received[e])
      BY <1>2, <3>1
    <3>3. \E m \in 0..MaxMsgs : (a = 2 * m /\ b = a) \/ a = 2 * m + 1
      <4> HIDE DEF p, f
      <4> QED BY <2>2, <2>4, TakesByKind
    <3> QED BY <2>1, <3>2, <3>3
  <2> QED BY <2>3, <2>4
<1>4. ASSUME ended'[e] = "no", after'[e] = "protocol", message_opcode'[e] = message_opcode[e]
      PROVE  StreamAt(e)'
  <2>1. PlaceAt(e, b)'
    BY <1>1, <1>2, <1>3, <1>4 DEF PlaceAt
  <2> QED BY <1>1, <1>2, <2>1, DecodeLeaves, StreamDrained
<1> QED BY <1>1, <1>4, ViolationStep

\* Control frames carry no part.
LEMMA DecodePingStep ==
  ASSUME MessageInv, NEW e \in Ends, Decode(e), DecodePing(e),
         Head(frame_buf[e]).kind = "ping",
         frame_buf' = [frame_buf EXCEPT ![e] = Tail(@)]
  PROVE  \A x \in Ends : EndInv(x)'
<1> DEFINE p == Peer(e)
           f == Head(frame_buf[e])
           done == 2 * Len(received[e])
<1>0. TypeOK /\ CallAt(e)
  BY Before
<1>1. /\ writing'[e] = Pong /\ after'[e] = "decode"
      /\ frame_buf'[e] = Tail(frame_buf[e])
      /\ UNCHANGED <<close_received, op, message_opcode, assembled, received, ended>>
      /\ \A x \in Ends \ {e} : UNCHANGED <<Mine(x), frame_buf[x]>>
  BY <1>0, DecodeLeaves DEF DecodePing, Send, TypeOK, Mine
<1>2. PICK a, b, d \in Nat :
        /\ a \in {done, done + 1} /\ (message_opcode[e] => a = done + 1)
        /\ Attentive(e) => a = done + (IF message_opcode[e] THEN 1 ELSE 0)
        /\ Takes(p, f, a, b, closes[p], sentAtClose[p])
        /\ Carries(p, Tail(frame_buf[e]), b, d, closes[p], sentAtClose[p])
        /\ Carries(p, wire[e], d, Top(p), closes[p], sentAtClose[p])
  BY DecodeFinds
<1>3. b = a /\ p \in Pinging \cup KeepAlive
  BY <1>2, TakesByKind
<1>4. CallAt(e)'
  BY <1>0, <1>1, <1>3, DecodeLeaves, FrameFields DEF CallAt
<1>5. AssemblyAt(e)' /\ ClosedAt(e)'
  BY <1>1, Before, DecodeLeaves DEF AssemblyAt, ClosedAt
<1>6. StreamAt(e)'
  <2>1. PlaceAt(e, b)'
    BY <1>1, <1>2, <1>3 DEF PlaceAt
  <2> QED BY <1>1, <1>2, <2>1, DecodeLeaves, StreamDrained
<1>7. StreamAt(p)'
  BY <1>1, Before, DecodeLeaves, StreamQuiet DEF Mine
<1> QED BY <1>1, <1>4, <1>5, <1>6, <1>7, DecodeLeaves, StepOf

\* A Pong makes recv return: a message half assembled is lost, unless e has
\* asked for no Pong.
LEMMA DecodePongStep ==
  ASSUME MessageInv, NEW e \in Ends, Decode(e), DecodePong(e),
         Head(frame_buf[e]).kind = "pong",
         frame_buf' = [frame_buf EXCEPT ![e] = Tail(@)]
  PROVE  \A x \in Ends : EndInv(x)'
<1> DEFINE p == Peer(e)
           f == Head(frame_buf[e])
           done == 2 * Len(received[e])
<1>0. TypeOK /\ CallAt(e) /\ Peer(p) = e
  BY Before
<1>1. /\ frame_buf'[e] = Tail(frame_buf[e])
      /\ op'[e] \in {op[e], "idle"} /\ message_opcode'[e] = FALSE /\ assembled'[e] = <<>>
      /\ UNCHANGED <<close_received, writing, after, received, ended>>
      /\ \A x \in Ends \ {e} : UNCHANGED <<Mine(x), frame_buf[x]>>
  BY <1>0, DecodeLeaves DEF DecodePong, Result, FreshMessage, TypeOK, Mine
<1>2. PICK a, b, d \in Nat :
        /\ a \in {done, done + 1} /\ (message_opcode[e] => a = done + 1)
        /\ Attentive(e) => a = done + (IF message_opcode[e] THEN 1 ELSE 0)
        /\ Takes(p, f, a, b, closes[p], sentAtClose[p])
        /\ Carries(p, Tail(frame_buf[e]), b, d, closes[p], sentAtClose[p])
        /\ Carries(p, wire[e], d, Top(p), closes[p], sentAtClose[p])
  BY DecodeFinds
<1>3. b = a /\ e \in Pinging \cup KeepAlive
  BY <1>0, <1>2, TakesByKind
<1>4. CallAt(e)'
  BY <1>0, <1>1, DecodeLeaves DEF CallAt
<1>5. AssemblyAt(e)' /\ ClosedAt(e)'
  BY <1>1, Before, DecodeLeaves DEF AssemblyAt, ClosedAt
<1>6. StreamAt(e)'
  <2>1. message_opcode[e] => ~Attentive(e)
    BY <1>3, Before DEF AssemblyAt, Attentive
  <2>2. PlaceAt(e, b)'
    BY <1>1, <1>2, <1>3, <2>1 DEF PlaceAt
  <2> QED BY <1>1, <1>2, <2>2, DecodeLeaves, StreamDrained
<1>7. StreamAt(p)'
  BY <1>1, Before, DecodeLeaves, StreamQuiet DEF Mine
<1> QED BY <1>1, <1>4, <1>5, <1>6, <1>7, DecodeLeaves, StepOf

\* The Close of the peer is behind every message it had sent before.
LEMMA DecodeCloseStep ==
  ASSUME MessageInv, NEW e \in Ends, Decode(e), DecodeClose(e),
         Head(frame_buf[e]).kind = "close",
         frame_buf' = [frame_buf EXCEPT ![e] = Tail(@)]
  PROVE  \A x \in Ends : EndInv(x)'
<1> DEFINE p == Peer(e)
           f == Head(frame_buf[e])
           done == 2 * Len(received[e])
<1>0. TypeOK /\ CallAt(e) /\ p \in Ends
  BY Before
<1>1. /\ frame_buf'[e] = Tail(frame_buf[e])
      /\ UNCHANGED received
      /\ \A x \in Ends \ {e} : UNCHANGED <<Mine(x), frame_buf[x]>>
  <2>1. CASE close_sent[e]
    BY <1>0, <2>1, DecodeLeaves DEF DecodeClose, Result, FreshMessage, TypeOK, Mine
  <2>2. CASE ~close_sent[e]
    BY <1>0, <2>2, DecodeLeaves DEF DecodeClose, Send, TypeOK, Mine
  <2> QED BY <2>1, <2>2
<1>2. \/ /\ op'[e] = "idle" /\ message_opcode'[e] = FALSE /\ assembled'[e] = <<>>
         /\ ended'[e] = "closed"
         /\ UNCHANGED <<writing, after>>
      \/ /\ writing'[e] = Close /\ after'[e] = "echoed"
         /\ UNCHANGED <<op, ended, message_opcode, assembled>>
  <2>1. CASE close_sent[e]
    BY <1>0, <2>1, DecodeLeaves DEF DecodeClose, Result, FreshMessage, TypeOK
  <2>2. CASE ~close_sent[e]
    BY <1>0, <2>2 DEF DecodeClose, Send, TypeOK
  <2> QED BY <2>1, <2>2
<1>3. PICK a, b, d \in Nat :
        /\ a \in {done, done + 1} /\ (message_opcode[e] => a = done + 1)
        /\ Attentive(e) => a = done + (IF message_opcode[e] THEN 1 ELSE 0)
        /\ Takes(p, f, a, b, closes[p], sentAtClose[p])
        /\ Carries(p, Tail(frame_buf[e]), b, d, closes[p], sentAtClose[p])
        /\ Carries(p, wire[e], d, Top(p), closes[p], sentAtClose[p])
  BY DecodeFinds
<1>4. b = a /\ closes[p] > 0 /\ 2 * sentAtClose[p] <= a
  BY <1>3, TakesByKind
<1>5. Len(received[e]) >= sentAtClose[p]
  <2>1. Len(received[e]) \in Nat /\ sentAtClose[p] \in Nat
    BY <1>0 DEF TypeOK
  <2> QED BY <1>3, <1>4, <2>1
<1>6. CallAt(e)'
  BY <1>0, <1>2, DecodeLeaves, FrameFields DEF CallAt
<1>7. AssemblyAt(e)' /\ ClosedAt(e)'
  BY <1>1, <1>2, <1>4, <1>5, Before, DecodeLeaves DEF AssemblyAt, ClosedAt
<1>8. StreamAt(e)'
  <2>1. ended[e]' = "no" => PlaceAt(e, b)'
    BY <1>1, <1>2, <1>3, <1>4 DEF PlaceAt
  <2> QED BY <1>1, <1>3, <2>1, DecodeLeaves, StreamDrained
<1>9. StreamAt(p)'
  BY <1>1, Before, DecodeLeaves, StreamQuiet DEF Mine
<1> QED BY <1>1, <1>6, <1>7, <1>8, <1>9, DecodeLeaves, StepOf

\* The parts of a message, put together, are the message.
LEMMA TwoParts == \A m : <<<<m, 1>>>> \o <<<<m, 2>>>> = Whole(m)
<1> SUFFICES ASSUME NEW m PROVE <<<<m, 1>>>> \o <<<<m, 2>>>> = Whole(m)
  OBVIOUS
<1> DEFINE x == <<m, 1>>
           y == <<m, 2>>
<1> HIDE DEF x, y
<1> DEFINE s == Append(<<x>>, y)
           t == <<x, y>>
<1>1. <<x>> \in Seq({x, y}) /\ <<y>> \in Seq({x, y})
  OBVIOUS
<1>2. <<x>> \o <<y>> = s
  BY <1>1, AppendIsConcat
<1>3. s \in Seq({x, y}) /\ Len(s) = 2 /\ s[1] = x /\ s[2] = y
  BY <1>1
<1>4. t \in Seq({x, y}) /\ Len(t) = 2 /\ t[1] = x /\ t[2] = y
  OBVIOUS
<1> HIDE DEF s, t
<1>5. \A i \in 1..Len(s) : i = 1 \/ i = 2
  BY <1>3
<1>6. s = t
  BY <1>3, <1>4, <1>5, SeqEqual
<1> QED BY <1>2, <1>6 DEF t, x, y, Whole

\* A frame in its place: e hands out the next message or has its first part.
LEMMA DecodeDataStep ==
  ASSUME MessageInv, NEW e \in Ends, Decode(e), DecodeData(e, Head(frame_buf[e])),
         Head(frame_buf[e]).kind \in {"data", "cont"},
         (Head(frame_buf[e]).kind = "data") # message_opcode[e],
         frame_buf' = [frame_buf EXCEPT ![e] = Tail(@)]
  PROVE  \A x \in Ends : EndInv(x)'
<1> DEFINE p == Peer(e)
           f == Head(frame_buf[e])
           r == Len(received[e])
<1>0. TypeOK /\ CallAt(e) /\ AssemblyAt(e)
  BY Before
<1>1. /\ frame_buf'[e] = Tail(frame_buf[e])
      /\ UNCHANGED <<close_received, writing, after, ended>>
      /\ \A x \in Ends \ {e} : UNCHANGED <<Mine(x), frame_buf[x]>>
  BY <1>0, DecodeLeaves DEF DecodeData, Result, FreshMessage, TypeOK, Mine
<1>2. \/ /\ f.fin /\ received'[e] = Append(received[e], assembled[e] \o f.payload)
         /\ op'[e] \in {op[e], "idle"} /\ message_opcode'[e] = FALSE /\ assembled'[e] = <<>>
      \/ /\ ~f.fin /\ message_opcode'[e] = TRUE /\ assembled'[e] = assembled[e] \o f.payload
         /\ UNCHANGED <<op, received>>
  <2> DEFINE payload == assembled[e] \o f.payload
  <2>1. CASE f.fin
    <3>1. received' = [received EXCEPT ![e] = Append(@, payload)] /\ Result(e, "message")
      BY <2>1 DEF DecodeData
    <3> HIDE DEF payload, f
    <3>2. /\ received'[e] = Append(received[e], payload)
          /\ op'[e] \in {op[e], "idle"} /\ message_opcode'[e] = FALSE /\ assembled'[e] = <<>>
      BY <1>0, <3>1 DEF Result, FreshMessage, TypeOK
    <3> QED BY <2>1, <3>2 DEF payload
  <2>2. CASE ~f.fin
    <3>1. /\ message_opcode' = [message_opcode EXCEPT ![e] = TRUE]
          /\ assembled' = [assembled EXCEPT ![e] = payload]
          /\ UNCHANGED <<op, received>>
      BY <2>2 DEF DecodeData
    <3> HIDE DEF payload, f
    <3>2. message_opcode'[e] = TRUE /\ assembled'[e] = payload
      BY <1>0, <3>1 DEF TypeOK
    <3> QED BY <2>2, <3>1, <3>2 DEF payload
  <2> QED BY <2>1, <2>2
<1>3. PICK a, b, d \in Nat :
        /\ a \in {2 * r, 2 * r + 1} /\ (message_opcode[e] => a = 2 * r + 1)
        /\ Attentive(e) => a = 2 * r + (IF message_opcode[e] THEN 1 ELSE 0)
        /\ Takes(p, f, a, b, closes[p], sentAtClose[p])
        /\ Carries(p, Tail(frame_buf[e]), b, d, closes[p], sentAtClose[p])
        /\ Carries(p, wire[e], d, Top(p), closes[p], sentAtClose[p])
  BY DecodeFinds
<1>4. /\ r \in Nat /\ message_opcode[e] \in BOOLEAN
      /\ Len(received[e]) = r
  BY <1>0 DEF TypeOK
<1>5. \/ /\ received'[e] = Append(received[e], Whole(r + 1)) /\ b = 2 * r + 2
         /\ op'[e] \in {op[e], "idle"} /\ message_opcode'[e] = FALSE /\ assembled'[e] = <<>>
      \/ /\ message_opcode'[e] = TRUE /\ assembled'[e] = <<<<r + 1, 1>>>> /\ b = 2 * r + 1
         /\ p \in Fragmenting /\ UNCHANGED <<op, received>>
  <2>1. CASE f.kind = "data"
    <3>1. ~message_opcode[e] /\ assembled[e] = <<>>
      BY <1>0, <1>4, <2>1 DEF AssemblyAt
    <3>2. PICK m \in 0..MaxMsgs :
            \/ a = 2 * m /\ b = a + 2 /\ f.fin /\ f.payload = Whole(m + 1)
            \/ /\ a = 2 * m /\ b = a + 1 /\ ~f.fin /\ f.payload = <<<<m + 1, 1>>>>
               /\ p \in Fragmenting
      <4>1. Takes(p, f, a, b, closes[p], sentAtClose[p])
        BY <1>3
      <4> HIDE DEF p, f
      <4> QED BY <2>1, <4>1, TakesByKind
    <3>3. m = r /\ a = 2 * r
      <4>1. m \in Nat /\ (a = 2 * r \/ a = 2 * r + 1) /\ a = 2 * m
        BY <1>3, <3>2
      <4> HIDE DEF r
      <4> QED BY <1>4, <4>1
    <3>4. <<>> \o Whole(r + 1) = Whole(r + 1) /\ <<>> \o <<<<r + 1, 1>>>> = <<<<r + 1, 1>>>>
      BY DEF Whole
    <3> QED BY <1>2, <1>4, <3>1, <3>2, <3>3, <3>4
  <2>2. CASE f.kind = "cont"
    <3>1. message_opcode[e] /\ assembled[e] = <<<<r + 1, 1>>>>
      BY <1>0, <1>4, <2>2 DEF AssemblyAt
    <3>2. a = 2 * r + 1
      BY <1>3, <3>1
    <3>3. PICK m \in 0..MaxMsgs :
            \/ a = 2 * m /\ b = a /\ f.payload = <<>>
            \/ a = 2 * m + 1 /\ b = a + 1 /\ f.fin /\ f.payload = <<<<m + 1, 2>>>>
      <4>1. Takes(p, f, a, b, closes[p], sentAtClose[p])
        BY <1>3
      <4> HIDE DEF p, f
      <4> QED BY <2>2, <4>1, TakesByKind
    <3>4. m = r /\ b = 2 * r + 2 /\ f.fin /\ f.payload = <<<<r + 1, 2>>>>
      BY <1>4, <3>2, <3>3
    <3>5. <<<<r + 1, 1>>>> \o <<<<r + 1, 2>>>> = Whole(r + 1)
      BY TwoParts
    <3> QED BY <1>2, <1>4, <3>1, <3>4, <3>5
  <2> QED BY <2>1, <2>2
<1>6. CallAt(e)'
  BY <1>0, <1>1, <1>5, DecodeLeaves DEF CallAt
<1>7. received'[e] = [i \in 1..Len(received'[e]) |-> Whole(i)]
  <2>1. received[e] = [i \in 1..r |-> Whole(i)]
    BY <1>0 DEF AssemblyAt
  <2>2. CASE received'[e] = Append(received[e], Whole(r + 1))
    <3>1. Append([i \in 1..r |-> Whole(i)], Whole(r + 1)) = [i \in 1..(r + 1) |-> Whole(i)]
      <4> HIDE DEF r
      <4> QED BY <1>4
    <3>2. Len(received'[e]) = r + 1
      BY <1>4, <2>1, <2>2, <3>1
    <3> QED BY <2>1, <2>2, <3>1, <3>2
  <2>3. CASE received'[e] = received[e]
    BY <2>1, <2>3
  <2> QED BY <1>5, <2>2, <2>3
<1>8. received[e] \in Seq(Seq(Parts))
  BY <1>0 DEF TypeOK
<1>9. Len(received'[e]) = IF message_opcode'[e] THEN r ELSE r + 1
  <2>1. Len(Append(received[e], Whole(r + 1))) = r + 1
    BY <1>4, <1>8
  <2> QED BY <1>5, <2>1
<1>10. AssemblyAt(e)'
  BY <1>5, <1>7, <1>9 DEF AssemblyAt
<1>11. ClosedAt(e)'
  <2>1. sentAtClose[p] \in Nat
    BY <1>0, Before DEF TypeOK
  <2> QED BY <1>1, <1>4, <1>9, <2>1, Before, DecodeLeaves DEF ClosedAt
<1>12. StreamAt(e)'
  <2>1. PlaceAt(e, b)'
    BY <1>1, <1>4, <1>5, <1>9 DEF PlaceAt
  <2> QED BY <1>1, <1>3, <2>1, DecodeLeaves, StreamDrained
<1>13. StreamAt(p)'
  BY <1>1, Before, DecodeLeaves, StreamQuiet DEF Mine
<1> QED BY <1>1, <1>6, <1>10, <1>11, <1>12, <1>13, DecodeLeaves, StepOf

\* Whatever frame is decoded, both ends stay in step.
LEMMA DecodeStep ==
  ASSUME MessageInv, NEW e \in Ends, Decode(e) PROVE \A x \in Ends : EndInv(x)'
<1> DEFINE f == Head(frame_buf[e])
           Drained == frame_buf' = [frame_buf EXCEPT ![e] = Tail(@)]
           OutOfPlace == (f.kind = "data") = message_opcode[e]
<1>1. \/ Violation(e) /\ UNCHANGED frame_buf
      \/ f.kind = "ping" /\ DecodePing(e) /\ Drained
      \/ f.kind = "pong" /\ DecodePong(e) /\ Drained
      \/ f.kind = "close" /\ DecodeClose(e) /\ Drained
      \/ f.kind \in {"data", "cont"} /\ ~OutOfPlace /\ DecodeData(e, f) /\ Drained
      \/ f.kind \in {"data", "cont"} /\ OutOfPlace /\ Violation(e) /\ Drained
  BY DEF Decode
<1> QED
  BY <1>1, DecodeBadStep, DecodePingStep, DecodePongStep, DecodeCloseStep, DecodeDataStep,
     OutOfPlaceStep

-----------------------------------------------------------------------------
\* A call that is over has left nothing behind.
Settled ==
  \A e \in Ends : op[e] = "idle" => writing[e] = NoFrame /\ ~message_opcode[e] /\ assembled[e] = <<>>

\* The frames, and the parts they carry, have their types.
LEMMA FrameTypes ==
  /\ {Ping, Pong, Close, Malformed, Stray} \subseteq Frames
  /\ \A m \in 1..MaxMsgs : {Message(m), FirstPart(m), LastPart(m)} \subseteq Frames
  /\ \A f \in Frames : f.payload \in Seq(Parts)
<1>1. ASSUME NEW m \in 1..MaxMsgs
      PROVE  Whole(m) \in Seq(Parts) /\ <<<<m, 1>>>> \in Seq(Parts) /\ <<<<m, 2>>>> \in Seq(Parts)
  <2>1. <<m, 1>> \in Parts /\ <<m, 2>> \in Parts
    BY DEF Parts
  <2> QED BY <2>1 DEF Whole
<1>2. <<>> \in Seq(Parts)
  OBVIOUS
<1>3. \A f \in Frames : f.payload \in Seq(Parts)
  BY <1>1, <1>2, FrameFields DEF Frames
<1> QED BY <1>3 DEF Frames

\* A frame is put on the wire to an end that has not gone.
LEMMA WireTypes ==
  ASSUME TypeOK, NEW e \in Ends, NEW f \in Frames, NEW w,
         w = [wire EXCEPT ![Peer(e)] = IF dropped[Peer(e)] THEN @ ELSE Append(@, f)]
  PROVE  w \in [Ends -> Seq(Frames)]
<1>1. \A x \in Ends : wire[x] \in Seq(Frames) /\ Append(wire[x], f) \in Seq(Frames)
  BY DEF TypeOK
<1>2. wire \in [Ends -> Seq(Frames)]
  BY DEF TypeOK
<1> QED BY <1>1, <1>2

\* What the helpers of a call assign.
LEMMA FreshTypes ==
  ASSUME TypeOK, NEW e \in Ends, FreshMessage(e)
  PROVE  message_opcode' \in [Ends -> BOOLEAN] /\ assembled' \in [Ends -> Seq(Parts)]
<1>1. <<>> \in Seq(Parts)
  OBVIOUS
<1>2. message_opcode' \in [Ends -> BOOLEAN]
  BY DEF FreshMessage, TypeOK
<1>3. assembled' \in [Ends -> Seq(Parts)]
  BY <1>1 DEF FreshMessage, TypeOK
<1> QED BY <1>2, <1>3

\* What a call that returns leaves.
LEMMA ResultTypes ==
  ASSUME TypeOK, NEW e \in Ends,
         NEW r \in {"message", "pong", "closed", "lost", "timedout", "protocol"}, Result(e, r)
  PROVE  /\ op' \in [Ends -> {"idle", "send", "recv", "close"}]
         /\ ended' \in [Ends -> {"no", "closed", "lost", "timedout", "protocol"}]
         /\ message_opcode' \in [Ends -> BOOLEAN]
         /\ assembled' \in [Ends -> Seq(Parts)]
<1>1. message_opcode' \in [Ends -> BOOLEAN] /\ assembled' \in [Ends -> Seq(Parts)]
  BY FreshTypes DEF Result
<1>2. op' \in [Ends -> {"idle", "send", "recv", "close"}]
  <2>1. \/ op' = [op EXCEPT ![e] = IF @ = "close" THEN @ ELSE "idle"]
        \/ op' = [op EXCEPT ![e] = "idle"]
    BY DEF Result
  <2> QED BY <2>1 DEF TypeOK
<1>3. ended' \in [Ends -> {"no", "closed", "lost", "timedout", "protocol"}]
  <2>1. \/ UNCHANGED ended
        \/ /\ r \in {"closed", "lost", "timedout", "protocol"}
           /\ ended' = [ended EXCEPT ![e] = IF @ = "no" THEN r ELSE @]
    <3>1. CASE r \in {"message", "pong"}
      BY <3>1 DEF Result
    <3>2. CASE r \in {"closed", "lost", "timedout", "protocol"}
      BY <3>2 DEF Result
    <3> QED BY <3>1, <3>2
  <2> DEFINE V == {"no", "closed", "lost", "timedout", "protocol"}
  <2>2. ended \in [Ends -> V] /\ {"closed", "lost", "timedout", "protocol"} \subseteq V
    BY DEF TypeOK
  <2> HIDE DEF V
  <2>3. ended' \in [Ends -> V]
    BY <2>1, <2>2
  <2> QED BY <2>3 DEF V
<1> QED BY <1>1, <1>2, <1>3

\* What a frame that is to be written leaves.
LEMMA SendTypes ==
  ASSUME TypeOK, NEW e \in Ends, NEW f \in Frames,
         NEW next \in {"return", "decode", "ping", "echoed", "protocol"}, Send(e, f, next)
  PROVE  /\ writing' \in [Ends -> Frames \cup {NoFrame}]
         /\ after' \in [Ends -> {"none", "return", "decode", "ping", "echoed", "protocol"}]
         /\ close_sent' \in [Ends -> BOOLEAN]
<1>1. writing' \in [Ends -> Frames \cup {NoFrame}]
  BY DEF Send, TypeOK
<1>2. after' \in [Ends -> {"none", "return", "decode", "ping", "echoed", "protocol"}]
  BY DEF Send, TypeOK
<1>3. close_sent' \in [Ends -> BOOLEAN]
  BY DEF Send, TypeOK
<1> QED BY <1>1, <1>2, <1>3

\* The types, one action at a time; that a call which is over has left nothing
\* behind follows from the rest of the invariant.
LEMMA CallTypes ==
  ASSUME TypeOK, Settled', NEW e \in Ends,
         SendMessage(e) \/ SendPing(e) \/ SendClose(e) \/ Recv(e) \/ CloseCall(e)
  PROVE  TypeOK'
<1>0. MaxMsgs \in Nat /\ MaxExtra \in Nat
  BY WebSocketAssumption
<1>1. CASE SendMessage(e)
  <2>1. sent[e] + 1 \in 1..MaxMsgs
    BY <1>0, <1>1 DEF SendMessage, TypeOK
  <2> QED
    BY <1>1, <2>1, FrameTypes DEF SendMessage, Send, TypeOK, Settled, link, history
<1>2. CASE SendPing(e)
  <2>1. extra' \in [Ends -> 0..MaxExtra]
    BY <1>0, <1>2 DEF SendPing, TypeOK
  <2> QED
    BY <1>2, <2>1, FrameTypes DEF SendPing, Send, TypeOK, Settled, link
<1>3. CASE SendClose(e)
  BY <1>3, FrameTypes DEF SendClose, Send, TypeOK, Settled, link, history
<1>4. CASE Recv(e)
  BY <1>4 DEF Recv, FreshMessage, TypeOK, Settled, link, flags, history
<1>5. CASE CloseCall(e)
  <2>1. CASE close_sent[e]
    BY <1>5, <2>1, FrameTypes DEF CloseCall, FreshMessage, TypeOK, Settled, link, history
  <2>2. CASE ~close_sent[e]
    <3>1. /\ FreshMessage(e) /\ Send(e, Close, "decode")
          /\ op' = [op EXCEPT ![e] = "close"]
          /\ UNCHANGED <<link, frame_buf, close_received, ping_outstanding, history>>
      BY <1>5, <2>2 DEF CloseCall
    <3>2. Close \in Frames
      BY FrameTypes
    <3>3. op' \in [Ends -> {"idle", "send", "recv", "close"}]
      BY <3>1 DEF TypeOK
    <3> QED BY <3>1, <3>2, <3>3, FreshTypes, SendTypes DEF TypeOK, Settled, link, history
  <2> QED BY <2>1, <2>2
<1> QED BY <1>1, <1>2, <1>3, <1>4, <1>5

\* Types behind a write.
LEMMA WriteTypes ==
  ASSUME MessageInv, Settled', NEW e \in Ends, Write(e) PROVE TypeOK'
<1>0. TypeOK /\ CallAt(e) /\ MaxMsgs \in Nat
  BY Before, WebSocketAssumption
<1> DEFINE f == writing[e]
<1>1. f \in Frames /\ wire' \in [Ends -> Seq(Frames)]
  <2>1. f \in Frames
    BY WriteTakes
  <2>2. wire' = [wire EXCEPT ![Peer(e)] = IF dropped[Peer(e)] THEN @ ELSE Append(@, f)]
    BY DEF Write
  <2> HIDE DEF f
  <2> QED BY <1>0, <2>1, <2>2, WireTypes
<1>2. sent' \in [Ends -> 0..MaxMsgs]
  <2>1. sent[e] \in 0..MaxMsgs /\ (f.kind = "data" => sent[e] + 1 \in 0..MaxMsgs)
    BY <1>0, FrameFields DEF CallAt, TypeOK
  <2>2. sent' = [sent EXCEPT ![e] = IF f.kind = "data" THEN @ + 1 ELSE @]
    BY DEF Write
  <2> HIDE DEF f
  <2> QED BY <1>0, <2>1, <2>2 DEF TypeOK
<1>3. sentAtClose' \in [Ends -> 0..MaxMsgs]
  <2> DEFINE n == sent[e] - (IF half[e] THEN 1 ELSE 0)
  <2>1. n \in 0..MaxMsgs
    BY <1>0 DEF CallAt, TypeOK
  <2>2. sentAtClose' = [sentAtClose EXCEPT ![e] = IF f = Close /\ closes[e] = 0 THEN n ELSE @]
    BY DEF Write
  <2> HIDE DEF f, n
  <2> QED BY <1>0, <2>1, <2>2 DEF TypeOK
<1>4. closes' \in [Ends -> Nat]
  BY <1>0 DEF Write, TypeOK
<1>5. /\ writing' \in [Ends -> Frames \cup {NoFrame}]
      /\ after' \in [Ends -> {"none", "return", "decode", "ping", "echoed", "protocol"}]
  BY <1>0 DEF Write, WriteDone, TypeOK
<1>6. /\ close_received' \in [Ends -> BOOLEAN]
      /\ ping_outstanding' \in [Ends -> BOOLEAN]
      /\ op' \in [Ends -> {"idle", "send", "recv", "close"}]
      /\ message_opcode' \in [Ends -> BOOLEAN]
      /\ assembled' \in [Ends -> Seq(Parts)]
      /\ ended' \in [Ends -> {"no", "closed", "lost", "timedout", "protocol"}]
  <2>1. \/ \E r \in {"closed", "protocol"} : Result(e, r)
        \/ /\ op' = [op EXCEPT ![e] = "idle"] \/ op' = op
           /\ UNCHANGED <<message_opcode, assembled, ended>>
    BY DEF Write
  <2>2. close_received' = [close_received EXCEPT ![e] = TRUE] \/ UNCHANGED close_received
    BY DEF Write
  <2>3. ping_outstanding' = [ping_outstanding EXCEPT ![e] = TRUE] \/ UNCHANGED ping_outstanding
    BY DEF Write
  <2>4. close_received' \in [Ends -> BOOLEAN] /\ ping_outstanding' \in [Ends -> BOOLEAN]
    BY <1>0, <2>2, <2>3 DEF TypeOK
  <2>5. CASE \E r \in {"closed", "protocol"} : Result(e, r)
    BY <1>0, <2>4, <2>5, ResultTypes
  <2>6. CASE /\ op' = [op EXCEPT ![e] = "idle"] \/ op' = op
             /\ UNCHANGED <<message_opcode, assembled, ended>>
    BY <1>0, <2>4, <2>6 DEF TypeOK
  <2> QED BY <2>1, <2>5, <2>6
<1>7. UNCHANGED <<dropped, frame_buf, close_sent, extra, half, received>>
  BY DEF Write
<1> QED BY <1>0, <1>1, <1>2, <1>3, <1>4, <1>5, <1>6, <1>7 DEF TypeOK, Settled

\* Types behind a read, or the failure of one.
LEMMA ReadTypes ==
  ASSUME TypeOK, Settled', NEW e \in Ends,
         Read(e) \/ ReadEof(e) \/ WriteFails(e) \/ KeepAliveExpires(e)
  PROVE  TypeOK'
<1>1. CASE Read(e)
  <2>1. PICK n \in 1..Len(wire[e]) :
          /\ frame_buf' = [frame_buf EXCEPT ![e] = SubSeq(wire[e], 1, n)]
          /\ wire' = [wire EXCEPT ![e] = SubSeq(@, n + 1, Len(@))]
    BY <1>1 DEF Read
  <2>2. wire[e] \in Seq(Frames) /\ n \in 0..Len(wire[e])
    BY DEF TypeOK
  <2>3. SubSeq(wire[e], 1, n) \in Seq(Frames) /\ SubSeq(wire[e], n + 1, Len(wire[e])) \in Seq(Frames)
    BY <2>2, CutSeq
  <2>4. frame_buf' \in [Ends -> Seq(Frames)] /\ wire' \in [Ends -> Seq(Frames)]
    BY <2>1, <2>3 DEF TypeOK
  <2> QED BY <1>1, <2>4 DEF Read, TypeOK, Settled, call, history
<1>2. CASE ReadEof(e)
  <2>1. \E r \in {"closed", "lost"} : Result(e, r)
    BY <1>2 DEF ReadEof
  <2>2. ping_outstanding' \in [Ends -> BOOLEAN]
    BY <1>2 DEF ReadEof, TypeOK
  <2>3. UNCHANGED <<link, frame_buf, close_sent, close_received, writing, after,
                    sent, extra, half, received, closes, sentAtClose>>
    BY <1>2 DEF ReadEof
  <2> QED BY <2>1, <2>2, <2>3, ResultTypes DEF TypeOK, Settled, link
<1>3. CASE WriteFails(e)
  <2>1. \E r \in {"protocol", "lost"} : Result(e, r)
    BY <1>3 DEF WriteFails
  <2>2. /\ writing' \in [Ends -> Frames \cup {NoFrame}]
        /\ after' \in [Ends -> {"none", "return", "decode", "ping", "echoed", "protocol"}]
    BY <1>3 DEF WriteFails, WriteDone, TypeOK
  <2>3. UNCHANGED <<link, frame_buf, flags, sent, extra, half, received, closes, sentAtClose>>
    BY <1>3 DEF WriteFails
  <2> QED BY <2>1, <2>2, <2>3, ResultTypes DEF TypeOK, Settled, link, flags
<1>4. CASE KeepAliveExpires(e)
  <2>1. CASE ping_outstanding[e]
    <3>1. /\ Result(e, "timedout")
          /\ UNCHANGED <<close_sent, writing, after, link, frame_buf, close_received,
                         ping_outstanding, sent, extra, half, received, closes, sentAtClose>>
      BY <1>4, <2>1 DEF KeepAliveExpires
    <3> QED BY <3>1, ResultTypes DEF TypeOK, Settled, link
  <2>2. CASE ~ping_outstanding[e]
    <3>1. /\ Send(e, Ping, "ping")
          /\ UNCHANGED <<op, ended, message_opcode, assembled, link, frame_buf, close_received,
                         ping_outstanding, sent, extra, half, received, closes, sentAtClose>>
      BY <1>4, <2>2 DEF KeepAliveExpires
    <3>2. Ping \in Frames
      BY FrameTypes
    <3> QED BY <3>1, <3>2, SendTypes DEF TypeOK, Settled, link
  <2> QED BY <2>1, <2>2
<1> QED BY <1>1, <1>2, <1>3, <1>4

\* Types behind a cancellation, a lost transport, or what another implementation sends.
LEMMA PeerTypes ==
  ASSUME MessageInv, Settled', NEW e \in Ends,
         Cancel(e) \/ DropTransport(e) \/ SendFragment(e) \/ SendBad(e)
  PROVE  TypeOK'
<1>0. TypeOK /\ CallAt(e) /\ MaxMsgs \in Nat /\ MaxExtra \in Nat
  BY Before, WebSocketAssumption
<1>1. CASE Cancel(e)
  <2>1. extra' \in [Ends -> 0..MaxExtra] /\ op' \in [Ends -> {"idle", "send", "recv", "close"}]
    BY <1>0, <1>1 DEF Cancel, TypeOK
  <2>2. /\ FreshMessage(e)
        /\ UNCHANGED <<link, frame_buf, flags, writing, after,
                       sent, half, received, ended, closes, sentAtClose>>
    BY <1>1 DEF Cancel
  <2> QED BY <1>0, <2>1, <2>2, FreshTypes DEF TypeOK, Settled, link, flags
<1>2. CASE DropTransport(e)
  BY <1>0, <1>2 DEF DropTransport, TypeOK, Settled, flags, call, history
<1>3. CASE SendFragment(e)
  <2> DEFINE f == IF half[e] THEN LastPart(sent[e]) ELSE FirstPart(sent[e] + 1)
  <2>1. f \in Frames
    <3>1. CASE half[e]
      <4>1. sent[e] \in 1..MaxMsgs
        BY <1>0, <3>1 DEF CallAt, TypeOK
      <4> QED BY <3>1, <4>1, FrameTypes
    <3>2. CASE ~half[e]
      <4>1. sent[e] + 1 \in 1..MaxMsgs
        BY <1>0, <1>3, <3>2 DEF SendFragment, TypeOK
      <4> QED BY <3>2, <4>1, FrameTypes
    <3> QED BY <3>1, <3>2
  <2>2. wire' = [wire EXCEPT ![Peer(e)] = IF dropped[Peer(e)] THEN @ ELSE Append(@, f)]
    BY <1>3 DEF SendFragment
  <2>3. wire' \in [Ends -> Seq(Frames)]
    <3> HIDE DEF f
    <3> QED BY <1>0, <2>1, <2>2, WireTypes
  <2>4. sent' \in [Ends -> 0..MaxMsgs] /\ half' \in [Ends -> BOOLEAN]
    BY <1>0, <1>3 DEF SendFragment, TypeOK
  <2> QED
    BY <1>0, <1>3, <2>3, <2>4 DEF SendFragment, TypeOK, Settled, flags, call
<1>4. CASE SendBad(e)
  <2>1. PICK f \in {Malformed, Stray} :
          wire' = [wire EXCEPT ![Peer(e)] = IF dropped[Peer(e)] THEN @ ELSE Append(@, f)]
    BY <1>4 DEF SendBad
  <2>2. wire' \in [Ends -> Seq(Frames)]
    BY <1>0, <2>1, FrameTypes, WireTypes
  <2>3. extra' \in [Ends -> 0..MaxExtra]
    BY <1>0, <1>4 DEF SendBad, TypeOK
  <2> QED
    BY <1>0, <1>4, <2>2, <2>3 DEF SendBad, TypeOK, Settled, flags, call
<1> QED BY <1>1, <1>2, <1>3, <1>4

\* Types behind a decoded frame.
LEMMA DecodeTypes ==
  ASSUME TypeOK, Settled', NEW e \in Ends, Decode(e) PROVE TypeOK'
<1> DEFINE f == Head(frame_buf[e])
<1>1. f \in Frames /\ f.payload \in Seq(Parts) /\ frame_buf' \in [Ends -> Seq(Frames)]
  <2>1. frame_buf[e] \in Seq(Frames) /\ frame_buf[e] # <<>>
    BY DEF Decode, TypeOK
  <2>2. f \in Frames /\ Tail(frame_buf[e]) \in Seq(Frames)
    BY <2>1
  <2>3. frame_buf' = frame_buf \/ frame_buf' = [frame_buf EXCEPT ![e] = Tail(@)]
    BY DEF Decode
  <2>4. frame_buf' \in [Ends -> Seq(Frames)]
    BY <2>2, <2>3 DEF TypeOK
  <2> QED BY <2>2, <2>4, FrameTypes
<1>2. UNCHANGED <<wire, dropped, ping_outstanding, sent, extra, half, closes, sentAtClose>>
  BY DEF Decode, link
<1>3. /\ close_sent' \in [Ends -> BOOLEAN]
      /\ close_received' \in [Ends -> BOOLEAN]
      /\ op' \in [Ends -> {"idle", "send", "recv", "close"}]
      /\ writing' \in [Ends -> Frames \cup {NoFrame}]
      /\ after' \in [Ends -> {"none", "return", "decode", "ping", "echoed", "protocol"}]
      /\ message_opcode' \in [Ends -> BOOLEAN]
      /\ assembled' \in [Ends -> Seq(Parts)]
      /\ received' \in [Ends -> Seq(Seq(Parts))]
      /\ ended' \in [Ends -> {"no", "closed", "lost", "timedout", "protocol"}]
  <2>1. CASE Violation(e)
    <3>1. CASE close_sent[e]
      <4>1. /\ Result(e, "protocol")
            /\ UNCHANGED <<writing, after, close_sent, close_received, received>>
        BY <2>1, <3>1 DEF Violation
      <4> QED BY <4>1, ResultTypes DEF TypeOK
    <3>2. CASE ~close_sent[e]
      <4>1. /\ Send(e, Close, "protocol") /\ Close \in Frames
            /\ UNCHANGED <<op, ended, message_opcode, assembled, close_received, received>>
        BY <2>1, <3>2, FrameTypes DEF Violation
      <4> QED BY <4>1, SendTypes DEF TypeOK
    <3> QED BY <3>1, <3>2
  <2>2. CASE DecodePing(e)
    <3>1. /\ Send(e, Pong, "decode") /\ Pong \in Frames
          /\ UNCHANGED <<op, ended, message_opcode, assembled, close_received, received>>
      BY <2>2, FrameTypes DEF DecodePing
    <3> QED BY <3>1, SendTypes DEF TypeOK
  <2>3. CASE DecodePong(e)
    <3>1. /\ Result(e, "pong")
          /\ UNCHANGED <<writing, after, close_sent, close_received, received>>
      BY <2>3 DEF DecodePong
    <3> QED BY <3>1, ResultTypes DEF TypeOK
  <2>4. CASE DecodeClose(e)
    <3>1. CASE close_sent[e]
      <4>1. /\ Result(e, "closed") /\ close_received' = [close_received EXCEPT ![e] = TRUE]
            /\ UNCHANGED <<writing, after, close_sent, received>>
        BY <2>4, <3>1 DEF DecodeClose
      <4>2. close_received' \in [Ends -> BOOLEAN]
        BY <4>1 DEF TypeOK
      <4> QED BY <4>1, <4>2, ResultTypes DEF TypeOK
    <3>2. CASE ~close_sent[e]
      <4>1. /\ Send(e, Close, "echoed") /\ Close \in Frames
            /\ UNCHANGED <<op, ended, message_opcode, assembled, close_received, received>>
        BY <2>4, <3>2, FrameTypes DEF DecodeClose
      <4> QED BY <4>1, SendTypes DEF TypeOK
    <3> QED BY <3>1, <3>2
  <2>5. CASE DecodeData(e, f)
    <3> DEFINE payload == assembled[e] \o f.payload
    <3>1. payload \in Seq(Parts)
      BY <1>1 DEF TypeOK
    <3>2. CASE f.fin
      <4>1. received' = [received EXCEPT ![e] = Append(@, payload)] /\ Result(e, "message")
            /\ UNCHANGED <<close_sent, close_received, writing, after>>
        BY <2>5, <3>2 DEF DecodeData
      <4> HIDE DEF payload, f
      <4>2. Append(received[e], payload) \in Seq(Seq(Parts))
        BY <3>1 DEF TypeOK
      <4>3. received' \in [Ends -> Seq(Seq(Parts))]
        BY <4>1, <4>2 DEF TypeOK
      <4> QED BY <4>1, <4>3, ResultTypes DEF TypeOK
    <3>3. CASE ~f.fin
      <4>1. /\ message_opcode' = [message_opcode EXCEPT ![e] = TRUE]
            /\ assembled' = [assembled EXCEPT ![e] = payload]
            /\ UNCHANGED <<op, ended, received, close_sent, close_received, writing, after>>
        BY <2>5, <3>3 DEF DecodeData
      <4> HIDE DEF payload, f
      <4> QED BY <3>1, <4>1 DEF TypeOK
    <3> QED BY <3>2, <3>3
  <2> QED BY <2>1, <2>2, <2>3, <2>4, <2>5 DEF Decode
<1> HIDE DEF f
<1> QED BY <1>1, <1>2, <1>3 DEF TypeOK, Settled

-----------------------------------------------------------------------------
\* Nothing was sent yet.
LEMMA MessageInit == Init => MessageInv
<1> SUFFICES ASSUME Init PROVE MessageInv
  OBVIOUS
<1>0. MaxMsgs \in Nat /\ MaxExtra \in Nat
  BY WebSocketAssumption
<1>1. CloseInv
  BY CloseInit
<1>2. TypeOK
  <2>1. <<>> \in Seq(Frames) /\ <<>> \in Seq(Parts) /\ <<>> \in Seq(Seq(Parts))
    OBVIOUS
  <2> QED BY <1>0, <2>1 DEF Init, TypeOK
<1>3. ASSUME NEW e \in Ends PROVE EndInv(e)
  <2> DEFINE p == Peer(e)
  <2>0. p \in Ends
    BY PeerIsEnd
  <2>1. CallAt(e)
    BY FrameFields DEF Init, CallAt
  <2>2. AssemblyAt(e)
    <3>1. received[e] = <<>> /\ Len(<<>>) = 0 /\ message_opcode[e] = FALSE /\ assembled[e] = <<>>
      BY DEF Init
    <3>2. <<>> = [i \in 1..0 |-> Whole(i)]
      OBVIOUS
    <3> QED BY <3>1, <3>2 DEF AssemblyAt
  <2>3. ClosedAt(e)
    BY DEF Init, ClosedAt
  <2>4. StreamAt(e)
    <3>1. /\ received[e] = <<>> /\ message_opcode[e] = FALSE
          /\ frame_buf[e] = <<>> /\ wire[e] = <<>> /\ sent[p] = 0 /\ half[p] = FALSE
      BY <2>0 DEF Init
    <3>2. Top(p) = 0 /\ Len(received[e]) = 0
      <4>1. sent[p] = 0 /\ ~half[p]
        BY <3>1
      <4>2. Top(p) = 2 * 0 - 0
        BY <4>1 DEF Top
      <4> QED BY <3>1, <4>2
    <3>3. PlaceAt(e, 0)
      BY <3>1, <3>2 DEF PlaceAt
    <3>4. Carries(p, <<>>, 0, 0, closes[p], sentAtClose[p])
      BY CarriesNothing
    <3>5. /\ Carries(p, frame_buf[e], 0, 0, closes[p], sentAtClose[p])
          /\ Carries(p, wire[e], 0, Top(p), closes[p], sentAtClose[p])
      BY <3>1, <3>2, <3>4
    <3> QED BY <3>3, <3>5 DEF StreamAt
  <2> QED BY <2>1, <2>2, <2>3, <2>4 DEF EndInv
<1> QED BY <1>1, <1>2, <1>3 DEF MessageInv, EndInv

\* Every step keeps the invariant of the messages.
LEMMA MessageInductive == MessageInv /\ [Next]_vars => MessageInv'
<1> SUFFICES ASSUME MessageInv, [Next]_vars PROVE MessageInv'
  OBVIOUS
<1>1. CloseInv'
  BY CloseInductive DEF MessageInv
<1>2. CASE Next
  <2>1. PICK e \in Ends :
          \/ Progress(e) \/ KeepAliveExpires(e)
          \/ SendMessage(e) \/ SendPing(e) \/ SendClose(e) \/ Recv(e) \/ CloseCall(e)
          \/ Cancel(e) \/ DropTransport(e)
          \/ SendFragment(e) \/ SendBad(e)
    BY <1>2 DEF Next
  <2>2. \A x \in Ends : EndInv(x)'
    BY <2>1, WriteStep, WriteFailsStep, DecodeStep, ReadStep, ReadEofStep, KeepAliveStep,
       SendMessageStep, SendPingStep, SendCloseStep, RecvStep, CloseCallStep, CancelStep,
       DropTransportStep, SendFragmentStep, SendBadStep DEF Progress
  <2>3. Settled'
    BY <1>1, <2>2 DEF CloseInv, CloseInvAt, EndInv, CallAt, AssemblyAt, Settled
  <2>4. TypeOK
    BY DEF MessageInv
  <2>5. TypeOK'
    BY <2>1, <2>3, <2>4, CallTypes, WriteTypes, ReadTypes, PeerTypes, DecodeTypes DEF Progress
  <2> QED BY <1>1, <2>2, <2>5 DEF MessageInv, EndInv
<1>3. CASE UNCHANGED vars
  <2>1. TypeOK'
    BY <1>3 DEF MessageInv, TypeOK, vars, link, flags, call, history
  <2>2. ASSUME NEW e \in Ends PROVE CallAt(e)' /\ AssemblyAt(e)' /\ ClosedAt(e)' /\ StreamAt(e)'
    <3>1. CallAt(e) /\ AssemblyAt(e) /\ ClosedAt(e) /\ StreamAt(e)
      BY DEF MessageInv
    <3>2. UNCHANGED <<op, writing, after, message_opcode, assembled, received, ended, dropped,
                      close_received, sent, half, closes, sentAtClose, wire, frame_buf>>
      BY <1>3 DEF vars, link, flags, call, history
    <3>3. CallAt(e)' /\ AssemblyAt(e)' /\ ClosedAt(e)'
      BY <3>1, <3>2 DEF CallAt, AssemblyAt, ClosedAt
    <3>4. StreamAt(e)'
      BY <3>1, <3>2, StreamQuiet
    <3> QED BY <3>3, <3>4
  <2> QED BY <1>1, <2>1, <2>2 DEF MessageInv
<1> QED BY <1>2, <1>3

\* Whatever is cancelled, fails, closes or sends what recv rejects, and
\* however the transport cuts the stream: recv hands out the messages of the
\* peer whole and in order, none skipped; and an end that reports the close has
\* every message that was sent before the Close.
THEOREM WholeMessages == Spec => []MessagesWhole
<1>1. MessageInv => MessagesWhole
  <2> SUFFICES ASSUME MessageInv, NEW e \in Ends
               PROVE  /\ \A i \in DOMAIN received[e] : received[e][i] = Whole(i)
                      /\ ended[e] = "closed" =>
                           closes[Peer(e)] > 0 /\ Len(received[e]) >= sentAtClose[Peer(e)]
    BY DEF MessagesWhole, MessageInv
  <2>1. received[e] = [i \in 1..Len(received[e]) |-> Whole(i)] /\ ClosedAt(e)
    BY DEF MessageInv, AssemblyAt
  <2>2. \A i \in DOMAIN received[e] : received[e][i] = Whole(i)
    BY <2>1
  <2> QED BY <2>1, <2>2 DEF ClosedAt
<1> QED BY <1>1, MessageInit, MessageInductive, PTL DEF Spec

-----------------------------------------------------------------------------
\* The parts of a message by their number.
LEMMA PartOf ==
  ASSUME NEW m \in Nat
  PROVE  Part(2 * m + 1) = <<m + 1, 1>> /\ Part(2 * m + 2) = <<m + 1, 2>>
<1>1. (2 * m + 1) % 2 = 1 /\ ((2 * m + 1) + 1) \div 2 = m + 1
  OBVIOUS
<1>2. (2 * m + 2) % 2 = 0 /\ (2 * m + 2) \div 2 = m + 1
  OBVIOUS
<1> QED BY <1>1, <1>2 DEF Part

\* Parts are pairs of numbers.
Pairs == Int \X Int

\* What a range of parts consists of.
LEMMA SpanIs ==
  ASSUME NEW a \in Nat, NEW b \in Nat, a <= b
  PROVE  /\ Span(a, b) \in Seq(Pairs) /\ Len(Span(a, b)) = b - a
         /\ \A k \in 1..(b - a) : Span(a, b)[k] = Part(a + k)
<1>1. ASSUME NEW k \in Int PROVE Part(k) \in Pairs
  <2>1. (k + 1) \div 2 \in Int /\ k \div 2 \in Int
    OBVIOUS
  <2> QED BY <2>1 DEF Part, Pairs
<1>2. b - a \in Nat /\ \A k \in 1..(b - a) : Part(a + k) \in Pairs
  BY <1>1
<1> DEFINE s == Span(a, b)
<1>3. s = [k \in 1..(b - a) |-> s[k]] /\ \A k \in 1..(b - a) : s[k] = Part(a + k)
  BY DEF Span
<1> HIDE DEF s
<1>4. s \in Seq(Pairs) /\ Len(s) = b - a
  BY <1>2, <1>3, MakeSeq
<1> QED BY <1>3, <1>4 DEF s

\* Two spans, one after the other.
LEMMA SpanJoin ==
  \A a, b, d \in Nat : a <= b /\ b <= d => Span(a, b) \o Span(b, d) = Span(a, d)
<1> SUFFICES ASSUME NEW a \in Nat, NEW b \in Nat, NEW d \in Nat, a <= b, b <= d
             PROVE  Span(a, b) \o Span(b, d) = Span(a, d)
  OBVIOUS
<1> DEFINE s == Span(a, b)
           t == Span(b, d)
           u == Span(a, d)
<1>1. s \in Seq(Pairs) /\ Len(s) = b - a /\ \A k \in 1..(b - a) : s[k] = Part(a + k)
  BY SpanIs
<1>2. t \in Seq(Pairs) /\ Len(t) = d - b /\ \A k \in 1..(d - b) : t[k] = Part(b + k)
  BY SpanIs
<1>3. u \in Seq(Pairs) /\ Len(u) = d - a /\ \A k \in 1..(d - a) : u[k] = Part(a + k)
  BY SpanIs
<1> HIDE DEF s, t, u
<1>4. /\ s \o t \in Seq(Pairs) /\ Len(s \o t) = Len(s) + Len(t)
      /\ \A i \in 1..Len(s) : (s \o t)[i] = s[i]
      /\ \A i \in 1..Len(t) : (s \o t)[Len(s) + i] = t[i]
  <2>1. s \in Seq(Pairs) /\ t \in Seq(Pairs)
    BY <1>1, <1>2
  <2> QED BY <2>1, ConcatElements
<1>5. Len(s \o t) = Len(u)
  BY <1>1, <1>2, <1>3, <1>4
<1>6. ASSUME NEW k \in 1..Len(s \o t) PROVE (s \o t)[k] = u[k]
  <2>0. k \in 1..(d - a) /\ k \in Int
    BY <1>3, <1>5
  <2>1. CASE k <= b - a
    <3>1. k \in 1..(b - a)
      BY <2>0, <2>1
    <3> QED BY <1>1, <1>3, <1>4, <2>0, <3>1
  <2>2. CASE k > b - a
    <3> DEFINE j == k - (b - a)
    <3>1. j \in 1..(d - b) /\ k = (b - a) + j /\ b + j = a + k
      BY <2>0, <2>2
    <3> HIDE DEF j
    <3>2. (s \o t)[k] = t[j]
      BY <1>1, <1>2, <1>4, <3>1
    <3> QED BY <1>2, <1>3, <2>0, <3>1, <3>2
  <2> QED BY <2>0, <2>1, <2>2
<1>7. s \o t = u
  BY <1>3, <1>4, <1>5, <1>6, SeqEqual
<1> QED BY <1>7 DEF s, t, u

\* Small spans: nothing, one part, a message.
LEMMA SpanSmall ==
  /\ \A a \in Nat : Span(a, a) = <<>>
  /\ \A m \in Nat : /\ Span(2 * m, 2 * m + 1) = <<<<m + 1, 1>>>>
                    /\ Span(2 * m + 1, 2 * m + 2) = <<<<m + 1, 2>>>>
                    /\ Span(2 * m, 2 * m + 2) = Whole(m + 1)
<1>1. ASSUME NEW a \in Nat PROVE Span(a, a) = <<>>
  <2>1. Span(a, a) \in Seq(Pairs) /\ Len(Span(a, a)) = 0
    BY SpanIs
  <2> QED BY <2>1
<1>2. ASSUME NEW a \in Nat PROVE Span(a, a + 1) = <<Part(a + 1)>>
  <2> DEFINE s == Span(a, a + 1)
             x == Part(a + 1)
             t == <<x>>
  <2>1. s \in Seq(Pairs) /\ Len(s) = 1 /\ s[1] = x
    <3>1. a + 1 \in Nat /\ a <= a + 1 /\ (a + 1) - a = 1 /\ 1 \in 1..1
      OBVIOUS
    <3>2. /\ s \in Seq(Pairs) /\ Len(s) = (a + 1) - a
          /\ \A k \in 1..((a + 1) - a) : s[k] = Part(a + k)
      BY <3>1, SpanIs
    <3> QED BY <3>1, <3>2
  <2> HIDE DEF s, x
  <2>2. x \in Pairs
    BY <2>1
  <2>3. t \in Seq(Pairs) /\ Len(t) = 1 /\ t[1] = x
    BY <2>2
  <2> HIDE DEF t
  <2>4. \A i \in 1..Len(s) : i = 1
    BY <2>1
  <2>5. s = t
    BY <2>1, <2>3, <2>4, SeqEqual
  <2> QED BY <2>5 DEF s, t, x
<1>3. ASSUME NEW m \in Nat
      PROVE  /\ Span(2 * m, 2 * m + 1) = <<<<m + 1, 1>>>>
             /\ Span(2 * m + 1, 2 * m + 2) = <<<<m + 1, 2>>>>
             /\ Span(2 * m, 2 * m + 2) = Whole(m + 1)
  <2>1. Span(2 * m, 2 * m + 1) = <<<<m + 1, 1>>>>
    BY <1>2, PartOf
  <2>2. Span(2 * m + 1, 2 * m + 2) = <<<<m + 1, 2>>>>
    <3>1. 2 * m + 1 \in Nat /\ (2 * m + 1) + 1 = 2 * m + 2
      OBVIOUS
    <3>2. Span(2 * m + 1, (2 * m + 1) + 1) = <<Part((2 * m + 1) + 1)>>
      BY <1>2, <3>1
    <3> QED BY <3>1, <3>2, PartOf
  <2>3. Span(2 * m, 2 * m + 1) \o Span(2 * m + 1, 2 * m + 2) = Span(2 * m, 2 * m + 2)
    <3>1. /\ 2 * m \in Nat /\ 2 * m + 1 \in Nat /\ 2 * m + 2 \in Nat
          /\ 2 * m <= 2 * m + 1 /\ 2 * m + 1 <= 2 * m + 2
      OBVIOUS
    <3> QED BY <3>1, SpanJoin
  <2> QED BY <2>1, <2>2, <2>3, TwoParts
<1> QED BY <1>1, <1>3

\* A sequence of spans, flattened, is one span.
LEMMA FlattenSpans ==
  ASSUME NEW n \in Nat, NEW s, Len(s) = n, NEW c \in [0..n -> Nat],
         \A i \in 1..n : c[i - 1] <= c[i] /\ s[i] = Span(c[i - 1], c[i])
  PROVE  Flatten(s) = Span(c[0], c[n])
<1> DEFINE f == [i \in 0..n |-> Span(c[0], c[i])]
           g == CHOOSE g : g = [i \in 0..n |-> IF i = 0 THEN <<>> ELSE g[i - 1] \o s[i]]
<1>1. \A i \in 0..n : c[i] \in Nat /\ c[0] <= c[i]
  <2> DEFINE T == {i \in 0..n : c[0] <= c[i]}
  <2>1. 0 \in T
    OBVIOUS
  <2>2. \A i \in 0..(n - 1) : i \in T => i + 1 \in T
    <3> SUFFICES ASSUME NEW i \in 0..(n - 1), i \in T PROVE i + 1 \in T
      OBVIOUS
    <3>1. i + 1 \in 1..n /\ (i + 1) - 1 = i /\ i + 1 \in 0..n /\ i \in 0..n
      OBVIOUS
    <3>2. c[0] \in Nat /\ c[i] \in Nat /\ c[i + 1] \in Nat /\ c[i] <= c[i + 1] /\ c[0] <= c[i]
      BY <3>1
    <3> QED BY <3>1, <3>2
  <2>3. 0..n \subseteq T
    <3> HIDE DEF T
    <3> QED BY <2>1, <2>2, SetInduction
  <2> QED BY <2>3
<1>2. f[0] = <<>> /\ \A i \in 1..n : f[i] = f[i - 1] \o s[i]
  <2>1. f[0] = <<>>
    BY <1>1, SpanSmall
  <2>2. ASSUME NEW i \in 1..n PROVE f[i] = f[i - 1] \o s[i]
    <3>1. i \in 0..n /\ i - 1 \in 0..n /\ 0 \in 0..n
      OBVIOUS
    <3>2. f[i] = Span(c[0], c[i]) /\ f[i - 1] = Span(c[0], c[i - 1])
      BY <3>1
    <3>3. c[0] \in Nat /\ c[i - 1] \in Nat /\ c[i] \in Nat /\ c[0] <= c[i - 1] /\ c[i - 1] <= c[i]
          /\ s[i] = Span(c[i - 1], c[i])
      BY <1>1, <3>1
    <3>4. Span(c[0], c[i - 1]) \o Span(c[i - 1], c[i]) = Span(c[0], c[i])
      BY <3>3, SpanJoin
    <3> HIDE DEF f
    <3> QED BY <3>2, <3>3, <3>4
  <2> QED BY <2>1, <2>2
<1>3. f = [i \in 0..n |-> IF i = 0 THEN <<>> ELSE f[i - 1] \o s[i]]
  <2>1. f = [i \in 0..n |-> f[i]]
    OBVIOUS
  <2>2. ASSUME NEW i \in 0..n PROVE f[i] = IF i = 0 THEN <<>> ELSE f[i - 1] \o s[i]
    <3>1. i = 0 \/ i \in 1..n
      OBVIOUS
    <3> HIDE DEF f
    <3> QED BY <1>2, <3>1
  <2> HIDE DEF f
  <2> QED BY <2>1, <2>2
<1>4. g = [i \in 0..n |-> IF i = 0 THEN <<>> ELSE g[i - 1] \o s[i]]
  <2> HIDE DEF f
  <2> QED BY <1>3
<1> HIDE DEF g
<1>5. \A i \in 0..n : g[i] = f[i]
  <2> DEFINE T == {i \in 0..n : g[i] = f[i]}
  <2> HIDE DEF f
  <2>1. 0 \in T
    BY <1>2, <1>4
  <2>2. \A i \in 0..(n - 1) : i \in T => i + 1 \in T
    <3> SUFFICES ASSUME NEW i \in 0..(n - 1), i \in T PROVE i + 1 \in T
      OBVIOUS
    <3>1. i + 1 \in 1..n /\ (i + 1) - 1 = i /\ i + 1 \in 0..n /\ i + 1 # 0
      OBVIOUS
    <3>2. g[i + 1] = g[i] \o s[i + 1]
      BY <1>4, <3>1
    <3>3. f[i + 1] = f[i] \o s[i + 1]
      BY <1>2, <3>1
    <3> QED BY <3>1, <3>2, <3>3
  <2>3. 0..n \subseteq T
    <3> HIDE DEF T
    <3> QED BY <2>1, <2>2, SetInduction
  <2> QED BY <2>3
<1>6. Flatten(s) = g[n]
  BY DEF Flatten, g
<1>7. f[n] = Span(c[0], c[n]) /\ n \in 0..n
  OBVIOUS
<1> HIDE DEF f
<1> QED BY <1>5, <1>6, <1>7

\* The payload of a frame is the span it takes.
LEMMA PayloadIsSpan ==
  ASSUME NEW p, NEW f, NEW a \in Nat, NEW b \in Nat, NEW written, NEW limit,
         Takes(p, f, a, b, written, limit)
  PROVE  a <= b /\ f.payload = Span(a, b)
<1>1. CASE f \in {Malformed, Ping, Pong, Close} /\ a = b
  BY <1>1, FrameFields, SpanSmall
<1>2. ASSUME NEW m \in 0..MaxMsgs,
             \/ f = Stray /\ a = 2 * m /\ b = a
             \/ f = Message(m + 1) /\ a = 2 * m /\ b = a + 2
             \/ f = FirstPart(m + 1) /\ a = 2 * m /\ b = a + 1
             \/ f = LastPart(m + 1) /\ a = 2 * m + 1 /\ b = a + 1
      PROVE  a <= b /\ f.payload = Span(a, b)
  <2>0. m \in Nat /\ (2 * m + 1) + 1 = 2 * m + 2
    OBVIOUS
  <2>1. CASE f = Stray /\ a = 2 * m /\ b = a
    BY <2>1, FrameFields, SpanSmall
  <2>2. CASE f = Message(m + 1) /\ a = 2 * m /\ b = a + 2
    BY <2>0, <2>2, FrameFields, SpanSmall
  <2>3. CASE f = FirstPart(m + 1) /\ a = 2 * m /\ b = a + 1
    BY <2>0, <2>3, FrameFields, SpanSmall
  <2>4. CASE f = LastPart(m + 1) /\ a = 2 * m + 1 /\ b = a + 1
    <3>1. b = 2 * m + 2 /\ f.payload = <<<<m + 1, 2>>>>
      BY <2>0, <2>4, FrameFields
    <3>2. Span(2 * m + 1, 2 * m + 2) = <<<<m + 1, 2>>>>
      BY <2>0, SpanSmall
    <3> QED BY <2>0, <2>4, <3>1, <3>2
  <2> QED BY <1>2, <2>1, <2>2, <2>3, <2>4
<1> QED BY <1>1, <1>2 DEF Takes

\* What a sequence of frames carries from a to b is that span.
LEMMA PayloadsAreSpan ==
  \A p, written, limit, S : \A s \in Seq(S) : \A a, b \in Nat :
    Carries(p, s, a, b, written, limit) => Payloads(s) = Span(a, b) /\ a <= b
<1> SUFFICES ASSUME NEW p, NEW written, NEW limit, NEW S, NEW s \in Seq(S),
                    NEW a \in Nat, NEW b \in Nat, Carries(p, s, a, b, written, limit)
             PROVE  Payloads(s) = Span(a, b) /\ a <= b
  OBVIOUS
<1> DEFINE n == Len(s)
           t == [i \in 1..n |-> s[i].payload]
<1>1. n \in Nat
  OBVIOUS
<1>2. PICK c \in [0..n -> Nat] : IsCount(c, p, s, a, b, written, limit)
  BY DEF Carries
<1>3. c[0] = a /\ c[n] = b
  BY <1>2 DEF IsCount
<1>4. Len(t) = n /\ \A i \in 1..n : t[i] = s[i].payload
  <2> HIDE DEF n
  <2> QED BY <1>1
<1>5. ASSUME NEW i \in 1..n PROVE c[i - 1] <= c[i] /\ t[i] = Span(c[i - 1], c[i])
  <2>1. i \in 0..n /\ i - 1 \in 0..n
    BY <1>1
  <2>2. Takes(p, s[i], c[i - 1], c[i], written, limit) /\ c[i - 1] \in Nat /\ c[i] \in Nat
    BY <1>2, <2>1 DEF IsCount
  <2>3. c[i - 1] <= c[i] /\ s[i].payload = Span(c[i - 1], c[i])
    BY <2>2, PayloadIsSpan
  <2> QED BY <1>4, <2>3
<1>6. Flatten(t) = Span(c[0], c[n])
  <2> HIDE DEF t, n
  <2> QED BY <1>1, <1>4, <1>5, FlattenSpans
<1>7. a <= b
  <2> DEFINE T == {i \in 0..n : c[0] <= c[i]}
  <2> HIDE DEF n
  <2>1. 0 \in T
    BY <1>1
  <2>2. \A i \in 0..(n - 1) : i \in T => i + 1 \in T
    <3> SUFFICES ASSUME NEW i \in 0..(n - 1), i \in T PROVE i + 1 \in T
      OBVIOUS
    <3>1. i + 1 \in 1..n /\ (i + 1) - 1 = i /\ i + 1 \in 0..n /\ i \in 0..n /\ 0 \in 0..n
      BY <1>1
    <3>2. c[0] \in Nat /\ c[i] \in Nat /\ c[i + 1] \in Nat /\ c[i] <= c[i + 1] /\ c[0] <= c[i]
      BY <1>5, <3>1
    <3> QED BY <3>1, <3>2
  <2>3. 0..n \subseteq T
    <3> HIDE DEF T
    <3> QED BY <1>1, <2>1, <2>2, SetInduction
  <2> QED BY <1>1, <1>3, <2>3
<1> QED BY <1>3, <1>6, <1>7 DEF Payloads

\* Messages 1..n, flattened.
LEMMA MessagesAreSpan ==
  \A n \in Nat : Flatten([m \in 1..n |-> Whole(m)]) = Span(0, 2 * n)
<1> SUFFICES ASSUME NEW n \in Nat PROVE Flatten([m \in 1..n |-> Whole(m)]) = Span(0, 2 * n)
  OBVIOUS
<1> DEFINE s == [m \in 1..n |-> Whole(m)]
           c == [i \in 0..n |-> 2 * i]
<1>1. Len(s) = n /\ \A i \in 1..n : s[i] = Whole(i)
  OBVIOUS
<1>2. c \in [0..n -> Nat] /\ c[0] = 0 /\ c[n] = 2 * n /\ \A i \in 0..n : c[i] = 2 * i
  OBVIOUS
<1> HIDE DEF s, c
<1>3. ASSUME NEW i \in 1..n PROVE c[i - 1] <= c[i] /\ s[i] = Span(c[i - 1], c[i])
  <2> DEFINE m == i - 1
  <2>1. m \in Nat /\ m + 1 = i /\ 2 * i = 2 * m + 2 /\ i \in 0..n /\ m \in 0..n
    OBVIOUS
  <2>2. c[i - 1] = 2 * m /\ c[i] = 2 * m + 2
    BY <1>2, <2>1
  <2> HIDE DEF m
  <2>3. s[i] = Whole(m + 1)
    BY <1>1, <2>1
  <2>4. Span(2 * m, 2 * m + 2) = Whole(m + 1)
    BY <2>1, SpanSmall
  <2> QED BY <2>1, <2>2, <2>3, <2>4
<1>4. Flatten(s) = Span(c[0], c[n])
  BY <1>1, <1>2, <1>3, FlattenSpans
<1> QED BY <1>2, <1>4 DEF s

\* What an end has begun to send.
LEMMA SentIsSpan ==
  ASSUME MessageInv, NEW e \in Ends
  PROVE  SentParts(e) = Span(0, Top(e)) /\ Top(e) \in Nat
<1>1. sent[e] \in Nat /\ half[e] \in BOOLEAN /\ (half[e] => sent[e] > 0)
  <2>1. TypeOK /\ CallAt(e) /\ MaxMsgs \in Nat
    BY Before, WebSocketAssumption
  <2>2. sent[e] \in 0..MaxMsgs /\ half[e] \in BOOLEAN
    BY <2>1 DEF TypeOK
  <2> QED BY <2>1, <2>2 DEF CallAt
<1> DEFINE n == sent[e]
           all == Flatten([m \in 1..n |-> Whole(m)])
<1>2. all = Span(0, 2 * n)
  BY <1>1, MessagesAreSpan
<1>3. CASE ~half[e]
  <2>1. Top(e) = 2 * n
    BY <1>1, <1>3 DEF Top
  <2> QED BY <1>1, <1>2, <1>3, <2>1 DEF SentParts
<1>4. CASE half[e]
  <2> DEFINE k == 2 * n - 1
             u == Span(0, k)
             v == SubSeq(all, 1, k)
  <2>1. k \in Nat /\ k <= 2 * n /\ 2 * n \in Nat /\ Top(e) = k
    BY <1>1, <1>4 DEF Top
  <2> HIDE DEF n, all
  <2>2. /\ all \in Seq(Pairs) /\ Len(all) = 2 * n
        /\ \A i \in 1..(2 * n - 0) : all[i] = Part(0 + i)
    <3>1. 0 \in Nat /\ 2 * n \in Nat /\ 0 <= 2 * n /\ 2 * n - 0 = 2 * n
      BY <2>1
    <3>2. /\ Span(0, 2 * n) \in Seq(Pairs) /\ Len(Span(0, 2 * n)) = 2 * n - 0
          /\ \A i \in 1..(2 * n - 0) : Span(0, 2 * n)[i] = Part(0 + i)
      BY <3>1, SpanIs
    <3> QED BY <1>2, <3>1, <3>2
  <2>3. k \in 0..Len(all) /\ k = Len(all) - 1
    BY <2>1, <2>2
  <2> HIDE DEF k
  <2>4. v \in Seq(Pairs) /\ Len(v) = k /\ \A i \in 1..k : v[i] = all[i]
    BY <2>2, <2>3, CutSeq
  <2>5. u \in Seq(Pairs) /\ Len(u) = k - 0 /\ \A i \in 1..(k - 0) : u[i] = Part(0 + i)
    <3>1. 0 \in Nat /\ 0 <= k
      BY <2>1
    <3> QED BY <2>1, <3>1, SpanIs
  <2> HIDE DEF u, v
  <2>6. \A i \in 1..Len(v) : v[i] = u[i]
    <3> SUFFICES ASSUME NEW i \in 1..Len(v) PROVE v[i] = u[i]
      OBVIOUS
    <3>1. i \in 1..k /\ i \in 1..(k - 0) /\ i \in 1..(2 * n - 0)
      BY <2>1, <2>4
    <3> QED BY <2>2, <2>4, <2>5, <3>1
  <2>7. v = u
    BY <2>1, <2>4, <2>5, <2>6, SeqEqual
  <2>8. SentParts(e) = SubSeq(all, 1, Len(all) - 1)
    BY <1>4 DEF SentParts, all, n
  <2> QED BY <2>1, <2>3, <2>7, <2>8 DEF u, v
<1> QED BY <1>1, <1>3, <1>4

\* Nobody listens to a peer that fragments in a way that loses a fragment.
AllAttentive == \A e \in Ends : Attentive(e)

\* If an end listens to a peer that fragments, it asks for no Pong and drops no
\* call (the run websocket_fragments shows what happens to one that does):
\* then nothing is lost, repeated or reordered between the two applications
\* while the connection lasts, whatever reads cut, whoever closes and
\* whatever recv rejects.
THEOREM NothingLost == AllAttentive => (Spec => []MessagesConserved)
<1> SUFFICES ASSUME AllAttentive PROVE Spec => []MessagesConserved
  OBVIOUS
<1>1. MessageInv => MessagesConserved
  <2> SUFFICES ASSUME MessageInv, NEW e \in Ends, ended[e] = "no", ~dropped[e]
               PROVE  Flatten(received[e]) \o assembled[e] \o Payloads(frame_buf[e])
                        \o Payloads(wire[e]) = SentParts(Peer(e))
    BY DEF MessagesConserved
  <2> DEFINE p == Peer(e)
             r == Len(received[e])
             A == Flatten(received[e])
             B == assembled[e]
             C == Payloads(frame_buf[e])
             D == Payloads(wire[e])
  <2>0. TypeOK /\ p \in Ends /\ AssemblyAt(e) /\ StreamAt(e) /\ Attentive(e)
    BY Before DEF AllAttentive
  <2>1. /\ frame_buf[e] \in Seq(Frames) /\ wire[e] \in Seq(Frames) /\ r \in Nat
        /\ message_opcode[e] \in BOOLEAN
    BY <2>0 DEF TypeOK
  <2>2. PICK a \in Nat, d \in Nat :
          /\ PlaceAt(e, a)
          /\ Carries(p, frame_buf[e], a, d, closes[p], sentAtClose[p])
          /\ Carries(p, wire[e], d, Top(p), closes[p], sentAtClose[p])
    BY <2>0 DEF StreamAt
  <2>3. a = 2 * r + (IF message_opcode[e] THEN 1 ELSE 0)
    BY <2>0, <2>2 DEF PlaceAt
  <2>4. SentParts(p) = Span(0, Top(p)) /\ Top(p) \in Nat
    <3> HIDE DEF p
    <3> QED BY <2>0, SentIsSpan
  <2>5. A = Span(0, 2 * r)
    <3>1. received[e] = [i \in 1..r |-> Whole(i)]
      BY <2>0 DEF AssemblyAt
    <3>2. Flatten([i \in 1..r |-> Whole(i)]) = Span(0, 2 * r)
      <4> HIDE DEF r
      <4> QED BY <2>1, MessagesAreSpan
    <3> HIDE DEF r
    <3> QED BY <3>1, <3>2
  <2>6. B = Span(2 * r, a) /\ 2 * r <= a
    <3>1. B = IF message_opcode[e] THEN <<<<r + 1, 1>>>> ELSE <<>>
      BY <2>0 DEF AssemblyAt
    <3> HIDE DEF r, B
    <3>2. CASE message_opcode[e]
      <4>1. a = 2 * r + 1 /\ B = <<<<r + 1, 1>>>>
        BY <2>3, <3>1, <3>2
      <4> QED BY <2>1, <4>1, SpanSmall
    <3>3. CASE ~message_opcode[e]
      <4>1. a = 2 * r /\ B = <<>>
        BY <2>1, <2>3, <3>1, <3>3
      <4> QED BY <2>1, <4>1, SpanSmall
    <3> QED BY <3>2, <3>3
  <2>7. C = Span(a, d) /\ a <= d /\ D = Span(d, Top(p)) /\ d <= Top(p)
    <3> HIDE DEF p
    <3> QED BY <2>1, <2>2, <2>4, PayloadsAreSpan
  <2> HIDE DEF p, r, A, B, C, D
  <2>8. 2 * r \in Nat /\ 0 <= 2 * r
    BY <2>1
  <2>9. A \o B = Span(0, a)
    BY <2>5, <2>6, <2>8, SpanJoin
  <2>10. (A \o B) \o C = Span(0, d)
    <3>1. 0 \in Nat /\ 0 <= a
      OBVIOUS
    <3>2. Span(0, a) \o Span(a, d) = Span(0, d)
      BY <2>7, <3>1, SpanJoin
    <3> QED BY <2>7, <2>9, <3>2
  <2>11. ((A \o B) \o C) \o D = Span(0, Top(p))
    <3>1. 0 \in Nat /\ 0 <= d
      OBVIOUS
    <3>2. Span(0, d) \o Span(d, Top(p)) = Span(0, Top(p))
      BY <2>4, <2>7, <3>1, SpanJoin
    <3> QED BY <2>7, <2>10, <3>2
  <2> QED BY <2>4, <2>11 DEF p, A, B, C, D
<1> QED BY <1>1, MessageInit, MessageInductive, PTL DEF Spec
=============================================================================
