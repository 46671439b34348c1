------------------------------ MODULE WebSocket -----------------------------
(***************************************************************************)
(* Two WebSocketStreams (tpt-net-ws/src/stream.rs) joined by a transport   *)
(* that is reliable and ordered in both directions: send, recv with its    *)
(* automatic Pong, message assembly and closing handshake, close, and the  *)
(* keepalive.  `&mut self` allows one call per end at a time; a call can   *)
(* be cancelled: its future is dropped while it is pending.                *)
(*                                                                         *)
(* The transport carries whole frames, Room of them in a direction, and a  *)
(* write waits for room without a timeout.  A call is cancelled only where *)
(* it awaits a read.  Masking, compression and the 16 MiB limit are left   *)
(* out: what frame::decode rejects is one Malformed frame.  An end in      *)
(* Fragmenting or Faulty stands for some other implementation.             *)
(***************************************************************************)
EXTENDS Integers, Sequences

CONSTANTS Client, Server,
          Talkers,      \* ends that send data messages
          Fragmenting,  \* ends that may send a message in two frames
          Faulty,       \* ends that may send frames recv rejects
          Pinging,      \* ends whose application sends Pings
          KeepAlive,    \* ends with a keepalive policy
          Cancelling,   \* ends whose application drops pending calls
          Silent,       \* ends whose application may stop calling
          Room,         \* frames the transport holds in a direction
          MaxMsgs,      \* bound on the data messages of an end
          MaxExtra      \* bound on the Pings, bad frames and cancelled calls of an end

Ends == {Client, Server}
Peer(e) == IF e = Client THEN Server ELSE Client

ASSUME WebSocketAssumption ==
  /\ Client # Server
  /\ Talkers \cup Fragmenting \cup Faulty \cup Pinging \cup KeepAlive \cup Cancelling
       \cup Silent \subseteq Ends
  /\ Room \in Nat \ {0}
  /\ MaxMsgs \in Nat /\ MaxExtra \in Nat

VARIABLES
  wire,              \* frames on their way to an end
  frame_buf,         \* frames read but not yet decoded
  close_sent, close_received, ping_outstanding,
  op,                \* the call in progress
  writing,           \* the frame that call is writing
  after,             \* what the call does when the write is done
  message_opcode,    \* a fragmented message is being assembled
  assembled,         \* its payload so far
  dropped,           \* the end has dropped its transport
  sent,              \* history: data messages an end has begun to send
  extra,             \* Pings and bad frames sent, calls cancelled
  half,              \* a Fragmenting end is between its two frames
  received,          \* history: payloads handed out, or drained by close
  ended,             \* history: "closed" or the first error; "no" before
  closes,            \* history: Close frames an end has written
  sentAtClose        \* history: messages sent before the first of them

link == <<wire, dropped>>
flags == <<close_sent, close_received, ping_outstanding>>
call == <<op, writing, after, message_opcode, assembled>>
history == <<sent, extra, half, received, ended, closes, sentAtClose>>
vars == <<link, frame_buf, flags, call, history>>

Frame(kind, fin, payload) == [kind |-> kind, fin |-> fin, payload |-> payload]
NoFrame == Frame("none", TRUE, <<>>)
Ping    == Frame("ping", TRUE, <<>>)
Pong    == Frame("pong", TRUE, <<>>)
Close   == Frame("close", TRUE, <<>>)
Malformed == Frame("bad", TRUE, <<>>)
Stray     == Frame("cont", TRUE, <<>>)

\* Message m has a payload of two parts.
Whole(m)  == <<<<m, 1>>, <<m, 2>>>>
Message(m) == Frame("data", TRUE, Whole(m))
FirstPart(m) == Frame("data", FALSE, <<<<m, 1>>>>)
LastPart(m)  == Frame("cont", TRUE, <<<<m, 2>>>>)

-----------------------------------------------------------------------------
Init ==
  /\ wire = [e \in Ends |-> <<>>]
  /\ frame_buf = [e \in Ends |-> <<>>]
  /\ close_sent = [e \in Ends |-> FALSE]
  /\ close_received = [e \in Ends |-> FALSE]
  /\ ping_outstanding = [e \in Ends |-> FALSE]
  /\ op = [e \in Ends |-> "idle"]
  /\ writing = [e \in Ends |-> NoFrame]
  /\ after = [e \in Ends |-> "none"]
  /\ message_opcode = [e \in Ends |-> FALSE]
  /\ assembled = [e \in Ends |-> <<>>]
  /\ dropped = [e \in Ends |-> FALSE]
  /\ sent = [e \in Ends |-> 0]
  /\ extra = [e \in Ends |-> 0]
  /\ half = [e \in Ends |-> FALSE]
  /\ received = [e \in Ends |-> <<>>]
  /\ ended = [e \in Ends |-> "no"]
  /\ closes = [e \in Ends |-> 0]
  /\ sentAtClose = [e \in Ends |-> 0]

\* send: encode the frame and await its write; the flag of a Close is set
\* before the write.
Send(e, f, next) ==
  /\ writing' = [writing EXCEPT ![e] = f]
  /\ after' = [after EXCEPT ![e] = next]
  /\ close_sent' = [close_sent EXCEPT ![e] = @ \/ f = Close]

WriteDone(e) ==
  /\ writing' = [writing EXCEPT ![e] = NoFrame]
  /\ after' = [after EXCEPT ![e] = "none"]

\* recv_message starts with nothing assembled.
FreshMessage(e) ==
  /\ message_opcode' = [message_opcode EXCEPT ![e] = FALSE]
  /\ assembled' = [assembled EXCEPT ![e] = <<>>]

\* recv_message returns r.  recv hands it to the application; close goes on
\* until it is "closed" or an error.
Result(e, r) ==
  /\ FreshMessage(e)
  /\ \/ /\ r \in {"message", "pong"}
        /\ op' = [op EXCEPT ![e] = IF @ = "close" THEN @ ELSE "idle"]
        /\ UNCHANGED ended
     \/ /\ r \notin {"message", "pong"}
        /\ op' = [op EXCEPT ![e] = "idle"]
        /\ ended' = [ended EXCEPT ![e] = IF @ = "no" THEN r ELSE @]

\* An application makes calls until one of them ends the connection.
Idle(e)      == op[e] = "idle" /\ ~dropped[e] /\ ended[e] = "no"
InRecv(e)    == op[e] \in {"recv", "close"} /\ writing[e] = NoFrame
Expecting(e) == InRecv(e) /\ frame_buf[e] = <<>>

-----------------------------------------------------------------------------
\* The application calls send with a data message or a Ping.
SendMessage(e) ==
  /\ Idle(e) /\ e \in Talkers /\ ~half[e] /\ sent[e] < MaxMsgs
  /\ Send(e, Message(sent[e] + 1), "return")
  /\ op' = [op EXCEPT ![e] = "send"]
  /\ UNCHANGED <<link, frame_buf, close_received, ping_outstanding, message_opcode,
                 assembled, history>>

SendPing(e) ==
  /\ Idle(e) /\ e \in Pinging /\ extra[e] < MaxExtra
  /\ extra' = [extra EXCEPT ![e] = @ + 1]
  /\ Send(e, Ping, "return")
  /\ op' = [op EXCEPT ![e] = "send"]
  /\ UNCHANGED <<link, frame_buf, close_received, ping_outstanding, message_opcode,
                 assembled, sent, half, received, ended, closes, sentAtClose>>

\* An application that sends its Close itself does so once.
SendClose(e) ==
  /\ Idle(e) /\ ~close_sent[e]
  /\ Send(e, Close, "return")
  /\ op' = [op EXCEPT ![e] = "send"]
  /\ UNCHANGED <<link, frame_buf, close_received, ping_outstanding, message_opcode,
                 assembled, history>>

Recv(e) ==
  /\ Idle(e)
  /\ op' = [op EXCEPT ![e] = "recv"]
  /\ FreshMessage(e)
  /\ UNCHANGED <<link, frame_buf, flags, writing, after, history>>

\* close: send a Close unless one was sent, then drain.
CloseCall(e) ==
  /\ Idle(e)
  /\ op' = [op EXCEPT ![e] = "close"]
  /\ FreshMessage(e)
  /\ \/ close_sent[e] /\ UNCHANGED <<close_sent, writing, after>>
     \/ ~close_sent[e] /\ Send(e, Close, "decode")
  /\ UNCHANGED <<link, frame_buf, close_received, ping_outstanding, history>>

\* The transport takes a frame of e: the peer has read enough of the earlier
\* ones, or is gone.
HasRoom(e) == dropped[Peer(e)] \/ Len(wire[Peer(e)]) < Room

\* write_all and flush of the pending frame finish and the call goes on.
Write(e) ==
  LET f == writing[e]
  IN  /\ f # NoFrame /\ HasRoom(e)
      /\ wire' = [wire EXCEPT ![Peer(e)] = IF dropped[Peer(e)] THEN @ ELSE Append(@, f)]
      /\ WriteDone(e)
      /\ sent' = [sent EXCEPT ![e] = IF f.kind = "data" THEN @ + 1 ELSE @]
      /\ closes' = [closes EXCEPT ![e] = IF f = Close THEN @ + 1 ELSE @]
      /\ sentAtClose' = [sentAtClose EXCEPT
                           ![e] = IF f = Close /\ closes[e] = 0
                                  THEN sent[e] - (IF half[e] THEN 1 ELSE 0) ELSE @]
      /\ \/ /\ after[e] = "return"
            /\ op' = [op EXCEPT ![e] = "idle"]
            /\ UNCHANGED <<close_received, ping_outstanding, message_opcode, assembled, ended>>
         \/ /\ after[e] = "decode"
            /\ UNCHANGED <<close_received, ping_outstanding, op, message_opcode, assembled, ended>>
         \/ /\ after[e] = "ping"
            /\ ping_outstanding' = [ping_outstanding EXCEPT ![e] = TRUE]
            /\ UNCHANGED <<close_received, op, message_opcode, assembled, ended>>
         \/ /\ after[e] = "echoed"
            /\ close_received' = [close_received EXCEPT ![e] = TRUE]
            /\ Result(e, "closed")
            /\ UNCHANGED ping_outstanding
         \/ /\ after[e] = "protocol"
            /\ Result(e, "protocol")
            /\ UNCHANGED <<close_received, ping_outstanding>>
      /\ UNCHANGED <<dropped, frame_buf, close_sent, extra, half, received>>

\* The write fails because the peer's end is gone.  Only the Close that
\* answers a protocol violation is best effort.
WriteFails(e) ==
  /\ writing[e] # NoFrame /\ dropped[Peer(e)]
  /\ WriteDone(e)
  /\ Result(e, IF after[e] = "protocol" THEN "protocol" ELSE "lost")
  /\ UNCHANGED <<link, frame_buf, flags, sent, extra, half, received, closes, sentAtClose>>

-----------------------------------------------------------------------------
\* recv answers a protocol violation with a Close, if none was sent.
Violation(e) ==
  /\ UNCHANGED <<close_received, received>>
  /\ \/ /\ close_sent[e]
        /\ Result(e, "protocol")
        /\ UNCHANGED <<writing, after, close_sent>>
     \/ /\ ~close_sent[e]
        /\ Send(e, Close, "protocol")
        /\ UNCHANGED <<op, ended, message_opcode, assembled>>

DecodePing(e) ==
  /\ Send(e, Pong, "decode")
  /\ UNCHANGED <<close_received, op, message_opcode, assembled, received, ended>>

DecodePong(e) ==
  /\ Result(e, "pong")
  /\ UNCHANGED <<close_sent, close_received, writing, after, received>>

\* Mutant: every Close is echoed, an echo included.
DecodeCloseAlwaysEchoes(e) ==
  /\ Send(e, Close, "echoed")
  /\ UNCHANGED <<close_received, op, ended, message_opcode, assembled, received>>

\* The peer's Close is echoed unless ours is already out.
DecodeClose(e) ==
  /\ \/ /\ close_sent[e]
        /\ close_received' = [close_received EXCEPT ![e] = TRUE]
        /\ Result(e, "closed")
        /\ UNCHANGED <<close_sent, writing, after>>
     \/ /\ ~close_sent[e]
        /\ Send(e, Close, "echoed")
        /\ UNCHANGED <<close_received, op, ended, message_opcode, assembled>>
  /\ UNCHANGED received

\* Mutant: FIN is ignored.
DecodeDataEachFrame(e, f) ==
  /\ received' = [received EXCEPT ![e] = Append(@, assembled[e] \o f.payload)]
  /\ Result(e, "message")
  /\ UNCHANGED <<close_sent, close_received, writing, after>>

\* A data frame starts a message, a continuation extends one; the final
\* frame hands the message out.
DecodeData(e, f) ==
  LET payload == assembled[e] \o f.payload
  IN  /\ \/ /\ f.fin
            /\ received' = [received EXCEPT ![e] = Append(@, payload)]
            /\ Result(e, "message")
         \/ /\ ~f.fin
            /\ message_opcode' = [message_opcode EXCEPT ![e] = TRUE]
            /\ assembled' = [assembled EXCEPT ![e] = payload]
            /\ UNCHANGED <<op, ended, received>>
      /\ UNCHANGED <<close_sent, close_received, writing, after>>

\* One frame is decoded, drained from frame_buf and handled; a frame that
\* does not decode stays there.
Decode(e) ==
  /\ InRecv(e) /\ frame_buf[e] # <<>>
  /\ LET f == Head(frame_buf[e])
         Drained == frame_buf' = [frame_buf EXCEPT ![e] = Tail(@)]
         OutOfPlace == (f.kind = "data") = message_opcode[e]
     IN  \/ f.kind = "bad" /\ Violation(e) /\ UNCHANGED frame_buf
         \/ f.kind = "ping" /\ DecodePing(e) /\ Drained
         \/ f.kind = "pong" /\ DecodePong(e) /\ Drained
         \/ f.kind = "close" /\ DecodeClose(e) /\ Drained
         \/ f.kind \in {"data", "cont"} /\ ~OutOfPlace /\ DecodeData(e, f) /\ Drained
         \/ f.kind \in {"data", "cont"} /\ OutOfPlace /\ Violation(e) /\ Drained
  /\ UNCHANGED <<link, ping_outstanding, sent, extra, half, closes, sentAtClose>>

\* Mutant: only the first frame of what was read is kept.
ReadOneFrame(e) ==
  /\ Expecting(e) /\ wire[e] # <<>>
  /\ \E n \in 1..Len(wire[e]) :
       /\ frame_buf' = [frame_buf EXCEPT ![e] = <<Head(wire[e])>>]
       /\ wire' = [wire EXCEPT ![e] = SubSeq(@, n + 1, Len(@))]
  /\ ping_outstanding' = [ping_outstanding EXCEPT ![e] = @ /\ e \notin KeepAlive]
  /\ UNCHANGED <<dropped, close_sent, close_received, call, history>>

\* A read takes some of the frames that have arrived; any bytes at all show
\* that the peer is alive.
Read(e) ==
  /\ Expecting(e) /\ wire[e] # <<>>
  /\ \E n \in 1..Len(wire[e]) :
       /\ frame_buf' = [frame_buf EXCEPT ![e] = SubSeq(wire[e], 1, n)]
       /\ wire' = [wire EXCEPT ![e] = SubSeq(@, n + 1, Len(@))]
  /\ ping_outstanding' = [ping_outstanding EXCEPT ![e] = @ /\ e \notin KeepAlive]
  /\ UNCHANGED <<dropped, close_sent, close_received, call, history>>

\* The read returns 0: the peer has dropped its transport.
ReadEof(e) ==
  /\ Expecting(e) /\ wire[e] = <<>> /\ dropped[Peer(e)]
  /\ Result(e, IF close_received[e] THEN "closed" ELSE "lost")
  /\ ping_outstanding' = [ping_outstanding EXCEPT ![e] = @ /\ e \notin KeepAlive]
  /\ UNCHANGED <<link, frame_buf, close_sent, close_received, writing, after,
                 sent, extra, half, received, closes, sentAtClose>>

\* Mutant: the timeout after the Ping is not armed.
KeepAliveExpiresOnce(e) ==
  /\ Expecting(e) /\ e \in KeepAlive /\ ~ping_outstanding[e]
  /\ Send(e, Ping, "ping")
  /\ UNCHANGED <<link, frame_buf, close_received, ping_outstanding, op, message_opcode,
                 assembled, history>>

\* Nothing arrived in time, what is on its way included: ping the peer, or
\* give up if that was done.
KeepAliveExpires(e) ==
  /\ Expecting(e) /\ e \in KeepAlive
  /\ \/ /\ ping_outstanding[e]
        /\ Result(e, "timedout")
        /\ UNCHANGED <<close_sent, writing, after>>
     \/ /\ ~ping_outstanding[e]
        /\ Send(e, Ping, "ping")
        /\ UNCHANGED <<op, ended, message_opcode, assembled>>
  /\ UNCHANGED <<link, frame_buf, close_received, ping_outstanding,
                 sent, extra, half, received, closes, sentAtClose>>

-----------------------------------------------------------------------------
\* The application drops the future of the call in progress; what the call
\* kept in local variables is gone.
Cancel(e) ==
  /\ e \in Cancelling /\ Expecting(e) /\ extra[e] < MaxExtra
  /\ extra' = [extra EXCEPT ![e] = @ + 1]
  /\ op' = [op EXCEPT ![e] = "idle"]
  /\ FreshMessage(e)
  /\ UNCHANGED <<link, frame_buf, flags, writing, after,
                 sent, half, received, ended, closes, sentAtClose>>

DropTransport(e) ==
  /\ op[e] = "idle" /\ ~dropped[e]
  /\ dropped' = [dropped EXCEPT ![e] = TRUE]
  /\ wire' = [wire EXCEPT ![e] = <<>>]
  /\ frame_buf' = [frame_buf EXCEPT ![e] = <<>>]
  /\ UNCHANGED <<flags, call, history>>

\* Another implementation sends a message in two frames, other frames between.
SendFragment(e) ==
  /\ e \in Fragmenting /\ ~dropped[e] /\ writing[e] = NoFrame /\ ~close_sent[e]
  /\ HasRoom(e)
  /\ half[e] \/ sent[e] < MaxMsgs
  /\ half' = [half EXCEPT ![e] = ~@]
  /\ sent' = [sent EXCEPT ![e] = IF half[e] THEN @ ELSE @ + 1]
  /\ wire' = [wire EXCEPT ![Peer(e)] =
                IF dropped[Peer(e)] THEN @
                ELSE Append(@, IF half[e] THEN LastPart(sent[e]) ELSE FirstPart(sent[e] + 1))]
  /\ UNCHANGED <<dropped, frame_buf, flags, call, extra, received, ended, closes, sentAtClose>>

\* Another implementation sends a frame that recv rejects.
SendBad(e) ==
  /\ e \in Faulty /\ ~dropped[e] /\ writing[e] = NoFrame /\ ~half[e]
  /\ extra[e] < MaxExtra /\ HasRoom(e)
  /\ extra' = [extra EXCEPT ![e] = @ + 1]
  /\ \E f \in {Malformed, Stray} :
       wire' = [wire EXCEPT ![Peer(e)] = IF dropped[Peer(e)] THEN @ ELSE Append(@, f)]
  /\ UNCHANGED <<dropped, frame_buf, flags, call, sent, half, received, ended,
                 closes, sentAtClose>>

-----------------------------------------------------------------------------
Progress(e) == Write(e) \/ WriteFails(e) \/ Decode(e) \/ Read(e) \/ ReadEof(e)

Next ==
  \E e \in Ends :
    \/ Progress(e) \/ KeepAliveExpires(e)
    \/ SendMessage(e) \/ SendPing(e) \/ SendClose(e) \/ Recv(e) \/ CloseCall(e)
    \/ Cancel(e) \/ DropTransport(e)
    \/ SendFragment(e) \/ SendBad(e)

Spec == Init /\ [][Next]_vars

\* The executor and the transport make progress on a call, a write if there
\* is room for it, and timers fire.
\* An application keeps calling recv until that ends the connection, and then
\* drops it, unless it is Silent.
Fairness ==
  /\ \A e \in Ends : WF_vars(Progress(e)) /\ WF_vars(KeepAliveExpires(e))
  /\ \A e \in Ends \ Silent :
       SF_vars(Recv(e)) /\ SF_vars(ended[e] # "no" /\ DropTransport(e))

FairSpec == Spec /\ Fairness

-----------------------------------------------------------------------------
Parts  == (1..MaxMsgs) \X {1, 2}
Frames == {Ping, Pong, Close, Malformed, Stray}
            \cup {Message(m) : m \in 1..MaxMsgs}
            \cup {FirstPart(m) : m \in 1..MaxMsgs}
            \cup {LastPart(m) : m \in 1..MaxMsgs}

\* Types of both ends.  A call that is over has left nothing behind: no frame
\* half written, no message half assembled.
TypeOK ==
  /\ wire \in [Ends -> Seq(Frames)]
  /\ frame_buf \in [Ends -> Seq(Frames)]
  /\ close_sent \in [Ends -> BOOLEAN]
  /\ close_received \in [Ends -> BOOLEAN]
  /\ ping_outstanding \in [Ends -> BOOLEAN]
  /\ op \in [Ends -> {"idle", "send", "recv", "close"}]
  /\ writing \in [Ends -> Frames \cup {NoFrame}]
  /\ after \in [Ends -> {"none", "return", "decode", "ping", "echoed", "protocol"}]
  /\ message_opcode \in [Ends -> BOOLEAN]
  /\ assembled \in [Ends -> Seq(Parts)]
  /\ dropped \in [Ends -> BOOLEAN]
  /\ sent \in [Ends -> 0..MaxMsgs]
  /\ extra \in [Ends -> 0..MaxExtra]
  /\ half \in [Ends -> BOOLEAN]
  /\ received \in [Ends -> Seq(Seq(Parts))]
  /\ ended \in [Ends -> {"no", "closed", "lost", "timedout", "protocol"}]
  /\ closes \in [Ends -> Nat]
  /\ sentAtClose \in [Ends -> 0..MaxMsgs]
  /\ \A e \in Ends :
       op[e] = "idle" => writing[e] = NoFrame /\ ~message_opcode[e] /\ assembled[e] = <<>>

Flatten(s) ==
  LET upto[n \in 0..Len(s)] == IF n = 0 THEN <<>> ELSE upto[n - 1] \o s[n]
  IN  upto[Len(s)]

Payloads(frames) == Flatten([i \in 1..Len(frames) |-> frames[i].payload])

\* What an end has sent so far, part by part.
SentParts(e) ==
  LET all == Flatten([m \in 1..sent[e] |-> Whole(m)])
  IN  IF half[e] THEN SubSeq(all, 1, Len(all) - 1) ELSE all

\* Nothing is lost, repeated or reordered while the connection lasts: what an
\* end has handed out, is assembling, has buffered and has on the wire is, in
\* this order, exactly what its peer has sent.
MessagesConserved ==
  \A e \in Ends :
    ended[e] = "no" /\ ~dropped[e] =>
      Flatten(received[e]) \o assembled[e] \o Payloads(frame_buf[e]) \o Payloads(wire[e])
        = SentParts(Peer(e))

\* recv hands messages out whole and in order, also when the connection
\* breaks: never a fragment, never two glued together, and a call that is over
\* leaves nothing half assembled (TypeOK).  "Ok(None) = the peer closed": an
\* end sees the close only after the peer has written its Close, and by then
\* it has every message sent before it.
MessagesWhole ==
  /\ TypeOK
  /\ \A e \in Ends :
       /\ \A i \in DOMAIN received[e] : received[e][i] = Whole(i)
       /\ ended[e] = "closed" =>
            closes[Peer(e)] > 0 /\ Len(received[e]) >= sentAtClose[Peer(e)]

\* Echo, protocol error, close and repeated calls of it send one Close and no
\* second one: an end that has seen the close has answered it, unless nobody
\* was left to answer.
ClosedWithOneClose ==
  \A e \in Ends :
    /\ closes[e] <= 1
    /\ close_received[e] => closes[e] = 1 \/ dropped[Peer(e)]

\* A write waits for a peer that reads nothing: because its application has
\* stopped calling, or because it waits for room itself.
Blocked(e) == writing[e] # NoFrame /\ ~HasRoom(e)
Undrained(e) ==
  Blocked(e) /\ (Blocked(Peer(e)) \/ (Peer(e) \in Silent /\ op[Peer(e)] = "idle"))

\* A call to close returns, if the peer keeps receiving and drops its end when
\* that is over, or a keepalive notices that it does not; unless, from some
\* time on, the call waits for room that the peer never makes.
CloseReturns ==
  \A e \in Ends : Peer(e) \notin Silent \/ e \in KeepAlive =>
    (op[e] = "close" ~> op[e] # "close" \/ []Undrained(e))

\* With a keepalive every recv returns, even if the peer never calls anything
\* again, but for the same case: the keepalive's timeout is on the read alone,
\* and a Pong, a Close or the keepalive's own Ping is written without one.
RecvReturns ==
  \A e \in KeepAlive : op[e] = "recv" ~> op[e] # "recv" \/ []Undrained(e)

\* No call waits for ever on a peer that is silent or gone, while it can write.
CallsReturn == CloseReturns /\ RecvReturns

\* What the doc of KeepAlive says: "recv fails with TimedOut so a dead peer
\* cannot hold the connection open forever".  The Ping that would find out is
\* written to a transport that a dead peer does not drain.
DeadPeerNoticed == \A e \in KeepAlive : op[e] = "recv" ~> op[e] # "recv"
=============================================================================
