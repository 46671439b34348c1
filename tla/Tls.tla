--------------------------------- MODULE Tls --------------------------------
(***************************************************************************)
(* Two TlsStreams (tpt-net-tls/src/stream.rs) over a bounded, ordered      *)
(* transport: the handshake loop of connect and accept, poll_read,         *)
(* poll_write, poll_flush and poll_shutdown with the ciphertext they share *)
(* in write_buf, timeouts of the handshake, cancelled calls, and either    *)
(* end dropping its stream.                                                *)
(*                                                                         *)
(* A call that the transport makes Pending stays where it is until there   *)
(* is room or data; its next poll repeats checks that cannot have changed. *)
(* The rustls connection is external: `conn` holds what it shows of itself.*)
(* A ciphertext unit is one record; plaintext is numbered.                 *)
(***************************************************************************)
EXTENDS Integers, Sequences

CONSTANTS Client, Server,
          Certs,        \* certificates a server may present
          Pins,         \* those whose digest is pinned
          Trusted,      \* those the fallback verifier accepts
          WriteSizes,   \* lengths of the buffers given to write
          Limit,        \* what rustls buffers at most, 64 KiB in the library
          Capacity,     \* what the transport holds in one direction
          MaxData,      \* bound on the plaintext an end writes
          Cancelling    \* ends that cancel a call, or whose handshake times out

Ends == {Client, Server}
Peer(e) == IF e = Client THEN Server ELSE Client

ASSUME TlsAssumption ==
  /\ Client # Server
  /\ Pins \cup Trusted \subseteq Certs
  /\ WriteSizes \subseteq Nat \ {0}
  /\ Limit \in Nat \ {0} /\ Capacity \in Nat \ {0}
  /\ MaxData \in Nat
  /\ Cancelling \subseteq Ends

VARIABLES
  cert,      \* what the server presents
  conn,      \* rustls: sendable records, decrypted plaintext, progress
  read_buf, write_buf, write_pos,
  wire,      \* records on their way to an end
  closed,    \* the end has shut down its direction of the transport
  dropped,   \* the end has dropped its stream
  op, pc,    \* the call in progress, and where it is
  buf,       \* length of the buffer a write was given
  cancelled, \* the end has cancelled its one call
  written,   \* history: plaintext reported as written
  got,       \* history: plaintext handed out by reads
  ended      \* history: how reading ended: "no", "eof" or "error"

buffers == <<read_buf, write_buf, write_pos>>
link    == <<wire, closed, dropped>>
call    == <<op, pc, buf, cancelled>>
history == <<written, got, ended>>
vars    == <<cert, conn, buffers, link, call, history>>

Record(kind, n) == [kind |-> kind, n |-> n]
Hello    == Record("hello", 0)
Flight   == Record("flight", 0)
Finished == Record("finished", 0)
Ticket   == Record("ticket", 0)
Alert    == Record("alert", 0)
Notify   == Record("close_notify", 0)
Data(n)  == Record("data", n)

-----------------------------------------------------------------------------
\* PinnedCertVerifier: a pinned certificate, or one the fallback accepts.
VerifyServerCert(c) == c \in Pins \/ c \in Trusted

\* rustls handles one record: the handshake's flights, a session ticket,
\* plaintext, the peer's close_notify.
ProcessRecord(c, r) ==
  CASE r.kind = "hello"    -> [c EXCEPT !.out = Append(@, Flight)]
    [] r.kind = "flight"   -> IF VerifyServerCert(cert)
                              THEN [c EXCEPT !.out = Append(@, Finished), !.handshaking = FALSE]
                              ELSE [c EXCEPT !.out = Append(@, Alert), !.failed = TRUE]
    [] r.kind = "finished" -> [c EXCEPT !.out = Append(@, Ticket), !.handshaking = FALSE]
    [] r.kind = "data"     -> [c EXCEPT !.plain = Append(@, r.n)]
    [] r.kind = "close_notify" -> [c EXCEPT !.peer_closed = TRUE]
    [] OTHER -> c

\* A connection after the first k of some records.
Processed(c, records, k) ==
  LET after[i \in 0..Len(records)] ==
        IF i = 0 THEN c ELSE ProcessRecord(after[i - 1], records[i])
  IN  after[k]

\* connect and accept make a connection and run the handshake at once; a
\* client has something to say.
NewConnection(e) ==
  [out |-> IF e = Client THEN <<Hello>> ELSE <<>>, plain |-> <<>>, handshaking |-> TRUE,
   failed |-> FALSE, notified |-> FALSE, peer_closed |-> FALSE]

Init ==
  /\ cert \in Certs
  /\ conn = [e \in Ends |-> NewConnection(e)]
  /\ read_buf = [e \in Ends |-> <<>>]
  /\ write_buf = [e \in Ends |-> <<>>]
  /\ write_pos = [e \in Ends |-> 0]
  /\ wire = [e \in Ends |-> <<>>]
  /\ closed = [e \in Ends |-> FALSE]
  /\ dropped = [e \in Ends |-> FALSE]
  /\ op = [e \in Ends |-> "handshake"]
  /\ pc = [e \in Ends |-> "top"]
  /\ buf = [e \in Ends |-> 0]
  /\ cancelled = [e \in Ends |-> FALSE]
  /\ written = [e \in Ends |-> 0]
  /\ got = [e \in Ends |-> <<>>]
  /\ ended = [e \in Ends |-> "no"]

Goto(e, p) == pc' = [pc EXCEPT ![e] = p] /\ UNCHANGED <<op, buf, cancelled>>

Return(e) ==
  /\ op' = [op EXCEPT ![e] = "idle"]
  /\ pc' = [pc EXCEPT ![e] = "top"]
  /\ buf' = [buf EXCEPT ![e] = 0]
  /\ UNCHANGED cancelled

\* The stream, its buffers and its transport go away.
DropEnd(e) ==
  /\ dropped' = [dropped EXCEPT ![e] = TRUE]
  /\ closed' = [closed EXCEPT ![e] = TRUE]
  /\ wire' = [wire EXCEPT ![e] = <<>>]
  /\ read_buf' = [read_buf EXCEPT ![e] = <<>>]
  /\ write_buf' = [write_buf EXCEPT ![e] = <<>>]
  /\ write_pos' = [write_pos EXCEPT ![e] = 0]

\* The call returns Err.  The connector or acceptor then drops the stream, and
\* so does an application.
Fail(e) ==
  /\ Return(e)
  /\ ended' = [ended EXCEPT ![e] = IF @ = "no" THEN "error" ELSE @]
  /\ DropEnd(e)
  /\ UNCHANGED <<cert, conn, written, got>>

\* feed_incoming_to_rustls: rustls takes some of the ciphertext and processes
\* what it took.  conn', read_buf' and whether that was an error.
Feed(e, ciphertext) ==
  \E k \in 1..Len(ciphertext) :
    LET fed == Processed(conn[e], ciphertext, k)
    IN  /\ ~fed.failed
        /\ conn' = [conn EXCEPT ![e] = fed]
        /\ read_buf' = [read_buf EXCEPT ![e] = SubSeq(ciphertext, k + 1, Len(ciphertext))]

FeedFails(e, ciphertext) ==
  \E k \in 1..Len(ciphertext) : Processed(conn[e], ciphertext, k).failed

\* pull_tls_records: everything rustls has to send joins write_buf.
PullTlsRecords(e, c) ==
  /\ conn' = [conn EXCEPT ![e] = [c EXCEPT !.out = <<>>]]
  /\ write_buf' = [write_buf EXCEPT ![e] = @ \o c.out]

Unsent(e) == SubSeq(write_buf[e], write_pos[e] + 1, Len(write_buf[e]))
Room(e)   == Capacity - Len(wire[Peer(e)])

\* How much of it the transport may take.
Portions(e) == {n \in 1..Len(Unsent(e)) : n <= Room(e)}

-----------------------------------------------------------------------------
\* Mutant: the whole buffer counts as sent after a partial write.
PollFlushWriteBufOnce(e) ==
  /\ pc[e] \in {"flush", "tail"} /\ Unsent(e) # <<>> /\ ~dropped[Peer(e)]
  /\ \E n \in Portions(e) :
       wire' = [wire EXCEPT ![Peer(e)] = @ \o SubSeq(Unsent(e), 1, n)]
  /\ write_buf' = [write_buf EXCEPT ![e] = <<>>]
  /\ write_pos' = [write_pos EXCEPT ![e] = 0]
  /\ UNCHANGED <<cert, conn, read_buf, closed, dropped, call, history>>

\* Mutant: a read waits for earlier ciphertext and does not drive it.
PollFlushWriteBufOfWrites(e) ==
  /\ pc[e] \in {"flush", "tail"} /\ Unsent(e) # <<>> /\ ~dropped[Peer(e)]
  /\ op[e] # "read"
  /\ \E n \in Portions(e) :
       LET last == n = Len(Unsent(e))
       IN  /\ wire' = [wire EXCEPT ![Peer(e)] = @ \o SubSeq(Unsent(e), 1, n)]
           /\ write_buf' = [write_buf EXCEPT ![e] = IF last THEN <<>> ELSE @]
           /\ write_pos' = [write_pos EXCEPT ![e] = IF last THEN 0 ELSE @ + n]
  /\ UNCHANGED <<cert, conn, read_buf, closed, dropped, call, history>>

\* One write of the loop in poll_flush_write_buf and in handshake: the
\* transport takes some of what is unsent; the last one clears the buffer.
PollFlushWriteBuf(e) ==
  /\ pc[e] \in {"flush", "tail"} /\ Unsent(e) # <<>> /\ ~dropped[Peer(e)]
  /\ \E n \in Portions(e) :
       LET last == n = Len(Unsent(e))
       IN  /\ wire' = [wire EXCEPT ![Peer(e)] = @ \o SubSeq(Unsent(e), 1, n)]
           /\ write_buf' = [write_buf EXCEPT ![e] = IF last THEN <<>> ELSE @]
           /\ write_pos' = [write_pos EXCEPT ![e] = IF last THEN 0 ELSE @ + n]
  /\ UNCHANGED <<cert, conn, read_buf, closed, dropped, call, history>>

\* The peer is gone and the write fails, in whatever call makes it.
WriteFails(e) ==
  /\ pc[e] \in {"flush", "tail"} /\ Unsent(e) # <<>> /\ dropped[Peer(e)]
  /\ Fail(e)

Flushed(e) == pc[e] = "flush" /\ Unsent(e) = <<>>

-----------------------------------------------------------------------------
\* handshake: feed what is buffered, then pull what rustls wants to send.
HandshakeFeed(e) ==
  /\ op[e] = "handshake" /\ pc[e] = "top" /\ read_buf[e] # <<>>
  /\ Feed(e, read_buf[e])
  /\ Goto(e, "pull")
  /\ UNCHANGED <<cert, write_buf, write_pos, link, history>>

HandshakePull(e) ==
  /\ op[e] = "handshake"
  /\ pc[e] = "pull" \/ (pc[e] = "top" /\ read_buf[e] = <<>>)
  /\ PullTlsRecords(e, conn[e])
  /\ Goto(e, "flush")
  /\ UNCHANGED <<cert, read_buf, write_pos, link, history>>

\* Mutant: the handshake is over as soon as rustls says so.
HandshakeCheckEarly(e) ==
  /\ op[e] = "handshake" /\ pc[e] = "flush"
  /\ \/ ~conn[e].handshaking /\ Return(e)
     \/ conn[e].handshaking /\ Unsent(e) = <<>> /\ Goto(e, "fetch")
  /\ UNCHANGED <<cert, conn, buffers, link, history>>

\* Done when rustls is, has nothing more to send, and all of it is out.
\* Otherwise rustls wants to read: it is handshaking and has nothing to send.
HandshakeCheck(e) ==
  /\ op[e] = "handshake" /\ Flushed(e)
  /\ \/ ~conn[e].handshaking /\ conn[e].out = <<>> /\ Return(e)
     \/ (conn[e].handshaking \/ conn[e].out # <<>>) /\ Goto(e, "fetch")
  /\ UNCHANGED <<cert, conn, buffers, link, history>>

\* Await ciphertext and feed it at once.
HandshakeFetch(e) ==
  /\ op[e] = "handshake" /\ pc[e] = "fetch"
  /\ \E n \in 1..Len(wire[e]) :
       /\ Feed(e, read_buf[e] \o SubSeq(wire[e], 1, n))
       /\ wire' = [wire EXCEPT ![e] = SubSeq(@, n + 1, Len(@))]
  /\ Goto(e, "top")
  /\ UNCHANGED <<cert, write_buf, write_pos, closed, dropped, history>>

\* rustls rejects what it was fed, the transport ends, or the timeout of
\* connect_timeout or accept_timeout fires.
HandshakeFails(e) ==
  /\ op[e] = "handshake"
  /\ \/ pc[e] = "top" /\ FeedFails(e, read_buf[e])
     \/ pc[e] = "fetch" /\ FeedFails(e, read_buf[e] \o wire[e])
     \/ pc[e] = "fetch" /\ wire[e] = <<>> /\ closed[Peer(e)]
  /\ Fail(e)

HandshakeTimesOut(e) ==
  /\ op[e] = "handshake" /\ e \in Cancelling
  /\ Fail(e)

-----------------------------------------------------------------------------
\* An application calls when no call is in progress and reading has not ended.
Idle(e) == op[e] = "idle" /\ ~dropped[e] /\ ended[e] # "error"

Start(e, o, p, size) ==
  /\ op' = [op EXCEPT ![e] = o]
  /\ pc' = [pc EXCEPT ![e] = p]
  /\ buf' = [buf EXCEPT ![e] = size]
  /\ UNCHANGED <<cancelled, cert, link, history>>

Read(e) ==
  /\ Idle(e) /\ ended[e] = "no"
  /\ Start(e, "read", "top", 0)
  /\ UNCHANGED <<conn, buffers>>

\* poll_drive_pending_writes, which flushes before it looks for plaintext.
DrivePendingWrites(e) ==
  /\ op[e] = "read" /\ pc[e] = "top"
  /\ PullTlsRecords(e, conn[e])
  /\ Goto(e, "flush")
  /\ UNCHANGED <<cert, read_buf, write_pos, link, history>>

CanTake(e) == op[e] = "read" /\ Flushed(e)

\* poll_read: hand out plaintext that is already decrypted.
ReadPlaintext(e) ==
  /\ CanTake(e) /\ conn[e].plain # <<>>
  /\ \E n \in 1..Len(conn[e].plain) :
       /\ got' = [got EXCEPT ![e] = @ \o SubSeq(conn[e].plain, 1, n)]
       /\ conn' = [conn EXCEPT ![e].plain = SubSeq(@, n + 1, Len(@))]
  /\ Return(e)
  /\ UNCHANGED <<cert, buffers, link, written, ended>>

\* The peer's close_notify is a clean end.
ReadCloseNotify(e) ==
  /\ CanTake(e) /\ conn[e].plain = <<>> /\ conn[e].peer_closed
  /\ ended' = [ended EXCEPT ![e] = "eof"]
  /\ Return(e)
  /\ UNCHANGED <<cert, conn, buffers, link, written, got>>

ReadBlocked(e) == CanTake(e) /\ conn[e].plain = <<>> /\ ~conn[e].peer_closed

ReadFeed(e) ==
  /\ ReadBlocked(e) /\ read_buf[e] # <<>>
  /\ Feed(e, read_buf[e])
  /\ Goto(e, "top")
  /\ UNCHANGED <<cert, write_buf, write_pos, link, history>>

ReadFetch(e) ==
  /\ ReadBlocked(e) /\ read_buf[e] = <<>>
  /\ \E n \in 1..Len(wire[e]) :
       /\ read_buf' = [read_buf EXCEPT ![e] = SubSeq(wire[e], 1, n)]
       /\ wire' = [wire EXCEPT ![e] = SubSeq(@, n + 1, Len(@))]
  /\ Goto(e, "top")
  /\ UNCHANGED <<cert, conn, write_buf, write_pos, closed, dropped, history>>

\* Mutant: the end of the transport is the end of the stream.
ReadEofClean(e) ==
  /\ ReadBlocked(e) /\ read_buf[e] = <<>> /\ wire[e] = <<>> /\ closed[Peer(e)]
  /\ ended' = [ended EXCEPT ![e] = "eof"]
  /\ Return(e)
  /\ UNCHANGED <<cert, conn, buffers, link, written, got>>

\* The transport ends without a close_notify: an error.
ReadEof(e) ==
  /\ ReadBlocked(e) /\ read_buf[e] = <<>> /\ wire[e] = <<>> /\ closed[Peer(e)]
  /\ Fail(e)

-----------------------------------------------------------------------------
\* A write waits for earlier ciphertext before it accepts plaintext.
Write(e, size) ==
  /\ Idle(e) /\ ~conn[e].notified /\ written[e] + size <= MaxData
  /\ Start(e, "write", "flush", size)
  /\ UNCHANGED <<conn, buffers>>

\* rustls takes what its limit allows, its records are pulled, and the whole
\* buffer is reported as written.
WriteAccept(e) ==
  LET space == Limit - Len(conn[e].out)
      n == IF buf[e] <= space THEN buf[e] ELSE space
      records == [i \in 1..n |-> Data(written[e] + i)]
  IN  /\ op[e] = "write" /\ Flushed(e) /\ n > 0
      /\ PullTlsRecords(e, [conn[e] EXCEPT !.out = @ \o records])
      /\ written' = [written EXCEPT ![e] = @ + buf[e]]
      /\ Goto(e, "tail")
      /\ UNCHANGED <<cert, read_buf, write_pos, link, got, ended>>

\* What the transport does not take now stays buffered.
WriteReturn(e) ==
  /\ op[e] = "write" /\ pc[e] = "tail" /\ (Unsent(e) = <<>> \/ Room(e) = 0)
  /\ ~dropped[Peer(e)] \/ Unsent(e) = <<>>
  /\ Return(e)
  /\ UNCHANGED <<cert, conn, buffers, link, history>>

Flush(e) ==
  /\ Idle(e) /\ Unsent(e) # <<>>
  /\ Start(e, "flush", "flush", 0)
  /\ UNCHANGED <<conn, buffers>>

FlushReturn(e) ==
  /\ op[e] = "flush" /\ Flushed(e)
  /\ Return(e)
  /\ UNCHANGED <<cert, conn, buffers, link, history>>

\* poll_shutdown: one close_notify, however often it is called, behind what is
\* buffered.
Shutdown(e) ==
  /\ Idle(e) /\ ~closed[e]
  /\ PullTlsRecords(e, IF conn[e].notified THEN conn[e]
                       ELSE [conn[e] EXCEPT !.out = Append(@, Notify), !.notified = TRUE])
  /\ Start(e, "shutdown", "flush", 0)
  /\ UNCHANGED <<read_buf, write_pos>>

ShutdownReturn(e) ==
  /\ op[e] = "shutdown" /\ Flushed(e)
  /\ closed' = [closed EXCEPT ![e] = TRUE]
  /\ Return(e)
  /\ UNCHANGED <<cert, conn, buffers, wire, dropped, history>>

\* The application drops a call that is pending on the transport.
Cancel(e) ==
  /\ op[e] \notin {"idle", "handshake"} /\ e \in Cancelling /\ ~cancelled[e]
  /\ \/ pc[e] = "flush" /\ Unsent(e) # <<>> /\ Room(e) = 0
     \/ ReadBlocked(e) /\ read_buf[e] = <<>> /\ wire[e] = <<>>
  /\ op' = [op EXCEPT ![e] = "idle"]
  /\ pc' = [pc EXCEPT ![e] = "top"]
  /\ buf' = [buf EXCEPT ![e] = 0]
  /\ cancelled' = [cancelled EXCEPT ![e] = TRUE]
  /\ UNCHANGED <<cert, conn, buffers, link, history>>

DropStream(e) ==
  /\ op[e] = "idle" /\ ~dropped[e]
  /\ DropEnd(e)
  /\ UNCHANGED <<cert, conn, call, history>>

-----------------------------------------------------------------------------
PollHandshake(e) ==
  \/ HandshakeFeed(e) \/ HandshakePull(e) \/ HandshakeCheck(e) \/ HandshakeFetch(e)
  \/ HandshakeFails(e)

PollRead(e) ==
  \/ DrivePendingWrites(e) \/ ReadPlaintext(e) \/ ReadCloseNotify(e)
  \/ ReadFeed(e) \/ ReadFetch(e) \/ ReadEof(e)

PollWrite(e) == WriteAccept(e) \/ WriteReturn(e) \/ FlushReturn(e) \/ ShutdownReturn(e)

Progress(e) ==
  PollFlushWriteBuf(e) \/ WriteFails(e) \/ PollHandshake(e) \/ PollRead(e) \/ PollWrite(e)

Next ==
  \E e \in Ends :
    \/ Progress(e) \/ HandshakeTimesOut(e)
    \/ Read(e) \/ Flush(e) \/ Shutdown(e) \/ Cancel(e) \/ DropStream(e)
    \/ \E size \in WriteSizes : Write(e, size)

Spec == Init /\ [][Next]_vars

\* The executor and the transport make progress on a call.  An application
\* goes on reading until that ends, and then shuts down, but may wait for its
\* peer's handshake.
Fairness ==
  \A e \in Ends :
    /\ WF_vars(Progress(e))
    /\ SF_vars(op[Peer(e)] # "handshake" /\ (Read(e) \/ (ended[e] = "eof" /\ Shutdown(e))))

FairSpec == Spec /\ Fairness

-----------------------------------------------------------------------------
Records == {Hello, Flight, Finished, Ticket, Alert, Notify} \cup {Data(n) : n \in 1..MaxData}

Ops == {"handshake", "idle", "read", "write", "flush", "shutdown"}
Labels == {"top", "pull", "flush", "fetch", "tail"}

Conns ==
  [out : Seq(Records), plain : Seq(1..MaxData), handshaking : BOOLEAN, failed : BOOLEAN,
   notified : BOOLEAN, peer_closed : BOOLEAN]

\* Types of both ends; the transport never holds more than its capacity, and a
\* buffer that is sent is cleared.
TypeOK ==
  /\ cert \in Certs
  /\ conn \in [Ends -> Conns]
  /\ read_buf \in [Ends -> Seq(Records)]
  /\ write_buf \in [Ends -> Seq(Records)] /\ write_pos \in [Ends -> Nat]
  /\ wire \in [Ends -> Seq(Records)]
  /\ closed \in [Ends -> BOOLEAN] /\ dropped \in [Ends -> BOOLEAN]
  /\ op \in [Ends -> Ops]
  /\ pc \in [Ends -> Labels]
  /\ buf \in [Ends -> {0} \cup WriteSizes]
  /\ cancelled \in [Ends -> BOOLEAN]
  /\ written \in [Ends -> 0..MaxData]
  /\ got \in [Ends -> Seq(1..MaxData)]
  /\ ended \in [Ends -> {"no", "eof", "error"}]
  /\ \A e \in Ends :
       /\ ~conn[e].failed
       /\ Len(wire[e]) <= Capacity
       /\ write_pos[e] <= Len(write_buf[e])
       /\ write_buf[e] # <<>> => write_pos[e] < Len(write_buf[e])

\* The records of some kinds, in their order.
OfKind(kinds, records) ==
  LET kept[i \in 0..Len(records)] ==
        IF i = 0 THEN <<>>
        ELSE IF records[i].kind \in kinds THEN kept[i - 1] \o <<records[i]>>
        ELSE kept[i - 1]
  IN  kept[Len(records)]

Plaintext(records) ==
  LET data == OfKind({"data"}, records) IN [i \in 1..Len(data) |-> data[i].n]

\* Everything reported as written is on its way, once and in order: read,
\* decrypted, or ciphertext somewhere between the two ends.
PlaintextConserved ==
  /\ TypeOK
  /\ \A e \in Ends :
       ~dropped[e] /\ ~dropped[Peer(e)] =>
         got[e] \o conn[e].plain \o Plaintext(read_buf[e] \o wire[e] \o Unsent(Peer(e))
                                              \o conn[Peer(e)].out)
           = [i \in 1..written[Peer(e)] |-> i]

\* A clean end of the stream is no truncation: the peer has shut down, and all
\* it wrote before has been read.
CleanEofIsComplete ==
  \A e \in Ends :
    ended[e] = "eof" => conn[Peer(e)].notified /\ Len(got[e]) = written[Peer(e)]

\* A handshake returns although the other end does nothing more once its own
\* has returned: no end keeps the flight its peer waits for.
HandshakeReturns ==
  \A e \in Ends : op[e] = "handshake" ~> op[e] # "handshake"

Broken == \E e \in Ends : dropped[e] \/ ended[e] = "error"

\* Each end waits for the other to make room before it reads anything itself.
Jammed == \A e \in Ends : pc[e] = "flush" /\ Unsent(e) # <<>> /\ Room(e) = 0

\* "Buffered records always drain", though the writer only reads from then on
\* and never flushes: what was written is read in the end, unless an end is
\* lost or both are jammed.
WrittenIsRead ==
  \A e \in Ends :
    written[e] > 0 ~> Len(got[Peer(e)]) = written[e] \/ Broken \/ Jammed
=============================================================================
