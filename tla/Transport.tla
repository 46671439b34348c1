----------------------------- MODULE Transport -----------------------------
(***************************************************************************)
(* The in-memory transport of tpt-async-test (FakeIo, io_pair) and the     *)
(* futures of tpt-async-io over it: read, read_exact, read_to_end,         *)
(* write_all, vectored writes, flush and shutdown.  Each end belongs to    *)
(* one task on a thread of its own, so a step is what happens between two  *)
(* accesses to what the ends share: the two queues with their mutexes, and *)
(* the two flags, which no mutex protects.                                 *)
(***************************************************************************)
EXTENDS Integers, Sequences, SequencesExt

CONSTANTS MaxBytes,    \* bound: bytes an end offers to write
          Wants,       \* lengths of the buffers read into
          Slices,      \* where the buffers of a write end, for each end
          ShortIo      \* TRUE: a poll may move fewer bytes than it could, as
                       \* the traits allow; FakeIo itself moves all it can

Ends == {1, 2}
Peer(e) == 3 - e

ASSUME TransportAssumption ==
  /\ MaxBytes \in Nat /\ Wants \subseteq Nat /\ ShortIo \in BOOLEAN
  /\ Slices \in [Ends -> SUBSET (Seq(Nat) \ {<<>>})]
  /\ \A e \in Ends : \A slices \in Slices[e] :
       \A i, j \in DOMAIN slices : i <= j => slices[i] <= slices[j]

VARIABLES
  bytes,     \* Queue.bytes: what end e will read
  lock,      \* the mutex of that queue is held by e's poll_read
  reader_waker, \* it is there
  closed,    \* write_closed of end e, the peer's peer_write_closed
  pc,        \* where the task of end e is
  call,      \* the future it polls: operation, length, bytes moved, slices
  woken,     \* the task of e was woken since it was last polled
  offered,   \* number of bytes e was asked to write
  written,   \* bytes of the writes that returned Ok
  received,  \* bytes e has read
  eof        \* e was told the end of the stream

sharedIo == <<bytes, lock, reader_waker, closed>>
hist     == <<offered, written, received, eof>>
ioVars   == <<sharedIo, pc, call, woken, hist>>

Call(op, want, slices) == [op |-> op, want |-> want, got |-> 0, slices |-> slices]
NoCall == Call("none", 0, <<>>)

IoInit ==
  /\ bytes = [e \in Ends |-> <<>>]
  /\ lock = [e \in Ends |-> FALSE] /\ reader_waker = [e \in Ends |-> FALSE]
  /\ closed = [e \in Ends |-> FALSE]
  /\ pc = [e \in Ends |-> "idle"] /\ call = [e \in Ends |-> NoCall]
  /\ woken = [e \in Ends |-> FALSE]
  /\ offered = [e \in Ends |-> 0] /\ written = [e \in Ends |-> {}]
  /\ received = [e \in Ends |-> <<>>] /\ eof = [e \in Ends |-> FALSE]

Goto(e, label) == pc' = [pc EXCEPT ![e] = label]
ReturnFrom(e) == Goto(e, "idle") /\ call' = [call EXCEPT ![e] = NoCall]

\* How many of n bytes a poll moves.
Moves(n) == IF ShortIo THEN 1..n ELSE {n}

\* wake_reader, under the mutex of e's queue.
WakeReader(e) ==
  /\ woken' = [woken EXCEPT ![e] = @ \/ reader_waker[e]]
  /\ reader_waker' = [reader_waker EXCEPT ![e] = FALSE]

-----------------------------------------------------------------------------
(* Read, ReadExact, ReadToEnd *)

StartRead(e, op, want) ==
  /\ pc[e] = "idle"
  /\ op = "toend" => want > 0                        \* its CHUNK
  /\ Goto(e, "read")
  /\ call' = [call EXCEPT ![e] = Call(op, want, <<>>)]
  /\ UNCHANGED <<sharedIo, woken, hist>>

\* ReadBuf::remaining of the buffer handed to poll_read.
Remaining(e) == IF call[e].op = "toend" THEN call[e].want ELSE call[e].want - call[e].got

\* The buffer is full, or was empty to begin with.
ReadFull(e) ==
  /\ pc[e] = "read" /\ Remaining(e) = 0
  /\ ReturnFrom(e)
  /\ UNCHANGED <<sharedIo, woken, hist>>

\* Bytes are there.  Only read returns with what it got.
ReadTake(e) ==
  /\ pc[e] = "read" /\ Remaining(e) > 0 /\ ~lock[e] /\ bytes[e] # <<>>
  /\ \E n \in Moves(IF Remaining(e) < Len(bytes[e]) THEN Remaining(e) ELSE Len(bytes[e])) :
       /\ bytes' = [bytes EXCEPT ![e] = SubSeq(@, n + 1, Len(@))]
       /\ received' = [received EXCEPT ![e] = @ \o SubSeq(bytes[e], 1, n)]
       /\ IF call[e].op = "read"
          THEN ReturnFrom(e)
          ELSE call' = [call EXCEPT ![e].got = @ + n] /\ UNCHANGED pc
  /\ UNCHANGED <<lock, reader_waker, closed, woken, offered, written, eof>>

\* Mutant: the queue is unlocked before the flag is looked at.
ReadEmptyUnlocked(e) ==
  /\ pc[e] = "read" /\ Remaining(e) > 0 /\ ~lock[e] /\ bytes[e] = <<>>
  /\ Goto(e, "empty")
  /\ UNCHANGED <<sharedIo, call, woken, hist>>

\* poll_read found the queue empty and keeps it locked.
ReadEmpty(e) ==
  /\ pc[e] = "read" /\ Remaining(e) > 0 /\ ~lock[e] /\ bytes[e] = <<>>
  /\ lock' = [lock EXCEPT ![e] = TRUE]
  /\ Goto(e, "empty")
  /\ UNCHANGED <<bytes, reader_waker, closed, call, woken, hist>>

\* It looks at the peer's flag: the end of the stream, for read_exact an error.
ReadCheck(e) ==
  /\ pc[e] = "empty"
  /\ \/ /\ closed[Peer(e)]
        /\ lock' = [lock EXCEPT ![e] = FALSE]
        /\ eof' = [eof EXCEPT ![e] = TRUE]
        /\ ReturnFrom(e)
     \/ /\ ~closed[Peer(e)]
        /\ Goto(e, "open")
        /\ UNCHANGED <<lock, call, eof>>
  /\ UNCHANGED <<bytes, reader_waker, closed, woken, offered, written, received>>

\* It leaves its waker, unlocks, and the future is pending.
ReadRegister(e) ==
  /\ pc[e] = "open"
  /\ reader_waker' = [reader_waker EXCEPT ![e] = TRUE]
  /\ lock' = [lock EXCEPT ![e] = FALSE]
  /\ Goto(e, "pending")
  /\ UNCHANGED <<bytes, closed, call, woken, hist>>

\* The executor polls a task that was woken.
Repoll(e) ==
  /\ pc[e] = "pending" /\ woken[e]
  /\ woken' = [woken EXCEPT ![e] = FALSE]
  /\ Goto(e, "read")
  /\ UNCHANGED <<sharedIo, call, hist>>

\* The future is dropped, its waker stays in the queue.
Cancel(e) ==
  /\ pc[e] = "pending"
  /\ ReturnFrom(e)
  /\ UNCHANGED <<sharedIo, woken, hist>>

-----------------------------------------------------------------------------
(* WriteAll, write_vectored_fallback, Shutdown *)

Numbered(first, n) == [i \in 1..n |-> first + i]

\* One buffer, or several for a caller that loops over vectored writes.  No
\* write is issued after a shutdown.
StartWrite(e, slices) ==
  LET total == slices[Len(slices)] IN
  /\ pc[e] = "idle" /\ ~closed[e] /\ offered[e] + total <= MaxBytes
  /\ Goto(e, "write")
  /\ call' = [call EXCEPT ![e] = Call("write", total, slices)]
  /\ offered' = [offered EXCEPT ![e] = @ + total]
  /\ UNCHANGED <<sharedIo, woken, written, received, eof>>

\* The slices that are not empty yet; the next poll_write is given what is
\* left of the first one.
Unwritten(e) == {i \in DOMAIN call[e].slices : call[e].slices[i] > call[e].got}
NextSlice(e) == CHOOSE i \in Unwritten(e) : \A j \in Unwritten(e) : i <= j
Left(e) == call[e].slices[NextSlice(e)] - call[e].got

\* Number of bytes e was asked to write before the write in progress.
Before(e) == offered[e] - call[e].want

WriteDone(e) ==
  /\ pc[e] = "write" /\ Unwritten(e) = {}
  /\ written' = [written EXCEPT ![e] = @ \cup ((Before(e) + 1)..offered[e])]
  /\ ReturnFrom(e)
  /\ UNCHANGED <<sharedIo, woken, offered, received, eof>>

\* peer_gone is looked at before the queue is locked.
WriteCheck(e) ==
  /\ pc[e] = "write" /\ Unwritten(e) # {}
  /\ \/ closed[Peer(e)] /\ ReturnFrom(e)              \* BrokenPipe
     \/ ~closed[Peer(e)] /\ Goto(e, "push") /\ UNCHANGED call
  /\ UNCHANGED <<sharedIo, woken, hist>>

\* Mutant: a short write is taken for a whole one.
WritePushAll(e) ==
  /\ pc[e] = "push" /\ ~lock[Peer(e)]
  /\ \E n \in Moves(Left(e)) :
       bytes' = [bytes EXCEPT ![Peer(e)] = @ \o Numbered(Before(e) + call[e].got, n)]
  /\ call' = [call EXCEPT ![e].got = @ + Left(e)]
  /\ WakeReader(Peer(e))
  /\ Goto(e, "write")
  /\ UNCHANGED <<lock, closed, hist>>

WritePush(e) ==
  /\ pc[e] = "push" /\ ~lock[Peer(e)]
  /\ \E n \in Moves(Left(e)) :
       /\ bytes' = [bytes EXCEPT ![Peer(e)] = @ \o Numbered(Before(e) + call[e].got, n)]
       /\ call' = [call EXCEPT ![e].got = @ + n]
  /\ WakeReader(Peer(e))
  /\ Goto(e, "write")
  /\ UNCHANGED <<lock, closed, hist>>

\* poll_shutdown, shutdown and drop set the flag, then wake the peer's reader.
CloseFlag(e, next) ==
  /\ pc[e] = "idle"
  /\ closed' = [closed EXCEPT ![e] = TRUE]
  /\ Goto(e, next)
  /\ UNCHANGED <<bytes, lock, reader_waker, call, woken, hist>>

\* Mutant: the peer's reader is not woken.
CloseQuietly(e) ==
  /\ pc[e] \in {"shutdown", "drop"}
  /\ Goto(e, IF pc[e] = "drop" THEN "gone" ELSE "idle")
  /\ UNCHANGED <<sharedIo, call, woken, hist>>

CloseWake(e) ==
  /\ pc[e] \in {"shutdown", "drop"} /\ ~lock[Peer(e)]
  /\ WakeReader(Peer(e))
  /\ Goto(e, IF pc[e] = "drop" THEN "gone" ELSE "idle")
  /\ UNCHANGED <<bytes, lock, closed, call, hist>>

-----------------------------------------------------------------------------
Step(e) ==
  \/ ReadFull(e) \/ ReadTake(e) \/ ReadEmpty(e) \/ ReadCheck(e) \/ ReadRegister(e)
  \/ Repoll(e) \/ WriteDone(e) \/ WriteCheck(e) \/ WritePush(e) \/ CloseWake(e)

Start(e) ==
  \/ \E op \in {"read", "exact", "toend"}, want \in Wants : StartRead(e, op, want)
  \/ \E slices \in Slices[e] : StartWrite(e, slices)
  \/ \E next \in {"shutdown", "drop"} : CloseFlag(e, next)

IoNext == \E e \in Ends : Step(e) \/ Start(e) \/ Cancel(e)

IoSpec == IoInit /\ [][IoNext]_ioVars

\* Threads run and executors poll what was woken; nobody has to start or to
\* cancel a call.
FairIoSpec == IoSpec /\ \A e \in Ends : WF_ioVars(Step(e))

-----------------------------------------------------------------------------
Labels == {"idle", "read", "empty", "open", "pending", "write", "push", "shutdown", "drop", "gone"}

IoCalls == [op : {"none", "read", "exact", "toend", "write"}, want : Nat, got : Nat,
          slices : Seq(Nat)]

IoTypeOK ==
  /\ bytes \in [Ends -> Seq(1..MaxBytes)] /\ received \in [Ends -> Seq(1..MaxBytes)]
  /\ lock \in [Ends -> BOOLEAN] /\ reader_waker \in [Ends -> BOOLEAN]
  /\ closed \in [Ends -> BOOLEAN] /\ woken \in [Ends -> BOOLEAN] /\ eof \in [Ends -> BOOLEAN]
  /\ pc \in [Ends -> Labels] 
  /\ call \in [Ends -> IoCalls]
  /\ \A e \in Ends : call[e].op = "toend" \/ call[e].got <= call[e].want
  /\ offered \in [Ends -> 0..MaxBytes] /\ written \in [Ends -> SUBSET (1..MaxBytes)]

\* What e has read and what waits for it.
Stream(e) == received[e] \o bytes[e]

\* Whatever the cuts and the calls, no byte is written twice, lost or out of
\* order: the bytes of a write that returned Ok are all in the stream.
BytesInOrder ==
  /\ IoTypeOK
  /\ \A e \in Ends :
       /\ \A i, j \in DOMAIN Stream(e) : i < j => Stream(e)[i] < Stream(e)[j]
       /\ written[Peer(e)] \subseteq ToSet(Stream(e))

\* No wake-up is lost: a reader sleeps only while there is nothing to read
\* and its waker is in the queue; if its peer is closed, that peer is about
\* to wake it.
ReaderNotLost ==
  \A e \in Ends : pc[e] = "pending" /\ ~woken[e] =>
    /\ bytes[e] = <<>> /\ reader_waker[e]
    /\ closed[Peer(e)] => pc[Peer(e)] \in {"shutdown", "drop"}

\* Each direction of FakeIo is a pipe: in particular the end of the stream is
\* told only after the last byte, although the flag is set without a lock.
PipeToOne == INSTANCE Pipe WITH in <- Stream(1), out <- received[1],
                                closed <- closed[2], ended <- eof[1]
PipeToTwo == INSTANCE Pipe WITH in <- Stream(2), out <- received[2],
                                closed <- closed[1], ended <- eof[2]
ImplementsPipe == PipeToOne!Spec /\ PipeToTwo!Spec

\* A read returns once its peer has closed, and a plain read once there is
\* something to read, unless it is cancelled first.
Reading(e) == pc[e] \in {"read", "empty", "open", "pending"}
ReadReturns ==
  \A e \in Ends :
    Reading(e) /\ (closed[Peer(e)] \/ (call[e].op = "read" /\ bytes[e] # <<>>)) ~> ~Reading(e)
=============================================================================
