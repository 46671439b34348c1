# A verification project for tpt-async

tpt-async is a Rust workspace of small, runtime-agnostic async crates
(`src/crates/`): an executor, a timer, I/O traits, and TLS, HTTP and WebSocket
on top of them. This directory holds TLA+ modules for the parts whose
correctness depends on interleavings, ordering or long call sequences, TLC
configurations for small instances of them, and TLAPS proofs.

## 1. Inventory

| Component (crate, file) | State | Operations | What is hard | What makes it correct |
|---|---|---|---|---|
| **LocalExecutor** (`tpt-async-executor/src/lib.rs`) | run queue behind a mutex and condvar, per-task `queued` and `done` atomics, `notified` flag, registry of futures | `block_on`, `run_until_stalled`, `spawn`, wakers called from any thread | wakes race the pop, the poll and the park; polls may re-enter the executor | each wake leads to one poll; the executor sleeps only when idle; no poll inside a poll or after Ready |
| **JoinHandle, Completer, Task** (`tpt-async-core/src/task.rs`) | `flags`, `result`, `waker`, each with its own lock | complete, cancel, poll, detach, drop of either side | every operation is several steps, two threads | the awaiter is woken; READY has a result; the outcome is true |
| **TimerWheel** (`tpt-async-timer/src/wheel.rs`) | hierarchical slots of intrusive lists, `current_tick`, `pending` | insert, remove, tick, tick_n, advance_to, next_deadline | level and slot arithmetic at powers of SLOTS, cascade order, clamped top level | an entry fires on exactly the tick of its deadline |
| **Sleep, Timeout** (`sleep.rs`, `timeout.rs`) | an intrusive entry, its waker, `registered` | new, poll, reset, drop | drops, resets and wakers that change between polls, while the wheel ticks | no lost sleeper, no dangling entry |
| **Timer driver** (`driver.rs`, `clock.rs`) | a global wheel, a thread, a registration condvar | `sleep`, `timeout`, the driver loop | the signal is lost unless the driver waits; the wheel lags the clock | bounded lateness and earliness |
| **WebSocketStream** (`tpt-net-ws/src/stream.rs`) | `frame_buf`, `close_sent`, `close_received`, `ping_outstanding`, the message being assembled | send, recv, close, keepalive | simultaneous closes, control frames between fragments, cancelled calls, broken transport | messages whole and in order; one Close each; calls return |
| **Interval** (`interval.rs`) | a Sleep, the period, the missed-tick behaviour | new, poll_tick, drop | polled late, created off its grid, the wheel moves between two looks at it | ticks per period as the behaviour says |
| **Retry** (`retry.rs`) | attempt count, delay | the attempt loop | capped exponential delay over sleeps that end early | number of attempts, delays between them |
| **I/O traits, FakeIo** (`tpt-async-io`, `tpt-async-test`) | byte queues, wakers, closed flags; position of a call | read, read_exact, read_to_end, write_all, shutdown, drop | partial reads and writes, check then register against close, cancelled calls | bytes once and in order, end after the last byte, no lost waker |
| **TLS stream** (`tpt-net-tls/src/stream.rs`, `connector.rs`, `acceptor.rs`, `pinning.rs`) | `read_buf`, `write_buf`, `write_pos`, the engine | handshake, read, write, flush, shutdown | Pending in the middle of a flush, cancelled calls, truncation, both ends waiting for room | plaintext conserved; clean end means complete; calls return |
| **HTTP/1.1** (`tpt-net-http/src/connection.rs`, `body.rs`, `server.rs`, `client.rs`) | connection buffer, body reader, pool | serve_connection, HttpClient::request | body framing, pipelining, keep-alive, redirects, a pooled connection that died, cancelled calls | requests and bodies in step; a response is for its request; pooled connections clean |
| **HTTP heads** (`parse.rs`) | none: functions of a buffer | parse_request, parse_response | a buffer that ends anywhere, with frames behind the head | the cuts decide nothing |
| **WebSocket frames, opening, deflate** (`frame.rs`, `handshake.rs`, `deflate.rs`) | codec contexts | encode, decode, accept, connect, compress, decompress | three length forms, masks, negotiated contexts | what goes in comes out |
| Core wakers, state machine, error types, macros, facade, adapters, router, HTTP/2 | none of their own, or a library's | constructors, conversions, lookups | | not modelled |

How they interact: a poll on the executor may call `sleep`, which links an entry
into the global wheel and signals the driver thread; the driver's tick calls
wakers, which enter the executor's run queue from the driver's thread; a spawned
task reports through its Completer to a JoinHandle that another task polls. TLS,
HTTP and WebSocket are generic in `AsyncRead + AsyncWrite`, whose promise is `Pipe`.
The WebSocket stream opens with the HTTP connection's heads, then uses its
`read_raw` and `write_raw`, and the driver's `timeout` for its keepalive.

The hazards (in `PROJECT.json`) are these interactions at their lines; each names
the properties that would notice it going wrong, or says why none does.

## 2. Modules

| Module | Models | Built on |
|---|---|---|
| `Wheel` | the data structure of `wheel.rs` as operators on a wheel record | |
| `TimerService` | abstract specification: what a timer promises | |
| `TimerWheel`, `WheelProofs` | the methods of TimerWheel on one wheel; refines `TimerService` | `Wheel` |
| `TimerFutures` | Sleep, Timeout and Interval sharing one wheel | `Wheel` |
| `TimerDriver`, `TimerProofs` | the driver thread, `sleep`, `timeout` and the retry loop with real time | `TimerFutures`, `WheelProofs` |
| `Executor`, `RuntimeProofs` | LocalExecutor and its wakers | |
| `JoinHandle`, `RuntimeProofs` | the state a task shares with its handle | |
| `Pipe` | abstract specification: one direction of an AsyncRead/AsyncWrite pair | |
| `Transport`, `RuntimeProofs` | FakeIo with the combinators of `tpt-async-io`; each direction refines `Pipe` | `Pipe` |
| `Tls`, `TlsProofs` | two TlsStreams over a bounded transport, the TLS engine external | |
| `HttpFraming` | what is decided from a head: framing, keep-alive, redirects | |
| `Http`, `HttpProofs` | serve_connection, HttpClient::request and the pool over many connections | `HttpFraming` |
| `HttpHead` | `parse.rs` over bytes | |
| `WsFrame` | `frame.rs` over bytes | |
| `WsOpening`, `WsOpeningProofs` | opening handshake, first messages and permessage-deflate over bytes | `HttpHead`, `WsFrame` |
| `WebSocket`, `WebSocketProofs` | two connected WebSocketStreams | |
| `ProofBasics` | facts about numbers, division, powers and sequences that several proofs rest on | library theorems |
| `MC*` | instances for TLC | |

### Correspondence

*Wheel, TimerWheel.* A slot is a sequence of entries, head first, for the
intrusive doubly linked list; `link` pushes at the head. Every method runs under
the wheel's spin lock, so it is one action. `LevelFor` and `ChooseSlot` are
`choose_slot`, `Cascade` relinks a detached list one entry at a time as the code
does, with the decrement and re-increment of `pending`; `AdvanceOne` increments,
cascades and then drains. The loops of the code (the slots of a level, the levels
of a tick, the ticks of an advance) are recursive functions over the iterations
made so far, `Relink`, `CascadeLevels` and `AdvanceTo`, so that the proofs can reason
about one iteration. `woken` is the order in which wakers are called.
`TimerService` knows only `now` and a due time per entry; the refinement maps an
entry inserted when already due to the next tick, as `choose_slot` does.

*TimerFutures.* `registered` is the flag of the future, linkedness is in the
wheel; `Poll`, `Reset` and `DropFuture` follow `poll`, `reset` and `Drop`, with
`remove` unlinking in each exit. `owed` is a history variable: the waker of the
last Pending poll until somebody calls it. An Interval is a Sleep that is reset:
`Poll` of a due one leaves it between the unlock of its sleep's poll and the
second look at the wheel's tick, and `Rearm` is that look, with `NextDeadline`
for the three behaviours.

*TimerDriver.* The loop is four steps: advance to the clock, compute the cap from
`next_deadline` (which looks at the head of each slot only), take the lock and
park, wake. A poll that registers signals in a step of its own, because
`on_registration` runs after the wheel's lock is released; the signal has an
effect only on a driver that is parked. Real time moves only while the driver is
parked with time left and no poll stands between its registration and its
signal: what is early or late in the model is so on an idle machine. `Retry` starts the
attempt loop, `AttemptOk` and `AttemptErr` are what the operation returns,
`RetryAgain` follows the sleep between two attempts; the delay of an attempt is
`DelayFor`, in whole ticks.

*Executor.* A step is one access to state that threads share: `done.load`, the
swap of `queued`, the push with its notify, the swap of `notified`, the pop, the
store that clears `queued`, the check under the lock, the wait. The registry
belongs to the executor's thread. What a future does in a poll is free: spawn,
call any waker that exists, run the executor again through a handle, return.
`frames` is the stack of nested polls.

*JoinHandle.* `flags`, `result` and `waker` are accessed one at a time, by the
completer's program counter `cpc` and the handle's `hpc`.

*Transport, Pipe.* `bytes`, `reader_waker` and `closed` are the shared state of
`io_pair`; `lock` is held from the look at an empty queue to the registration, as
in `poll_read`, while a close stores its flag without the lock and then takes it to
wake. `call` is the combinator in progress with its position; the constant
`ShortIo` lets the transport move less than it is asked to, which FakeIo never does
and the traits allow. `Pipe` has a sequence written, a prefix read, and an end
after the last byte.

*Tls.* `pc` is where a poll stands; a step is one transport call or one call of
the engine. `conn` is the engine: records to send, plaintext to read,
handshaking, closed. The handshake is the four flights of a server-authenticated
session; a certificate that is neither trusted nor pinned is rejected by
`VerifyServerCert`. A unit of plaintext stands for a full record, `Limit` for the
engine's 64 KiB. The alert of a failed handshake is never sent, as in the code.

*Http, HttpFraming.* A message on the wire is a sequence of units, cut anywhere:
two for a head, one for each line and each piece of a body. `rd` is the
BodyReader, one read per step; `srv` is where serve_connection stands, `task` where
a call of HttpClient::request stands. `CancelRequest` drops the future at an
await. Foreign clients and servers are other implementations: they pipeline, use
every framing, cut messages short and close. The limit on bodies counts units.

*HttpHead, WsFrame, WsOpening.* Bytes are integers; words that the code compares
as one are single numbers. `parsed` is what the parser makes of the buffer, kept up
to date with it. Scales are constants: `Len16` for 126, `Radix` and `Wide` for the
base and the width of the long lengths, `KeyLen` for the mask, `Chunk` for 8192,
`MaxHead` for 64 KiB. The mask's exclusive or is the recursive function `Exclusive`,
bit by bit. zlib is external: a compressed payload is tagged with the
number of messages in its context, and opens only with the same context.

*WebSocket.* An end has one call in progress (`&mut self`); `writing` is the frame
a call is awaiting to write and `after` what it does next. A frame that
`frame::decode` rejects stays in `frame_buf`; one that `recv_message` rejects is
drained. `message_opcode` and `assembled` are local variables of `recv_message`
and vanish when it returns or is cancelled. The transport is reliable and
ordered and carries whole frames. What the stream itself never sends (fragments,
rejected frames) comes from a peer of another implementation. These are
abstractions to know of: a call is cancelled only where it awaits a read; masking,
compression and lengths are in `WsOpening` (each of their rejections is the one
rejected frame here), and close codes are left out; the transport takes a frame whole or
not at all, `Room` of them in a direction; an application stops calling once a call
has ended the connection; the keepalive policy is set before the first call.

Definitions named `Mutant: ...` in their comment are single plausible mistakes
(a dropped guard, a late store, a missing notify) in the definition that follows.
`PROJECT.json` pairs every checked property with one; replacing the definition
by its mutant makes TLC violate that property, which shows that the property
depends on the code it is about.

## 3. Runs

| Run | Bounds | Shows |
|---|---|---|
| `wheel` | 2 slots, 3 levels, 3 entries, deadlines to 9, 10 ticks | the wheel refines the timer service: each entry fires on its tick; `pending` is exact; every entry lies where it will be found in time |
| `timer_futures` | 2x2 wheel, a Sleep, a Timeout, an Interval of each behaviour, at most 2 alive, 2 wakers, 5 ticks | no sleeper is lost or armed with an old waker, no entry of a dropped future is linked, intervals tick as their behaviour says, polled futures resolve |
| `interval_skip` | the same | counterexample to "the first multiple of `period` strictly after `now`" |
| `timer_driver` | 2x2 wheel, one Sleep that may be the delay of a retry, one Timeout, cap 2, durations 1 and 3, 3 attempts with delays 1 and 3, clock to 5 | a due timer waits less than one cap although signals get lost; a sleep ends early by at most one cap; attempts are as many and as far apart as the policy and that lag allow |
| `executor` | 2 tasks, main future, 1 other thread, one level of nesting in the main future and one task | coalescing, legal polls, no lost wake, idle park, woken futures polled |
| `join_handle` | 2 wakers | awaiter, result, outcome, drop and termination over all interleavings |
| `transport` | 3 bytes, reads of 0 and 2 bytes, a write of two buffers, one of them empty | bytes in order, end after the last, no lost wake, each direction is a `Pipe`, reads return |
| `tls` | writes of 3 units, transport of 2, one rejected certificate, client that cancels and times out | plaintext conserved, no truncation reported as an end, handshakes return, what is written is read |
| `http` | 2 tasks, 2 hosts, 2 connections, 2 requests, bodies of up to 2 units, one redirect; or a client that pipelines | requests in step, responses for their requests, clean pool, calls and servers return |
| `ws_opening` | every request one byte off ours that ends with its head or has no end, reads of up to 5 bytes, 4 other answers to the offer, 2 messages of 2 to 4 bytes, one bad frame | the cuts of the reads decide nothing, our ends open, messages come out as they went in, nobody waits for what has arrived |
| `websocket` | one message each way, one in two fragments, a Ping or a bad frame, a keepalive, cancelled calls, a server that falls silent, a transport of 2 frames each way | conservation, whole messages, exact closing handshake, close and recv return unless the peer leaves the transport full |
| `websocket_fragments` | one fragmented message, server keepalive | counterexample to transparent fragmentation |

Five more configurations check, each, one sentence of the docs that the code
contradicts. They are not among the runs of `PROJECT.json`; TLC finds the
counterexample within seconds (`tlc -config MCExecutorReturn.cfg MCExecutor`, and so on).

| Configuration | Bounds | Counterexample to |
|---|---|---|
| `MCTlsLargeWrite.cfg` | `tls` with an engine that buffers 2 units | `PlaintextConserved`: "the number of bytes consumed from `buf`" |
| `MCWebSocketKeepAlive.cfg` | one message, client keepalive, silent server, a transport of 1 frame | `DeadPeerNoticed`: "a dead peer cannot hold the connection open forever" |
| `MCHttpPoolClose.cfg` | as `http` | `KeptIfNeitherCloses`: "neither side signalled `Connection: close`" |
| `MCExecutorReturn.cfg` | as `executor` | `QueuedDroppedOnReturn`: "queued tasks are dropped when `block_on` returns" |
| `MCJoinHandleCancel.cfg` | as `join_handle` | `CancelledIsRepeatable`: "`Ready(Err(Cancelled))` is repeatable" |

Why the bounds are enough to be interesting. A 2x3 wheel has two cascading
levels, an 8-tick rotation and deadlines beyond it, so the clamped level, a
cascade of two levels on one tick and shared slots all occur; nothing in the code
depends on SLOTS beyond `>= 2`. Two tasks and one more thread give every pair of
racing wakes, and more waker threads only repeat the same three steps; the proofs
remove this bound. A cap of two ticks leaves room for a registration, a lost signal
and a deadline inside one park; the two delays of a retry, 1 and 4 cut to 3, lie below
and above the cap, so that the second must last at least a tick however far the wheel lags. A transport of
two units below a write of three makes every flush stop half way, and both ends can
be left with unsent ciphertext. Two requests over two connections are the
smallest case in which a connection is used again, by another task, after a
redirect or after a lost one. One message of two fragments with control frames
between them is the smallest case in which assembly, closing and cancelling overlap; a
transport of two frames is full with a message and a Ping, in either direction and in
both at once.
Payloads of 2 and 4 with a compression tag and `Len16 = 3` reach all three forms of
the length.

Each module has one type invariant, `TypeOK`. A run checks it as a conjunct of the
safety property it supports (`WheelSound`, `EntriesSound`, `EarlyByAtMostCap`,
`MessagesWhole`, `RequestsInStep`, `BytesInOrder`, `PlaintextConserved`,
`MessagesIntact`); that of Executor and JoinHandle is proved instead, and the
others are proved as well (section 4). Other
conjunctions name their parts in the same way: `WokenIsPolled`, `CallsReturn`,
`NobodyWaitsForArrived`.

`CHECK_DEADLOCK FALSE` appears where the system stops by design: a finished and
dropped handle, dropped connections, a server that waits for requests nobody sends.

### Fairness

- `Executor`: the executor thread and a thread inside a waker call keep running
  (threads are scheduled); strong fairness for getting the mutex (it is released
  between any two steps that hold it) and for a poll to return, which `Future`
  requires. No wake is promised, and the 100 ms timeout of the wait is not
  used: the properties hold without it.
- `JoinHandle`: both threads finish what they began, the executor ends or drops
  the task, and the awaiting task is polled after it was woken.
- `TimerFutures`: the wheel reaches the last tick of the model (weak fairness of
  the driver's tick, in a form TLC checks faster), and a task is polled when it is
  new or woken.
- `Transport`: threads run and a woken task is polled; nobody has to start a call.
- `Tls`: a call in progress is polled while it can go on; an application reads until
  the stream ends and then shuts down. It may wait for the peer's handshake first,
  may never flush, and strong fairness is needed because the peer's handshake comes
  and goes.
- `Http`: executors poll what is ready, handlers answer, and a foreign server
  answers or closes what it does not use. No client has to send anything.
- `WebSocket`: the executor drives a pending call, the transport delivers and
  finishes a write for which there is room (`HasRoom`), timers fire, and an application keeps calling `recv` until the connection ends and
  then drops it, unless it is in the constant `Silent`: such an application may
  stop calling at any point. The server of `websocket` is Silent, so there the
  client's `recv` and `close` return by its keepalive alone, unless they wait from some time
  on for room that is never made: the peer reads nothing, because its application has
  stopped or because it waits for room too (`Undrained` in `CallsReturn`).
- `WsOpening` has none: that nobody waits for bytes that have arrived is an
  invariant of the states in which an end waits.

### Disagreements found

Checked by TLC, which finds the counterexample:

1. *Pong between fragments* (`websocket_fragments`): `recv` returns a Pong in the
   middle of a fragmented message and loses what it had assembled. A keepalive
   against a peer that fragments is enough.
2. *Large TLS write* (`MCTlsLargeWrite.cfg`): `poll_write` reports the whole buffer as
   written although the engine accepted part of it; the rest is lost.
3. *Keepalive* (`MCWebSocketKeepAlive.cfg`): "a dead peer cannot hold the connection open
   forever" (`stream.rs:22`), but the timeout is on the read alone. The Ping, a Pong and the
   echo of a Close are written without one, and wait for ever if the transport to the
   peer is full.
4. *Interval with Skip* (`interval_skip`): "the first multiple of `period` strictly after
   `now`" (`interval.rs:26`); the code takes the later of that and one period after the
   old deadline, so an Interval created off the grid and polled in time stays off it.
5. *Pool and close* (`MCHttpPoolClose.cfg`): "neither side signalled `Connection: close`"
   (`client.rs:222`); the code looks at the response only, and pools a connection whose
   own request asked for the close. `PooledInStep` says what holds of such a connection:
   its server has returned, and nothing is on it.
6. *Return of block_on* (`MCExecutorReturn.cfg`): "tasks still queued when `block_on` returns
   are dropped" (`tpt-async-executor/src/lib.rs:269`); nothing is dropped, they wait for the
   next call of the executor.
7. *Cancel, then complete* (`MCJoinHandleCancel.cfg`): "`Ready(Err(Cancelled))` is repeatable"
   (`task.rs:91`) and a cancelled task's result is discarded (`task.rs:72`); `complete`
   overwrites CANCELLED, so a handle that returned `Err(Cancelled)` can return `Ok` later.
   `OutcomeIsTrue` allows that.

Met while modelling; the modules do what the code does, and the properties name the
exception where there is one:

- *Re-entrant executor*: a task that wakes itself and then calls
  `run_until_stalled` in its poll has its id popped and skipped while it is out of the
  registry, with `queued` left set; all its later wakes are swallowed. `WakeNotLost`
  is about every task that does not do so, whatever the others do.
- *Sleep ends early*: the deadline counts from the wheel's tick, which lags the
  clock while the driver is parked. `EarlyByAtMostCap` says by how much at most. A
  retry delay below that lag (100 ms) may therefore be no delay at all.
- *Empty response*: `serve_connection` puts no content-length on a response without a
  body and keeps the connection alive, so this crate's own client waits for an end
  that does not come (`Starved` in `RequestReturns`).
- *Malformed request*: the doc of `serve_connection` promises a 400; the error is
  returned and the connection closed without one.
- *Head limit*: `find_head_end` (`parse.rs:236`) compares all of the buffer with 64 KiB, bytes
  behind the head included, although the error says "message head exceeds 64 KiB": a short
  head with enough behind it in the same read is refused. The assumptions of `WsOpening` leave
  room for what one read brings along.
- *Two jammed TLS ends*: `poll_read` does not read while its own ciphertext does not
  drain; if both ends have more to send than the transport holds, neither goes on
  (`Jammed` in `WrittenIsRead`).

## 4. Proofs

All are checked by TLAPS from the named assumptions of the modules and hold for
every value of the constants. Three theorems have a hypothesis of their own
(`MultiLevel`, `WritesFit`, `AllAttentive`), each the weakest found that excludes
what a run or a paragraph above shows to be false without it. Every inductive
invariant was checked with TLC on a small instance before it was proved.

**RuntimeProofs** has three parts. The first is about `Executor`, from `ExecutorAssumption` (main future and executor thread
are distinct from tasks and threads; MaxNest is a natural number):
`TypeCorrect`; `Coalesced` (ScheduledOnce); `PollsAreLegal`
(PolledOnlyWhilePending); `ParksOnlyIdle` (ParkedOnlyWhenIdle), for any tasks,
threads and depth of nesting; and `NoLostWake` (WakeNotLost) for every task that is
not in `Reentrant`, whatever the tasks in it do. The invariants are built one on another.
ScheduledOnce alone is not inductive: one must know that `queued` is set exactly
while a task is scheduled somewhere (its id in the queue, in the hands of the one
thread that won the swap, or popped and not yet cleared). Legal polls need that a
task on the stack of polls is not in the registry and that a popped id is either
in the registry or skipped. No lost wake combines them: an unanswered wake of a
live task is a thread between load and push, an id in the queue, or a popped id.

Its second part is about `JoinHandle`, from `JoinHandleAssumption` (the empty slot is
no waker): `JoinTypeCorrect`, `NoLostAwaiter`, `ReadyNeverEmpty`, `HonestOutcome`, `DropSettles`.
One inductive invariant in three parts: where the waker is (a poll that has
registered and finds the flags pending leaves its waker in the slot until the
flags change, and who is about to wake has changed them), where the result is
(stored before READY, taken by one Ok), and who cancelled.

Its third part is about `Transport`, from `TransportAssumption`: `NoLostReader` (ReaderNotLost),
`BytesArriveInOrder` (BytesInOrder) and `FakeIoIsAPipe`, the refinement of `Pipe`
in each direction, for any sizes and also for a transport that moves less than it is
asked to. `Control` is about the two flags that are accessed outside the lock: a reader
between its look at an open end and its registration holds the lock, so a peer that closed
meanwhile is still to take it and to wake. `Bytes` says that what is read, in flight and
queued is strictly increasing and nothing but what the peer has sent so far.

**WheelProofs**, from `WheelAssumption` and `TimerWheelAssumption`, for
`MultiLevel` (LEVELS >= 2; every wheel in the repository has four, and the clamped
top slot of a wheel of one level fires early): `WheelIsSound` (WheelSound) and
`WheelImplementsService`, the refinement of `TimerService`: an entry fires on exactly
the tick of its deadline, for any number of slots, levels, entries and ticks.
`Tidy` says what the lists are; `Standing` where an entry is: in a slot that the
wheel visits after now and not after its deadline, or, if armed when already due,
in the slot of the next tick. WheelSound alone is not enough in the middle of a
tick, where `Standing` does not hold: `Cascading(k)` replaces it, which allows
entries the tick has reached in the slot it drains and in the slots of the levels
above k that it has yet to cascade. Each iteration of a cascade takes `Cascading(k)`
to the next k, and the drain takes it back to `Standing`. The slot arithmetic is that of
`Block`: a slot of a level is a block of SLOTS^level ticks, and visiting times are its
multiples. The step of the refinement is an induction over the ticks of an advance.

**TimerProofs**, from the assumptions of TimerFutures and TimerDriver, for
`MultiLevel`: `EntriesStaySound`, `SleepersStayArmed`, `IntervalsKeepPeriod` for any
number of futures and any behaviour of intervals; `DueTimersFireInTime`,
`SleepsAreLongEnough`, `RetriesKeepPolicy` for the driver, any cap, clock and policy.
The wheel enters by four facts only (a new wheel, insert, remove, a run of ticks),
taken from WheelProofs. `Linked` ties `registered` to the wheel; `Armed` says that a waker
still owed is the one in the linked entry; `Spent` and `Paced` are the intervals.
For the driver `Lag` bounds how far the wheel is behind the clock at each point of the
loop, and is what makes lateness, earliness (`Promises`) and the delays of a retry
(`Backoff`) inductive.

**TlsProofs**, from `TlsAssumption`: `TlsTypes`, without a hypothesis;
`PlaintextIsConserved` (PlaintextConserved) and `EofIsComplete`
(CleanEofIsComplete) while `WritesFit`: no write exceeds the engine's buffer (those
of `MCTlsLargeWrite.cfg` do). `Control` is what one end knows of itself (a
pulled buffer is within its length, a dropped end calls nothing); `Stream` is what the two
know of each other: everything between them is, in order, the rest of one flight, then
plaintext, then at most one close_notify. A dropped peer leaves a prefix of
it. Most of the module is about `OfKind` and `Processed`, the recursive
functions that stand for the engine.

**WebSocketProofs**, from `WebSocketAssumption`. `OneClose`
(ClosedWithOneClose): `close_sent` is set before the Close is written, so `CloseInv`
relates it to the write in progress: a set flag means the Close is being
written, has been, or the peer is gone; an echo in progress is the first Close.
`WholeMessages` (MessagesWhole), without a hypothesis, and `NothingLost`
(MessagesConserved) for `AllAttentive`: an end whose peer fragments neither
cancels a recv nor asks for a Pong, by a Ping or a keepalive, because each makes recv
forget a first fragment (`websocket_fragments`). `MessageInv` numbers the parts
of all messages of an end. There is a running count along the frames in the buffer and on
the wire, each frame starting where the one before it ended: `StreamAt`. The
count begins at the part at which recv decodes, which is behind the last message it
returned, or one further if it has, or has lost, a first fragment: `PlaceAt`. A lost
fragment makes the next part a protocol error, so a message is never glued together
from two. Conservation is then arithmetic on spans of parts.

**HttpProofs**, from `HttpAssumption` and `MessageAssumption`, for any tasks, hosts
(ours or foreign), connections, requests, responses, framings, cuts and limits:
`HandlersStayInStep` (RequestsInStep), `ResponsesAnswerRequests`
(ResponseIsForRequest), `PoolStaysInStep` (PooledInStep). None of the three says
what is still on a connection, which is what decides them later; the invariant
`HttpInv` does. On the way to a server there is the rest of the body in hand
(`Reads`: the reader stands behind the first q units of it, `Stands` says which q that
is in each framing) and behind it every request not yet handled (`Queued`), all of it
or, from a client that left, a beginning (`Arrives`). On the way to a client there
is nothing (`Resting`: the pool, and a call before it sends), nothing as yet
(`Unanswered`) or the one answer, then the rest of its body and nothing
else (`Answered`, `Answering`). `Owned` says that a connection has one user, a call or
a place in a pool, so nobody else can put anything on it. A body that was
read to its end therefore leaves the next head in front (server) or a silent connection
(client), and only such a connection goes back to the pool. `IdsDiffer` and
`ResultTrue` carry the answer a caller was given on to the states after it.
`MessageAssumption` is about the messages put in: a sender puts behind a head the body it
announces, or a part of it if it breaks off, and none where HTTP has none. The code
leaves that to its users: `serve_connection` writes the body of a 204, and of an answer to
HEAD, if a handler supplies one, and the connection is then out of step.

**WsOpeningProofs**, from the assumptions of HttpHead, WsFrame and WsOpening, for any
offers, requests, messages, masks, read sizes, limits and length scales:
`WsReadsDoNotDecide` (HeadIndependentOfReads), `WsOpens` (OwnHandshakeOpens),
`WsMessagesIntact` (MessagesIntact), `WsNobodyWaits` (NobodyWaitsForArrived).
The proof begins with what the operators do. What the parser says of a beginning of a
head is `Incomplete` until the head's end has arrived and then what it says of the
head alone, whatever follows (the end found is the first, and no header line
begins with a space); what `RenderClientRequest` and `RenderAcceptResponse` write is
read back, each header by its name; `Decode` of the beginning of an encoded frame asks for more
until the frame is there and then returns that frame and its length, in each form of
the length (the digits of `BigEndian` sum up to the number, a mask applied twice
is none). On these stands the invariant `WsInv`. `ParsedIs`: what an end makes of
its buffer is `Parse` of it, never something older. `NotYet`: a server that is still
opening has, read or on its way, exactly the request, and the client has nothing before the
server has answered. `Agreed`: the codec of each end that is open is what follows from
the one answer. `Links`: the bytes that an end has read or that are on their way to it are the
answer, if it has not parsed that, and then a chain of frames, one for each
message sent and not yet handed out, each compressed in the context that its
receiver will have reached by then; a bad frame is at most the last of them. `InOrder`, `Counts` and `Room` say how many
messages that is and how much of it is read. None of the four properties is inductive without knowing
which bytes are still to come, which is what `Links` and `NotYet` say.
The assumptions are about what is put in. A header value is in one line with no white space
around it; the limit on heads leaves room for our requests, and behind an answer for what
one read brings along, since the limit counts all of the buffer; another client says nothing
behind its request before it is answered, because the same bytes with more behind them can
exceed the limit; another server names permessage-deflate once; no bad frame is,
however cut, a good one; `MaxMsgs` is at most 1000, so that the tag of a compressed
payload is below 2^12, the width of `Exclusive`.

*Induction over data.* The library's induction theorems take an operator as
parameter. `ProofBasics` derives from the well-foundedness of < on Nat an induction
over sets of numbers (`SetInduction`) and from it what a recursive function on
0..n computes (`Recursion`); the facts about `Relink`, `AdvanceTo`, `Processed`,
`Flatten` and powers are proved by giving the set of the n for which they hold.

Only model-checked: all liveness, which TLAPS 1.4.5 does not prove (neither
fairness nor ENABLED). Every safety property that a passing run checks is also a theorem.

## 5. Not modelled

- Weak memory: the models are sequentially consistent. The executor's
  `queued.store(false, Release)` before a poll and the waker's swap would need a
  memory model to be judged.
- Panics in polls and wakers, a `block_on` nested in a poll, the WASM park, and
  the drop of an executor. The pointer level of the intrusive lists and of
  RawWaker. Wakers called with the wheel's lock held that touch the wheel.
- `next_deadline` reports the minimum over list heads and a registration can fall
  between it and the park; both appear in `TimerDriver`, and LateByLessThanCap
  bounds what they cost. A wheel of one level, which no crate builds, is outside
  the runs. The floating point of a retry's delay.
- A WebSocket write cancelled half way, and the cancelled `fill` of an HTTP
  connection that is used again afterwards: it has grown the buffer by 8192 zero bytes
  before it awaits (`connection.rs:55`).
- `ClientConnection::send` without the pool; a server that sends a body where HTTP
  allows none; the router, which is a lookup.
- zlib, SHA-1 and the TLS engine are external; HTTP/2 wraps a library. The adapters
  convert between traits; macros generate code; TestDriver and the builders of the
  TLS configuration keep no state that others share.

## 6. State of the plan

Done: timer (Wheel, TimerService, TimerWheel, TimerFutures with Interval,
TimerDriver with Retry); Executor; JoinHandle; Transport and Pipe; Tls; HTTP (Http,
HttpFraming, HttpHead); WebSocket with its opening, frames and compression; proofs of
every safety property that the runs check and of the two refinements.

Left: an action for `ClientConnection::send` without the pool; writes of a WebSocket
that are cancelled half way. Liveness stays with TLC.
