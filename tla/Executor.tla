------------------------------ MODULE Executor ------------------------------
(***************************************************************************)
(* LocalExecutor (tpt-async-executor/src/lib.rs): one thread polls the     *)
(* block_on future and the spawned tasks, any thread may call their        *)
(* wakers.  A step is one access to state that threads share: the atomics  *)
(* `done`, `queued` and `notified`, and the run queue behind its mutex     *)
(* with its condition variable.  The registry belongs to the executor      *)
(* thread, so accesses to it ride along with a neighbouring step.          *)
(*                                                                         *)
(* What a future does inside poll is free: it may spawn, call any waker it *)
(* has seen, return Ready or Pending and, if it is one of Reentrant, call  *)
(* run_until_stalled again through a cloned handle (up to MaxNest deep).   *)
(***************************************************************************)
EXTENDS Integers, Sequences, FiniteSets

CONSTANTS Tasks,    \* ids that may be spawned; each is allocated once
          Main,     \* the future passed to block_on
          Threads,  \* threads other than the executor's that hold wakers
          Exec,     \* the executor thread, when a poll calls a waker
          Reentrant, \* futures whose poll may call run_until_stalled
          MaxNest   \* bound on run_until_stalled calls nested in polls

ASSUME ExecutorAssumption ==
  /\ Main \notin Tasks
  /\ Exec \notin Threads
  /\ Reentrant \subseteq Tasks \cup {Main}
  /\ MaxNest \in Nat

Futures == Tasks \cup {Main}
Callers == Threads \cup {Exec}

VARIABLES
  queue,     \* ids ready to be polled; guarded by the mutex
  queued,    \* TaskState::queued
  done,      \* TaskState::done
  notified,  \* the flag in block_on's MainWaker
  registry,  \* tasks whose future is parked in the registry
  spawned,   \* ids handed out by allocate_id
  xpc,       \* where the executor thread is
  cur,       \* the id popped by poll_scheduled_tasks
  frames,    \* futures being polled, innermost last
  blocking,  \* inside block_on
  handed,    \* futures that have seen a poll, so that wakers of them exist
  wpc,       \* where each thread is inside wake_target
  target,    \* whom it is waking
  owed       \* history: wakes of a future not yet followed by a poll of it

execVars == <<registry, spawned, cur, frames, blocking>>
vars == <<queue, queued, done, notified, xpc, handed, wpc, target, owed, execVars>>

Nobody == Main   \* the value of cur and target before their first use

XPC == {"idle", "swap", "body", "pop", "clear", "check", "parking", "waiting"}
WPC == {"idle", "swap", "push", "notify"}

\* The queue mutex is held across two steps only between block_on's last
\* look at `notified` and the wait that releases it.
Unlocked == xpc # "parking"

\* Condvar::notify_all: block_on leaves its wait and starts its loop over.
NotifyAll == xpc' = IF xpc = "waiting" THEN "swap" ELSE xpc

Innermost == frames[Len(frames)]
Caller(s) == SubSeq(s, 1, Len(s) - 1)

\* A poll runs on the executor thread and is not inside a waker call.
InBody == xpc = "body" /\ wpc[Exec] = "idle"

-----------------------------------------------------------------------------
Init ==
  /\ queue = <<>>
  /\ queued = [t \in Tasks |-> FALSE]
  /\ done = [t \in Tasks |-> FALSE]
  /\ notified = FALSE
  /\ registry = {}
  /\ spawned = {}
  /\ xpc = "idle"
  /\ cur = Nobody
  /\ frames = <<>>
  /\ blocking = FALSE
  /\ handed = {}
  /\ wpc = [th \in Callers |-> "idle"]
  /\ target = [th \in Callers |-> Nobody]
  /\ owed = [f \in Futures |-> FALSE]

\* enqueue, on the executor thread: inside a poll or between calls.  Nobody
\* waits while it runs, so its notify_all finds no waiter.
Spawn(t) ==
  /\ InBody \/ xpc = "idle"
  /\ t \notin spawned
  /\ spawned' = spawned \cup {t}
  /\ queued' = [queued EXCEPT ![t] = TRUE]
  /\ registry' = registry \cup {t}
  /\ queue' = Append(queue, t)
  /\ owed' = [owed EXCEPT ![t] = TRUE]
  /\ UNCHANGED <<done, notified, xpc, cur, frames, blocking, handed, wpc, target>>

\* block_on is called: its flag starts true, and it has a waker of its own.
BlockOn ==
  /\ xpc = "idle"
  /\ notified' = TRUE
  /\ blocking' = TRUE
  /\ xpc' = "swap"
  /\ handed' = handed \ {Main}
  /\ owed' = [owed EXCEPT ![Main] = TRUE]
  /\ UNCHANGED <<queue, queued, done, registry, spawned, cur, frames, wpc, target>>

\* run_until_stalled, between calls or nested in a poll.
RunUntilStalled ==
  /\ \/ xpc = "idle"
     \/ InBody /\ Innermost \in Reentrant /\ Len(frames) <= MaxNest
  /\ xpc' = "pop"
  /\ UNCHANGED <<queue, queued, done, notified, handed, wpc, target, owed, execVars>>

\* Step 1 of block_on's loop: poll the main future if its waker fired.
SwapNotified ==
  /\ xpc = "swap"
  /\ notified' = FALSE
  /\ IF notified
     THEN /\ xpc' = "body"
          /\ frames' = <<Main>>
          /\ handed' = handed \cup {Main}
          /\ owed' = [owed EXCEPT ![Main] = FALSE]
     ELSE /\ xpc' = "pop"
          /\ UNCHANGED <<frames, handed, owed>>
  /\ UNCHANGED <<queue, queued, done, registry, spawned, cur, blocking, wpc, target>>

\* Mutant: the entry stays in the registry while its future is polled.
PopTaskKeepsEntry ==
  /\ xpc = "pop" /\ queue # <<>>
  /\ queue' = Tail(queue)
  /\ cur' = Head(queue)
  /\ xpc' = IF Head(queue) \in registry THEN "clear" ELSE xpc
  /\ UNCHANGED <<queued, done, notified, registry, spawned, frames, blocking, handed,
                 wpc, target, owed>>

\* poll_scheduled_tasks pops an id and poll_task takes its entry out of the
\* registry; an id without an entry is skipped.
PopTask ==
  /\ xpc = "pop" /\ queue # <<>>
  /\ queue' = Tail(queue)
  /\ cur' = Head(queue)
  /\ IF Head(queue) \in registry
     THEN xpc' = "clear" /\ registry' = registry \ {Head(queue)}
     ELSE UNCHANGED <<xpc, registry>>
  /\ UNCHANGED <<queued, done, notified, spawned, frames, blocking, handed,
                 wpc, target, owed>>

\* Mutant: `queued` is not cleared before the poll.
PollTaskKeepsQueued ==
  /\ xpc = "clear"
  /\ owed' = [owed EXCEPT ![cur] = FALSE]
  /\ handed' = handed \cup {cur}
  /\ frames' = Append(frames, cur)
  /\ xpc' = "body"
  /\ UNCHANGED <<queue, queued, done, notified, registry, spawned, cur, blocking,
                 wpc, target>>

\* poll_task: queued.store(false), then poll the future.
PollTask ==
  /\ xpc = "clear"
  /\ queued' = [queued EXCEPT ![cur] = FALSE]
  /\ owed' = [owed EXCEPT ![cur] = FALSE]
  /\ handed' = handed \cup {cur}
  /\ frames' = Append(frames, cur)
  /\ xpc' = "body"
  /\ UNCHANGED <<queue, done, notified, registry, spawned, cur, blocking, wpc, target>>

\* The poll in progress returns Pending: a task goes back to the registry.
ReturnPending ==
  /\ InBody
  /\ registry' = registry \cup ({Innermost} \ {Main})
  /\ frames' = Caller(frames)
  /\ xpc' = "pop"
  /\ UNCHANGED <<queue, queued, done, notified, spawned, cur, blocking, handed,
                 wpc, target, owed>>

\* The poll returns Ready: a task is done and its entry dropped; block_on
\* returns at once, whatever is still queued.
ReturnReady ==
  /\ InBody
  /\ frames' = Caller(frames)
  /\ IF Innermost = Main
     THEN /\ xpc' = "idle" /\ blocking' = FALSE
          /\ UNCHANGED done
     ELSE /\ done' = [done EXCEPT ![Innermost] = TRUE]
          /\ xpc' = "pop"
          /\ UNCHANGED blocking
  /\ UNCHANGED <<queue, queued, notified, registry, spawned, cur, handed,
                 wpc, target, owed>>

\* poll_scheduled_tasks finds the queue empty and returns to its caller: the
\* poll that nested it, block_on's step 3, or whoever called the executor.
QueueDrained ==
  /\ xpc = "pop" /\ queue = <<>>
  /\ xpc' = IF frames # <<>> THEN "body" ELSE IF blocking THEN "check" ELSE "idle"
  /\ UNCHANGED <<queue, queued, done, notified, handed, wpc, target, owed, execVars>>

\* Mutant: the flag is not looked at again under the lock.
CheckQueueOnly ==
  /\ xpc = "check"
  /\ xpc' = IF queue # <<>> THEN "swap" ELSE "parking"
  /\ UNCHANGED <<queue, queued, done, notified, handed, wpc, target, owed, execVars>>

\* Step 3: under the queue lock, loop again if anything is runnable.
Check ==
  /\ xpc = "check"
  /\ xpc' = IF notified \/ queue # <<>> THEN "swap" ELSE "parking"
  /\ UNCHANGED <<queue, queued, done, notified, handed, wpc, target, owed, execVars>>

\* park: wait_timeout releases the lock and waits in one step.
Park ==
  /\ xpc = "parking"
  /\ xpc' = "waiting"
  /\ UNCHANGED <<queue, queued, done, notified, handed, wpc, target, owed, execVars>>

\* The wait ends by itself: IDLE_CAP elapsed, or spuriously.
WaitTimesOut ==
  /\ xpc = "waiting"
  /\ xpc' = "swap"
  /\ UNCHANGED <<queue, queued, done, notified, handed, wpc, target, owed, execVars>>

-----------------------------------------------------------------------------
\* A thread calls a task's waker: wake_target loads `done` first.
WakeTask(th, t) ==
  /\ wpc[th] = "idle" /\ t \in handed /\ t # Main
  /\ th = Exec => xpc = "body"
  /\ ~done[t]
  /\ wpc' = [wpc EXCEPT ![th] = "swap"]
  /\ target' = [target EXCEPT ![th] = t]
  /\ owed' = [owed EXCEPT ![t] = TRUE]
  /\ UNCHANGED <<queue, queued, done, notified, xpc, handed, execVars>>

\* Mutant: the previous value of the flag is ignored.
SwapQueuedBlind(th) ==
  /\ wpc[th] = "swap"
  /\ queued' = [queued EXCEPT ![target[th]] = TRUE]
  /\ wpc' = [wpc EXCEPT ![th] = "push"]
  /\ UNCHANGED <<queue, done, notified, xpc, handed, target, owed, execVars>>

\* queued.swap(true): a task already scheduled needs nothing more.
SwapQueued(th) ==
  /\ wpc[th] = "swap"
  /\ queued' = [queued EXCEPT ![target[th]] = TRUE]
  /\ wpc' = [wpc EXCEPT ![th] = IF queued[target[th]] THEN "idle" ELSE "push"]
  /\ UNCHANGED <<queue, done, notified, xpc, handed, target, owed, execVars>>

\* Mutant: the parked executor is not notified of the push.
PushSilent(th) ==
  /\ wpc[th] = "push" /\ Unlocked
  /\ queue' = Append(queue, target[th])
  /\ wpc' = [wpc EXCEPT ![th] = "idle"]
  /\ UNCHANGED <<queued, done, notified, xpc, handed, target, owed, execVars>>

\* Under the lock: push the id and release the parked executor.
Push(th) ==
  /\ wpc[th] = "push" /\ Unlocked
  /\ queue' = Append(queue, target[th])
  /\ NotifyAll
  /\ wpc' = [wpc EXCEPT ![th] = "idle"]
  /\ UNCHANGED <<queued, done, notified, handed, target, owed, execVars>>

\* A thread calls the main waker: the flag is set before the lock is taken.
WakeMain(th) ==
  /\ wpc[th] = "idle" /\ Main \in handed
  /\ th = Exec => xpc = "body"
  /\ blocking
  /\ notified' = TRUE
  /\ wpc' = [wpc EXCEPT ![th] = "notify"]
  /\ target' = [target EXCEPT ![th] = Main]
  /\ owed' = [owed EXCEPT ![Main] = TRUE]
  /\ UNCHANGED <<queue, queued, done, xpc, handed, execVars>>

\* wake_target for the main future: take the lock, notify.
NotifyMain(th) ==
  /\ wpc[th] = "notify" /\ Unlocked
  /\ NotifyAll
  /\ wpc' = [wpc EXCEPT ![th] = "idle"]
  /\ UNCHANGED <<queue, queued, done, notified, handed, target, owed, execVars>>

-----------------------------------------------------------------------------
Calls == BlockOn \/ RunUntilStalled \/ \E t \in Tasks : Spawn(t)

Loop == SwapNotified \/ PopTask \/ PollTask \/ QueueDrained \/ Check \/ Park

Return == ReturnPending \/ ReturnReady

Wake(th) == SwapQueued(th) \/ Push(th) \/ NotifyMain(th)

Next ==
  \/ Calls \/ Loop \/ Return \/ WaitTimesOut
  \/ \E th \in Callers :
       \/ Wake(th)
       \/ WakeMain(th)
       \/ \E t \in Tasks : WakeTask(th, t)

Spec == Init /\ [][Next]_vars

\* The executor thread and the threads inside a waker call keep running, a
\* waker call eventually gets the mutex, and a poll eventually returns.  No
\* wake is promised, nor that the wait ever times out.
Fairness ==
  /\ WF_vars(Loop)
  /\ SF_vars(Return)
  /\ \A th \in Callers : /\ WF_vars(SwapQueued(th))
                         /\ SF_vars(Push(th))
                         /\ SF_vars(NotifyMain(th))

FairSpec == Spec /\ Fairness

-----------------------------------------------------------------------------
\* Every variable has its type; a popped or woken id is that of a task.
TypeOK ==
  /\ queue \in Seq(Tasks)
  /\ queued \in [Tasks -> BOOLEAN]
  /\ done \in [Tasks -> BOOLEAN]
  /\ notified \in BOOLEAN
  /\ registry \in SUBSET Tasks
  /\ spawned \in SUBSET Tasks
  /\ xpc \in XPC
  /\ cur \in Futures
  /\ xpc = "clear" => cur \in Tasks
  /\ frames \in Seq(Futures)
  /\ xpc = "body" => frames # <<>>
  /\ blocking \in BOOLEAN
  /\ handed \in SUBSET Futures
  /\ wpc \in [Callers -> WPC]
  /\ target \in [Callers -> Futures]
  /\ \A th \in Callers : wpc[th] \in {"swap", "push"} => target[th] \in Tasks
  /\ owed \in [Futures -> BOOLEAN]

Within(s, x) == \E i \in 1..Len(s) : s[i] = x
Distinct(s)    == \A i, j \in 1..Len(s) : s[i] = s[j] => i = j

\* The three places where a task's one claim to a poll can be.
InQueue(t)     == Within(queue, t)
Pushing(th, t) == wpc[th] = "push" /\ target[th] = t
Taken(t)       == xpc = "clear" /\ cur = t
Claimed(t)     == InQueue(t) \/ Taken(t) \/ \E th \in Callers : Pushing(th, t)

\* Duplicate wakes coalesce into a single poll: however many threads wake a
\* task, it is scheduled at most once, whether its id is in the queue, in the
\* hands of a thread that won the swap, or popped and not yet polled.
ScheduledOnce ==
  /\ Distinct(queue)
  /\ \A t \in Tasks : Taken(t) => ~InQueue(t)
  /\ \A t \in Tasks, th \in Callers :
       Pushing(th, t) => /\ ~InQueue(t)
                         /\ ~Taken(t)
                         /\ \A th2 \in Callers : Pushing(th2, t) => th2 = th

\* A future is never polled inside its own poll nor after it returned Ready:
\* a task being polled is out of the registry, not done, and once on the
\* stack of nested polls.
PolledOnlyWhilePending ==
  /\ \A t \in Tasks : Within(frames, t) => t \notin registry /\ ~done[t]
  /\ Distinct(frames)
  /\ \A t \in registry : ~done[t]

\* A waker call on a live task that no poll has answered yet is still on its
\* way to one.
WakeAnswered(t) ==
  owed[t] /\ ~done[t] =>
    Claimed(t) \/ \E th \in Callers : wpc[th] = "swap" /\ target[th] = t

\* No wake is lost of a task that does not run the executor in its own poll,
\* whatever the others do.
WakeNotLost == \A t \in Tasks \ Reentrant : WakeAnswered(t)

\* The executor sleeps only when there is nothing to do, so it never depends
\* on IDLE_CAP: while it waits the queue is empty, and a main future that was
\* notified has a thread about to take the lock and notify.
ParkedOnlyWhenIdle ==
  xpc = "waiting" =>
    /\ queue = <<>>
    /\ notified => \E th \in Callers : wpc[th] = "notify"

\* A woken task that does not run the executor itself is polled again, without
\* help from the wait's timeout, unless block_on returns first.
WokenTaskIsPolled ==
  \A t \in Tasks \ Reentrant : owed[t] ~> (~owed[t] \/ done[t] \/ xpc = "idle")

\* The main future is polled again after its waker fired, without help from
\* the wait's timeout, provided the tasks let the run queue drain.
WokenMainIsPolled ==
  []<>(xpc \in {"check", "parking", "waiting", "idle"}) =>
    (owed[Main] ~> (~owed[Main] \/ xpc = "idle"))

\* What the doc of block_on says: tasks still queued when it returns are
\* dropped, and so cancelled.  In the code they stay in the registry and in
\* the queue, for the next call.
QueuedDroppedOnReturn ==
  [][blocking /\ ~blocking' => \A t \in Tasks : Within(queue, t) => t \notin registry']_vars

\* Whoever is woken, a task or the main future, is polled.
WokenIsPolled == WokenTaskIsPolled /\ WokenMainIsPolled

=============================================================================
