---------------------------- MODULE TimerFutures ----------------------------
(***************************************************************************)
(* The futures that register into a timer wheel: Sleep (sleep.rs), Timeout *)
(* (timeout.rs) and Interval (interval.rs), polled by tasks while another  *)
(* thread ticks the wheel.  Polls, resets and drops do all their work on   *)
(* the wheel and the entry under the wheel's mutex, so each is one step;   *)
(* between any two of them the wheel may tick, and the task may be polled  *)
(* with another waker.                                                     *)
(*                                                                         *)
(* Each future owns one entry, so a future's name is its entry's name.     *)
(***************************************************************************)
EXTENDS Wheel, FiniteSets

CONSTANTS Sleeps,     \* Sleep futures
          Timeouts,   \* Timeout futures
          Intervals,  \* Interval streams, each with the Sleep inside it
          Behavior,   \* the MissedTickBehavior of each Interval
          Period,     \* the period of the Intervals
          Wakers,     \* wakers a poll may be called with
          NoWaker,    \* Option::None in entry.waker
          Deadlines,  \* absolute deadlines
          MaxTick,    \* bound on current_tick
          MaxLive     \* bound on the futures that exist at a time

Futures == Sleeps \cup Timeouts \cup Intervals

ASSUME TimerFuturesAssumption ==
  /\ IsFiniteSet(Futures)
  /\ Sleeps \cap Timeouts = {} /\ (Sleeps \cup Timeouts) \cap Intervals = {}
  /\ Behavior \in [Intervals -> {"Burst", "Delay", "Skip"}]
  /\ Period \in Nat \ {0}
  /\ NoWaker \notin Wakers
  /\ MaxTick \in Nat /\ MaxLive \in Nat
  /\ Deadlines \subseteq 0..MaxTick

VARIABLES wheel,       \* the value behind the wheel's mutex
          deadline,    \* entry.deadline
          waker,       \* entry.waker
          registered,  \* the future's own flag
          status,      \* where the future is in its life
          inner,       \* a Timeout's wrapped future is ready
          owed,        \* history: the waker of the last Pending poll, until
                       \* that waker is woken
          start, ticks \* history: an Interval's first tick of the wheel, and
                       \* how often it has returned Ready

vars == <<wheel, deadline, waker, registered, status, inner, owed, start, ticks>>

Statuses == {"absent", "live", "done"}

\* entry = TimerEntry::new(d); registered = false
FreshEntry(f, d) ==
  /\ deadline' = [deadline EXCEPT ![f] = d]
  /\ waker' = [waker EXCEPT ![f] = NoWaker]
  /\ registered' = [registered EXCEPT ![f] = FALSE]
  /\ owed' = [owed EXCEPT ![f] = NoWaker]

-----------------------------------------------------------------------------
Init ==
  /\ wheel = NewWheel
  /\ deadline = [f \in Futures |-> 0]
  /\ waker = [f \in Futures |-> NoWaker]
  /\ registered = [f \in Futures |-> FALSE]
  /\ status = [f \in Futures |-> "absent"]
  /\ inner = [f \in Futures |-> FALSE]
  /\ owed = [f \in Futures |-> NoWaker]
  /\ start = [f \in Intervals |-> 0]
  /\ ticks = [f \in Intervals |-> 0]

\* Nothing is registered yet.
Create(f, d) ==
  /\ status[f] = "absent"
  /\ Cardinality({g \in Futures : status[g] # "absent"}) < MaxLive
  /\ status' = [status EXCEPT ![f] = "live"]
  /\ FreshEntry(f, d)
  /\ inner' = [inner EXCEPT ![f] = FALSE]
  /\ UNCHANGED wheel

\* Sleep::new and Timeout::new.
New(f, d) == f \notin Intervals /\ Create(f, d) /\ UNCHANGED <<start, ticks>>

\* Interval::new
NewInterval(f) ==
  /\ f \in Intervals
  /\ Create(f, wheel.current_tick + Period)
  /\ start' = [start EXCEPT ![f] = wheel.current_tick]
  /\ ticks' = [ticks EXCEPT ![f] = 0]

\* The three exits that deregister: the deadline passed, or the wrapped
\* future of a Timeout won.
Resolve(f) ==
  /\ wheel' = RemoveEntry(wheel, f)
  /\ registered' = [registered EXCEPT ![f] = FALSE]
  /\ status' = [status EXCEPT ![f] = "done"]
  /\ owed' = [owed EXCEPT ![f] = NoWaker]
  /\ UNCHANGED <<deadline, waker, inner, start, ticks>>

\* Mutant: the waker of the first poll is kept.
PendFirstWaker(f, k) ==
  /\ waker' = [waker EXCEPT ![f] = IF registered[f] THEN @ ELSE k]
  /\ wheel' = IF registered[f] THEN wheel ELSE InsertEntry(wheel, deadline, f)
  /\ registered' = [registered EXCEPT ![f] = TRUE]
  /\ owed' = [owed EXCEPT ![f] = k]
  /\ UNCHANGED <<deadline, status, inner, start, ticks>>

\* Not due: refresh the stored waker, register on the first such poll.
Pend(f, k) ==
  /\ waker' = [waker EXCEPT ![f] = k]
  /\ wheel' = IF registered[f] THEN wheel ELSE InsertEntry(wheel, deadline, f)
  /\ registered' = [registered EXCEPT ![f] = TRUE]
  /\ owed' = [owed EXCEPT ![f] = k]
  /\ UNCHANGED <<deadline, status, inner, start, ticks>>

\* Mutant: the tick of the deadline itself does not count as reached.
PollSleepStrict(f, k) ==
  /\ f \in Sleeps \cup Intervals /\ status[f] = "live"
  /\ \/ wheel.current_tick > deadline[f] /\ Resolve(f)
     \/ wheel.current_tick <= deadline[f] /\ Pend(f, k)

\* Also the first half of Interval::poll_tick, which polls the Sleep inside.
PollSleep(f, k) ==
  /\ f \in Sleeps \cup Intervals /\ status[f] = "live"
  /\ \/ wheel.current_tick >= deadline[f] /\ Resolve(f)
     \/ wheel.current_tick < deadline[f] /\ Pend(f, k)

\* The wrapped future is polled first; only a pending one looks at the clock.
PollTimeout(f, k) ==
  /\ f \in Timeouts /\ status[f] = "live"
  /\ \/ inner[f] /\ Resolve(f)
     \/ ~inner[f] /\ wheel.current_tick >= deadline[f] /\ Resolve(f)
     \/ ~inner[f] /\ wheel.current_tick < deadline[f] /\ Pend(f, k)

Poll(f, k) == PollSleep(f, k) \/ PollTimeout(f, k)

ResetTo(f, d) ==
  /\ wheel' = RemoveEntry(wheel, f)
  /\ FreshEntry(f, d)
  /\ status' = [status EXCEPT ![f] = "live"]
  /\ UNCHANGED <<inner, start>>

\* Sleep::reset on a pending or a resolved sleep.
Reset(f, d) ==
  /\ f \in Sleeps /\ status[f] # "absent"
  /\ ResetTo(f, d)
  /\ UNCHANGED ticks

\* Mutant: Burst starts from now and Delay from the old deadline.
NextDeadlineSwapped(behavior, old, now) ==
  LET aligned == (now \div Period) * Period + Period
  IN  CASE behavior = "Burst" -> now + Period
        [] behavior = "Delay" -> old + Period
        [] behavior = "Skip"  -> IF aligned > old + Period THEN aligned ELSE old + Period

\* MissedTickBehavior::next_deadline
NextDeadline(behavior, old, now) ==
  LET aligned == (now \div Period) * Period + Period
  IN  CASE behavior = "Burst" -> old + Period
        [] behavior = "Delay" -> now + Period
        [] behavior = "Skip"  -> IF aligned > old + Period THEN aligned ELSE old + Period

\* The second half of poll_tick.  It takes the lock again to read the tick, so
\* the wheel may have moved since the poll of the sleep.
Rearm(f) ==
  /\ f \in Intervals /\ status[f] = "done"
  /\ ResetTo(f, NextDeadline(Behavior[f], deadline[f], wheel.current_tick))
  /\ ticks' = [ticks EXCEPT ![f] = @ + 1]

\* Mutant: Drop forgets to unlink the entry.
DropFutureLinked(f) ==
  /\ status[f] = "live" \/ (f \notin Intervals /\ status[f] = "done")
  /\ FreshEntry(f, 0)
  /\ status' = [status EXCEPT ![f] = "absent"]
  /\ inner' = [inner EXCEPT ![f] = FALSE]
  /\ start' = [g \in Intervals |-> IF g = f THEN 0 ELSE start[g]]
  /\ ticks' = [g \in Intervals |-> IF g = f THEN 0 ELSE ticks[g]]
  /\ UNCHANGED wheel

\* impl Drop for Sleep and for Timeout: the memory of the entry goes away.
\* Not in the middle of a poll_tick.
DropFuture(f) ==
  /\ status[f] = "live" \/ (f \notin Intervals /\ status[f] = "done")
  /\ wheel' = RemoveEntry(wheel, f)
  /\ FreshEntry(f, 0)
  /\ status' = [status EXCEPT ![f] = "absent"]
  /\ inner' = [inner EXCEPT ![f] = FALSE]
  /\ start' = [g \in Intervals |-> IF g = f THEN 0 ELSE start[g]]
  /\ ticks' = [g \in Intervals |-> IF g = f THEN 0 ELSE ticks[g]]

\* The wrapped future becomes ready and wakes the task that last polled it.
InnerReady(f) ==
  /\ f \in Timeouts /\ status[f] = "live" /\ ~inner[f]
  /\ inner' = [inner EXCEPT ![f] = TRUE]
  /\ owed' = [owed EXCEPT ![f] = NoWaker]
  /\ UNCHANGED <<wheel, deadline, waker, registered, status, start, ticks>>

\* The ticking thread: drained entries lose their waker, which is woken.
Drained(step) ==
  LET fired == Range(step.woken)
  IN  /\ wheel' = step.wheel
      /\ waker' = [f \in Futures |-> IF f \in fired THEN NoWaker ELSE waker[f]]
      /\ owed' = [f \in Futures |->
                    IF f \in fired /\ waker[f] = owed[f] THEN NoWaker ELSE owed[f]]
      /\ UNCHANGED <<deadline, registered, status, inner, start, ticks>>

Tick ==
  /\ wheel.current_tick < MaxTick
  /\ \E step \in {AdvanceOne(wheel, deadline)} : Drained(step)

Advance(target) ==
  /\ target > wheel.current_tick
  /\ \E step \in {AdvanceTo(wheel, deadline, target)} : Drained(step)

Next ==
  \/ \E f \in Futures, d \in Deadlines : New(f, d)
  \/ \E f \in Futures, k \in Wakers : Poll(f, k)
  \/ \E f \in Futures, d \in Deadlines : Reset(f, d)
  \/ \E f \in Futures : NewInterval(f) \/ Rearm(f) \/ DropFuture(f) \/ InnerReady(f)
  \/ Tick
  \/ \E target \in 0..MaxTick : Advance(target)

\* The driver keeps ticking (to the bound: what WF_vars(Tick) says, in a form
\* TLC evaluates quickly), and the executor polls a task that was woken or
\* has never been polled; it owes nothing to one that is still waiting.
Fairness ==
  /\ <>(wheel.current_tick = MaxTick)
  /\ \A f \in Futures : WF_vars(\E k \in Wakers : owed[f] = NoWaker /\ Poll(f, k))
  /\ \A f \in Intervals : WF_vars(Rearm(f))

Spec == Init /\ [][Next]_vars

FairSpec == Spec /\ Fairness

-----------------------------------------------------------------------------
\* Types of the futures' fields and of the wheel they share.
TypeOK ==
  /\ wheel.heads \in [Levels -> [Slots -> Seq(Futures)]]
  /\ wheel.current_tick \in 0..MaxTick
  /\ wheel.pending \in Nat
  /\ deadline \in [Futures -> 0..(MaxTick + Period)]
  /\ waker \in [Futures -> Wakers \cup {NoWaker}]
  /\ registered \in [Futures -> BOOLEAN]
  /\ status \in [Futures -> Statuses]
  /\ inner \in [Futures -> BOOLEAN]
  /\ owed \in [Futures -> Wakers \cup {NoWaker}]
  /\ start \in [Intervals -> 0..MaxTick]
  /\ ticks \in [Intervals -> Nat]

\* No sleeper is lost: a task whose last poll returned Pending and whose waker
\* has not been called is still linked in the wheel, with the waker of that
\* last poll (not an earlier one), and its deadline is still ahead.  `poll`
\* registers only once, so an entry the wheel dropped would never come back.
SleeperStillArmed ==
  \A f \in Futures :
    owed[f] # NoWaker =>
      /\ status[f] = "live"
      /\ IsRegistered(wheel, f)
      /\ waker[f] = owed[f]
      /\ wheel.current_tick < deadline[f]

\* No dangling pointer: the wheel links only entries of futures that still
\* exist and are pending ("no dangling pointer remains", sleep.rs), and an
\* entry is linked only while its future's flag says so, so that `link` is
\* never handed an entry that is already in a list.
NoDanglingEntry ==
  \A f \in Registered(wheel) : status[f] = "live" /\ registered[f]

\* `len()` counts the linked entries across polls, resets, drops and ticks.
PendingIsExact == wheel.pending = Cardinality(Registered(wheel))

\* The futures and the wheel they are linked into agree: whatever was polled,
\* reset and dropped in between, no entry dangles and none is miscounted.
EntriesSound == TypeOK /\ NoDanglingEntry /\ PendingIsExact

\* An Interval never ticks more often than its period has passed since it was
\* created, whatever it missed and however late it was polled; a Burst has
\* missed nothing: its next deadline is exactly one period on.
TicksWithinPeriods ==
  \A f \in Intervals :
    status[f] = "live" =>
      /\ ticks[f] * Period <= wheel.current_tick - start[f]
      /\ deadline[f] >= start[f] + (ticks[f] + 1) * Period
      /\ Behavior[f] = "Burst" => deadline[f] = start[f] + (ticks[f] + 1) * Period

\* What the doc of Skip says: the next deadline is the first multiple of the
\* period strictly after now.  The code never goes less than a period beyond
\* the old deadline, which is on that grid only if the Interval was created
\* on it.
SkipIsNextMultiple ==
  [][\A f \in Intervals :
       Behavior[f] = "Skip" /\ Rearm(f) =>
         LET next == deadline'[f]
         IN  /\ next % Period = 0
             /\ wheel.current_tick < next /\ next <= wheel.current_tick + Period]_vars

\* A future that was polled is eventually resolved or dropped, and an Interval
\* ticks: the driver's tick and the one waker call it makes are enough.
PolledFuturesResolve ==
  \A f \in Futures : status[f] = "live" /\ deadline[f] <= MaxTick ~> status[f] # "live"
=============================================================================
