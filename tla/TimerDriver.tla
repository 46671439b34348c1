---------------------------- MODULE TimerDriver -----------------------------
(***************************************************************************)
(* The global driver thread (tpt-async-timer/src/driver.rs) over the       *)
(* futures of TimerFutures and the wheel they share: real time, the        *)
(* driver's park with its cap, and the registration signal that is meant   *)
(* to interrupt it.                                                        *)
(*                                                                         *)
(* Time is prompt: `clock` moves only while the driver is parked with time *)
(* left and no poll stands between its registration and its signal.  What  *)
(* is early or late here is so on an idle machine too.  The driver's clock *)
(* starts with the first call.  REGISTRATIONS' counter is never read, so   *)
(* only its notify is kept.  Some of the sleeps are those of a retry loop  *)
(* (retry.rs) around an operation that may fail.                           *)
(***************************************************************************)
EXTENDS TimerFutures

CONSTANTS CAP,        \* the longest park, 100 ticks in driver_loop
          Durations,  \* what callers ask sleep and timeout for, in ticks
          Retrying,   \* the sleeps of retry loops, one for each loop
          MaxAttempts, InitialDelay, MaxDelay, Multiplier,  \* the RetryPolicy
          MaxClock    \* bound on real time

Lesser(a, b) == IF a < b THEN a ELSE b

\* multiplier.powi(n)
Growth[n \in 0..MaxAttempts] == IF n = 0 THEN 1 ELSE Multiplier * Growth[n - 1]

\* RetryPolicy::delay_for
DelayFor(n) == Lesser(InitialDelay * Growth[n - 1], MaxDelay)

ASSUME TimerDriverAssumption ==
  /\ Retrying \subseteq Sleeps
  /\ {MaxAttempts, InitialDelay, MaxDelay, Multiplier} \subseteq Nat
  /\ CAP \in Nat \ {0}
  /\ Durations \subseteq Nat
  /\ MaxClock \in Nat
  /\ \A d \in Durations \cup {MaxDelay} : MaxClock + d <= MaxTick

VARIABLES
  clock,      \* StdClock::now_ticks
  dpc,        \* where the driver thread is
  cap,        \* cap_ms of this round
  wakeAt,     \* when the park of this round ends by itself
  notifying,  \* futures registered but whose on_registration is still to come
  promised,   \* history: the clock at the call plus the duration asked for
  shortfall,  \* history: how far before that time a future resolved
  attempt,    \* the attempt a retry loop is at, 0 if it does not run
  failed      \* history: when its last attempt failed

loopVars == <<clock, dpc, cap, wakeAt, notifying, promised, shortfall>>
retryVars == <<attempt, failed>>
driverVars == <<loopVars, retryVars>>
allVars == <<vars, driverVars>>

-----------------------------------------------------------------------------
DriverInit ==
  /\ Init
  /\ clock = 0
  /\ dpc = "off"
  /\ cap = 0
  /\ wakeAt = 0
  /\ notifying = {}
  /\ promised = [f \in Futures |-> 0]
  /\ shortfall = [f \in Futures |-> 0]
  /\ attempt = [f \in Retrying |-> 0]
  /\ failed = [f \in Retrying |-> 0]

\* sleep and timeout: start the driver on first use; the deadline counts from
\* the wheel's tick, not from the clock.
Call(f, dur) ==
  /\ New(f, wheel.current_tick + dur)
  /\ promised' = [promised EXCEPT ![f] = clock + dur]
  /\ dpc' = IF dpc = "off" THEN "advance" ELSE dpc
  /\ UNCHANGED <<clock, cap, wakeAt, notifying, shortfall>>

CallFor(f, dur) == f \notin Retrying /\ Call(f, dur) /\ UNCHANGED retryVars

\* A poll; one that registers signals the driver in a step of its own, after
\* the wheel's lock is released.  A task is polled when woken or new.
PollOnce(f, k) ==
  /\ f \notin notifying
  /\ owed[f] = NoWaker
  /\ Poll(f, k)
  /\ notifying' = IF ~registered[f] /\ registered'[f] THEN notifying \cup {f} ELSE notifying
  /\ IF status'[f] = "done"
     THEN /\ shortfall' = [shortfall EXCEPT ![f] = promised[f] - Lesser(promised[f], clock)]
          /\ promised' = [promised EXCEPT ![f] = 0]
     ELSE UNCHANGED <<promised, shortfall>>
  /\ UNCHANGED <<clock, dpc, cap, wakeAt, retryVars>>

\* on_registration: the signal reaches the driver only if it is parked.
OnRegistration(f) ==
  /\ f \in notifying
  /\ notifying' = notifying \ {f}
  /\ dpc' = IF dpc = "waiting" THEN "advance" ELSE dpc
  /\ UNCHANGED <<vars, clock, cap, wakeAt, promised, shortfall, retryVars>>

CompleteInner(f) == InnerReady(f) /\ UNCHANGED driverVars

DropIdle(f) ==
  /\ f \notin notifying
  /\ DropFuture(f)
  /\ promised' = [promised EXCEPT ![f] = 0]
  /\ shortfall' = [shortfall EXCEPT ![f] = 0]
  /\ UNCHANGED <<clock, dpc, cap, wakeAt, notifying>>

EndRetry(f) ==
  /\ attempt' = [g \in Retrying |-> IF g = f THEN 0 ELSE attempt[g]]
  /\ failed' = [g \in Retrying |-> IF g = f THEN 0 ELSE failed[g]]

\* A future is dropped between polls, for instance by a select or a cancel,
\* and a retry loop with the sleep it awaits.
DropBetweenPolls(f) == DropIdle(f) /\ EndRetry(f)

-----------------------------------------------------------------------------
\* retry is called, and calls its operation.
Retry(f) ==
  /\ f \in Retrying /\ attempt[f] = 0 /\ status[f] = "absent"
  /\ attempt' = [attempt EXCEPT ![f] = 1]
  /\ UNCHANGED <<vars, loopVars, failed>>

\* The operation is running: no sleep is.
InOperation(f) == f \in Retrying /\ attempt[f] > 0 /\ status[f] = "absent"

\* It returns Ok, or the retry loop is cancelled in it.
AttemptOk(f) == InOperation(f) /\ EndRetry(f) /\ UNCHANGED <<vars, loopVars>>

\* Mutant: the growth is one attempt behind.
AttemptErrShortDelay(f) ==
  /\ InOperation(f)
  /\ \/ attempt[f] >= MaxAttempts /\ EndRetry(f) /\ UNCHANGED <<vars, loopVars>>
     \/ /\ attempt[f] < MaxAttempts
        /\ Call(f, DelayFor(IF attempt[f] > 1 THEN attempt[f] - 1 ELSE 1))
        /\ failed' = [failed EXCEPT ![f] = clock]
        /\ UNCHANGED attempt

\* It fails: the last error is returned, after any other comes a sleep.
AttemptErr(f) ==
  /\ InOperation(f)
  /\ \/ attempt[f] >= MaxAttempts /\ EndRetry(f) /\ UNCHANGED <<vars, loopVars>>
     \/ /\ attempt[f] < MaxAttempts
        /\ Call(f, DelayFor(attempt[f]))
        /\ failed' = [failed EXCEPT ![f] = clock]
        /\ UNCHANGED attempt

\* The sleep is over: it is dropped and the operation called again.
RetryAgain(f) ==
  /\ f \in Retrying /\ status[f] = "done"
  /\ DropIdle(f)
  /\ attempt' = [attempt EXCEPT ![f] = @ + 1]
  /\ UNCHANGED failed

RetryStep(f) == Retry(f) \/ AttemptOk(f) \/ AttemptErr(f) \/ RetryAgain(f)

-----------------------------------------------------------------------------

\* Catch the wheel up to real time; this wakes every due timer.
DriverAdvance ==
  /\ dpc = "advance"
  /\ \E step \in {AdvanceTo(wheel, deadline, clock)} : Drained(step)
  /\ dpc' = "cap"
  /\ UNCHANGED <<clock, cap, wakeAt, notifying, promised, shortfall, retryVars>>

\* Mutant: the park lasts until the next deadline, however far it is.
DriverCapUncapped ==
  LET heads == HeadDeadlines(wheel, deadline)
  IN  /\ dpc = "cap"
      /\ \/ heads = {} /\ cap' = CAP
         \/ \E d \in heads :
              /\ \A other \in heads : d <= other
              /\ cap' = IF d > wheel.current_tick THEN d - wheel.current_tick ELSE 0
      /\ dpc' = "park"
      /\ UNCHANGED <<vars, clock, wakeAt, notifying, promised, shortfall, retryVars>>

\* How long to park: until the deadline next_deadline reports, at most CAP.
DriverCap ==
  LET heads == HeadDeadlines(wheel, deadline)
  IN  /\ dpc = "cap"
      /\ \/ heads = {} /\ cap' = CAP
         \/ \E d \in heads :
              /\ \A other \in heads : d <= other
              /\ cap' = Lesser(CAP, IF d > wheel.current_tick
                                    THEN d - wheel.current_tick ELSE 0)
      /\ dpc' = "park"
      /\ UNCHANGED <<vars, clock, wakeAt, notifying, promised, shortfall, retryVars>>

\* Lock REGISTRATIONS and wait, without another look at the wheel.
DriverPark ==
  /\ dpc = "park"
  /\ dpc' = "waiting"
  /\ wakeAt' = clock + cap
  /\ UNCHANGED <<vars, clock, cap, notifying, promised, shortfall, retryVars>>

\* The park ends by itself: in time or spuriously early.
DriverWake ==
  /\ dpc = "waiting"
  /\ dpc' = "advance"
  /\ UNCHANGED <<vars, clock, cap, wakeAt, notifying, promised, shortfall, retryVars>>

TimePasses ==
  /\ dpc = "waiting" /\ clock < wakeAt /\ notifying = {}
  /\ clock < MaxClock
  /\ clock' = clock + 1
  /\ UNCHANGED <<vars, dpc, cap, wakeAt, notifying, promised, shortfall, retryVars>>

DriverLoop == DriverAdvance \/ DriverCap \/ DriverPark \/ DriverWake

DriverNext ==
  \/ \E f \in Futures, dur \in Durations : CallFor(f, dur)
  \/ \E f \in Futures, k \in Wakers : PollOnce(f, k)
  \/ \E f \in Futures : OnRegistration(f) \/ CompleteInner(f) \/ DropBetweenPolls(f) \/ RetryStep(f)
  \/ DriverLoop
  \/ TimePasses

DriverSpec == DriverInit /\ [][DriverNext]_allVars

-----------------------------------------------------------------------------
\* Types of the driver's own state.
DriverTypeOK ==
  /\ TypeOK
  /\ clock \in 0..MaxClock
  /\ dpc \in {"off", "advance", "cap", "park", "waiting"}
  /\ cap \in 0..CAP
  /\ wakeAt \in 0..(MaxClock + CAP)
  /\ notifying \in SUBSET Futures
  /\ promised \in [Futures -> 0..MaxTick]
  /\ shortfall \in [Futures -> 0..MaxTick]
  /\ attempt \in [Retrying -> Nat]
  /\ failed \in [Retrying -> 0..MaxClock]

\* A due timer never waits a whole park: whatever registration signal the
\* driver missed, and whatever next_deadline failed to see, the cap brings it
\* back before a registered deadline is CAP ticks old.
LateByLessThanCap ==
  \A f \in Registered(wheel) : clock < deadline[f] + CAP

\* The wheel lags real time by at most one park, and a sleep that counts from
\* the lagging tick ends early by no more than that.
EarlyByAtMostCap ==
  /\ DriverTypeOK
  /\ wheel.current_tick <= clock /\ clock <= wheel.current_tick + CAP
  /\ \A f \in Sleeps : status[f] = "done" => shortfall[f] <= CAP

\* retry calls its operation at most max_attempts times, once if that is 0,
\* and after a failure not before the policy's delay has passed, less the lag
\* of the wheel.
RetryWaits ==
  \A f \in Retrying :
    /\ attempt[f] <= MaxAttempts \/ attempt[f] = 1
    /\ InOperation(f) /\ attempt[f] > 1 =>
         clock + CAP >= failed[f] + DelayFor(attempt[f] - 1)
=============================================================================
