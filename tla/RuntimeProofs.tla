---------------------------- MODULE RuntimeProofs ---------------------------
(***************************************************************************)
(* Proofs about what runs tasks and what tests run them on.                *)
(* About Executor, for any tasks, threads and nesting depth: types, a task *)
(* is scheduled at most once, a future is polled only while it is pending, *)
(* and the executor sleeps only when idle; and, when no poll runs the      *)
(* executor again, no wake is lost.                                        *)
(* About JoinHandle, for any set of wakers: the awaiting task is never     *)
(* left asleep, a poll never finds READY without a result, what the handle *)
(* reports is what happened, and a dropped Task is settled.                *)
(* About Transport, that is FakeIo and the futures of tpt-async-io over    *)
(* it, for every buffer length, every choice of slices, any number of      *)
(* bytes, and reads and writes of any size down to one byte: no wake-up of *)
(* a reader is lost, the bytes arrive once each and in order, and each     *)
(* direction is a Pipe although write_closed is set and read without the   *)
(* mutex of the queue.                                                     *)
(***************************************************************************)
EXTENDS Executor, JoinHandle, Transport, ProofBasics

\* What Append, as Spawn, Push and PollTask use it, does to the elements.
LEMMA AppendFacts ==
  ASSUME NEW S, NEW s \in Seq(S), NEW e \in S
  PROVE  /\ Append(s, e) \in Seq(S)
         /\ Len(Append(s, e)) = Len(s) + 1
         /\ \A i \in 1..Len(s) : Append(s, e)[i] = s[i]
         /\ Append(s, e)[Len(s) + 1] = e
         /\ Append(s, e) # <<>>
  OBVIOUS

\* What pop_front (PopTask) does to the elements of the run queue.
LEMMA TailFacts ==
  ASSUME NEW S, NEW s \in Seq(S), s # <<>>
  PROVE  /\ Tail(s) \in Seq(S)
         /\ Len(s) \in Nat /\ Len(s) > 0
         /\ Len(Tail(s)) = Len(s) - 1
         /\ \A i \in 1..Len(Tail(s)) : Tail(s)[i] = s[i + 1] /\ i + 1 \in 1..Len(s)
         /\ Head(s) = s[1] /\ Head(s) \in S
  OBVIOUS

\* The stack of polls that block_on starts with.
LEMMA SingletonFacts ==
  ASSUME NEW S, NEW e \in S
  PROVE  <<e>> \in Seq(S) /\ <<e>> # <<>> /\ Len(<<e>>) = 1 /\ <<e>>[1] = e
  OBVIOUS

\* What returning from a poll does to the stack of polls.
LEMMA CallerFacts ==
  ASSUME NEW S, NEW s \in Seq(S), s # <<>>
  PROVE  /\ Caller(s) \in Seq(S)
         /\ Len(s) \in Nat /\ Len(s) > 0
         /\ Len(Caller(s)) = Len(s) - 1
         /\ \A i \in 1..Len(Caller(s)) : Caller(s)[i] = s[i] /\ i \in 1..Len(s) /\ i # Len(s)
         /\ s[Len(s)] \in S
<1>1. Len(s) \in Nat /\ Len(s) > 0
  BY EmptySeq
<1>2. \A i \in 1..Len(s) - 1 : s[i] \in S
  BY <1>1
<1>3. /\ Caller(s) \in Seq(S)
      /\ Len(Caller(s)) = Len(s) - 1
      /\ \A i \in 1..Len(s) - 1 : Caller(s)[i] = s[i]
  <2>1. \A n \in Int : n = Len(s) - 1 =>
          /\ SubSeq(s, 1, n) \in Seq(S)
          /\ Len(SubSeq(s, 1, n)) = n
          /\ \A i \in 1..n : SubSeq(s, 1, n)[i] = s[i]
    <3> TAKE n \in Int
    <3> HAVE n = Len(s) - 1
    <3>1. 1 \in Int /\ \A i \in 1..n : s[i] \in S
      BY <1>2
    <3>2. SubSeq(s, 1, n) \in Seq(S)
      BY <3>1, SubSeqProperties
    <3>3. Len(SubSeq(s, 1, n)) = n
      BY <1>1
    <3>4. \A i \in 1..n : SubSeq(s, 1, n)[i] = s[i]
      BY <1>1
    <3>5. QED
      BY <3>2, <3>3, <3>4
  <2>2. Len(s) - 1 \in Int
    BY <1>1
  <2>3. QED
    BY <2>1, <2>2, Zenon DEF Caller
<1>4. QED
  BY <1>1, <1>2, <1>3

\* Membership and distinctness when an element is pushed.
LEMMA AppendContains ==
  ASSUME NEW S, NEW s \in Seq(S), NEW e \in S
  PROVE  /\ \A x : Within(Append(s, e), x) <=> Within(s, x) \/ x = e
         /\ Distinct(s) /\ ~Within(s, e) => Distinct(Append(s, e))
  BY AppendFacts DEF Within, Distinct

\* Membership and distinctness when the head is popped.
LEMMA TailContains ==
  ASSUME NEW S, NEW s \in Seq(S), s # <<>>
  PROVE  /\ \A x : Within(s, x) <=> Within(Tail(s), x) \/ x = Head(s)
         /\ Distinct(s) => Distinct(Tail(s)) /\ ~Within(Tail(s), Head(s))
  BY TailFacts DEF Within, Distinct

\* Membership and distinctness when block_on polls the main future.
LEMMA SingletonContains ==
  ASSUME NEW S, NEW e \in S
  PROVE  /\ \A x : Within(<<e>>, x) <=> x = e
         /\ Distinct(<<e>>)
  BY SingletonFacts DEF Within, Distinct

\* Membership and distinctness when the innermost poll returns.
LEMMA CallerContains ==
  ASSUME NEW S, NEW s \in Seq(S), s # <<>>
  PROVE  /\ \A x : Within(s, x) <=> Within(Caller(s), x) \/ x = s[Len(s)]
         /\ Distinct(s) => Distinct(Caller(s)) /\ ~Within(Caller(s), s[Len(s)])
  BY CallerFacts DEF Within, Distinct

-----------------------------------------------------------------------------
\* Every step keeps every variable in its type.
LEMMA TypeInductive == TypeOK /\ [Next]_vars => TypeOK'
<1> SUFFICES ASSUME TypeOK, [Next]_vars PROVE TypeOK'
  OBVIOUS
<1> USE ExecutorAssumption DEF TypeOK, Futures, Callers, XPC, WPC, execVars
<1>1. CASE BlockOn
  BY <1>1 DEF BlockOn
<1>2. CASE RunUntilStalled
  BY <1>2 DEF RunUntilStalled
<1>3. ASSUME NEW t \in Tasks, Spawn(t) PROVE TypeOK'
  <2>1. queue' \in Seq(Tasks)
    BY <1>3 DEF Spawn
  <2>2. queued' \in [Tasks -> BOOLEAN] /\ owed' \in [Futures -> BOOLEAN]
    BY <1>3 DEF Spawn
  <2>3. QED
    BY <1>3, <2>1, <2>2 DEF Spawn, InBody
<1>4. CASE SwapNotified
  <2>1. frames' \in Seq(Futures)
    <3>1. <<Main>> \in Seq(Futures)
      BY SingletonFacts
    <3>2. QED
      BY <1>4, <3>1 DEF SwapNotified
  <2>2. CASE notified
    <3>1. frames' # <<>>
      BY <1>4, <2>2, SingletonFacts DEF SwapNotified
    <3>2. QED
      BY <1>4, <2>1, <2>2, <3>1 DEF SwapNotified
  <2>3. CASE ~notified
    BY <1>4, <2>1, <2>3 DEF SwapNotified
  <2>4. QED
    BY <2>2, <2>3
<1>5. CASE PopTask
  <2>1. queue' \in Seq(Tasks) /\ cur' \in Tasks
    BY <1>5, TailFacts DEF PopTask
  <2>2. QED
    BY <1>5, <2>1 DEF PopTask
<1>6. CASE PollTask
  <2>1. frames' \in Seq(Futures) /\ frames' # <<>>
    BY <1>6, AppendFacts DEF PollTask
  <2>2. QED
    BY <1>6, <2>1 DEF PollTask
<1>7. CASE QueueDrained
  BY <1>7 DEF QueueDrained
<1>8. CASE Check
  BY <1>8 DEF Check
<1>9. CASE Park
  BY <1>9 DEF Park
<1>10. CASE ReturnPending
  <2>1. frames' \in Seq(Futures) /\ Innermost \in Futures
    BY <1>10, CallerFacts DEF ReturnPending, InBody, Innermost
  <2>2. QED
    BY <1>10, <2>1 DEF ReturnPending
<1>11. CASE ReturnReady
  <2>1. frames' \in Seq(Futures) /\ Innermost \in Futures
    BY <1>11, CallerFacts DEF ReturnReady, InBody, Innermost
  <2>2. QED
    BY <1>11, <2>1 DEF ReturnReady
<1>12. CASE WaitTimesOut
  BY <1>12 DEF WaitTimesOut
<1>13. ASSUME NEW th \in Callers, SwapQueued(th) PROVE TypeOK'
  BY <1>13 DEF SwapQueued
<1>14. ASSUME NEW th \in Callers, Push(th) PROVE TypeOK'
  <2>1. queue' \in Seq(Tasks)
    BY <1>14, AppendFacts DEF Push
  <2>2. QED
    BY <1>14, <2>1 DEF Push, NotifyAll
<1>15. ASSUME NEW th \in Callers, NotifyMain(th) PROVE TypeOK'
  BY <1>15 DEF NotifyMain, NotifyAll
<1>16. ASSUME NEW th \in Callers, WakeMain(th) PROVE TypeOK'
  BY <1>16 DEF WakeMain
<1>17. ASSUME NEW th \in Callers, NEW t \in Tasks, WakeTask(th, t) PROVE TypeOK'
  BY <1>17 DEF WakeTask
<1>18. CASE UNCHANGED vars
  BY <1>18 DEF vars
<1>19. QED
  BY <1>1, <1>2, <1>3, <1>4, <1>5, <1>6, <1>7, <1>8, <1>9, <1>10, <1>11,
     <1>12, <1>13, <1>14, <1>15, <1>16, <1>17, <1>18
     DEF Next, Calls, Loop, Return, Wake

\* Every variable always has its type.
THEOREM TypeCorrect == Spec => []TypeOK
<1>1. Init => TypeOK
  <2> SUFFICES ASSUME Init PROVE TypeOK
    OBVIOUS
  <2>1. queue \in Seq(Tasks) /\ frames \in Seq(Futures)
    BY DEF Init
  <2>2. QED
    BY <2>1, ExecutorAssumption DEF Init, TypeOK, Futures, Callers, XPC, WPC, Nobody
<1>2. QED
  BY <1>1, TypeInductive, PTL DEF Spec

-----------------------------------------------------------------------------
\* `queued` covers every claim, so the swap in wake_target sees it.
ClaimInv == \A t \in Tasks : Claimed(t) => queued[t]

\* Nobody knows an id before allocate_id has handed it out.
SpawnInv ==
  /\ \A t \in Tasks : Claimed(t) \/ Within(frames, t) \/ done[t] => t \in spawned
  /\ \A th \in Callers : wpc[th] = "swap" => target[th] \in spawned
  /\ registry \subseteq spawned
  /\ handed \subseteq spawned \cup {Main}

ScheduleInv == ScheduledOnce /\ ClaimInv /\ SpawnInv

\* Every step keeps a task's claims to a poll unique and marked by `queued`.
LEMMA ScheduleInductive == TypeOK /\ ScheduleInv /\ [Next]_vars => ScheduleInv'
<1> SUFFICES ASSUME TypeOK, ScheduleInv, [Next]_vars PROVE ScheduleInv'
  OBVIOUS
<1> USE ExecutorAssumption DEF TypeOK, ScheduleInv, ScheduledOnce, ClaimInv, SpawnInv,
      Claimed, InQueue, Pushing, Taken, Futures, Callers, XPC, WPC, execVars
<1>1. CASE BlockOn
  BY <1>1 DEF BlockOn
<1>2. CASE RunUntilStalled
  BY <1>2 DEF RunUntilStalled
<1>3. ASSUME NEW t \in Tasks, Spawn(t) PROVE ScheduleInv'
  BY <1>3, AppendContains DEF Spawn, InBody
<1>4. CASE SwapNotified
  BY <1>4, SingletonContains DEF SwapNotified
<1>5. CASE PopTask
  BY <1>5, TailContains, TailFacts DEF PopTask
<1>6. CASE PollTask
  BY <1>6, AppendContains DEF PollTask
<1>7. CASE QueueDrained
  BY <1>7 DEF QueueDrained
<1>8. CASE Check
  BY <1>8 DEF Check
<1>9. CASE Park
  BY <1>9 DEF Park
<1>10. CASE ReturnPending
  BY <1>10, CallerContains, CallerFacts DEF ReturnPending, InBody, Innermost
<1>11. CASE ReturnReady
  BY <1>11, CallerContains, CallerFacts DEF ReturnReady, InBody, Innermost
<1>12. CASE WaitTimesOut
  BY <1>12 DEF WaitTimesOut
<1>13. ASSUME NEW th \in Callers, SwapQueued(th) PROVE ScheduleInv'
  BY <1>13 DEF SwapQueued
<1>14. ASSUME NEW th \in Callers, Push(th) PROVE ScheduleInv'
  BY <1>14, AppendContains DEF Push, NotifyAll
<1>15. ASSUME NEW th \in Callers, NotifyMain(th) PROVE ScheduleInv'
  BY <1>15 DEF NotifyMain, NotifyAll
<1>16. ASSUME NEW th \in Callers, WakeMain(th) PROVE ScheduleInv'
  BY <1>16 DEF WakeMain
<1>17. ASSUME NEW th \in Callers, NEW t \in Tasks, WakeTask(th, t) PROVE ScheduleInv'
  BY <1>17 DEF WakeTask
<1>18. CASE UNCHANGED vars
  BY <1>18 DEF vars
<1>19. QED
  BY <1>1, <1>2, <1>3, <1>4, <1>5, <1>6, <1>7, <1>8, <1>9, <1>10, <1>11,
     <1>12, <1>13, <1>14, <1>15, <1>16, <1>17, <1>18
     DEF Next, Calls, Loop, Return, Wake

\* A new executor has no claims.
LEMMA ScheduleInit == Init => ScheduleInv
  BY ExecutorAssumption DEF Init, ScheduleInv, ScheduledOnce, ClaimInv, SpawnInv,
     Claimed, InQueue, Pushing, Taken, Callers, Within, Distinct

\* Duplicate wakes coalesce: whatever the threads do, and however deep polls
\* nest, a task is scheduled at most once (wake_target's swap of `queued`).
THEOREM Coalesced == Spec => []ScheduledOnce
  BY ScheduleInit, ScheduleInductive, TypeCorrect, PTL DEF Spec, ScheduleInv

-----------------------------------------------------------------------------
\* The stack of polls: empty outside polls, the main future only at its
\* bottom, and a popped task is live and nowhere else.
FrameInv ==
  /\ xpc \in {"idle", "swap", "check", "parking", "waiting"} => frames = <<>>
  /\ \A i \in 1..Len(frames) : frames[i] = Main => i = 1
  /\ xpc = "clear" => cur \notin registry /\ ~done[cur] /\ ~Within(frames, cur)

PollInv == PolledOnlyWhilePending /\ FrameInv

\* Every step keeps a task in one place: registry, stack of polls, or popped.
LEMMA PollInductive ==
  TypeOK /\ ScheduleInv /\ PollInv /\ [Next]_vars => PollInv'
<1> SUFFICES ASSUME TypeOK, ScheduleInv, PollInv, [Next]_vars PROVE PollInv'
  OBVIOUS
<1> USE ExecutorAssumption DEF TypeOK, ScheduleInv, SpawnInv, PollInv,
      PolledOnlyWhilePending, FrameInv, Futures, Callers, XPC, WPC, execVars
<1>1. CASE BlockOn
  BY <1>1 DEF BlockOn
<1>2. CASE RunUntilStalled
  BY <1>2 DEF RunUntilStalled
<1>3. ASSUME NEW t \in Tasks, Spawn(t) PROVE PollInv'
  BY <1>3, AppendContains DEF Spawn, InBody
<1>4. CASE SwapNotified
  BY <1>4, SingletonContains, SingletonFacts DEF SwapNotified
<1>5. CASE PopTask
  BY <1>5, TailContains, TailFacts DEF PopTask
<1>6. CASE PollTask
  BY <1>6, AppendContains, AppendFacts DEF PollTask
<1>7. CASE QueueDrained
  BY <1>7 DEF QueueDrained
<1>8. CASE Check
  BY <1>8 DEF Check
<1>9. CASE Park
  BY <1>9 DEF Park
<1>10. CASE ReturnPending
  <2>1. /\ frames # <<>> /\ Len(frames) \in Nat /\ Len(frames) > 0
        /\ frames' = Caller(frames) /\ frames' \in Seq(Futures)
        /\ Len(frames') = Len(frames) - 1
        /\ \A i \in 1..Len(frames') : frames'[i] = frames[i] /\ i \in 1..Len(frames)
        /\ frames[Len(frames)] \in Futures
    BY <1>10, CallerFacts DEF ReturnPending, InBody
  <2>2. /\ \A x : Within(frames, x) <=> Within(frames', x) \/ x = frames[Len(frames)]
        /\ Distinct(frames) => Distinct(frames') /\ ~Within(frames', frames[Len(frames)])
    BY <2>1, CallerContains
  <2>3. PolledOnlyWhilePending'
    BY <1>10, <2>1, <2>2 DEF ReturnPending, InBody, Innermost
  <2>4. FrameInv'
    BY <1>10, <2>1 DEF ReturnPending, InBody
  <2>5. QED
    BY <2>3, <2>4
<1>11. CASE ReturnReady
  <2>1. /\ frames # <<>> /\ Len(frames) \in Nat /\ Len(frames) > 0
        /\ frames' = Caller(frames) /\ frames' \in Seq(Futures)
        /\ Len(frames') = Len(frames) - 1
        /\ \A i \in 1..Len(frames') : frames'[i] = frames[i] /\ i \in 1..Len(frames)
        /\ frames[Len(frames)] \in Futures
    BY <1>11, CallerFacts DEF ReturnReady, InBody
  <2>2. /\ \A x : Within(frames, x) <=> Within(frames', x) \/ x = frames[Len(frames)]
        /\ Distinct(frames) => Distinct(frames') /\ ~Within(frames', frames[Len(frames)])
    BY <2>1, CallerContains
  <2>3. PolledOnlyWhilePending'
    <3>1. CASE Innermost = Main
      BY <1>11, <2>2, <3>1 DEF ReturnReady, InBody, Innermost
    <3>2. CASE Innermost # Main
      <4>1. Innermost \in Tasks /\ Innermost \notin registry
        BY <2>1, <2>2, <3>2 DEF Innermost
      <4>2. done' = [done EXCEPT ![Innermost] = TRUE] /\ registry' = registry
        BY <1>11, <3>2 DEF ReturnReady
      <4>3. QED
        BY <2>2, <4>1, <4>2 DEF Innermost
    <3>3. QED
      BY <3>1, <3>2
  <2>4. CASE Innermost = Main
    <3>1. Len(frames) = 1
      BY <2>1, <2>4 DEF Innermost
    <3>2. frames' = <<>>
      BY <2>1, <3>1, EmptySeq
    <3>3. QED
      BY <1>11, <2>1, <2>3, <2>4, <3>2 DEF ReturnReady
  <2>5. CASE Innermost # Main
    BY <1>11, <2>1, <2>3, <2>5 DEF ReturnReady
  <2>6. QED
    BY <2>4, <2>5
<1>12. CASE WaitTimesOut
  BY <1>12 DEF WaitTimesOut
<1>13. ASSUME NEW th \in Callers, SwapQueued(th) PROVE PollInv'
  BY <1>13 DEF SwapQueued
<1>14. ASSUME NEW th \in Callers, Push(th) PROVE PollInv'
  BY <1>14, AppendContains DEF Push, NotifyAll
<1>15. ASSUME NEW th \in Callers, NotifyMain(th) PROVE PollInv'
  BY <1>15 DEF NotifyMain, NotifyAll
<1>16. ASSUME NEW th \in Callers, WakeMain(th) PROVE PollInv'
  BY <1>16 DEF WakeMain
<1>17. ASSUME NEW th \in Callers, NEW t \in Tasks, WakeTask(th, t) PROVE PollInv'
  BY <1>17 DEF WakeTask
<1>18. CASE UNCHANGED vars
  BY <1>18 DEF vars
<1>19. QED
  BY <1>1, <1>2, <1>3, <1>4, <1>5, <1>6, <1>7, <1>8, <1>9, <1>10, <1>11,
     <1>12, <1>13, <1>14, <1>15, <1>16, <1>17, <1>18
     DEF Next, Calls, Loop, Return, Wake

\* A new executor polls nothing.
LEMMA PollInit == Init => PollInv
  BY DEF Init, PollInv, PolledOnlyWhilePending, FrameInv, Within, Distinct

\* A future is never polled inside its own poll nor after it returned Ready.
THEOREM PollsAreLegal == Spec => []PolledOnlyWhilePending
  BY ScheduleInit, PollInit, ScheduleInductive, PollInductive, TypeCorrect, PTL
     DEF Spec, PollInv

-----------------------------------------------------------------------------
\* What ParkedOnlyWhenIdle says of the wait holds from the last look at
\* `notified` on, since the lock is held until the wait begins.
ParkInv ==
  xpc \in {"parking", "waiting"} =>
    /\ queue = <<>>
    /\ notified => \E th \in Callers : wpc[th] = "notify"

\* Every step keeps work from hiding behind the parked executor.
LEMMA ParkInductive == TypeOK /\ ParkInv /\ [Next]_vars => ParkInv'
<1> SUFFICES ASSUME TypeOK, ParkInv, [Next]_vars PROVE ParkInv'
  OBVIOUS
<1> USE ExecutorAssumption DEF TypeOK, ParkInv, Futures, Callers, XPC, WPC, execVars
<1>1. CASE BlockOn
  BY <1>1 DEF BlockOn
<1>2. CASE RunUntilStalled
  BY <1>2 DEF RunUntilStalled
<1>3. ASSUME NEW t \in Tasks, Spawn(t) PROVE ParkInv'
  BY <1>3, AppendContains DEF Spawn, InBody
<1>4. CASE SwapNotified
  BY <1>4, SingletonContains, SingletonFacts DEF SwapNotified
<1>5. CASE PopTask
  BY <1>5, TailContains, TailFacts DEF PopTask
<1>6. CASE PollTask
  BY <1>6, AppendContains, AppendFacts DEF PollTask
<1>7. CASE QueueDrained
  BY <1>7 DEF QueueDrained
<1>8. CASE Check
  BY <1>8 DEF Check
<1>9. CASE Park
  BY <1>9 DEF Park
<1>10. CASE ReturnPending
  BY <1>10, CallerContains, CallerFacts DEF ReturnPending, InBody, Innermost
<1>11. CASE ReturnReady
  BY <1>11, CallerContains, CallerFacts DEF ReturnReady, InBody, Innermost
<1>12. CASE WaitTimesOut
  BY <1>12 DEF WaitTimesOut
<1>13. ASSUME NEW th \in Callers, SwapQueued(th) PROVE ParkInv'
  BY <1>13 DEF SwapQueued
<1>14. ASSUME NEW th \in Callers, Push(th) PROVE ParkInv'
  BY <1>14, AppendContains DEF Push, NotifyAll, Unlocked
<1>15. ASSUME NEW th \in Callers, NotifyMain(th) PROVE ParkInv'
  BY <1>15 DEF NotifyMain, NotifyAll, Unlocked
<1>16. ASSUME NEW th \in Callers, WakeMain(th) PROVE ParkInv'
  BY <1>16 DEF WakeMain
<1>17. ASSUME NEW th \in Callers, NEW t \in Tasks, WakeTask(th, t) PROVE ParkInv'
  BY <1>17 DEF WakeTask
<1>18. CASE UNCHANGED vars
  BY <1>18 DEF vars
<1>19. QED
  BY <1>1, <1>2, <1>3, <1>4, <1>5, <1>6, <1>7, <1>8, <1>9, <1>10, <1>11,
     <1>12, <1>13, <1>14, <1>15, <1>16, <1>17, <1>18
     DEF Next, Calls, Loop, Return, Wake

\* block_on waits only while the run queue is empty and every notification of
\* the main future still has its notify_all to come.
THEOREM ParksOnlyIdle == Spec => []ParkedOnlyWhenIdle
<1>1. Init => ParkInv
  BY DEF Init, ParkInv
<1>2. ParkInv => ParkedOnlyWhenIdle
  BY DEF ParkInv, ParkedOnlyWhenIdle
<1>3. QED
  BY <1>1, <1>2, ParkInductive, TypeCorrect, PTL DEF Spec

-----------------------------------------------------------------------------
\* The polls that other polls run inside of are those of re-entrant futures.
StackInv ==
  /\ xpc \in {"pop", "clear"} => \A i \in 1..Len(frames) : frames[i] \in Reentrant
  /\ \A i \in 1..(Len(frames) - 1) : frames[i] \in Reentrant

\* Every step keeps the stack of polls re-entrant below its top.
LEMMA StackInductive == TypeOK /\ PollInv /\ StackInv /\ [Next]_vars => StackInv'
<1> SUFFICES ASSUME TypeOK, PollInv, StackInv, [Next]_vars PROVE StackInv'
  OBVIOUS
<1> USE DEF TypeOK, PollInv, FrameInv, StackInv, XPC, execVars
<1>1. CASE BlockOn
  BY <1>1, EmptySeq DEF BlockOn
<1>2. CASE RunUntilStalled
  <2>1. xpc = "idle" \/ (xpc = "body" /\ frames[Len(frames)] \in Reentrant)
    BY <1>2 DEF RunUntilStalled, InBody, Innermost
  <2>2. Len(frames) \in Nat /\ frames' = frames
    BY <1>2 DEF RunUntilStalled
  <2>3. \A i \in 1..Len(frames) : i = Len(frames) \/ i \in 1..(Len(frames) - 1)
    BY <2>2
  <2>4. xpc = "idle" => Len(frames) = 0
    BY EmptySeq
  <2>5. QED
    BY <2>1, <2>2, <2>3, <2>4
<1>3. CASE \E t \in Tasks : Spawn(t)
  BY <1>3 DEF Spawn
<1>4. CASE SwapNotified
  <2>1. CASE notified
    <3>1. frames' = <<Main>> /\ Len(frames') = 1 /\ xpc' = "body"
      BY <1>4, <2>1, SingletonFacts DEF SwapNotified
    <3>2. QED
      BY <3>1
  <2>2. CASE ~notified
    BY <1>4, <2>2, EmptySeq DEF SwapNotified
  <2>3. QED
    BY <2>1, <2>2
<1>5. CASE PopTask
  BY <1>5 DEF PopTask
<1>6. CASE PollTask
  <2>1. /\ frames' = Append(frames, cur) /\ cur \in Futures /\ frames \in Seq(Futures)
        /\ xpc = "clear" /\ xpc' = "body"
    BY <1>6 DEF PollTask
  <2>2. Len(frames) \in Nat /\ Len(frames') = Len(frames) + 1
        /\ \A i \in 1..Len(frames) : frames'[i] = frames[i]
    BY ONLY <2>1
  <2>3. \A i \in 1..(Len(frames') - 1) : i \in 1..Len(frames)
    BY ONLY <2>2
  <2>4. QED
    BY <2>1, <2>2, <2>3
<1>7. CASE Return
  <2>1. /\ frames' = Caller(frames) /\ frames \in Seq(Futures) /\ frames # <<>>
    BY <1>7 DEF Return, ReturnPending, ReturnReady, InBody
  <2>2. /\ Len(frames) \in Nat /\ Len(frames') = Len(frames) - 1
        /\ \A i \in 1..Len(frames') : frames'[i] = frames[i]
    BY <2>1, CallerFacts
  <2>3. \A i \in 1..Len(frames') : frames'[i] \in Reentrant
    BY <2>2
  <2>4. \A i \in 1..(Len(frames') - 1) : i \in 1..Len(frames')
    BY <2>2
  <2>5. QED
    BY <2>3, <2>4
<1>8. CASE QueueDrained \/ Check \/ Park \/ WaitTimesOut
  BY <1>8 DEF QueueDrained, Check, Park, WaitTimesOut
<1>9. CASE \E th \in Callers : Wake(th) \/ WakeMain(th) \/ \E t \in Tasks : WakeTask(th, t)
  BY <1>9 DEF Wake, SwapQueued, Push, NotifyMain, NotifyAll, WakeMain, WakeTask
<1>10. CASE UNCHANGED vars
  BY <1>10 DEF vars
<1>11. QED
  BY <1>1, <1>2, <1>3, <1>4, <1>5, <1>6, <1>7, <1>8, <1>9, <1>10 DEF Next, Calls, Loop

\* While an id is popped, the tasks out of the registry are those whose polls
\* run the executor; a skipped id is that of one of them or of a finished
\* task, so `queued` is never stale for the others.
LiveInv ==
  /\ \A t \in spawned : t \in registry \/ Within(frames, t) \/ done[t] \/ Taken(t)
  /\ \A t \in Tasks \ Reentrant : queued[t] /\ ~done[t] => Claimed(t)
  /\ WakeNotLost

\* Every step keeps a claim for each wake that is owed.
LEMMA LiveInductive ==
  TypeOK /\ ScheduleInv /\ PollInv /\ StackInv /\ LiveInv /\ [Next]_vars => LiveInv'
<1> SUFFICES ASSUME TypeOK, ScheduleInv, PollInv, StackInv, LiveInv, [Next]_vars PROVE LiveInv'
  OBVIOUS
<1> USE ExecutorAssumption DEF TypeOK, ScheduleInv, ScheduledOnce, SpawnInv, PollInv, FrameInv,
      LiveInv, WakeNotLost, WakeAnswered, Claimed, InQueue, Pushing, Taken, Futures, Callers, XPC, WPC, execVars
<1>1. CASE BlockOn
  BY <1>1 DEF BlockOn
<1>2. CASE RunUntilStalled
  BY <1>2 DEF RunUntilStalled, InBody
<1>3. ASSUME NEW t \in Tasks, Spawn(t) PROVE LiveInv'
  <2>1. \A x : Within(queue', x) <=> Within(queue, x) \/ x = t
    BY <1>3, AppendContains DEF Spawn
  <2>2. WakeNotLost'
    BY <1>3, <2>1 DEF Spawn
  <2>3. \A u \in Tasks \ Reentrant : queued'[u] /\ ~done'[u] => Claimed(u)'
    BY <1>3, <2>1 DEF Spawn
  <2>4. QED
    BY <1>3, <2>2, <2>3 DEF Spawn, InBody
<1>4. CASE SwapNotified
  <2>1. WakeNotLost'
    BY <1>4 DEF SwapNotified
  <2>2. CASE notified
    <3>1. frames' = <<Main>> /\ Len(frames') = 1 /\ \A x : Within(frames', x) <=> x = Main
      BY <1>4, <2>2, SingletonContains, SingletonFacts DEF SwapNotified
    <3>2. \A t \in spawned : ~Within(frames, t)
      BY <1>4 DEF SwapNotified, Within
    <3>3. QED
      BY <1>4, <2>1, <2>2, <3>1, <3>2 DEF SwapNotified
  <2>3. CASE ~notified
    BY <1>4, <2>1, <2>3 DEF SwapNotified
  <2>4. QED
    BY <2>2, <2>3
<1>5. CASE PopTask
  <2>1. /\ \A x : Within(queue, x) <=> Within(queue', x) \/ x = Head(queue)
        /\ Head(queue) \in Tasks /\ cur' = Head(queue)
    BY <1>5, TailContains, TailFacts DEF PopTask
  <2>2. \A t \in Tasks : Within(frames, t) => t \in Reentrant
    BY <1>5 DEF PopTask, Within, StackInv
  <2>3. CASE Head(queue) \in registry
    <3>1. \A t \in Tasks : Claimed(t) => Claimed(t)'
      BY <1>5, <2>1, <2>3 DEF PopTask
    <3>2. WakeNotLost'
      BY <1>5, <3>1 DEF PopTask
    <3>3. \A t \in Tasks \ Reentrant : queued'[t] /\ ~done'[t] => Claimed(t)'
      BY <1>5, <3>1 DEF PopTask
    <3>4. \A t \in spawned' : t \in registry' \/ Within(frames', t) \/ done'[t] \/ Taken(t)'
      BY <1>5, <2>1, <2>3 DEF PopTask
    <3>5. QED
      BY <1>5, <2>3, <3>2, <3>3, <3>4 DEF PopTask
  <2>4. CASE Head(queue) \notin registry
    <3>1. done[Head(queue)] \/ Head(queue) \in Reentrant
      BY <1>5, <2>1, <2>2, <2>4 DEF PopTask
    <3>2. \A t \in Tasks : Claimed(t) => Claimed(t)' \/ t = Head(queue)
      BY <1>5, <2>1, <2>4 DEF PopTask
    <3>3. WakeNotLost'
      BY <1>5, <2>4, <3>1, <3>2 DEF PopTask
    <3>4. \A t \in Tasks \ Reentrant : queued'[t] /\ ~done'[t] => Claimed(t)'
      BY <1>5, <2>4, <3>1, <3>2 DEF PopTask
    <3>5. QED
      BY <1>5, <2>4, <3>3, <3>4 DEF PopTask
  <2>5. QED
    BY <2>3, <2>4
<1>6. CASE PollTask
  <2>1. \A x : Within(frames', x) <=> Within(frames, x) \/ x = cur
    <3>1. frames' = Append(frames, cur) /\ cur \in Futures /\ frames \in Seq(Futures)
      BY <1>6 DEF PollTask
    <3>2. QED
      BY ONLY <3>1, AppendContains
  <2>2. WakeNotLost'
    BY <1>6 DEF PollTask
  <2>3. \A u \in Tasks \ Reentrant : queued'[u] /\ ~done'[u] => Claimed(u)'
    BY <1>6 DEF PollTask
  <2>4. QED
    BY <1>6, <2>1, <2>2, <2>3 DEF PollTask
<1>7. CASE QueueDrained
  BY <1>7 DEF QueueDrained
<1>8. CASE Check
  BY <1>8 DEF Check
<1>9. CASE Park
  BY <1>9 DEF Park
<1>10. CASE ReturnPending
  BY <1>10, CallerContains, CallerFacts DEF ReturnPending, InBody, Innermost
<1>11. CASE ReturnReady
  <2>1. /\ frames # <<>> /\ Len(frames) \in Nat /\ Len(frames) > 0
        /\ frames' = Caller(frames) /\ frames' \in Seq(Futures)
        /\ Len(frames') = Len(frames) - 1
        /\ \A i \in 1..Len(frames') : frames'[i] = frames[i] /\ i \in 1..Len(frames)
        /\ frames[Len(frames)] \in Futures
    BY <1>11, CallerFacts DEF ReturnReady, InBody
  <2>2. /\ \A x : Within(frames, x) <=> Within(frames', x) \/ x = frames[Len(frames)]
        /\ Distinct(frames) => Distinct(frames')
    BY <2>1, CallerContains
  <2>4. CASE Innermost = Main
    BY <1>11, <2>2, <2>4 DEF ReturnReady, InBody, Innermost
  <2>5. CASE Innermost # Main
    <3>1. /\ \A t \in Tasks : Claimed(t) => Claimed(t)'
          /\ \A t \in Tasks : done[t] => done'[t]
          /\ done'[frames[Len(frames)]] = TRUE
      BY <1>11, <2>1, <2>5, SMTT(30) DEF ReturnReady, InBody, Innermost
    <3>2. \A t \in spawned' : t \in registry' \/ Within(frames', t) \/ done'[t] \/ Taken(t)'
      BY <1>11, <2>2, <2>5, <3>1 DEF ReturnReady, InBody
    <3>3. WakeNotLost'
      BY <1>11, <3>1 DEF ReturnReady
    <3>4. QED
      BY <1>11, <3>1, <3>2, <3>3 DEF ReturnReady
  <2>6. QED
    BY <2>4, <2>5
<1>12. CASE WaitTimesOut
  BY <1>12 DEF WaitTimesOut
<1>13. ASSUME NEW th \in Callers, SwapQueued(th) PROVE LiveInv'
  <2>1. \A t \in Tasks : Claimed(t) => Claimed(t)'
    BY <1>13 DEF SwapQueued
  <2>2. queued'[target[th]] = TRUE /\ (queued[target[th]] \/ Pushing(th, target[th])')
    BY <1>13 DEF SwapQueued
  <2>3. \A t \in Tasks \ Reentrant : queued'[t] /\ ~done'[t] => Claimed(t)'
    BY <1>13, <2>1, <2>2 DEF SwapQueued
  <2>4. \A t \in Tasks \ Reentrant : owed[t] /\ ~done[t] =>
          Claimed(t)' \/ \E u \in Callers : wpc'[u] = "swap" /\ target'[u] = t
    BY <1>13, <2>1, <2>3 DEF SwapQueued
  <2>5. WakeNotLost'
    BY <1>13, <2>4 DEF SwapQueued
  <2>6. QED
    BY <1>13, <2>3, <2>5 DEF SwapQueued
<1>14. ASSUME NEW th \in Callers, Push(th) PROVE LiveInv'
  BY <1>14, AppendContains, SMTT(30) DEF Push, NotifyAll
<1>15. ASSUME NEW th \in Callers, NotifyMain(th) PROVE LiveInv'
  BY <1>15 DEF NotifyMain, NotifyAll
<1>16. ASSUME NEW th \in Callers, WakeMain(th) PROVE LiveInv'
  <2>1. \A t \in Tasks : Claimed(t) => Claimed(t)'
    BY <1>16 DEF WakeMain
  <2>2. WakeNotLost'
    BY <1>16, <2>1 DEF WakeMain
  <2>3. QED
    BY <1>16, <2>1, <2>2 DEF WakeMain
<1>17. ASSUME NEW th \in Callers, NEW t \in Tasks, WakeTask(th, t) PROVE LiveInv'
  BY <1>17 DEF WakeTask
<1>18. CASE UNCHANGED vars
  BY <1>18 DEF vars
<1>19. QED
  BY <1>1, <1>2, <1>3, <1>4, <1>5, <1>6, <1>7, <1>8, <1>9, <1>10, <1>11,
     <1>12, <1>13, <1>14, <1>15, <1>16, <1>17, <1>18
     DEF Next, Calls, Loop, Return, Wake

\* No wake of a task is lost unless the task's own poll runs the executor, for
\* any depth of nesting: a wake that no poll has answered is in the queue,
\* popped, or in a thread's hands.
THEOREM NoLostWake == Spec => []WakeNotLost
<1>1. Init => LiveInv
  BY DEF Init, LiveInv, WakeNotLost, WakeAnswered, Futures
<1>2. Init => StackInv
  BY EmptySeq DEF Init, StackInv
<1>3. QED
  BY <1>1, <1>2, ScheduleInit, PollInit, ScheduleInductive, PollInductive, StackInductive,
     LiveInductive, TypeCorrect, PTL DEF Spec, LiveInv

-----------------------------------------------------------------------------
(* JoinHandle *)

\* Where the waker is: nobody owes a wake to a task that is polling, a waker
\* registered while the flags are pending stays until they change, and who is
\* about to wake has already changed them.
WakerInv ==
  /\ promised # NoWaker => hpc \in {"idle", "cancelWake"}
  /\ hpc = "recheck" /\ flags = "PENDING" => waker = context
  /\ cpc = "wake" => flags # "PENDING"
  /\ hpc \in {"cancelWake", "dropWake"} => flags # "PENDING"

\* Where the result is: a completed task's value is there until it is taken.
ResultInv ==
  /\ cpc = "running" => ~completed
  /\ cpc = "flag" => completed
  /\ completed /\ outcome # "ok" => result
  /\ flags = "READY" => completed
  /\ hpc = "take" => completed
  /\ hpc \in {"register", "recheck", "take"} => outcome # "ok"

\* Who cancelled: the handle, or a completer that was dropped uncompleted.
CancelInv ==
  /\ cpc = "cancelling" => ~completed
  /\ cpc = "dropping" /\ completed => flags # "PENDING"
  /\ cpc = "wake" /\ ~completed => flags # "READY"
  /\ flags = "CANCELLED" => cancelled \/ (~completed /\ cpc # "running")
  /\ outcome = "cancelled" => cancelled \/ (~completed /\ cpc # "running")
  /\ hpc \in {"gone", "dropWake"} /\ kind = "task" => flags # "PENDING"

\* The inductive invariant of JoinHandle.
JoinInv ==
  /\ JoinTypeOK
  /\ AwaiterNotLost
  /\ OutcomeIsTrue
  /\ WakerInv
  /\ ResultInv
  /\ CancelInv
-----------------------------------------------------------------------------
\* Every step of either thread preserves the inductive invariant.
LEMMA JoinInductive == JoinInv /\ [JoinNext]_joinVars => JoinInv'
<1> SUFFICES ASSUME JoinInv, [JoinNext]_joinVars PROVE JoinInv'
  OBVIOUS
<1> USE JoinHandleAssumption DEF JoinInv, JoinTypeOK, AwaiterNotLost, OutcomeIsTrue,
      WakerInv, ResultInv, CancelInv, shared, completerVars, handleVars,
      Flags, CPC, HPC, Outcomes
<1>1. QED
  <2>1. CASE CompleteFlag
    BY <2>1 DEF CompleteFlag
  <2>2. CASE CompleterWake
    BY <2>2 DEF CompleterWake, TakeAndWake
  <2>3. CASE CompleterDrop
    BY <2>3 DEF CompleterDrop
  <2>4. CASE CompleterCancel
    BY <2>4 DEF CompleterCancel
  <2>5. CASE CompleteResult
    BY <2>5 DEF CompleteResult
  <2>6. CASE DropFuture
    BY <2>6 DEF DropFuture
  <2>7. CASE RegisterWaker
    BY <2>7 DEF RegisterWaker
  <2>8. CASE Recheck
    BY <2>8 DEF Recheck
  <2>9. CASE TakeResult
    BY <2>9 DEF TakeResult
  <2>10. CASE CancelWake
    BY <2>10 DEF CancelWake, TakeAndWake
  <2>11. CASE DropCancel
    BY <2>11 DEF DropCancel
  <2>12. CASE DropWake
    BY <2>12 DEF DropWake, TakeAndWake
  <2>13. CASE CancelFlag
    BY <2>13 DEF CancelFlag
  <2>14. CASE Detach
    BY <2>14 DEF Detach
  <2>15. CASE DropHandle
    BY <2>15 DEF DropHandle
  <2>16. ASSUME NEW k \in Wakers, Poll(k) PROVE JoinInv'
    BY <2>16 DEF Poll
  <2>17. CASE UNCHANGED joinVars
    BY <2>17 DEF joinVars
  <2>18. QED
    BY <2>1, <2>2, <2>3, <2>4, <2>5, <2>6, <2>7, <2>8, <2>9,
       <2>10, <2>11, <2>12, <2>13, <2>14, <2>15, <2>16, <2>17
       DEF JoinNext, CompleterStep, Finish, HandleStep

\* The invariant holds of every reachable state.
THEOREM JoinInvariance == JoinSpec => []JoinInv
<1>1. JoinInit => JoinInv
  BY DEF JoinInit, JoinInv, JoinTypeOK, AwaiterNotLost, OutcomeIsTrue, WakerInv, ResultInv,
         CancelInv, Flags, CPC, HPC, Outcomes
<1>2. QED
  BY <1>1, JoinInductive, PTL DEF JoinSpec

\* Type correctness of the shared state and of both actors.
THEOREM JoinTypeCorrect == JoinSpec => []JoinTypeOK
  BY JoinInvariance, PTL DEF JoinInv

\* No interleaving of complete, cancel, drop and poll leaves the awaiting
\* task asleep after its task has finished (task.rs: register the waker
\* before re-checking the flags).
THEOREM NoLostAwaiter == JoinSpec => []AwaiterNotLost
  BY JoinInvariance, PTL DEF JoinInv

\* The `expect` on the taken result never fires on a first Ready poll.
THEOREM ReadyNeverEmpty == JoinSpec => []ReadyHasResult
<1>1. JoinInv => ReadyHasResult
  BY DEF JoinInv, ResultInv, ReadyHasResult
<1>2. QED
  BY <1>1, JoinInvariance, PTL

\* Ok is reported only for completed tasks, Err(Cancelled) only for cancelled
\* handles or tasks dropped before completion.
THEOREM HonestOutcome == JoinSpec => []OutcomeIsTrue
  BY JoinInvariance, PTL DEF JoinInv

\* Cancel-on-drop: a dropped Task is finished or cancelled.
THEOREM DropSettles == JoinSpec => []DroppedTaskIsSettled
<1>1. JoinInv => DroppedTaskIsSettled
  BY DEF JoinInv, CancelInv, DroppedTaskIsSettled
<1>2. QED
  BY <1>1, JoinInvariance, PTL


-----------------------------------------------------------------------------
(* FakeIo *)


\* The task of end e is in write_all, or in its loop over vectored writes.
Writing(e) == pc[e] \in {"write", "push"}
\* The task of e has set its flag and has not yet woken the peer's reader.
Closing(e) == pc[e] \in {"shutdown", "drop"}

\* The mutex of a queue is held exactly while poll_read looks at the flag and
\* leaves its waker.
LockHeld == \A e \in Ends : lock[e] <=> pc[e] \in {"empty", "open"}
\* Nothing is pushed meanwhile: what poll_read saw, an empty queue, stays so.
EmptyWhileLocked == \A e \in Ends : pc[e] \in {"empty", "open"} => bytes[e] = <<>>
\* A flag set after poll_read has looked at it belongs to a peer that still
\* has to take the mutex and wake the reader. This is what makes the unlocked
\* flag safe.
ClosingSeen == \A e \in Ends : pc[e] = "open" /\ closed[Peer(e)] => Closing(Peer(e))
\* No write is in progress at an end that has closed.
NoWriteAfterClose == \A e \in Ends : Writing(e) => ~closed[e]
\* The end of the stream was told only when there was nothing left, and
\* nothing came after it.
EofIsLast == \A e \in Ends : eof[e] => closed[Peer(e)] /\ bytes[e] = <<>>

\* The call of a write in progress: its slices end at nondecreasing offsets,
\* the last one at the length, and a push has a slice to take from.
WriteCall ==
  \A e \in Ends : Writing(e) =>
    /\ call[e].op = "write" /\ call[e].want <= offered[e] /\ call[e].slices # <<>>
    /\ call[e].want = call[e].slices[Len(call[e].slices)]
    /\ \A i, j \in DOMAIN call[e].slices : i <= j => call[e].slices[i] <= call[e].slices[j]
    /\ pc[e] = "push" => Unwritten(e) # {}

\* Number of the last byte that end e has pushed.
Sent(e) == IF Writing(e) THEN Before(e) + call[e].got ELSE offered[e]

\* The bytes of a stream come in the order of their numbers, none twice.
Increasing == \A e \in Ends : \A i, j \in DOMAIN Stream(e) : i < j => Stream(e)[i] < Stream(e)[j]
\* A stream holds only what its writer has pushed.
SentOnly == \A e \in Ends : \A i \in DOMAIN Stream(e) : Stream(e)[i] <= Sent(Peer(e))
\* The bytes of a write that returned Ok are in the stream.
DoneArrives == \A e \in Ends : written[Peer(e)] \subseteq ToSet(Stream(e))
\* So are those of the write in progress that were pushed.
PartArrives ==
  \A e \in Ends : Writing(Peer(e)) =>
    (Before(Peer(e)) + 1)..Sent(Peer(e)) \subseteq ToSet(Stream(e))

\* The inductive invariant of the control: who holds what, and who is still
\* to wake whom.
Control ==
  /\ IoTypeOK /\ LockHeld /\ EmptyWhileLocked /\ ClosingSeen
  /\ NoWriteAfterClose /\ EofIsLast /\ WriteCall /\ ReaderNotLost
\* The inductive invariant of the bytes, which rests on Control.
Bytes == Increasing /\ SentOnly /\ DoneArrives /\ PartArrives

\* Concatenation of sequences of bytes.
LEMMA JoinBytes ==
  \A a, b, c \in Seq(1..MaxBytes) : (a \o b) \o c = a \o (b \o c)
BY ConcatJoin, SMTT(60)

\* There are two ends, each the peer of the other.
LEMMA Peers ==
  ASSUME NEW e \in Ends
  PROVE  Peer(e) \in Ends /\ Peer(e) # e /\ Peer(Peer(e)) = e /\ Ends = {e, Peer(e)}
BY DEF Ends, Peer

\* What IoTypeOK says of one end.
LEMMA Fields ==
  ASSUME IoTypeOK, NEW e \in Ends
  PROVE  /\ bytes[e] \in Seq(1..MaxBytes) /\ received[e] \in Seq(1..MaxBytes)
         /\ pc[e] \in Labels /\ call[e] \in IoCalls
         /\ call[e].want \in Nat /\ call[e].got \in Nat /\ call[e].slices \in Seq(Nat)
         /\ call[e].op = "toend" \/ call[e].got <= call[e].want
         /\ offered[e] \in 0..MaxBytes
BY DEF IoTypeOK, IoCalls

\* The fields of the records that stand for a call.
LEMMA CallTypes ==
  /\ NoCall \in IoCalls /\ NoCall.op # "write" /\ NoCall.got <= NoCall.want
  /\ \A op \in {"read", "exact", "toend", "write"}, want \in Nat, slices \in Seq(Nat) :
       /\ Call(op, want, slices) \in IoCalls
       /\ Call(op, want, slices).op = op /\ Call(op, want, slices).want = want
       /\ Call(op, want, slices).got = 0 /\ Call(op, want, slices).slices = slices
  /\ \A c \in IoCalls, m \in Nat :
       /\ [c EXCEPT !.got = m] \in IoCalls
       /\ [c EXCEPT !.got = m].op = c.op /\ [c EXCEPT !.got = m].want = c.want
       /\ [c EXCEPT !.got = m].got = m /\ [c EXCEPT !.got = m].slices = c.slices
BY SMTT(30) DEF NoCall, Call, IoCalls

\* While a slice is unwritten, NextSlice is one and poll_write is given at
\* least one byte.
LEMMA LeftPositive ==
  ASSUME IoTypeOK, NEW e \in Ends, Unwritten(e) # {}
  PROVE  /\ NextSlice(e) \in DOMAIN call[e].slices
         /\ Left(e) \in Nat \ {0}
<1>1. call[e].slices \in Seq(Nat) /\ call[e].got \in Nat
  BY Fields
<1>2. Unwritten(e) \subseteq Nat
  BY <1>1 DEF Unwritten
<1>3. \E i \in Unwritten(e) : \A j \in Unwritten(e) : i <= j
  BY <1>2, LeastNumber
<1>4. NextSlice(e) \in Unwritten(e)
  BY <1>3 DEF NextSlice
<1>5. QED
  BY <1>1, <1>4 DEF Unwritten, Left

\* Control holds of a new pair.
LEMMA InitControl == IoInit => Control
<1> SUFFICES ASSUME IoInit PROVE Control
  OBVIOUS
<1>1. IoTypeOK
  BY CallTypes, TransportAssumption DEF IoInit, IoTypeOK, Labels
<1>2. ReaderNotLost
  BY DEF IoInit, ReaderNotLost
<1>3. LockHeld /\ EmptyWhileLocked /\ ClosingSeen /\ NoWriteAfterClose /\ EofIsLast
  BY DEF IoInit, LockHeld, EmptyWhileLocked, ClosingSeen, NoWriteAfterClose, EofIsLast, Writing, Closing
<1>4. WriteCall
  BY DEF IoInit, WriteCall, Writing
<1> QED BY <1>1, <1>2, <1>3, <1>4 DEF Control

\* wake_reader keeps the types.
LEMMA WakeTypes ==
  ASSUME IoTypeOK, NEW e \in Ends, WakeReader(e)
  PROVE  woken' \in [Ends -> BOOLEAN] /\ reader_waker' \in [Ends -> BOOLEAN]
<1>1. (woken[e] \/ reader_waker[e]) \in BOOLEAN
  OBVIOUS
<1>2. QED
  BY <1>1 DEF WakeReader, IoTypeOK

\* Issuing a read keeps Control.
LEMMA StartReadControl ==
  ASSUME Control, NEW e \in Ends, NEW op \in {"read", "exact", "toend"}, NEW want \in Wants, StartRead(e, op, want)
  PROVE  Control'
<1> USE DEF StartRead, Goto, sharedIo, hist
<1>1. IoTypeOK'
  <2>1. want \in Nat
    BY TransportAssumption
  <2>2. /\ Call(op, want, <<>>) \in IoCalls
        /\ Call(op, want, <<>>).got = 0 /\ Call(op, want, <<>>).want = want
    BY <2>1 DEF Call, IoCalls
  <2>3. /\ call' \in [Ends -> IoCalls]
        /\ \A f \in Ends : (call[f].op = "toend" \/ call[f].got <= call[f].want)'
    BY <2>1, <2>2 DEF Control, IoTypeOK
  <2>4. QED
    BY <2>2, <2>3 DEF Control, IoTypeOK, Labels
<1>2. LockHeld' /\ EmptyWhileLocked' /\ ClosingSeen'
  BY Peers DEF Control, IoTypeOK, LockHeld, EmptyWhileLocked, ClosingSeen, Closing
<1>3. NoWriteAfterClose' /\ EofIsLast' /\ WriteCall'
  BY Peers DEF Control, IoTypeOK, NoWriteAfterClose, EofIsLast, WriteCall, Writing, Unwritten
<1>4. ReaderNotLost'
  BY Peers DEF Control, IoTypeOK, ReaderNotLost, ClosingSeen, EmptyWhileLocked, Closing
<1>5. QED
  BY <1>1, <1>2, <1>3, <1>4 DEF Control

\* Returning with a full buffer keeps Control.
LEMMA ReadFullControl ==
  ASSUME Control, NEW e \in Ends, ReadFull(e)
  PROVE  Control'
<1> USE DEF ReadFull, Goto, sharedIo, hist, ReturnFrom
<1>1. IoTypeOK'
  BY CallTypes DEF Control, IoTypeOK, Labels
<1>2. LockHeld' /\ EmptyWhileLocked' /\ ClosingSeen'
  BY Peers DEF Control, IoTypeOK, LockHeld, EmptyWhileLocked, ClosingSeen, Closing
<1>3. NoWriteAfterClose' /\ EofIsLast' /\ WriteCall'
  BY Peers DEF Control, IoTypeOK, NoWriteAfterClose, EofIsLast, WriteCall, Writing, Unwritten
<1>4. ReaderNotLost'
  BY Peers DEF Control, IoTypeOK, ReaderNotLost, ClosingSeen, EmptyWhileLocked, Closing
<1>5. QED
  BY <1>1, <1>2, <1>3, <1>4 DEF Control

\* Finding the queue empty keeps Control: the mutex is taken and kept.
LEMMA ReadEmptyControl ==
  ASSUME Control, NEW e \in Ends, ReadEmpty(e)
  PROVE  Control'
<1> USE DEF ReadEmpty, Goto, sharedIo, hist
<1>1. IoTypeOK'
  BY Peers DEF Control, IoTypeOK, Labels
<1>2. LockHeld' /\ EmptyWhileLocked' /\ ClosingSeen'
  BY Peers DEF Control, IoTypeOK, LockHeld, EmptyWhileLocked, ClosingSeen, Closing
<1>3. NoWriteAfterClose' /\ EofIsLast' /\ WriteCall'
  BY Peers DEF Control, IoTypeOK, NoWriteAfterClose, EofIsLast, WriteCall, Writing, Unwritten
<1>4. ReaderNotLost'
  BY Peers DEF Control, IoTypeOK, ReaderNotLost, ClosingSeen, EmptyWhileLocked, Closing
<1>5. QED
  BY <1>1, <1>2, <1>3, <1>4 DEF Control

\* Leaving the waker keeps Control: the peer has not pushed, and if it has
\* closed it is about to wake.
LEMMA ReadRegisterControl ==
  ASSUME Control, NEW e \in Ends, ReadRegister(e)
  PROVE  Control'
<1> USE DEF ReadRegister, Goto, sharedIo, hist
<1>1. IoTypeOK'
  BY Peers DEF Control, IoTypeOK, Labels
<1>2. LockHeld' /\ EmptyWhileLocked' /\ ClosingSeen'
  <2>1. LockHeld'
    BY DEF Control, IoTypeOK, LockHeld
  <2>2. EmptyWhileLocked' /\ ClosingSeen'
    BY Peers DEF Control, IoTypeOK, EmptyWhileLocked, ClosingSeen, Closing
  <2>3. QED
    BY <2>1, <2>2
<1>3. NoWriteAfterClose' /\ EofIsLast' /\ WriteCall'
  BY Peers DEF Control, IoTypeOK, NoWriteAfterClose, EofIsLast, WriteCall, Writing, Unwritten
<1>4. ReaderNotLost'
  BY Peers DEF Control, IoTypeOK, ReaderNotLost, ClosingSeen, EmptyWhileLocked, Closing
<1>5. QED
  BY <1>1, <1>2, <1>3, <1>4 DEF Control

\* Polling a woken reader keeps Control.
LEMMA RepollControl ==
  ASSUME Control, NEW e \in Ends, Repoll(e)
  PROVE  Control'
<1> USE DEF Repoll, Goto, sharedIo, hist
<1>1. IoTypeOK'
  BY Peers DEF Control, IoTypeOK, Labels
<1>2. LockHeld' /\ EmptyWhileLocked' /\ ClosingSeen'
  BY Peers DEF Control, IoTypeOK, LockHeld, EmptyWhileLocked, ClosingSeen, Closing
<1>3. NoWriteAfterClose' /\ EofIsLast' /\ WriteCall'
  BY Peers DEF Control, IoTypeOK, NoWriteAfterClose, EofIsLast, WriteCall, Writing, Unwritten
<1>4. ReaderNotLost'
  BY Peers DEF Control, IoTypeOK, ReaderNotLost, ClosingSeen, EmptyWhileLocked, Closing
<1>5. QED
  BY <1>1, <1>2, <1>3, <1>4 DEF Control

\* The end of a write keeps Control.
LEMMA WriteDoneControl ==
  ASSUME Control, NEW e \in Ends, WriteDone(e)
  PROVE  Control'
<1> USE DEF WriteDone, Goto, sharedIo, hist, ReturnFrom
<1>1. IoTypeOK'
  <2>1. Before(e) \in Nat
    BY Fields DEF Control, WriteCall, Writing, Before
  <2>2. written' \in [Ends -> SUBSET (1..MaxBytes)]
    <3>1. (Before(e) + 1)..offered[e] \subseteq 1..MaxBytes
      BY <2>1, Fields, TransportAssumption DEF Control
    <3>2. QED
      BY <3>1 DEF Control, IoTypeOK
  <2>3. QED
    BY <2>2, CallTypes DEF Control, IoTypeOK, Labels
<1>2. LockHeld' /\ EmptyWhileLocked' /\ ClosingSeen'
  BY Peers DEF Control, IoTypeOK, LockHeld, EmptyWhileLocked, ClosingSeen, Closing
<1>3. NoWriteAfterClose' /\ EofIsLast' /\ WriteCall'
  BY Peers DEF Control, IoTypeOK, NoWriteAfterClose, EofIsLast, WriteCall, Writing, Unwritten
<1>4. ReaderNotLost'
  BY Peers DEF Control, IoTypeOK, ReaderNotLost, ClosingSeen, EmptyWhileLocked, Closing
<1>5. QED
  BY <1>1, <1>2, <1>3, <1>4 DEF Control

\* Setting write_closed keeps Control, whatever the peer is doing.
LEMMA CloseFlagControl ==
  ASSUME Control, NEW e \in Ends, NEW next \in {"shutdown", "drop"}, CloseFlag(e, next)
  PROVE  Control'
<1> USE DEF CloseFlag, Goto, sharedIo, hist
<1>1. IoTypeOK'
  BY Peers DEF Control, IoTypeOK, Labels
<1>2. LockHeld' /\ EmptyWhileLocked' /\ ClosingSeen'
  BY Peers DEF Control, IoTypeOK, LockHeld, EmptyWhileLocked, ClosingSeen, Closing
<1>3. NoWriteAfterClose' /\ EofIsLast' /\ WriteCall'
  BY Peers DEF Control, IoTypeOK, NoWriteAfterClose, EofIsLast, WriteCall, Writing, Unwritten
<1>4. ReaderNotLost'
  BY Peers DEF Control, IoTypeOK, ReaderNotLost, ClosingSeen, EmptyWhileLocked, Closing
<1>5. QED
  BY <1>1, <1>2, <1>3, <1>4 DEF Control

\* Dropping a pending read keeps Control.
LEMMA CancelControl ==
  ASSUME Control, NEW e \in Ends, Cancel(e)
  PROVE  Control'
<1> USE DEF Cancel, Goto, sharedIo, hist, ReturnFrom
<1>1. IoTypeOK'
  BY CallTypes DEF Control, IoTypeOK, Labels
<1>2. LockHeld' /\ EmptyWhileLocked' /\ ClosingSeen'
  BY Peers DEF Control, IoTypeOK, LockHeld, EmptyWhileLocked, ClosingSeen, Closing
<1>3. NoWriteAfterClose' /\ EofIsLast' /\ WriteCall'
  BY Peers DEF Control, IoTypeOK, NoWriteAfterClose, EofIsLast, WriteCall, Writing, Unwritten
<1>4. ReaderNotLost'
  BY Peers DEF Control, IoTypeOK, ReaderNotLost, ClosingSeen, EmptyWhileLocked, Closing
<1>5. QED
  BY <1>1, <1>2, <1>3, <1>4 DEF Control

\* Waking the peer's reader after the flag keeps Control.
LEMMA CloseWakeControl ==
  ASSUME Control, NEW e \in Ends, CloseWake(e)
  PROVE  Control'
<1> USE DEF CloseWake, Goto, hist
<1>1. IoTypeOK'
  BY Peers, WakeTypes DEF Control, IoTypeOK, Labels
<1>2. LockHeld' /\ EmptyWhileLocked' /\ ClosingSeen'
  BY Peers DEF Control, IoTypeOK, LockHeld, EmptyWhileLocked, ClosingSeen, Closing
<1>3. NoWriteAfterClose' /\ EofIsLast' /\ WriteCall'
  BY Peers DEF Control, IoTypeOK, NoWriteAfterClose, EofIsLast, WriteCall, Writing, Unwritten
<1>4. ReaderNotLost'
  BY Peers DEF Control, IoTypeOK, ReaderNotLost, WakeReader
<1>5. QED
  BY <1>1, <1>2, <1>3, <1>4 DEF Control

\* Any return of a read or a write keeps Control, if the end of the stream is
\* told only when the peer has closed and the queue is empty.
LEMMA ReturnControl ==
  ASSUME Control, NEW e \in Ends, pc[e] \in {"read", "empty", "write"},
         pc' = [pc EXCEPT ![e] = "idle"], call' = [call EXCEPT ![e] = NoCall],
         lock' = [lock EXCEPT ![e] = FALSE], UNCHANGED <<bytes, reader_waker, closed, woken, offered, written, received>>,
         \/ eof' = eof
         \/ eof' = [eof EXCEPT ![e] = TRUE] /\ closed[Peer(e)] /\ bytes[e] = <<>>
  PROVE  Control'
<1>1. IoTypeOK'
  <2>1. eof' \in [Ends -> BOOLEAN]
    BY DEF Control, IoTypeOK
  <2>2. call' \in [Ends -> IoCalls] /\ \A f \in Ends : (call[f].op = "toend" \/ call[f].got <= call[f].want)'
    BY CallTypes DEF Control, IoTypeOK
  <2>3. pc' \in [Ends -> Labels] /\ lock' \in [Ends -> BOOLEAN]
    BY DEF Control, IoTypeOK, Labels
  <2>4. QED
    BY <2>1, <2>2, <2>3 DEF Control, IoTypeOK
<1>2. LockHeld'
  BY DEF Control, IoTypeOK, LockHeld
<1>3. EmptyWhileLocked' /\ ClosingSeen'
  BY Peers DEF Control, IoTypeOK, EmptyWhileLocked, ClosingSeen, Closing
<1>4. NoWriteAfterClose'
  BY Peers DEF Control, IoTypeOK, NoWriteAfterClose, Writing
<1>5. EofIsLast'
  BY Peers DEF Control, IoTypeOK, EofIsLast
<1>6. WriteCall'
  BY DEF Control, IoTypeOK, WriteCall, Writing, Unwritten
<1>7. ReaderNotLost'
  BY Peers DEF Control, IoTypeOK, ReaderNotLost, Closing
<1>8. QED
  BY <1>1, <1>2, <1>3, <1>4, <1>5, <1>6, <1>7 DEF Control

\* Looking at the peer's flag keeps Control.
LEMMA ReadCheckControl ==
  ASSUME Control, NEW e \in Ends, ReadCheck(e)
  PROVE  Control'
<1>1. CASE closed[Peer(e)]
  <2>1. bytes[e] = <<>>
    BY DEF ReadCheck, Control, EmptyWhileLocked
  <2>2. QED
    BY <1>1, <2>1, ReturnControl DEF ReadCheck, ReturnFrom, Goto
<1>2. CASE ~closed[Peer(e)]
  <2> pc[e] = "empty" /\ pc' = [pc EXCEPT ![e] = "open"] /\ UNCHANGED <<sharedIo, call, woken, hist>>
    BY <1>2 DEF ReadCheck, Goto, sharedIo, hist
  <2>1. IoTypeOK'
    BY DEF Control, IoTypeOK, Labels, sharedIo, hist
  <2>2. LockHeld' /\ EmptyWhileLocked' /\ EofIsLast'
    BY DEF Control, IoTypeOK, LockHeld, EmptyWhileLocked, EofIsLast, sharedIo, hist
  <2>3. ClosingSeen' /\ NoWriteAfterClose' /\ ReaderNotLost'
    BY <1>2, Peers DEF Control, IoTypeOK, ClosingSeen, NoWriteAfterClose, ReaderNotLost, Closing, Writing, sharedIo
  <2>4. WriteCall'
    BY DEF Control, IoTypeOK, WriteCall, Writing, Unwritten, hist
  <2>5. QED
    BY <2>1, <2>2, <2>3, <2>4 DEF Control
<1>3. QED
  BY <1>1, <1>2

\* The check of peer_gone keeps Control.
LEMMA WriteCheckControl ==
  ASSUME Control, NEW e \in Ends, WriteCheck(e)
  PROVE  Control'
<1>1. CASE closed[Peer(e)]
  <2>1. lock' = [lock EXCEPT ![e] = FALSE]
    BY DEF WriteCheck, Control, LockHeld, IoTypeOK, sharedIo
  <2>2. QED
    BY <1>1, <2>1, ReturnControl DEF WriteCheck, ReturnFrom, Goto, sharedIo, hist
<1>2. CASE ~closed[Peer(e)]
  <2> pc[e] = "write" /\ pc' = [pc EXCEPT ![e] = "push"] /\ UNCHANGED <<sharedIo, call, woken, hist>>
    BY <1>2 DEF WriteCheck, Goto, sharedIo, hist
  <2>1. IoTypeOK'
    BY DEF Control, IoTypeOK, Labels, sharedIo, hist
  <2>2. LockHeld' /\ EmptyWhileLocked' /\ EofIsLast'
    BY DEF Control, IoTypeOK, LockHeld, EmptyWhileLocked, EofIsLast, sharedIo, hist
  <2>3. ClosingSeen' /\ NoWriteAfterClose' /\ ReaderNotLost'
    BY <1>2, Peers DEF Control, IoTypeOK, ClosingSeen, NoWriteAfterClose, ReaderNotLost, Closing, Writing, sharedIo
  <2>4. WriteCall'
    BY DEF Control, IoTypeOK, WriteCall, Writing, Unwritten, hist, WriteCheck
  <2>5. QED
    BY <2>1, <2>2, <2>3, <2>4 DEF Control
<1>3. QED
  BY <1>1, <1>2

\* A read that finds bytes takes at least one, never more than fit.
LEMMA ReadTakeFacts ==
  ASSUME Control, NEW e \in Ends, ReadTake(e)
  PROVE  /\ \E n \in 1..Len(bytes[e]) :
              /\ bytes' = [bytes EXCEPT ![e] = SubSeq(@, n + 1, Len(@))]
              /\ received' = [received EXCEPT ![e] = @ \o SubSeq(bytes[e], 1, n)]
              /\ \/ pc' = [pc EXCEPT ![e] = "idle"] /\ call' = [call EXCEPT ![e] = NoCall]
                 \/ pc' = pc /\ call' = [call EXCEPT ![e].got = @ + n] /\ n <= Remaining(e)
         /\ pc[e] = "read" /\ bytes[e] # <<>>
         /\ UNCHANGED <<lock, reader_waker, closed, woken, offered, written, eof>>
<1>1. bytes[e] \in Seq(1..MaxBytes) /\ bytes[e] # <<>> /\ Remaining(e) \in Nat \ {0}
  BY Fields DEF Control, ReadTake, Remaining
<1>2. PICK n \in Moves(IF Remaining(e) < Len(bytes[e]) THEN Remaining(e) ELSE Len(bytes[e])) :
        /\ bytes' = [bytes EXCEPT ![e] = SubSeq(@, n + 1, Len(@))]
        /\ received' = [received EXCEPT ![e] = @ \o SubSeq(bytes[e], 1, n)]
        /\ IF call[e].op = "read"
           THEN ReturnFrom(e)
           ELSE call' = [call EXCEPT ![e].got = @ + n] /\ UNCHANGED pc
  BY DEF ReadTake
<1>3. n \in 1..Len(bytes[e]) /\ n <= Remaining(e)
  BY <1>1, <1>2 DEF Moves
<1>4. QED
  BY <1>2, <1>3 DEF ReadTake, ReturnFrom, Goto

\* Taking bytes from the queue keeps Control.
LEMMA ReadTakeControl ==
  ASSUME Control, NEW e \in Ends, ReadTake(e)
  PROVE  Control'
<1>1. PICK n \in 1..Len(bytes[e]) :
        /\ bytes' = [bytes EXCEPT ![e] = SubSeq(@, n + 1, Len(@))]
        /\ received' = [received EXCEPT ![e] = @ \o SubSeq(bytes[e], 1, n)]
        /\ \/ pc' = [pc EXCEPT ![e] = "idle"] /\ call' = [call EXCEPT ![e] = NoCall]
           \/ pc' = pc /\ call' = [call EXCEPT ![e].got = @ + n] /\ n <= Remaining(e)
  BY ReadTakeFacts
<1>2. pc[e] = "read" /\ bytes[e] # <<>> /\ UNCHANGED <<lock, reader_waker, closed, woken, offered, written, eof>>
  BY ReadTakeFacts
<1>3. IoTypeOK'
  <2>1. bytes' \in [Ends -> Seq(1..MaxBytes)] /\ received' \in [Ends -> Seq(1..MaxBytes)]
    <3>1. /\ SubSeq(bytes[e], n + 1, Len(bytes[e])) \in Seq(1..MaxBytes)
          /\ SubSeq(bytes[e], 1, n) \in Seq(1..MaxBytes)
      <4>1. bytes[e] \in Seq(1..MaxBytes) /\ n \in 0..Len(bytes[e])
        BY Fields DEF Control
      <4>2. QED
        BY <4>1, CutSeq
    <3>2. received[e] \o SubSeq(bytes[e], 1, n) \in Seq(1..MaxBytes)
      BY Fields, <3>1 DEF Control
    <3>3. QED
      BY <1>1, <3>1, <3>2 DEF Control, IoTypeOK
  <2>2. /\ call' \in [Ends -> IoCalls] /\ pc' \in [Ends -> Labels]
        /\ \A f \in Ends : (call[f].op = "toend" \/ call[f].got <= call[f].want)'
    <3>1. CASE pc' = [pc EXCEPT ![e] = "idle"] /\ call' = [call EXCEPT ![e] = NoCall]
      BY <3>1, CallTypes DEF Control, IoTypeOK, Labels
    <3>2. CASE pc' = pc /\ call' = [call EXCEPT ![e].got = @ + n] /\ n <= Remaining(e)
      <4>1. call[e].got + n \in Nat
        BY Fields DEF Control
      <4>2. call' = [call EXCEPT ![e] = [call[e] EXCEPT !.got = call[e].got + n]]
        BY <3>2
      <4>3. /\ [call[e] EXCEPT !.got = call[e].got + n] \in IoCalls
            /\ [call[e] EXCEPT !.got = call[e].got + n].op = call[e].op
            /\ [call[e] EXCEPT !.got = call[e].got + n].got = call[e].got + n
            /\ [call[e] EXCEPT !.got = call[e].got + n].want = call[e].want
        BY <4>1, CallTypes, Fields DEF Control
      <4>4. call[e].op = "toend" \/ call[e].got + n <= call[e].want
        BY <3>2, Fields DEF Remaining, Control
      <4>5. QED
        BY <3>2, <4>2, <4>3, <4>4 DEF Control, IoTypeOK
    <3>3. QED
      BY <1>1, <3>1, <3>2
  <2>3. QED
    BY <1>2, <2>1, <2>2 DEF Control, IoTypeOK
<1>4. pc'[e] \in {"idle", "read"} /\ \A f \in Ends \ {e} : pc'[f] = pc[f] /\ call'[f] = call[f]
  BY <1>1, <1>2 DEF Control, IoTypeOK
<1>q. \A f \in Ends \ {e} : bytes'[f] = bytes[f]
  BY <1>1 DEF Control, IoTypeOK
<1>5. LockHeld' /\ EmptyWhileLocked' /\ ClosingSeen'
  BY Peers, <1>q, <1>2, <1>4 DEF Control, IoTypeOK, LockHeld, EmptyWhileLocked, ClosingSeen, Closing
<1>6. NoWriteAfterClose' /\ EofIsLast'
  BY Peers, <1>1, <1>2, <1>4, SMTT(30) DEF Control, IoTypeOK, NoWriteAfterClose, EofIsLast, Writing
<1>7. WriteCall'
  BY <1>2, <1>4 DEF Control, IoTypeOK, WriteCall, Writing, Unwritten
<1>8. ReaderNotLost'
  BY Peers, <1>q, <1>2, <1>4, ZenonT(40) DEF Control, IoTypeOK, ReaderNotLost, Closing
<1>9. QED
  BY <1>3, <1>5, <1>6, <1>7, <1>8 DEF Control

\* Issuing a write keeps Control.
LEMMA StartWriteControl ==
  ASSUME Control, NEW e \in Ends, NEW slices \in Slices[e], StartWrite(e, slices)
  PROVE  Control'
<1> DEFINE total == slices[Len(slices)]
           new   == Call("write", total, slices)
<1>1. /\ slices \in Seq(Nat) /\ slices # <<>> /\ total \in Nat
      /\ \A i, j \in DOMAIN slices : i <= j => slices[i] <= slices[j]
  BY TransportAssumption
<1>2. new \in IoCalls /\ new.op = "write" /\ new.got = 0 /\ new.want = total /\ new.slices = slices
  BY <1>1, CallTypes
<1>3. /\ pc[e] = "idle" /\ ~closed[e] /\ offered[e] + total <= MaxBytes
      /\ pc' = [pc EXCEPT ![e] = "write"] /\ call' = [call EXCEPT ![e] = new]
      /\ offered' = [offered EXCEPT ![e] = @ + total]
      /\ UNCHANGED <<bytes, lock, reader_waker, closed, woken, written, received, eof>>
  BY DEF StartWrite, Goto, sharedIo
<1> HIDE DEF new, total
<1>4. IoTypeOK'
  <2>1. call' \in [Ends -> IoCalls] /\ \A f \in Ends : (call[f].op = "toend" \/ call[f].got <= call[f].want)'
    BY <1>1, <1>2, <1>3 DEF Control, IoTypeOK
  <2>2. offered' \in [Ends -> 0..MaxBytes]
    BY <1>1, <1>3, TransportAssumption DEF Control, IoTypeOK
  <2>3. QED
    BY <1>3, <2>1, <2>2 DEF Control, IoTypeOK, Labels
<1>5. LockHeld' /\ EmptyWhileLocked' /\ ClosingSeen'
  BY Peers, <1>3 DEF Control, IoTypeOK, LockHeld, EmptyWhileLocked, ClosingSeen, Closing
<1>6. NoWriteAfterClose' /\ EofIsLast'
  BY Peers, <1>3 DEF Control, IoTypeOK, NoWriteAfterClose, EofIsLast, Writing
<1>7. WriteCall'
  <2>1. offered[e] + total >= total /\ offered'[e] = offered[e] + total /\ call'[e] = new
    BY <1>1, <1>3, Fields DEF Control, IoTypeOK
  <2>2. QED
    BY <1>1, <1>2, <1>3, <2>1, SMTT(30) DEF Control, IoTypeOK, WriteCall, Writing, Unwritten, total
<1>8. ReaderNotLost'
  BY Peers, <1>3 DEF Control, IoTypeOK, ReaderNotLost, Closing
<1>9. QED
  BY <1>4, <1>5, <1>6, <1>7, <1>8 DEF Control

\* A push moves at least one byte and never past the end of the call.
LEMMA PushFacts ==
  ASSUME Control, NEW e \in Ends, pc[e] = "push", NEW n \in Moves(Left(e))
  PROVE  /\ n \in Nat \ {0}
         /\ Before(e) \in Nat
         /\ call[e].got + n <= call[e].want
         /\ Before(e) + call[e].want = offered[e]
<1>1. /\ call[e].want <= offered[e] /\ call[e].slices # <<>>
      /\ call[e].want = call[e].slices[Len(call[e].slices)]
      /\ \A i, j \in DOMAIN call[e].slices : i <= j => call[e].slices[i] <= call[e].slices[j]
      /\ Unwritten(e) # {}
  BY DEF Control, WriteCall, Writing
<1>2. Left(e) \in Nat \ {0} /\ NextSlice(e) \in DOMAIN call[e].slices
  BY <1>1, LeftPositive DEF Control
<1>3. n \in Nat \ {0} /\ n <= Left(e)
  BY <1>2 DEF Moves
<1>4. call[e].slices[NextSlice(e)] <= call[e].want /\ call[e].slices[NextSlice(e)] \in Nat
  BY <1>1, <1>2, Fields, SMTT(30) DEF Control
<1>5. call[e].got + n <= call[e].want
  <2>1. call[e].got \in Nat /\ call[e].want \in Nat
    BY Fields DEF Control
  <2>2. QED
    BY <1>2, <1>3, <1>4, <2>1 DEF Left
<1>6. QED
  BY <1>1, <1>3, <1>5, Fields, SMTT(30) DEF Control, Before

\* Pushing bytes keeps Control: a pending reader is woken under the same
\* mutex.
LEMMA WritePushControl ==
  ASSUME Control, NEW e \in Ends, WritePush(e)
  PROVE  Control'
<1>1. PICK n \in Moves(Left(e)) :
        /\ bytes' = [bytes EXCEPT ![Peer(e)] = @ \o Numbered(Before(e) + call[e].got, n)]
        /\ call' = [call EXCEPT ![e].got = @ + n]
  BY DEF WritePush
<1>2. /\ pc[e] = "push" /\ ~lock[Peer(e)] /\ pc' = [pc EXCEPT ![e] = "write"]
      /\ WakeReader(Peer(e)) /\ UNCHANGED <<lock, closed, offered, written, received, eof>>
  BY DEF WritePush, Goto, hist
<1>3. /\ n \in Nat \ {0} /\ Before(e) \in Nat /\ call[e].got \in Nat
      /\ call[e].got + n <= call[e].want
      /\ Before(e) + call[e].want = offered[e]
  BY <1>2, PushFacts, Fields DEF Control
<1>4. /\ [call[e] EXCEPT !.got = call[e].got + n] \in IoCalls
      /\ [call[e] EXCEPT !.got = call[e].got + n].op = call[e].op
      /\ [call[e] EXCEPT !.got = call[e].got + n].got = call[e].got + n
      /\ [call[e] EXCEPT !.got = call[e].got + n].want = call[e].want
      /\ [call[e] EXCEPT !.got = call[e].got + n].slices = call[e].slices
  <2>1. call[e] \in IoCalls /\ call[e].got + n \in Nat
    BY <1>3, Fields DEF Control
  <2>2. QED
    BY <2>1, CallTypes
<1>5. call' = [call EXCEPT ![e] = [call[e] EXCEPT !.got = call[e].got + n]]
  BY <1>1
<1>6. IoTypeOK'
  <2>1. woken' \in [Ends -> BOOLEAN] /\ reader_waker' \in [Ends -> BOOLEAN]
    BY <1>2, Peers, WakeTypes DEF Control
  <2>2. call' \in [Ends -> IoCalls] /\ \A f \in Ends : (call[f].op = "toend" \/ call[f].got <= call[f].want)'
    BY <1>3, <1>4, <1>5 DEF Control, IoTypeOK
  <2>3. Numbered(Before(e) + call[e].got, n) \in Seq(1..MaxBytes)
    <3>1. \A i \in 1..n : Before(e) + call[e].got + i \in 1..MaxBytes
      <4>1. MaxBytes \in Nat /\ offered[e] \in 0..MaxBytes /\ call[e].want \in Nat
        BY Fields, TransportAssumption DEF Control
      <4>2. QED
        BY <1>3, <4>1
    <3>2. QED
      BY <1>3, <3>1 DEF Numbered
  <2>4. bytes' \in [Ends -> Seq(1..MaxBytes)]
    BY <1>1, <2>3, Peers DEF Control, IoTypeOK
  <2>5. QED
    BY <1>2, <2>1, <2>2, <2>4 DEF Control, IoTypeOK, Labels
<1>7. LockHeld' /\ EmptyWhileLocked' /\ ClosingSeen'
  BY Peers, <1>1, <1>2 DEF Control, IoTypeOK, LockHeld, EmptyWhileLocked, ClosingSeen, Closing
<1>8. NoWriteAfterClose' /\ EofIsLast'
  BY Peers, <1>1, <1>2 DEF Control, IoTypeOK, NoWriteAfterClose, EofIsLast, Writing
<1>9. WriteCall'
  BY <1>2, <1>4, <1>5 DEF Control, IoTypeOK, WriteCall, Writing, Unwritten
<1>10. ReaderNotLost'
  BY Peers, <1>1, <1>2 DEF Control, IoTypeOK, ReaderNotLost, WakeReader
<1>11. QED
  BY <1>6, <1>7, <1>8, <1>9, <1>10 DEF Control

\* Control is inductive.
LEMMA ControlStep == Control /\ [IoNext]_ioVars => Control'
<1> SUFFICES ASSUME Control, [IoNext]_ioVars PROVE Control'
  OBVIOUS
<1>1. CASE UNCHANGED ioVars
  BY <1>1 DEF ioVars, sharedIo, hist, Control, IoTypeOK, LockHeld, EmptyWhileLocked, ClosingSeen,
              NoWriteAfterClose, EofIsLast, WriteCall, ReaderNotLost, Writing, Closing, Unwritten
<1>2. CASE IoNext
  <2>1. PICK e \in Ends : Step(e) \/ Start(e) \/ Cancel(e)
    BY <1>2 DEF IoNext
  <2>2. CASE Step(e)
    BY <2>2, ReadFullControl, ReadTakeControl, ReadEmptyControl, ReadCheckControl,
       ReadRegisterControl, RepollControl, WriteDoneControl, WriteCheckControl, WritePushControl,
       CloseWakeControl DEF Step
  <2>3. CASE Start(e)
    BY <2>3, StartReadControl, StartWriteControl, CloseFlagControl DEF Start
  <2>4. QED
    BY <2>1, <2>2, <2>3, CancelControl
<1>3. QED
  BY <1>1, <1>2

\* THE READER IS WOKEN: in every behaviour a reader that sleeps unwoken has
\* an empty queue with its waker in it, and a peer that has closed is about
\* to wake it (poll_read, poll_write, shutdown and drop of FakeIo, of which
\* the last two set the flag without the mutex).
THEOREM NoLostReader == IoSpec => []ReaderNotLost
<1>1. IoSpec => []Control
  BY InitControl, ControlStep, PTL DEF IoSpec
<1>2. Control => ReaderNotLost
  BY DEF Control
<1>3. QED
  BY <1>1, <1>2, PTL

-----------------------------------------------------------------------------
\* A stream is a sequence of bytes.
LEMMA StreamType ==
  ASSUME IoTypeOK, NEW e \in Ends
  PROVE  Stream(e) \in Seq(1..MaxBytes)
BY Fields DEF Stream

\* How far a write is: between the bytes before it and the bytes offered, and
\* at the end of them when no slice is left.
LEMMA WriteProgress ==
  Control => \A e \in Ends :
    /\ Sent(e) \in Nat /\ Sent(e) <= offered[e]
    /\ Writing(e) => /\ Before(e) \in Nat /\ Before(e) <= Sent(e)
                     /\ Sent(e) = Before(e) + call[e].got
                     /\ Unwritten(e) = {} => Sent(e) = offered[e]
<1> SUFFICES ASSUME Control, NEW e \in Ends
             PROVE  /\ Sent(e) \in Nat /\ Sent(e) <= offered[e]
                    /\ Writing(e) => /\ Before(e) \in Nat /\ Before(e) <= Sent(e)
                                     /\ Sent(e) = Before(e) + call[e].got
                                     /\ Unwritten(e) = {} => Sent(e) = offered[e]
  OBVIOUS
<1>1. /\ call[e].want \in Nat /\ call[e].got \in Nat /\ call[e].slices \in Seq(Nat)
      /\ offered[e] \in Nat /\ (call[e].op = "toend" \/ call[e].got <= call[e].want)
  BY Fields, TransportAssumption DEF Control
<1>2. CASE ~Writing(e)
  <2>1. Sent(e) = offered[e]
    BY <1>2 DEF Sent
  <2>2. QED
    BY <1>1, <1>2, <2>1
<1>3. CASE Writing(e)
  <2>1. /\ call[e].op = "write" /\ call[e].want <= offered[e] /\ call[e].slices # <<>>
        /\ call[e].want = call[e].slices[Len(call[e].slices)]
    BY <1>3 DEF Control, WriteCall
  <2>2. Unwritten(e) = {} => call[e].want <= call[e].got
    BY <1>1, <2>1 DEF Unwritten
  <2>3. Sent(e) = Before(e) + call[e].got
    BY <1>3 DEF Sent
  <2>4. Before(e) \in Nat /\ Before(e) + call[e].want = offered[e]
    BY <1>1, <2>1 DEF Before
  <2>5. call[e].got <= call[e].want
    BY <1>1, <2>1
  <2>6. QED
    BY <1>1, <2>2, <2>3, <2>4, <2>5
<1>4. QED
  BY <1>2, <1>3

\* Sent is a number.
LEMMA SentIsNat == Control => \A f \in Ends : Sent(f) \in Nat
BY WriteProgress

\* It is one in the next state too.
LEMMA SentIsNatNext == Control' => (\A f \in Ends : Sent(f) \in Nat)'
BY SentIsNat, PTL

\* A step that leaves the streams alone keeps Bytes, if pushed bytes only
\* grow and a write that returns had all its bytes in the stream.
LEMMA StreamKept ==
  ASSUME Control, Bytes, Control',
         \A f \in Ends : Stream(f)' = Stream(f),
         \A f \in Ends : Sent(f) <= Sent(f)',
         \A f \in Ends : Writing(f)' => \/ Sent(f)' = Before(f)'
                                        \/ Writing(f) /\ Before(f)' = Before(f) /\ Sent(f)' = Sent(f),
         \A f \in Ends : written'[f] \subseteq written[f] \cup ToSet(Stream(Peer(f)))
  PROVE  Bytes'
<1>1. \A f \in Ends : Stream(f) \in Seq(1..MaxBytes) /\ Sent(f) \in Nat
  BY StreamType, WriteProgress DEF Control
<1>2. \A f \in Ends : Sent(f)' \in Nat
  <2>1. (\A f \in Ends : Sent(f) \in Nat)'
    BY SentIsNatNext
  <2>2. QED
    BY <2>1
<1>3. Increasing'
  BY DEF Bytes, Increasing
<1>4. SentOnly'
  <2> SUFFICES ASSUME NEW f \in Ends, NEW i \in DOMAIN Stream(f)
               PROVE  Stream(f)[i] <= Sent(Peer(f))'
    BY DEF SentOnly
  <2>1. Stream(f)[i] <= Sent(Peer(f)) /\ Stream(f)[i] \in Nat
    <3>1. Stream(f)[i] <= Sent(Peer(f))
      BY DEF Bytes, SentOnly
    <3>2. Stream(f)[i] \in 1..MaxBytes
      <4>1. Stream(f) \in Seq(1..MaxBytes)
        BY <1>1
      <4>2. QED
        BY <4>1, SeqElement
    <3>3. QED
      BY <3>1, <3>2, TransportAssumption
  <2>2. QED
    BY <1>1, <1>2, <2>1, Peers
<1>5. DoneArrives'
  <2> SUFFICES ASSUME NEW f \in Ends
               PROVE  written'[Peer(f)] \subseteq ToSet(Stream(f)')
    BY DEF DoneArrives
  <2>1. Peer(f) \in Ends /\ Peer(Peer(f)) = f
    BY Peers
  <2>2. written[Peer(f)] \subseteq ToSet(Stream(f))
    BY DEF Bytes, DoneArrives
  <2>3. QED
    BY <2>1, <2>2
<1>6. PartArrives'
  <2> SUFFICES ASSUME NEW f \in Ends, Writing(Peer(f))'
               PROVE  (Before(Peer(f))' + 1)..Sent(Peer(f))' \subseteq ToSet(Stream(f)')
    BY DEF PartArrives
  <2>1. Peer(f) \in Ends
    BY Peers
  <2>2. CASE Sent(Peer(f))' = Before(Peer(f))'
    BY <1>2, <2>1, <2>2
  <2>3. CASE Writing(Peer(f)) /\ Before(Peer(f))' = Before(Peer(f)) /\ Sent(Peer(f))' = Sent(Peer(f))
    BY <2>3 DEF Bytes, PartArrives
  <2>4. QED
    BY <2>1, <2>2, <2>3
<1>7. QED
  BY <1>3, <1>4, <1>5, <1>6 DEF Bytes

\* So does a step that moves no byte and starts no write.
LEMMA QuietStep ==
  ASSUME Control, Bytes, Control', UNCHANGED <<bytes, received, offered, written>>,
         \A f \in Ends : Writing(f)' => Writing(f) /\ call'[f] = call[f]
  PROVE  Bytes'
<1>1. \A f \in Ends : Stream(f)' = Stream(f)
  BY DEF Stream
<1>2. ASSUME NEW f \in Ends
      PROVE  /\ Sent(f) <= Sent(f)'
             /\ Writing(f)' => Writing(f) /\ Before(f)' = Before(f) /\ Sent(f)' = Sent(f)
  <2>1. CASE Writing(f)'
    <3>1. Writing(f) /\ Before(f)' = Before(f) /\ Sent(f)' = Sent(f)
      BY <2>1 DEF Before, Sent
    <3>2. QED
      BY <3>1, WriteProgress
  <2>2. CASE ~Writing(f)'
    <3>1. Sent(f)' = offered[f]
      BY <2>2 DEF Sent
    <3>2. QED
      BY <2>2, <3>1, WriteProgress
  <2>3. QED
    BY <2>1, <2>2
<1>3. \A f \in Ends : written'[f] \subseteq written[f] \cup ToSet(Stream(Peer(f)))
  OBVIOUS
<1>4. QED
  BY <1>1, <1>2, <1>3, StreamKept

\* Taking bytes moves them from the queue to the reader: no stream changes.
LEMMA StreamsOfReadTake ==
  ASSUME Control, NEW e \in Ends, ReadTake(e), NEW f \in Ends
  PROVE  Stream(f)' = Stream(f)
<1>1. PICK n \in 1..Len(bytes[e]) :
        /\ bytes' = [bytes EXCEPT ![e] = SubSeq(@, n + 1, Len(@))]
        /\ received' = [received EXCEPT ![e] = @ \o SubSeq(bytes[e], 1, n)]
  BY ReadTakeFacts
<1>2. CASE f # e
  BY <1>1, <1>2 DEF Stream, Control, IoTypeOK
<1>3. CASE f = e
  <2> DEFINE S == 1..MaxBytes
             first == SubSeq(bytes[e], 1, n)
             rest == SubSeq(bytes[e], n + 1, Len(bytes[e]))
  <2>1. received[e] \in Seq(S) /\ bytes[e] \in Seq(S) /\ n \in 0..Len(bytes[e])
    BY Fields DEF Control
  <2>2. bytes'[e] = rest /\ received'[e] = received[e] \o first
    BY <1>1 DEF Control, IoTypeOK
  <2> HIDE DEF S
  <2>3. first \in Seq(S) /\ rest \in Seq(S) /\ first \o rest = bytes[e]
    BY <2>1, CutSeq
  <2> HIDE DEF first, rest
  <2>4. (received[e] \o first) \o rest = received[e] \o (first \o rest)
    <3>1. \A a, b, c \in Seq(S) : (a \o b) \o c = a \o (b \o c)
      BY JoinBytes DEF S
    <3>2. QED
      BY <2>1, <2>3, <3>1
  <2>5. QED
    BY <1>3, <2>2, <2>3, <2>4 DEF Stream
<1>4. QED
  BY <1>2, <1>3

\* Taking bytes keeps Bytes.
LEMMA ReadTakeBytes ==
  ASSUME Control, Bytes, Control', NEW e \in Ends, ReadTake(e)
  PROVE  Bytes'
<1>1. \A f \in Ends : Stream(f)' = Stream(f)
  BY StreamsOfReadTake
<1>2. ASSUME NEW f \in Ends
      PROVE  /\ Sent(f)' = Sent(f)
             /\ Writing(f)' => Writing(f) /\ Before(f)' = Before(f)
  <2>1. /\ pc[e] = "read" /\ offered' = offered /\ pc'[e] \in {"idle", "read"}
        /\ f # e => pc'[f] = pc[f] /\ call'[f] = call[f]
    <3>1. PICK n \in 1..Len(bytes[e]) :
            \/ pc' = [pc EXCEPT ![e] = "idle"] /\ call' = [call EXCEPT ![e] = NoCall]
            \/ pc' = pc /\ call' = [call EXCEPT ![e].got = @ + n]
      BY ReadTakeFacts
    <3>2. pc[e] = "read" /\ offered' = offered
      BY ReadTakeFacts
    <3>3. QED
      BY <3>1, <3>2 DEF Control, IoTypeOK
  <2>2. QED
    BY <2>1 DEF Sent, Before, Writing
<1>3. \A f \in Ends : Sent(f) <= Sent(f)'
  BY <1>2, WriteProgress
<1>4. written' = written
  BY DEF ReadTake
<1>5. QED
  BY <1>1, <1>2, <1>3, <1>4, StreamKept

\* Issuing a write keeps Bytes.
LEMMA StartWriteBytes ==
  ASSUME Control, Bytes, Control', NEW e \in Ends, NEW slices \in Slices[e], StartWrite(e, slices)
  PROVE  Bytes'
<1>1. \A f \in Ends : Stream(f)' = Stream(f)
  BY DEF Stream, StartWrite, sharedIo
<1>2. slices[Len(slices)] \in Nat /\ slices \in Seq(Nat)
  BY TransportAssumption
<1>3. /\ pc[e] = "idle" /\ pc'[e] = "write"
      /\ call'[e] = Call("write", slices[Len(slices)], slices) /\ offered'[e] = offered[e] + slices[Len(slices)]
      /\ \A f \in Ends \ {e} : pc'[f] = pc[f] /\ call'[f] = call[f] /\ offered'[f] = offered[f]
  BY DEF StartWrite, Goto, Control, IoTypeOK
<1>4. call'[e].got = 0 /\ call'[e].want = slices[Len(slices)]
  BY <1>3 DEF Call
<1>5. Sent(e) = offered[e] /\ Before(e)' = offered[e] /\ Sent(e)' = offered[e] /\ offered[e] \in Nat
  <2>1. Sent(e) = offered[e]
    BY <1>3 DEF Sent, Writing
  <2>2. offered[e] \in Nat
    BY Fields, TransportAssumption DEF Control
  <2>3. Before(e)' = offered[e]
    BY <1>2, <1>3, <1>4, <2>2 DEF Before
  <2>4. Sent(e)' = offered[e]
    BY <1>3, <1>4, <2>2, <2>3 DEF Sent, Writing
  <2>5. QED
    BY <2>1, <2>2, <2>3, <2>4
<1>6. \A f \in Ends \ {e} : /\ Sent(f)' = Sent(f)
                            /\ Writing(f)' => Writing(f) /\ Before(f)' = Before(f)
  BY <1>3 DEF Sent, Before, Writing
<1>7. \A f \in Ends : Sent(f) <= Sent(f)'
  BY <1>5, <1>6, WriteProgress
<1>8. written' = written
  BY DEF StartWrite
<1>9. QED
  BY <1>1, <1>5, <1>6, <1>7, <1>8, StreamKept

\* The end of a write keeps Bytes: its last slice was pushed, so all of it is
\* in the stream.
LEMMA WriteDoneBytes ==
  ASSUME Control, Bytes, Control', NEW e \in Ends, WriteDone(e)
  PROVE  Bytes'
<1>1. \A f \in Ends : Stream(f)' = Stream(f)
  BY DEF Stream, WriteDone, sharedIo
<1>2. /\ pc[e] = "write" /\ pc'[e] = "idle" /\ offered' = offered
      /\ written' = [written EXCEPT ![e] = @ \cup ((Before(e) + 1)..offered[e])]
      /\ \A f \in Ends \ {e} : pc'[f] = pc[f] /\ call'[f] = call[f]
  BY DEF WriteDone, ReturnFrom, Goto, Control, IoTypeOK
<1>3. Sent(e) = offered[e] /\ Writing(e)
  BY <1>2, WriteProgress DEF WriteDone, Writing
<1>4. ~Writing(e)' /\ Sent(e)' = offered[e]
  BY <1>2 DEF Sent, Writing
<1>5. \A f \in Ends \ {e} : /\ Sent(f)' = Sent(f)
                            /\ Writing(f)' => Writing(f) /\ Before(f)' = Before(f)
  BY <1>2 DEF Sent, Before, Writing
<1>6. \A f \in Ends : Sent(f) <= Sent(f)'
  BY <1>3, <1>4, <1>5, WriteProgress
<1>7. (Before(e) + 1)..offered[e] \subseteq ToSet(Stream(Peer(e)))
  BY <1>3, Peers DEF Bytes, PartArrives
<1>8. \A f \in Ends : written'[f] \subseteq written[f] \cup ToSet(Stream(Peer(f)))
  BY <1>2, <1>7 DEF Control, IoTypeOK
<1>9. QED
  BY <1>1, <1>4, <1>5, <1>6, <1>8, StreamKept

\* A push appends the next n bytes of the call to the stream of the peer.
LEMMA StreamsOfWritePush ==
  ASSUME Control, NEW e \in Ends, WritePush(e)
  PROVE  \E n \in Moves(Left(e)) :
           LET base == Before(e) + call[e].got
               new  == Numbered(base, n)
           IN  /\ call' = [call EXCEPT ![e].got = @ + n]
               /\ n \in Nat \ {0} /\ base \in Nat /\ base + n <= offered[e] /\ offered[e] <= MaxBytes
               /\ new \in Seq(1..MaxBytes) /\ Len(new) = n /\ \A i \in 1..n : new[i] = base + i
               /\ Stream(e)' = Stream(e)
               /\ Stream(Peer(e))' = Stream(Peer(e)) \o new
<1> DEFINE p == Peer(e)
           S == 1..MaxBytes
<1>1. PICK n \in Moves(Left(e)) :
        /\ bytes' = [bytes EXCEPT ![p] = @ \o Numbered(Before(e) + call[e].got, n)]
        /\ call' = [call EXCEPT ![e].got = @ + n]
  BY DEF WritePush
<1> DEFINE base == Before(e) + call[e].got
           new == Numbered(base, n)
<1>2. /\ pc[e] = "push" /\ pc' = [pc EXCEPT ![e] = "write"]
      /\ UNCHANGED <<offered, written, received>>
  BY DEF WritePush, Goto, hist
<1>3. /\ n \in Nat \ {0} /\ base \in Nat /\ Before(e) \in Nat /\ call[e].got \in Nat
      /\ base + n <= offered[e] /\ offered[e] <= MaxBytes /\ offered[e] \in Nat /\ MaxBytes \in Nat
  <2>1. /\ n \in Nat \ {0} /\ Before(e) \in Nat
        /\ call[e].got + n <= call[e].want
        /\ Before(e) + call[e].want = offered[e]
    BY <1>2, PushFacts
  <2>2. /\ call[e].got \in Nat /\ call[e].want \in Nat
        /\ offered[e] \in Nat /\ offered[e] <= MaxBytes /\ MaxBytes \in Nat
    BY Fields, TransportAssumption DEF Control
  <2>3. QED
    BY <2>1, <2>2
<1>4. p \in Ends /\ p # e /\ Peer(p) = e /\ Peer(e) = p /\ Ends = {e, p}
  BY Peers
<1>5. Stream(e)' = Stream(e)
  BY <1>1, <1>2, <1>4 DEF Stream, Control, IoTypeOK
<1>6. /\ new \in Seq(S) /\ Len(new) = n /\ \A i \in 1..n : new[i] = base + i
  <2>1. \A i \in 1..n : base + i \in S
    BY <1>3
  <2>2. QED
    BY <1>3, <2>1, MakeSeq, SMTT(30) DEF Numbered
<1>7. Stream(p)' = Stream(p) \o new
  <2>1. bytes'[p] = bytes[p] \o new /\ received'[p] = received[p]
    BY <1>1, <1>2, <1>4 DEF Control, IoTypeOK
  <2>2. received[p] \in Seq(S) /\ bytes[p] \in Seq(S)
    BY <1>4, Fields DEF Control
  <2> HIDE DEF S, new
  <2>3. received[p] \o (bytes[p] \o new) = (received[p] \o bytes[p]) \o new
    <3>1. new \in Seq(S)
      BY <1>6
    <3>2. \A a, b, c \in Seq(S) : (a \o b) \o c = a \o (b \o c)
      BY JoinBytes DEF S
    <3>3. QED
      BY <2>2, <3>1, <3>2
  <2>4. QED
    BY <2>1, <2>3 DEF Stream
<1>8. QED
  BY <1>1, <1>3, <1>5, <1>6, <1>7

\* Pushing bytes keeps Bytes, however short the write is.
LEMMA WritePushBytes ==
  ASSUME Control, Bytes, Control', NEW e \in Ends, WritePush(e)
  PROVE  Bytes'
<1> DEFINE p == Peer(e)
           S == 1..MaxBytes
<1>1. PICK n \in Moves(Left(e)) :
        LET base == Before(e) + call[e].got
            new  == Numbered(base, n)
        IN  /\ call' = [call EXCEPT ![e].got = @ + n]
            /\ n \in Nat \ {0} /\ base \in Nat /\ base + n <= offered[e] /\ offered[e] <= MaxBytes
            /\ new \in Seq(S) /\ Len(new) = n /\ \A i \in 1..n : new[i] = base + i
            /\ Stream(e)' = Stream(e)
            /\ Stream(p)' = Stream(p) \o new
  BY StreamsOfWritePush
<1> DEFINE base == Before(e) + call[e].got
           new == Numbered(base, n)
<1>2. /\ pc[e] = "push" /\ pc' = [pc EXCEPT ![e] = "write"]
      /\ UNCHANGED <<offered, written, received>>
  BY DEF WritePush, Goto, hist
<1>3. /\ n \in Nat \ {0} /\ base \in Nat /\ Before(e) \in Nat /\ call[e].got \in Nat
      /\ base + n <= offered[e] /\ offered[e] <= MaxBytes /\ offered[e] \in Nat /\ MaxBytes \in Nat
  <2>1. Before(e) \in Nat
    BY <1>2, PushFacts
  <2>2. /\ call[e].got \in Nat /\ offered[e] \in Nat /\ MaxBytes \in Nat
    BY Fields, TransportAssumption DEF Control
  <2>3. QED
    BY <1>1, <2>1, <2>2
<1>4. p \in Ends /\ p # e /\ Peer(p) = e /\ Peer(e) = p /\ Ends = {e, p}
  BY Peers
<1>5. /\ Sent(e) = base /\ Sent(e)' = base + n /\ Before(e)' = Before(e)
      /\ Writing(e) /\ Writing(e)'
  <2>1. pc'[e] = "write" /\ call'[e].got = call[e].got + n /\ call'[e].want = call[e].want
    BY <1>1, <1>2 DEF Control, IoTypeOK, IoCalls
  <2>2. Writing(e) /\ Writing(e)'
    BY <1>2, <2>1 DEF Writing
  <2>3. Before(e)' = Before(e)
    BY <1>2, <2>1 DEF Before
  <2>4. QED
    BY <1>3, <2>1, <2>2, <2>3 DEF Sent
<1>6. /\ Sent(p)' = Sent(p) /\ (Writing(p)' <=> Writing(p)) /\ Before(p)' = Before(p)
  <2>1. pc'[p] = pc[p] /\ call'[p] = call[p]
    BY <1>1, <1>2, <1>4 DEF Control, IoTypeOK
  <2>2. QED
    BY <1>2, <2>1 DEF Sent, Writing, Before
<1>7. Stream(e)' = Stream(e)
  BY <1>1
<1>8. new \in Seq(S) /\ Len(new) = n /\ \A i \in 1..n : new[i] = base + i
  BY <1>1
<1>9. Stream(p) \in Seq(S) /\ Stream(e) \in Seq(S)
  BY <1>4, StreamType DEF Control
<1>10. Stream(p)' = Stream(p) \o new
  BY <1>1
<1> HIDE DEF new, base, p
<1>11. /\ Len(Stream(p)') = Len(Stream(p)) + n /\ Len(Stream(p)) \in Nat
       /\ DOMAIN Stream(p)' = 1..(Len(Stream(p)) + n)
       /\ \A i \in 1..Len(Stream(p)) : Stream(p)'[i] = Stream(p)[i] /\ Stream(p)[i] \in S
       /\ \A i \in 1..n : Stream(p)'[Len(Stream(p)) + i] = base + i
  <2> HIDE DEF S
  <2>1. Stream(p) \in Seq(S) /\ new \in Seq(S) /\ Len(new) = n
    BY <1>8, <1>9
  <2>2. \A s, t \in Seq(S) :
          /\ Len(s) \in Nat /\ Len(s \o t) = Len(s) + Len(t) /\ DOMAIN (s \o t) = 1..(Len(s) + Len(t))
          /\ \A i \in 1..Len(s) : (s \o t)[i] = s[i]
          /\ \A i \in 1..Len(t) : (s \o t)[Len(s) + i] = t[i]
    BY ConcatElements
  <2>3. /\ Len(Stream(p)') = Len(Stream(p)) + n /\ Len(Stream(p)) \in Nat
        /\ DOMAIN Stream(p)' = 1..(Len(Stream(p)) + n)
        /\ \A i \in 1..Len(Stream(p)) : Stream(p)'[i] = Stream(p)[i]
        /\ \A i \in 1..n : Stream(p)'[Len(Stream(p)) + i] = new[i]
    <3>1. /\ Len(Stream(p)) \in Nat /\ Len(Stream(p) \o new) = Len(Stream(p)) + Len(new)
          /\ DOMAIN (Stream(p) \o new) = 1..(Len(Stream(p)) + Len(new))
          /\ \A i \in 1..Len(Stream(p)) : (Stream(p) \o new)[i] = Stream(p)[i]
          /\ \A i \in 1..Len(new) : (Stream(p) \o new)[Len(Stream(p)) + i] = new[i]
      BY <2>1, <2>2
    <3>2. QED
      BY <2>1, <3>1, <1>10
  <2>4. \A i \in 1..Len(Stream(p)) : Stream(p)[i] \in S
    BY <2>1
  <2>5. QED
    BY <2>3, <2>4, <1>8
<1>12. Increasing'
  <2>1. ASSUME NEW i \in 1..(Len(Stream(p)) + n), NEW j \in 1..(Len(Stream(p)) + n), i < j
        PROVE  Stream(p)'[i] < Stream(p)'[j]
    <3>1. CASE j <= Len(Stream(p))
      <4>1. i \in 1..Len(Stream(p)) /\ j \in 1..Len(Stream(p))
        BY <1>11, <2>1, <3>1
      <4>2. i \in DOMAIN Stream(p) /\ j \in DOMAIN Stream(p)
        BY <4>1, <1>9
      <4>3. Stream(p)[i] < Stream(p)[j]
        BY <1>4, <2>1, <4>2 DEF Bytes, Increasing
      <4>4. QED
        BY <1>11, <4>1, <4>3
    <3>2. CASE i <= Len(Stream(p)) /\ j > Len(Stream(p))
      <4>1. i \in 1..Len(Stream(p)) /\ j - Len(Stream(p)) \in 1..n
        BY <1>3, <1>11, <3>2
      <4>2. Stream(p)[i] <= base
        BY <1>4, <1>5, <1>9, <4>1 DEF Bytes, SentOnly
      <4>3. Stream(p)'[i] = Stream(p)[i] /\ Stream(p)[i] \in S
        BY <1>11, <4>1
      <4>4. Stream(p)'[j] = base + (j - Len(Stream(p)))
        <5>1. Len(Stream(p)) + (j - Len(Stream(p))) = j
          BY <1>11
        <5>2. QED
          BY <1>11, <4>1, <5>1
      <4>5. QED
        BY <1>3, <4>1, <4>2, <4>3, <4>4
    <3>3. CASE i > Len(Stream(p))
      <4>1. i - Len(Stream(p)) \in 1..n /\ j - Len(Stream(p)) \in 1..n
        <5>1. i \in Int /\ j \in Int /\ n \in Nat /\ Len(Stream(p)) \in Nat
          BY <1>3, <1>11
        <5>2. QED
          BY <2>1, <3>3, <5>1, SMTT(30)
      <4>2. /\ Len(Stream(p)) + (i - Len(Stream(p))) = i
            /\ Len(Stream(p)) + (j - Len(Stream(p))) = j
        BY <1>11
      <4>3. /\ Stream(p)'[i] = base + (i - Len(Stream(p)))
            /\ Stream(p)'[j] = base + (j - Len(Stream(p)))
        BY <1>11, <4>1, <4>2
      <4>4. QED
        BY <1>3, <1>11, <2>1, <4>3
    <3>4. QED
      BY <1>11, <3>1, <3>2, <3>3
  <2>2. QED
    BY <1>4, <1>7, <1>11, <2>1 DEF Bytes, Increasing
<1>13. SentOnly'
  <2>1. ASSUME NEW i \in 1..(Len(Stream(p)) + n)
        PROVE  Stream(p)'[i] <= base + n
    <3>1. CASE i <= Len(Stream(p))
      <4>1. i \in 1..Len(Stream(p))
        BY <1>11, <3>1
      <4>2. Stream(p)[i] <= base
        BY <1>4, <1>5, <1>9, <4>1 DEF Bytes, SentOnly
      <4>3. Stream(p)'[i] = Stream(p)[i] /\ Stream(p)[i] \in S
        BY <1>11, <4>1
      <4>4. QED
        BY <1>3, <4>2, <4>3
    <3>2. CASE i > Len(Stream(p))
      <4>1. i - Len(Stream(p)) \in 1..n /\ Len(Stream(p)) + (i - Len(Stream(p))) = i
        BY <1>3, <1>11, <3>2
      <4>2. Stream(p)'[i] = base + (i - Len(Stream(p)))
        BY <1>11, <4>1
      <4>3. QED
        BY <1>3, <1>11, <4>1, <4>2
    <3>3. QED
      BY <1>11, <3>1, <3>2
  <2>2. QED
    BY <1>4, <1>5, <1>6, <1>7, <1>11, <2>1 DEF Bytes, SentOnly, p
<1>14. ToSet(Stream(p)) \subseteq ToSet(Stream(p)') /\ (base + 1)..(base + n) \subseteq ToSet(Stream(p)')
  <2>1. ToSet(Stream(p)) \subseteq ToSet(Stream(p)')
    <3>1. DOMAIN Stream(p) = 1..Len(Stream(p))
      BY <1>9
    <3>2. 1..Len(Stream(p)) \subseteq 1..(Len(Stream(p)) + n)
      BY <1>3, <1>11
    <3>3. QED
      BY <1>11, <3>1, <3>2 DEF ToSet
  <2>2. ASSUME NEW b \in (base + 1)..(base + n)
        PROVE  b \in ToSet(Stream(p)')
    <3>1. b - base \in 1..n /\ base + (b - base) = b
      BY <1>3
    <3>2. Len(Stream(p)) + (b - base) \in DOMAIN Stream(p)' /\ Stream(p)'[Len(Stream(p)) + (b - base)] = b
      <4>1. Len(Stream(p)) + (b - base) \in 1..(Len(Stream(p)) + n)
        BY <1>3, <1>11, <3>1
      <4>2. QED
        BY <1>11, <3>1, <4>1
    <3>3. QED
      BY <3>2 DEF ToSet
  <2>3. QED
    BY <2>1, <2>2
<1>15. DoneArrives'
  BY <1>2, <1>4, <1>7, <1>14 DEF Bytes, DoneArrives, p
<1>16. PartArrives'
  <2>1. (Before(e)' + 1)..Sent(e)' \subseteq ToSet(Stream(p)')
    <3>1. (Before(e) + 1)..base \subseteq ToSet(Stream(p))
      BY <1>4, <1>5 DEF Bytes, PartArrives
    <3>2. \A b \in (Before(e)' + 1)..Sent(e)' : b \in (Before(e) + 1)..base \/ b \in (base + 1)..(base + n)
      BY <1>3, <1>5
    <3>3. QED
      BY <1>14, <3>1, <3>2
  <2>2. Writing(p)' => (Before(p)' + 1)..Sent(p)' \subseteq ToSet(Stream(e)')
    BY <1>4, <1>6, <1>7 DEF Bytes, PartArrives
  <2>3. QED
    BY <1>4, <2>1, <2>2 DEF PartArrives
<1>17. QED
  BY <1>12, <1>13, <1>15, <1>16 DEF Bytes

\* Bytes is inductive, given Control.
LEMMA BytesStep == Control /\ Bytes /\ Control' /\ [IoNext]_ioVars => Bytes'
<1> SUFFICES ASSUME Control, Bytes, Control', [IoNext]_ioVars PROVE Bytes'
  OBVIOUS
<1>1. CASE UNCHANGED ioVars
  BY <1>1, QuietStep DEF ioVars, sharedIo, hist, Writing
<1>2. CASE IoNext
  <2>1. PICK e \in Ends : Step(e) \/ Start(e) \/ Cancel(e)
    BY <1>2 DEF IoNext
  <2>2. CASE \/ ReadFull(e) \/ ReadEmpty(e) \/ ReadCheck(e) \/ ReadRegister(e) \/ Repoll(e)
             \/ WriteCheck(e) \/ CloseWake(e) \/ Cancel(e)
             \/ \E op \in {"read", "exact", "toend"}, want \in Wants : StartRead(e, op, want)
             \/ \E next \in {"shutdown", "drop"} : CloseFlag(e, next)
    <3>1. UNCHANGED <<bytes, received, offered, written>>
      BY <2>2 DEF ReadFull, ReadEmpty, ReadCheck, ReadRegister, Repoll, WriteCheck, CloseWake, Cancel,
                  StartRead, CloseFlag, sharedIo, hist
    <3>2. \A f \in Ends : Writing(f)' => Writing(f) /\ call'[f] = call[f]
      BY <2>2, ZenonT(60) DEF ReadFull, ReadEmpty, ReadCheck, ReadRegister, Repoll, WriteCheck, CloseWake, Cancel,
                  StartRead, CloseFlag, Goto, ReturnFrom, Writing, Control, IoTypeOK
    <3>3. QED
      BY <3>1, <3>2, QuietStep
  <2>3. QED
    BY <2>1, <2>2, ReadTakeBytes, StartWriteBytes, WriteDoneBytes, WritePushBytes DEF Step, Start
<1>3. QED
  BY <1>1, <1>2

\* THE BYTES ARRIVE: whatever the lengths of the calls, the cuts of the
\* slices and how few bytes each poll moves, no byte is lost, duplicated or
\* out of order, and a write that returned Ok has put all its bytes into the
\* stream (WriteAll, write_vectored_fallback, Read, ReadExact, ReadToEnd).
THEOREM BytesArriveInOrder == IoSpec => []BytesInOrder
<1>1. IoInit => Bytes
  <2> SUFFICES ASSUME IoInit PROVE Bytes
    OBVIOUS
  <2>1. \A e \in Ends : Stream(e) = <<>> /\ written[e] = {} /\ ~Writing(e)
    BY DEF IoInit, Stream, Writing
  <2>2. QED
    BY <2>1, Peers DEF Bytes, Increasing, SentOnly, DoneArrives, PartArrives
<1>2. IoSpec => [](Control /\ Bytes)
  BY <1>1, InitControl, ControlStep, BytesStep, PTL DEF IoSpec
<1>3. Control /\ Bytes => BytesInOrder
  BY DEF Control, Bytes, Increasing, DoneArrives, BytesInOrder
<1>4. QED
  BY <1>2, <1>3, PTL

-----------------------------------------------------------------------------
\* A sequence is a prefix of its concatenation with another.
LEMMA PrefixOfConcat ==
  ASSUME NEW S, NEW s \in Seq(S), NEW t \in Seq(S)
  PROVE  IsPrefix(s, s \o t)
BY DEF IsPrefix

\* Every step is, for the stream to f, a step of Pipe or leaves it alone.
LEMMA PipeStep ==
  ASSUME Control, Control', [IoNext]_ioVars, NEW f \in Ends
  PROVE  \/ /\ ~closed[Peer(f)] /\ IsPrefix(Stream(f), Stream(f)')
            /\ UNCHANGED <<received[f], closed[Peer(f)], eof[f]>>
         \/ /\ ~eof[f] /\ IsPrefix(received[f], received'[f]) /\ IsPrefix(received'[f], Stream(f))
            /\ UNCHANGED <<Stream(f), closed[Peer(f)], eof[f]>>
         \/ /\ closed'[Peer(f)] = TRUE
            /\ UNCHANGED <<Stream(f), received[f], eof[f]>>
         \/ /\ closed[Peer(f)] /\ received[f] = Stream(f) /\ eof'[f] = TRUE
            /\ UNCHANGED <<Stream(f), received[f], closed[Peer(f)]>>
         \/ UNCHANGED <<Stream(f), received[f], closed[Peer(f)], eof[f]>>
<1>1. CASE UNCHANGED ioVars
  BY <1>1 DEF ioVars, sharedIo, hist, Stream
<1>2. CASE IoNext
  <2>1. PICK e \in Ends : Step(e) \/ Start(e) \/ Cancel(e)
    BY <1>2 DEF IoNext
  <2>2. CASE \/ ReadFull(e) \/ ReadEmpty(e) \/ ReadRegister(e) \/ Repoll(e) \/ WriteDone(e)
             \/ WriteCheck(e) \/ CloseWake(e) \/ Cancel(e)
             \/ \E op \in {"read", "exact", "toend"}, want \in Wants : StartRead(e, op, want)
             \/ \E slices \in Slices[e] : StartWrite(e, slices)
    <3>1. UNCHANGED <<bytes, received, closed, eof>>
      BY <2>2 DEF ReadFull, ReadEmpty, ReadRegister, Repoll, WriteDone, WriteCheck, CloseWake, Cancel,
                  StartRead, StartWrite, sharedIo, hist
    <3>2. QED
      BY <3>1 DEF Stream
  <2>3. CASE \E next \in {"shutdown", "drop"} : CloseFlag(e, next)
    <3>1. closed' = [closed EXCEPT ![e] = TRUE] /\ UNCHANGED <<bytes, received, eof>>
      BY <2>3 DEF CloseFlag, hist
    <3>2. closed'[Peer(f)] = TRUE \/ closed'[Peer(f)] = closed[Peer(f)]
      BY <3>1, Peers DEF Control, IoTypeOK
    <3>3. QED
      BY <3>1, <3>2 DEF Stream
  <2>4. CASE ReadCheck(e)
    <3>1. UNCHANGED <<bytes, received, closed>> /\ pc[e] = "empty"
      BY <2>4 DEF ReadCheck
    <3>2. CASE closed[Peer(e)] /\ f = e
      <4>1. bytes[e] = <<>> /\ received[e] \in Seq(1..MaxBytes)
        BY <3>1, Fields DEF Control, EmptyWhileLocked
      <4>2. received[f] = Stream(f)
        BY <3>2, <4>1 DEF Stream
      <4>3. eof'[f] = TRUE
        BY <2>4, <3>2 DEF ReadCheck, Control, IoTypeOK
      <4>4. QED
        BY <3>1, <3>2, <4>2, <4>3 DEF Stream
    <3>3. CASE ~(closed[Peer(e)] /\ f = e)
      <4>1. eof'[f] = eof[f]
        BY <2>4, <3>3 DEF ReadCheck, Control, IoTypeOK
      <4>2. QED
        BY <3>1, <4>1 DEF Stream
    <3>4. QED
      BY <3>2, <3>3
  <2>5. CASE ReadTake(e)
    <3>1. PICK n \in 1..Len(bytes[e]) :
            /\ bytes' = [bytes EXCEPT ![e] = SubSeq(@, n + 1, Len(@))]
            /\ received' = [received EXCEPT ![e] = @ \o SubSeq(bytes[e], 1, n)]
      BY <2>5, ReadTakeFacts
    <3>2. bytes[e] # <<>> /\ UNCHANGED <<closed, eof>>
      BY <2>5, ReadTakeFacts
    <3>3. Stream(f)' = Stream(f)
      BY <2>5, StreamsOfReadTake
    <3>4. CASE f # e
      BY <3>1, <3>2, <3>3, <3>4 DEF Control, IoTypeOK
    <3>5. CASE f = e
      <4>1. ~eof[f]
        BY <3>2, <3>5 DEF Control, EofIsLast
      <4>2. received[e] \in Seq(1..MaxBytes) /\ SubSeq(bytes[e], 1, n) \in Seq(1..MaxBytes)
        <5>1. bytes[e] \in Seq(1..MaxBytes) /\ n \in 0..Len(bytes[e])
          BY Fields DEF Control
        <5>2. QED
          BY <5>1, Fields, CutSeq DEF Control
      <4>3. received'[e] = received[e] \o SubSeq(bytes[e], 1, n)
        BY <3>1 DEF Control, IoTypeOK
      <4>4. IsPrefix(received[e], received'[e])
        BY <4>2, <4>3, PrefixOfConcat
      <4>5. Stream(e) = received'[e] \o bytes'[e]
        BY <3>3, <3>5 DEF Stream
      <4>6. received'[e] \in Seq(1..MaxBytes) /\ bytes'[e] \in Seq(1..MaxBytes)
        BY DEF Control, IoTypeOK
      <4>7. IsPrefix(received'[e], Stream(e))
        BY <4>5, <4>6, PrefixOfConcat
      <4>8. QED
        BY <3>2, <3>3, <3>5, <4>1, <4>4, <4>7
    <3>6. QED
      BY <3>4, <3>5
  <2>6. CASE WritePush(e)
    <3>1. UNCHANGED <<received, closed, eof>> /\ pc[e] = "push"
      BY <2>6 DEF WritePush, hist
    <3>2. PICK new \in Seq(1..MaxBytes) :
            Stream(e)' = Stream(e) /\ Stream(Peer(e))' = Stream(Peer(e)) \o new
      BY <2>6, StreamsOfWritePush
    <3>3. CASE f = e
      BY <3>1, <3>2, <3>3
    <3>4. CASE f = Peer(e)
      <4>1. ~closed[Peer(f)]
        BY <3>1, <3>4, Peers DEF Control, NoWriteAfterClose, Writing
      <4>2. Stream(f) \in Seq(1..MaxBytes)
        BY StreamType DEF Control
      <4>3. IsPrefix(Stream(f), Stream(f)')
        BY <3>2, <3>4, <4>2, PrefixOfConcat
      <4>4. QED
        BY <3>1, <4>1, <4>3
    <3>5. QED
      BY <3>3, <3>4, Peers
  <2>7. QED
    BY <2>1, <2>2, <2>3, <2>4, <2>5, <2>6 DEF Step, Start
<1>3. QED
  BY <1>1, <1>2

\* FAKEIO IS A PIPE: each direction refines Pipe. In particular the end of
\* the stream is told only after the last byte was read, although poll_read
\* reads write_closed without the lock under which poll_write pushes.
THEOREM FakeIoIsAPipe == IoSpec => ImplementsPipe
<1>1. IoInit => PipeToOne!Init /\ PipeToTwo!Init
  BY DEF IoInit, PipeToOne!Init, PipeToTwo!Init, Stream, Ends
<1>2. Control /\ Control' /\ [IoNext]_ioVars => [PipeToOne!Next]_PipeToOne!pipe
  <2> SUFFICES ASSUME Control, Control', [IoNext]_ioVars PROVE [PipeToOne!Next]_PipeToOne!pipe
    OBVIOUS
  <2>1. 1 \in Ends /\ Peer(1) = 2
    BY DEF Ends, Peer
  <2>2. \A s, t : IsPrefix(s, t) => PipeToOne!IsPrefix(s, t)
    BY DEF IsPrefix, PipeToOne!IsPrefix
  <2> DEFINE in == Stream(1)
             next == Stream(1)'
  <2>3. \/ /\ ~closed[2] /\ IsPrefix(in, next)
           /\ UNCHANGED <<received[1], closed[2], eof[1]>>
        \/ /\ ~eof[1] /\ IsPrefix(received[1], received'[1]) /\ IsPrefix(received'[1], in)
           /\ next = in /\ UNCHANGED <<closed[2], eof[1]>>
        \/ /\ closed'[2] = TRUE /\ next = in /\ UNCHANGED <<received[1], eof[1]>>
        \/ /\ closed[2] /\ received[1] = in /\ eof'[1] = TRUE
           /\ next = in /\ UNCHANGED <<received[1], closed[2]>>
        \/ next = in /\ UNCHANGED <<received[1], closed[2], eof[1]>>
    BY <2>1, PipeStep
  <2> HIDE DEF in, next
  <2>4. \/ /\ ~closed[2] /\ PipeToOne!IsPrefix(in, next)
           /\ UNCHANGED <<received[1], closed[2], eof[1]>>
        \/ /\ ~eof[1] /\ PipeToOne!IsPrefix(received[1], received'[1]) /\ PipeToOne!IsPrefix(received'[1], in)
           /\ next = in /\ UNCHANGED <<closed[2], eof[1]>>
        \/ /\ closed'[2] = TRUE /\ next = in /\ UNCHANGED <<received[1], eof[1]>>
        \/ /\ closed[2] /\ received[1] = in /\ eof'[1] = TRUE
           /\ next = in /\ UNCHANGED <<received[1], closed[2]>>
        \/ next = in /\ UNCHANGED <<received[1], closed[2], eof[1]>>
    BY <2>2, <2>3
  <2>5. QED
    BY <2>4 DEF in, next, PipeToOne!Next, PipeToOne!pipe, PipeToOne!Put, PipeToOne!Get, PipeToOne!Close, PipeToOne!End
<1>3. Control /\ Control' /\ [IoNext]_ioVars => [PipeToTwo!Next]_PipeToTwo!pipe
  <2> SUFFICES ASSUME Control, Control', [IoNext]_ioVars PROVE [PipeToTwo!Next]_PipeToTwo!pipe
    OBVIOUS
  <2>1. 2 \in Ends /\ Peer(2) = 1
    BY DEF Ends, Peer
  <2>2. \A s, t : IsPrefix(s, t) => PipeToTwo!IsPrefix(s, t)
    BY DEF IsPrefix, PipeToTwo!IsPrefix
  <2> DEFINE in == Stream(2)
             next == Stream(2)'
  <2>3. \/ /\ ~closed[1] /\ IsPrefix(in, next)
           /\ UNCHANGED <<received[2], closed[1], eof[2]>>
        \/ /\ ~eof[2] /\ IsPrefix(received[2], received'[2]) /\ IsPrefix(received'[2], in)
           /\ next = in /\ UNCHANGED <<closed[1], eof[2]>>
        \/ /\ closed'[1] = TRUE /\ next = in /\ UNCHANGED <<received[2], eof[2]>>
        \/ /\ closed[1] /\ received[2] = in /\ eof'[2] = TRUE
           /\ next = in /\ UNCHANGED <<received[2], closed[1]>>
        \/ next = in /\ UNCHANGED <<received[2], closed[1], eof[2]>>
    BY <2>1, PipeStep
  <2> HIDE DEF in, next
  <2>4. \/ /\ ~closed[1] /\ PipeToTwo!IsPrefix(in, next)
           /\ UNCHANGED <<received[2], closed[1], eof[2]>>
        \/ /\ ~eof[2] /\ PipeToTwo!IsPrefix(received[2], received'[2]) /\ PipeToTwo!IsPrefix(received'[2], in)
           /\ next = in /\ UNCHANGED <<closed[1], eof[2]>>
        \/ /\ closed'[1] = TRUE /\ next = in /\ UNCHANGED <<received[2], eof[2]>>
        \/ /\ closed[1] /\ received[2] = in /\ eof'[2] = TRUE
           /\ next = in /\ UNCHANGED <<received[2], closed[1]>>
        \/ next = in /\ UNCHANGED <<received[2], closed[1], eof[2]>>
    BY <2>2, <2>3
  <2>5. QED
    BY <2>4 DEF in, next, PipeToTwo!Next, PipeToTwo!pipe, PipeToTwo!Put, PipeToTwo!Get, PipeToTwo!Close, PipeToTwo!End
<1>4. QED
  BY <1>1, <1>2, <1>3, InitControl, ControlStep, PTL DEF IoSpec, ImplementsPipe, PipeToOne!Spec, PipeToTwo!Spec

=============================================================================
