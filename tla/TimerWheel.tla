----------------------------- MODULE TimerWheel -----------------------------
(***************************************************************************)
(* The public interface of the timer wheel (wheel.rs, `impl TimerWheel`)   *)
(* driven directly: any order of insert, remove, tick, tick_n and          *)
(* advance_to on a fixed set of entries.  Each method takes the spin mutex *)
(* for its whole body, so each is one step on the guarded value `wheel`.   *)
(***************************************************************************)
EXTENDS Wheel, FiniteSets

CONSTANTS Entries,    \* the timer entries callers own
          Deadlines,  \* the absolute deadlines callers ask for
          MaxTick     \* bound on current_tick

ASSUME TimerWheelAssumption == /\ IsFiniteSet(Entries)
                               /\ Deadlines \subseteq Nat
                               /\ MaxTick \in Nat

VARIABLES wheel,     \* the value behind the mutex
          deadline,  \* entry.deadline; 0 while the entry is not linked
          woken      \* entries drained by the last step, in wake order

vars == <<wheel, deadline, woken>>

\* tick and tick_n/advance_to leave drained entries unlinked.
Forget(dl, gone) == [e \in Entries |-> IF e \in gone THEN 0 ELSE dl[e]]

Drained(step) ==
  /\ wheel' = step.wheel
  /\ woken' = step.woken
  /\ deadline' = Forget(deadline, Range(step.woken))

-----------------------------------------------------------------------------
Init ==
  /\ wheel = NewWheel
  /\ deadline = [e \in Entries |-> 0]
  /\ woken = <<>>

\* The caller's contract: the entry is not linked in any wheel.
Insert(e, d) ==
  /\ ~IsRegistered(wheel, e)
  /\ deadline' = [deadline EXCEPT ![e] = d]
  /\ wheel' = InsertEntry(wheel, deadline', e)
  /\ woken' = <<>>

\* Safe on an entry that is not linked: nothing changes.
RemoveCall(e) ==
  /\ wheel' = RemoveEntry(wheel, e)
  /\ deadline' = Forget(deadline, {e})
  /\ woken' = <<>>

Tick ==
  /\ wheel.current_tick < MaxTick
  /\ Drained(AdvanceOne(wheel, deadline))

Advance(target) ==
  /\ target <= MaxTick
  /\ Drained(AdvanceTo(wheel, deadline, target))

Next ==
  \/ \E e \in Entries, d \in Deadlines : Insert(e, d)
  \/ \E e \in Entries : RemoveCall(e)
  \/ Tick
  \/ \E target \in 0..MaxTick : Advance(target)

Spec == Init /\ [][Next]_vars

-----------------------------------------------------------------------------
\* The wheel holds sequences of entries, the tick and the count are naturals.
TypeOK ==
  /\ DOMAIN wheel = {"heads", "current_tick", "pending"}
  /\ wheel.heads \in [Levels -> [Slots -> Seq(Entries)]]
  /\ wheel.current_tick \in Nat
  /\ wheel.pending \in Nat
  /\ deadline \in [Entries -> Nat]
  /\ woken \in Seq(Entries)

\* `len()` is exact and no entry is linked twice: `pending`, which insert,
\* remove, drain and the balanced decrement of cascade maintain separately
\* from the lists, equals the number of list positions, and every linked
\* entry occupies exactly one of them.
PendingCountsEntries ==
  LET At == {p \in Levels \X Slots \X (1..Cardinality(Entries)) :
               p[3] <= Len(wheel.heads[p[1]][p[2]])}
  IN  /\ wheel.pending = Cardinality(At)
      /\ wheel.pending = Cardinality(Registered(wheel))

\* Every linked entry sits where a later cascade or drain still finds it in
\* time: a future deadline at level l is in the slot that covers it, and that
\* slot is visited after the current tick and not after the deadline; an
\* entry linked when already due is in the slot the next tick drains.
StillReachable ==
  LET now == wheel.current_tick
  IN  \A l \in Levels, s \in Slots : \A e \in Entries :
        LinkedAt(wheel, e, l, s) =>
          IF deadline[e] <= now
          THEN l = 0 /\ s = (now + 1) % SLOTS
          ELSE /\ s = (deadline[e] \div Resolution[l]) % SLOTS
               /\ (deadline[e] \div Resolution[l]) * Resolution[l] > now
               /\ l = 0 => deadline[e] - now < SLOTS

\* The wheel is sound between any two calls: typed, counted and reachable.
WheelSound == TypeOK /\ PendingCountsEntries /\ StillReachable

\* The wheel implements the timer service: `advance_one` promises that "an
\* entry with deadline == D fires on precisely the tick call that moves
\* current_tick to D"; here that is every entry, whatever levels it went
\* through, and a catch-up wakes entries in deadline order.
Service ==
  INSTANCE TimerService
  WITH now <- wheel.current_tick,
       due <- [e \in Registered(wheel) |->
                 IF deadline[e] > wheel.current_tick THEN deadline[e]
                 ELSE wheel.current_tick + 1]
ImplementsTimerService == Service!Spec

=============================================================================
