------------------------------- MODULE Wheel --------------------------------
(***************************************************************************)
(* The hierarchical timer wheel of tpt-async-timer (wheel.rs) as operators *)
(* on the value that the wheel's spin mutex guards.  The real `Inner`      *)
(* keeps heads[level][slot] as intrusive lists; here a slot is the         *)
(* sequence of its entries, head first.  Every operator is the effect of   *)
(* one method run under the lock, so the modules that extend this one      *)
(* (TimerWheel, TimerFutures, TimerDriver) take each as one atomic step.   *)
(*                                                                         *)
(* `dl` is the `deadline` field of the entries.  Saturating products are   *)
(* plain products: SLOTS^LEVELS is far below 2^64 in every wheel used.     *)
(***************************************************************************)
EXTENDS Integers, SequencesExt

CONSTANTS SLOTS,   \* slots per level
          LEVELS   \* number of levels

\* The two asserts of TimerWheel::new.
ASSUME WheelAssumption == /\ SLOTS \in Nat /\ SLOTS >= 2
                          /\ LEVELS \in Nat /\ LEVELS >= 1

Slots  == 0..(SLOTS - 1)
Levels == 0..(LEVELS - 1)

\* SLOTS^level: the ticks that one slot of a level stands for.
Resolution[level \in 0..LEVELS] ==
  IF level = 0 THEN 1 ELSE SLOTS * Resolution[level - 1]

\* There is a level to hold the deadlines that a rotation of level 0 does not
\* reach, as in every wheel of the repository. With one level only, an entry a
\* rotation or more away is linked into level 0 all the same and drained early.
MultiLevel == LEVELS >= 2

NewWheel ==
  [heads        |-> [l \in Levels |-> [s \in Slots |-> <<>>]],
   current_tick |-> 0,
   pending      |-> 0]

-----------------------------------------------------------------------------
\* is_registered: the entry is linked into some slot.
LinkedAt(w, e, l, s) == e \in ToSet(w.heads[l][s])
IsRegistered(w, e)   == \E l \in Levels, s \in Slots : LinkedAt(w, e, l, s)
Registered(w)        == UNION {ToSet(w.heads[l][s]) : l \in Levels, s \in Slots}

\* A deadline `delta` ticks away belongs to the coarsest level whose
\* resolution does not exceed delta.
LevelFor(delta) ==
  CHOOSE l \in Levels : /\ l > 0 => delta >= Resolution[l]
                        /\ l + 1 < LEVELS => delta < Resolution[l + 1]

ChooseSlot(w, deadline) ==
  IF deadline <= w.current_tick
  THEN <<0, (w.current_tick + 1) % SLOTS>>
  ELSE LET level == LevelFor(deadline - w.current_tick)
       IN  <<level, (deadline \div Resolution[level]) % SLOTS>>

Link(w, at, e) ==
  [w EXCEPT !.heads[at[1]][at[2]] = <<e>> \o @, !.pending = @ + 1]

InsertEntry(w, dl, e) == Link(w, ChooseSlot(w, dl[e]), e)

\* The predecessor's next skips the entry.  A no-op on one that is not linked.
RemoveEntry(w, e) ==
  IF IsRegistered(w, e)
  THEN LET at == CHOOSE p \in Levels \X Slots : LinkedAt(w, e, p[1], p[2])
           i  == CHOOSE j \in DOMAIN w.heads[at[1]][at[2]] : w.heads[at[1]][at[2]][j] = e
       IN  [w EXCEPT !.heads[at[1]][at[2]] = RemoveAt(@, i), !.pending = @ - 1]
  ELSE w

\* Mutant: a due entry is treated like any insertion and fires a tick late.
CascadeTargetLate(w, deadline) == ChooseSlot(w, deadline)

\* Where cascade puts an entry: the slot drained at the end of this very tick
\* if it is due, otherwise wherever an insertion would put it.
CascadeTarget(w, deadline) ==
  IF deadline <= w.current_tick
  THEN <<0, w.current_tick % SLOTS>>
  ELSE ChooseSlot(w, deadline)

\* The entries of a detached list are linked again one by one.
Relink(w, dl, list) ==
  LET after[i \in 0..Len(list)] ==
        IF i = 0 THEN w
        ELSE Link(after[i - 1], CascadeTarget(w, dl[list[i]]), list[i])
  IN  after[Len(list)]

\* Mutant: the old count is not released before link counts again.
CascadeRecounting(w, dl, level, slot) ==
  Relink([w EXCEPT !.heads[level][slot] = <<>>], dl, w.heads[level][slot])

\* Detach heads[level][slot], releasing the count of its entries.
Detach(w, level, slot) ==
  [w EXCEPT !.heads[level][slot] = <<>>, !.pending = @ - Len(w.heads[level][slot])]

Cascade(w, dl, level, slot) ==
  Relink(Detach(w, level, slot), dl, w.heads[level][slot])

\* Level k cascades when the tick is a multiple of SLOTS^k; the loop stops at
\* the first level that does not, and no coarser level can be due then.
CascadeLevels(w, dl) ==
  LET tick == w.current_tick
      after[level \in 0..(LEVELS - 1)] ==
        IF level = 0 THEN w
        ELSE IF tick % Resolution[level] = 0
             THEN Cascade(after[level - 1], dl, level, (tick \div Resolution[level]) % SLOTS)
             ELSE after[level - 1]
  IN  after[LEVELS - 1]

\* One tick: increment, cascade, drain the level-0 slot of the new tick.
\* `woken` lists the drained entries in the order their wakers are called.
AdvanceOne(w, dl) ==
  LET cascaded == CascadeLevels([w EXCEPT !.current_tick = @ + 1], dl)
      slot0    == cascaded.current_tick % SLOTS
  IN  [wheel |-> Detach(cascaded, 0, slot0),
       woken |-> cascaded.heads[0][slot0]]

\* One more tick of a catch-up.
AdvanceAgain(run, dl) ==
  LET step == AdvanceOne(run.wheel, dl)
  IN  [wheel |-> step.wheel, woken |-> run.woken \o step.woken]

\* tick_n and advance_to: several ticks in one hold of the lock; none if the
\* wheel is already at or past the target.
AdvanceTo(w, dl, target) ==
  LET n == IF target > w.current_tick THEN target - w.current_tick ELSE 0
      after[i \in 0..n] ==
        IF i = 0 THEN [wheel |-> w, woken |-> <<>>] ELSE AdvanceAgain(after[i - 1], dl)
  IN  after[n]

\* next_deadline looks at the first entry of every slot.
HeadDeadlines(w, dl) ==
  {dl[Head(w.heads[p[1]][p[2]])] : p \in {q \in Levels \X Slots : w.heads[q[1]][q[2]] # <<>>}}

=============================================================================
