----------------------------- MODULE TimerProofs ----------------------------
(***************************************************************************)
(* Theorems about the futures on a timer wheel (TimerFutures.tla) and the  *)
(* driver thread that ticks it (TimerDriver.tla), for any number of        *)
(* futures, any periods and any wheel of at least two levels.              *)
(*                                                                         *)
(* What the wheel does to the futures' entries is proved in WheelProofs of *)
(* TimerWheel, whose operators are those of this module's wheel (the Same  *)
(* lemmas: W!Op and Op are one definition, instantiated twice).  Above it  *)
(* only four facts about the wheel are used: what a new wheel holds, and   *)
(* what insert, remove and a run of ticks do to the set of linked entries. *)
(***************************************************************************)
EXTENDS TimerDriver, ProofBasics, FiniteSetTheorems

W == INSTANCE WheelProofs WITH Entries <- Futures, woken <- <<>>

-----------------------------------------------------------------------------
(* The wheel of WheelProofs is the wheel the futures share. *)

\* The assumptions of WheelProofs hold of the futures' entries.
LEMMA EntriesGiven ==
  W!IsFiniteSet(Futures) /\ Deadlines \subseteq Nat /\ MaxTick \in Nat
<1>1. W!IsFiniteSet(Futures)
  BY TimerFuturesAssumption DEF IsFiniteSet, W!IsFiniteSet
<1>2. QED
  BY <1>1, TimerFuturesAssumption

\* The levels, the slots and the two changes of one list.
LEMMA SameLink ==
  /\ Levels = W!Levels /\ Slots = W!Slots /\ Resolution = W!Resolution
  /\ \A w, at, e : Link(w, at, e) = W!Link(w, at, e)
  /\ \A w, l, s : Detach(w, l, s) = W!Detach(w, l, s)
BY DEF Levels, W!Levels, Slots, W!Slots, Resolution, W!Resolution, Link, W!Link, Detach, W!Detach

\* Where an entry goes.
LEMMA SameSlot ==
  \A w, d : ChooseSlot(w, d) = W!ChooseSlot(w, d) /\ CascadeTarget(w, d) = W!CascadeTarget(w, d)
<1>1. \A d : LevelFor(d) = W!LevelFor(d)
  BY SameLink DEF LevelFor, W!LevelFor
<1>2. QED
  BY <1>1, SameLink DEF ChooseSlot, W!ChooseSlot, CascadeTarget, W!CascadeTarget

\* The linked entries, insert and remove.
LEMMA SameEntries ==
  /\ \A w : Registered(w) = W!Registered(w)
  /\ \A w, e : IsRegistered(w, e) = W!IsRegistered(w, e)
  /\ \A w, dl, e : InsertEntry(w, dl, e) = W!InsertEntry(w, dl, e)
  /\ \A w, e : RemoveEntry(w, e) = W!RemoveEntry(w, e)
  /\ NewWheel = W!NewWheel
<1>1. \A w, dl, e : InsertEntry(w, dl, e) = W!InsertEntry(w, dl, e)
  BY SameLink, SameSlot DEF InsertEntry, W!InsertEntry
<1>2. /\ \A w : Registered(w) = W!Registered(w)
      /\ \A w, e : IsRegistered(w, e) = W!IsRegistered(w, e)
      /\ \A w, e : RemoveEntry(w, e) = W!RemoveEntry(w, e)
  BY DEF RemoveEntry, W!RemoveEntry, IsRegistered, W!IsRegistered, LinkedAt, W!LinkedAt, Levels,
         W!Levels, Slots, W!Slots, ToSet, W!ToSet, RemoveAt, W!RemoveAt, Registered, W!Registered
<1>3. NewWheel = W!NewWheel
  BY SameLink DEF NewWheel, W!NewWheel
<1>4. QED
  BY <1>1, <1>2, <1>3

\* One tick.
LEMMA SameTick ==
  \A w, dl : AdvanceOne(w, dl) = W!AdvanceOne(w, dl)
<1>1. \A w, dl, list : Relink(w, dl, list) = W!Relink(w, dl, list)
  <2>1. /\ \A w, at, e : Link(w, at, e) = W!Link(w, at, e)
        /\ \A w, d : CascadeTarget(w, d) = W!CascadeTarget(w, d)
    BY SameLink, SameSlot
  <2>2. QED
    BY <2>1, ZenonT(60) DEF Relink, W!Relink
<1>2. \A w, dl, l, s : Cascade(w, dl, l, s) = W!Cascade(w, dl, l, s)
  BY SameLink, <1>1 DEF Cascade, W!Cascade
<1>3. ASSUME NEW w, NEW dl PROVE CascadeLevels(w, dl) = W!CascadeLevels(w, dl)
  <2> DEFINE t == w.current_tick
             n == LEVELS - 1
             a(R) == CHOOSE f : f = [l \in 0..n |->
                       IF l = 0 THEN w
                       ELSE IF t % R[l] = 0 THEN Cascade(f[l - 1], dl, l, (t \div R[l]) % SLOTS)
                       ELSE f[l - 1]]
             b(R) == CHOOSE f : f = [l \in 0..n |->
                       IF l = 0 THEN w
                       ELSE IF t % R[l] = 0 THEN W!Cascade(f[l - 1], dl, l, (t \div R[l]) % SLOTS)
                       ELSE f[l - 1]]
  <2>1. \A R : a(R) = b(R)
    BY <1>2, ZenonT(40)
  <2>2. CascadeLevels(w, dl) = a(Resolution)[n]
    BY ZenonT(40) DEF CascadeLevels
  <2>3. W!CascadeLevels(w, dl) = b(W!Resolution)[n]
    BY ZenonT(40) DEF W!CascadeLevels
  <2>4. QED
    <3> HIDE DEF a, b, n
    <3> QED BY <2>1, <2>2, <2>3, SameLink
<1>4. QED
  BY SameLink, <1>3 DEF AdvanceOne, W!AdvanceOne

\* A catch-up.
LEMMA SameCatchUp ==
  \A w, dl, target : AdvanceTo(w, dl, target) = W!AdvanceTo(w, dl, target)
<1> SUFFICES ASSUME NEW w, NEW dl, NEW target
             PROVE  AdvanceTo(w, dl, target) = W!AdvanceTo(w, dl, target)
  OBVIOUS
<1> DEFINE n == IF target > w.current_tick THEN target - w.current_tick ELSE 0
           base == [wheel |-> w, woken |-> <<>>]
           a(m) == CHOOSE f : f = [i \in 0..m |-> IF i = 0 THEN base ELSE AdvanceAgain(f[i - 1], dl)]
           b(m) == CHOOSE f : f = [i \in 0..m |-> IF i = 0 THEN base ELSE W!AdvanceAgain(f[i - 1], dl)]
<1>1. \A run : AdvanceAgain(run, dl) = W!AdvanceAgain(run, dl)
  BY SameTick DEF AdvanceAgain, W!AdvanceAgain
<1>2. \A m : a(m) = b(m)
  BY <1>1
<1>3. AdvanceTo(w, dl, target) = a(n)[n]
  BY ZenonT(40) DEF AdvanceTo
<1>4. W!AdvanceTo(w, dl, target) = b(n)[n]
  BY ZenonT(40) DEF W!AdvanceTo
<1>5. QED
  <2> HIDE DEF a, b, n
  <2> QED BY <1>2, <1>3, <1>4

-----------------------------------------------------------------------------
(* The four facts about the wheel. *)

\* The wheel is sound: typed, no entry twice, the count right, and every
\* entry where the ticks find it in time.
Sound(w, dl) == W!Tidy(w) /\ dl \in W!DeadlineMaps /\ W!Standing(w, dl)

\* What a sound wheel is.
LEMMA SoundParts ==
  ASSUME NEW w, NEW dl, Sound(w, dl)
  PROVE  /\ w.heads \in [Levels -> [Slots -> Seq(Futures)]]
         /\ w.current_tick \in Nat
         /\ w.pending \in Nat /\ w.pending = Cardinality(Registered(w))
         /\ Registered(w) \subseteq Futures
         /\ \A x : IsRegistered(w, x) <=> x \in Registered(w)
<1>1. /\ w \in W!WheelValues /\ w.pending = W!Cardinality(W!Registered(w))
  BY DEF Sound, W!Tidy
<1>2. \A S : W!Cardinality(S) = Cardinality(S)
  BY DEF Cardinality, W!Cardinality, IsFiniteSet, W!IsFiniteSet
<1>3. /\ Registered(w) \subseteq Futures
      /\ \A x : IsRegistered(w, x) <=> x \in Registered(w)
  BY SameEntries, EntriesGiven, WheelAssumption, <1>1, W!RegisteredIs DEF W!RegisteredIs, W!IsRegistered
<1>4. Cardinality(Registered(w)) \in Nat
  BY <1>3, TimerFuturesAssumption, FS_Subset, FS_CardinalityType
<1>5. w.heads \in [Levels -> [Slots -> Seq(Futures)]] /\ w.current_tick \in Nat
  BY SameLink, <1>1 DEF W!WheelValues
<1>6. QED
  BY SameEntries, <1>1, <1>2, <1>3, <1>4, <1>5

\* Only the deadlines of linked entries matter.
LEMMA SoundSame ==
  ASSUME NEW w, NEW dl, Sound(w, dl), NEW dm \in [Futures -> Nat],
         \A x \in Registered(w) : dm[x] = dl[x]
  PROVE  Sound(w, dm)
<1>1. w \in W!WheelValues /\ W!Standing(w, dl)
  BY DEF Sound, W!Tidy
<1>2. W!Standing(w, dm)
  BY SameEntries, EntriesGiven, WheelAssumption, <1>1, W!StandingSame DEF W!StandingSame
<1>3. QED
  BY <1>2 DEF Sound, W!DeadlineMaps

\* A new wheel holds nothing.
LEMMA NewSound ==
  ASSUME NEW dl \in [Futures -> Nat]
  PROVE  Sound(NewWheel, dl) /\ NewWheel.current_tick = 0 /\ Registered(NewWheel) = {}
<1>1. W!Tidy(NewWheel) /\ NewWheel.current_tick = 0 /\ Registered(NewWheel) = {}
  BY SameEntries, EntriesGiven, WheelAssumption, W!NewIsTidy DEF W!NewIsTidy
<1>2. W!Standing(NewWheel, dl)
  <2>1. \A l \in W!Levels, s \in W!Slots : NewWheel.heads[l][s] = <<>>
    BY SameLink DEF NewWheel
  <2>2. \A x : \A l \in W!Levels, s \in W!Slots : ~W!LinkedAt(NewWheel, x, l, s)
    BY <2>1 DEF W!LinkedAt, W!ToSet
  <2>3. QED
    BY <2>2 DEF W!Standing
<1>3. QED
  BY <1>1, <1>2 DEF Sound, W!DeadlineMaps

\* insert links an entry that was not linked.
LEMMA InsertSound ==
  ASSUME MultiLevel, NEW w, NEW dl, Sound(w, dl), NEW f \in Futures, f \notin Registered(w),
         NEW v, v = InsertEntry(w, dl, f)
  PROVE  /\ Sound(v, dl)
         /\ v.current_tick = w.current_tick
         /\ Registered(v) = Registered(w) \cup {f}
<1>1. W!Tidy(w) /\ dl \in W!DeadlineMaps /\ W!Standing(w, dl) /\ W!MultiLevel
  BY DEF Sound, MultiLevel, W!MultiLevel
<1>2. v = W!InsertEntry(w, dl, f) /\ f \notin W!Registered(w)
  BY SameEntries
<1>3. /\ W!Tidy(v) /\ W!Standing(v, dl)
      /\ v.current_tick = w.current_tick
      /\ W!Registered(v) = W!Registered(w) \cup {f}
  BY EntriesGiven, WheelAssumption, <1>1, <1>2, W!InsertStanding DEF W!InsertStanding
<1>4. QED
  BY SameEntries, <1>1, <1>3 DEF Sound

\* remove unlinks an entry, linked or not.
LEMMA RemoveSound ==
  ASSUME NEW w, NEW dl, Sound(w, dl), NEW f, NEW v, v = RemoveEntry(w, f)
  PROVE  /\ Sound(v, dl)
         /\ v.current_tick = w.current_tick
         /\ Registered(v) = Registered(w) \ {f}
<1>1. W!Tidy(w) /\ dl \in W!DeadlineMaps /\ W!Standing(w, dl)
  BY DEF Sound
<1>2. v = W!RemoveEntry(w, f)
  BY SameEntries
<1>3. /\ W!Tidy(v) /\ W!Standing(v, dl)
      /\ v.current_tick = w.current_tick
      /\ W!Registered(v) = W!Registered(w) \ {f}
  BY EntriesGiven, WheelAssumption, <1>1, <1>2, W!RemoveStanding DEF W!RemoveStanding
<1>4. QED
  BY SameEntries, <1>1, <1>3 DEF Sound

\* `step` is the effect of n ticks on a wheel without overdue entries: those
\* whose deadlines were reached are woken, the others stay.
Ticked(step, w, dl, n) ==
  /\ Sound(step.wheel, dl)
  /\ step.wheel.current_tick = w.current_tick + n
  /\ Registered(step.wheel) = {f \in Registered(w) : dl[f] > w.current_tick + n}
  /\ Range(step.woken) = {f \in Registered(w) : dl[f] <= w.current_tick + n}

\* The ticks of tick and of advance_to.
LEMMA RunSound ==
  ASSUME NEW w, NEW dl, Sound(w, dl), \A f \in Registered(w) : dl[f] > w.current_tick,
         NEW n \in Nat, NEW step, W!Ran(step, w, dl, n)
  PROVE  Ticked(step, w, dl, n)
<1>1. /\ W!Tidy(step.wheel) /\ W!Standing(step.wheel, dl)
      /\ step.wheel.current_tick = w.current_tick + n
      /\ Registered(step.wheel) = {f \in Registered(w) : W!DueAt(dl[f], w.current_tick) > w.current_tick + n}
      /\ W!ToSet(step.woken) = {f \in Registered(w) : W!DueAt(dl[f], w.current_tick) <= w.current_tick + n}
  BY SameEntries DEF W!Ran
<1>2. \A f \in Registered(w) : W!DueAt(dl[f], w.current_tick) = dl[f]
  BY DEF W!DueAt
<1>3. Range(step.woken) = W!ToSet(step.woken)
  BY DEF Range, W!ToSet
<1>4. QED
  BY <1>1, <1>2, <1>3 DEF Ticked, Sound

\* tick
LEMMA TickSound ==
  ASSUME MultiLevel, NEW w, NEW dl, Sound(w, dl), \A f \in Registered(w) : dl[f] > w.current_tick,
         NEW step, step = AdvanceOne(w, dl)
  PROVE  Ticked(step, w, dl, 1)
<1>1. W!Tidy(w) /\ dl \in W!DeadlineMaps /\ W!Standing(w, dl) /\ W!MultiLevel
  BY DEF Sound, MultiLevel, W!MultiLevel
<1>2. W!Ran(W!AdvanceOne(w, dl), w, dl, 1)
  BY EntriesGiven, WheelAssumption, <1>1, W!TickRan DEF W!TickRan
<1>3. step = W!AdvanceOne(w, dl)
  BY SameTick
<1>4. QED
  BY <1>2, <1>3, RunSound

\* advance_to
LEMMA CatchUpSound ==
  ASSUME MultiLevel, NEW w, NEW dl, Sound(w, dl), \A f \in Registered(w) : dl[f] > w.current_tick,
         NEW target \in Nat, target >= w.current_tick, NEW step, step = AdvanceTo(w, dl, target)
  PROVE  target - w.current_tick \in Nat /\ Ticked(step, w, dl, target - w.current_tick)
<1>1. W!Tidy(w) /\ dl \in W!DeadlineMaps /\ W!Standing(w, dl) /\ W!MultiLevel
  BY DEF Sound, MultiLevel, W!MultiLevel
<1>2. w.current_tick \in Nat
  BY SoundParts
<1>3. PICK n : n = IF target > w.current_tick THEN target - w.current_tick ELSE 0
  OBVIOUS
<1>4. n = target - w.current_tick /\ n \in Nat
  BY <1>2, <1>3
<1>5. W!Ran(W!AdvanceTo(w, dl, target), w, dl, n)
  BY EntriesGiven, WheelAssumption, <1>1, <1>3, W!CatchUp DEF W!CatchUp
<1>6. step = W!AdvanceTo(w, dl, target)
  BY SameCatchUp
<1>7. QED
  BY <1>4, <1>5, <1>6, RunSound

-----------------------------------------------------------------------------
(* The futures. *)

\* The wheel and the futures' flags agree: a linked entry is that of a live,
\* registered future with its deadline ahead, and a registered future is
\* linked until its deadline is reached.
Linked ==
  /\ Sound(wheel, deadline)
  /\ \A f \in Registered(wheel) :
       status[f] = "live" /\ registered[f] /\ deadline[f] > wheel.current_tick
  /\ \A f \in Futures : registered[f] =>
       status[f] = "live" /\ (f \in Registered(wheel) \/ deadline[f] <= wheel.current_tick)

\* A waker is owed only by a linked entry that holds it.
Armed == \A f \in Futures : owed[f] # NoWaker => f \in Registered(wheel) /\ waker[f] = owed[f]

\* A Sleep resolves when its deadline is reached.
Spent ==
  \A f \in Sleeps \cup Intervals : status[f] = "done" => deadline[f] <= wheel.current_tick

\* The ticks of an Interval fit between its start and now, and its deadline is
\* that of the next one or later.
Kept(t, d, s, now, behavior) ==
  /\ t * Period <= now - s
  /\ d >= s + (t + 1) * Period
  /\ behavior = "Burst" => d = s + (t + 1) * Period

Paced ==
  \A f \in Intervals :
    status[f] # "absent" => Kept(ticks[f], deadline[f], start[f], wheel.current_tick, Behavior[f])

\* The inductive invariant.
Inv == TypeOK /\ Linked /\ Armed /\ Spent /\ Paced

\* The types of Inv as facts about the wheel.
LEMMA InvParts ==
  ASSUME Inv
  PROVE  /\ wheel.current_tick \in 0..MaxTick /\ wheel.current_tick \in Nat /\ MaxTick \in Nat
         /\ Period \in Nat \ {0}
         /\ deadline \in [Futures -> Nat]
         /\ Sound(wheel, deadline)
         /\ Registered(wheel) \subseteq Futures
         /\ \A f \in Registered(wheel) : deadline[f] > wheel.current_tick
<1>1. /\ wheel.current_tick \in 0..MaxTick /\ MaxTick \in Nat /\ Period \in Nat \ {0}
      /\ deadline \in [Futures -> 0..(MaxTick + Period)]
  BY TimerFuturesAssumption DEF Inv, TypeOK
<1>2. /\ Sound(wheel, deadline) /\ \A f \in Registered(wheel) : deadline[f] > wheel.current_tick
  BY DEF Inv, Linked
<1>3. Registered(wheel) \subseteq Futures
  BY <1>2, SoundParts
<1>4. deadline \in [Futures -> Nat]
  BY <1>1
<1>5. QED
  BY <1>1, <1>2, <1>3, <1>4

\* TypeOK of a wheel that is sound.
LEMMA SoundTypes ==
  ASSUME NEW w, NEW dl, Sound(w, dl), w.current_tick <= MaxTick
  PROVE  /\ w.heads \in [Levels -> [Slots -> Seq(Futures)]]
         /\ w.current_tick \in 0..MaxTick
         /\ w.pending \in Nat
BY SoundParts, TimerFuturesAssumption

\* Init
LEMMA InitInv ==
  ASSUME Init
  PROVE  Inv
<1>1. MaxTick \in Nat /\ Period \in Nat \ {0}
  BY TimerFuturesAssumption
<1>2. deadline \in [Futures -> Nat] /\ wheel = NewWheel
  BY DEF Init
<1>3. Sound(wheel, deadline) /\ wheel.current_tick = 0 /\ Registered(wheel) = {}
  BY <1>2, NewSound
<1>4. TypeOK
  BY <1>1, <1>3, SoundTypes DEF Init, TypeOK, Statuses
<1>5. Linked
  BY <1>3 DEF Init, Linked
<1>6. Armed /\ Spent /\ Paced
  BY DEF Init, Armed, Spent, Paced, Futures
<1>7. QED
  BY <1>4, <1>5, <1>6 DEF Inv

\* Future f leaves the wheel, if it was linked, and has deadline d, waker k and
\* status s from now on: a resolve, a reset or a drop.  A new future leaves it
\* in the same sense.
Leaves(f, d, k, s) ==
  /\ wheel' = RemoveEntry(wheel, f)
  /\ deadline' = [deadline EXCEPT ![f] = d]
  /\ waker' = [waker EXCEPT ![f] = k]
  /\ registered' = [registered EXCEPT ![f] = FALSE]
  /\ status' = [status EXCEPT ![f] = s]
  /\ owed' = [owed EXCEPT ![f] = NoWaker]

\* Every such step keeps the invariant.
LEMMA LeaveStep ==
  ASSUME Inv, NEW f \in Futures, NEW d \in 0..(MaxTick + Period), NEW k \in Wakers \cup {NoWaker},
         NEW s \in Statuses, Leaves(f, d, k, s),
         inner' \in [Futures -> BOOLEAN],
         start' \in [Intervals -> 0..MaxTick], ticks' \in [Intervals -> Nat],
         \A g \in Intervals : g # f => start'[g] = start[g] /\ ticks'[g] = ticks[g],
         f \in Sleeps \cup Intervals /\ s = "done" => d <= wheel.current_tick,
         f \in Intervals /\ s # "absent" =>
           Kept(ticks'[f], d, start'[f], wheel.current_tick, Behavior[f])
  PROVE  Inv' /\ wheel'.current_tick = wheel.current_tick
              /\ Registered(wheel') = Registered(wheel) \ {f}
<1>1. /\ wheel' = RemoveEntry(wheel, f)
      /\ deadline' = [deadline EXCEPT ![f] = d]
      /\ waker' = [waker EXCEPT ![f] = k]
      /\ registered' = [registered EXCEPT ![f] = FALSE]
      /\ status' = [status EXCEPT ![f] = s]
      /\ owed' = [owed EXCEPT ![f] = NoWaker]
  BY DEF Leaves
<1>2. /\ Sound(wheel', deadline)
      /\ wheel'.current_tick = wheel.current_tick
      /\ Registered(wheel') = Registered(wheel) \ {f}
  BY <1>1, InvParts, RemoveSound
<1>3. Sound(wheel', deadline')
  <2>1. ASSUME NEW v, Sound(v, deadline), NEW dm \in [Futures -> Nat],
               \A g \in Registered(v) : dm[g] = deadline[g]
        PROVE  Sound(v, dm)
    BY <2>1, SoundSame
  <2>2. \A g \in Registered(wheel') : g \in Futures /\ g # f
    BY <1>2, InvParts
  <2>3. deadline' \in [Futures -> Nat] /\ \A g \in Registered(wheel') : deadline'[g] = deadline[g]
    BY <1>1, <2>2, InvParts
  <2>4. QED
    BY <1>2, <2>1, <2>3
<1>4. TypeOK'
  <2>1. /\ wheel'.heads \in [Levels -> [Slots -> Seq(Futures)]]
        /\ wheel'.current_tick \in 0..MaxTick
        /\ wheel'.pending \in Nat
    <3>1. wheel'.current_tick <= MaxTick
      BY <1>2, InvParts
    <3>2. QED
      BY <1>2, <3>1, SoundTypes
  <2>2. QED
    BY <1>1, <2>1 DEF Inv, TypeOK
<1>5. Linked'
  <2>1. ASSUME NEW g \in Registered(wheel')
        PROVE  status'[g] = "live" /\ registered'[g] /\ deadline'[g] > wheel'.current_tick
    <3>1. g \in Registered(wheel) /\ g # f /\ g \in Futures
      BY <1>2, InvParts
    <3>2. QED
      BY <1>1, <1>2, <3>1 DEF Inv, Linked, TypeOK
  <2>2. ASSUME NEW g \in Futures, registered'[g]
        PROVE  status'[g] = "live" /\ (g \in Registered(wheel') \/ deadline'[g] <= wheel'.current_tick)
    <3>1. g # f
      BY <1>1, <2>2 DEF Inv, TypeOK
    <3>2. QED
      BY <1>1, <1>2, <2>2, <3>1 DEF Inv, TypeOK, Linked
  <2>3. QED
    BY <1>3, <2>1, <2>2 DEF Linked
<1>6. Armed'
  <2> SUFFICES ASSUME NEW g \in Futures, owed'[g] # NoWaker
               PROVE  g \in Registered(wheel') /\ waker'[g] = owed'[g]
    BY DEF Armed
  <2>1. g # f
    BY <1>1 DEF Inv, TypeOK
  <2>2. QED
    BY <1>1, <1>2, <2>1 DEF Inv, TypeOK, Armed
<1>7. Spent'
  <2> SUFFICES ASSUME NEW g \in Sleeps \cup Intervals, status'[g] = "done"
               PROVE  deadline'[g] <= wheel'.current_tick
    BY DEF Spent
  <2>1. g \in Futures
    BY DEF Futures
  <2>2. QED
    BY <1>1, <1>2, <2>1 DEF Inv, TypeOK, Spent
<1>8. Paced'
  <2> SUFFICES ASSUME NEW g \in Intervals, status'[g] # "absent"
               PROVE  Kept(ticks'[g], deadline'[g], start'[g], wheel'.current_tick, Behavior[g])
    BY DEF Paced
  <2>1. g \in Futures
    BY DEF Futures
  <2>2. QED
    BY <1>1, <1>2, <2>1 DEF Inv, TypeOK, Paced
<1>9. QED
  BY <1>2, <1>4, <1>5, <1>6, <1>7, <1>8 DEF Inv

\* Sleep::new, Timeout::new and Interval::new: the entry is not linked.
LEMMA CreateStep ==
  ASSUME Inv, NEW f \in Futures, NEW d \in 0..(MaxTick + Period), Create(f, d),
         start' \in [Intervals -> 0..MaxTick], ticks' \in [Intervals -> Nat],
         \A g \in Intervals : g # f => start'[g] = start[g] /\ ticks'[g] = ticks[g],
         f \in Intervals =>
           start'[f] = wheel.current_tick /\ ticks'[f] = 0 /\ d = wheel.current_tick + Period
  PROVE  Inv'
<1>1. f \notin Registered(wheel)
  BY DEF Create, Inv, Linked
<1>2. wheel = RemoveEntry(wheel, f)
  BY <1>1, InvParts, SoundParts DEF RemoveEntry
<1>3. Leaves(f, d, NoWaker, "live")
  BY <1>2 DEF Create, FreshEntry, Leaves
<1>4. inner' \in [Futures -> BOOLEAN] /\ "live" \in Statuses
  BY DEF Create, Inv, TypeOK, Statuses
<1>5. f \in Intervals => Kept(ticks'[f], d, start'[f], wheel.current_tick, Behavior[f])
  <2>1. 0 * Period = 0 /\ (0 + 1) * Period = Period
    BY InvParts
  <2>2. QED
    BY <2>1, InvParts DEF Kept
<1>6. QED
  BY <1>3, <1>4, <1>5, LeaveStep

\* New
LEMMA NewStep ==
  ASSUME Inv, NEW f \in Futures, NEW d \in 0..(MaxTick + Period), New(f, d)
  PROVE  Inv'
BY CreateStep DEF New, Inv, TypeOK

\* NewInterval
LEMMA NewIntervalStep ==
  ASSUME Inv, NEW f \in Futures, NewInterval(f)
  PROVE  Inv'
<1> DEFINE d == wheel.current_tick + Period
<1>1. d \in 0..(MaxTick + Period)
  BY InvParts
<1>2. Create(f, d) /\ f \in Intervals
  BY DEF NewInterval
<1>3. /\ start' = [start EXCEPT ![f] = wheel.current_tick]
      /\ ticks' = [ticks EXCEPT ![f] = 0]
      /\ start \in [Intervals -> 0..MaxTick] /\ ticks \in [Intervals -> Nat]
  BY DEF NewInterval, Inv, TypeOK
<1>4. start' \in [Intervals -> 0..MaxTick] /\ ticks' \in [Intervals -> Nat]
  BY <1>3, InvParts
<1>5. QED
  BY <1>1, <1>2, <1>3, <1>4, CreateStep

\* A poll that resolves the future.
LEMMA ResolveStep ==
  ASSUME Inv, NEW f \in Futures, Resolve(f), status[f] = "live",
         f \in Sleeps \cup Intervals => deadline[f] <= wheel.current_tick
  PROVE  Inv' /\ wheel'.current_tick = wheel.current_tick
<1>1. /\ deadline[f] \in 0..(MaxTick + Period) /\ waker[f] \in Wakers \cup {NoWaker}
      /\ deadline = [deadline EXCEPT ![f] = deadline[f]] /\ waker = [waker EXCEPT ![f] = waker[f]]
  BY DEF Inv, TypeOK
<1>2. Leaves(f, deadline[f], waker[f], "done")
  BY <1>1 DEF Resolve, Leaves
<1>3. /\ inner' \in [Futures -> BOOLEAN] /\ start' \in [Intervals -> 0..MaxTick]
      /\ ticks' \in [Intervals -> Nat] /\ start' = start /\ ticks' = ticks /\ "done" \in Statuses
  BY DEF Resolve, Inv, TypeOK, Statuses
<1>4. f \in Intervals => Kept(ticks'[f], deadline[f], start'[f], wheel.current_tick, Behavior[f])
  BY <1>3 DEF Inv, Paced
<1>5. QED
  BY <1>1, <1>2, <1>3, <1>4, LeaveStep

\* A poll that stays pending: a future that is not linked is linked now.
LEMMA PendStep ==
  ASSUME MultiLevel, Inv, NEW f \in Futures, NEW k \in Wakers, Pend(f, k), status[f] = "live",
         deadline[f] > wheel.current_tick
  PROVE  Inv' /\ wheel'.current_tick = wheel.current_tick
<1>1. /\ waker' = [waker EXCEPT ![f] = k]
      /\ wheel' = IF registered[f] THEN wheel ELSE InsertEntry(wheel, deadline, f)
      /\ registered' = [registered EXCEPT ![f] = TRUE]
      /\ owed' = [owed EXCEPT ![f] = k]
      /\ UNCHANGED <<deadline, status, inner, start, ticks>>
  BY DEF Pend
<1>2. /\ Sound(wheel', deadline)
      /\ wheel'.current_tick = wheel.current_tick
      /\ Registered(wheel') = Registered(wheel) \cup {f}
  <2>1. CASE registered[f]
    <3>1. f \in Registered(wheel)
      BY <2>1, InvParts DEF Inv, Linked
    <3>2. QED
      BY <1>1, <2>1, <3>1, InvParts
  <2>2. CASE ~registered[f]
    <3>1. f \notin Registered(wheel)
      BY <2>2 DEF Inv, Linked
    <3>2. QED
      BY <1>1, <2>2, <3>1, InvParts, InsertSound
  <2>3. QED
    BY <2>1, <2>2
<1>3. TypeOK'
  <2>1. /\ wheel'.heads \in [Levels -> [Slots -> Seq(Futures)]]
        /\ wheel'.current_tick \in 0..MaxTick
        /\ wheel'.pending \in Nat
    <3>1. wheel'.current_tick <= MaxTick
      BY <1>2, InvParts
    <3>2. QED
      BY <1>2, <3>1, SoundTypes
  <2>2. QED
    BY <1>1, <2>1 DEF Inv, TypeOK
<1>4. Linked'
  <2>1. ASSUME NEW g \in Registered(wheel')
        PROVE  status'[g] = "live" /\ registered'[g] /\ deadline'[g] > wheel'.current_tick
    <3>1. g \in Futures /\ (g = f \/ g \in Registered(wheel))
      BY <1>2, InvParts
    <3>2. QED
      BY <1>1, <1>2, <3>1 DEF Inv, Linked, TypeOK
  <2>2. ASSUME NEW g \in Futures, registered'[g]
        PROVE  status'[g] = "live" /\ (g \in Registered(wheel') \/ deadline'[g] <= wheel'.current_tick)
    BY <1>1, <1>2, <2>2 DEF Inv, TypeOK, Linked
  <2>3. QED
    BY <1>1, <1>2, <2>1, <2>2 DEF Linked
<1>5. Armed'
  BY <1>1, <1>2 DEF Inv, TypeOK, Armed
<1>6. Spent' /\ Paced'
  BY <1>1, <1>2 DEF Inv, Spent, Paced
<1>7. QED
  BY <1>2, <1>3, <1>4, <1>5, <1>6 DEF Inv

\* A poll of a Sleep, of a Timeout or of the Sleep in an Interval.
LEMMA PollStep ==
  ASSUME MultiLevel, Inv, NEW f \in Futures, NEW k \in Wakers, Poll(f, k)
  PROVE  Inv' /\ wheel'.current_tick = wheel.current_tick
<1>1. status[f] = "live" /\ deadline[f] \in Nat /\ wheel.current_tick \in Nat
  BY InvParts DEF Poll, PollSleep, PollTimeout
<1>2. f \in Timeouts => f \notin Sleeps \cup Intervals
  BY TimerFuturesAssumption
<1>3. \/ Resolve(f) /\ (f \in Sleeps \cup Intervals => deadline[f] <= wheel.current_tick)
      \/ Pend(f, k) /\ deadline[f] > wheel.current_tick
  BY <1>1, <1>2 DEF Poll, PollSleep, PollTimeout
<1>4. QED
  BY <1>1, <1>3, ResolveStep, PendStep

\* MissedTickBehavior::next_deadline: at least a period on from the old one,
\* at most a period from now, and a Burst's is exactly the next.
LEMMA NextDeadlineFacts ==
  ASSUME NEW behavior \in {"Burst", "Delay", "Skip"}, NEW old \in Nat, NEW now \in Nat, old <= now
  PROVE  /\ NextDeadline(behavior, old, now) \in 0..(now + Period)
         /\ NextDeadline(behavior, old, now) >= old + Period
         /\ behavior = "Burst" => NextDeadline(behavior, old, now) = old + Period
<1> DEFINE floor == (now \div Period) * Period
<1>1. Period \in Nat \ {0}
  BY TimerFuturesAssumption
<1>2. floor \in Nat /\ floor <= now
  <2>1. \A a \in Nat : \A b \in Nat \ {0} : (a \div b) * b \in Nat /\ (a \div b) * b <= a
    OBVIOUS
  <2>2. QED
    BY <1>1, <2>1
<1>3. NextDeadline(behavior, old, now)
        = CASE behavior = "Burst" -> old + Period
            [] behavior = "Delay" -> now + Period
            [] behavior = "Skip"  -> IF floor + Period > old + Period THEN floor + Period ELSE old + Period
  BY DEF NextDeadline
<1> HIDE DEF floor
<1>4. CASE behavior = "Burst"
  BY <1>1, <1>3, <1>4
<1>5. CASE behavior = "Delay"
  BY <1>1, <1>3, <1>5
<1>6. CASE behavior = "Skip"
  BY <1>1, <1>2, <1>3, <1>6
<1>7. QED
  BY <1>4, <1>5, <1>6

\* Sleep::reset
LEMMA ResetStep ==
  ASSUME Inv, NEW f \in Futures, NEW d \in Deadlines, Reset(f, d)
  PROVE  Inv'
<1>1. Leaves(f, d, NoWaker, "live") /\ f \notin Intervals
  BY TimerFuturesAssumption DEF Reset, ResetTo, FreshEntry, Leaves
<1>2. d \in 0..(MaxTick + Period)
  BY TimerFuturesAssumption
<1>3. /\ inner' \in [Futures -> BOOLEAN] /\ start' \in [Intervals -> 0..MaxTick]
      /\ ticks' \in [Intervals -> Nat] /\ start' = start /\ ticks' = ticks /\ "live" \in Statuses
  BY DEF Reset, ResetTo, Inv, TypeOK, Statuses
<1>4. QED
  BY <1>1, <1>2, <1>3, LeaveStep

\* The second half of Interval::poll_tick.
LEMMA RearmStep ==
  ASSUME Inv, NEW f \in Futures, Rearm(f)
  PROVE  Inv'
<1> DEFINE now == wheel.current_tick
           e == NextDeadline(Behavior[f], deadline[f], now)
<1>1. f \in Intervals /\ status[f] = "done" /\ ResetTo(f, e) /\ ticks' = [ticks EXCEPT ![f] = @ + 1]
  BY DEF Rearm
<1>2. /\ deadline[f] \in Nat /\ now \in Nat /\ now <= MaxTick /\ deadline[f] <= now
      /\ Behavior[f] \in {"Burst", "Delay", "Skip"} /\ Period \in Nat \ {0} /\ MaxTick \in Nat
  BY <1>1, InvParts, TimerFuturesAssumption DEF Inv, Spent
<1>3. /\ e \in 0..(now + Period) /\ e >= deadline[f] + Period
      /\ Behavior[f] = "Burst" => e = deadline[f] + Period
  BY <1>2, NextDeadlineFacts
<1>4. /\ ticks[f] \in Nat /\ start[f] \in Nat
      /\ deadline[f] >= start[f] + (ticks[f] + 1) * Period
      /\ Behavior[f] = "Burst" => deadline[f] = start[f] + (ticks[f] + 1) * Period
  <2>1. Kept(ticks[f], deadline[f], start[f], now, Behavior[f])
    BY <1>1 DEF Inv, Paced
  <2>2. ticks[f] \in Nat /\ start[f] \in Nat
    BY <1>1, InvParts DEF Inv, TypeOK
  <2>3. QED
    BY <2>1, <2>2 DEF Kept
<1> HIDE DEF e
<1>5. Kept(ticks[f] + 1, e, start[f], now, Behavior[f])
  <2> DEFINE p == (ticks[f] + 1) * Period
  <2>1. p \in Nat /\ (ticks[f] + 1 + 1) * Period = p + Period
    BY <1>2, <1>4
  <2> HIDE DEF p
  <2>2. deadline[f] >= start[f] + p /\ (Behavior[f] = "Burst" => deadline[f] = start[f] + p)
    BY <1>4 DEF p
  <2>3. p <= now - start[f] /\ e >= start[f] + (p + Period)
        /\ (Behavior[f] = "Burst" => e = start[f] + (p + Period))
    BY <1>2, <1>3, <1>4, <2>1, <2>2
  <2>4. QED
    BY <2>1, <2>3 DEF Kept, p
<1>6. Leaves(f, e, NoWaker, "live")
  BY <1>1 DEF ResetTo, FreshEntry, Leaves
<1>7. e \in 0..(MaxTick + Period)
  BY <1>2, <1>3
<1>8. /\ inner' \in [Futures -> BOOLEAN] /\ start' \in [Intervals -> 0..MaxTick] /\ start' = start
      /\ "live" \in Statuses
  BY <1>1 DEF ResetTo, Inv, TypeOK, Statuses
<1>9. /\ ticks' \in [Intervals -> Nat] /\ ticks'[f] = ticks[f] + 1
      /\ \A g \in Intervals : g # f => ticks'[g] = ticks[g]
  BY <1>1, <1>4 DEF Inv, TypeOK
<1>10. QED
  BY <1>5, <1>6, <1>7, <1>8, <1>9, LeaveStep

\* impl Drop
LEMMA DropStep ==
  ASSUME Inv, NEW f \in Futures, DropFuture(f)
  PROVE  Inv' /\ wheel'.current_tick = wheel.current_tick
<1>1. Leaves(f, 0, NoWaker, "absent")
  BY DEF DropFuture, FreshEntry, Leaves
<1>2. 0 \in 0..(MaxTick + Period) /\ 0 \in 0..MaxTick
  BY InvParts
<1>3. /\ inner' \in [Futures -> BOOLEAN] /\ start' \in [Intervals -> 0..MaxTick]
      /\ ticks' \in [Intervals -> Nat] /\ "absent" \in Statuses
      /\ \A g \in Intervals : g # f => start'[g] = start[g] /\ ticks'[g] = ticks[g]
  BY <1>2 DEF DropFuture, Inv, TypeOK, Statuses
<1>4. QED
  BY <1>1, <1>2, <1>3, LeaveStep

\* The wrapped future of a Timeout becomes ready.
LEMMA InnerStep ==
  ASSUME Inv, NEW f \in Futures, InnerReady(f)
  PROVE  Inv'
<1>1. /\ inner' = [inner EXCEPT ![f] = TRUE] /\ owed' = [owed EXCEPT ![f] = NoWaker]
      /\ UNCHANGED <<wheel, deadline, waker, registered, status, start, ticks>>
  BY DEF InnerReady
<1>2. TypeOK'
  BY <1>1 DEF Inv, TypeOK
<1>3. Linked' /\ Spent' /\ Paced'
  BY <1>1 DEF Inv, Linked, Spent, Paced
<1>4. Armed'
  BY <1>1 DEF Inv, TypeOK, Armed
<1>5. QED
  BY <1>2, <1>3, <1>4 DEF Inv

\* Ticks: the entries that are reached lose their waker, which is woken.
LEMMA DrainStep ==
  ASSUME Inv, NEW n \in Nat, NEW step, Ticked(step, wheel, deadline, n), Drained(step),
         wheel.current_tick + n <= MaxTick
  PROVE  Inv' /\ wheel'.current_tick = wheel.current_tick + n
<1> DEFINE now == wheel.current_tick + n
           fired == Range(step.woken)
<1>1. /\ wheel' = step.wheel
      /\ waker' = [f \in Futures |-> IF f \in fired THEN NoWaker ELSE waker[f]]
      /\ owed' = [f \in Futures |-> IF f \in fired /\ waker[f] = owed[f] THEN NoWaker ELSE owed[f]]
      /\ UNCHANGED <<deadline, registered, status, inner, start, ticks>>
  BY DEF Drained
<1>2. /\ Sound(wheel', deadline) /\ wheel'.current_tick = now
      /\ Registered(wheel') = {f \in Registered(wheel) : deadline[f] > now}
      /\ fired = {f \in Registered(wheel) : deadline[f] <= now}
  BY <1>1 DEF Ticked
<1>3. /\ wheel.current_tick \in Nat /\ now \in Nat /\ now >= wheel.current_tick
      /\ \A f \in Futures : deadline[f] \in Nat
      /\ Registered(wheel) \subseteq Futures
  BY InvParts
<1> HIDE DEF now, fired
<1>4. TypeOK'
  <2>1. /\ wheel'.heads \in [Levels -> [Slots -> Seq(Futures)]]
        /\ wheel'.current_tick \in 0..MaxTick
        /\ wheel'.pending \in Nat
    BY <1>2, SoundTypes DEF now
  <2>2. QED
    BY <1>1, <2>1 DEF Inv, TypeOK
<1>5. Linked'
  <2>1. \A f \in Registered(wheel') : status'[f] = "live" /\ registered'[f] /\ deadline'[f] > wheel'.current_tick
    BY <1>1, <1>2 DEF Inv, Linked
  <2>2. ASSUME NEW f \in Futures, registered'[f]
        PROVE  status'[f] = "live" /\ (f \in Registered(wheel') \/ deadline'[f] <= wheel'.current_tick)
    BY <1>1, <1>2, <1>3, <2>2 DEF Inv, Linked
  <2>3. QED
    BY <1>1, <1>2, <2>1, <2>2 DEF Linked
<1>6. Armed'
  <2> SUFFICES ASSUME NEW f \in Futures, owed'[f] # NoWaker
               PROVE  f \in Registered(wheel') /\ waker'[f] = owed'[f]
    BY DEF Armed
  <2>1. owed[f] # NoWaker /\ owed'[f] = owed[f] /\ ~(f \in fired /\ waker[f] = owed[f])
    BY <1>1
  <2>2. f \in Registered(wheel) /\ waker[f] = owed[f] /\ f \notin fired
    BY <2>1 DEF Inv, Armed
  <2>3. waker'[f] = owed'[f]
    BY <1>1, <2>1, <2>2
  <2>4. f \in Registered(wheel')
    BY <1>2, <1>3, <2>2
  <2>5. QED
    BY <2>3, <2>4
<1>7. Spent'
  <2> SUFFICES ASSUME NEW f \in Sleeps \cup Intervals, status'[f] = "done"
               PROVE  deadline'[f] <= wheel'.current_tick
    BY DEF Spent
  <2>1. f \in Futures /\ deadline[f] <= wheel.current_tick
    BY <1>1 DEF Inv, Spent, Futures
  <2>2. QED
    BY <1>1, <1>2, <1>3, <2>1
<1>8. Paced'
  <2> SUFFICES ASSUME NEW f \in Intervals, status'[f] # "absent"
               PROVE  Kept(ticks'[f], deadline'[f], start'[f], wheel'.current_tick, Behavior[f])
    BY DEF Paced
  <2>1. Kept(ticks[f], deadline[f], start[f], wheel.current_tick, Behavior[f])
    BY <1>1 DEF Inv, Paced
  <2>2. ticks[f] \in Nat /\ start[f] \in Nat /\ ticks[f] * Period \in Nat
    BY InvParts DEF Inv, TypeOK
  <2>3. QED
    BY <1>1, <1>2, <1>3, <2>1, <2>2 DEF Kept
<1>9. QED
  BY <1>2, <1>4, <1>5, <1>6, <1>7, <1>8 DEF Inv, now

\* tick and advance_to.
LEMMA TickStep ==
  ASSUME MultiLevel, Inv, NEW target \in Nat, target >= wheel.current_tick, target <= MaxTick,
         NEW step, Drained(step),
         \/ step = AdvanceOne(wheel, deadline) /\ target = wheel.current_tick + 1
         \/ step = AdvanceTo(wheel, deadline, target)
  PROVE  Inv' /\ wheel'.current_tick = target
<1>1. /\ wheel.current_tick \in Nat /\ Sound(wheel, deadline)
      /\ \A f \in Registered(wheel) : deadline[f] > wheel.current_tick
  BY InvParts
<1>2. target - wheel.current_tick \in Nat /\ Ticked(step, wheel, deadline, target - wheel.current_tick)
  <2>1. CASE step = AdvanceOne(wheel, deadline) /\ target = wheel.current_tick + 1
    <3>1. target - wheel.current_tick = 1
      BY <1>1, <2>1
    <3>2. Ticked(step, wheel, deadline, 1)
      BY <1>1, <2>1, TickSound
    <3>3. QED
      BY <3>1, <3>2
  <2>2. CASE step = AdvanceTo(wheel, deadline, target)
    BY <1>1, <2>2, CatchUpSound
  <2>3. QED
    BY <2>1, <2>2
<1>3. PICK n \in Nat : n = target - wheel.current_tick
  BY <1>2
<1>4. wheel.current_tick + n = target /\ Ticked(step, wheel, deadline, n)
  BY <1>1, <1>2, <1>3
<1>5. QED
  BY <1>4, DrainStep

\* Every step keeps the invariant.
LEMMA NextInv ==
  ASSUME MultiLevel, Inv, [Next]_vars
  PROVE  Inv'
<1>1. \A d \in Deadlines : d \in 0..(MaxTick + Period)
  BY InvParts, TimerFuturesAssumption
<1>2. ASSUME NEW f \in Futures, NEW d \in Deadlines, New(f, d) PROVE Inv'
  BY <1>1, <1>2, NewStep
<1>3. ASSUME NEW f \in Futures, NEW k \in Wakers, Poll(f, k) PROVE Inv'
  BY <1>3, PollStep
<1>4. ASSUME NEW f \in Futures, NEW d \in Deadlines, Reset(f, d) PROVE Inv'
  BY <1>4, ResetStep
<1>5. ASSUME NEW f \in Futures, NewInterval(f) \/ Rearm(f) \/ DropFuture(f) \/ InnerReady(f)
      PROVE  Inv'
  BY <1>5, NewIntervalStep, RearmStep, DropStep, InnerStep
<1>6. CASE Tick
  <2>1. wheel.current_tick < MaxTick /\ Drained(AdvanceOne(wheel, deadline))
    BY <1>6 DEF Tick
  <2>2. PICK target : target = wheel.current_tick + 1
    OBVIOUS
  <2>3. target \in Nat /\ target >= wheel.current_tick /\ target <= MaxTick
    BY <2>1, <2>2, InvParts
  <2>4. QED
    BY <2>1, <2>2, <2>3, TickStep
<1>7. ASSUME NEW target \in 0..MaxTick, Advance(target) PROVE Inv'
  <2>1. target > wheel.current_tick /\ Drained(AdvanceTo(wheel, deadline, target))
    BY <1>7 DEF Advance
  <2>2. target \in Nat /\ target >= wheel.current_tick /\ target <= MaxTick
    BY <2>1, InvParts
  <2>3. QED
    BY <2>1, <2>2, TickStep
<1>8. CASE UNCHANGED vars
  BY <1>8 DEF vars, Inv, TypeOK, Linked, Armed, Spent, Paced
<1>9. QED
  BY <1>2, <1>3, <1>4, <1>5, <1>6, <1>7, <1>8 DEF Next

\* What the invariant says of the properties.
LEMMA InvProperties ==
  ASSUME Inv
  PROVE  EntriesSound /\ SleeperStillArmed /\ TicksWithinPeriods
<1>1. /\ wheel.pending = Cardinality(Registered(wheel))
      /\ \A x : IsRegistered(wheel, x) <=> x \in Registered(wheel)
  BY InvParts, SoundParts
<1>2. EntriesSound
  BY <1>1 DEF Inv, Linked, EntriesSound, NoDanglingEntry, PendingIsExact
<1>3. SleeperStillArmed
  BY <1>1, InvParts DEF Inv, Linked, Armed, SleeperStillArmed
<1>4. TicksWithinPeriods
  BY DEF Inv, Paced, Kept, TicksWithinPeriods
<1>5. QED
  BY <1>2, <1>3, <1>4

\* The futures and the wheel they are linked into agree: no entry dangles,
\* none is linked for a future that is not pending, and the count is right,
\* whatever is polled, reset, dropped and ticked in between.
THEOREM EntriesStaySound == MultiLevel => (Spec => []EntriesSound)
<1> SUFFICES ASSUME MultiLevel PROVE Spec => []EntriesSound
  OBVIOUS
<1>1. QED
  BY InitInv, NextInv, InvProperties, PTL DEF Spec

\* No sleeper is lost: while a pending future's last waker has not been
\* called, the wheel holds its entry with exactly that waker.
THEOREM SleepersStayArmed == MultiLevel => (Spec => []SleeperStillArmed)
<1> SUFFICES ASSUME MultiLevel PROVE Spec => []SleeperStillArmed
  OBVIOUS
<1>1. QED
  BY InitInv, NextInv, InvProperties, PTL DEF Spec

\* An Interval never ticks more often than its period has passed, whatever its
\* MissedTickBehavior, and a Burst misses none.
THEOREM IntervalsKeepPeriod == MultiLevel => (Spec => []TicksWithinPeriods)
<1> SUFFICES ASSUME MultiLevel PROVE Spec => []TicksWithinPeriods
  OBVIOUS
<1>1. QED
  BY InitInv, NextInv, InvProperties, PTL DEF Spec

-----------------------------------------------------------------------------
(* The driver. *)

\* Types of the driver loop and of the retry loops.
LoopTypes ==
  /\ clock \in 0..MaxClock
  /\ dpc \in {"off", "advance", "cap", "park", "waiting"}
  /\ cap \in 0..CAP
  /\ wakeAt \in 0..(MaxClock + CAP)
  /\ notifying \in SUBSET Futures
  /\ promised \in [Futures -> 0..MaxTick]
  /\ shortfall \in [Futures -> 0..MaxTick]

RetryTypes ==
  /\ attempt \in [Retrying -> Nat]
  /\ failed \in [Retrying -> 0..MaxClock]

\* The wheel is at most one park behind the clock, and not behind it between
\* the catch-up and the park.
Lag ==
  /\ wheel.current_tick <= clock /\ clock <= wheel.current_tick + CAP
  /\ dpc \in {"off", "cap", "park"} => clock = wheel.current_tick
  /\ dpc = "waiting" => wakeAt <= wheel.current_tick + CAP

\* A sleep's deadline is at most one park before the time it was asked for.
Promises ==
  \A f \in Sleeps :
    /\ status[f] = "live" => promised[f] <= deadline[f] + CAP
    /\ status[f] = "done" => shortfall[f] <= CAP

\* A retry loop sleeps only between two attempts, and its sleep ends at most
\* one park before the policy's delay has passed.
Backoff ==
  \A f \in Retrying :
    /\ attempt[f] <= MaxAttempts \/ attempt[f] = 1
    /\ status[f] # "absent" =>
         /\ attempt[f] \in 1..(MaxAttempts - 1)
         /\ deadline[f] + CAP >= failed[f] + DelayFor(attempt[f])
    /\ status[f] = "absent" /\ attempt[f] > 1 =>
         clock + CAP >= failed[f] + DelayFor(attempt[f] - 1)

\* The inductive invariant of the driver.
DriverInv == Inv /\ LoopTypes /\ RetryTypes /\ Lag /\ Promises /\ Backoff

\* The constants.
LEMMA DriverConstants ==
  /\ CAP \in Nat \ {0} /\ MaxClock \in Nat /\ MaxTick \in Nat /\ MaxAttempts \in Nat /\ MaxDelay \in Nat
  /\ MaxClock + MaxDelay <= MaxTick /\ MaxClock <= MaxTick
  /\ \A dur \in Durations : dur \in Nat /\ MaxClock + dur <= MaxTick
  /\ Retrying \subseteq Sleeps /\ Sleeps \subseteq Futures
<1>1. CAP \in Nat \ {0} /\ MaxClock \in Nat /\ MaxTick \in Nat /\ MaxAttempts \in Nat /\ MaxDelay \in Nat
  BY TimerDriverAssumption, TimerFuturesAssumption
<1>2. MaxClock + MaxDelay <= MaxTick
  BY TimerDriverAssumption
<1>3. \A dur \in Durations : dur \in Nat /\ MaxClock + dur <= MaxTick
  BY TimerDriverAssumption
<1>4. Retrying \subseteq Sleeps /\ Sleeps \subseteq Futures
  BY TimerDriverAssumption DEF Futures
<1>5. QED
  BY <1>1, <1>2, <1>3, <1>4

\* delay_for is at most max_delay.
LEMMA DelayBounds ==
  ASSUME NEW n \in 1..MaxAttempts
  PROVE  DelayFor(n) \in 0..MaxDelay
<1>1. Multiplier \in Nat /\ MaxAttempts \in Nat /\ InitialDelay \in Nat /\ MaxDelay \in Nat
  BY TimerDriverAssumption
<1>2. Growth = CHOOSE g : g = [i \in 0..MaxAttempts |-> IF i = 0 THEN 1 ELSE Multiplier * g[i - 1]]
  BY DEF Growth
<1>3. \A i \in 0..MaxAttempts : Growth[i] \in Nat
  <2>1. 1 \in Nat /\ \A x, y \in Nat : x * y \in Nat
    OBVIOUS
  <2>2. QED
    BY <1>1, <1>2, <2>1, Powers
<1>4. n - 1 \in 0..MaxAttempts
  BY <1>1
<1>5. InitialDelay * Growth[n - 1] \in Nat
  BY <1>1, <1>3, <1>4
<1>6. QED
  BY <1>1, <1>5 DEF DelayFor, Lesser

\* DriverInit
LEMMA DriverInitInv ==
  ASSUME DriverInit
  PROVE  DriverInv
<1>1. Inv /\ wheel.current_tick = 0
  <2>1. NewWheel.current_tick = 0
    BY DEF NewWheel
  <2>2. QED
    BY <2>1, InitInv DEF DriverInit, Init
<1>2. LoopTypes /\ RetryTypes
  BY DriverConstants DEF DriverInit, LoopTypes, RetryTypes
<1>3. Lag
  BY <1>1, DriverConstants DEF DriverInit, Lag
<1>4. \A f \in Futures : status[f] = "absent"
  BY DEF DriverInit, Init
<1>5. Promises
  BY <1>4, DriverConstants DEF Promises
<1>6. Backoff
  <2>1. \A f \in Retrying : f \in Futures /\ attempt[f] = 0 /\ status[f] = "absent"
    BY <1>4, DriverConstants DEF DriverInit
  <2>2. QED
    BY <2>1, DriverConstants DEF Backoff
<1>7. QED
  BY <1>1, <1>2, <1>3, <1>5, <1>6 DEF DriverInv

\* A step of the driver thread or of the clock that leaves the futures alone.
LEMMA LoopStep ==
  ASSUME DriverInv, UNCHANGED <<vars, promised, shortfall, retryVars>>,
         LoopTypes', Lag', clock' >= clock
  PROVE  DriverInv'
<1>1. UNCHANGED <<wheel, deadline, waker, registered, status, inner, owed, start, ticks>>
      /\ UNCHANGED <<promised, shortfall, attempt, failed>>
  BY DEF vars, retryVars
<1>2. Inv'
  BY <1>1 DEF DriverInv, Inv, TypeOK, Linked, Armed, Spent, Paced
<1>3. RetryTypes' /\ Promises'
  BY <1>1 DEF DriverInv, RetryTypes, Promises
<1>4. Backoff'
  <2> SUFFICES ASSUME NEW f \in Retrying
               PROVE  /\ attempt[f] <= MaxAttempts \/ attempt[f] = 1
                      /\ status[f] # "absent" =>
                           /\ attempt[f] \in 1..(MaxAttempts - 1)
                           /\ deadline[f] + CAP >= failed[f] + DelayFor(attempt[f])
                      /\ status[f] = "absent" /\ attempt[f] > 1 =>
                           clock' + CAP >= failed[f] + DelayFor(attempt[f] - 1)
    BY <1>1 DEF Backoff
  <2>1. /\ attempt[f] <= MaxAttempts \/ attempt[f] = 1
        /\ status[f] # "absent" =>
             /\ attempt[f] \in 1..(MaxAttempts - 1)
             /\ deadline[f] + CAP >= failed[f] + DelayFor(attempt[f])
        /\ status[f] = "absent" /\ attempt[f] > 1 =>
             clock + CAP >= failed[f] + DelayFor(attempt[f] - 1)
    BY DEF DriverInv, Backoff
  <2>2. ASSUME status[f] = "absent", attempt[f] > 1
        PROVE  clock' + CAP >= failed[f] + DelayFor(attempt[f] - 1)
    <3>1. attempt[f] \in Nat /\ failed[f] \in Nat
      BY DriverConstants DEF DriverInv, RetryTypes
    <3>2. attempt[f] - 1 \in 1..MaxAttempts
      BY <2>1, <2>2, <3>1, DriverConstants
    <3>3. DelayFor(attempt[f] - 1) \in Nat
      BY <3>2, DelayBounds, DriverConstants
    <3>4. clock \in Nat /\ clock' \in Nat
      BY DriverConstants DEF DriverInv, LoopTypes
    <3>5. QED
      BY <2>1, <2>2, <3>1, <3>3, <3>4, DriverConstants
  <2>3. QED
    BY <2>1, <2>2
<1>5. QED
  BY <1>2, <1>3, <1>4 DEF DriverInv

\* on_registration
LEMMA OnRegistrationStep ==
  ASSUME DriverInv, NEW f \in Futures, OnRegistration(f)
  PROVE  DriverInv'
<1>1. /\ notifying' = notifying \ {f}
      /\ dpc' = IF dpc = "waiting" THEN "advance" ELSE dpc
      /\ UNCHANGED <<vars, clock, cap, wakeAt, promised, shortfall, retryVars>>
  BY DEF OnRegistration
<1>2. wheel' = wheel
  BY <1>1 DEF vars
<1>3. LoopTypes' /\ clock' >= clock
  BY <1>1, DriverConstants DEF DriverInv, LoopTypes
<1>4. Lag'
  BY <1>1, <1>2 DEF DriverInv, LoopTypes, Lag
<1>5. QED
  BY <1>1, <1>3, <1>4, LoopStep

\* The heads that next_deadline looks at have deadlines.
LEMMA HeadsTyped ==
  ASSUME Inv
  PROVE  HeadDeadlines(wheel, deadline) \subseteq Nat
<1> SUFFICES ASSUME NEW d \in HeadDeadlines(wheel, deadline) PROVE d \in Nat
  OBVIOUS
<1>1. PICK p \in Levels \X Slots : /\ wheel.heads[p[1]][p[2]] # <<>>
                                   /\ d = deadline[Head(wheel.heads[p[1]][p[2]])]
  BY DEF HeadDeadlines
<1>2. wheel.heads[p[1]][p[2]] \in Seq(Futures)
  BY DEF Inv, TypeOK
<1>3. Head(wheel.heads[p[1]][p[2]]) \in Futures
  BY <1>1, <1>2
<1>4. QED
  BY <1>1, <1>3, InvParts

\* The driver's steps that leave the wheel alone, and the clock's.
LEMMA ParkSteps ==
  ASSUME DriverInv, DriverCap \/ DriverPark \/ DriverWake \/ TimePasses
  PROVE  DriverInv'
<1>1. /\ UNCHANGED <<vars, promised, shortfall, retryVars>> /\ wheel' = wheel
      /\ UNCHANGED notifying
  BY DEF DriverCap, DriverPark, DriverWake, TimePasses, vars
<1>2. /\ clock \in 0..MaxClock /\ wheel.current_tick \in Nat /\ cap \in 0..CAP
      /\ wakeAt \in 0..(MaxClock + CAP)
  BY InvParts DEF DriverInv, LoopTypes
<1>3. CASE DriverCap
  <2>1. /\ dpc = "cap" /\ dpc' = "park" /\ clock' = clock /\ wakeAt' = wakeAt
        /\ \/ cap' = CAP
           \/ \E d \in HeadDeadlines(wheel, deadline) :
                cap' = Lesser(CAP, IF d > wheel.current_tick THEN d - wheel.current_tick ELSE 0)
    BY <1>3 DEF DriverCap
  <2>2. cap' \in 0..CAP
    <3>1. \A d \in HeadDeadlines(wheel, deadline) : d \in Nat
      BY HeadsTyped DEF DriverInv
    <3>2. QED
      BY <1>2, <2>1, <3>1, DriverConstants DEF Lesser
  <2>3. LoopTypes' /\ clock' >= clock
    BY <1>1, <1>2, <2>1, <2>2, DriverConstants DEF DriverInv, LoopTypes
  <2>4. Lag'
    BY <1>1, <2>1 DEF DriverInv, Lag
  <2>5. QED
    BY <1>1, <2>3, <2>4, LoopStep
<1>4. CASE DriverPark
  <2>1. dpc = "park" /\ dpc' = "waiting" /\ clock' = clock /\ wakeAt' = clock + cap /\ cap' = cap
    BY <1>4 DEF DriverPark
  <2>2. LoopTypes' /\ clock' >= clock
    BY <1>1, <1>2, <2>1, DriverConstants DEF DriverInv, LoopTypes
  <2>3. Lag'
    BY <1>1, <1>2, <2>1, DriverConstants DEF DriverInv, Lag
  <2>4. QED
    BY <1>1, <2>2, <2>3, LoopStep
<1>5. CASE DriverWake
  <2>1. dpc' = "advance" /\ clock' = clock /\ wakeAt' = wakeAt /\ cap' = cap
    BY <1>5 DEF DriverWake
  <2>2. LoopTypes' /\ clock' >= clock
    BY <1>1, <1>2, <2>1, DriverConstants DEF DriverInv, LoopTypes
  <2>3. Lag'
    BY <1>1, <2>1 DEF DriverInv, Lag
  <2>4. QED
    BY <1>1, <2>2, <2>3, LoopStep
<1>6. CASE TimePasses
  <2>1. /\ dpc = "waiting" /\ clock < wakeAt /\ clock < MaxClock
        /\ clock' = clock + 1 /\ dpc' = dpc /\ wakeAt' = wakeAt /\ cap' = cap
    BY <1>6 DEF TimePasses
  <2>2. LoopTypes' /\ clock' >= clock
    BY <1>1, <1>2, <2>1, DriverConstants DEF DriverInv, LoopTypes
  <2>3. Lag'
    BY <1>1, <1>2, <2>1, DriverConstants DEF DriverInv, Lag
  <2>4. QED
    BY <1>1, <2>2, <2>3, LoopStep
<1>7. QED
  BY <1>3, <1>4, <1>5, <1>6

\* The driver catches the wheel up to the clock.
LEMMA CatchUpStep ==
  ASSUME MultiLevel, DriverInv, DriverAdvance
  PROVE  DriverInv'
<1>1. /\ Drained(AdvanceTo(wheel, deadline, clock)) /\ dpc' = "cap"
      /\ UNCHANGED <<clock, cap, wakeAt, notifying, promised, shortfall, attempt, failed>>
  BY DEF DriverAdvance, retryVars
<1>2. clock \in Nat /\ clock <= MaxTick /\ clock >= wheel.current_tick /\ wheel.current_tick \in Nat
  BY DriverConstants, InvParts DEF DriverInv, LoopTypes, Lag
<1>3. Inv' /\ wheel'.current_tick = clock
  BY <1>1, <1>2, TickStep DEF DriverInv
<1>4. deadline' = deadline /\ status' = status
  BY <1>1 DEF Drained
<1>5. LoopTypes' /\ RetryTypes'
  BY <1>1 DEF DriverInv, LoopTypes, RetryTypes
<1>6. Lag'
  BY <1>1, <1>2, <1>3, DriverConstants DEF Lag
<1>7. Promises' /\ Backoff'
  BY <1>1, <1>4 DEF DriverInv, Promises, Backoff
<1>8. QED
  BY <1>3, <1>5, <1>6, <1>7 DEF DriverInv

\* The wrapped future of a Timeout becomes ready.
LEMMA CompleteInnerStep ==
  ASSUME DriverInv, NEW f \in Futures, CompleteInner(f)
  PROVE  DriverInv'
<1>1. /\ InnerReady(f)
      /\ UNCHANGED <<clock, dpc, cap, wakeAt, notifying, promised, shortfall, attempt, failed>>
  BY DEF CompleteInner, driverVars, loopVars, retryVars
<1>2. Inv' /\ wheel' = wheel /\ deadline' = deadline /\ status' = status
  BY <1>1, InnerStep DEF DriverInv, InnerReady
<1>3. LoopTypes' /\ RetryTypes'
  BY <1>1 DEF DriverInv, LoopTypes, RetryTypes
<1>4. Lag' /\ Promises' /\ Backoff'
  BY <1>1, <1>2 DEF DriverInv, Lag, Promises, Backoff
<1>5. QED
  BY <1>2, <1>3, <1>4 DEF DriverInv

\* What a poll does to the deadline and the status of its future.
LEMMA PollEffect ==
  ASSUME NEW f \in Futures, NEW k \in Wakers, Poll(f, k), Inv
  PROVE  /\ status[f] = "live" /\ deadline' = deadline
         /\ \/ status' = status
            \/ /\ status' = [status EXCEPT ![f] = "done"]
               /\ f \in Sleeps => deadline[f] <= wheel.current_tick
<1>1. deadline[f] \in Nat /\ wheel.current_tick \in Nat
  BY InvParts
<1>2. f \in Sleeps => f \notin Timeouts
  BY TimerFuturesAssumption
<1>3. /\ status[f] = "live"
      /\ \/ Resolve(f) /\ (f \in Sleeps => deadline[f] <= wheel.current_tick)
         \/ Pend(f, k)
  BY <1>1, <1>2 DEF Poll, PollSleep, PollTimeout
<1>4. QED
  BY <1>3 DEF Resolve, Pend

\* A poll, and the signal it owes the driver.
LEMMA PollOnceStep ==
  ASSUME MultiLevel, DriverInv, NEW f \in Futures, NEW k \in Wakers, PollOnce(f, k)
  PROVE  DriverInv'
<1>1. /\ Poll(f, k)
      /\ notifying' = IF ~registered[f] /\ registered'[f] THEN notifying \cup {f} ELSE notifying
      /\ IF status'[f] = "done"
         THEN /\ shortfall' = [shortfall EXCEPT ![f] = promised[f] - Lesser(promised[f], clock)]
              /\ promised' = [promised EXCEPT ![f] = 0]
         ELSE UNCHANGED <<promised, shortfall>>
      /\ UNCHANGED <<clock, dpc, cap, wakeAt, attempt, failed>>
  BY DEF PollOnce, retryVars
<1>2. Inv' /\ wheel'.current_tick = wheel.current_tick
  BY <1>1, PollStep DEF DriverInv
<1>3. /\ status[f] = "live" /\ deadline' = deadline
      /\ \/ status' = status
         \/ /\ status' = [status EXCEPT ![f] = "done"]
            /\ f \in Sleeps => deadline[f] <= wheel.current_tick
  BY <1>1, PollEffect DEF DriverInv
<1>4. status \in [Futures -> Statuses] /\ deadline \in [Futures -> Nat] /\ wheel.current_tick \in Nat
  BY InvParts DEF DriverInv, Inv, TypeOK
<1>5. /\ promised \in [Futures -> 0..MaxTick] /\ shortfall \in [Futures -> 0..MaxTick]
      /\ clock \in Nat /\ wheel.current_tick <= clock /\ CAP \in Nat /\ MaxTick \in Nat
      /\ promised[f] \in Nat
  BY DriverConstants DEF DriverInv, LoopTypes, Lag
<1>6. LoopTypes'
  <2>1. notifying' \in SUBSET Futures
    BY <1>1 DEF DriverInv, LoopTypes
  <2>2. promised' \in [Futures -> 0..MaxTick] /\ shortfall' \in [Futures -> 0..MaxTick]
    <3>1. promised[f] - Lesser(promised[f], clock) \in 0..MaxTick /\ 0 \in 0..MaxTick
      BY <1>5 DEF Lesser
    <3>2. QED
      BY <1>1, <1>5, <3>1
  <2>3. QED
    BY <1>1, <2>1, <2>2 DEF DriverInv, LoopTypes
<1>7. RetryTypes' /\ Lag'
  BY <1>1, <1>2 DEF DriverInv, RetryTypes, Lag
<1>8. Promises'
  <2> SUFFICES ASSUME NEW g \in Sleeps
               PROVE  /\ status'[g] = "live" => promised'[g] <= deadline'[g] + CAP
                      /\ status'[g] = "done" => shortfall'[g] <= CAP
    BY DEF Promises
  <2>1. /\ g \in Futures
        /\ status[g] = "live" => promised[g] <= deadline[g] + CAP
        /\ status[g] = "done" => shortfall[g] <= CAP
    BY DriverConstants DEF DriverInv, Promises
  <2>2. CASE g # f
    <3>1. status'[g] = status[g]
      BY <1>3, <1>4, <2>1, <2>2
    <3>2. promised'[g] = promised[g] /\ shortfall'[g] = shortfall[g]
      BY <1>1, <1>5, <2>1, <2>2
    <3>3. QED
      BY <1>3, <2>1, <3>1, <3>2
  <2>3. CASE g = f /\ status' = status
    BY <1>1, <1>3, <2>1, <2>3
  <2>4. CASE g = f /\ status' = [status EXCEPT ![f] = "done"] /\ deadline[f] <= wheel.current_tick
    <3>1. status'[f] = "done"
      BY <1>4, <2>4
    <3>2. shortfall'[f] = promised[f] - Lesser(promised[f], clock)
      BY <1>1, <1>5, <3>1
    <3>3. promised[f] <= deadline[f] + CAP /\ deadline[f] \in Nat
      BY <1>3, <1>4, <2>1, <2>4
    <3>4. promised[f] - Lesser(promised[f], clock) <= CAP
      BY <1>4, <1>5, <2>4, <3>3 DEF Lesser
    <3>5. QED
      BY <2>4, <3>1, <3>2, <3>4
  <2>5. QED
    BY <1>3, <2>2, <2>3, <2>4
<1>9. Backoff'
  <2>1. \A g \in Retrying : g \in Futures /\ (status'[g] = "absent" <=> status[g] = "absent")
    BY <1>3, <1>4, DriverConstants
  <2>2. QED
    BY <1>1, <1>3, <2>1 DEF DriverInv, Backoff
<1>10. QED
  BY <1>2, <1>6, <1>7, <1>8, <1>9 DEF DriverInv

\* A call of sleep or timeout, by a retry loop or by another caller.
LEMMA CallStep ==
  ASSUME DriverInv, NEW f \in Futures, NEW dur \in Nat, MaxClock + dur <= MaxTick, Call(f, dur)
  PROVE  /\ Inv' /\ LoopTypes' /\ Lag' /\ Promises'
         /\ status[f] = "absent" /\ clock' = clock
         /\ status' = [status EXCEPT ![f] = "live"]
         /\ deadline' = [deadline EXCEPT ![f] = wheel.current_tick + dur]
<1> DEFINE d == wheel.current_tick + dur
<1>1. /\ New(f, d)
      /\ promised' = [promised EXCEPT ![f] = clock + dur]
      /\ dpc' = IF dpc = "off" THEN "advance" ELSE dpc
      /\ UNCHANGED <<clock, cap, wakeAt, notifying, shortfall>>
  BY DEF Call
<1>2. /\ wheel.current_tick \in Nat /\ wheel.current_tick <= clock /\ clock <= wheel.current_tick + CAP
      /\ clock \in 0..MaxClock /\ Period \in Nat /\ MaxTick \in Nat /\ MaxClock \in Nat /\ CAP \in Nat
  BY InvParts, DriverConstants DEF DriverInv, LoopTypes, Lag
<1>3. d \in 0..(MaxTick + Period) /\ clock + dur \in 0..MaxTick /\ clock + dur <= d + CAP
  BY <1>2
<1>4. Inv'
  BY <1>1, <1>3, NewStep DEF DriverInv
<1>5. /\ status[f] = "absent" /\ wheel' = wheel
      /\ status' = [status EXCEPT ![f] = "live"]
      /\ deadline' = [deadline EXCEPT ![f] = d]
  BY <1>1 DEF New, Create, FreshEntry
<1>6. LoopTypes'
  BY <1>1, <1>3 DEF DriverInv, LoopTypes
<1>7. Lag'
  BY <1>1, <1>5 DEF DriverInv, LoopTypes, Lag
<1>8. Promises'
  <2> SUFFICES ASSUME NEW g \in Sleeps
               PROVE  /\ status'[g] = "live" => promised'[g] <= deadline'[g] + CAP
                      /\ status'[g] = "done" => shortfall'[g] <= CAP
    BY DEF Promises
  <2>1. /\ g \in Futures
        /\ status[g] = "live" => promised[g] <= deadline[g] + CAP
        /\ status[g] = "done" => shortfall[g] <= CAP
    BY DriverConstants DEF DriverInv, Promises
  <2>2. /\ status \in [Futures -> Statuses] /\ deadline \in [Futures -> Nat]
        /\ promised \in [Futures -> 0..MaxTick]
    BY InvParts DEF DriverInv, Inv, TypeOK, LoopTypes
  <2>3. CASE g = f
    <3>1. status'[g] = "live" /\ promised'[g] = clock + dur /\ deadline'[g] = d
      BY <1>1, <1>5, <2>1, <2>2, <2>3
    <3>2. QED
      BY <1>3, <3>1
  <2>4. CASE g # f
    BY <1>1, <1>5, <2>1, <2>2, <2>4
  <2>5. QED
    BY <2>3, <2>4
<1>9. QED
  BY <1>1, <1>4, <1>5, <1>6, <1>7, <1>8

\* CallFor: not of a retry loop.
LEMMA CallForStep ==
  ASSUME DriverInv, NEW f \in Futures, NEW dur \in Durations, CallFor(f, dur)
  PROVE  DriverInv'
<1>1. f \notin Retrying /\ Call(f, dur) /\ UNCHANGED <<attempt, failed>>
  BY DEF CallFor, retryVars
<1>2. dur \in Nat /\ MaxClock + dur <= MaxTick
  BY DriverConstants
<1>3. /\ Inv' /\ LoopTypes' /\ Lag' /\ Promises' /\ clock' = clock
      /\ status' = [status EXCEPT ![f] = "live"]
      /\ deadline' = [deadline EXCEPT ![f] = wheel.current_tick + dur]
  BY <1>1, <1>2, CallStep
<1>4. RetryTypes'
  BY <1>1 DEF DriverInv, RetryTypes
<1>5. Backoff'
  <2>1. \A g \in Retrying : g \in Futures /\ status'[g] = status[g] /\ deadline'[g] = deadline[g]
    BY <1>1, <1>3, DriverConstants DEF DriverInv, Inv, TypeOK
  <2>2. QED
    BY <1>1, <1>3, <2>1 DEF DriverInv, Backoff
<1>6. QED
  BY <1>3, <1>4, <1>5 DEF DriverInv

\* A future is dropped between two polls.
LEMMA DropIdleStep ==
  ASSUME DriverInv, NEW f \in Futures, DropIdle(f)
  PROVE  /\ Inv' /\ LoopTypes' /\ Lag' /\ Promises' /\ clock' = clock
         /\ status' = [status EXCEPT ![f] = "absent"]
         /\ \A g \in Futures : g # f => deadline'[g] = deadline[g]
<1>1. /\ DropFuture(f)
      /\ promised' = [promised EXCEPT ![f] = 0] /\ shortfall' = [shortfall EXCEPT ![f] = 0]
      /\ UNCHANGED <<clock, dpc, cap, wakeAt, notifying>>
  BY DEF DropIdle
<1>2. Inv' /\ wheel'.current_tick = wheel.current_tick
  BY <1>1, DropStep DEF DriverInv
<1>3. status' = [status EXCEPT ![f] = "absent"] /\ deadline' = [deadline EXCEPT ![f] = 0]
  BY <1>1 DEF DropFuture, FreshEntry
<1>4. /\ status \in [Futures -> Statuses] /\ deadline \in [Futures -> Nat]
      /\ promised \in [Futures -> 0..MaxTick] /\ shortfall \in [Futures -> 0..MaxTick]
      /\ 0 \in 0..MaxTick
  BY InvParts, DriverConstants DEF DriverInv, Inv, TypeOK, LoopTypes
<1>5. LoopTypes'
  BY <1>1, <1>4 DEF DriverInv, LoopTypes
<1>6. Lag'
  BY <1>1, <1>2 DEF DriverInv, Lag
<1>7. Promises'
  <2> SUFFICES ASSUME NEW g \in Sleeps
               PROVE  /\ status'[g] = "live" => promised'[g] <= deadline'[g] + CAP
                      /\ status'[g] = "done" => shortfall'[g] <= CAP
    BY DEF Promises
  <2>1. /\ g \in Futures
        /\ status[g] = "live" => promised[g] <= deadline[g] + CAP
        /\ status[g] = "done" => shortfall[g] <= CAP
    BY DriverConstants DEF DriverInv, Promises
  <2>2. CASE g = f
    BY <1>3, <1>4, <2>1, <2>2
  <2>3. CASE g # f
    BY <1>1, <1>3, <1>4, <2>1, <2>3
  <2>4. QED
    BY <2>2, <2>3
<1>8. QED
  BY <1>1, <1>2, <1>3, <1>4, <1>5, <1>6, <1>7

\* DropBetweenPolls: a retry loop ends with the sleep it awaits.
LEMMA DropBetweenPollsStep ==
  ASSUME DriverInv, NEW f \in Futures, DropBetweenPolls(f)
  PROVE  DriverInv'
<1>1. /\ DropIdle(f)
      /\ attempt' = [g \in Retrying |-> IF g = f THEN 0 ELSE attempt[g]]
      /\ failed' = [g \in Retrying |-> IF g = f THEN 0 ELSE failed[g]]
  BY DEF DropBetweenPolls, EndRetry
<1>2. /\ Inv' /\ LoopTypes' /\ Lag' /\ Promises' /\ clock' = clock
      /\ status' = [status EXCEPT ![f] = "absent"]
      /\ \A g \in Futures : g # f => deadline'[g] = deadline[g]
  BY <1>1, DropIdleStep
<1>3. RetryTypes'
  BY <1>1, DriverConstants DEF DriverInv, RetryTypes
<1>4. Backoff'
  <2> SUFFICES ASSUME NEW g \in Retrying
               PROVE  /\ attempt'[g] <= MaxAttempts \/ attempt'[g] = 1
                      /\ status'[g] # "absent" =>
                           /\ attempt'[g] \in 1..(MaxAttempts - 1)
                           /\ deadline'[g] + CAP >= failed'[g] + DelayFor(attempt'[g])
                      /\ status'[g] = "absent" /\ attempt'[g] > 1 =>
                           clock + CAP >= failed'[g] + DelayFor(attempt'[g] - 1)
    BY <1>2 DEF Backoff
  <2>1. g \in Futures /\ status \in [Futures -> Statuses]
    BY DriverConstants DEF DriverInv, Inv, TypeOK
  <2>2. CASE g = f
    <3>1. attempt'[g] = 0 /\ status'[g] = "absent"
      BY <1>1, <1>2, <2>1, <2>2
    <3>2. QED
      BY <3>1, DriverConstants
  <2>3. CASE g # f
    <3>1. /\ attempt'[g] = attempt[g] /\ failed'[g] = failed[g]
          /\ status'[g] = status[g] /\ deadline'[g] = deadline[g]
      BY <1>1, <1>2, <2>1, <2>3
    <3>2. QED
      BY <3>1 DEF DriverInv, Backoff
  <2>4. QED
    BY <2>2, <2>3
<1>5. QED
  BY <1>2, <1>3, <1>4 DEF DriverInv

\* A step of a retry loop that touches no future: its operation is called for
\* the first time, or the loop ends.
LEMMA AttemptsStep ==
  ASSUME DriverInv, UNCHANGED <<vars, loopVars>>, NEW f \in Retrying, status[f] = "absent",
         RetryTypes', attempt'[f] \in {0, 1},
         \A g \in Retrying : g # f => attempt'[g] = attempt[g] /\ failed'[g] = failed[g]
  PROVE  DriverInv'
<1>1. /\ UNCHANGED <<wheel, deadline, waker, registered, status, inner, owed, start, ticks>>
      /\ UNCHANGED <<clock, dpc, cap, wakeAt, notifying, promised, shortfall>>
  BY DEF vars, loopVars
<1>2. Inv' /\ LoopTypes' /\ Lag' /\ Promises'
  BY <1>1 DEF DriverInv, Inv, TypeOK, Linked, Armed, Spent, Paced, LoopTypes, Lag, Promises
<1>3. Backoff'
  <2> SUFFICES ASSUME NEW g \in Retrying
               PROVE  /\ attempt'[g] <= MaxAttempts \/ attempt'[g] = 1
                      /\ status[g] # "absent" =>
                           /\ attempt'[g] \in 1..(MaxAttempts - 1)
                           /\ deadline[g] + CAP >= failed'[g] + DelayFor(attempt'[g])
                      /\ status[g] = "absent" /\ attempt'[g] > 1 =>
                           clock + CAP >= failed'[g] + DelayFor(attempt'[g] - 1)
    BY <1>1 DEF Backoff
  <2>1. CASE g = f
    BY <2>1, DriverConstants
  <2>2. CASE g # f
    BY <2>2 DEF DriverInv, Backoff
  <2>3. QED
    BY <2>1, <2>2
<1>4. QED
  BY <1>2, <1>3 DEF DriverInv

\* retry is called.
LEMMA RetryStartStep ==
  ASSUME DriverInv, NEW f \in Futures, Retry(f)
  PROVE  DriverInv'
<1>1. /\ f \in Retrying /\ status[f] = "absent" /\ attempt' = [attempt EXCEPT ![f] = 1]
      /\ UNCHANGED <<vars, loopVars>> /\ failed' = failed
  BY DEF Retry
<1>2. attempt \in [Retrying -> Nat] /\ failed \in [Retrying -> 0..MaxClock]
  BY DEF DriverInv, RetryTypes
<1>3. RetryTypes' /\ attempt'[f] \in {0, 1}
      /\ \A g \in Retrying : g # f => attempt'[g] = attempt[g] /\ failed'[g] = failed[g]
  BY <1>1, <1>2 DEF RetryTypes
<1>4. QED
  BY <1>1, <1>3, AttemptsStep

\* The operation returns Ok, or its last error is returned.
LEMMA RetryEndStep ==
  ASSUME DriverInv, NEW f \in Futures, InOperation(f), EndRetry(f), UNCHANGED <<vars, loopVars>>
  PROVE  DriverInv'
<1>1. /\ f \in Retrying /\ status[f] = "absent"
      /\ attempt' = [g \in Retrying |-> IF g = f THEN 0 ELSE attempt[g]]
      /\ failed' = [g \in Retrying |-> IF g = f THEN 0 ELSE failed[g]]
  BY DEF InOperation, EndRetry
<1>2. attempt \in [Retrying -> Nat] /\ failed \in [Retrying -> 0..MaxClock] /\ 0 \in 0..MaxClock
  BY DriverConstants DEF DriverInv, RetryTypes
<1>3. RetryTypes' /\ attempt'[f] \in {0, 1}
      /\ \A g \in Retrying : g # f => attempt'[g] = attempt[g] /\ failed'[g] = failed[g]
  BY <1>1, <1>2 DEF RetryTypes
<1>4. QED
  BY <1>1, <1>3, AttemptsStep

\* An attempt fails and is not the last: the loop sleeps for the delay.
LEMMA AttemptErrStep ==
  ASSUME DriverInv, NEW f \in Futures, AttemptErr(f)
  PROVE  DriverInv'
<1>1. CASE attempt[f] >= MaxAttempts /\ EndRetry(f) /\ UNCHANGED <<vars, loopVars>>
  BY <1>1, RetryEndStep DEF AttemptErr
<1>2. CASE /\ attempt[f] < MaxAttempts
           /\ Call(f, DelayFor(attempt[f]))
           /\ failed' = [failed EXCEPT ![f] = clock]
           /\ UNCHANGED attempt
  <2> DEFINE n == attempt[f]
             dur == DelayFor(n)
  <2>1. /\ f \in Retrying /\ n \in Nat /\ n > 0 /\ n < MaxAttempts
        /\ attempt \in [Retrying -> Nat] /\ failed \in [Retrying -> 0..MaxClock]
    BY <1>2 DEF AttemptErr, InOperation, DriverInv, RetryTypes
  <2>2. n \in 1..(MaxAttempts - 1) /\ n \in 1..MaxAttempts
    BY <2>1, DriverConstants
  <2>3. dur \in 0..MaxDelay
    BY <2>2, DelayBounds
  <2>4. dur \in Nat /\ MaxClock + dur <= MaxTick
    <3> HIDE DEF dur
    <3> QED BY <2>3, DriverConstants
  <2>5. /\ Inv' /\ LoopTypes' /\ Lag' /\ Promises' /\ clock' = clock
        /\ status' = [status EXCEPT ![f] = "live"]
        /\ deadline' = [deadline EXCEPT ![f] = wheel.current_tick + dur]
    <3>1. Call(f, dur)
      BY <1>2
    <3> HIDE DEF dur
    <3>2. QED
      BY <2>4, <3>1, CallStep
  <2>6. RetryTypes'
    <3>1. clock \in 0..MaxClock
      BY DEF DriverInv, LoopTypes
    <3>2. QED
      BY <1>2, <2>1, <3>1 DEF RetryTypes
  <2>7. Backoff'
    <3> SUFFICES ASSUME NEW g \in Retrying
                 PROVE  /\ attempt[g] <= MaxAttempts \/ attempt[g] = 1
                        /\ status'[g] # "absent" =>
                             /\ attempt[g] \in 1..(MaxAttempts - 1)
                             /\ deadline'[g] + CAP >= failed'[g] + DelayFor(attempt[g])
                        /\ status'[g] = "absent" /\ attempt[g] > 1 =>
                             clock + CAP >= failed'[g] + DelayFor(attempt[g] - 1)
      BY <1>2, <2>5 DEF Backoff
    <3>1. g \in Futures /\ status \in [Futures -> Statuses] /\ deadline \in [Futures -> Nat]
      BY InvParts, DriverConstants DEF DriverInv, Inv, TypeOK
    <3>2. CASE g = f
      <4>1. status'[g] = "live" /\ deadline'[g] = wheel.current_tick + dur /\ failed'[g] = clock
        BY <1>2, <2>1, <2>5, <3>1, <3>2
      <4>2. wheel.current_tick \in Nat /\ clock \in Nat /\ clock <= wheel.current_tick + CAP /\ CAP \in Nat
        BY InvParts, DriverConstants DEF DriverInv, LoopTypes, Lag
      <4>3. deadline'[g] + CAP >= failed'[g] + dur
        <5> HIDE DEF dur
        <5> QED BY <2>4, <4>1, <4>2
      <4>4. QED
        BY <2>1, <2>2, <3>2, <4>1, <4>3
    <3>3. CASE g # f
      <4>1. status'[g] = status[g] /\ deadline'[g] = deadline[g] /\ failed'[g] = failed[g]
        BY <1>2, <2>1, <2>5, <3>1, <3>3
      <4>2. QED
        BY <4>1 DEF DriverInv, Backoff
    <3>4. QED
      BY <3>2, <3>3
  <2>8. QED
    BY <2>5, <2>6, <2>7 DEF DriverInv
<1>3. QED
  BY <1>1, <1>2 DEF AttemptErr

\* The sleep is over and the operation called again.
LEMMA RetryAgainStep ==
  ASSUME DriverInv, NEW f \in Futures, RetryAgain(f)
  PROVE  DriverInv'
<1>1. /\ f \in Retrying /\ status[f] = "done" /\ DropIdle(f)
      /\ attempt' = [attempt EXCEPT ![f] = @ + 1] /\ failed' = failed
  BY DEF RetryAgain
<1>2. /\ Inv' /\ LoopTypes' /\ Lag' /\ Promises' /\ clock' = clock
      /\ status' = [status EXCEPT ![f] = "absent"]
      /\ \A g \in Futures : g # f => deadline'[g] = deadline[g]
  BY <1>1, DropIdleStep
<1>3. /\ attempt \in [Retrying -> Nat] /\ failed \in [Retrying -> 0..MaxClock]
      /\ attempt' \in [Retrying -> Nat]
  BY <1>1 DEF DriverInv, RetryTypes
<1>4. RetryTypes'
  BY <1>1, <1>3 DEF RetryTypes
<1>5. Backoff'
  <2> SUFFICES ASSUME NEW g \in Retrying
               PROVE  /\ attempt'[g] <= MaxAttempts \/ attempt'[g] = 1
                      /\ status'[g] # "absent" =>
                           /\ attempt'[g] \in 1..(MaxAttempts - 1)
                           /\ deadline'[g] + CAP >= failed[g] + DelayFor(attempt'[g])
                      /\ status'[g] = "absent" /\ attempt'[g] > 1 =>
                           clock + CAP >= failed[g] + DelayFor(attempt'[g] - 1)
    BY <1>1, <1>2 DEF Backoff
  <2>1. g \in Futures /\ status \in [Futures -> Statuses] /\ deadline \in [Futures -> Nat]
    BY InvParts, DriverConstants DEF DriverInv, Inv, TypeOK
  <2>2. CASE g = f
    <3> DEFINE n == attempt[f]
    <3>1. status'[g] = "absent" /\ attempt'[g] = n + 1 /\ n \in Nat /\ (n + 1) - 1 = n
      BY <1>1, <1>2, <1>3, <2>1, <2>2
    <3>2. n \in 1..(MaxAttempts - 1) /\ deadline[f] + CAP >= failed[f] + DelayFor(n)
      BY <1>1 DEF DriverInv, Backoff
    <3>3. deadline[f] <= wheel.current_tick /\ wheel.current_tick <= clock
      BY <1>1, DriverConstants DEF DriverInv, Inv, Spent, Lag
    <3>4. n \in 1..MaxAttempts /\ n + 1 <= MaxAttempts
      BY <3>2, DriverConstants
    <3>5. /\ DelayFor(n) \in Nat /\ deadline[f] \in Nat /\ failed[f] \in Nat /\ clock \in Nat
          /\ wheel.current_tick \in Nat /\ CAP \in Nat
      <4>1. DelayFor(n) \in 0..MaxDelay
        BY <3>4, DelayBounds
      <4> HIDE DEF n
      <4>2. QED
        BY <1>1, <1>3, <2>1, <2>2, <4>1, InvParts, DriverConstants DEF DriverInv, LoopTypes
    <3>6. clock + CAP >= failed[f] + DelayFor(n)
      <4> DEFINE x == DelayFor(n)
      <4>1. x = DelayFor(n)
        OBVIOUS
      <4> HIDE DEF x
      <4>2. clock + CAP >= failed[f] + x
        BY <3>2, <3>3, <3>5, <4>1
      <4>3. QED
        BY <4>1, <4>2
    <3> HIDE DEF n
    <3>7. QED
      BY <2>2, <3>1, <3>4, <3>6
  <2>3. CASE g # f
    <3>1. attempt'[g] = attempt[g] /\ status'[g] = status[g] /\ deadline'[g] = deadline[g]
      BY <1>1, <1>2, <1>3, <2>1, <2>3
    <3>2. QED
      BY <3>1 DEF DriverInv, Backoff
  <2>4. QED
    BY <2>2, <2>3
<1>6. QED
  BY <1>2, <1>4, <1>5 DEF DriverInv

\* Every step of the futures, the driver, the retry loops and the clock keeps
\* the invariant.
LEMMA DriverNextInv ==
  ASSUME MultiLevel, DriverInv, [DriverNext]_allVars
  PROVE  DriverInv'
<1>1. ASSUME NEW f \in Futures, NEW dur \in Durations, CallFor(f, dur) PROVE DriverInv'
  BY <1>1, CallForStep
<1>2. ASSUME NEW f \in Futures, NEW k \in Wakers, PollOnce(f, k) PROVE DriverInv'
  BY <1>2, PollOnceStep
<1>3. ASSUME NEW f \in Futures, OnRegistration(f) \/ CompleteInner(f) \/ DropBetweenPolls(f)
      PROVE  DriverInv'
  BY <1>3, OnRegistrationStep, CompleteInnerStep, DropBetweenPollsStep
<1>4. ASSUME NEW f \in Futures, RetryStep(f) PROVE DriverInv'
  <2>1. CASE Retry(f)
    BY <2>1, RetryStartStep
  <2>2. CASE AttemptErr(f)
    BY <2>2, AttemptErrStep
  <2>3. CASE RetryAgain(f)
    BY <2>3, RetryAgainStep
  <2>4. CASE AttemptOk(f)
    BY <2>4, RetryEndStep DEF AttemptOk
  <2>5. QED
    BY <1>4, <2>1, <2>2, <2>3, <2>4 DEF RetryStep
<1>5. CASE DriverLoop \/ TimePasses
  BY <1>5, CatchUpStep, ParkSteps DEF DriverLoop
<1>6. CASE UNCHANGED allVars
  <2>1. /\ UNCHANGED <<wheel, deadline, waker, registered, status, inner, owed, start, ticks>>
        /\ UNCHANGED <<clock, dpc, cap, wakeAt, notifying, promised, shortfall, attempt, failed>>
    BY <1>6 DEF allVars, vars, driverVars, loopVars, retryVars
  <2>2. QED
    BY <2>1 DEF DriverInv, Inv, TypeOK, Linked, Armed, Spent, Paced, LoopTypes, RetryTypes, Lag,
                Promises, Backoff
<1>7. QED
  BY <1>1, <1>2, <1>3, <1>4, <1>5, <1>6 DEF DriverNext

\* What the invariant says of the properties.
LEMMA DriverProperties ==
  ASSUME DriverInv
  PROVE  LateByLessThanCap /\ EarlyByAtMostCap /\ RetryWaits
<1>1. LateByLessThanCap
  <2> SUFFICES ASSUME NEW f \in Registered(wheel) PROVE clock < deadline[f] + CAP
    BY DEF LateByLessThanCap
  <2>1. /\ f \in Futures /\ deadline[f] \in Nat /\ deadline[f] > wheel.current_tick
        /\ wheel.current_tick \in Nat
    BY InvParts DEF DriverInv
  <2>2. QED
    BY <2>1, DriverConstants DEF DriverInv, LoopTypes, Lag
<1>2. EarlyByAtMostCap
  BY DEF DriverInv, Inv, LoopTypes, RetryTypes, DriverTypeOK, Lag, Promises, EarlyByAtMostCap
<1>3. RetryWaits
  BY DEF DriverInv, Backoff, RetryWaits, InOperation
<1>4. QED
  BY <1>1, <1>2, <1>3

\* A registered timer is never a whole park late, whatever signals the driver
\* missed and whatever next_deadline failed to see.
THEOREM DueTimersFireInTime == MultiLevel => (DriverSpec => []LateByLessThanCap)
<1> SUFFICES ASSUME MultiLevel PROVE DriverSpec => []LateByLessThanCap
  OBVIOUS
<1>1. QED
  BY DriverInitInv, DriverNextInv, DriverProperties, PTL DEF DriverSpec

\* The wheel is never more than one park behind real time, and a sleep ends
\* early by no more than that.
THEOREM SleepsAreLongEnough == MultiLevel => (DriverSpec => []EarlyByAtMostCap)
<1> SUFFICES ASSUME MultiLevel PROVE DriverSpec => []EarlyByAtMostCap
  OBVIOUS
<1>1. QED
  BY DriverInitInv, DriverNextInv, DriverProperties, PTL DEF DriverSpec

\* A retry loop makes at most max_attempts attempts and keeps the policy's
\* delay between two of them, less one park.
THEOREM RetriesKeepPolicy == MultiLevel => (DriverSpec => []RetryWaits)
<1> SUFFICES ASSUME MultiLevel PROVE DriverSpec => []RetryWaits
  OBVIOUS
<1>1. QED
  BY DriverInitInv, DriverNextInv, DriverProperties, PTL DEF DriverSpec
====
