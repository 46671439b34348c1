----------------------------- MODULE WheelProofs ----------------------------
(***************************************************************************)
(* Theorems about the timer wheel (TimerWheel.tla, operators of Wheel.tla):*)
(* in a wheel of at least two levels the count is exact, no entry is       *)
(* linked twice, and every entry fires on precisely the tick that reaches  *)
(* its deadline, whatever cascades it went through.                        *)
(*                                                                         *)
(* The argument has three layers.  Tidy says what the lists are (typed, no *)
(* entry twice, the count right) and is kept by link, detach and remove.   *)
(* Standing says where an entry is: it Waits in a slot that the wheel      *)
(* visits after the current tick and not after its deadline, or it is      *)
(* Overdue in the slot that the next tick drains.  During a tick Standing  *)
(* does not hold; Cascading(k) does: the entries that the tick has reached *)
(* are in the slot it drains or in the slot of a level above k that it     *)
(* cascades.  The loops (relinking a list, the levels, the ticks of a      *)
(* catch-up) are recursive functions: ProofBasics!Recursion says that they *)
(* are defined, ProofBasics!SetInduction follows them.                     *)
(***************************************************************************)
EXTENDS TimerWheel, ProofBasics, FiniteSetTheorems, FunctionTheorems

-----------------------------------------------------------------------------
(* Division. *)

\* The quotient grows by one exactly when the next number is a multiple.
LEMMA DivNext ==
  ASSUME NEW a \in Nat, NEW b \in Nat \ {0}
  PROVE  /\ (a + 1) % b = 0 => (a + 1) \div b = a \div b + 1
         /\ (a + 1) % b # 0 => (a + 1) \div b = a \div b
OBVIOUS

\* At least one divisor further is at least one quotient further.
LEMMA DivAhead ==
  ASSUME NEW a \in Nat, NEW d \in Nat, NEW b \in Nat \ {0}, d >= a + b
  PROVE  d \div b > a \div b
OBVIOUS

\* A larger quotient is a larger number, and no number is before the multiple
\* it was rounded down to.
LEMMA DivOrder ==
  ASSUME NEW a \in Nat, NEW d \in Nat, NEW b \in Nat \ {0}
  PROVE  /\ d \div b > a \div b => d > a
         /\ d \div b > a \div b <=> (d \div b) * b > a
         /\ a % b = 0 /\ d \div b = a \div b => d >= a
<1> DEFINE p == a \div b
           q == d \div b
           r == a % b
           t == d % b
<1>1. a = b * p + r /\ r \in 0..(b - 1) /\ p \in Nat
  BY DivMod
<1>2. d = b * q + t /\ t \in 0..(b - 1) /\ q \in Nat
  BY DivMod
<1> HIDE DEF p, q, r, t
<1>3. CASE q > p
  <2>1. b * q >= b * (p + 1)
    BY <1>1, <1>2, <1>3
  <2>2. b * (p + 1) = b * p + b /\ b * p \in Nat /\ b * q \in Nat /\ b * q = q * b
    BY <1>1, <1>2
  <2>3. QED
    BY <1>1, <1>2, <1>3, <2>1, <2>2 DEF p, q, r
<1>4. CASE q <= p
  <2>1. b * q <= b * p
    BY <1>1, <1>2, <1>4
  <2>2. b * q = q * b /\ b * p \in Nat /\ b * q \in Nat
    BY <1>1, <1>2
  <2>3. ~(q * b > a)
    BY <1>1, <1>2, <2>1, <2>2
  <2>4. r = 0 /\ q = p => d >= a
    BY <1>1, <1>2
  <2>5. QED
    BY <1>4, <2>3, <2>4, <1>1, <1>2 DEF p, q, r
<1>5. QED
  BY <1>1, <1>2, <1>3, <1>4

\* Two numbers less than one divisor apart with the same remainder are equal.
LEMMA ModClose ==
  ASSUME NEW a \in Nat, NEW d \in Nat, NEW b \in Nat \ {0}, d >= a, d < a + b, d % b = a % b
  PROVE  d = a
<1> DEFINE p == a \div b
           q == d \div b
           r == a % b
<1>1. a = b * p + r /\ r \in 0..(b - 1) /\ p \in Nat
  BY DivMod
<1>2. d = b * q + r /\ q \in Nat
  BY DivMod
<1> HIDE DEF p, q, r
<1>3. q = p
  <2>1. CASE q > p
    <3>1. b * q >= b * (p + 1) /\ b * (p + 1) = b * p + b /\ b * p \in Nat /\ b * q \in Nat
      BY <1>1, <1>2, <2>1
    <3>2. QED
      BY <1>1, <1>2, <3>1
  <2>2. CASE q < p
    <3>1. b * p >= b * (q + 1) /\ b * (q + 1) = b * q + b /\ b * p \in Nat /\ b * q \in Nat
      BY <1>1, <1>2, <2>2
    <3>2. QED
      BY <1>1, <1>2, <3>1
  <2>3. QED
    BY <1>1, <1>2, <2>1, <2>2
<1>4. QED
  BY <1>1, <1>2, <1>3

\* Division by one.
LEMMA DivOne ==
  ASSUME NEW a \in Nat
  PROVE  a \div 1 = a
OBVIOUS

-----------------------------------------------------------------------------
\* SLOTS^level is a positive number for every level.
LEMMA Resolutions ==
  /\ Resolution[0] = 1
  /\ \A l \in 1..LEVELS : Resolution[l] = SLOTS * Resolution[l - 1]
  /\ \A l \in 0..LEVELS : Resolution[l] \in Nat \ {0}
<1> DEFINE P == Nat \ {0}
<1>1. /\ SLOTS \in P /\ LEVELS \in Nat /\ 1 \in P
      /\ \A x, y \in P : x * y \in P
  BY WheelAssumption
<1>2. Resolution = CHOOSE g : g = [l \in 0..LEVELS |-> IF l = 0 THEN 1 ELSE SLOTS * g[l - 1]]
  BY DEF Resolution
<1>3. /\ Resolution[0] = 1
      /\ \A l \in 1..LEVELS : Resolution[l] = SLOTS * Resolution[l - 1]
      /\ \A l \in 0..LEVELS : Resolution[l] \in P
  <2> HIDE DEF P
  <2> QED BY <1>1, <1>2, Powers
<1>4. QED
  BY <1>3

\* choose_slot's loop ends at a level that fits.
LEMMA LevelFits ==
  ASSUME NEW delta \in Nat
  PROVE  /\ LevelFor(delta) \in Levels
         /\ LevelFor(delta) > 0 => delta >= Resolution[LevelFor(delta)]
         /\ LevelFor(delta) + 1 < LEVELS => delta < Resolution[LevelFor(delta) + 1]
<1> DEFINE fits(l) == /\ l > 0 => delta >= Resolution[l]
                      /\ l + 1 < LEVELS => delta < Resolution[l + 1]
           T == {l \in Levels : l + 1 < LEVELS => delta < Resolution[l + 1]}
<1>1. LEVELS - 1 \in T /\ T \subseteq Nat
  BY WheelAssumption DEF Levels
<1>2. PICK l \in T : \A m \in T : l <= m
  <2> HIDE DEF T
  <2> QED BY <1>1, LeastNumber
<1>3. l > 0 => delta >= Resolution[l]
  <2> SUFFICES ASSUME l > 0 PROVE delta >= Resolution[l]
    OBVIOUS
  <2>1. l - 1 \in Levels /\ l \in 0..LEVELS /\ l - 1 \notin T /\ (l - 1) + 1 = l
    BY <1>2, WheelAssumption DEF Levels
  <2>2. ~(delta < Resolution[l])
    BY <2>1
  <2>3. Resolution[l] \in Nat
    BY <2>1, Resolutions
  <2>4. QED
    BY <2>2, <2>3
<1>4. l \in Levels /\ fits(l)
  BY <1>2, <1>3
<1>5. LevelFor(delta) = CHOOSE m \in Levels : fits(m)
  BY DEF LevelFor
<1> HIDE DEF fits
<1>6. LevelFor(delta) \in Levels /\ fits(LevelFor(delta))
  BY <1>4, <1>5
<1>7. QED
  BY <1>6 DEF fits

-----------------------------------------------------------------------------
\* The values the wheel's mutex can guard, and the deadlines of the entries.
WheelValues ==
  [heads : [Levels -> [Slots -> Seq(Entries)]], current_tick : Nat, pending : Int]
DeadlineMaps == [Entries -> Nat]

\* The parts of a wheel.
LEMMA Parts ==
  ASSUME NEW w \in WheelValues
  PROVE  /\ w.current_tick \in Nat /\ w.pending \in Int
         /\ \A l \in Levels, s \in Slots : w.heads[l][s] \in Seq(Entries)
BY DEF WheelValues

\* v is w with the list of slot s of level l replaced by `list` and the count
\* by `count`.
Relisted(v, w, l, s, list, count) ==
  /\ v \in WheelValues
  /\ v.current_tick = w.current_tick
  /\ v.pending = count
  /\ v.heads[l][s] = list
  /\ \A m \in Levels, t \in Slots : m # l \/ t # s => v.heads[m][t] = w.heads[m][t]

\* Replacing one list.
LEMMA Relist ==
  ASSUME NEW w \in WheelValues, NEW l \in Levels, NEW s \in Slots, NEW list \in Seq(Entries),
         NEW count \in Int
  PROVE  Relisted([w EXCEPT !.heads[l][s] = list, !.pending = count], w, l, s, list, count)
<1> DEFINE h == [w.heads EXCEPT ![l][s] = list]
           v == [w EXCEPT !.heads[l][s] = list, !.pending = count]
<1>1. w.heads \in [Levels -> [Slots -> Seq(Entries)]] /\ w.current_tick \in Nat
  BY DEF WheelValues
<1>2. h \in [Levels -> [Slots -> Seq(Entries)]]
  BY <1>1
<1>3. h[l][s] = list /\ \A m \in Levels, t \in Slots : m # l \/ t # s => h[m][t] = w.heads[m][t]
  BY <1>1
<1>4. v = [w EXCEPT !.heads = h, !.pending = count]
  BY DEF WheelValues
<1> HIDE DEF h, v
<1>5. v \in WheelValues /\ v.heads = h /\ v.current_tick = w.current_tick /\ v.pending = count
  BY <1>1, <1>2, <1>4 DEF WheelValues
<1>6. Relisted(v, w, l, s, list, count)
  BY <1>3, <1>5 DEF Relisted
<1>7. QED
  BY <1>6 DEF v

\* link puts the entry in front and counts it.
LEMMA LinkRelists ==
  ASSUME NEW w \in WheelValues, NEW l \in Levels, NEW s \in Slots, NEW e \in Entries
  PROVE  Relisted(Link(w, <<l, s>>, e), w, l, s, <<e>> \o w.heads[l][s], w.pending + 1)
<1> DEFINE list == <<e>> \o w.heads[l][s]
<1>1. list \in Seq(Entries) /\ w.pending + 1 \in Int
  <2>1. w.heads[l][s] \in Seq(Entries) /\ w.pending \in Int /\ <<e>> \in Seq(Entries)
    BY Parts
  <2>2. QED
    BY <2>1, ConcatElements
<1>2. Link(w, <<l, s>>, e) = [w EXCEPT !.heads[l][s] = list, !.pending = w.pending + 1]
  BY DEF Link, WheelValues
<1> HIDE DEF list
<1>3. Relisted([w EXCEPT !.heads[l][s] = list, !.pending = w.pending + 1], w, l, s, list, w.pending + 1)
  BY <1>1, Relist
<1>4. QED
  BY <1>2, <1>3 DEF list

\* Detaching empties the slot.
LEMMA DetachRelists ==
  ASSUME NEW w \in WheelValues, NEW l \in Levels, NEW s \in Slots
  PROVE  Relisted(Detach(w, l, s), w, l, s, <<>>, w.pending - Len(w.heads[l][s]))
<1> DEFINE count == w.pending - Len(w.heads[l][s])
<1>1. <<>> \in Seq(Entries) /\ count \in Int
  BY Parts
<1>2. Detach(w, l, s) = [w EXCEPT !.heads[l][s] = <<>>, !.pending = count]
  BY DEF Detach, WheelValues
<1> HIDE DEF count
<1>3. Relisted([w EXCEPT !.heads[l][s] = <<>>, !.pending = count], w, l, s, <<>>, count)
  BY <1>1, Relist
<1>4. QED
  BY <1>2, <1>3 DEF count

-----------------------------------------------------------------------------
\* No entry is linked twice.
Once(w) ==
  \A l, m \in Levels, s, t \in Slots :
    \A i \in DOMAIN w.heads[l][s], j \in DOMAIN w.heads[m][t] :
      w.heads[l][s][i] = w.heads[m][t][j] => l = m /\ s = t /\ i = j

\* A wheel whose lists share no entry and whose count is right.
Tidy(w) ==
  /\ w \in WheelValues
  /\ Once(w)
  /\ w.pending = Cardinality(Registered(w))

\* The registered entries are those linked somewhere; they are finitely many.
LEMMA RegisteredIs ==
  ASSUME NEW w \in WheelValues
  PROVE  /\ \A x : x \in Registered(w) <=> \E l \in Levels, s \in Slots : LinkedAt(w, x, l, s)
         /\ Registered(w) \subseteq Entries
         /\ IsFiniteSet(Registered(w))
         /\ Cardinality(Registered(w)) \in Nat
<1>1. \A x : x \in Registered(w) <=> \E l \in Levels, s \in Slots : LinkedAt(w, x, l, s)
  BY DEF Registered, LinkedAt
<1>2. Registered(w) \subseteq Entries
  <2> SUFFICES ASSUME NEW x \in Registered(w) PROVE x \in Entries
    OBVIOUS
  <2>1. PICK l \in Levels, s \in Slots : x \in ToSet(w.heads[l][s])
    BY <1>1 DEF LinkedAt
  <2>2. PICK i \in DOMAIN w.heads[l][s] : x = w.heads[l][s][i]
    BY <2>1 DEF ToSet
  <2>3. w.heads[l][s] \in Seq(Entries)
    BY Parts
  <2>4. QED
    BY <2>2, <2>3, SeqElement
<1>3. IsFiniteSet(Registered(w))
  BY <1>2, TimerWheelAssumption, FS_Subset
<1>4. Cardinality(Registered(w)) \in Nat
  BY <1>3, FS_CardinalityType
<1>5. QED
  BY <1>1, <1>2, <1>3, <1>4

\* Which entries are linked where after one list was replaced.
LEMMA RelistedLinks ==
  ASSUME NEW v, NEW w, NEW l \in Levels, NEW s \in Slots, NEW list, NEW count,
         Relisted(v, w, l, s, list, count)
  PROVE  \A x : \A m \in Levels, t \in Slots :
           LinkedAt(v, x, m, t) <=> IF m = l /\ t = s THEN x \in ToSet(list) ELSE LinkedAt(w, x, m, t)
BY DEF Relisted, LinkedAt

\* The new list has no entry twice and none of another slot.
LEMMA RelistedOnce ==
  ASSUME NEW v, NEW w, NEW l \in Levels, NEW s \in Slots, NEW list, NEW count,
         Relisted(v, w, l, s, list, count), Once(w), IsInjective(list),
         \A x \in ToSet(list) : \A m \in Levels, t \in Slots :
           LinkedAt(w, x, m, t) => m = l /\ t = s
  PROVE  Once(v)
<1> SUFFICES ASSUME NEW m \in Levels, NEW n \in Levels, NEW t \in Slots, NEW u \in Slots,
                    NEW i \in DOMAIN v.heads[m][t], NEW j \in DOMAIN v.heads[n][u],
                    v.heads[m][t][i] = v.heads[n][u][j]
             PROVE  m = n /\ t = u /\ i = j
  BY DEF Once
<1>1. \A a \in Levels, b \in Slots : a # l \/ b # s => v.heads[a][b] = w.heads[a][b]
  BY DEF Relisted
<1>2. v.heads[l][s] = list
  BY DEF Relisted
<1>3. ASSUME NEW a \in Levels, NEW b \in Slots, a # l \/ b # s, NEW k \in DOMAIN w.heads[a][b]
      PROVE  w.heads[a][b][k] \notin ToSet(list)
  <2>1. LinkedAt(w, w.heads[a][b][k], a, b)
    BY DEF LinkedAt, ToSet
  <2>2. QED
    BY <1>3, <2>1
<1>4. CASE m = l /\ t = s /\ n = l /\ u = s
  BY <1>2, <1>4 DEF IsInjective
<1>5. CASE m = l /\ t = s /\ (n # l \/ u # s)
  BY <1>1, <1>2, <1>3, <1>5 DEF ToSet
<1>6. CASE (m # l \/ t # s) /\ n = l /\ u = s
  BY <1>1, <1>2, <1>3, <1>6 DEF ToSet
<1>7. CASE (m # l \/ t # s) /\ (n # l \/ u # s)
  BY <1>1, <1>7 DEF Once
<1>8. QED
  BY <1>4, <1>5, <1>6, <1>7

\* link keeps a wheel tidy and adds the one entry.
LEMMA LinkTidy ==
  ASSUME NEW w, Tidy(w), NEW l \in Levels, NEW s \in Slots, NEW e \in Entries, e \notin Registered(w),
         NEW v, v = Link(w, <<l, s>>, e)
  PROVE  /\ Tidy(v)
         /\ v.current_tick = w.current_tick
         /\ Registered(v) = Registered(w) \cup {e}
         /\ \A x : \A m \in Levels, t \in Slots :
              LinkedAt(v, x, m, t) <=> LinkedAt(w, x, m, t) \/ (x = e /\ m = l /\ t = s)
<1> DEFINE old == w.heads[l][s]
           list == <<e>> \o old
<1>1. w \in WheelValues /\ Once(w) /\ w.pending = Cardinality(Registered(w))
  BY DEF Tidy
<1>2. Relisted(v, w, l, s, list, w.pending + 1)
  BY <1>1, LinkRelists
<1>3. old \in Seq(Entries)
  BY <1>1, Parts
<1> HIDE DEF old
<1>4. /\ Len(list) = Len(old) + 1 /\ DOMAIN list = 1..(Len(old) + 1) /\ DOMAIN old = 1..Len(old)
      /\ list[1] = e /\ Len(old) \in Nat
      /\ \A i \in 1..Len(old) : list[i + 1] = old[i]
  BY <1>3
<1>5. ToSet(list) = ToSet(old) \cup {e}
  <2> HIDE DEF list
  <2>1. \A i \in 1..(Len(old) + 1) : i = 1 \/ (i - 1 \in 1..Len(old) /\ (i - 1) + 1 = i)
    BY <1>4
  <2>2. ASSUME NEW x \in ToSet(list) PROVE x \in ToSet(old) \cup {e}
    <3>1. PICK i \in 1..(Len(old) + 1) : x = list[i]
      BY <1>4 DEF ToSet
    <3>2. CASE i = 1
      BY <1>4, <3>1, <3>2
    <3>3. CASE i # 1
      <4>1. i - 1 \in 1..Len(old) /\ list[i] = old[i - 1]
        BY <1>4, <2>1, <3>3
      <4>2. QED
        BY <1>4, <3>1, <4>1 DEF ToSet
    <3>4. QED
      BY <3>2, <3>3
  <2>3. e \in ToSet(list)
    BY <1>4 DEF ToSet
  <2>4. ASSUME NEW x \in ToSet(old) PROVE x \in ToSet(list)
    <3>1. PICK i \in 1..Len(old) : x = old[i]
      BY <1>4 DEF ToSet
    <3>2. i + 1 \in DOMAIN list /\ list[i + 1] = x
      BY <1>4, <3>1
    <3>3. QED
      BY <3>2 DEF ToSet
  <2>5. QED
    BY <2>2, <2>3, <2>4
<1>6. \A m \in Levels, t \in Slots : ~LinkedAt(w, e, m, t)
  BY <1>1, RegisteredIs
<1>7. e \notin ToSet(old)
  BY <1>6 DEF LinkedAt, old
<1>8. IsInjective(list)
  <2> SUFFICES ASSUME NEW i \in 1..(Len(old) + 1), NEW j \in 1..(Len(old) + 1), list[i] = list[j]
               PROVE  i = j
    BY <1>4 DEF IsInjective
  <2> HIDE DEF list
  <2>1. \A k \in 1..(Len(old) + 1) :
          k = 1 \/ (k - 1 \in 1..Len(old) /\ list[k] = old[k - 1] /\ list[k] \in ToSet(old))
    <3> SUFFICES ASSUME NEW k \in 1..(Len(old) + 1), k # 1
                 PROVE  k - 1 \in 1..Len(old) /\ list[k] = old[k - 1] /\ list[k] \in ToSet(old)
      OBVIOUS
    <3>1. k - 1 \in 1..Len(old) /\ (k - 1) + 1 = k
      BY <1>4
    <3>2. list[k] = old[k - 1]
      BY <1>4, <3>1
    <3>3. QED
      BY <1>4, <3>1, <3>2 DEF ToSet
  <2>2. \A a, b \in 1..Len(old) : old[a] = old[b] => a = b
    <3>1. \A a, b \in DOMAIN w.heads[l][s] : w.heads[l][s][a] = w.heads[l][s][b] => a = b
      BY <1>1 DEF Once
    <3>2. QED
      BY <1>4, <3>1 DEF old
  <2>3. CASE i = 1 \/ j = 1
    BY <1>4, <1>7, <2>1, <2>3
  <2>4. CASE i # 1 /\ j # 1
    <3>1. i - 1 = j - 1
      BY <2>1, <2>2, <2>4
    <3>2. QED
      BY <3>1
  <2>5. QED
    BY <2>3, <2>4
<1>9. \A x : \A m \in Levels, t \in Slots :
        LinkedAt(v, x, m, t) <=> LinkedAt(w, x, m, t) \/ (x = e /\ m = l /\ t = s)
  <2>1. \A x : \A m \in Levels, t \in Slots :
           LinkedAt(v, x, m, t) <=> IF m = l /\ t = s THEN x \in ToSet(list) ELSE LinkedAt(w, x, m, t)
    BY <1>2, RelistedLinks
  <2>2. \A x : LinkedAt(w, x, l, s) <=> x \in ToSet(old)
    BY DEF LinkedAt, old
  <2> HIDE DEF list
  <2>3. QED
    BY <1>5, <2>1, <2>2
<1>10. v \in WheelValues /\ v.current_tick = w.current_tick /\ v.pending = w.pending + 1
  BY <1>2 DEF Relisted
<1>11. Once(v)
  <2>1. ASSUME NEW x \in ToSet(list), NEW m \in Levels, NEW t \in Slots, LinkedAt(w, x, m, t)
        PROVE  m = l /\ t = s
    <3>1. x # e /\ x \in ToSet(old)
      BY <1>5, <1>6, <2>1
    <3>2. PICK i \in DOMAIN w.heads[m][t], j \in DOMAIN w.heads[l][s] : w.heads[m][t][i] = w.heads[l][s][j]
      BY <2>1, <3>1 DEF LinkedAt, ToSet, old
    <3>3. QED
      BY <1>1, <3>2 DEF Once
  <2> HIDE DEF list
  <2>2. QED
    BY <1>1, <1>2, <1>8, <2>1, RelistedOnce
<1>12. Registered(v) = Registered(w) \cup {e}
  <2>1. ASSUME NEW x PROVE x \in Registered(v) <=> x \in Registered(w) \cup {e}
    BY <1>1, <1>9, <1>10, RegisteredIs
  <2>2. QED
    BY <2>1
<1>13. v.pending = Cardinality(Registered(v))
  <2>1. IsFiniteSet(Registered(w)) /\ Cardinality(Registered(w)) \in Nat
    BY <1>1, RegisteredIs
  <2>2. Cardinality(Registered(w) \cup {e}) = Cardinality(Registered(w)) + 1
    BY <2>1, FS_AddElement
  <2>3. QED
    BY <1>1, <1>10, <1>12, <2>2
<1>14. QED
  BY <1>9, <1>10, <1>11, <1>12, <1>13 DEF Tidy

\* A list without repetitions has as many entries as it is long.
LEMMA DistinctCount ==
  ASSUME NEW S, NEW list \in Seq(S), IsInjective(list)
  PROVE  IsFiniteSet(ToSet(list)) /\ Cardinality(ToSet(list)) = Len(list)
<1>1. Len(list) \in Nat /\ DOMAIN list = 1..Len(list) /\ list = [i \in 1..Len(list) |-> list[i]]
  OBVIOUS
<1>2. list \in Bijection(1..Len(list), ToSet(list))
  <2>1. list \in [1..Len(list) -> ToSet(list)]
    BY <1>1 DEF ToSet
  <2>2. \A a, b \in 1..Len(list) : list[a] = list[b] => a = b
    BY <1>1 DEF IsInjective
  <2>3. \A x \in ToSet(list) : \E i \in 1..Len(list) : list[i] = x
    BY <1>1 DEF ToSet
  <2>4. QED
    BY <2>1, <2>2, <2>3 DEF Bijection, Injection, Surjection, IsInjective
<1>3. IsFiniteSet(1..Len(list)) /\ Cardinality(1..Len(list)) = Len(list)
  <2> DEFINE n == Len(list)
  <2>1. 1 \in Int /\ n \in Int /\ n \in Nat
    BY <1>1
  <2> HIDE DEF n
  <2>2. IsFiniteSet(1..n) /\ Cardinality(1..n) = IF 1 > n THEN 0 ELSE n - 1 + 1
    BY <2>1, FS_Interval
  <2>3. Cardinality(1..n) = n
    BY <2>1, <2>2
  <2>4. QED
    BY <2>2, <2>3 DEF n
<1>4. ExistsBijection(1..Len(list), ToSet(list))
  BY <1>2 DEF ExistsBijection
<1>5. QED
  BY <1>3, <1>4, FS_Bijection

\* Detaching a slot keeps a wheel tidy and removes exactly the slot's entries.
LEMMA DetachTidy ==
  ASSUME NEW w, Tidy(w), NEW l \in Levels, NEW s \in Slots, NEW v, v = Detach(w, l, s),
         NEW list, list = w.heads[l][s]
  PROVE  /\ Tidy(v)
         /\ v.current_tick = w.current_tick
         /\ Registered(v) = Registered(w) \ ToSet(list)
         /\ \A x : \A m \in Levels, t \in Slots :
              LinkedAt(v, x, m, t) <=> LinkedAt(w, x, m, t) /\ ~(m = l /\ t = s)
         /\ list \in Seq(Entries) /\ IsInjective(list) /\ ToSet(list) \subseteq Registered(w)
<1>1. w \in WheelValues /\ Once(w) /\ w.pending = Cardinality(Registered(w))
  BY DEF Tidy
<1>2. Relisted(v, w, l, s, <<>>, w.pending - Len(list))
  BY <1>1, DetachRelists
<1>3. list \in Seq(Entries)
  BY <1>1, Parts
<1>4. IsInjective(list)
  BY <1>1 DEF IsInjective, Once
<1>5. \A x \in ToSet(list) : LinkedAt(w, x, l, s)
  BY DEF LinkedAt
<1>6. ToSet(list) \subseteq Registered(w)
  BY <1>1, <1>5, RegisteredIs
<1>7. ToSet(<<>>) = {}
  BY DEF ToSet
<1>8. \A x : \A m \in Levels, t \in Slots :
        LinkedAt(v, x, m, t) <=> LinkedAt(w, x, m, t) /\ ~(m = l /\ t = s)
  <2>1. \A x : \A m \in Levels, t \in Slots :
           LinkedAt(v, x, m, t) <=> IF m = l /\ t = s THEN x \in ToSet(<<>>) ELSE LinkedAt(w, x, m, t)
    BY <1>2, RelistedLinks
  <2>2. QED
    BY <1>7, <2>1
<1>9. v \in WheelValues /\ v.current_tick = w.current_tick /\ v.pending = w.pending - Len(list)
  BY <1>2 DEF Relisted
<1>10. Once(v)
  <2>1. IsInjective(<<>>)
    BY DEF IsInjective
  <2>2. QED
    BY <1>1, <1>2, <1>7, <2>1, RelistedOnce
<1>11. \A x \in ToSet(list) : \A m \in Levels, t \in Slots : LinkedAt(w, x, m, t) => m = l /\ t = s
  <2> SUFFICES ASSUME NEW x \in ToSet(list), NEW m \in Levels, NEW t \in Slots, LinkedAt(w, x, m, t)
               PROVE  m = l /\ t = s
    OBVIOUS
  <2>1. PICK i \in DOMAIN w.heads[l][s] : x = w.heads[l][s][i]
    BY DEF ToSet
  <2>2. PICK j \in DOMAIN w.heads[m][t] : x = w.heads[m][t][j]
    BY DEF LinkedAt, ToSet
  <2>3. w.heads[l][s][i] = w.heads[m][t][j]
    BY <2>1, <2>2
  <2>4. QED
    BY <1>1, <2>3 DEF Once
<1>12. Registered(v) = Registered(w) \ ToSet(list)
  <2>1. \A x : x \in ToSet(list) <=> LinkedAt(w, x, l, s)
    BY DEF LinkedAt
  <2>2. ASSUME NEW x PROVE x \in Registered(v) <=> x \in Registered(w) /\ x \notin ToSet(list)
    <3>1. x \in Registered(v) <=> \E m \in Levels, t \in Slots : LinkedAt(v, x, m, t)
      BY <1>9, RegisteredIs
    <3>2. x \in Registered(w) <=> \E m \in Levels, t \in Slots : LinkedAt(w, x, m, t)
      BY <1>1, RegisteredIs
    <3>3. QED
      BY <1>8, <1>11, <2>1, <3>1, <3>2
  <2>3. QED
    BY <2>2
<1>13. v.pending = Cardinality(Registered(v))
  <2>1. IsFiniteSet(Registered(w)) /\ Cardinality(Registered(w)) \in Nat
    BY <1>1, RegisteredIs
  <2>2. Cardinality(Registered(w) \ ToSet(list)) = Cardinality(Registered(w)) - Cardinality(Registered(w) \cap ToSet(list))
    BY <2>1, FS_Difference
  <2>3. Registered(w) \cap ToSet(list) = ToSet(list)
    BY <1>6
  <2>4. Cardinality(ToSet(list)) = Len(list)
    BY <1>3, <1>4, DistinctCount
  <2>5. QED
    BY <1>1, <1>9, <1>12, <2>2, <2>3, <2>4
<1>14. QED
  BY <1>3, <1>4, <1>6, <1>8, <1>9, <1>10, <1>12, <1>13 DEF Tidy

\* A list without its k-th entry.
LEMMA RemoveAtFacts ==
  ASSUME NEW S, NEW list \in Seq(S), NEW k \in DOMAIN list, IsInjective(list)
  PROVE  /\ RemoveAt(list, k) \in Seq(S)
         /\ IsInjective(RemoveAt(list, k))
         /\ ToSet(RemoveAt(list, k)) = ToSet(list) \ {list[k]}
<1> DEFINE a == SubSeq(list, 1, k - 1)
           b == SubSeq(list, k + 1, Len(list))
           r == a \o b
           n == Len(list)
<1>0. n \in Nat /\ DOMAIN list = 1..n /\ k \in 1..n
  OBVIOUS
<1>1. a \in Seq(S) /\ Len(a) = k - 1 /\ \A i \in 1..(k - 1) : a[i] = list[i]
  BY <1>0
<1>2. b \in Seq(S) /\ Len(b) = n - k /\ \A i \in 1..(n - k) : b[i] = list[k + i]
  BY <1>0
<1> HIDE DEF a, b
<1>3. /\ r \in Seq(S) /\ Len(r) = n - 1 /\ DOMAIN r = 1..(n - 1)
      /\ \A i \in 1..(k - 1) : r[i] = list[i]
      /\ \A i \in 1..(n - k) : r[(k - 1) + i] = list[k + i]
  <2> HIDE DEF n
  <2>1. a \in Seq(S) /\ b \in Seq(S)
    BY <1>1, <1>2
  <2>2. /\ r \in Seq(S) /\ Len(r) = Len(a) + Len(b) /\ DOMAIN r = 1..(Len(a) + Len(b))
        /\ \A i \in 1..Len(a) : r[i] = a[i]
        /\ \A i \in 1..Len(b) : r[Len(a) + i] = b[i]
    BY <2>1, ConcatElements
  <2>3. Len(a) + Len(b) = n - 1
    BY <1>0, <1>1, <1>2
  <2>4. QED
    BY <1>1, <1>2, <2>2, <2>3
<1>4. RemoveAt(list, k) = r
  BY DEF RemoveAt, a, b
<1> HIDE DEF r
<1> DEFINE old(i) == IF i < k THEN i ELSE i + 1
<1>5. \A i \in 1..(n - 1) : old(i) \in 1..n /\ old(i) # k /\ r[i] = list[old(i)]
  <2> SUFFICES ASSUME NEW i \in 1..(n - 1) PROVE old(i) \in 1..n /\ old(i) # k /\ r[i] = list[old(i)]
    OBVIOUS
  <2> HIDE DEF n
  <2>1. CASE i < k
    BY <1>0, <1>3, <2>1
  <2>2. CASE i >= k
    <3> DEFINE j == i - (k - 1)
    <3>1. j \in 1..(n - k) /\ (k - 1) + j = i /\ k + j = i + 1
      BY <1>0, <2>2
    <3> HIDE DEF j
    <3>2. r[i] = list[i + 1]
      BY <1>3, <3>1
    <3>3. QED
      BY <1>0, <2>2, <3>2
  <2>3. QED
    BY <1>0, <2>1, <2>2
<1>6. \A m \in 1..n : m # k => \E i \in 1..(n - 1) : old(i) = m
  <2> SUFFICES ASSUME NEW m \in 1..n, m # k PROVE \E i \in 1..(n - 1) : old(i) = m
    OBVIOUS
  <2> HIDE DEF n
  <2>1. CASE m < k
    <3>1. m \in 1..(n - 1) /\ old(m) = m
      BY <1>0, <2>1
    <3>2. QED
      BY <3>1
  <2>2. CASE m > k
    <3>1. m - 1 \in 1..(n - 1) /\ old(m - 1) = m
      BY <1>0, <2>2
    <3>2. QED
      BY <3>1
  <2>3. QED
    BY <1>0, <2>1, <2>2
<1>7. IsInjective(r)
  <2> SUFFICES ASSUME NEW i \in 1..(n - 1), NEW j \in 1..(n - 1), r[i] = r[j] PROVE i = j
    BY <1>3 DEF IsInjective
  <2> HIDE DEF n
  <2>1. old(i) = old(j)
    BY <1>0, <1>5 DEF IsInjective
  <2>2. QED
    BY <1>0, <2>1
<1>8. ToSet(r) = ToSet(list) \ {list[k]}
  <2> HIDE DEF n
  <2>1. ASSUME NEW x \in ToSet(r) PROVE x \in ToSet(list) \ {list[k]}
    <3>1. PICK i \in 1..(n - 1) : x = r[i]
      BY <1>3 DEF ToSet
    <3> DEFINE m == old(i)
    <3>2. m \in 1..n /\ m # k /\ x = list[m]
      BY <1>5, <3>1
    <3> HIDE DEF m
    <3>3. QED
      BY <1>0, <3>2 DEF ToSet, IsInjective
  <2>2. ASSUME NEW x \in ToSet(list) \ {list[k]} PROVE x \in ToSet(r)
    <3>1. PICK m \in 1..n : x = list[m]
      BY <1>0 DEF ToSet
    <3>2. m # k
      BY <3>1
    <3>3. PICK i \in 1..(n - 1) : old(i) = m
      BY <1>6, <3>2
    <3>4. r[i] = x
      BY <1>5, <3>1, <3>3
    <3>5. QED
      BY <1>3, <3>4 DEF ToSet
  <2>3. QED
    BY <2>1, <2>2
<1>9. QED
  BY <1>3, <1>4, <1>7, <1>8

\* remove keeps a wheel tidy and unlinks the one entry.
LEMMA RemoveTidy ==
  ASSUME NEW w, Tidy(w), NEW e, NEW v, v = RemoveEntry(w, e)
  PROVE  /\ Tidy(v)
         /\ v.current_tick = w.current_tick
         /\ Registered(v) = Registered(w) \ {e}
         /\ \A x : \A m \in Levels, t \in Slots :
              LinkedAt(v, x, m, t) <=> LinkedAt(w, x, m, t) /\ x # e
<1>1. w \in WheelValues /\ Once(w) /\ w.pending = Cardinality(Registered(w))
  BY DEF Tidy
<1>2. CASE ~IsRegistered(w, e)
  <2>1. v = w
    BY <1>2 DEF RemoveEntry
  <2>2. \A m \in Levels, t \in Slots : ~LinkedAt(w, e, m, t)
    BY <1>2 DEF IsRegistered
  <2>3. e \notin Registered(w)
    BY <1>1, <2>2, RegisteredIs
  <2>4. Registered(v) = Registered(w) \ {e} /\ Tidy(v) /\ v.current_tick = w.current_tick
    BY <2>1, <2>3
  <2>5. QED
    BY <2>1, <2>2, <2>4
<1>3. CASE IsRegistered(w, e)
  <2> DEFINE at == CHOOSE p \in Levels \X Slots : LinkedAt(w, e, p[1], p[2])
             k == CHOOSE j \in DOMAIN w.heads[at[1]][at[2]] : w.heads[at[1]][at[2]][j] = e
  <2>1. at \in Levels \X Slots /\ LinkedAt(w, e, at[1], at[2])
    <3>1. \E p \in Levels \X Slots : LinkedAt(w, e, p[1], p[2])
      <4>1. PICK m \in Levels, t \in Slots : LinkedAt(w, e, m, t)
        BY <1>3 DEF IsRegistered
      <4>2. <<m, t>> \in Levels \X Slots /\ LinkedAt(w, e, <<m, t>>[1], <<m, t>>[2])
        BY <4>1
      <4>3. QED
        BY <4>2
    <3>2. QED
      BY <3>1
  <2> HIDE DEF at
  <2>2. PICK l \in Levels, s \in Slots : l = at[1] /\ s = at[2]
    BY <2>1
  <2>3. LinkedAt(w, e, l, s)
    BY <2>1, <2>2
  <2> DEFINE old == w.heads[l][s]
  <2>4. k \in DOMAIN old /\ old[k] = e
    <3> DEFINE list == w.heads[at[1]][at[2]]
    <3>1. \E j \in DOMAIN list : list[j] = e
      BY <2>1 DEF LinkedAt, ToSet
    <3>2. list = old
      BY <2>2
    <3>3. k = CHOOSE j \in DOMAIN list : list[j] = e
      OBVIOUS
    <3> HIDE DEF k, list, old
    <3>4. QED
      BY <3>1, <3>2, <3>3
  <2>5. v = [w EXCEPT !.heads[at[1]][at[2]] = RemoveAt(@, k), !.pending = @ - 1]
    BY <1>3 DEF RemoveEntry, at
  <2> HIDE DEF k
  <2>6. old \in Seq(Entries) /\ IsInjective(old)
    BY <1>1, Parts DEF Once, IsInjective
  <2> DEFINE list == RemoveAt(old, k)
  <2>7. v = [w EXCEPT !.heads[l][s] = list, !.pending = w.pending - 1]
    BY <1>1, <2>2, <2>5 DEF WheelValues
  <2> HIDE DEF old
  <2>8. list \in Seq(Entries) /\ IsInjective(list) /\ ToSet(list) = ToSet(old) \ {e}
    BY <2>4, <2>6, RemoveAtFacts
  <2> HIDE DEF list
  <2>9. Relisted(v, w, l, s, list, w.pending - 1)
    <3>1. w.pending - 1 \in Int
      BY <1>1, Parts
    <3>2. Relisted([w EXCEPT !.heads[l][s] = list, !.pending = w.pending - 1], w, l, s, list, w.pending - 1)
      BY <1>1, <2>8, <3>1, Relist
    <3>3. QED
      BY <2>7, <3>2
  <2>10. ASSUME NEW x \in ToSet(old), NEW m \in Levels, NEW t \in Slots, LinkedAt(w, x, m, t)
         PROVE  m = l /\ t = s
    <3>1. PICK i \in DOMAIN w.heads[l][s] : x = w.heads[l][s][i]
      BY DEF ToSet, old
    <3>2. PICK j \in DOMAIN w.heads[m][t] : x = w.heads[m][t][j]
      BY <2>10 DEF LinkedAt, ToSet
    <3>3. w.heads[l][s][i] = w.heads[m][t][j]
      BY <3>1, <3>2
    <3>4. QED
      BY <1>1, <3>3 DEF Once
  <2>11. v \in WheelValues /\ v.current_tick = w.current_tick /\ v.pending = w.pending - 1
    BY <2>9 DEF Relisted
  <2>12. Once(v)
    <3>1. \A x \in ToSet(list) : \A m \in Levels, t \in Slots : LinkedAt(w, x, m, t) => m = l /\ t = s
      BY <2>8, <2>10
    <3>2. QED
      BY <1>1, <2>8, <2>9, <3>1, RelistedOnce
  <2>13. \A x : \A m \in Levels, t \in Slots : LinkedAt(v, x, m, t) <=> LinkedAt(w, x, m, t) /\ x # e
    <3>1. \A x : \A m \in Levels, t \in Slots :
             LinkedAt(v, x, m, t) <=> IF m = l /\ t = s THEN x \in ToSet(list) ELSE LinkedAt(w, x, m, t)
      BY <2>9, RelistedLinks
    <3>2. \A x : LinkedAt(w, x, l, s) <=> x \in ToSet(old)
      BY DEF LinkedAt, old
    <3>3. \A m \in Levels, t \in Slots : LinkedAt(w, e, m, t) => m = l /\ t = s
      BY <2>3, <2>10, <3>2
    <3>4. QED
      BY <2>8, <3>1, <3>2, <3>3
  <2>14. Registered(v) = Registered(w) \ {e}
    <3>1. ASSUME NEW x PROVE x \in Registered(v) <=> x \in Registered(w) /\ x # e
      BY <1>1, <2>11, <2>13, RegisteredIs
    <3>2. QED
      BY <3>1
  <2>15. v.pending = Cardinality(Registered(v))
    <3>1. IsFiniteSet(Registered(w)) /\ Cardinality(Registered(w)) \in Nat
      BY <1>1, RegisteredIs
    <3>2. e \in Registered(w)
      BY <1>1, <2>3, RegisteredIs
    <3>3. Cardinality(Registered(w) \ {e}) = Cardinality(Registered(w)) - 1
      BY <3>1, <3>2, FS_RemoveElement
    <3>4. QED
      BY <1>1, <2>11, <2>14, <3>3
  <2>16. QED
    BY <2>11, <2>12, <2>13, <2>14, <2>15 DEF Tidy
<1>4. QED
  BY <1>2, <1>3

-----------------------------------------------------------------------------
\* An entry with deadline d waits in slot s of level l: it is the slot that
\* covers d, and it is visited after `now` and not after d.
Waits(d, l, s, now) ==
  /\ d > now
  /\ s = (d \div Resolution[l]) % SLOTS
  /\ d \div Resolution[l] > now \div Resolution[l]
  /\ l = 0 => d - now < SLOTS

\* An entry linked when already due is in the slot the next tick drains.
Overdue(d, l, s, now) == d <= now /\ l = 0 /\ s = (now + 1) % SLOTS

\* Slots of the wheel.
LEMMA SlotOf ==
  ASSUME NEW a \in Nat
  PROVE  a % SLOTS \in Slots
BY WheelAssumption DEF Slots

\* choose_slot.
LEMMA SlotChosen ==
  ASSUME MultiLevel, NEW w \in WheelValues, NEW d \in Nat
  PROVE  \E l \in Levels, s \in Slots :
           /\ ChooseSlot(w, d) = <<l, s>>
           /\ Waits(d, l, s, w.current_tick) \/ Overdue(d, l, s, w.current_tick)
<1> DEFINE now == w.current_tick
<1>1. now \in Nat
  BY Parts
<1>2. CASE d <= now
  <2> DEFINE s == (now + 1) % SLOTS
  <2>1. ChooseSlot(w, d) = <<0, s>>
    BY <1>2 DEF ChooseSlot
  <2>2. 0 \in Levels /\ s \in Slots
    BY <1>1, SlotOf, WheelAssumption DEF Levels
  <2>3. Overdue(d, 0, s, now)
    BY <1>2 DEF Overdue
  <2> HIDE DEF s
  <2>4. QED
    BY <2>1, <2>2, <2>3
<1>3. CASE d > now
  <2> DEFINE delta == d - now
             l == LevelFor(delta)
             r == Resolution[l]
             s == (d \div r) % SLOTS
  <2>1. delta \in Nat
    BY <1>1, <1>3
  <2>2. l \in Levels /\ (l > 0 => delta >= r) /\ (l + 1 < LEVELS => delta < Resolution[l + 1])
    <3> HIDE DEF delta
    <3> QED BY <2>1, LevelFits
  <2>3. ChooseSlot(w, d) = <<l, s>>
    BY <1>1, <1>3 DEF ChooseSlot
  <2> HIDE DEF l
  <2>4. l \in 0..LEVELS /\ r \in Nat \ {0}
    BY <2>2, Resolutions, WheelAssumption DEF Levels
  <2>5. Resolution[0] = 1 /\ Resolution[1] = SLOTS
    <3>1. 1 \in 1..LEVELS /\ 1 - 1 = 0
      BY WheelAssumption
    <3>2. QED
      BY <3>1, Resolutions, WheelAssumption
  <2>6. d \div r > now \div r
    <3>1. CASE l = 0
      BY <1>1, <1>3, <2>5, <3>1, DivOne
    <3>2. CASE l > 0
      <4>1. d >= now + r
        BY <1>1, <2>2, <2>4, <3>2
      <4> HIDE DEF r
      <4>2. QED
        BY <1>1, <2>4, <4>1, DivAhead
    <3>3. QED
      BY <2>4, <3>1, <3>2
  <2>7. l = 0 => d - now < SLOTS
    <3> SUFFICES ASSUME l = 0 PROVE d - now < SLOTS
      OBVIOUS
    <3>1. l + 1 = 1 /\ l + 1 < LEVELS
      BY WheelAssumption DEF MultiLevel
    <3>2. QED
      BY <2>2, <2>5, <3>1
  <2>8. s \in Slots
    <3> HIDE DEF r
    <3>1. d \div r \in Nat
      BY <2>4, DivMod
    <3>2. QED
      BY <3>1, SlotOf
  <2>9. Waits(d, l, s, now)
    BY <1>3, <2>6, <2>7 DEF Waits
  <2> HIDE DEF s
  <2>10. QED
    BY <2>2, <2>3, <2>8, <2>9
<1>4. QED
  BY <1>1, <1>2, <1>3

-----------------------------------------------------------------------------
\* Between two calls every linked entry waits or is overdue.
Standing(w, dl) ==
  \A x : \A l \in Levels, s \in Slots :
    LinkedAt(w, x, l, s) =>
      Waits(dl[x], l, s, w.current_tick) \/ Overdue(dl[x], l, s, w.current_tick)

\* During a tick: an entry that is due is in the slot this tick drains.
DueNow(d, l, s, now) == d <= now /\ l = 0 /\ s = now % SLOTS

\* During a tick: an entry is in the slot that this tick cascades.
Crosses(l, s, now) ==
  /\ l > 0
  /\ now % Resolution[l] = 0
  /\ s = (now \div Resolution[l]) % SLOTS

\* During a tick, when the levels up to k have cascaded.
Cascading(w, dl, k) ==
  \A x : \A l \in Levels, s \in Slots :
    LinkedAt(w, x, l, s) =>
      \/ Waits(dl[x], l, s, w.current_tick)
      \/ DueNow(dl[x], l, s, w.current_tick)
      \/ l > k /\ Crosses(l, s, w.current_tick)

\* Only the deadlines of registered entries matter.
LEMMA StandingSame ==
  ASSUME NEW w \in WheelValues, NEW dl, NEW dm, Standing(w, dl), \A x \in Registered(w) : dm[x] = dl[x]
  PROVE  Standing(w, dm)
<1>1. \A x : \A l \in Levels, s \in Slots : LinkedAt(w, x, l, s) => x \in Registered(w)
  BY RegisteredIs
<1>2. QED
  BY <1>1 DEF Standing

\* insert.
LEMMA InsertStanding ==
  ASSUME MultiLevel, NEW w, Tidy(w), NEW dl \in DeadlineMaps, Standing(w, dl),
         NEW e \in Entries, e \notin Registered(w), NEW v, v = InsertEntry(w, dl, e)
  PROVE  /\ Tidy(v) /\ Standing(v, dl)
         /\ v.current_tick = w.current_tick
         /\ Registered(v) = Registered(w) \cup {e}
<1>1. w \in WheelValues /\ dl[e] \in Nat
  BY DEF Tidy, DeadlineMaps
<1>2. PICK l \in Levels, s \in Slots :
        /\ ChooseSlot(w, dl[e]) = <<l, s>>
        /\ Waits(dl[e], l, s, w.current_tick) \/ Overdue(dl[e], l, s, w.current_tick)
  BY <1>1, SlotChosen
<1>3. v = Link(w, <<l, s>>, e)
  BY <1>2 DEF InsertEntry
<1>4. /\ Tidy(v)
      /\ v.current_tick = w.current_tick
      /\ Registered(v) = Registered(w) \cup {e}
      /\ \A x : \A m \in Levels, t \in Slots :
           LinkedAt(v, x, m, t) <=> LinkedAt(w, x, m, t) \/ (x = e /\ m = l /\ t = s)
  BY <1>3, LinkTidy
<1>5. Standing(v, dl)
  BY <1>2, <1>4 DEF Standing
<1>6. QED
  BY <1>4, <1>5

\* remove.
LEMMA RemoveStanding ==
  ASSUME NEW w, Tidy(w), NEW dl, Standing(w, dl), NEW e, NEW v, v = RemoveEntry(w, e)
  PROVE  /\ Tidy(v) /\ Standing(v, dl)
         /\ v.current_tick = w.current_tick
         /\ Registered(v) = Registered(w) \ {e}
<1>1. /\ Tidy(v)
      /\ v.current_tick = w.current_tick
      /\ Registered(v) = Registered(w) \ {e}
      /\ \A x : \A m \in Levels, t \in Slots :
           LinkedAt(v, x, m, t) <=> LinkedAt(w, x, m, t) /\ x # e
  BY RemoveTidy
<1>2. QED
  BY <1>1 DEF Standing

\* Where cascade puts an entry.
LEMMA TargetChosen ==
  ASSUME MultiLevel, NEW w \in WheelValues, NEW d \in Nat
  PROVE  \E l \in Levels, s \in Slots :
           /\ CascadeTarget(w, d) = <<l, s>>
           /\ Waits(d, l, s, w.current_tick) \/ DueNow(d, l, s, w.current_tick)
<1> DEFINE now == w.current_tick
<1>1. now \in Nat
  BY Parts
<1>2. CASE d <= now
  <2> DEFINE s == now % SLOTS
  <2>1. CascadeTarget(w, d) = <<0, s>>
    BY <1>2 DEF CascadeTarget
  <2>2. 0 \in Levels /\ s \in Slots
    BY <1>1, SlotOf, WheelAssumption DEF Levels
  <2>3. DueNow(d, 0, s, now)
    BY <1>2 DEF DueNow
  <2> HIDE DEF s
  <2>4. QED
    BY <2>1, <2>2, <2>3
<1>3. CASE d > now
  <2>1. CascadeTarget(w, d) = ChooseSlot(w, d)
    BY <1>1, <1>3 DEF CascadeTarget
  <2>2. \A l, s : ~Overdue(d, l, s, now)
    BY <1>1, <1>3 DEF Overdue
  <2>3. QED
    BY <2>1, <2>2, SlotChosen
<1>4. QED
  BY <1>1, <1>2, <1>3

\* The recursion of Relink.
LEMMA RelinkRun ==
  ASSUME MultiLevel, NEW w \in WheelValues, NEW dl \in DeadlineMaps, NEW list \in Seq(Entries)
  PROVE  \E f : /\ f[0] = w
                /\ \A i \in 1..Len(list) :
                     f[i] = Link(f[i - 1], CascadeTarget(w, dl[list[i]]), list[i])
                /\ Relink(w, dl, list) = f[Len(list)]
<1> DEFINE n == Len(list)
           put(i, u) == Link(u, CascadeTarget(w, dl[list[i]]), list[i])
           step == [p \in (1..n) \X WheelValues |-> put(p[1], p[2])]
<1>1. n \in Nat
  OBVIOUS
<1>2. ASSUME NEW i \in 1..n, NEW u \in WheelValues PROVE put(i, u) \in WheelValues
  <2>1. list[i] \in Entries /\ dl[list[i]] \in Nat
    BY DEF DeadlineMaps
  <2>2. PICK l \in Levels, s \in Slots : CascadeTarget(w, dl[list[i]]) = <<l, s>>
    BY <2>1, TargetChosen
  <2>3. Relisted(Link(u, <<l, s>>, list[i]), u, l, s, <<list[i]>> \o u.heads[l][s], u.pending + 1)
    BY <2>1, LinkRelists
  <2>4. QED
    BY <2>2, <2>3 DEF Relisted
<1> HIDE DEF n, put
<1>3. step \in [(1..n) \X WheelValues -> WheelValues]
  <2>1. ASSUME NEW p \in (1..n) \X WheelValues PROVE put(p[1], p[2]) \in WheelValues
    <3>1. p[1] \in 1..n /\ p[2] \in WheelValues
      OBVIOUS
    <3>2. QED
      BY <1>2, <3>1
  <2>2. QED
    BY <2>1
<1>4. PICK f : IsRun(f, WheelValues, n, w, step)
  <2> HIDE DEF step
  <2> QED BY <1>1, <1>3, Recursion
<1>5. f \in [0..n -> WheelValues] /\ f[0] = w /\ \A i \in 1..n : f[i] = put(i, f[i - 1])
  <2>1. f \in [0..n -> WheelValues] /\ f[0] = w /\ \A i \in 1..n : f[i] = step[<<i, f[i - 1]>>]
    <3> HIDE DEF step
    <3> QED BY <1>4 DEF IsRun
  <2>2. ASSUME NEW i \in 1..n PROVE step[<<i, f[i - 1]>>] = put(i, f[i - 1])
    <3>1. f[i - 1] \in WheelValues
      BY <1>1, <2>1
    <3>2. QED
      BY <3>1
  <2> HIDE DEF step
  <2>3. QED
    BY <2>1, <2>2
<1>6. f = [i \in 0..n |-> IF i = 0 THEN w ELSE put(i, f[i - 1])]
  <2> HIDE DEF step
  <2>1. f = [i \in 0..n |-> f[i]]
    BY <1>5
  <2>2. ASSUME NEW i \in 0..n PROVE f[i] = IF i = 0 THEN w ELSE put(i, f[i - 1])
    <3>1. i = 0 \/ i \in 1..n
      BY <1>1
    <3>2. QED
      BY <1>5, <3>1
  <2>3. QED
    BY <2>1, <2>2
<1> DEFINE g == CHOOSE g : g = [i \in 0..n |-> IF i = 0 THEN w ELSE put(i, g[i - 1])]
<1>7. g = [i \in 0..n |-> IF i = 0 THEN w ELSE put(i, g[i - 1])]
  BY <1>6
<1>8. Relink(w, dl, list) = g[n]
  BY DEF Relink, put, n
<1> HIDE DEF g
<1>9. g[0] = w /\ \A i \in 1..n : g[i] = put(i, g[i - 1])
  <2>1. \A i \in 0..n : g[i] = IF i = 0 THEN w ELSE put(i, g[i - 1])
    BY <1>7
  <2>2. 0 \in 0..n /\ \A i \in 1..n : i \in 0..n /\ i # 0
    BY <1>1
  <2>3. QED
    BY <2>1, <2>2
<1>10. QED
  BY <1>8, <1>9 DEF n, put

\* Relinking a detached list keeps a wheel tidy; every entry of the list is
\* linked again, where it waits or where this tick drains it.
LEMMA RelinkTidy ==
  ASSUME MultiLevel, NEW w, Tidy(w), NEW dl \in DeadlineMaps,
         NEW list \in Seq(Entries), IsInjective(list), ToSet(list) \cap Registered(w) = {},
         NEW v, v = Relink(w, dl, list)
  PROVE  /\ Tidy(v)
         /\ v.current_tick = w.current_tick
         /\ Registered(v) = Registered(w) \cup ToSet(list)
         /\ \A x : \A m \in Levels, t \in Slots :
              LinkedAt(v, x, m, t) =>
                \/ LinkedAt(w, x, m, t)
                \/ Waits(dl[x], m, t, w.current_tick)
                \/ DueNow(dl[x], m, t, w.current_tick)
<1> DEFINE n == Len(list)
           placed(u) == \A x : \A m \in Levels, t \in Slots :
                          LinkedAt(u, x, m, t) =>
                            \/ LinkedAt(w, x, m, t)
                            \/ Waits(dl[x], m, t, w.current_tick)
                            \/ DueNow(dl[x], m, t, w.current_tick)
           good(u, i) == /\ Tidy(u) /\ u.current_tick = w.current_tick
                         /\ Registered(u) = Registered(w) \cup {list[j] : j \in 1..i}
                         /\ placed(u)
<1>1. n \in Nat /\ w \in WheelValues
  BY DEF Tidy
<1>2. PICK f : /\ f[0] = w
               /\ \A i \in 1..n : f[i] = Link(f[i - 1], CascadeTarget(w, dl[list[i]]), list[i])
               /\ v = f[n]
  BY <1>1, RelinkRun
<1> DEFINE S == {i \in 0..n : good(f[i], i)}
<1>3. 0 \in S
  <2>1. {list[j] : j \in 1..0} = {}
    OBVIOUS
  <2>2. good(w, 0)
    BY <2>1
  <2>3. QED
    BY <1>1, <1>2, <2>2
<1>4. ASSUME NEW i \in 0..(n - 1), i \in S PROVE i + 1 \in S
  <2> DEFINE k == i + 1
             e == list[k]
  <2>1. k \in 1..n /\ k \in 0..n /\ k - 1 = i /\ 1..k = (1..i) \cup {k} /\ k \notin 1..i /\ 1..i \subseteq 1..n
    BY <1>1
  <2>2. good(f[i], i)
    BY <1>4
  <2> HIDE DEF k
  <2>3. e \in Entries /\ dl[e] \in Nat /\ e \in ToSet(list)
    BY <2>1 DEF DeadlineMaps, ToSet
  <2>4. e \notin Registered(f[i])
    <3>1. e \notin Registered(w)
      BY <2>3
    <3>2. \A j \in 1..i : list[j] # list[k]
      BY <2>1 DEF IsInjective
    <3>3. QED
      BY <2>2, <3>1, <3>2
  <2>5. PICK l \in Levels, s \in Slots :
          /\ CascadeTarget(w, dl[e]) = <<l, s>>
          /\ Waits(dl[e], l, s, w.current_tick) \/ DueNow(dl[e], l, s, w.current_tick)
    BY <1>1, <2>3, TargetChosen
  <2>6. f[k] = Link(f[i], <<l, s>>, e)
    BY <1>2, <2>1, <2>5
  <2> HIDE DEF e
  <2>7. /\ Tidy(f[k])
        /\ f[k].current_tick = f[i].current_tick
        /\ Registered(f[k]) = Registered(f[i]) \cup {e}
        /\ \A x : \A m \in Levels, t \in Slots :
             LinkedAt(f[k], x, m, t) <=> LinkedAt(f[i], x, m, t) \/ (x = e /\ m = l /\ t = s)
    <3>1. Tidy(f[i])
      BY <2>2
    <3>2. QED
      BY <2>3, <2>4, <2>6, <3>1, LinkTidy
  <2>8. Registered(f[k]) = Registered(w) \cup {list[j] : j \in 1..k}
    <3>1. Registered(f[i]) = Registered(w) \cup {list[j] : j \in 1..i}
      BY <2>2
    <3>2. {list[j] : j \in 1..k} = {list[j] : j \in 1..i} \cup {e}
      BY <2>1 DEF e
    <3>3. QED
      BY <2>7, <3>1, <3>2
  <2>9. placed(f[k])
    <3>1. placed(f[i])
      BY <2>2
    <3>2. QED
      BY <2>5, <2>7, <3>1
  <2>10. f[k].current_tick = w.current_tick
    BY <2>2, <2>7
  <2> HIDE DEF placed
  <2>11. good(f[k], k)
    BY <2>7, <2>8, <2>9, <2>10
  <2> HIDE DEF good
  <2>12. k \in S
    BY <2>1, <2>11
  <2>13. QED
    BY <2>12 DEF k
<1>5. 0..n \subseteq S
  <2> HIDE DEF S, n
  <2> QED BY <1>1, <1>3, <1>4, SetInduction
<1>6. good(v, n)
  <2> HIDE DEF good
  <2>1. n \in 0..n
    BY <1>1
  <2>2. good(f[n], n)
    BY <1>5, <2>1
  <2>3. QED
    BY <1>2, <2>2
<1>7. {list[j] : j \in 1..n} = ToSet(list)
  BY DEF ToSet
<1>8. QED
  BY <1>6, <1>7

\* v is w with the entries of slot s of level k linked again in time.
Replaced(v, w, dl, k, s) ==
  \A x : \A m \in Levels, t \in Slots :
    LinkedAt(v, x, m, t) =>
      \/ LinkedAt(w, x, m, t) /\ ~(m = k /\ t = s)
      \/ Waits(dl[x], m, t, w.current_tick)
      \/ DueNow(dl[x], m, t, w.current_tick)

\* Cascading one slot of a level.
LEMMA CascadeTidy ==
  ASSUME MultiLevel, NEW w, Tidy(w), NEW dl \in DeadlineMaps, NEW k \in Levels, NEW s \in Slots,
         NEW v, v = Cascade(w, dl, k, s)
  PROVE  /\ Tidy(v)
         /\ v.current_tick = w.current_tick
         /\ Registered(v) = Registered(w)
         /\ Replaced(v, w, dl, k, s)
<1> DEFINE u == Detach(w, k, s)
           list == w.heads[k][s]
<1>1. v = Relink(u, dl, list)
  BY DEF Cascade
<1>2. /\ Tidy(u)
      /\ u.current_tick = w.current_tick
      /\ Registered(u) = Registered(w) \ ToSet(list)
      /\ \A x : \A m \in Levels, t \in Slots :
           LinkedAt(u, x, m, t) <=> LinkedAt(w, x, m, t) /\ ~(m = k /\ t = s)
      /\ list \in Seq(Entries) /\ IsInjective(list) /\ ToSet(list) \subseteq Registered(w)
  <2> HIDE DEF u, list
  <2>1. u = Detach(w, k, s) /\ list = w.heads[k][s]
    BY DEF u, list
  <2>2. QED
    BY <2>1, DetachTidy
<1> HIDE DEF u, list
<1>3. ToSet(list) \cap Registered(u) = {}
  BY <1>2
<1>4. /\ Tidy(v)
      /\ v.current_tick = u.current_tick
      /\ Registered(v) = Registered(u) \cup ToSet(list)
      /\ \A x : \A m \in Levels, t \in Slots :
           LinkedAt(v, x, m, t) =>
             \/ LinkedAt(u, x, m, t)
             \/ Waits(dl[x], m, t, u.current_tick)
             \/ DueNow(dl[x], m, t, u.current_tick)
  BY <1>1, <1>2, <1>3, RelinkTidy
<1>5. Registered(v) = Registered(w)
  BY <1>2, <1>4
<1>6. QED
  BY <1>2, <1>4, <1>5 DEF Replaced

\* The slot of level k that a tick cascades, and what one level of the loop
\* leaves.
LEMMA CascadeStep ==
  ASSUME MultiLevel, NEW w, Tidy(w), NEW dl \in DeadlineMaps, NEW k \in 1..(LEVELS - 1),
         NEW v, v = IF w.current_tick % Resolution[k] = 0
                    THEN Cascade(w, dl, k, (w.current_tick \div Resolution[k]) % SLOTS)
                    ELSE w
  PROVE  /\ Tidy(v)
         /\ v.current_tick = w.current_tick
         /\ Registered(v) = Registered(w)
         /\ Cascading(w, dl, k - 1) => Cascading(v, dl, k)
<1> DEFINE now == w.current_tick
           s == (now \div Resolution[k]) % SLOTS
<1>1. now \in Nat /\ k \in Levels /\ k \in Nat
  BY Parts DEF Tidy, Levels
<1>2. Resolution[k] \in Nat \ {0}
  BY <1>1, Resolutions, WheelAssumption DEF Levels
<1>3. s \in Slots
  <2>1. now \div Resolution[k] \in Nat
    BY <1>1, <1>2, DivMod
  <2>2. QED
    BY <2>1, SlotOf
<1>4. \A l \in Levels : l \in Int /\ (l > k - 1 => l > k \/ l = k)
  BY <1>1 DEF Levels
<1>5. CASE now % Resolution[k] = 0
  <2>1. v = Cascade(w, dl, k, s)
    BY <1>5
  <2> HIDE DEF s
  <2>2. /\ Tidy(v)
        /\ v.current_tick = w.current_tick
        /\ Registered(v) = Registered(w)
        /\ Replaced(v, w, dl, k, s)
    BY <1>1, <1>3, <2>1, CascadeTidy
  <2>3. ASSUME Cascading(w, dl, k - 1) PROVE Cascading(v, dl, k)
    <3> SUFFICES ASSUME NEW x, NEW l \in Levels, NEW t \in Slots, LinkedAt(v, x, l, t)
                 PROVE  \/ Waits(dl[x], l, t, now)
                        \/ DueNow(dl[x], l, t, now)
                        \/ l > k /\ Crosses(l, t, now)
      BY <2>2 DEF Cascading
    <3>1. CASE LinkedAt(w, x, l, t) /\ ~(l = k /\ t = s)
      <4>1. \/ Waits(dl[x], l, t, now)
            \/ DueNow(dl[x], l, t, now)
            \/ l > k - 1 /\ Crosses(l, t, now)
        BY <2>3, <3>1 DEF Cascading
      <4>2. ASSUME l > k - 1, Crosses(l, t, now) PROVE l > k
        <5>1. l = k => t = s
          BY <4>2 DEF Crosses, s
        <5>2. QED
          BY <1>4, <3>1, <4>2, <5>1
      <4>3. QED
        BY <4>1, <4>2
    <3>2. QED
      BY <2>2, <3>1 DEF Replaced
  <2>4. QED
    BY <2>2, <2>3
<1>6. CASE now % Resolution[k] # 0
  <2>1. v = w
    BY <1>6
  <2>2. \A t : ~Crosses(k, t, now)
    BY <1>6 DEF Crosses
  <2>3. ASSUME Cascading(w, dl, k - 1) PROVE Cascading(w, dl, k)
    BY <1>4, <2>2, <2>3 DEF Cascading
  <2>4. QED
    BY <2>1, <2>3
<1>7. QED
  BY <1>5, <1>6

\* g is the run of a tick's loop over the levels of w: g[i] is the wheel when
\* level i has cascaded.
LevelsRunOf(g, w, dl) ==
  /\ g[0] = w
  /\ \A i \in 1..(LEVELS - 1) :
       g[i] = IF w.current_tick % Resolution[i] = 0
              THEN Cascade(g[i - 1], dl, i, (w.current_tick \div Resolution[i]) % SLOTS)
              ELSE g[i - 1]
  /\ CascadeLevels(w, dl) = g[LEVELS - 1]
  /\ \A i \in 0..(LEVELS - 1) :
       /\ Tidy(g[i])
       /\ g[i].current_tick = w.current_tick
       /\ Registered(g[i]) = Registered(w)
       /\ Cascading(w, dl, 0) => Cascading(g[i], dl, i)

\* The recursion of CascadeLevels.
LEMMA LevelsRun ==
  ASSUME MultiLevel, NEW w, Tidy(w), NEW dl \in DeadlineMaps
  PROVE  \E g : LevelsRunOf(g, w, dl)
<1> DEFINE n == LEVELS - 1
           now == w.current_tick
           put(i, u) == IF now % Resolution[i] = 0
                        THEN Cascade(u, dl, i, (now \div Resolution[i]) % SLOTS)
                        ELSE u
           good(u) == Tidy(u) /\ u.current_tick = now /\ Registered(u) = Registered(w)
           V == {u \in WheelValues : good(u)}
           step == [p \in (1..n) \X V |-> put(p[1], p[2])]
<1>1. n \in Nat /\ n = LEVELS - 1
  BY WheelAssumption
<1>2. w \in V
  BY DEF Tidy
<1>3. ASSUME NEW i \in 1..n, NEW u \in V
      PROVE  put(i, u) \in V /\ (Cascading(u, dl, i - 1) => Cascading(put(i, u), dl, i))
  <2> DEFINE x == put(i, u)
  <2>1. Tidy(u) /\ u.current_tick = now /\ Registered(u) = Registered(w)
    OBVIOUS
  <2>2. x = IF u.current_tick % Resolution[i] = 0
            THEN Cascade(u, dl, i, (u.current_tick \div Resolution[i]) % SLOTS)
            ELSE u
    BY <2>1
  <2> HIDE DEF x
  <2>3. i \in 1..(LEVELS - 1)
    OBVIOUS
  <2>4. /\ Tidy(x)
        /\ x.current_tick = u.current_tick
        /\ Registered(x) = Registered(u)
        /\ Cascading(u, dl, i - 1) => Cascading(x, dl, i)
    BY <2>1, <2>2, <2>3, CascadeStep
  <2>5. x \in WheelValues
    BY <2>4 DEF Tidy
  <2>6. x \in V /\ (Cascading(u, dl, i - 1) => Cascading(x, dl, i))
    BY <2>1, <2>4, <2>5
  <2>7. QED
    BY <2>6 DEF x
<1> HIDE DEF n, put, V, now
<1>4. step \in [(1..n) \X V -> V]
  <2>1. ASSUME NEW p \in (1..n) \X V PROVE put(p[1], p[2]) \in V
    <3>1. p[1] \in 1..n /\ p[2] \in V
      OBVIOUS
    <3>2. QED
      BY <1>3, <3>1
  <2>2. QED
    BY <2>1
<1>5. PICK f : IsRun(f, V, n, w, step)
  <2> HIDE DEF step
  <2> QED BY <1>1, <1>2, <1>4, Recursion
<1>6. f \in [0..n -> V] /\ f[0] = w /\ \A i \in 1..n : f[i] = put(i, f[i - 1])
  <2>1. f \in [0..n -> V] /\ f[0] = w /\ \A i \in 1..n : f[i] = step[<<i, f[i - 1]>>]
    <3> HIDE DEF step
    <3> QED BY <1>5 DEF IsRun
  <2>2. ASSUME NEW i \in 1..n PROVE step[<<i, f[i - 1]>>] = put(i, f[i - 1])
    <3>1. f[i - 1] \in V
      BY <1>1, <2>1
    <3>2. QED
      BY <3>1
  <2> HIDE DEF step
  <2>3. QED
    BY <2>1, <2>2
<1> HIDE DEF step
<1>7. f = [i \in 0..n |-> IF i = 0 THEN w ELSE put(i, f[i - 1])]
  <2>1. f = [i \in 0..n |-> f[i]]
    BY <1>6
  <2>2. ASSUME NEW i \in 0..n PROVE f[i] = IF i = 0 THEN w ELSE put(i, f[i - 1])
    <3>1. i = 0 \/ i \in 1..n
      BY <1>1
    <3>2. QED
      BY <1>6, <3>1
  <2>3. QED
    BY <2>1, <2>2
<1> DEFINE g == CHOOSE g : g = [i \in 0..n |-> IF i = 0 THEN w ELSE put(i, g[i - 1])]
<1>8. g = [i \in 0..n |-> IF i = 0 THEN w ELSE put(i, g[i - 1])]
  BY <1>7
<1>9. CascadeLevels(w, dl) = g[n]
  BY DEF CascadeLevels, put, n, now
<1> HIDE DEF g
<1>10. g[0] = w /\ \A i \in 1..n : g[i] = put(i, g[i - 1])
  <2>1. \A i \in 0..n : g[i] = IF i = 0 THEN w ELSE put(i, g[i - 1])
    BY <1>8
  <2>2. 0 \in 0..n /\ \A i \in 1..n : i \in 0..n /\ i # 0
    BY <1>1
  <2>3. QED
    BY <2>1, <2>2
<1> DEFINE S == {i \in 0..n : g[i] \in V /\ (Cascading(w, dl, 0) => Cascading(g[i], dl, i))}
<1>11. 0 \in S
  BY <1>1, <1>2, <1>10
<1>12. ASSUME NEW i \in 0..(n - 1), i \in S PROVE i + 1 \in S
  <2>1. i + 1 \in 1..n /\ i + 1 \in 0..n /\ (i + 1) - 1 = i
    BY <1>1
  <2>2. g[i] \in V /\ (Cascading(w, dl, 0) => Cascading(g[i], dl, i))
    BY <1>12
  <2>3. g[i + 1] = put(i + 1, g[i])
    BY <1>10, <2>1
  <2>4. put(i + 1, g[i]) \in V /\ (Cascading(g[i], dl, (i + 1) - 1) => Cascading(put(i + 1, g[i]), dl, i + 1))
    BY <1>3, <2>1, <2>2
  <2>5. QED
    BY <2>1, <2>2, <2>3, <2>4
<1>13. 0..n \subseteq S
  <2> HIDE DEF S
  <2> QED BY <1>1, <1>11, <1>12, SetInduction
<1>14. \A i \in 0..n : g[i] \in V /\ (Cascading(w, dl, 0) => Cascading(g[i], dl, i))
  BY <1>13
<1>15. \A i \in 0..n :
         /\ Tidy(g[i]) /\ g[i].current_tick = now /\ Registered(g[i]) = Registered(w)
         /\ Cascading(w, dl, 0) => Cascading(g[i], dl, i)
  BY <1>14 DEF V
<1>16. \A i \in 1..n : g[i] = IF now % Resolution[i] = 0
                              THEN Cascade(g[i - 1], dl, i, (now \div Resolution[i]) % SLOTS)
                              ELSE g[i - 1]
  BY <1>10 DEF put
<1>17. \A i \in 1..(LEVELS - 1) :
         g[i] = IF w.current_tick % Resolution[i] = 0
                THEN Cascade(g[i - 1], dl, i, (w.current_tick \div Resolution[i]) % SLOTS)
                ELSE g[i - 1]
  BY ONLY <1>16 DEF n, now
<1>18. \A i \in 0..(LEVELS - 1) :
         /\ Tidy(g[i]) /\ g[i].current_tick = w.current_tick /\ Registered(g[i]) = Registered(w)
         /\ Cascading(w, dl, 0) => Cascading(g[i], dl, i)
  BY ONLY <1>15 DEF n, now
<1>19. CascadeLevels(w, dl) = g[LEVELS - 1]
  BY <1>9 DEF n
<1>20. LevelsRunOf(g, w, dl)
  BY <1>10, <1>17, <1>18, <1>19 DEF LevelsRunOf
<1>21. QED
  BY <1>20

\* The loop of a tick over the levels: it loses and adds no entry, and when it
\* ends no entry is left in a slot that the tick passed.
LEMMA LevelsCascaded ==
  ASSUME MultiLevel, NEW w, Tidy(w), NEW dl \in DeadlineMaps, NEW v, v = CascadeLevels(w, dl)
  PROVE  /\ Tidy(v)
         /\ v.current_tick = w.current_tick
         /\ Registered(v) = Registered(w)
         /\ Cascading(w, dl, 0) => Cascading(v, dl, LEVELS - 1)
<1> DEFINE n == LEVELS - 1
<1>1. n \in 0..n
  BY WheelAssumption
<1>2. PICK g : LevelsRunOf(g, w, dl)
  BY LevelsRun
<1>3. /\ CascadeLevels(w, dl) = g[n]
      /\ \A i \in 0..n :
           /\ Tidy(g[i])
           /\ g[i].current_tick = w.current_tick
           /\ Registered(g[i]) = Registered(w)
           /\ Cascading(w, dl, 0) => Cascading(g[i], dl, i)
  BY <1>2 DEF LevelsRunOf
<1> HIDE DEF n
<1>4. QED
  BY <1>1, <1>3 DEF n

\* A tick moves the time: every linked entry still waits, or is in the slot
\* that this tick drains, or in one that it cascades.
LEMMA TimeMoves ==
  ASSUME NEW w, Tidy(w), NEW dl \in DeadlineMaps, NEW v, v = [w EXCEPT !.current_tick = @ + 1]
  PROVE  /\ Tidy(v)
         /\ v.current_tick = w.current_tick + 1
         /\ Registered(v) = Registered(w)
         /\ Standing(w, dl) => Cascading(v, dl, 0)
<1> DEFINE now == w.current_tick
<1>1. w \in WheelValues /\ now \in Nat
  BY Parts DEF Tidy
<1>2. v \in WheelValues /\ v.heads = w.heads /\ v.current_tick = now + 1 /\ v.pending = w.pending
  <2> DEFINE h == w.heads
             c == w.pending
             H == [Levels -> [Slots -> Seq(Entries)]]
  <2>1. w = [heads |-> h, current_tick |-> now, pending |-> c] /\ h \in H /\ c \in Int
    BY <1>1 DEF WheelValues
  <2> HIDE DEF h, c, H
  <2>2. v = [heads |-> h, current_tick |-> now + 1, pending |-> c]
    BY <2>1
  <2>3. [heads |-> h, current_tick |-> now + 1, pending |-> c]
          \in [heads : H, current_tick : Nat, pending : Int]
    BY <1>1, <2>1
  <2>4. QED
    BY <2>2, <2>3 DEF WheelValues, h, c, H
<1>3. Registered(v) = Registered(w)
  BY <1>2 DEF Registered
<1>4. \A x, l, s : LinkedAt(v, x, l, s) <=> LinkedAt(w, x, l, s)
  BY <1>2 DEF LinkedAt
<1>5. Tidy(v)
  BY <1>2, <1>3 DEF Tidy, Once
<1>6. ASSUME Standing(w, dl) PROVE Cascading(v, dl, 0)
  <2> SUFFICES ASSUME NEW x, NEW l \in Levels, NEW s \in Slots, LinkedAt(w, x, l, s)
               PROVE  \/ Waits(dl[x], l, s, now + 1)
                      \/ DueNow(dl[x], l, s, now + 1)
                      \/ l > 0 /\ Crosses(l, s, now + 1)
    BY <1>2, <1>4 DEF Cascading
  <2> DEFINE d == dl[x]
             r == Resolution[l]
  <2>1. Waits(d, l, s, now) \/ Overdue(d, l, s, now)
    BY <1>6 DEF Standing
  <2>2. d \in Nat
    <3>1. x \in Entries
      BY <1>1, RegisteredIs
    <3>2. QED
      BY <3>1 DEF DeadlineMaps
  <2>3. r \in Nat \ {0} /\ l \in Nat /\ (l = 0 => r = 1)
    BY Resolutions, WheelAssumption DEF Levels
  <2> HIDE DEF d, r, now
  <2>4. CASE Overdue(d, l, s, now)
    <3>1. DueNow(d, l, s, now + 1)
      BY <1>1, <2>2, <2>4 DEF Overdue, DueNow
    <3>2. QED
      BY <3>1 DEF d
  <2>5. CASE Waits(d, l, s, now) /\ l = 0
    <3>1. d > now /\ s = d % SLOTS /\ d - now < SLOTS
      BY <2>2, <2>3, <2>5, DivOne DEF Waits, r
    <3>2. CASE d = now + 1
      <4>1. DueNow(d, l, s, now + 1)
        BY <1>1, <2>5, <3>1, <3>2 DEF DueNow
      <4>2. QED
        BY <4>1 DEF d
    <3>3. CASE d # now + 1
      <4>1. d > now + 1 /\ d - (now + 1) < SLOTS
        BY <1>1, <2>2, <3>1, <3>3, WheelAssumption
      <4>2. d \div r = d /\ (now + 1) \div r = now + 1
        BY <1>1, <2>2, <2>3, <2>5, DivOne
      <4>3. s = (d \div r) % SLOTS /\ d \div r > (now + 1) \div r
        BY <3>1, <4>1, <4>2
      <4>4. Waits(d, l, s, now + 1)
        BY <4>1, <4>3 DEF Waits, r
      <4>5. QED
        BY <4>4 DEF d
    <3>4. QED
      BY <3>2, <3>3
  <2>6. CASE Waits(d, l, s, now) /\ l # 0
    <3>1. s = (d \div r) % SLOTS /\ d \div r > now \div r /\ l > 0
      BY <2>3, <2>6 DEF Waits, r
    <3>2. now \div r \in Nat /\ d \div r \in Nat /\ now + 1 \in Nat
      BY <1>1, <2>2, <2>3, DivMod
    <3>3. /\ (now + 1) % r = 0 => (now + 1) \div r = now \div r + 1
          /\ (now + 1) % r # 0 => (now + 1) \div r = now \div r
      BY <1>1, <2>3, DivNext
    <3>4. CASE d \div r > (now + 1) \div r
      <4>1. d > now + 1
        BY <2>2, <2>3, <3>2, <3>4, DivOrder
      <4>2. Waits(d, l, s, now + 1)
        BY <2>6, <3>1, <3>4, <4>1 DEF Waits, r
      <4>3. QED
        BY <4>2 DEF d
    <3>5. CASE ~(d \div r > (now + 1) \div r)
      <4> DEFINE a == d \div r
                 b == now \div r
                 c == (now + 1) \div r
      <4>1. a \in Nat /\ b \in Nat /\ a > b /\ ~(a > c)
        BY <3>1, <3>2, <3>5
      <4>2. ((now + 1) % r = 0 => c = b + 1) /\ ((now + 1) % r # 0 => c = b)
        BY <3>3
      <4> HIDE DEF a, b, c
      <4>3. (now + 1) % r = 0 /\ a = c
        BY <4>1, <4>2
      <4>4. s = c % SLOTS
        BY <3>1, <4>3 DEF a
      <4>5. Crosses(l, s, now + 1)
        BY <3>1, <4>3, <4>4 DEF Crosses, c, r
      <4>6. QED
        BY <3>1, <4>5
    <3>6. QED
      BY <3>4, <3>5
  <2>7. QED
    BY <2>1, <2>4, <2>5, <2>6
<1>7. QED
  BY <1>2, <1>3, <1>5, <1>6

\* One tick: what it leaves waits for a later tick, what it wakes is exactly
\* what is due.
LEMMA OneTick ==
  ASSUME MultiLevel, NEW w, Tidy(w), NEW dl \in DeadlineMaps, Standing(w, dl),
         NEW now, now = w.current_tick + 1,
         NEW v, v = AdvanceOne(w, dl).wheel, NEW list, list = AdvanceOne(w, dl).woken
  PROVE  /\ Tidy(v) /\ Standing(v, dl) /\ v.current_tick = now
         /\ Registered(v) = {e \in Registered(w) : dl[e] > now}
         /\ list \in Seq(Entries) /\ IsInjective(list)
         /\ ToSet(list) = {e \in Registered(w) : dl[e] <= now}
<1> DEFINE u == [w EXCEPT !.current_tick = @ + 1]
           c == CascadeLevels(u, dl)
           s == now % SLOTS
<1>1. /\ Tidy(u) /\ u.current_tick = now /\ Registered(u) = Registered(w)
      /\ Cascading(u, dl, 0)
  <2>1. u = [w EXCEPT !.current_tick = @ + 1]
    OBVIOUS
  <2> HIDE DEF u
  <2>2. QED
    BY <2>1, TimeMoves
<1>2. /\ Tidy(c) /\ c.current_tick = now /\ Registered(c) = Registered(w)
      /\ Cascading(c, dl, LEVELS - 1)
  <2> HIDE DEF u
  <2>1. c = CascadeLevels(u, dl)
    OBVIOUS
  <2> HIDE DEF c
  <2>2. QED
    BY <1>1, <2>1, LevelsCascaded
<1>3. v = Detach(c, 0, s) /\ list = c.heads[0][s]
  <2>1. c.current_tick % SLOTS = s
    BY <1>2
  <2>2. AdvanceOne(w, dl) = [wheel |-> Detach(c, 0, c.current_tick % SLOTS),
                             woken |-> c.heads[0][c.current_tick % SLOTS]]
    BY DEF AdvanceOne
  <2> HIDE DEF c
  <2>3. QED
    BY <2>1, <2>2
<1> HIDE DEF u, c
<1>4. now \in Nat /\ 0 \in Levels /\ s \in Slots /\ c \in WheelValues
  <2>1. w.current_tick \in Nat
    BY Parts DEF Tidy
  <2>2. now \in Nat
    BY <2>1
  <2>3. QED
    BY <1>2, <2>2, SlotOf, WheelAssumption DEF Levels, Tidy
<1>5. s = now % SLOTS
  OBVIOUS
<1> HIDE DEF s
<1>6. /\ Tidy(v)
      /\ v.current_tick = c.current_tick
      /\ Registered(v) = Registered(c) \ ToSet(list)
      /\ \A x : \A m \in Levels, t \in Slots :
           LinkedAt(v, x, m, t) <=> LinkedAt(c, x, m, t) /\ ~(m = 0 /\ t = s)
      /\ list \in Seq(Entries) /\ IsInjective(list) /\ ToSet(list) \subseteq Registered(c)
  BY <1>2, <1>3, <1>4, DetachTidy
<1>7. ASSUME NEW x, NEW l \in Levels, NEW t \in Slots, LinkedAt(c, x, l, t)
      PROVE  Waits(dl[x], l, t, now) \/ DueNow(dl[x], l, t, now)
  <2>1. ~(l > LEVELS - 1)
    BY WheelAssumption DEF Levels
  <2>2. QED
    BY <1>2, <1>7, <2>1 DEF Cascading
<1>8. ASSUME NEW x \in ToSet(list) PROVE dl[x] <= now
  <2>1. LinkedAt(c, x, 0, s)
    BY <1>3 DEF LinkedAt
  <2>2. dl[x] \in Nat
    BY <1>2, <1>4, <1>6, RegisteredIs DEF DeadlineMaps
  <2>3. CASE Waits(dl[x], 0, s, now)
    <3> DEFINE d == dl[x]
    <3>1. d > now /\ s = (d \div Resolution[0]) % SLOTS /\ d - now < SLOTS
      BY <2>3 DEF Waits
    <3> HIDE DEF d
    <3>2. d \div Resolution[0] = d /\ d \in Nat
      BY <2>2, DivOne, Resolutions DEF d
    <3>3. d >= now /\ d < now + SLOTS /\ d % SLOTS = now % SLOTS /\ SLOTS \in Nat \ {0}
      BY <1>4, <1>5, <3>1, <3>2, WheelAssumption
    <3>4. d = now
      BY <1>4, <3>2, <3>3, ModClose
    <3>5. QED
      BY <1>4, <3>1, <3>4
  <2>4. CASE DueNow(dl[x], 0, s, now)
    BY <2>4 DEF DueNow
  <2>5. QED
    BY <1>4, <1>7, <2>1, <2>3, <2>4
<1>9. ASSUME NEW x, NEW l \in Levels, NEW t \in Slots, LinkedAt(v, x, l, t)
      PROVE  Waits(dl[x], l, t, now)
  <2>1. LinkedAt(c, x, l, t) /\ ~(l = 0 /\ t = s)
    BY <1>6, <1>9
  <2>2. ~DueNow(dl[x], l, t, now)
    BY <1>5, <2>1 DEF DueNow
  <2>3. QED
    BY <1>7, <2>1, <2>2
<1>10. Standing(v, dl)
  BY <1>2, <1>6, <1>9 DEF Standing
<1>11. ASSUME NEW x \in Registered(v) PROVE dl[x] > now
  <2>1. v \in WheelValues
    BY <1>6 DEF Tidy
  <2>2. PICK l \in Levels, t \in Slots : LinkedAt(v, x, l, t)
    BY <2>1, RegisteredIs
  <2>3. QED
    BY <1>9, <2>2 DEF Waits
<1>12. \A x \in Registered(w) : dl[x] \in Nat
  BY RegisteredIs DEF Tidy, DeadlineMaps
<1>13. Registered(v) = {e \in Registered(w) : dl[e] > now}
  BY <1>2, <1>4, <1>6, <1>8, <1>11, <1>12
<1>14. ToSet(list) = {e \in Registered(w) : dl[e] <= now}
  BY <1>2, <1>4, <1>6, <1>8, <1>11, <1>12
<1>15. QED
  BY <1>2, <1>6, <1>10, <1>13, <1>14

-----------------------------------------------------------------------------
\* The tick at which an entry with deadline d that is linked now fires.
DueAt(d, now) == IF d > now THEN d ELSE now + 1

\* A list in the order of `due`.
InOrder(list, due) ==
  \A i, j \in DOMAIN list : i < j => due[list[i]] <= due[list[j]]

\* Two lists that share no entry, one after the other.
LEMMA JoinLists ==
  ASSUME NEW S, NEW a \in Seq(S), NEW b \in Seq(S), IsInjective(a), IsInjective(b),
         ToSet(a) \cap ToSet(b) = {}
  PROVE  /\ a \o b \in Seq(S) /\ IsInjective(a \o b) /\ ToSet(a \o b) = ToSet(a) \cup ToSet(b)
         /\ \A due : /\ InOrder(a, due) /\ InOrder(b, due)
                     /\ \A x \in ToSet(a), y \in ToSet(b) : due[x] <= due[y]
                     => InOrder(a \o b, due)
<1> DEFINE c == a \o b
           m == Len(a)
           n == Len(b)
<1>1. /\ c \in Seq(S) /\ m \in Nat /\ n \in Nat
      /\ Len(c) = m + n /\ DOMAIN c = 1..(m + n) /\ DOMAIN a = 1..m /\ DOMAIN b = 1..n
      /\ \A i \in 1..m : c[i] = a[i]
      /\ \A i \in 1..n : c[m + i] = b[i]
  BY ConcatElements
<1> HIDE DEF c, m, n
<1>2. ASSUME NEW i \in 1..(m + n)
      PROVE  \/ i \in 1..m /\ c[i] = a[i] /\ c[i] \in ToSet(a)
             \/ i > m /\ i - m \in 1..n /\ c[i] = b[i - m] /\ c[i] \in ToSet(b)
  <2>1. CASE i \in 1..m
    BY <1>1, <2>1 DEF ToSet
  <2>2. CASE i \notin 1..m
    <3>1. i > m /\ i - m \in 1..n /\ m + (i - m) = i
      BY <1>1, <2>2
    <3>2. c[i] = b[i - m]
      BY <1>1, <3>1
    <3>3. QED
      BY <1>1, <3>1, <3>2 DEF ToSet
  <2>3. QED
    BY <2>1, <2>2
<1>3. (\A i, j \in 1..m : a[i] = a[j] => i = j) /\ (\A i, j \in 1..n : b[i] = b[j] => i = j)
  BY <1>1 DEF IsInjective
<1>4. IsInjective(c)
  <2> SUFFICES ASSUME NEW i \in 1..(m + n), NEW j \in 1..(m + n), c[i] = c[j] PROVE i = j
    BY <1>1 DEF IsInjective
  <2>1. CASE i \in 1..m /\ j \in 1..m
    BY <1>1, <1>3, <2>1
  <2>2. CASE i \notin 1..m /\ j \notin 1..m
    <3>1. i - m = j - m
      BY <1>2, <1>3, <2>2
    <3>2. QED
      BY <1>1, <3>1
  <2>3. CASE i \in 1..m /\ j \notin 1..m
    <3>1. i \in Int /\ j \in Int /\ ~(i > m) /\ c[i] \in ToSet(a) /\ c[j] \in ToSet(b)
      BY <1>1, <1>2, <2>3
    <3>2. QED
      BY <3>1
  <2>4. CASE i \notin 1..m /\ j \in 1..m
    <3>1. i \in Int /\ j \in Int /\ ~(j > m) /\ c[i] \in ToSet(b) /\ c[j] \in ToSet(a)
      BY <1>1, <1>2, <2>4
    <3>2. QED
      BY <3>1
  <2>5. QED
    BY <2>1, <2>2, <2>3, <2>4
<1>5. ToSet(c) = ToSet(a) \cup ToSet(b)
  <2>1. ASSUME NEW x \in ToSet(c) PROVE x \in ToSet(a) \cup ToSet(b)
    <3>1. PICK i \in 1..(m + n) : x = c[i]
      BY <1>1 DEF ToSet
    <3>2. QED
      BY <1>2, <3>1
  <2>2. ASSUME NEW x \in ToSet(a) PROVE x \in ToSet(c)
    <3>1. PICK i \in 1..m : x = a[i]
      BY <1>1 DEF ToSet
    <3>2. i \in DOMAIN c /\ c[i] = x
      BY <1>1, <3>1
    <3>3. QED
      BY <3>2 DEF ToSet
  <2>3. ASSUME NEW x \in ToSet(b) PROVE x \in ToSet(c)
    <3>1. PICK i \in 1..n : x = b[i]
      BY <1>1 DEF ToSet
    <3>2. m + i \in DOMAIN c /\ c[m + i] = x
      BY <1>1, <3>1
    <3>3. QED
      BY <3>2 DEF ToSet
  <2>4. QED
    BY <2>1, <2>2, <2>3
<1>6. ASSUME NEW due, InOrder(a, due), InOrder(b, due),
             \A x \in ToSet(a), y \in ToSet(b) : due[x] <= due[y]
      PROVE  InOrder(c, due)
  <2> SUFFICES ASSUME NEW i \in 1..(m + n), NEW j \in 1..(m + n), i < j
               PROVE  due[c[i]] <= due[c[j]]
    BY <1>1 DEF InOrder
  <2>1. CASE j \in 1..m
    <3>1. i \in 1..m
      BY <1>1, <2>1
    <3>2. QED
      BY <1>1, <1>6, <2>1, <3>1 DEF InOrder
  <2>2. CASE i \notin 1..m
    <3>1. i > m /\ j > m /\ i - m \in 1..n /\ j - m \in 1..n /\ i - m < j - m /\ j \notin 1..m
      BY <1>1, <2>2
    <3>2. c[i] = b[i - m] /\ c[j] = b[j - m]
      BY <1>2, <2>2, <3>1
    <3>3. PICK p \in 1..n, q \in 1..n : p < q /\ c[i] = b[p] /\ c[j] = b[q]
      BY <3>1, <3>2
    <3>4. due[b[p]] <= due[b[q]]
      BY <1>1, <1>6, <3>3 DEF InOrder
    <3>5. QED
      BY <3>3, <3>4
  <2>3. CASE i \in 1..m /\ j \notin 1..m
    <3>1. i \in Int /\ j \in Int /\ ~(i > m) /\ c[i] \in ToSet(a) /\ c[j] \in ToSet(b)
      BY <1>1, <1>2, <2>3
    <3>2. QED
      BY <1>6, <3>1
  <2>4. QED
    BY <2>1, <2>2, <2>3
<1>7. QED
  BY <1>1, <1>4, <1>5, <1>6 DEF c

\* `run` is a catch-up of i ticks from w: exactly the entries due by then were
\* woken, each once and in the order of their deadlines, and the others are
\* still linked.
Ran(run, w, dl, i) ==
  /\ Tidy(run.wheel) /\ Standing(run.wheel, dl)
  /\ run.wheel.current_tick = w.current_tick + i
  /\ Registered(run.wheel) = {e \in Registered(w) : DueAt(dl[e], w.current_tick) > w.current_tick + i}
  /\ run.woken \in Seq(Entries) /\ IsInjective(run.woken)
  /\ ToSet(run.woken) = {e \in Registered(w) : DueAt(dl[e], w.current_tick) <= w.current_tick + i}
  /\ InOrder(run.woken, [e \in Entries |-> DueAt(dl[e], w.current_tick)])

\* One more tick of a catch-up.
LEMMA RanAgain ==
  ASSUME MultiLevel, NEW w, Tidy(w), NEW dl \in DeadlineMaps, NEW i \in Nat,
         NEW run, Ran(run, w, dl, i)
  PROVE  Ran(AdvanceAgain(run, dl), w, dl, i + 1)
<1> DEFINE start == w.current_tick
           now == start + (i + 1)
           at == [e \in Entries |-> DueAt(dl[e], start)]
           u == run.wheel
           a == run.woken
           v == AdvanceOne(u, dl).wheel
           b == AdvanceOne(u, dl).woken
           R == Registered(w)
<1>1. AdvanceAgain(run, dl).wheel = v /\ AdvanceAgain(run, dl).woken = a \o b
  BY DEF AdvanceAgain
<1>2. start \in Nat /\ R \subseteq Entries
  BY Parts, RegisteredIs DEF Tidy
<1>3. \A e \in R : e \in Entries /\ dl[e] \in Nat /\ at[e] = DueAt(dl[e], start) /\ at[e] \in Nat
  BY <1>2 DEF DeadlineMaps, DueAt
<1> HIDE DEF at, start
<1>4. /\ Tidy(u) /\ Standing(u, dl) /\ u.current_tick = start + i
      /\ a \in Seq(Entries) /\ IsInjective(a)
      /\ InOrder(a, at)
  BY DEF Ran, at, start
<1>5. Registered(u) = {e \in R : at[e] > start + i} /\ ToSet(a) = {e \in R : at[e] <= start + i}
  <2>1. Registered(u) = {e \in R : DueAt(dl[e], start) > start + i}
        /\ ToSet(a) = {e \in R : DueAt(dl[e], start) <= start + i}
    BY DEF Ran, start
  <2>2. QED
    BY <1>3, <2>1
<1> HIDE DEF R
<1>6. now = u.current_tick + 1 /\ now \in Nat
  BY <1>2, <1>4
<1> HIDE DEF now
<1>7. /\ Tidy(v) /\ Standing(v, dl) /\ v.current_tick = now
      /\ Registered(v) = {e \in Registered(u) : dl[e] > now}
      /\ b \in Seq(Entries) /\ IsInjective(b)
      /\ ToSet(b) = {e \in Registered(u) : dl[e] <= now}
  <2> HIDE DEF u
  <2>1. v = AdvanceOne(u, dl).wheel /\ b = AdvanceOne(u, dl).woken
    OBVIOUS
  <2> HIDE DEF v, b
  <2>2. QED
    BY <1>4, <1>6, <2>1, OneTick
<1> HIDE DEF u, v, a, b
<1>8. ASSUME NEW e \in R, at[e] > start + i
      PROVE  (dl[e] <= now <=> at[e] = now) /\ (dl[e] > now <=> at[e] > now)
  <2>1. dl[e] \in Nat /\ at[e] = DueAt(dl[e], start)
    BY <1>3
  <2>2. QED
    BY <1>2, <1>8, <2>1 DEF DueAt, now
<1>9. Registered(v) = {e \in R : at[e] > now}
  <2>1. \A e \in R : at[e] > now => at[e] > start + i
    BY <1>2, <1>3 DEF now
  <2>2. QED
    BY <1>5, <1>7, <1>8, <2>1
<1>10. ToSet(b) = {e \in R : at[e] = now}
  <2>1. \A e \in R : at[e] = now => at[e] > start + i
    BY <1>2, <1>3 DEF now
  <2>2. QED
    BY <1>5, <1>7, <1>8, <2>1
<1>11. ToSet(a) \cap ToSet(b) = {}
  <2>1. \A e \in R : ~(at[e] <= start + i /\ at[e] = now)
    BY <1>2, <1>3 DEF now
  <2>2. QED
    BY <1>5, <1>10, <2>1
<1>12. ToSet(a) \cup ToSet(b) = {e \in R : at[e] <= now}
  <2>1. \A e \in R : at[e] <= now <=> at[e] <= start + i \/ at[e] = now
    BY <1>2, <1>3 DEF now
  <2>2. QED
    BY <1>5, <1>10, <2>1
<1>13. InOrder(b, at)
  <2> SUFFICES ASSUME NEW k \in DOMAIN b, NEW m \in DOMAIN b PROVE at[b[k]] <= at[b[m]]
    BY DEF InOrder
  <2>1. b[k] \in ToSet(b) /\ b[m] \in ToSet(b)
    BY DEF ToSet
  <2>2. at[b[k]] = now /\ at[b[m]] = now
    BY <1>10, <2>1
  <2>3. QED
    BY <1>6, <2>2
<1>14. \A x \in ToSet(a), y \in ToSet(b) : at[x] <= at[y]
  BY <1>2, <1>3, <1>5, <1>10 DEF now
<1>15. /\ a \o b \in Seq(Entries) /\ IsInjective(a \o b) /\ ToSet(a \o b) = ToSet(a) \cup ToSet(b)
       /\ InOrder(a \o b, at)
  <2>1. a \in Seq(Entries) /\ b \in Seq(Entries) /\ IsInjective(a) /\ IsInjective(b)
    BY <1>4, <1>7
  <2>2. /\ a \o b \in Seq(Entries) /\ IsInjective(a \o b) /\ ToSet(a \o b) = ToSet(a) \cup ToSet(b)
        /\ \A due : /\ InOrder(a, due) /\ InOrder(b, due)
                    /\ \A x \in ToSet(a), y \in ToSet(b) : due[x] <= due[y]
                    => InOrder(a \o b, due)
    BY <1>11, <2>1, JoinLists
  <2>3. QED
    BY <1>4, <1>13, <1>14, <2>2
<1>16. /\ Registered(v) = {e \in R : DueAt(dl[e], start) > now}
       /\ ToSet(a \o b) = {e \in R : DueAt(dl[e], start) <= now}
  BY <1>3, <1>9, <1>12, <1>15
<1>17. QED
  BY <1>1, <1>7, <1>15, <1>16 DEF Ran, now, start, R, at

\* g is the run of a catch-up of n ticks from w to `target`.
TicksRunOf(g, w, dl, target, n) ==
  /\ g[0] = [wheel |-> w, woken |-> <<>>]
  /\ \A i \in 1..n : g[i] = AdvanceAgain(g[i - 1], dl)
  /\ AdvanceTo(w, dl, target) = g[n]
  /\ \A i \in 0..n : Ran(g[i], w, dl, i)

\* The recursion of AdvanceTo.
LEMMA TicksRun ==
  ASSUME MultiLevel, NEW w, Tidy(w), NEW dl \in DeadlineMaps, Standing(w, dl), NEW target \in Nat,
         NEW n, n = IF target > w.current_tick THEN target - w.current_tick ELSE 0
  PROVE  n \in Nat /\ \E g : TicksRunOf(g, w, dl, target, n)
<1> DEFINE Runs == [wheel : WheelValues, woken : Seq(Entries)]
           V == {run \in Runs : Tidy(run.wheel) /\ Standing(run.wheel, dl)}
           base == [wheel |-> w, woken |-> <<>>]
           step == [p \in (1..n) \X V |-> AdvanceAgain(p[2], dl)]
<1>1. n \in Nat /\ w \in WheelValues /\ w.current_tick \in Nat
  BY Parts DEF Tidy
<1>2. base \in V
  BY <1>1
<1>3. ASSUME NEW run \in V PROVE AdvanceAgain(run, dl) \in V
  <2> DEFINE u == run.wheel
             v == AdvanceOne(u, dl).wheel
             b == AdvanceOne(u, dl).woken
             now == u.current_tick + 1
  <2>1. AdvanceAgain(run, dl) = [wheel |-> v, woken |-> run.woken \o b]
    BY DEF AdvanceAgain
  <2>2. Tidy(u) /\ Standing(u, dl) /\ run.woken \in Seq(Entries)
    OBVIOUS
  <2> HIDE DEF u
  <2>3. v = AdvanceOne(u, dl).wheel /\ b = AdvanceOne(u, dl).woken /\ now = u.current_tick + 1
    OBVIOUS
  <2> HIDE DEF v, b, now
  <2>4. Tidy(v) /\ Standing(v, dl) /\ b \in Seq(Entries)
    BY <2>2, <2>3, OneTick
  <2>5. v \in WheelValues /\ run.woken \o b \in Seq(Entries)
    BY <2>2, <2>4, ConcatElements DEF Tidy
  <2>6. QED
    BY <2>1, <2>4, <2>5
<1> HIDE DEF V, base
<1>4. step \in [(1..n) \X V -> V]
  <2>1. ASSUME NEW p \in (1..n) \X V PROVE AdvanceAgain(p[2], dl) \in V
    <3>1. p[2] \in V
      OBVIOUS
    <3>2. QED
      BY <1>3, <3>1
  <2>2. QED
    BY <2>1
<1>5. PICK f : IsRun(f, V, n, base, step)
  <2> HIDE DEF step
  <2> QED BY <1>1, <1>2, <1>4, Recursion
<1>6. f \in [0..n -> V] /\ f[0] = base /\ \A i \in 1..n : f[i] = AdvanceAgain(f[i - 1], dl)
  <2>1. f \in [0..n -> V] /\ f[0] = base /\ \A i \in 1..n : f[i] = step[<<i, f[i - 1]>>]
    <3> HIDE DEF step
    <3> QED BY <1>5 DEF IsRun
  <2>2. ASSUME NEW i \in 1..n PROVE step[<<i, f[i - 1]>>] = AdvanceAgain(f[i - 1], dl)
    <3>1. f[i - 1] \in V
      BY <1>1, <2>1
    <3>2. QED
      BY <3>1
  <2> HIDE DEF step
  <2>3. QED
    BY <2>1, <2>2
<1> HIDE DEF step
<1>7. f = [i \in 0..n |-> IF i = 0 THEN base ELSE AdvanceAgain(f[i - 1], dl)]
  <2>1. f = [i \in 0..n |-> f[i]]
    BY <1>6
  <2>2. ASSUME NEW i \in 0..n PROVE f[i] = IF i = 0 THEN base ELSE AdvanceAgain(f[i - 1], dl)
    <3>1. i = 0 \/ i \in 1..n
      BY <1>1
    <3>2. QED
      BY <1>6, <3>1
  <2>3. QED
    BY <2>1, <2>2
<1> DEFINE g == CHOOSE g : g = [i \in 0..n |-> IF i = 0 THEN base ELSE AdvanceAgain(g[i - 1], dl)]
<1>8. g = [i \in 0..n |-> IF i = 0 THEN base ELSE AdvanceAgain(g[i - 1], dl)]
  BY <1>7
<1>9. AdvanceTo(w, dl, target) = g[n]
  BY DEF AdvanceTo, base
<1> HIDE DEF g
<1>10. g[0] = base /\ \A i \in 1..n : g[i] = AdvanceAgain(g[i - 1], dl)
  <2>1. \A i \in 0..n : g[i] = IF i = 0 THEN base ELSE AdvanceAgain(g[i - 1], dl)
    BY <1>8
  <2>2. 0 \in 0..n /\ \A i \in 1..n : i \in 0..n /\ i # 0
    BY <1>1
  <2>3. QED
    BY <2>1, <2>2
<1> DEFINE S == {i \in 0..n : Ran(g[i], w, dl, i)}
<1>11. 0 \in S
  <2>1. \A e \in Registered(w) : dl[e] \in Nat
    BY <1>1, RegisteredIs DEF DeadlineMaps
  <2>2. \A e \in Registered(w) :
          DueAt(dl[e], w.current_tick) > w.current_tick + 0
          /\ ~(DueAt(dl[e], w.current_tick) <= w.current_tick + 0)
    BY <1>1, <2>1 DEF DueAt
  <2>3. ToSet(<<>>) = {} /\ IsInjective(<<>>) /\ <<>> \in Seq(Entries)
    BY DEF ToSet, IsInjective
  <2>4. InOrder(<<>>, [e \in Entries |-> DueAt(dl[e], w.current_tick)])
    BY DEF InOrder
  <2>5. base.wheel = w /\ base.woken = <<>>
    BY DEF base
  <2>6. w.current_tick = w.current_tick + 0
    BY <1>1
  <2>7. Ran(base, w, dl, 0)
    BY <2>2, <2>3, <2>4, <2>5, <2>6 DEF Ran
  <2>8. QED
    BY <1>1, <1>10, <2>7
<1>12. ASSUME NEW i \in 0..(n - 1), i \in S PROVE i + 1 \in S
  <2>1. i + 1 \in 1..n /\ i + 1 \in 0..n /\ (i + 1) - 1 = i /\ i \in Nat
    BY <1>1
  <2>2. Ran(g[i], w, dl, i)
    BY <1>12
  <2>3. g[i + 1] = AdvanceAgain(g[i], dl)
    BY <1>10, <2>1
  <2>4. Ran(AdvanceAgain(g[i], dl), w, dl, i + 1)
    BY <2>1, <2>2, RanAgain
  <2>5. QED
    BY <2>1, <2>3, <2>4
<1>13. 0..n \subseteq S
  <2> HIDE DEF S
  <2> QED BY <1>1, <1>11, <1>12, SetInduction
<1>14. \A i \in 0..n : Ran(g[i], w, dl, i)
  BY <1>13
<1>15. TicksRunOf(g, w, dl, target, n)
  BY <1>9, <1>10, <1>14 DEF TicksRunOf, base
<1>16. QED
  BY <1>1, <1>15

\* What a catch-up does.
LEMMA CatchUp ==
  ASSUME MultiLevel, NEW w, Tidy(w), NEW dl \in DeadlineMaps, Standing(w, dl), NEW target \in Nat,
         NEW n, n = IF target > w.current_tick THEN target - w.current_tick ELSE 0
  PROVE  n \in Nat /\ Ran(AdvanceTo(w, dl, target), w, dl, n)
<1>1. n \in Nat
  BY TicksRun
<1>2. PICK g : TicksRunOf(g, w, dl, target, n)
  BY TicksRun
<1>3. n \in 0..n
  BY <1>1
<1>4. QED
  BY <1>1, <1>2, <1>3 DEF TicksRunOf

\* The same of a single tick.
LEMMA TickRan ==
  ASSUME MultiLevel, NEW w, Tidy(w), NEW dl \in DeadlineMaps, Standing(w, dl)
  PROVE  Ran(AdvanceOne(w, dl), w, dl, 1)
<1> DEFINE start == w.current_tick
           now == start + 1
           v == AdvanceOne(w, dl).wheel
           b == AdvanceOne(w, dl).woken
           at == [e \in Entries |-> DueAt(dl[e], start)]
<1>1. start \in Nat /\ \A e \in Registered(w) : e \in Entries /\ dl[e] \in Nat
  BY Parts, RegisteredIs DEF Tidy, DeadlineMaps
<1>2. /\ Tidy(v) /\ Standing(v, dl) /\ v.current_tick = now
      /\ Registered(v) = {e \in Registered(w) : dl[e] > now}
      /\ b \in Seq(Entries) /\ IsInjective(b)
      /\ ToSet(b) = {e \in Registered(w) : dl[e] <= now}
  <2>1. v = AdvanceOne(w, dl).wheel /\ b = AdvanceOne(w, dl).woken /\ now = w.current_tick + 1
    OBVIOUS
  <2> HIDE DEF v, b, now
  <2>2. QED
    BY <2>1, OneTick
<1>3. \A e \in Registered(w) : /\ DueAt(dl[e], start) > now <=> dl[e] > now
                               /\ DueAt(dl[e], start) <= now <=> dl[e] <= now
                               /\ dl[e] <= now => at[e] = now
  BY <1>1 DEF DueAt
<1>4. InOrder(b, at)
  <2> SUFFICES ASSUME NEW k \in DOMAIN b, NEW m \in DOMAIN b PROVE at[b[k]] <= at[b[m]]
    BY DEF InOrder
  <2> HIDE DEF v, b, at
  <2>1. b[k] \in ToSet(b) /\ b[m] \in ToSet(b)
    BY DEF ToSet
  <2>2. at[b[k]] = now /\ at[b[m]] = now
    BY <1>2, <1>3, <2>1
  <2>3. QED
    BY <1>1, <2>2
<1>5. Registered(v) = {e \in Registered(w) : DueAt(dl[e], start) > now}
  BY <1>2, <1>3
<1>6. ToSet(b) = {e \in Registered(w) : DueAt(dl[e], start) <= now}
  BY <1>2, <1>3
<1>7. QED
  BY <1>2, <1>4, <1>5, <1>6 DEF Ran

-----------------------------------------------------------------------------
(* The wheel between two calls. *)

\* The inductive invariant: no entry is linked twice, `pending` counts the
\* linked entries, and every one of them waits in a slot that is visited after
\* the current tick and not after its deadline, or is overdue.
Inv ==
  /\ Tidy(wheel)
  /\ deadline \in DeadlineMaps
  /\ Standing(wheel, deadline)
  /\ woken \in Seq(Entries)
  /\ wheel.current_tick <= MaxTick

\* A new wheel holds nothing.
LEMMA NewIsTidy ==
  Tidy(NewWheel) /\ NewWheel.current_tick = 0 /\ Registered(NewWheel) = {}
<1>1. NewWheel \in WheelValues
  BY DEF NewWheel, WheelValues
<1>2. \A l \in Levels, s \in Slots : NewWheel.heads[l][s] = <<>>
  BY DEF NewWheel
<1>3. \A x : \A l \in Levels, s \in Slots : ~LinkedAt(NewWheel, x, l, s)
  BY <1>2 DEF LinkedAt, ToSet
<1>4. Registered(NewWheel) = {}
  BY <1>1, <1>3, RegisteredIs
<1>5. Once(NewWheel)
  BY <1>2 DEF Once
<1>6. NewWheel.pending = Cardinality({}) /\ NewWheel.current_tick = 0
  BY FS_EmptySet DEF NewWheel
<1>7. QED
  BY <1>1, <1>4, <1>5, <1>6 DEF Tidy

\* The first state.
LEMMA InitInv ==
  ASSUME Init
  PROVE  Inv
<1>1. Tidy(wheel) /\ wheel.current_tick = 0 /\ Registered(wheel) = {}
  BY NewIsTidy DEF Init
<1>2. deadline \in DeadlineMaps /\ woken \in Seq(Entries)
  BY DEF Init, DeadlineMaps
<1>3. Standing(wheel, deadline)
  <2>1. wheel \in WheelValues
    BY <1>1 DEF Tidy
  <2>2. \A x : \A l \in Levels, s \in Slots : ~LinkedAt(wheel, x, l, s)
    BY <1>1, <2>1, RegisteredIs
  <2>3. QED
    BY <2>2 DEF Standing
<1>4. wheel.current_tick <= MaxTick
  BY <1>1, TimerWheelAssumption
<1>5. QED
  BY <1>1, <1>2, <1>3, <1>4 DEF Inv

\* What a step that drains entries does.
LEMMA DrainStep ==
  ASSUME Inv, NEW n \in Nat, NEW step, Ran(step, wheel, deadline, n), Drained(step),
         wheel.current_tick + n <= MaxTick
  PROVE  /\ Inv'
         /\ \A e \in Registered(wheel') : deadline'[e] = deadline[e]
<1>1. /\ wheel' = step.wheel /\ woken' = step.woken
      /\ deadline' = [e \in Entries |-> IF e \in Range(step.woken) THEN 0 ELSE deadline[e]]
  BY DEF Drained, Forget
<1>2. /\ Tidy(step.wheel) /\ Standing(step.wheel, deadline)
      /\ step.wheel.current_tick = wheel.current_tick + n
      /\ step.woken \in Seq(Entries)
      /\ Registered(step.wheel)
           = {e \in Registered(wheel) : DueAt(deadline[e], wheel.current_tick) > wheel.current_tick + n}
      /\ ToSet(step.woken)
           = {e \in Registered(wheel) : DueAt(deadline[e], wheel.current_tick) <= wheel.current_tick + n}
  BY DEF Ran
<1>3. wheel.current_tick \in Nat /\ Registered(wheel) \subseteq Entries /\ deadline \in DeadlineMaps
  BY Parts, RegisteredIs DEF Inv, Tidy
<1>4. Range(step.woken) = ToSet(step.woken)
  BY DEF Range, ToSet
<1>5. \A e \in Registered(step.wheel) : e \in Entries /\ e \notin ToSet(step.woken)
  <2>1. \A e \in Registered(wheel) : deadline[e] \in Nat
    BY <1>3 DEF DeadlineMaps
  <2>2. \A e \in Registered(wheel) : DueAt(deadline[e], wheel.current_tick) \in Nat
    BY <1>3, <2>1 DEF DueAt
  <2>3. QED
    BY <1>2, <1>3, <2>2
<1>6. \A e \in Registered(step.wheel) : deadline'[e] = deadline[e]
  BY <1>1, <1>4, <1>5
<1>7. deadline' \in DeadlineMaps
  BY <1>1, <1>3 DEF DeadlineMaps
<1>8. Standing(step.wheel, deadline')
  <2>1. step.wheel \in WheelValues
    BY <1>2 DEF Tidy
  <2>2. QED
    BY <1>2, <1>6, <2>1, StandingSame
<1>9. QED
  BY <1>1, <1>2, <1>6, <1>7, <1>8 DEF Inv

\* What insert does.
LEMMA InsertStep ==
  ASSUME MultiLevel, Inv, NEW e \in Entries, NEW d \in Deadlines, Insert(e, d)
  PROVE  /\ Inv'
         /\ e \notin Registered(wheel)
         /\ Registered(wheel') = Registered(wheel) \cup {e}
         /\ wheel'.current_tick = wheel.current_tick
<1>1. /\ ~IsRegistered(wheel, e)
      /\ deadline' = [deadline EXCEPT ![e] = d]
      /\ wheel' = InsertEntry(wheel, deadline', e)
      /\ woken' = <<>>
  BY DEF Insert
<1>2. Tidy(wheel) /\ wheel \in WheelValues /\ deadline \in DeadlineMaps /\ Standing(wheel, deadline)
  BY DEF Inv, Tidy
<1>3. e \notin Registered(wheel)
  BY <1>1, <1>2, RegisteredIs DEF IsRegistered
<1>4. deadline' \in DeadlineMaps
  BY <1>1, <1>2, TimerWheelAssumption DEF DeadlineMaps
<1>5. Standing(wheel, deadline')
  <2>1. \A x \in Registered(wheel) : deadline'[x] = deadline[x]
    <3>1. Registered(wheel) \subseteq Entries
      BY <1>2, RegisteredIs
    <3>2. QED
      BY <1>1, <1>2, <1>3, <3>1 DEF DeadlineMaps
  <2>2. QED
    BY <1>2, <2>1, StandingSame
<1>6. /\ Tidy(wheel') /\ Standing(wheel', deadline')
      /\ wheel'.current_tick = wheel.current_tick
      /\ Registered(wheel') = Registered(wheel) \cup {e}
  <2>1. ASSUME NEW dl \in DeadlineMaps, NEW v, Standing(wheel, dl), v = InsertEntry(wheel, dl, e)
        PROVE  /\ Tidy(v) /\ Standing(v, dl)
               /\ v.current_tick = wheel.current_tick
               /\ Registered(v) = Registered(wheel) \cup {e}
    BY <1>2, <1>3, <2>1, InsertStanding
  <2>2. QED
    BY <1>1, <1>4, <1>5, <2>1
<1>7. woken' \in Seq(Entries)
  BY <1>1
<1>8. wheel'.current_tick <= MaxTick
  BY <1>6 DEF Inv
<1>9. QED
  BY <1>3, <1>4, <1>6, <1>7, <1>8 DEF Inv

\* What remove does.
LEMMA RemoveStep ==
  ASSUME Inv, NEW e \in Entries, RemoveCall(e)
  PROVE  /\ Inv'
         /\ Registered(wheel') = Registered(wheel) \ {e}
         /\ wheel'.current_tick = wheel.current_tick
         /\ \A x \in Registered(wheel') : deadline'[x] = deadline[x]
<1>1. /\ wheel' = RemoveEntry(wheel, e)
      /\ deadline' = [x \in Entries |-> IF x \in {e} THEN 0 ELSE deadline[x]]
      /\ woken' = <<>>
  BY DEF RemoveCall, Forget
<1>2. Tidy(wheel) /\ wheel \in WheelValues /\ deadline \in DeadlineMaps /\ Standing(wheel, deadline)
  BY DEF Inv, Tidy
<1>3. /\ Tidy(wheel') /\ Standing(wheel', deadline)
      /\ wheel'.current_tick = wheel.current_tick
      /\ Registered(wheel') = Registered(wheel) \ {e}
  BY <1>1, <1>2, RemoveStanding
<1>4. \A x \in Registered(wheel') : deadline'[x] = deadline[x]
  BY <1>1, <1>2, <1>3, RegisteredIs
<1>5. Standing(wheel', deadline')
  <2>1. wheel' \in WheelValues
    BY <1>3 DEF Tidy
  <2>2. QED
    BY <1>3, <1>4, <2>1, StandingSame
<1>6. deadline' \in DeadlineMaps
  BY <1>1, <1>2 DEF DeadlineMaps
<1>7. woken' \in Seq(Entries) /\ wheel'.current_tick <= MaxTick
  BY <1>1, <1>3 DEF Inv
<1>8. QED
  BY <1>3, <1>4, <1>5, <1>6, <1>7 DEF Inv

\* Every call keeps the invariant.
LEMMA NextInv ==
  ASSUME MultiLevel, Inv, [Next]_vars
  PROVE  Inv'
<1>1. Tidy(wheel) /\ deadline \in DeadlineMaps /\ Standing(wheel, deadline) /\ wheel.current_tick \in Nat
      /\ wheel.current_tick <= MaxTick
  BY Parts DEF Inv, Tidy
<1>2. ASSUME NEW e \in Entries, NEW d \in Deadlines, Insert(e, d) PROVE Inv'
  BY <1>2, InsertStep
<1>3. ASSUME NEW e \in Entries, RemoveCall(e) PROVE Inv'
  BY <1>3, RemoveStep
<1>4. CASE Tick
  <2>1. wheel.current_tick < MaxTick /\ Drained(AdvanceOne(wheel, deadline))
    BY <1>4 DEF Tick
  <2>2. Ran(AdvanceOne(wheel, deadline), wheel, deadline, 1)
    BY <1>1, TickRan
  <2>3. wheel.current_tick + 1 <= MaxTick
    BY <1>1, <2>1, TimerWheelAssumption
  <2>4. QED
    BY <2>1, <2>2, <2>3, DrainStep
<1>5. ASSUME NEW target \in 0..MaxTick, Advance(target) PROVE Inv'
  <2> DEFINE n == IF target > wheel.current_tick THEN target - wheel.current_tick ELSE 0
  <2>1. Drained(AdvanceTo(wheel, deadline, target)) /\ target \in Nat
    BY <1>5 DEF Advance
  <2>2. n \in Nat /\ Ran(AdvanceTo(wheel, deadline, target), wheel, deadline, n)
    <3>1. n = IF target > wheel.current_tick THEN target - wheel.current_tick ELSE 0
      OBVIOUS
    <3> HIDE DEF n
    <3>2. QED
      BY <1>1, <2>1, <3>1, CatchUp
  <2>3. wheel.current_tick + n <= MaxTick
    BY <1>1, TimerWheelAssumption
  <2> HIDE DEF n
  <2>4. QED
    BY <2>1, <2>2, <2>3, DrainStep
<1>6. CASE UNCHANGED vars
  BY <1>6 DEF vars, Inv
<1>7. QED
  BY <1>2, <1>3, <1>4, <1>5, <1>6 DEF Next

\* A tidy wheel's count is the number of its list positions.
LEMMA PositionsCounted ==
  ASSUME Tidy(wheel)
  PROVE  PendingCountsEntries
<1> DEFINE N == Cardinality(Entries)
           At == {p \in Levels \X Slots \X (1..N) : p[3] <= Len(wheel.heads[p[1]][p[2]])}
           f == [p \in At |-> wheel.heads[p[1]][p[2]][p[3]]]
           R == Registered(wheel)
<1>1. wheel \in WheelValues /\ Once(wheel) /\ wheel.pending = Cardinality(R)
  BY DEF Tidy
<1>2. IsFiniteSet(R) /\ R \subseteq Entries /\ IsFiniteSet(Entries) /\ N \in Nat
  BY <1>1, RegisteredIs, TimerWheelAssumption, FS_CardinalityType
<1> HIDE DEF N
<1>3. ASSUME NEW l \in Levels, NEW s \in Slots
      PROVE  /\ Len(wheel.heads[l][s]) \in 0..N
             /\ DOMAIN wheel.heads[l][s] = 1..Len(wheel.heads[l][s])
  <2> DEFINE list == wheel.heads[l][s]
  <2>1. list \in Seq(Entries) /\ IsInjective(list)
    BY <1>1, Parts DEF Once, IsInjective
  <2>2. ToSet(list) \subseteq R
    BY <1>1, RegisteredIs DEF LinkedAt
  <2> HIDE DEF list, R
  <2>3. IsFiniteSet(ToSet(list)) /\ Cardinality(ToSet(list)) = Len(list)
    BY <2>1, DistinctCount
  <2>4. ToSet(list) \in SUBSET Entries
    BY <1>2, <2>2
  <2>5. Cardinality(ToSet(list)) <= N
    BY <1>2, <2>4, FS_Subset DEF N
  <2>6. Len(list) \in Nat /\ DOMAIN list = 1..Len(list)
    BY <2>1
  <2>7. QED
    BY <1>2, <2>3, <2>5, <2>6 DEF list
<1>4. ASSUME NEW p \in At
      PROVE  /\ p[1] \in Levels /\ p[2] \in Slots /\ p[3] \in DOMAIN wheel.heads[p[1]][p[2]]
             /\ p = <<p[1], p[2], p[3]>>
  <2>1. p[1] \in Levels /\ p[2] \in Slots /\ p[3] \in 1..N /\ p[3] <= Len(wheel.heads[p[1]][p[2]])
        /\ p = <<p[1], p[2], p[3]>>
    OBVIOUS
  <2>2. QED
    BY <1>2, <1>3, <2>1
<1>5. ASSUME NEW l \in Levels, NEW s \in Slots, NEW i \in DOMAIN wheel.heads[l][s]
      PROVE  <<l, s, i>> \in At
  <2>1. i \in 1..N /\ i <= Len(wheel.heads[l][s])
    BY <1>2, <1>3
  <2>2. QED
    BY <2>1
<1> HIDE DEF At
<1>6. f \in [At -> R]
  <2>1. ASSUME NEW p \in At PROVE wheel.heads[p[1]][p[2]][p[3]] \in R
    <3>1. p[1] \in Levels /\ p[2] \in Slots /\ p[3] \in DOMAIN wheel.heads[p[1]][p[2]]
      BY <1>4
    <3>2. LinkedAt(wheel, wheel.heads[p[1]][p[2]][p[3]], p[1], p[2])
      BY <3>1 DEF LinkedAt, ToSet
    <3>3. QED
      BY <1>1, <3>1, <3>2, RegisteredIs
  <2> HIDE DEF R
  <2>2. QED
    BY <2>1
<1>7. ASSUME NEW p \in At, NEW q \in At, f[p] = f[q] PROVE p = q
  <2>1. p[1] = q[1] /\ p[2] = q[2] /\ p[3] = q[3]
    BY <1>1, <1>4, <1>7 DEF Once
  <2>2. QED
    BY <1>4, <2>1
<1>8. ASSUME NEW x \in R PROVE \E p \in At : f[p] = x
  <2>1. PICK l \in Levels, s \in Slots : LinkedAt(wheel, x, l, s)
    BY <1>1, RegisteredIs
  <2>2. PICK i \in DOMAIN wheel.heads[l][s] : x = wheel.heads[l][s][i]
    BY <2>1 DEF LinkedAt, ToSet
  <2>3. <<l, s, i>> \in At
    BY <1>5
  <2>4. f[<<l, s, i>>] = x
    BY <2>2, <2>3
  <2>5. QED
    BY <2>3, <2>4
<1> HIDE DEF f, R
<1>9. f \in Bijection(At, R)
  BY <1>6, <1>7, <1>8 DEF Bijection, Injection, Surjection, IsInjective
<1>10. ExistsBijection(R, At)
  <2>1. ExistsBijection(At, R)
    BY <1>9 DEF ExistsBijection
  <2>2. QED
    BY <2>1, Fun_ExistsBijSymmetric
<1>11. Cardinality(At) = Cardinality(R)
  BY <1>2, <1>10, FS_Bijection
<1>12. QED
  BY <1>1, <1>11 DEF PendingCountsEntries, At, R, N

\* The invariant is at least what WheelSound says.
LEMMA InvSound ==
  ASSUME Inv
  PROVE  WheelSound
<1>1. Tidy(wheel) /\ wheel \in WheelValues /\ deadline \in DeadlineMaps /\ Standing(wheel, deadline)
  BY DEF Inv, Tidy
<1>2. TypeOK
  <2>1. wheel.pending \in Nat
    BY <1>1, RegisteredIs DEF Tidy
  <2>2. /\ DOMAIN wheel = {"heads", "current_tick", "pending"}
        /\ wheel.heads \in [Levels -> [Slots -> Seq(Entries)]]
        /\ wheel.current_tick \in Nat
    BY <1>1 DEF WheelValues
  <2>3. deadline \in [Entries -> Nat] /\ woken \in Seq(Entries)
    BY DEF Inv, DeadlineMaps
  <2>4. QED
    BY <2>1, <2>2, <2>3 DEF TypeOK
<1>3. PendingCountsEntries
  BY <1>1, PositionsCounted
<1>4. StillReachable
  <2> DEFINE now == wheel.current_tick
  <2> SUFFICES ASSUME NEW l \in Levels, NEW s \in Slots, NEW e \in Entries, LinkedAt(wheel, e, l, s)
               PROVE  IF deadline[e] <= now
                      THEN l = 0 /\ s = (now + 1) % SLOTS
                      ELSE /\ s = (deadline[e] \div Resolution[l]) % SLOTS
                           /\ (deadline[e] \div Resolution[l]) * Resolution[l] > now
                           /\ l = 0 => deadline[e] - now < SLOTS
    BY DEF StillReachable
  <2> DEFINE d == deadline[e]
             r == Resolution[l]
  <2>1. now \in Nat /\ d \in Nat
    BY <1>1, Parts DEF DeadlineMaps
  <2>2. r \in Nat \ {0}
    BY Resolutions, WheelAssumption DEF Levels
  <2>3. Waits(d, l, s, now) \/ Overdue(d, l, s, now)
    BY <1>1 DEF Standing
  <2> HIDE DEF now, d, r
  <2>4. CASE Overdue(d, l, s, now)
    BY <2>1, <2>4 DEF Overdue, d, now
  <2>5. CASE Waits(d, l, s, now)
    <3>1. d > now /\ s = (d \div r) % SLOTS /\ d \div r > now \div r /\ (l = 0 => d - now < SLOTS)
      BY <2>5 DEF Waits, r
    <3>2. (d \div r) * r > now
      BY <2>1, <2>2, <3>1, DivOrder
    <3>3. ~(d <= now)
      BY <2>1, <3>1
    <3>4. QED
      BY <3>1, <3>2, <3>3 DEF d, r
  <2>6. QED
    BY <2>3, <2>4, <2>5
<1>5. QED
  BY <1>2, <1>3, <1>4 DEF WheelSound

\* In every reachable state of a wheel of at least two levels `len()` is
\* exact, no entry is linked twice, and every linked entry sits where a later
\* cascade or drain still finds it in time (wheel.rs: insert, remove, link,
\* cascade and the drain of advance_one), whatever the number of slots,
\* levels, entries and ticks.
THEOREM WheelIsSound == MultiLevel => (Spec => []WheelSound)
<1> SUFFICES ASSUME MultiLevel PROVE Spec => []WheelSound
  OBVIOUS
<1>1. Init => Inv
  BY InitInv
<1>2. Inv /\ [Next]_vars => Inv'
  BY NextInv
<1>3. Inv => WheelSound
  BY InvSound
<1>4. QED
  BY <1>1, <1>2, <1>3, PTL DEF Spec

-----------------------------------------------------------------------------
(* The wheel implements the timer service. *)

\* The initial state of the service.
LEMMA ServiceInit ==
  ASSUME Init
  PROVE  Service!Init
<1>1. wheel.current_tick = 0 /\ Registered(wheel) = {} /\ woken = <<>>
  BY NewIsTidy DEF Init
<1>2. [e \in Registered(wheel) |->
         IF deadline[e] > wheel.current_tick THEN deadline[e] ELSE wheel.current_tick + 1] = <<>>
  BY <1>1
<1>3. QED
  BY <1>1, <1>2 DEF Service!Init

\* insert arms the entry.
LEMMA ServiceArm ==
  ASSUME MultiLevel, Inv, NEW e \in Entries, NEW d \in Deadlines, Insert(e, d)
  PROVE  Service!Arm(e, d)
<1>1. /\ e \notin Registered(wheel)
      /\ Registered(wheel') = Registered(wheel) \cup {e}
      /\ wheel'.current_tick = wheel.current_tick
  BY InsertStep
<1>2. woken' = <<>> /\ deadline' = [deadline EXCEPT ![e] = d]
  BY DEF Insert
<1>3. Registered(wheel) \subseteq Entries /\ deadline \in [Entries -> Nat]
  BY RegisteredIs DEF Inv, Tidy, DeadlineMaps
<1>4. deadline'[e] = d /\ \A x \in Registered(wheel) : deadline'[x] = deadline[x]
  BY <1>1, <1>2, <1>3
<1>5. [x \in Registered(wheel') |->
         IF deadline'[x] > wheel'.current_tick THEN deadline'[x] ELSE wheel'.current_tick + 1]
      = [x \in Registered(wheel) \cup {e} |->
           IF x # e THEN [y \in Registered(wheel) |->
                            IF deadline[y] > wheel.current_tick THEN deadline[y]
                            ELSE wheel.current_tick + 1][x]
           ELSE IF d > wheel.current_tick THEN d ELSE wheel.current_tick + 1]
  BY <1>1, <1>4
<1>6. QED
  BY <1>1, <1>2, <1>5 DEF Service!Arm

\* remove disarms it.
LEMMA ServiceDisarm ==
  ASSUME Inv, NEW e \in Entries, RemoveCall(e)
  PROVE  Service!Disarm(e)
<1>1. /\ Registered(wheel') = Registered(wheel) \ {e}
      /\ wheel'.current_tick = wheel.current_tick
      /\ \A x \in Registered(wheel') : deadline'[x] = deadline[x]
  BY RemoveStep
<1>2. woken' = <<>>
  BY DEF RemoveCall
<1>3. [x \in Registered(wheel') |->
         IF deadline'[x] > wheel'.current_tick THEN deadline'[x] ELSE wheel'.current_tick + 1]
      = [x \in Registered(wheel) \ {e} |->
           [y \in Registered(wheel) |->
              IF deadline[y] > wheel.current_tick THEN deadline[y]
              ELSE wheel.current_tick + 1][x]]
  BY <1>1
<1>4. QED
  BY <1>1, <1>2, <1>3 DEF Service!Disarm, Service!Restrict

\* A tick or a catch-up is one advance of the service.
LEMMA ServiceAdvance ==
  ASSUME Inv, NEW n \in Nat, NEW step, Ran(step, wheel, deadline, n), Drained(step),
         wheel.current_tick + n <= MaxTick, NEW t, t = wheel.current_tick + n
  PROVE  Service!Advance(t)
<1> DEFINE start == wheel.current_tick
           R == Registered(wheel)
           due == [y \in R |-> IF deadline[y] > start THEN deadline[y] ELSE start + 1]
           firing == {e \in R : due[e] <= t}
<1>1. wheel' = step.wheel /\ woken' = step.woken
  BY DEF Drained
<1>2. \A e \in Registered(wheel') : deadline'[e] = deadline[e]
  BY DrainStep
<1>3. start \in Nat /\ R \subseteq Entries /\ deadline \in [Entries -> Nat]
  BY Parts, RegisteredIs DEF Inv, Tidy, DeadlineMaps
<1>4. /\ step.wheel.current_tick = t
      /\ Registered(step.wheel) = {e \in R : DueAt(deadline[e], start) > t}
      /\ step.woken \in Seq(Entries) /\ IsInjective(step.woken)
      /\ ToSet(step.woken) = {e \in R : DueAt(deadline[e], start) <= t}
      /\ InOrder(step.woken, [e \in Entries |-> DueAt(deadline[e], start)])
  BY DEF Ran
<1>5. \A e \in R : due[e] = DueAt(deadline[e], start) /\ due[e] \in Nat
  BY <1>3 DEF DueAt
<1>6. Registered(wheel') = R \ firing
  <2> HIDE DEF due
  <2>1. Registered(wheel') = {e \in R : due[e] > t}
    BY <1>1, <1>4, <1>5
  <2>2. \A e \in R : due[e] > t <=> ~(due[e] <= t)
    BY <1>3, <1>5
  <2>3. QED
    BY <2>1, <2>2
<1>7. ToSet(woken') = firing
  <2> HIDE DEF due
  <2>1. QED
    BY <1>1, <1>4, <1>5
<1>8. wheel'.current_tick = t
  BY <1>1, <1>4
<1>9. [e \in Registered(wheel') |->
         IF deadline'[e] > wheel'.current_tick THEN deadline'[e] ELSE wheel'.current_tick + 1]
      = [e \in R \ firing |-> due[e]]
  <2>1. ASSUME NEW e \in R \ firing
        PROVE  (IF deadline'[e] > wheel'.current_tick THEN deadline'[e] ELSE wheel'.current_tick + 1) = due[e]
    <3>1. deadline'[e] = deadline[e] /\ deadline[e] \in Nat /\ e \in R
      BY <1>2, <1>3, <1>6
    <3>2. ~(due[e] <= t) /\ due[e] = IF deadline[e] > start THEN deadline[e] ELSE start + 1
      OBVIOUS
    <3> HIDE DEF due, firing
    <3>3. QED
      BY <1>3, <1>8, <3>1, <3>2
  <2> HIDE DEF due, firing
  <2>2. QED
    BY <1>6, <2>1
<1>10. woken' \in Seq(Entries) /\ IsInjective(woken')
  BY <1>1, <1>4
<1>11. woken' \in Seq(firing)
  <2> HIDE DEF firing
  <2>1. \A list \in Seq(Entries) : list \in Seq(ToSet(list))
    BY DEF ToSet
  <2>2. QED
    BY <1>7, <1>10, <2>1
<1>12. {woken'[i] : i \in DOMAIN woken'} = firing
  <2> HIDE DEF firing
  <2>1. QED
    BY <1>7 DEF ToSet
<1>13. ASSUME NEW i \in DOMAIN woken', NEW j \in DOMAIN woken', i < j
       PROVE  woken'[i] # woken'[j] /\ due[woken'[i]] <= due[woken'[j]]
  <2>1. i \in Int /\ j \in Int /\ i # j
    <3>1. \A list \in Seq(Entries) : DOMAIN list \subseteq Int
      OBVIOUS
    <3>2. i \in Int /\ j \in Int
      BY <1>10, <3>1
    <3>3. QED
      BY <1>13, <3>2
  <2>2. woken'[i] # woken'[j]
    BY <1>10, <2>1 DEF IsInjective
  <2>3. woken'[i] \in ToSet(woken') /\ woken'[j] \in ToSet(woken')
    BY DEF ToSet
  <2>4. woken'[i] \in R /\ woken'[j] \in R
    BY <1>7, <2>3
  <2> DEFINE at == [e \in Entries |-> DueAt(deadline[e], start)]
  <2>5. at[woken'[i]] <= at[woken'[j]]
    BY <1>1, <1>4, <1>13 DEF InOrder
  <2>6. at[woken'[i]] = due[woken'[i]] /\ at[woken'[j]] = due[woken'[j]]
    BY <1>3, <1>5, <2>4
  <2>7. QED
    BY <2>2, <2>5, <2>6
<1>14. QED
  <2>1. DOMAIN due = R
    OBVIOUS
  <2>2. firing = {e \in DOMAIN due : due[e] <= t}
    BY <2>1
  <2>3. [e \in Registered(wheel') |->
           IF deadline'[e] > wheel'.current_tick THEN deadline'[e] ELSE wheel'.current_tick + 1]
        = [e \in DOMAIN due \ {e \in DOMAIN due : due[e] <= t} |-> due[e]]
    BY <1>9, <2>1, <2>2
  <2>4. QED
    BY <1>8, <1>11, <1>12, <1>13, <2>1, <2>2, <2>3 DEF Service!Advance, Service!Restrict, Service!Range

\* Every step of the wheel is a step of the service.
LEMMA ServiceNext ==
  ASSUME MultiLevel, Inv, [Next]_vars
  PROVE  [Service!Next]_(Service!vars)
<1>1. Tidy(wheel) /\ deadline \in DeadlineMaps /\ Standing(wheel, deadline) /\ wheel.current_tick \in Nat
      /\ wheel.current_tick <= MaxTick /\ MaxTick \in Nat
  BY Parts, TimerWheelAssumption DEF Inv, Tidy
<1>2. ASSUME NEW e \in Entries, NEW d \in Deadlines, Insert(e, d) PROVE Service!Next
  BY <1>2, ServiceArm DEF Service!Next
<1>3. ASSUME NEW e \in Entries, RemoveCall(e) PROVE Service!Next
  BY <1>3, ServiceDisarm DEF Service!Next
<1>4. ASSUME NEW n \in Nat, NEW step, Ran(step, wheel, deadline, n), Drained(step),
             wheel.current_tick + n <= MaxTick
      PROVE  Service!Next
  <2>1. PICK t : t = wheel.current_tick + n
    OBVIOUS
  <2>2. t \in wheel.current_tick..MaxTick
    BY <1>1, <1>4, <2>1
  <2>3. Service!Advance(t)
    BY <1>4, <2>1, ServiceAdvance
  <2>4. \E u \in wheel.current_tick..MaxTick : Service!Advance(u)
    BY <2>2, <2>3
  <2>5. QED
    BY <2>4 DEF Service!Next
<1>5. CASE Tick
  <2>1. wheel.current_tick < MaxTick /\ Drained(AdvanceOne(wheel, deadline))
    BY <1>5 DEF Tick
  <2>2. Ran(AdvanceOne(wheel, deadline), wheel, deadline, 1)
    BY <1>1, TickRan
  <2>3. wheel.current_tick + 1 <= MaxTick
    BY <1>1, <2>1
  <2>4. QED
    BY <1>4, <2>1, <2>2, <2>3
<1>6. ASSUME NEW target \in 0..MaxTick, Advance(target) PROVE Service!Next
  <2> DEFINE n == IF target > wheel.current_tick THEN target - wheel.current_tick ELSE 0
  <2>1. Drained(AdvanceTo(wheel, deadline, target)) /\ target \in Nat
    BY <1>6 DEF Advance
  <2>2. n \in Nat /\ Ran(AdvanceTo(wheel, deadline, target), wheel, deadline, n)
    <3>1. n = IF target > wheel.current_tick THEN target - wheel.current_tick ELSE 0
      OBVIOUS
    <3> HIDE DEF n
    <3>2. QED
      BY <1>1, <2>1, <3>1, CatchUp
  <2>3. wheel.current_tick + n <= MaxTick
    BY <1>1
  <2> HIDE DEF n
  <2>4. QED
    BY <1>4, <2>1, <2>2, <2>3
<1>7. CASE UNCHANGED vars
  BY <1>7 DEF vars, Service!vars
<1>8. QED
  BY <1>2, <1>3, <1>5, <1>6, <1>7 DEF Next

\* A wheel of at least two levels implements the timer service: whatever
\* levels and cascades an entry goes through, it fires on precisely the tick
\* that reaches its deadline (the promise of advance_one's documentation, the
\* next tick if it was armed when already due), exactly once, never after its
\* removal, and a catch-up wakes entries in the order of their deadlines.
THEOREM WheelImplementsService == MultiLevel => (Spec => ImplementsTimerService)
<1> SUFFICES ASSUME MultiLevel PROVE Spec => ImplementsTimerService
  OBVIOUS
<1>1. Init => Inv /\ Service!Init
  BY InitInv, ServiceInit
<1>2. Inv /\ [Next]_vars => Inv' /\ [Service!Next]_(Service!vars)
  BY NextInv, ServiceNext
<1>3. QED
  BY <1>1, <1>2, PTL DEF Spec, ImplementsTimerService, Service!Spec
====
