----------------------------- MODULE ProofBasics ----------------------------
(***************************************************************************)
(* Facts about numbers and sequences that the proofs of several components *)
(* rest on. The induction principles of the library take an operator as    *)
(* parameter, which the provers cannot instantiate; SetInduction is        *)
(* induction with a set in place of the predicate, derived from the well-  *)
(* foundedness of < on Nat.                                                *)
(***************************************************************************)
EXTENDS Integers, SequenceTheorems, WellFoundedInduction, TLAPS

\* A set of numbers that is not empty has a least element.
LEMMA LeastNumber ==
  ASSUME NEW T, T \subseteq Nat, T # {}
  PROVE  \E x \in T : \A y \in T : x <= y
<1> DEFINE R == OpToRel(<, Nat)
<1>1. IsWellFoundedOn(R, Nat)
  BY NatLessThanWellFounded
<1>2. \E x \in T : \A y \in T : ~ (<<y, x>> \in R)
  <2> HIDE DEF R
  <2> QED BY <1>1, WFMin
<1>3. \A x, y \in Nat : <<y, x>> \in R <=> y < x
  BY DEF OpToRel
<1>4. PICK x \in T : \A y \in T : ~ (<<y, x>> \in R)
  BY <1>2
<1>5. \A y \in T : x \in Nat /\ y \in Nat /\ ~ (y < x)
  <2> HIDE DEF R
  <2> QED BY <1>3, <1>4
<1>6. \A y \in T : x <= y
  BY <1>5
<1> QED
  BY <1>6

\* Induction up to n: a set that holds 0 and, with every i below n, i + 1,
\* holds all of 0..n.
LEMMA SetInduction ==
  ASSUME NEW S, NEW n \in Nat, 0 \in S, \A i \in 0..(n-1) : i \in S => i + 1 \in S
  PROVE  0..n \subseteq S
<1> SUFFICES ASSUME NEW m \in 0..n, m \notin S PROVE FALSE
  OBVIOUS
<1> DEFINE T == {i \in 0..n : i \notin S}
<1>1. PICK x \in T : \A y \in T : x <= y
  <2>1. T \subseteq Nat /\ T # {} OBVIOUS
  <2> HIDE DEF T
  <2> QED BY <2>1, LeastNumber
<1>2. x # 0 OBVIOUS
<1>3. x - 1 \in 0..(n-1) /\ x - 1 \notin T
  BY <1>1, <1>2
<1> QED BY <1>3

\* A number is quotient times divisor plus remainder.
LEMMA DivMod ==
  ASSUME NEW a \in Nat, NEW b \in Nat \ {0}
  PROVE  a = b * (a \div b) + (a % b) /\ a % b \in 0..(b - 1) /\ a \div b \in Nat
OBVIOUS

\* f is what the recursion f[0] = base, f[i] = step[<<i, f[i - 1]>>] computes.
IsRun(f, V, n, base, step) ==
  f \in [0..n -> V] /\ f[0] = base /\ \A i \in 1..n : f[i] = step[<<i, f[i - 1]>>]

\* Such a recursion up to n defines a function.
LEMMA Recursion ==
  \A V : \A n \in Nat, base \in V : \A step \in [(1..n) \X V -> V] :
    \E f : IsRun(f, V, n, base, step)
<1> SUFFICES ASSUME NEW V, NEW n \in Nat, NEW base \in V, NEW step \in [(1..n) \X V -> V]
             PROVE  \E f : IsRun(f, V, n, base, step)
  OBVIOUS
<1> DEFINE P(m) == \E f \in [0..m -> V] : f[0] = base /\ \A i \in 1..m : f[i] = step[<<i, f[i - 1]>>]
           S == {m \in 0..n : P(m)}
<1>1. 0 \in S
  <2>1. [i \in 0..0 |-> base] \in [0..0 -> V]
    OBVIOUS
  <2>2. [i \in 0..0 |-> base][0] = base /\ 1..0 = {}
    OBVIOUS
  <2>3. P(0)
    <3> DEFINE f0 == [i \in 0..0 |-> base]
    <3>1. f0 \in [0..0 -> V] /\ f0[0] = base /\ \A i \in 1..0 : f0[i] = step[<<i, f0[i - 1]>>]
      BY <2>1, <2>2
    <3>2. QED
      <4> HIDE DEF f0
      <4> QED BY <3>1
  <2>4. QED
    BY <2>3
<1>2. \A m \in 0..(n-1) : m \in S => m + 1 \in S
  <2> SUFFICES ASSUME NEW m \in 0..(n-1), P(m) PROVE P(m + 1)
    OBVIOUS
  <2>1. PICK f \in [0..m -> V] : f[0] = base /\ \A i \in 1..m : f[i] = step[<<i, f[i - 1]>>]
    OBVIOUS
  <2> DEFINE next == step[<<m + 1, f[m]>>]
             g == [i \in 0..(m + 1) |-> IF i = m + 1 THEN next ELSE f[i]]
  <2>2. next \in V
    OBVIOUS
  <2>3. g \in [0..(m + 1) -> V] /\ g[0] = base
    <3> HIDE DEF next
    <3> QED BY <2>1, <2>2
  <2>4. ASSUME NEW i \in 1..(m + 1) PROVE g[i] = step[<<i, g[i - 1]>>]
    <3>1. CASE i = m + 1
      <4>1. i - 1 = m /\ g[m] = f[m] /\ g[m + 1] = next
        BY <3>1
      <4>2. QED
        <5> HIDE DEF g
        <5> QED BY <3>1, <4>1
    <3>2. CASE i \in 1..m
      <4>1. g[i] = f[i] /\ g[i - 1] = f[i - 1]
        BY <3>2
      <4>2. QED
        BY <2>1, <3>2, <4>1
    <3>3. QED
      BY <3>1, <3>2
  <2>5. QED
    <3> HIDE DEF g
    <3> QED BY <2>3, <2>4
<1>3. 0..n \subseteq S
  <2> HIDE DEF S
  <2> QED BY <1>1, <1>2, SetInduction
<1>4. P(n)
  BY <1>3
<1>5. QED
  BY <1>4 DEF IsRun

\* The powers of b, as Resolution of the wheel and Growth of a retry policy
\* compute them, are in every set that has 1 and b and is closed under times.
LEMMA Powers ==
  ASSUME NEW P, NEW b \in P, NEW n \in Nat, 1 \in P, \A x, y \in P : x * y \in P,
         NEW f, f = CHOOSE g : g = [i \in 0..n |-> IF i = 0 THEN 1 ELSE b * g[i - 1]]
  PROVE  /\ f[0] = 1
         /\ \A i \in 1..n : f[i] = b * f[i - 1]
         /\ \A i \in 0..n : f[i] \in P
<1> DEFINE step == [p \in (1..n) \X P |-> b * p[2]]
<1>1. step \in [(1..n) \X P -> P]
  OBVIOUS
<1>2. PICK g : IsRun(g, P, n, 1, step)
  <2> HIDE DEF step
  <2> QED BY <1>1, Recursion
<1>3. g \in [0..n -> P] /\ g[0] = 1 /\ \A i \in 1..n : g[i] = b * g[i - 1]
  <2>1. g \in [0..n -> P] /\ g[0] = 1 /\ \A i \in 1..n : g[i] = step[<<i, g[i - 1]>>]
    <3> HIDE DEF step
    <3> QED BY <1>2 DEF IsRun
  <2>2. ASSUME NEW i \in 1..n PROVE step[<<i, g[i - 1]>>] = b * g[i - 1]
    <3>1. g[i - 1] \in P
      BY <2>1
    <3>2. QED
      BY <3>1
  <2> HIDE DEF step
  <2>3. QED
    BY <2>1, <2>2
<1>4. g = [i \in 0..n |-> IF i = 0 THEN 1 ELSE b * g[i - 1]]
  <2> HIDE DEF step
  <2>1. g = [i \in 0..n |-> g[i]]
    BY <1>3
  <2>2. ASSUME NEW i \in 0..n PROVE g[i] = IF i = 0 THEN 1 ELSE b * g[i - 1]
    <3>1. i = 0 \/ i \in 1..n
      OBVIOUS
    <3>2. QED
      BY <1>3, <3>1
  <2>3. QED
    BY <2>1, <2>2
<1>5. f = [i \in 0..n |-> IF i = 0 THEN 1 ELSE b * f[i - 1]]
  BY <1>4
<1>6. f[0] = 1 /\ \A i \in 1..n : f[i] = b * f[i - 1]
  <2>1. 0 \in 0..n /\ \A i \in 1..n : i \in 0..n /\ i # 0
    OBVIOUS
  <2>2. QED
    BY <1>5, <2>1
<1>7. \A i \in 0..n : f[i] \in P
  <2> DEFINE T == {i \in 0..n : f[i] \in P}
  <2>1. 0 \in T
    BY <1>6
  <2>2. ASSUME NEW i \in 0..(n - 1), i \in T PROVE i + 1 \in T
    <3>1. i + 1 \in 1..n /\ (i + 1) - 1 = i /\ i + 1 \in 0..n
      OBVIOUS
    <3>2. f[i + 1] = b * f[i]
      BY <1>6, <3>1
    <3>3. f[i] \in P
      BY <2>2
    <3>4. b * f[i] \in P
      BY <3>3
    <3>5. QED
      BY <3>1, <3>2, <3>4
  <2>3. 0..n \subseteq T
    <3> HIDE DEF T
    <3> QED BY <2>1, <2>2, SetInduction
  <2>4. QED
    BY <2>3
<1>8. QED
  BY <1>6, <1>7

\* An element of a sequence is one of the set it is over, and its index is
\* within the length.
LEMMA SeqElement ==
  ASSUME NEW S, NEW s \in Seq(S), NEW i \in DOMAIN s
  PROVE  s[i] \in S /\ i \in 1..Len(s)
OBVIOUS

\* Concatenation is associative.
LEMMA ConcatThree ==
  ASSUME NEW S, NEW s \in Seq(S), NEW t \in Seq(S), NEW u \in Seq(S)
  PROVE  (s \o t) \o u = s \o (t \o u)
BY ConcatAssociative

\* The same, quantified over the sequences of one set.
LEMMA ConcatJoin ==
  ASSUME NEW S
  PROVE  \A x, y, z \in Seq(S) : (x \o y) \o z = x \o (y \o z)
BY ConcatThree

\* The length and the elements of a concatenation.
LEMMA ConcatElements ==
  ASSUME NEW S, NEW s \in Seq(S), NEW t \in Seq(S)
  PROVE  /\ s \o t \in Seq(S) /\ Len(s) \in Nat /\ Len(t) \in Nat
         /\ Len(s \o t) = Len(s) + Len(t) /\ DOMAIN (s \o t) = 1..(Len(s) + Len(t))
         /\ \A i \in 1..Len(s) : (s \o t)[i] = s[i]
         /\ \A i \in 1..Len(t) : (s \o t)[Len(s) + i] = t[i]
OBVIOUS

\* A function on 1..n is a sequence of length n.
LEMMA MakeSeq ==
  ASSUME NEW S, NEW n \in Nat, NEW s, s = [i \in 1..n |-> s[i]], \A i \in 1..n : s[i] \in S
  PROVE  s \in Seq(S) /\ Len(s) = n
OBVIOUS

\* A sequence cut after its first n elements: what the two parts are, and
\* that together they are the sequence.
LEMMA CutSeq ==
  ASSUME NEW S, NEW s \in Seq(S), NEW n \in 0..Len(s)
  PROVE  /\ SubSeq(s, 1, n) \in Seq(S) /\ SubSeq(s, n + 1, Len(s)) \in Seq(S)
         /\ Len(SubSeq(s, 1, n)) = n /\ Len(SubSeq(s, n + 1, Len(s))) = Len(s) - n
         /\ \A i \in 1..n : SubSeq(s, 1, n)[i] = s[i]
         /\ \A i \in 1..(Len(s) - n) : SubSeq(s, n + 1, Len(s))[i] = s[n + i]
         /\ SubSeq(s, 1, n) \o SubSeq(s, n + 1, Len(s)) = s
<1>1. Len(s) \in Nat /\ 1 \in Int /\ n \in Int /\ n + 1 \in Int /\ Len(s) \in Int
  OBVIOUS
<1>2. (\A i \in 1..n : s[i] \in S) /\ (\A i \in n + 1..Len(s) : s[i] \in S)
  OBVIOUS
<1>3. /\ SubSeq(s, 1, n) \in Seq(S)
      /\ Len(SubSeq(s, 1, n)) = IF 1 <= n THEN n - 1 + 1 ELSE 0
      /\ \A i \in 1..n - 1 + 1 : SubSeq(s, 1, n)[i] = s[1 + i - 1]
  BY <1>1, <1>2, SubSeqProperties
<1>4. /\ SubSeq(s, n + 1, Len(s)) \in Seq(S)
      /\ Len(SubSeq(s, n + 1, Len(s))) = IF n + 1 <= Len(s) THEN Len(s) - (n + 1) + 1 ELSE 0
      /\ \A i \in 1..Len(s) - (n + 1) + 1 : SubSeq(s, n + 1, Len(s))[i] = s[n + 1 + i - 1]
  BY <1>1, <1>2, SubSeqProperties
<1>5. SubSeq(s, 1, n) \o SubSeq(s, n + 1, Len(s)) = s
  <2>1. 1 \in 1..Len(s) + 1 /\ n \in 1 - 1..Len(s) /\ Len(s) \in n..Len(s)
    OBVIOUS
  <2>2. SubSeq(s, 1, n) \o SubSeq(s, n + 1, Len(s)) = SubSeq(s, 1, Len(s))
    BY <2>1, ConcatAdjacentSubSeq
  <2>3. QED
    BY <2>2, SubSeqFull
<1>6. Len(SubSeq(s, 1, n)) = n /\ Len(SubSeq(s, n + 1, Len(s))) = Len(s) - n
  BY <1>1, <1>3, <1>4
<1>7. \A i \in 1..n : SubSeq(s, 1, n)[i] = s[i]
  <2> SUFFICES ASSUME NEW i \in 1..n PROVE SubSeq(s, 1, n)[i] = s[i]
    OBVIOUS
  <2>1. i \in 1..n - 1 + 1 /\ 1 + i - 1 = i
    OBVIOUS
  <2>2. QED
    BY <1>3, <2>1
<1>8. \A i \in 1..(Len(s) - n) : SubSeq(s, n + 1, Len(s))[i] = s[n + i]
  <2> SUFFICES ASSUME NEW i \in 1..(Len(s) - n) PROVE SubSeq(s, n + 1, Len(s))[i] = s[n + i]
    OBVIOUS
  <2>1. i \in 1..Len(s) - (n + 1) + 1 /\ n + 1 + i - 1 = n + i
    BY <1>1
  <2>2. QED
    BY <1>4, <2>1
<1>9. QED
  BY <1>3, <1>4, <1>5, <1>6, <1>7, <1>8

\* The rest of a sequence after k elements is its next element and what
\* follows.
LEMMA RestSeq ==
  ASSUME NEW S, NEW s \in Seq(S), NEW k \in 0..(Len(s) - 1)
  PROVE  /\ k + 1 \in 1..Len(s) /\ s[k + 1] \in S
         /\ SubSeq(s, k + 2, Len(s)) \in Seq(S)
         /\ SubSeq(s, k + 1, Len(s)) = <<s[k + 1]>> \o SubSeq(s, k + 2, Len(s))
<1>1. Len(s) \in Nat /\ k \in Nat /\ k + 1 \in 1..Len(s) /\ s[k + 1] \in S
  OBVIOUS
<1>2. k + 1 \in 1..Len(s) + 1 /\ k + 1 \in (k + 1) - 1..Len(s) /\ Len(s) \in k + 1..Len(s)
      /\ (k + 1) + 1 = k + 2
  BY <1>1
<1>3. SubSeq(s, k + 1, k + 1) \o SubSeq(s, (k + 1) + 1, Len(s)) = SubSeq(s, k + 1, Len(s))
  BY <1>2, ConcatAdjacentSubSeq
<1>4. SubSeq(s, k + 1, k + 1) = <<s[k + 1]>>
  <2> DEFINE m == k + 1
  <2>1. m \in Int /\ m \in 1..Len(s) /\ \A i \in m..m : s[i] \in S
    BY <1>1
  <2> HIDE DEF m
  <2>2. /\ SubSeq(s, m, m) \in Seq(S)
        /\ Len(SubSeq(s, m, m)) = IF m <= m THEN m - m + 1 ELSE 0
        /\ \A i \in 1..m - m + 1 : SubSeq(s, m, m)[i] = s[m + i - 1]
    BY <2>1, SubSeqProperties
  <2>3. Len(SubSeq(s, m, m)) = 1 /\ SubSeq(s, m, m)[1] = s[m]
    <3>1. 1 \in 1..m - m + 1 /\ m + 1 - 1 = m /\ m <= m /\ m - m + 1 = 1
      BY <2>1
    <3>2. QED
      BY <2>2, <3>1
  <2>4. SubSeq(s, m, m) = <<s[m]>>
    <3>1. <<s[m]>> \in Seq(S) /\ Len(<<s[m]>>) = 1 /\ <<s[m]>>[1] = s[m]
      BY <2>1
    <3>2. \A i \in 1..Len(SubSeq(s, m, m)) : SubSeq(s, m, m)[i] = <<s[m]>>[i]
      <4>1. \A i \in 1..Len(SubSeq(s, m, m)) : i = 1
        BY <2>3
      <4>2. QED
        BY <2>3, <3>1, <4>1
    <3>3. QED
      BY <2>2, <2>3, <3>1, <3>2, SeqEqual
  <2>5. QED
    BY <2>4 DEF m
<1>5. SubSeq(s, k + 2, Len(s)) \in Seq(S)
  <2>1. k + 1 \in 0..Len(s)
    BY <1>1
  <2>2. SubSeq(s, (k + 1) + 1, Len(s)) \in Seq(S)
    BY <2>1, CutSeq
  <2>3. QED
    BY <1>2, <2>2
<1>6. QED
  BY <1>1, <1>2, <1>3, <1>4, <1>5

\* The rest of a concatenation, cut in its first part.
LEMMA TailConcat ==
  ASSUME NEW S, NEW s \in Seq(S), NEW t \in Seq(S), NEW k \in 0..Len(s)
  PROVE  /\ s \o t \in Seq(S) /\ k \in 0..Len(s \o t)
         /\ SubSeq(s \o t, k + 1, Len(s \o t)) = SubSeq(s, k + 1, Len(s)) \o t
<1> DEFINE u == s \o t
           a == SubSeq(u, k + 1, Len(u))
           h == SubSeq(s, k + 1, Len(s))
           b == h \o t
<1>1. /\ u \in Seq(S) /\ Len(u) = Len(s) + Len(t) /\ Len(s) \in Nat /\ Len(t) \in Nat
      /\ \A i \in 1..Len(s) : u[i] = s[i]
      /\ \A i \in 1..Len(t) : u[Len(s) + i] = t[i]
  BY ConcatElements
<1> HIDE DEF u
<1>2. k \in 0..Len(u) /\ k \in Nat
  BY <1>1
<1>3. /\ a \in Seq(S) /\ Len(a) = Len(u) - k
      /\ \A i \in 1..(Len(u) - k) : a[i] = u[k + i]
  BY <1>1, <1>2, CutSeq
<1>4. /\ h \in Seq(S) /\ Len(h) = Len(s) - k
      /\ \A i \in 1..(Len(s) - k) : h[i] = s[k + i]
  BY CutSeq
<1> HIDE DEF h, a
<1>5. /\ b \in Seq(S) /\ Len(b) = Len(h) + Len(t)
      /\ \A i \in 1..Len(h) : b[i] = h[i]
      /\ \A i \in 1..Len(t) : b[Len(h) + i] = t[i]
  <2>1. h \in Seq(S)
    BY <1>4
  <2>2. QED
    BY <2>1, ConcatElements
<1> HIDE DEF b
<1>6. ASSUME NEW i \in 1..Len(a) PROVE a[i] = b[i]
  <2>1. a[i] = u[k + i] /\ i \in 1..(Len(u) - k)
    BY <1>3
  <2>2. CASE i <= Len(s) - k
    <3>1. i \in 1..(Len(s) - k) /\ k + i \in 1..Len(s) /\ i \in 1..Len(h)
      BY <1>1, <1>2, <1>4, <2>1, <2>2
    <3>2. QED
      BY <1>1, <1>4, <1>5, <2>1, <3>1
  <2>3. CASE i > Len(s) - k
    <3> DEFINE j == i - (Len(s) - k)
    <3>1. j \in 1..Len(t) /\ k + i = Len(s) + j /\ i = Len(h) + j
      BY <1>1, <1>2, <1>4, <2>1, <2>3
    <3> HIDE DEF j
    <3>2. u[Len(s) + j] = t[j] /\ b[Len(h) + j] = t[j]
      BY <1>1, <1>5, <3>1
    <3>3. QED
      BY <2>1, <3>1, <3>2
  <2>4. QED
    BY <1>1, <1>2, <2>1, <2>2, <2>3
<1>7. Len(a) = Len(b)
  BY <1>1, <1>2, <1>3, <1>4, <1>5
<1>8. a = b
  BY <1>3, <1>5, <1>6, <1>7, SeqEqual
<1>9. QED
  BY <1>1, <1>2, <1>8 DEF u, a, b, h
=============================================================================
