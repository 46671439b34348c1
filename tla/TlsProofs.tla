------------------------------ MODULE TlsProofs -----------------------------
(***************************************************************************)
(* Two TlsStreams over a bounded transport, proved for every transport     *)
(* capacity, every certificate setup, any amount of plaintext and every    *)
(* way rustls splits and the transport cuts what it is given: while no     *)
(* write exceeds what rustls buffers (WritesFit), plaintext arrives once   *)
(* each and in order, and a clean end of the stream means that everything  *)
(* was read. The first parts are about the records alone: what OfKind and  *)
(* Processed, which are recursive functions, compute. Control and Stream   *)
(* together are the inductive invariant.                                   *)
(***************************************************************************)
EXTENDS Tls, ProofBasics

\* The function that OfKind defines over the prefixes of s.
KeptBy(g, kinds, S, s) ==
  /\ g \in [0..Len(s) -> Seq(S)] /\ g[0] = <<>>
  /\ \A i \in 1..Len(s) :
       g[i] = IF s[i].kind \in kinds THEN g[i - 1] \o <<s[i]>> ELSE g[i - 1]

\* OfKind is the last value of such a function, by recursion over the length
\* of s.
LEMMA OfKindRun ==
  ASSUME NEW S, NEW kinds, NEW s \in Seq(S)
  PROVE  \E g : KeptBy(g, kinds, S, s) /\ OfKind(kinds, s) = g[Len(s)]
<1> DEFINE n == Len(s)
           V == Seq(S)
           Keep(v, r) == IF r.kind \in kinds THEN v \o <<r>> ELSE v
           step == [p \in (1..n) \X V |-> Keep(p[2], s[p[1]])]
<1>1. n \in Nat /\ <<>> \in V /\ step \in [(1..n) \X V -> V]
  <2>1. ASSUME NEW p \in (1..n) \X V PROVE Keep(p[2], s[p[1]]) \in V
    <3>1. p[2] \in Seq(S) /\ s[p[1]] \in S
      OBVIOUS
    <3>2. QED
      BY <3>1
  <2>2. QED
    BY <2>1
<1>2. PICK f : IsRun(f, V, n, <<>>, step)
  <2> HIDE DEF step, n, V
  <2> QED BY <1>1, Recursion
<1>3. f \in [0..n -> V] /\ f[0] = <<>> /\ \A i \in 1..n : f[i] = Keep(f[i - 1], s[i])
  <2>1. f \in [0..n -> V] /\ f[0] = <<>> /\ \A i \in 1..n : f[i] = step[<<i, f[i - 1]>>]
    <3> HIDE DEF step, n, V
    <3> QED BY <1>2 DEF IsRun
  <2>2. ASSUME NEW i \in 1..n PROVE step[<<i, f[i - 1]>>] = Keep(f[i - 1], s[i])
    <3>1. f[i - 1] \in V
      BY <2>1
    <3>2. QED
      BY <3>1
  <2> HIDE DEF step, n, V, Keep
  <2>3. QED
    BY <2>1, <2>2
<1> DEFINE g == CHOOSE g : g = [i \in 0..n |->
                  IF i = 0 THEN <<>>
                  ELSE IF s[i].kind \in kinds THEN g[i - 1] \o <<s[i]>> ELSE g[i - 1]]
<1>4. f = [i \in 0..n |->
             IF i = 0 THEN <<>>
             ELSE IF s[i].kind \in kinds THEN f[i - 1] \o <<s[i]>> ELSE f[i - 1]]
  <2> HIDE DEF step, V, n
  <2>1. f = [i \in 0..n |-> f[i]]
    BY <1>3
  <2>2. ASSUME NEW i \in 0..n
        PROVE  f[i] = IF i = 0 THEN <<>>
                      ELSE IF s[i].kind \in kinds THEN f[i - 1] \o <<s[i]>> ELSE f[i - 1]
    <3>1. i = 0 \/ i \in 1..n
      BY <1>1
    <3>2. QED
      BY <1>3, <3>1
  <2>3. QED
    BY <2>1, <2>2
<1>5. g = [i \in 0..n |->
             IF i = 0 THEN <<>>
             ELSE IF s[i].kind \in kinds THEN g[i - 1] \o <<s[i]>> ELSE g[i - 1]]
  BY <1>4
<1>6. OfKind(kinds, s) = g[n]
  BY DEF OfKind
<1> HIDE DEF g
<1>7. g[0] = <<>> /\ \A i \in 1..n : g[i] = Keep(g[i - 1], s[i])
  <2> HIDE DEF n
  <2>1. \A i \in 0..n : g[i] = IF i = 0 THEN <<>>
                               ELSE IF s[i].kind \in kinds THEN g[i - 1] \o <<s[i]>> ELSE g[i - 1]
    BY <1>5
  <2>2. 0 \in 0..n /\ \A i \in 1..n : i \in 0..n /\ i # 0
    BY <1>1
  <2>3. QED
    BY <2>1, <2>2
<1>8. 0..n \subseteq {i \in 0..n : g[i] = f[i]}
  <2> DEFINE T == {i \in 0..n : g[i] = f[i]}
  <2>1. 0 \in T
    BY <1>1, <1>3, <1>7
  <2>2. ASSUME NEW i \in 0..(n - 1), i \in T PROVE i + 1 \in T
    <3>1. i + 1 \in 1..n /\ (i + 1) - 1 = i
      BY <1>1
    <3> HIDE DEF Keep
    <3>2. g[i + 1] = Keep(g[i], s[i + 1]) /\ f[i + 1] = Keep(f[i], s[i + 1])
      BY <1>3, <1>7, <3>1
    <3>3. QED
      BY <2>2, <3>1, <3>2
  <2>3. 0..n \subseteq T
    <3> HIDE DEF T, n, step, V
    <3> QED BY <1>1, <2>1, <2>2, SetInduction
  <2>4. QED
    BY <2>3
<1>9. g \in [0..n -> V]
  <2>1. g = [i \in 0..n |-> g[i]]
    BY <1>5
  <2>2. \A i \in 0..n : g[i] \in V
    BY <1>3, <1>8
  <2> HIDE DEF V
  <2>3. QED
    BY <2>1, <2>2
<1>10. QED
  BY <1>6, <1>7, <1>9 DEF KeptBy

\* OfKind selects: it is a sequence over the same set.
LEMMA OfKindType ==
  \A S, kinds : \A s \in Seq(S) : OfKind(kinds, s) \in Seq(S)
<1> SUFFICES ASSUME NEW S, NEW kinds, NEW s \in Seq(S) PROVE OfKind(kinds, s) \in Seq(S)
  OBVIOUS
<1>1. PICK g : KeptBy(g, kinds, S, s) /\ OfKind(kinds, s) = g[Len(s)]
  BY OfKindRun
<1>2. Len(s) \in 0..Len(s)
  OBVIOUS
<1>3. QED
  BY <1>1, <1>2 DEF KeptBy

\* Nothing is selected from nothing.
LEMMA OfKindEmpty == ASSUME NEW kinds PROVE OfKind(kinds, <<>>) = <<>>
<1>1. <<>> \in Seq({}) /\ Len(<<>>) = 0
  OBVIOUS
<1>2. PICK g : KeptBy(g, kinds, {}, <<>>) /\ OfKind(kinds, <<>>) = g[Len(<<>>)]
  BY <1>1, OfKindRun
<1>3. QED
  BY <1>1, <1>2 DEF KeptBy

\* What is selected from one record.
LEMMA OfKindOne ==
  ASSUME NEW kinds, NEW r
  PROVE  OfKind(kinds, <<r>>) = IF r.kind \in kinds THEN <<r>> ELSE <<>>
<1>1. <<r>> \in Seq({r}) /\ Len(<<r>>) = 1 /\ <<r>>[1] = r
  OBVIOUS
<1>2. PICK g : KeptBy(g, kinds, {r}, <<r>>) /\ OfKind(kinds, <<r>>) = g[Len(<<r>>)]
  BY <1>1, OfKindRun
<1>3. g[0] = <<>> /\ g[1] = IF r.kind \in kinds THEN <<>> \o <<r>> ELSE <<>>
  <2>1. 1 \in 1..Len(<<r>>) /\ 1 - 1 = 0
    BY <1>1
  <2>2. QED
    BY <1>1, <1>2, <2>1 DEF KeptBy
<1>4. <<>> \o <<r>> = <<r>>
  OBVIOUS
<1>5. QED
  BY <1>1, <1>2, <1>3, <1>4

\* Selection distributes over concatenation, by induction over the second
\* sequence.
LEMMA OfKindConcat ==
  \A S, kinds : \A s, t \in Seq(S) : OfKind(kinds, s \o t) = OfKind(kinds, s) \o OfKind(kinds, t)
<1> SUFFICES ASSUME NEW S, NEW kinds, NEW s \in Seq(S), NEW t \in Seq(S)
             PROVE  OfKind(kinds, s \o t) = OfKind(kinds, s) \o OfKind(kinds, t)
  OBVIOUS
<1>0. \A x, y, z \in Seq(S) : (x \o y) \o z = x \o (y \o z)
  BY ConcatJoin, SMTT(60)
<1>1. PICK a : KeptBy(a, kinds, S, s) /\ OfKind(kinds, s) = a[Len(s)]
  BY OfKindRun
<1>2. PICK b : KeptBy(b, kinds, S, t) /\ OfKind(kinds, t) = b[Len(t)]
  BY OfKindRun
<1>3. s \o t \in Seq(S)
  OBVIOUS
<1>4. PICK g : KeptBy(g, kinds, S, s \o t) /\ OfKind(kinds, s \o t) = g[Len(s \o t)]
  BY <1>3, OfKindRun
<1> DEFINE n == Len(s)
           m == Len(t)
           u == s \o t
           Keep(v, r) == IF r.kind \in kinds THEN v \o <<r>> ELSE v
<1>5. /\ n \in Nat /\ m \in Nat /\ Len(u) = n + m
      /\ \A i \in 1..n : u[i] = s[i]
      /\ \A i \in 1..m : u[n + i] = t[i]
  BY ConcatElements
<1> HIDE DEF u, n, m
<1>6. /\ a[0] = <<>> /\ \A i \in 1..n : a[i] = Keep(a[i - 1], s[i])
      /\ b[0] = <<>> /\ \A i \in 1..m : b[i] = Keep(b[i - 1], t[i])
      /\ g[0] = <<>> /\ \A i \in 1..(n + m) : g[i] = Keep(g[i - 1], u[i])
      /\ a[n] \in Seq(S) /\ \A i \in 0..m : b[i] \in Seq(S)
  <2>1. a[0] = <<>> /\ (\A i \in 1..n : a[i] = Keep(a[i - 1], s[i])) /\ a[n] \in Seq(S)
    BY <1>1, <1>5 DEF KeptBy, n
  <2>2. b[0] = <<>> /\ (\A i \in 1..m : b[i] = Keep(b[i - 1], t[i])) /\ \A i \in 0..m : b[i] \in Seq(S)
    BY <1>2, <1>5 DEF KeptBy, m
  <2>3. g[0] = <<>> /\ \A i \in 1..Len(u) : g[i] = Keep(g[i - 1], u[i])
    BY <1>4 DEF KeptBy, u
  <2>4. QED
    BY <1>5, <2>1, <2>2, <2>3
<1>7. g[n] = a[n]
  <2> DEFINE T == {i \in 0..n : g[i] = a[i]}
  <2>1. 0 \in T
    BY <1>5, <1>6
  <2>2. ASSUME NEW i \in 0..(n - 1), i \in T PROVE i + 1 \in T
    <3>1. i + 1 \in 1..n /\ (i + 1) - 1 = i /\ i + 1 \in 1..(n + m) /\ u[i + 1] = s[i + 1]
      BY <1>5
    <3> HIDE DEF Keep
    <3>2. g[i + 1] = Keep(g[i], u[i + 1]) /\ a[i + 1] = Keep(a[i], s[i + 1])
      BY <1>6, <3>1
    <3>3. QED
      BY <2>2, <3>1, <3>2
  <2>3. 0..n \subseteq T
    <3> HIDE DEF T
    <3> QED BY <1>5, <2>1, <2>2, SetInduction
  <2>4. n \in 0..n
    BY <1>5
  <2>5. QED
    BY <2>3, <2>4
<1>8. g[n + m] = a[n] \o b[m]
  <2> DEFINE T == {i \in 0..m : g[n + i] = a[n] \o b[i]}
  <2>1. 0 \in T
    <3>1. n + 0 = n /\ a[n] \o <<>> = a[n]
      BY <1>5, <1>6
    <3>2. 0 \in 0..m /\ g[n + 0] = a[n] \o b[0]
      BY <1>5, <1>6, <1>7, <3>1
    <3>3. QED
      BY <3>2
  <2>2. ASSUME NEW i \in 0..(m - 1), i \in T PROVE i + 1 \in T
    <3>1. i + 1 \in 1..m /\ (i + 1) - 1 = i /\ n + (i + 1) \in 1..(n + m)
          /\ n + (i + 1) - 1 = n + i /\ u[n + (i + 1)] = t[i + 1] /\ i \in 0..m
      BY <1>5
    <3>2. g[n + (i + 1)] = Keep(g[n + i], t[i + 1]) /\ b[i + 1] = Keep(b[i], t[i + 1])
      <4> HIDE DEF Keep
      <4> DEFINE k == n + (i + 1)
      <4>1. k \in 1..(n + m) /\ k - 1 = n + i /\ u[k] = t[i + 1]
        BY <1>5, <3>1
      <4>2. b[i + 1] = Keep(b[i], t[i + 1])
        BY <1>6, <3>1
      <4> HIDE DEF k
      <4>3. g[k] = Keep(g[k - 1], u[k])
        BY <1>6, <4>1
      <4>4. QED
        BY <4>1, <4>2, <4>3 DEF k
    <3>3. g[n + i] = a[n] \o b[i]
      BY <2>2
    <3>4. a[n] \in Seq(S) /\ b[i] \in Seq(S) /\ t[i + 1] \in S
      BY <1>6, <3>1 DEF m
    <3>5. (a[n] \o b[i]) \o <<t[i + 1]>> = a[n] \o (b[i] \o <<t[i + 1]>>)
      <4> DEFINE x == a[n]
                 y == b[i]
                 z == <<t[i + 1]>>
      <4>1. x \in Seq(S) /\ y \in Seq(S) /\ z \in Seq(S)
        BY <3>4
      <4> HIDE DEF x, y, z
      <4>2. (x \o y) \o z = x \o (y \o z)
        BY <1>0, <4>1, SMTT(60)
      <4>3. QED
        BY <4>2 DEF x, y, z
    <3>6. g[n + (i + 1)] = a[n] \o b[i + 1]
      BY <3>2, <3>3, <3>5
    <3>7. i + 1 \in 0..m
      BY <1>5
    <3>8. QED
      BY <3>6, <3>7
  <2>3. 0..m \subseteq T
    <3> HIDE DEF T
    <3> QED BY <1>5, <2>1, <2>2, SetInduction
  <2>4. m \in 0..m
    BY <1>5
  <2>5. QED
    BY <2>3, <2>4
<1>9. QED
  BY <1>1, <1>2, <1>4, <1>5, <1>8 DEF n, m, u

-----------------------------------------------------------------------------
\* The records, and that the kind tells which one it is.
LEMMA RecordFacts ==
  /\ {Hello, Flight, Finished, Ticket, Alert, Notify} \subseteq Records
  /\ \A n \in 1..MaxData : Data(n) \in Records
  /\ \A r \in Records :
       /\ r.kind \in {"hello", "flight", "finished", "ticket", "alert", "close_notify", "data"}
       /\ r.kind = "hello" => r = Hello
       /\ r.kind = "flight" => r = Flight
       /\ r.kind = "finished" => r = Finished
       /\ r.kind = "close_notify" => r = Notify
       /\ r.kind = "data" => r.n \in 1..MaxData /\ r = Data(r.n)
<1> USE DEF Hello, Flight, Finished, Ticket, Alert, Notify, Data, Record
<1>1. /\ {Hello, Flight, Finished, Ticket, Alert, Notify} \subseteq Records
      /\ \A n \in 1..MaxData : Data(n) \in Records
  BY DEF Records
<1>2. SUFFICES ASSUME NEW r \in Records
      PROVE  /\ r.kind \in {"hello", "flight", "finished", "ticket", "alert", "close_notify", "data"}
             /\ r.kind = "hello" => r = Hello
             /\ r.kind = "flight" => r = Flight
             /\ r.kind = "finished" => r = Finished
             /\ r.kind = "close_notify" => r = Notify
             /\ r.kind = "data" => r.n \in 1..MaxData /\ r = Data(r.n)
  BY <1>1
<1>3. CASE r \in {Hello, Flight, Finished, Ticket, Alert, Notify}
  BY <1>3
<1>4. CASE \E n \in 1..MaxData : r = Data(n)
  BY <1>4
<1>5. QED
  BY <1>3, <1>4 DEF Records

\* The kind of each record.
LEMMA KindFacts ==
  /\ Hello.kind = "hello" /\ Flight.kind = "flight" /\ Finished.kind = "finished"
  /\ Ticket.kind = "ticket" /\ Alert.kind = "alert" /\ Notify.kind = "close_notify"
  /\ \A n : Data(n).kind = "data" /\ Data(n).n = n
BY DEF Hello, Flight, Finished, Ticket, Alert, Notify, Data, Record

\* What rustls does with one record, field by field.
LEMMA RecordOne ==
  ASSUME NEW c \in Conns, NEW r \in Records
  PROVE  /\ ProcessRecord(c, r) \in Conns
         /\ ProcessRecord(c, r).notified = c.notified
         /\ r.kind = "data" => /\ ProcessRecord(c, r).plain = c.plain \o <<r.n>>
                               /\ ProcessRecord(c, r).peer_closed = c.peer_closed
         /\ r.kind = "close_notify" => /\ ProcessRecord(c, r).plain = c.plain
                                       /\ ProcessRecord(c, r).peer_closed = TRUE
         /\ r.kind \notin {"data", "close_notify"} =>
               /\ ProcessRecord(c, r).plain = c.plain
               /\ ProcessRecord(c, r).peer_closed = c.peer_closed
         /\ r.kind \notin {"hello", "flight", "finished"} =>
               ProcessRecord(c, r).out = c.out /\ ProcessRecord(c, r).handshaking = c.handshaking
         /\ r.kind = "hello" => /\ ProcessRecord(c, r).out = c.out \o <<Flight>>
                                /\ ProcessRecord(c, r).handshaking = c.handshaking
         /\ r.kind = "flight" /\ ~ProcessRecord(c, r).failed =>
               /\ ProcessRecord(c, r).out = c.out \o <<Finished>>
               /\ ProcessRecord(c, r).handshaking = FALSE
         /\ r.kind = "finished" => /\ ProcessRecord(c, r).out = c.out \o <<Ticket>>
                                   /\ ProcessRecord(c, r).handshaking = FALSE
         /\ c.failed => ProcessRecord(c, r).failed
         /\ \/ ProcessRecord(c, r).out = c.out
            \/ \E x \in {Flight, Finished, Ticket, Alert} : ProcessRecord(c, r).out = c.out \o <<x>>
<1> DEFINE d == ProcessRecord(c, r)
<1>0. /\ c.out \in Seq(Records) /\ c.plain \in Seq(1..MaxData)
      /\ \A x \in Records : Append(c.out, x) = c.out \o <<x>> /\ Append(c.out, x) \in Seq(Records)
      /\ {Flight, Finished, Ticket, Alert} \subseteq Records
      /\ \A x \in 1..MaxData : Append(c.plain, x) = c.plain \o <<x>> /\ Append(c.plain, x) \in Seq(1..MaxData)
  BY RecordFacts, SMTT(30) DEF Conns
<1>1. CASE r.kind = "hello"
  <2>1. d = [c EXCEPT !.out = Append(@, Flight)]
    BY <1>1 DEF ProcessRecord
  <2>2. QED
    BY <1>0, <1>1, <2>1, ZenonT(40) DEF Conns
<1>2. CASE r.kind = "flight"
  <2>1. CASE VerifyServerCert(cert)
    <3>1. d = [c EXCEPT !.out = Append(@, Finished), !.handshaking = FALSE]
      BY <1>2, <2>1 DEF ProcessRecord
    <3>2. /\ d.out = Append(c.out, Finished) /\ d.handshaking = FALSE /\ d.plain = c.plain
          /\ d.failed = c.failed /\ d.notified = c.notified /\ d.peer_closed = c.peer_closed
      BY <3>1 DEF Conns
    <3>3. d \in Conns
      BY <1>0, <3>1 DEF Conns
    <3> HIDE DEF d
    <3>4. QED
      BY <1>0, <1>2, <3>2, <3>3 DEF d
  <2>2. CASE ~VerifyServerCert(cert)
    <3>1. d = [c EXCEPT !.out = Append(@, Alert), !.failed = TRUE]
      BY <1>2, <2>2 DEF ProcessRecord
    <3>2. QED
      BY <1>0, <1>2, <3>1, ZenonT(40) DEF Conns
  <2>3. QED
    BY <2>1, <2>2
<1>3. CASE r.kind = "finished"
  <2>1. d = [c EXCEPT !.out = Append(@, Ticket), !.handshaking = FALSE]
    BY <1>3 DEF ProcessRecord
  <2>2. /\ d.out = Append(c.out, Ticket) /\ d.handshaking = FALSE /\ d.plain = c.plain
        /\ d.failed = c.failed /\ d.notified = c.notified /\ d.peer_closed = c.peer_closed
    BY <2>1 DEF Conns
  <2>3. d \in Conns
    BY <1>0, <2>1 DEF Conns
  <2> HIDE DEF d
  <2>4. QED
    BY <1>0, <1>3, <2>2, <2>3 DEF d
<1>4. CASE r.kind = "data"
  <2>1. d = [c EXCEPT !.plain = Append(@, r.n)] /\ r.n \in 1..MaxData
    BY <1>4, RecordFacts DEF ProcessRecord
  <2>2. QED
    BY <1>0, <1>4, <2>1 DEF Conns
<1>5. CASE r.kind = "close_notify"
  <2>1. d = [c EXCEPT !.peer_closed = TRUE]
    BY <1>5 DEF ProcessRecord
  <2>2. QED
    BY <1>5, <2>1 DEF Conns
<1>6. CASE r.kind \in {"ticket", "alert"}
  <2>1. d = c
    BY <1>6 DEF ProcessRecord
  <2>2. QED
    BY <1>6, <2>1
<1>7. QED
  BY <1>1, <1>2, <1>3, <1>4, <1>5, <1>6, RecordFacts

\* Processed is the iteration of ProcessRecord and stays within the type of
\* connections.
LEMMA ProcessedRun ==
  ASSUME NEW c \in Conns, NEW s \in Seq(Records)
  PROVE  /\ Processed(c, s, 0) = c
         /\ \A i \in 1..Len(s) : Processed(c, s, i) = ProcessRecord(Processed(c, s, i - 1), s[i])
         /\ \A i \in 0..Len(s) : Processed(c, s, i) \in Conns
<1> DEFINE n == Len(s)
           step == [p \in (1..n) \X Conns |-> ProcessRecord(p[2], s[p[1]])]
<1>1. n \in Nat /\ step \in [(1..n) \X Conns -> Conns]
  <2>1. ASSUME NEW p \in (1..n) \X Conns PROVE ProcessRecord(p[2], s[p[1]]) \in Conns
    <3>1. p[2] \in Conns /\ s[p[1]] \in Records
      OBVIOUS
    <3>2. QED
      BY <3>1, RecordOne
  <2>2. QED
    BY <2>1
<1>2. PICK f : IsRun(f, Conns, n, c, step)
  <2> HIDE DEF step, n
  <2> QED BY <1>1, Recursion
<1>3. f \in [0..n -> Conns] /\ f[0] = c /\ \A i \in 1..n : f[i] = ProcessRecord(f[i - 1], s[i])
  <2>1. f \in [0..n -> Conns] /\ f[0] = c /\ \A i \in 1..n : f[i] = step[<<i, f[i - 1]>>]
    <3> HIDE DEF step, n
    <3> QED BY <1>2 DEF IsRun
  <2>2. ASSUME NEW i \in 1..n PROVE step[<<i, f[i - 1]>>] = ProcessRecord(f[i - 1], s[i])
    <3>1. f[i - 1] \in Conns
      BY <2>1
    <3>2. QED
      BY <3>1
  <2> HIDE DEF step, n
  <2>3. QED
    BY <2>1, <2>2
<1> DEFINE g == CHOOSE g : g = [i \in 0..n |->
                  IF i = 0 THEN c ELSE ProcessRecord(g[i - 1], s[i])]
<1>4. f = [i \in 0..n |-> IF i = 0 THEN c ELSE ProcessRecord(f[i - 1], s[i])]
  <2> HIDE DEF step, n
  <2>1. f = [i \in 0..n |-> f[i]]
    BY <1>3
  <2>2. ASSUME NEW i \in 0..n
        PROVE  f[i] = IF i = 0 THEN c ELSE ProcessRecord(f[i - 1], s[i])
    <3>1. i = 0 \/ i \in 1..n
      BY <1>1
    <3>2. QED
      BY <1>3, <3>1
  <2>3. QED
    BY <2>1, <2>2
<1>5. g = [i \in 0..n |-> IF i = 0 THEN c ELSE ProcessRecord(g[i - 1], s[i])]
  BY <1>4
<1>6. \A i : Processed(c, s, i) = g[i]
  BY DEF Processed
<1> HIDE DEF g
<1>7. g[0] = c /\ \A i \in 1..n : g[i] = ProcessRecord(g[i - 1], s[i])
  <2> HIDE DEF n
  <2>1. \A i \in 0..n : g[i] = IF i = 0 THEN c ELSE ProcessRecord(g[i - 1], s[i])
    BY <1>5
  <2>2. 0 \in 0..n /\ \A i \in 1..n : i \in 0..n /\ i # 0
    BY <1>1
  <2>3. QED
    BY <2>1, <2>2
<1>8. 0..n \subseteq {i \in 0..n : g[i] \in Conns}
  <2> DEFINE T == {i \in 0..n : g[i] \in Conns}
  <2> HIDE DEF step
  <2>1. 0 \in T
    BY <1>1, <1>7
  <2>2. ASSUME NEW i \in 0..(n - 1), i \in T PROVE i + 1 \in T
    <3>1. i + 1 \in 1..n /\ (i + 1) - 1 = i /\ s[i + 1] \in Records
      BY <1>1
    <3>2. g[i + 1] = ProcessRecord(g[i], s[i + 1])
      BY <1>7, <3>1
    <3>3. g[i + 1] \in Conns
      BY <2>2, <3>1, <3>2, RecordOne
    <3>4. QED
      BY <3>1, <3>3
  <2>3. 0..n \subseteq T
    <3> HIDE DEF T, n
    <3> QED BY <1>1, <2>1, <2>2, SetInduction
  <2>4. QED
    BY <2>3
<1>9. QED
  BY <1>6, <1>7, <1>8

-----------------------------------------------------------------------------
\* The flights that one end waits for.
HandshakeKinds == {"hello", "flight", "finished"}
\* What carries the stream.
StreamKinds == {"data", "close_notify"}

\* Plaintext as records.
Plain(p) == [i \in 1..Len(p) |-> Data(p[i])]
\* The records of a stream that is closed or not.
Marked(p, closing) == Plain(p) \o (IF closing THEN <<Notify>> ELSE <<>>)
\* All the plaintext an end has written, numbered.
Identity(n) == [i \in 1..n |-> i]

\* Concatenation of sequences of records.
LEMMA RecordConcat ==
  /\ \A x, y, z \in Seq(Records) : (x \o y) \o z = x \o (y \o z)
  /\ \A x, y \in Seq(Records) : x \o y \in Seq(Records)
  /\ \A x \in Seq(Records) : <<>> \o x = x /\ x \o <<>> = x
<1>1. \A x, y, z \in Seq(Records) : (x \o y) \o z = x \o (y \o z)
  BY ConcatJoin, SMTT(60)
<1>2. \A x, y \in Seq(Records) : x \o y \in Seq(Records)
  BY ConcatElements
<1>3. \A x \in Seq(Records) : <<>> \o x = x /\ x \o <<>> = x
  BY ConcatEmptySeq
<1>4. QED
  BY <1>1, <1>2, <1>3

\* Its associativity on its own, which is what the provers instantiate best.
LEMMA Join ==
  \A x, y, z \in Seq(Records) : (x \o y) \o z = x \o (y \o z)
BY RecordConcat
\* Concatenation of plaintext.
LEMMA PlainConcat ==
  /\ \A x, y, z \in Seq(1..MaxData) : (x \o y) \o z = x \o (y \o z)
  /\ \A x, y \in Seq(1..MaxData) : x \o y \in Seq(1..MaxData)
<1>1. \A x, y, z \in Seq(1..MaxData) : (x \o y) \o z = x \o (y \o z)
  BY ConcatJoin, SMTT(60)
<1>2. \A x, y \in Seq(1..MaxData) : x \o y \in Seq(1..MaxData)
  BY ConcatElements
<1>4. QED
  BY <1>1, <1>2

\* The elements of Plain.
LEMMA PlainFacts ==
  ASSUME NEW p \in Seq(1..MaxData)
  PROVE  /\ Plain(p) \in Seq(Records) /\ Len(Plain(p)) = Len(p)
         /\ \A i \in 1..Len(p) : Plain(p)[i] = Data(p[i])
<1>1. ASSUME NEW i \in 1..Len(p) PROVE p[i] \in 1..MaxData
  <2>1. i \in DOMAIN p
    OBVIOUS
  <2>2. QED
    BY <2>1, SeqElement
<1>2. \A i \in 1..Len(p) : Data(p[i]) \in Records
  BY <1>1, RecordFacts
<1>3. QED
  BY <1>2 DEF Plain

\* One more plaintext is one more record.
LEMMA PlainGrows ==
  ASSUME NEW p \in Seq(1..MaxData), NEW x \in 1..MaxData
  PROVE  Plain(p \o <<x>>) = Plain(p) \o <<Data(x)>>
<1> DEFINE q == p \o <<x>>
           a == Plain(q)
           b == Plain(p) \o <<Data(x)>>
<1>1. q \in Seq(1..MaxData) /\ Len(q) = Len(p) + 1 /\ q[Len(p) + 1] = x /\ \A i \in 1..Len(p) : q[i] = p[i]
  OBVIOUS
<1>2. a \in Seq(Records) /\ Len(a) = Len(p) + 1 /\ \A i \in 1..(Len(p) + 1) : a[i] = Data(q[i])
  <2> HIDE DEF q
  <2> QED BY <1>1, PlainFacts
<1>3. /\ b \in Seq(Records) /\ Len(b) = Len(p) + 1 /\ b[Len(p) + 1] = Data(x)
      /\ \A i \in 1..Len(p) : b[i] = Data(p[i])
  <2>1. Plain(p) \in Seq(Records) /\ Len(Plain(p)) = Len(p) /\ Data(x) \in Records
        /\ \A i \in 1..Len(p) : Plain(p)[i] = Data(p[i])
    BY PlainFacts, RecordFacts
  <2>2. QED
    BY <2>1
<1> HIDE DEF a, b, q
<1>4. \A i \in 1..(Len(p) + 1) : a[i] = b[i]
  BY <1>1, <1>2, <1>3
<1>5. a = b
  BY <1>2, <1>3, <1>4
<1>6. QED
  BY <1>5 DEF a, b, q

\* The elements of Marked.
LEMMA MarkedFacts ==
  ASSUME NEW p \in Seq(1..MaxData), NEW closing \in BOOLEAN
  PROVE  /\ Marked(p, closing) \in Seq(Records)
         /\ Len(Marked(p, closing)) = Len(p) + (IF closing THEN 1 ELSE 0)
         /\ \A i \in 1..Len(p) : Marked(p, closing)[i] = Data(p[i])
         /\ closing => Marked(p, closing)[Len(p) + 1] = Notify
         /\ ~closing => Marked(p, closing) = Plain(p)
         /\ closing => Marked(p, closing) = Plain(p) \o <<Notify>>
<1>1. Plain(p) \in Seq(Records) /\ Len(Plain(p)) = Len(p) /\ Notify \in Records
      /\ \A i \in 1..Len(p) : Plain(p)[i] = Data(p[i])
  BY PlainFacts, RecordFacts
<1>2. CASE closing
  <2>1. Marked(p, closing) = Plain(p) \o <<Notify>>
    BY <1>2 DEF Marked
  <2>2. /\ Plain(p) \o <<Notify>> \in Seq(Records) /\ Len(Plain(p) \o <<Notify>>) = Len(p) + 1
        /\ (Plain(p) \o <<Notify>>)[Len(p) + 1] = Notify
        /\ \A i \in 1..Len(p) : (Plain(p) \o <<Notify>>)[i] = Data(p[i])
    <3> DEFINE q == Plain(p)
    <3>1. /\ q \in Seq(Records) /\ Notify \in Records /\ Len(q) = Len(p)
          /\ \A i \in 1..Len(p) : q[i] = Data(p[i])
      BY <1>1
    <3> HIDE DEF q
    <3>2. /\ q \o <<Notify>> \in Seq(Records) /\ Len(q \o <<Notify>>) = Len(q) + 1
          /\ (q \o <<Notify>>)[Len(q) + 1] = Notify
          /\ \A i \in 1..Len(q) : (q \o <<Notify>>)[i] = q[i]
      BY <3>1, SMTT(30)
    <3>3. QED
      BY <3>1, <3>2 DEF q
  <2>3. QED
    BY <1>2, <2>1, <2>2
<1>3. CASE ~closing
  <2>1. Marked(p, closing) = Plain(p)
    BY <1>1, <1>3 DEF Marked
  <2>2. QED
    BY <1>1, <1>3, <2>1
<1>4. QED
  BY <1>2, <1>3

\* The elements of Identity.
LEMMA IdentityFacts ==
  ASSUME NEW n \in 0..MaxData
  PROVE  /\ Identity(n) \in Seq(1..MaxData) /\ Len(Identity(n)) = n
         /\ \A i \in 1..n : Identity(n)[i] = i
<1>1. n \in Nat /\ \A i \in 1..n : i \in 1..MaxData
  BY TlsAssumption
<1>2. QED
  BY <1>1 DEF Identity

\* In a stream that equals what was written nothing follows the close_notify:
\* the writer has closed and everything came before it.
LEMMA NotifyIsLast ==
  ASSUME NEW p \in Seq(1..MaxData), NEW t \in Seq(Records), NEW n \in 0..MaxData, NEW b \in BOOLEAN,
         Marked(p, TRUE) \o t = Marked(Identity(n), b)
  PROVE  t = <<>> /\ b /\ Len(p) = n
<1> DEFINE l == Marked(p, TRUE)
           r == Marked(Identity(n), b)
           k == Len(p)
<1>1. l \in Seq(Records) /\ Len(l) = k + 1 /\ l[k + 1] = Notify /\ k \in Nat
  <2>1. TRUE \in BOOLEAN /\ Len(p) \in Nat
    OBVIOUS
  <2>2. QED
    BY <2>1, MarkedFacts
<1>2. /\ r \in Seq(Records) /\ Len(r) = n + (IF b THEN 1 ELSE 0)
      /\ \A i \in 1..n : r[i] = Data(i)
  <2>1. Identity(n) \in Seq(1..MaxData) /\ Len(Identity(n)) = n /\ \A i \in 1..n : Identity(n)[i] = i
    BY IdentityFacts
  <2> DEFINE q == Identity(n)
  <2>2. /\ Marked(q, b) \in Seq(Records) /\ Len(Marked(q, b)) = Len(q) + (IF b THEN 1 ELSE 0)
        /\ \A i \in 1..Len(q) : Marked(q, b)[i] = Data(q[i])
    BY <2>1, MarkedFacts
  <2>3. QED
    BY <2>1, <2>2
<1> HIDE DEF l, r, k
<1>3. l \o t = r
  BY DEF l, r
<1>4. Len(r) = k + 1 + Len(t) /\ r[k + 1] = Notify /\ Len(t) \in Nat
  <2>1. Len(l \o t) = k + 1 + Len(t) /\ (l \o t)[k + 1] = l[k + 1] /\ Len(t) \in Nat
    <3>1. l \in Seq(Records) /\ t \in Seq(Records) /\ Len(l) = k + 1 /\ k \in Nat
      BY <1>1
    <3>2. QED
      BY <3>1, SMTT(30)
  <2>2. QED
    BY <1>1, <1>3, <2>1
<1>5. k + 1 > n
  <2> SUFFICES ASSUME k + 1 <= n PROVE FALSE
    BY <1>1
  <2>1. r[k + 1] = Data(k + 1)
    BY <1>1, <1>2
  <2>2. QED
    BY <1>4, <2>1, KindFacts
<1>6. n \in Nat
  BY TlsAssumption
<1>7. b /\ k = n /\ Len(t) = 0
  BY <1>1, <1>2, <1>4, <1>5, <1>6
<1>8. QED
  BY <1>7 DEF k

\* What an end was given, what its rustls has decrypted and what is coming to
\* it are together what its peer wrote.
Flow(g, c, coming, n, b) ==
  Marked(g \o c.plain, c.peer_closed) \o coming = Marked(Identity(n), b)

\* rustls keeps that when it processes the next record.
LEMMA FlowOne ==
  ASSUME NEW c \in Conns, NEW r \in Records, NEW g \in Seq(1..MaxData), NEW rest \in Seq(Records),
         NEW n \in 0..MaxData, NEW b \in BOOLEAN,
         Flow(g, c, OfKind(StreamKinds, <<r>>) \o rest, n, b)
  PROVE  Flow(g, ProcessRecord(c, r), rest, n, b)
<1> USE DEF Flow
<1> DEFINE d == ProcessRecord(c, r)
           p == g \o c.plain
<1>1. c.plain \in Seq(1..MaxData) /\ p \in Seq(1..MaxData) /\ c.peer_closed \in BOOLEAN
  BY DEF Conns
<1>2. OfKind(StreamKinds, <<r>>) = IF r.kind \in StreamKinds THEN <<r>> ELSE <<>>
  BY OfKindOne
<1>4. Notify \in Records /\ <<r>> \in Seq(Records) /\ Plain(p) \in Seq(Records)
  <2>1. Notify \in Records /\ <<r>> \in Seq(Records)
    BY RecordFacts
  <2>2. Plain(p) \in Seq(Records)
    <3> HIDE DEF p
    <3> QED BY <1>1, PlainFacts
  <2>3. QED
    BY <2>1, <2>2
<1>5. CASE r.kind \notin StreamKinds
  <2>1. d.plain = c.plain /\ d.peer_closed = c.peer_closed
    BY <1>5, RecordOne DEF StreamKinds
  <2>2. OfKind(StreamKinds, <<r>>) \o rest = rest
    BY <1>2, <1>5, RecordConcat
  <2>3. QED
    BY <2>1, <2>2
<1>6. CASE r.kind \in StreamKinds
  <2>1. OfKind(StreamKinds, <<r>>) = <<r>> /\ <<r>> \o rest \in Seq(Records) /\ <<r>> \o rest # <<>>
    BY <1>2, <1>6
  <2>2. c.peer_closed = FALSE
    <3> SUFFICES ASSUME c.peer_closed = TRUE PROVE FALSE
      BY <1>1
    <3>1. Marked(p, TRUE) \o (<<r>> \o rest) = Marked(Identity(n), b)
      BY <2>1
    <3> HIDE DEF p
    <3>2. QED
      BY <1>1, <2>1, <3>1, NotifyIsLast
  <2>3. Plain(p) \o (<<r>> \o rest) = Marked(Identity(n), b)
    <3>1. Marked(p, FALSE) = Plain(p)
      <4> HIDE DEF p
      <4> QED BY <1>1, MarkedFacts
    <3>2. QED
      BY <2>1, <2>2, <3>1
  <2>4. (Plain(p) \o <<r>>) \o rest = Marked(Identity(n), b)
    <3> HIDE DEF p
    <3>1. (Plain(p) \o <<r>>) \o rest = Plain(p) \o (<<r>> \o rest)
      BY <1>4, RecordConcat, SMTT(30)
    <3>2. QED
      BY <2>3, <3>1
  <2>5. CASE r.kind = "data"
    <3>1. d.plain = c.plain \o <<r.n>> /\ d.peer_closed = FALSE /\ r.n \in 1..MaxData /\ r = Data(r.n)
      BY <2>2, <2>5, RecordOne, RecordFacts
    <3>2. g \o d.plain = p \o <<r.n>>
      <4>1. <<r.n>> \in Seq(1..MaxData)
        BY <3>1
      <4> HIDE DEF d
      <4>2. (g \o c.plain) \o <<r.n>> = g \o (c.plain \o <<r.n>>)
        <5>1. g \in Seq(1..MaxData) /\ c.plain \in Seq(1..MaxData)
          BY <1>1
        <5>2. QED
          BY <4>1, <5>1, PlainConcat, ZenonT(40)
      <4>3. QED
        BY <3>1, <4>2
    <3>3. Plain(p \o <<r.n>>) = Plain(p) \o <<r>> /\ p \o <<r.n>> \in Seq(1..MaxData)
      <4> HIDE DEF p, d
      <4>1. Plain(p \o <<r.n>>) = Plain(p) \o <<Data(r.n)>>
        BY <1>1, <3>1, PlainGrows
      <4>2. <<r.n>> \in Seq(1..MaxData)
        BY <3>1
      <4>3. QED
        BY <1>1, <3>1, <4>1, <4>2, PlainConcat
    <3>4. Marked(p \o <<r.n>>, FALSE) = Plain(p \o <<r.n>>)
      BY <3>3, MarkedFacts
    <3> HIDE DEF d, p
    <3>5. Marked(g \o d.plain, d.peer_closed) \o rest = Marked(Identity(n), b)
      BY <2>4, <3>1, <3>2, <3>3, <3>4
    <3>6. QED
      BY <3>5 DEF d
  <2>6. CASE r.kind = "close_notify"
    <3>1. d.plain = c.plain /\ d.peer_closed = TRUE /\ r = Notify
      BY <2>6, RecordOne, RecordFacts
    <3>2. Marked(p, TRUE) = Plain(p) \o <<Notify>>
      <4> HIDE DEF p
      <4> QED BY <1>1, MarkedFacts
    <3>3. QED
      BY <2>4, <3>1, <3>2
  <2>7. QED
    BY <1>6, <2>5, <2>6 DEF StreamKinds
<1>7. QED
  BY <1>5, <1>6

\* OfKindConcat quantified over the sequences, for one set of kinds.
LEMMA OfKindJoin ==
  ASSUME NEW kinds
  PROVE  \A a, b \in Seq(Records) : OfKind(kinds, a \o b) = OfKind(kinds, a) \o OfKind(kinds, b)
BY OfKindConcat

\* What is still coming once the first k records of s are processed.
Rest(kinds, s, y, k) == OfKind(kinds, SubSeq(s, k + 1, Len(s)) \o y)

\* The next record is the first of what is coming.
LEMMA Splits ==
  ASSUME NEW kinds, NEW s \in Seq(Records), NEW y \in Seq(Records), NEW k \in 0..(Len(s) - 1)
  PROVE  /\ k + 1 \in 1..Len(s) /\ s[k + 1] \in Records
         /\ OfKind(kinds, <<s[k + 1]>>) \in Seq(Records) /\ Rest(kinds, s, y, k + 1) \in Seq(Records)
         /\ Rest(kinds, s, y, k) = OfKind(kinds, <<s[k + 1]>>) \o Rest(kinds, s, y, k + 1)
<1> DEFINE q == SubSeq(s, k + 2, Len(s))
           r == s[k + 1]
           w == SubSeq(s, k + 1, Len(s))
<1>1. k + 1 \in 1..Len(s) /\ r \in Records /\ q \in Seq(Records) /\ w = <<r>> \o q
  BY RestSeq
<1>2. Rest(kinds, s, y, k) = OfKind(kinds, w \o y) /\ Rest(kinds, s, y, k + 1) = OfKind(kinds, q \o y)
  <2>1. (k + 1) + 1 = k + 2
    OBVIOUS
  <2>2. QED
    BY <2>1 DEF Rest
<1> HIDE DEF q, r, w
<1>3. <<r>> \in Seq(Records) /\ q \o y \in Seq(Records)
  BY <1>1, RecordConcat
<1>4. w \o y = <<r>> \o (q \o y)
  BY <1>1, <1>3, RecordConcat
<1>5. OfKind(kinds, w \o y) = OfKind(kinds, <<r>>) \o OfKind(kinds, q \o y)
  <2>1. \A a, b \in Seq(Records) : OfKind(kinds, a \o b) = OfKind(kinds, a) \o OfKind(kinds, b)
    BY OfKindJoin
  <2>2. QED
    BY <1>3, <1>4, <2>1
<1>6. OfKind(kinds, <<r>>) \in Seq(Records) /\ OfKind(kinds, q \o y) \in Seq(Records)
  BY <1>3, OfKindType
<1>7. QED
  BY <1>1, <1>2, <1>5, <1>6 DEF r

\* Before the first one everything is coming.
LEMMA RestFirst ==
  ASSUME NEW kinds, NEW s \in Seq(Records), NEW y
  PROVE  Rest(kinds, s, y, 0) = OfKind(kinds, s \o y)
<1>1. SubSeq(s, 0 + 1, Len(s)) = s
  BY SubSeqFull
<1>2. QED
  BY <1>1 DEF Rest

\* FlowOne, with what follows split in two.
LEMMA FlowStep ==
  ASSUME NEW c \in Conns, NEW r \in Records, NEW later \in Seq(Records), NEW rest \in Seq(Records),
         NEW g \in Seq(1..MaxData), NEW n \in 0..MaxData, NEW b \in BOOLEAN,
         Flow(g, c, (OfKind(StreamKinds, <<r>>) \o later) \o rest, n, b)
  PROVE  Flow(g, ProcessRecord(c, r), later \o rest, n, b)
<1> DEFINE one == OfKind(StreamKinds, <<r>>)
<1>1. one \in Seq(Records)
  <2>1. <<r>> \in Seq(Records)
    OBVIOUS
  <2>2. QED
    BY <2>1, OfKindType
<1>2. (one \o later) \o rest = one \o (later \o rest) /\ later \o rest \in Seq(Records)
  <2> HIDE DEF one
  <2> QED BY <1>1, RecordConcat, SMTT(30)
<1>3. Flow(g, c, one \o (later \o rest), n, b)
  BY <1>2
<1>4. QED
  BY <1>2, <1>3, FlowOne

\* rustls keeps the stream in order however many records it takes, by
\* induction over their number.
LEMMA FlowProcessed ==
  ASSUME NEW c \in Conns, NEW s \in Seq(Records), NEW y \in Seq(Records), NEW rest \in Seq(Records),
         NEW g \in Seq(1..MaxData), NEW n \in 0..MaxData, NEW b \in BOOLEAN,
         Flow(g, c, OfKind(StreamKinds, s \o y) \o rest, n, b),
         NEW k \in 0..Len(s)
  PROVE  Flow(g, Processed(c, s, k), Rest(StreamKinds, s, y, k) \o rest, n, b)
<1> DEFINE ok(i) == Flow(g, Processed(c, s, i), Rest(StreamKinds, s, y, i) \o rest, n, b)
           T == {i \in 0..Len(s) : ok(i)}
<1>0. Len(s) \in Nat
  OBVIOUS
<1>1. 0 \in T
  <2>1. ok(0)
    BY ProcessedRun, RestFirst
  <2> HIDE DEF ok
  <2>2. QED
    BY <1>0, <2>1
<1>2. ASSUME NEW i \in 0..(Len(s) - 1), i \in T PROVE i + 1 \in T
  <2> DEFINE r == s[i + 1]
             d == Processed(c, s, i)
             one == OfKind(StreamKinds, <<r>>)
             later == Rest(StreamKinds, s, y, i + 1)
  <2>1. r \in Records /\ later \in Seq(Records) /\ Rest(StreamKinds, s, y, i) = one \o later
    BY Splits
  <2>2. d \in Conns /\ Processed(c, s, i + 1) = ProcessRecord(d, r)
    <3>1. i \in 0..Len(s) /\ i + 1 \in 1..Len(s) /\ (i + 1) - 1 = i
      OBVIOUS
    <3>2. QED
      BY <3>1, ProcessedRun
  <2>3. Flow(g, d, (one \o later) \o rest, n, b)
    <3>1. ok(i)
      BY <1>2
    <3>2. QED
      BY <2>1, <3>1
  <2>4. ok(i + 1)
    <3> HIDE DEF d, later, r
    <3>1. Flow(g, ProcessRecord(d, r), later \o rest, n, b)
      BY <2>1, <2>2, <2>3, FlowStep
    <3>2. QED
      BY <2>2, <3>1 DEF later
  <2>5. i + 1 \in 0..Len(s)
    BY <1>0
  <2> HIDE DEF ok
  <2>6. QED
    BY <2>4, <2>5
<1>3. 0..Len(s) \subseteq T
  <2> HIDE DEF T
  <2> QED BY <1>0, <1>1, <1>2, SetInduction
<1>4. QED
  BY <1>3

-----------------------------------------------------------------------------
\* Where two ends are in the handshake, seen from e: exactly one flight is
\* under way until both are done.
Handshake(e, handshaking, incoming, peer, outgoing) ==
  \/ e = Server /\ handshaking /\ peer /\ incoming = <<Hello>> /\ outgoing = <<>>
  \/ e = Server /\ handshaking /\ peer /\ incoming = <<>> /\ outgoing = <<Flight>>
  \/ e = Server /\ handshaking /\ ~peer /\ incoming = <<Finished>> /\ outgoing = <<>>
  \/ e = Client /\ handshaking /\ peer /\ incoming = <<>> /\ outgoing = <<Hello>>
  \/ e = Client /\ handshaking /\ peer /\ incoming = <<Flight>> /\ outgoing = <<>>
  \/ e = Client /\ ~handshaking /\ peer /\ incoming = <<>> /\ outgoing = <<Finished>>
  \/ ~handshaking /\ ~peer /\ incoming = <<>> /\ outgoing = <<>>

\* Selecting from a sequence with one more record.
LEMMA KindConcat ==
  ASSUME NEW kinds, NEW x \in Seq(Records), NEW r \in Records
  PROVE  /\ OfKind(kinds, x) \in Seq(Records)
         /\ r.kind \notin kinds => OfKind(kinds, x \o <<r>>) = OfKind(kinds, x)
         /\ r.kind \in kinds => OfKind(kinds, x \o <<r>>) = OfKind(kinds, x) \o <<r>>
<1>1. <<r>> \in Seq(Records) /\ OfKind(kinds, x) \in Seq(Records)
  BY OfKindType
<1>2. OfKind(kinds, x \o <<r>>) = OfKind(kinds, x) \o OfKind(kinds, <<r>>)
  <2>1. \A a, b \in Seq(Records) : OfKind(kinds, a \o b) = OfKind(kinds, a) \o OfKind(kinds, b)
    BY OfKindConcat
  <2>2. QED
    BY <1>1, <2>1
<1>3. CASE r.kind \in kinds
  <2>1. OfKind(kinds, <<r>>) = <<r>>
    BY <1>3, OfKindOne
  <2>2. QED
    BY <1>1, <1>2, <1>3, <2>1
<1>4. CASE r.kind \notin kinds
  <2>1. OfKind(kinds, <<r>>) = <<>>
    BY <1>4, OfKindOne
  <2>2. OfKind(kinds, x) \o <<>> = OfKind(kinds, x)
    BY <1>1, RecordConcat
  <2>3. QED
    BY <1>1, <1>2, <1>4, <2>1, <2>2
<1>5. QED
  BY <1>3, <1>4

\* Processing a record sends nothing of the stream.
LEMMA OutOne ==
  ASSUME NEW c \in Conns, NEW r \in Records
  PROVE  OfKind(StreamKinds, ProcessRecord(c, r).out) = OfKind(StreamKinds, c.out)
<1>1. c.out \in Seq(Records)
  BY DEF Conns
<1>2. CASE ProcessRecord(c, r).out = c.out
  BY <1>2
<1>3. CASE \E x \in {Flight, Finished, Ticket, Alert} : ProcessRecord(c, r).out = c.out \o <<x>>
  <2>1. PICK x \in {Flight, Finished, Ticket, Alert} : ProcessRecord(c, r).out = c.out \o <<x>>
    BY <1>3
  <2>2. x \in Records /\ x.kind \notin StreamKinds
    BY RecordFacts, KindFacts DEF StreamKinds
  <2>3. OfKind(StreamKinds, c.out \o <<x>>) = OfKind(StreamKinds, c.out)
    BY <1>1, <2>2, KindConcat
  <2>4. QED
    BY <2>1, <2>3
<1>4. QED
  BY <1>2, <1>3, RecordOne

\* Nor does processing many; nor does it close.
LEMMA OutProcessed ==
  ASSUME NEW c \in Conns, NEW s \in Seq(Records), NEW k \in 0..Len(s)
  PROVE  /\ OfKind(StreamKinds, Processed(c, s, k).out) = OfKind(StreamKinds, c.out)
         /\ Processed(c, s, k).notified = c.notified
<1> DEFINE ok(d) == OfKind(StreamKinds, d.out) = OfKind(StreamKinds, c.out) /\ d.notified = c.notified
           T == {i \in 0..Len(s) : ok(Processed(c, s, i))}
<1>0. Len(s) \in Nat
  OBVIOUS
<1>1. 0 \in T
  <2>1. Processed(c, s, 0) = c
    BY ProcessedRun
  <2>2. QED
    BY <1>0, <2>1
<1>2. ASSUME NEW i \in 0..(Len(s) - 1), i \in T PROVE i + 1 \in T
  <2> DEFINE r == s[i + 1]
             d == Processed(c, s, i)
  <2>1. d \in Conns /\ r \in Records /\ Processed(c, s, i + 1) = ProcessRecord(d, r)
    <3>1. i \in 0..Len(s) /\ i + 1 \in 1..Len(s) /\ (i + 1) - 1 = i
      OBVIOUS
    <3>2. QED
      BY <3>1, ProcessedRun
  <2>2. ok(d)
    BY <1>2
  <2>3. ok(ProcessRecord(d, r))
    <3> HIDE DEF d, r
    <3> QED BY <2>1, <2>2, OutOne, RecordOne
  <2>4. i + 1 \in 0..Len(s)
    BY <1>0
  <2> HIDE DEF ok
  <2>5. QED
    BY <2>1, <2>3, <2>4
<1>3. 0..Len(s) \subseteq T
  <2> HIDE DEF T
  <2> QED BY <1>0, <1>1, <1>2, SetInduction
<1>4. QED
  BY <1>3

\* A sequence that starts with a record and has length one is that record.
LEMMA OneRecord ==
  ASSUME NEW r \in Records, NEW t \in Seq(Records)
  PROVE  <<r>> \o t # <<>> /\ \A x \in Records : <<r>> \o t = <<x>> => x = r /\ t = <<>>
<1>1. <<r>> \in Seq(Records) /\ Len(<<r>>) = 1 /\ <<r>>[1] = r
  OBVIOUS
<1>2. Len(<<r>> \o t) = 1 + Len(t) /\ (<<r>> \o t)[1] = r /\ Len(t) \in Nat
  BY <1>1
<1>3. ASSUME NEW x \in Records, <<r>> \o t = <<x>> PROVE x = r /\ t = <<>>
  <2>1. Len(<<x>>) = 1 /\ <<x>>[1] = x
    OBVIOUS
  <2>2. Len(<<r>> \o t) = 1 /\ (<<r>> \o t)[1] = x
    BY <1>3, <2>1
  <2>3. x = r /\ Len(t) = 0
    BY <1>2, <2>2
  <2>4. QED
    BY <2>3
<1>4. QED
  BY <1>2, <1>3

\* A processed flight is answered by the next one; after the handshake rustls
\* sends nothing on its own.
LEMMA HandshakeOne ==
  ASSUME NEW c \in Conns, NEW r \in Records, NEW e \in Ends, NEW peer \in BOOLEAN,
         NEW z \in Seq(Records), NEW later \in Seq(Records), ~ProcessRecord(c, r).failed,
         Handshake(e, c.handshaking, OfKind(HandshakeKinds, <<r>>) \o later, peer,
                   OfKind(HandshakeKinds, z \o c.out))
  PROVE  /\ Handshake(e, ProcessRecord(c, r).handshaking, later, peer,
                      OfKind(HandshakeKinds, z \o ProcessRecord(c, r).out))
         /\ ~c.handshaking => /\ ProcessRecord(c, r).out = c.out
                              /\ ~ProcessRecord(c, r).handshaking
<1> DEFINE d == ProcessRecord(c, r)
           hs == OfKind(HandshakeKinds, <<r>>)
           going == OfKind(HandshakeKinds, z \o c.out)
<1>1. c.out \in Seq(Records) /\ z \o c.out \in Seq(Records) /\ c.handshaking \in BOOLEAN
  <2>1. c.out \in Seq(Records) /\ c.handshaking \in BOOLEAN
    BY DEF Conns
  <2>2. QED
    BY <2>1, RecordConcat
<1>2. CASE r.kind \notin HandshakeKinds
  <2>1. hs = <<>>
    BY <1>2, OfKindOne
  <2>2. hs \o later = later
    BY <2>1, RecordConcat
  <2>3. d.out = c.out /\ d.handshaking = c.handshaking
    BY <1>2, RecordOne DEF HandshakeKinds
  <2>4. QED
    BY <2>2, <2>3
<1>3. CASE r.kind \in HandshakeKinds
  <2>1. hs = <<r>>
    BY <1>3, OfKindOne
  <2>2. Handshake(e, c.handshaking, <<r>> \o later, peer, going)
    BY <2>1
  <2>3. Client # Server /\ {Hello, Flight, Finished, Ticket} \subseteq Records
    BY TlsAssumption, RecordFacts
  <2>4. /\ <<r>> \o later # <<>>
        /\ \A x \in {Hello, Flight, Finished} : <<r>> \o later = <<x>> => x = r /\ later = <<>>
    BY <2>3, OneRecord
  <2>5. ASSUME NEW x \in Records, d.out = c.out \o <<x>>
        PROVE  /\ x.kind \in HandshakeKinds => OfKind(HandshakeKinds, z \o d.out) = going \o <<x>>
               /\ x.kind \notin HandshakeKinds => OfKind(HandshakeKinds, z \o d.out) = going
    <3>1. <<x>> \in Seq(Records)
      OBVIOUS
    <3> DEFINE o == c.out
               w == z \o o
    <3>2. o \in Seq(Records) /\ w \in Seq(Records)
      BY <1>1
    <3>3. z \o (o \o <<x>>) = w \o <<x>>
      <4> HIDE DEF o
      <4> QED BY <3>1, <3>2, RecordConcat
    <3> HIDE DEF d, o
    <3>4. z \o d.out = w \o <<x>>
      BY <2>5, <3>3 DEF o
    <3> HIDE DEF w
    <3>5. /\ x.kind \in HandshakeKinds =>
               OfKind(HandshakeKinds, w \o <<x>>) = OfKind(HandshakeKinds, w) \o <<x>>
          /\ x.kind \notin HandshakeKinds => OfKind(HandshakeKinds, w \o <<x>>) = OfKind(HandshakeKinds, w)
      BY <3>2, KindConcat
    <3>6. QED
      BY <3>4, <3>5 DEF w, o
  <2>6. <<>> \o <<Flight>> = <<Flight>> /\ <<>> \o <<Finished>> = <<Finished>>
    OBVIOUS
  <2> HIDE DEF d, going
  <2>7. CASE r.kind = "hello"
    <3>1. r = Hello /\ d.out = c.out \o <<Flight>> /\ d.handshaking = c.handshaking
      BY <2>7, RecordFacts, RecordOne DEF d
    <3>2. later = <<>> /\ going = <<>> /\ e = Server /\ c.handshaking /\ peer
      BY <2>2, <2>3, <2>4, <3>1, KindFacts DEF Handshake
    <3>3. OfKind(HandshakeKinds, z \o d.out) = <<Flight>>
      BY <2>3, <2>5, <2>6, <3>1, <3>2, KindFacts DEF HandshakeKinds
    <3>4. QED
      BY <3>1, <3>2, <3>3 DEF Handshake, d
  <2>8. CASE r.kind = "flight"
    <3>1. r = Flight /\ d.out = c.out \o <<Finished>> /\ d.handshaking = FALSE
      BY <2>8, RecordFacts, RecordOne DEF d
    <3>2. later = <<>> /\ going = <<>> /\ e = Client /\ c.handshaking /\ peer
      BY <2>2, <2>3, <2>4, <3>1, KindFacts DEF Handshake
    <3>3. OfKind(HandshakeKinds, z \o d.out) = <<Finished>>
      BY <2>3, <2>5, <2>6, <3>1, <3>2, KindFacts DEF HandshakeKinds
    <3>4. QED
      BY <3>1, <3>2, <3>3 DEF Handshake, d
  <2>9. CASE r.kind = "finished"
    <3>1. r = Finished /\ d.out = c.out \o <<Ticket>> /\ d.handshaking = FALSE
      BY <2>9, RecordFacts, RecordOne DEF d
    <3>2. later = <<>> /\ going = <<>> /\ e = Server /\ c.handshaking /\ ~peer
      BY <2>2, <2>3, <2>4, <3>1, KindFacts DEF Handshake
    <3>3. OfKind(HandshakeKinds, z \o d.out) = <<>>
      BY <2>3, <2>5, <3>1, <3>2, KindFacts DEF HandshakeKinds
    <3>4. QED
      BY <3>1, <3>2, <3>3 DEF Handshake, d
  <2>10. QED
    BY <1>3, <2>7, <2>8, <2>9 DEF HandshakeKinds
<1>4. QED
  BY <1>2, <1>3

\* The same for any number of records, by induction.
LEMMA HandshakeProcessed ==
  ASSUME NEW c \in Conns, NEW s \in Seq(Records), NEW y \in Seq(Records), NEW e \in Ends,
         NEW peer \in BOOLEAN, NEW z \in Seq(Records),
         Handshake(e, c.handshaking, OfKind(HandshakeKinds, s \o y), peer,
                   OfKind(HandshakeKinds, z \o c.out)),
         NEW k \in 0..Len(s), ~Processed(c, s, k).failed
  PROVE  LET d == Processed(c, s, k) IN
         /\ Handshake(e, d.handshaking, Rest(HandshakeKinds, s, y, k), peer,
                      OfKind(HandshakeKinds, z \o d.out))
         /\ ~c.handshaking => d.out = c.out /\ ~d.handshaking
<1> DEFINE shake(d, i) == /\ Handshake(e, d.handshaking, Rest(HandshakeKinds, s, y, i), peer,
                                       OfKind(HandshakeKinds, z \o d.out))
                          /\ ~c.handshaking => d.out = c.out /\ ~d.handshaking
           ok(i) == ~Processed(c, s, i).failed => shake(Processed(c, s, i), i)
           T == {i \in 0..Len(s) : ok(i)}
<1>0. Len(s) \in Nat
  OBVIOUS
<1>1. 0 \in T
  <2>1. Processed(c, s, 0) = c /\ Rest(HandshakeKinds, s, y, 0) = OfKind(HandshakeKinds, s \o y)
    BY ProcessedRun, RestFirst
  <2>2. ok(0)
    BY <2>1
  <2> HIDE DEF ok
  <2>3. QED
    BY <1>0, <2>2
<1>2. ASSUME NEW i \in 0..(Len(s) - 1), i \in T PROVE i + 1 \in T
  <2> DEFINE r == s[i + 1]
             d == Processed(c, s, i)
             one == OfKind(HandshakeKinds, <<r>>)
             later == Rest(HandshakeKinds, s, y, i + 1)
             now == ProcessRecord(d, r)
  <2>1. r \in Records /\ later \in Seq(Records) /\ Rest(HandshakeKinds, s, y, i) = one \o later
    BY Splits
  <2>2. d \in Conns /\ Processed(c, s, i + 1) = now
    <3>1. i \in 0..Len(s) /\ i + 1 \in 1..Len(s) /\ (i + 1) - 1 = i
      OBVIOUS
    <3>2. QED
      BY <3>1, ProcessedRun
  <2>3. ASSUME ~now.failed PROVE shake(now, i + 1)
    <3>1. ~d.failed
      <4> HIDE DEF d, r
      <4> QED BY <2>1, <2>2, <2>3, RecordOne
    <3>2. ok(i)
      BY <1>2
    <3>3. Handshake(e, d.handshaking, one \o later, peer, OfKind(HandshakeKinds, z \o d.out))
      BY <2>1, <3>1, <3>2
    <3>4. ~c.handshaking => d.out = c.out /\ ~d.handshaking
      BY <3>1, <3>2
    <3> HIDE DEF d, r, later
    <3>5. /\ Handshake(e, now.handshaking, later, peer, OfKind(HandshakeKinds, z \o now.out))
          /\ ~d.handshaking => now.out = d.out /\ ~now.handshaking
      BY <2>1, <2>2, <2>3, <3>3, HandshakeOne
    <3> HIDE DEF now
    <3>6. QED
      BY <3>4, <3>5 DEF later
  <2>4. ok(i + 1)
    <3> HIDE DEF shake, now
    <3> QED BY <2>2, <2>3
  <2>5. i + 1 \in 0..Len(s)
    BY <1>0
  <2> HIDE DEF ok
  <2>6. QED
    BY <2>4, <2>5
<1>3. 0..Len(s) \subseteq T
  <2> HIDE DEF T
  <2> QED BY <1>0, <1>1, <1>2, SetInduction
<1>4. QED
  BY <1>3

-----------------------------------------------------------------------------
\* No write is longer than what rustls buffers. The code does not ensure it:
\* without it TLC finds plaintext lost (MCTlsLargeWrite.cfg).
WritesFit == \A size \in WriteSizes : size <= Limit

\* Ciphertext that has left the peer.
Arrived(e) == read_buf[e] \o wire[e]
\* Ciphertext that has not yet left e.
Leaving(e) == Unsent(e) \o conn[e].out
\* All that can still come to e; what a dropped stream had not sent never
\* does.
Coming(e) == IF dropped[Peer(e)] THEN Arrived(e) ELSE Arrived(e) \o Leaving(Peer(e))

\* A write in progress has a length and stays within the bound; there is none
\* after the close_notify.
WriteFits ==
  \A e \in Ends : op[e] = "write" =>
    /\ ~conn[e].notified
    /\ pc[e] = "flush" => buf[e] \in WriteSizes /\ written[e] + buf[e] <= MaxData
\* No call is in progress on a dropped stream.
DroppedIdle == \A e \in Ends : dropped[e] => op[e] = "idle"
\* Nobody reads on after a clean end.
EofRead == \A e \in Ends : ended[e] = "eof" => op[e] # "read"
\* The part of the inductive invariant about types and calls.
Control == TypeOK /\ WriteFits /\ DroppedIdle /\ EofRead

\* There are two ends, each the peer of the other.
LEMMA PeerFacts ==
  ASSUME NEW e \in Ends
  PROVE  Peer(e) \in Ends /\ Peer(e) # e /\ Peer(Peer(e)) = e /\ \A f \in Ends : f = e \/ f = Peer(e)
BY TlsAssumption DEF Peer, Ends

\* What TypeOK says of one end.
LEMMA EndTypes ==
  ASSUME TypeOK, NEW e \in Ends
  PROVE  /\ conn[e] \in Conns /\ ~conn[e].failed
         /\ conn[e].out \in Seq(Records) /\ conn[e].plain \in Seq(1..MaxData)
         /\ conn[e].handshaking \in BOOLEAN /\ conn[e].notified \in BOOLEAN /\ conn[e].peer_closed \in BOOLEAN
         /\ read_buf[e] \in Seq(Records) /\ write_buf[e] \in Seq(Records) /\ wire[e] \in Seq(Records)
         /\ write_pos[e] \in 0..Len(write_buf[e]) /\ Len(write_buf[e]) \in Nat
         /\ written[e] \in 0..MaxData /\ got[e] \in Seq(1..MaxData) /\ written[e] \in Nat
         /\ dropped[e] \in BOOLEAN
<1>1. conn[e] \in Conns /\ ~conn[e].failed
  BY DEF TypeOK
<1>2. conn[e].out \in Seq(Records) /\ conn[e].plain \in Seq(1..MaxData)
      /\ conn[e].handshaking \in BOOLEAN /\ conn[e].notified \in BOOLEAN /\ conn[e].peer_closed \in BOOLEAN
  BY <1>1 DEF Conns
<1>3. /\ read_buf[e] \in Seq(Records) /\ write_buf[e] \in Seq(Records) /\ wire[e] \in Seq(Records)
      /\ write_pos[e] \in Nat /\ write_pos[e] <= Len(write_buf[e]) /\ dropped[e] \in BOOLEAN
  BY DEF TypeOK
<1>4. Len(write_buf[e]) \in Nat
  BY <1>3
<1>5. written[e] \in 0..MaxData /\ got[e] \in Seq(1..MaxData) /\ written[e] \in Nat
  BY TlsAssumption DEF TypeOK
<1>6. QED
  BY <1>1, <1>2, <1>3, <1>4, <1>5

\* Changing the connection of one end keeps the types.
LEMMA ConnType ==
  ASSUME TypeOK, NEW e \in Ends, NEW c \in Conns, ~c.failed, conn' = [conn EXCEPT ![e] = c]
  PROVE  conn' \in [Ends -> Conns] /\ \A f \in Ends : ~conn'[f].failed
BY DEF TypeOK

\* A connection whose records were pulled.
LEMMA NoOut ==
  ASSUME NEW c \in Conns
  PROVE  /\ [c EXCEPT !.out = <<>>] \in Conns /\ [c EXCEPT !.out = <<>>].out = <<>>
         /\ [c EXCEPT !.out = <<>>].failed = c.failed /\ [c EXCEPT !.out = <<>>].plain = c.plain
         /\ [c EXCEPT !.out = <<>>].handshaking = c.handshaking
         /\ [c EXCEPT !.out = <<>>].notified = c.notified
         /\ [c EXCEPT !.out = <<>>].peer_closed = c.peer_closed
<1>1. <<>> \in Seq(Records)
  OBVIOUS
<1>2. QED
  BY <1>1 DEF Conns

\* Unsent is what lies behind write_pos.
LEMMA UnsentFacts ==
  ASSUME TypeOK, NEW e \in Ends
  PROVE  /\ Unsent(e) \in Seq(Records) /\ Len(Unsent(e)) = Len(write_buf[e]) - write_pos[e]
<1>1. write_buf[e] \in Seq(Records) /\ write_pos[e] \in 0..Len(write_buf[e])
  BY EndTypes
<1>2. QED
  BY <1>1, CutSeq DEF Unsent

\* A step that changes only the call keeps the types.
LEMMA QuietTypes ==
  ASSUME TypeOK, UNCHANGED <<cert, conn, buffers, wire, dropped, written, got>>,
         op' \in [Ends -> Ops],
         pc' \in [Ends -> Labels],
         buf' \in [Ends -> {0} \cup WriteSizes], cancelled' \in [Ends -> BOOLEAN],
         closed' \in [Ends -> BOOLEAN], ended' \in [Ends -> {"no", "eof", "error"}]
  PROVE  TypeOK'
BY DEF TypeOK, buffers

\* pull_tls_records: what changes, that the records join the unsent ones, and
\* that write_pos stays within write_buf.
LEMMA PullFacts ==
  ASSUME TypeOK, NEW e \in Ends, NEW c \in Conns, ~c.failed, PullTlsRecords(e, c), write_pos' = write_pos
  PROVE  /\ conn' \in [Ends -> Conns] /\ \A f \in Ends : ~conn'[f].failed
         /\ write_buf' \in [Ends -> Seq(Records)]
         /\ \A f \in Ends : /\ write_pos'[f] <= Len(write_buf'[f])
                            /\ write_buf'[f] # <<>> => write_pos'[f] < Len(write_buf'[f])
         /\ Unsent(e)' = Unsent(e) \o c.out
         /\ conn'[e].out = <<>>
         /\ conn'[e].plain = c.plain /\ conn'[e].handshaking = c.handshaking
         /\ conn'[e].notified = c.notified /\ conn'[e].peer_closed = c.peer_closed
         /\ \A f \in Ends : f # e => conn'[f] = conn[f] /\ write_buf'[f] = write_buf[f]
<1> DEFINE d == [c EXCEPT !.out = <<>>]
           w == write_buf[e]
           k == write_pos[e]
<1>1. /\ d \in Conns /\ ~d.failed /\ d.out = <<>> /\ d.plain = c.plain /\ d.handshaking = c.handshaking
      /\ d.notified = c.notified /\ d.peer_closed = c.peer_closed
  BY NoOut
<1>2. conn' = [conn EXCEPT ![e] = d] /\ write_buf' = [write_buf EXCEPT ![e] = w \o c.out]
  BY DEF PullTlsRecords
<1>3. w \in Seq(Records) /\ c.out \in Seq(Records) /\ k \in 0..Len(w) /\ (w # <<>> => k < Len(w))
  <2>1. c.out \in Seq(Records)
    BY DEF Conns
  <2>2. w # <<>> => k < Len(w)
    BY DEF TypeOK
  <2>3. QED
    BY <2>1, <2>2, EndTypes
<1>4. /\ w \o c.out \in Seq(Records) /\ k \in 0..Len(w \o c.out)
      /\ SubSeq(w \o c.out, k + 1, Len(w \o c.out)) = SubSeq(w, k + 1, Len(w)) \o c.out
  <2> HIDE DEF w, k
  <2> QED BY <1>3, TailConcat
<1> HIDE DEF d
<1>5. conn' \in [Ends -> Conns] /\ (\A f \in Ends : ~conn'[f].failed) /\ conn'[e] = d
      /\ \A f \in Ends : f # e => conn'[f] = conn[f]
  BY <1>1, <1>2, ConnType DEF TypeOK
<1>6. write_buf'[e] = w \o c.out /\ (\A f \in Ends : f # e => write_buf'[f] = write_buf[f])
  BY <1>2 DEF TypeOK
<1>7. write_buf' \in [Ends -> Seq(Records)]
  BY <1>2, <1>4 DEF TypeOK
<1>8. w \o c.out # <<>> => k < Len(w \o c.out)
  <2> DEFINE o == c.out
  <2>0. w \in Seq(Records) /\ o \in Seq(Records) /\ w \o o \in Seq(Records)
    BY <1>3, <1>4
  <2> HIDE DEF w, k, o
  <2>1. Len(w \o o) = Len(w) + Len(o) /\ Len(w) \in Nat /\ Len(o) \in Nat
        /\ (w = <<>> => Len(w) = 0) /\ (w \o o # <<>> => Len(w \o o) # 0)
    BY <2>0
  <2>2. CASE w = <<>>
    BY <1>3, <2>1, <2>2 DEF o
  <2>3. CASE w # <<>>
    BY <1>3, <2>1, <2>3 DEF o
  <2>4. QED
    BY <2>2, <2>3
<1>9. Unsent(e)' = Unsent(e) \o c.out
  BY <1>4, <1>6 DEF Unsent
<1>10. ASSUME NEW f \in Ends
       PROVE  /\ write_pos'[f] <= Len(write_buf'[f])
              /\ write_buf'[f] # <<>> => write_pos'[f] < Len(write_buf'[f])
  <2>1. CASE f = e
    <3>1. write_pos'[f] = k /\ write_buf'[f] = w \o c.out
      BY <1>6, <2>1
    <3> HIDE DEF w, k
    <3>2. QED
      BY <1>4, <1>8, <3>1
  <2>2. CASE f # e
    BY <1>6, <2>2 DEF TypeOK
  <2>3. QED
    BY <2>1, <2>2
<1>11. QED
  BY <1>1, <1>5, <1>6, <1>7, <1>9, <1>10

\* feed_incoming_to_rustls: what changes.
LEMMA FeedFacts ==
  ASSUME TypeOK, NEW e \in Ends, NEW s \in Seq(Records), Feed(e, s)
  PROVE  \E k \in 1..Len(s) :
           /\ Processed(conn[e], s, k) \in Conns /\ ~Processed(conn[e], s, k).failed
           /\ conn' = [conn EXCEPT ![e] = Processed(conn[e], s, k)]
           /\ conn'[e] = Processed(conn[e], s, k)
           /\ conn' \in [Ends -> Conns] /\ \A f \in Ends : ~conn'[f].failed
           /\ \A f \in Ends : f # e => conn'[f] = conn[f] /\ read_buf'[f] = read_buf[f]
           /\ read_buf'[e] = SubSeq(s, k + 1, Len(s))
           /\ read_buf' \in [Ends -> Seq(Records)]
<1>1. PICK k \in 1..Len(s) : /\ ~Processed(conn[e], s, k).failed
                             /\ conn' = [conn EXCEPT ![e] = Processed(conn[e], s, k)]
                             /\ read_buf' = [read_buf EXCEPT ![e] = SubSeq(s, k + 1, Len(s))]
  BY DEF Feed
<1>2. conn[e] \in Conns /\ k \in 0..Len(s)
  BY EndTypes
<1> DEFINE d == Processed(conn[e], s, k)
<1>3. d \in Conns
  BY <1>2, ProcessedRun
<1>4. SubSeq(s, k + 1, Len(s)) \in Seq(Records)
  BY <1>2, CutSeq
<1>5. conn' \in [Ends -> Conns] /\ (\A f \in Ends : ~conn'[f].failed) /\ conn'[e] = d
      /\ \A f \in Ends : f # e => conn'[f] = conn[f]
  <2> HIDE DEF d
  <2>1. conn' = [conn EXCEPT ![e] = d] /\ ~d.failed
    BY <1>1 DEF d
  <2>2. QED
    BY <1>3, <2>1, ConnType DEF TypeOK
<1>6. /\ read_buf' \in [Ends -> Seq(Records)] /\ read_buf'[e] = SubSeq(s, k + 1, Len(s))
      /\ \A f \in Ends : f # e => read_buf'[f] = read_buf[f]
  BY <1>1, <1>4 DEF TypeOK
<1>7. QED
  BY <1>1, <1>3, <1>5, <1>6

\* Dropping a stream keeps the types.
LEMMA DropTypes ==
  ASSUME TypeOK, NEW e \in Ends, DropEnd(e), UNCHANGED <<cert, conn, written, got, cancelled>>,
         op' \in [Ends -> Ops],
         pc' \in [Ends -> Labels],
         buf' \in [Ends -> {0} \cup WriteSizes],
         ended' \in [Ends -> {"no", "eof", "error"}]
  PROVE  TypeOK'
<1>1. <<>> \in Seq(Records) /\ Len(<<>>) = 0 /\ Capacity \in Nat
  BY TlsAssumption
<1>2. /\ read_buf' \in [Ends -> Seq(Records)] /\ write_buf' \in [Ends -> Seq(Records)]
      /\ write_pos' \in [Ends -> Nat] /\ wire' \in [Ends -> Seq(Records)]
      /\ closed' \in [Ends -> BOOLEAN] /\ dropped' \in [Ends -> BOOLEAN]
  BY <1>1 DEF DropEnd, TypeOK
<1>3. ASSUME NEW f \in Ends
      PROVE  /\ Len(wire'[f]) <= Capacity /\ write_pos'[f] <= Len(write_buf'[f])
             /\ write_buf'[f] # <<>> => write_pos'[f] < Len(write_buf'[f])
  <2>1. CASE f = e
    <3>1. wire'[f] = <<>> /\ write_buf'[f] = <<>> /\ write_pos'[f] = 0
      BY <2>1 DEF DropEnd, TypeOK
    <3>2. QED
      BY <1>1, <3>1
  <2>2. CASE f # e
    <3>1. wire'[f] = wire[f] /\ write_buf'[f] = write_buf[f] /\ write_pos'[f] = write_pos[f]
      BY <2>2, SMTT(30) DEF DropEnd, TypeOK
    <3>2. QED
      BY <3>1 DEF TypeOK
  <2>3. QED
    BY <2>1, <2>2
<1>4. QED
  BY <1>2, <1>3 DEF TypeOK

\* One write of poll_flush_write_buf: it splits the unsent ciphertext,
\* whether it is a partial or the last one.
LEMMA PollFlushFacts ==
  ASSUME TypeOK, NEW e \in Ends, PollFlushWriteBuf(e)
  PROVE  \E n \in 1..Len(Unsent(e)) :
           /\ n <= Room(e) /\ ~dropped[Peer(e)] /\ pc[e] \in {"flush", "tail"}
           /\ wire' = [wire EXCEPT ![Peer(e)] = @ \o SubSeq(Unsent(e), 1, n)]
           /\ write_buf' = [write_buf EXCEPT ![e] = IF n = Len(Unsent(e)) THEN <<>> ELSE @]
           /\ write_pos' = [write_pos EXCEPT ![e] = IF n = Len(Unsent(e)) THEN 0 ELSE @ + n]
           /\ UNCHANGED <<cert, conn, read_buf, closed, dropped, op, pc, buf, cancelled, written, got, ended>>
           /\ SubSeq(Unsent(e), 1, n) \in Seq(Records) /\ Len(SubSeq(Unsent(e), 1, n)) = n
           /\ Unsent(e)' \in Seq(Records)
           /\ Unsent(e) = SubSeq(Unsent(e), 1, n) \o Unsent(e)'
           /\ write_buf'[e] \in Seq(Records) /\ write_pos'[e] \in Nat
           /\ write_pos'[e] <= Len(write_buf'[e])
           /\ write_buf'[e] # <<>> => write_pos'[e] < Len(write_buf'[e])
<1>1. PICK n \in 1..Len(Unsent(e)) :
           /\ n <= Room(e)
           /\ wire' = [wire EXCEPT ![Peer(e)] = @ \o SubSeq(Unsent(e), 1, n)]
           /\ write_buf' = [write_buf EXCEPT ![e] = IF n = Len(Unsent(e)) THEN <<>> ELSE @]
           /\ write_pos' = [write_pos EXCEPT ![e] = IF n = Len(Unsent(e)) THEN 0 ELSE @ + n]
  BY DEF PollFlushWriteBuf, Portions
<1> DEFINE w == write_buf[e]
           k == write_pos[e]
           u == Unsent(e)
<1>2. /\ w \in Seq(Records) /\ k \in 0..Len(w) /\ Len(w) \in Nat
      /\ u \in Seq(Records) /\ Len(u) = Len(w) - k
  BY EndTypes, UnsentFacts
<1>3. u = SubSeq(w, k + 1, Len(w))
  BY DEF Unsent
<1>4. n \in 0..Len(u) /\ k + n \in 0..Len(w) /\ n \in Nat /\ k \in Nat
  <2> HIDE DEF w, k, u
  <2> QED BY <1>1, <1>2 DEF u
<1>5. /\ SubSeq(u, 1, n) \in Seq(Records) /\ Len(SubSeq(u, 1, n)) = n
      /\ SubSeq(u, n + 1, Len(u)) \in Seq(Records)
      /\ SubSeq(u, 1, n) \o SubSeq(u, n + 1, Len(u)) = u
  <2> HIDE DEF u, w, k
  <2>1. u \in Seq(Records)
    BY <1>2
  <2>2. QED
    BY <1>4, <2>1, CutSeq
<1>6. SubSeq(u, n + 1, Len(u)) = SubSeq(w, k + n + 1, Len(w))
  <2> DEFINE a == SubSeq(u, n + 1, Len(u))
             b == SubSeq(w, (k + n) + 1, Len(w))
  <2> HIDE DEF u, w, k
  <2>1. a \in Seq(Records) /\ Len(a) = Len(u) - n /\ \A i \in 1..(Len(u) - n) : a[i] = u[n + i]
    BY <1>2, <1>4, CutSeq
  <2>2. b \in Seq(Records) /\ Len(b) = Len(w) - (k + n)
        /\ \A i \in 1..(Len(w) - (k + n)) : b[i] = w[(k + n) + i]
    BY <1>2, <1>4, CutSeq
  <2>3. \A i \in 1..(Len(w) - k) : u[i] = w[k + i]
    BY <1>2, <1>3, CutSeq
  <2> HIDE DEF a, b
  <2>4. ASSUME NEW i \in 1..Len(a) PROVE a[i] = b[i]
    <3>1. i \in 1..(Len(u) - n) /\ n + i \in 1..(Len(w) - k) /\ i \in 1..(Len(w) - (k + n))
          /\ k + (n + i) = (k + n) + i
      BY <1>2, <1>4, <2>1
    <3>2. a[i] = u[n + i] /\ u[n + i] = w[k + (n + i)] /\ b[i] = w[(k + n) + i]
      BY <2>1, <2>2, <2>3, <3>1
    <3>3. QED
      BY <3>1, <3>2
  <2>5. Len(a) = Len(b)
    BY <1>2, <1>4, <2>1, <2>2, SMTT(30)
  <2>6. a = b
    BY <2>1, <2>2, <2>4, <2>5, SeqEqual
  <2>7. QED
    BY <2>6 DEF a, b
<1>7. /\ Unsent(e)' = SubSeq(u, n + 1, Len(u))
      /\ write_buf'[e] \in Seq(Records) /\ write_pos'[e] \in Nat /\ write_pos'[e] <= Len(write_buf'[e])
      /\ write_buf'[e] # <<>> => write_pos'[e] < Len(write_buf'[e])
  <2>1. CASE n = Len(u)
    <3>1. write_buf'[e] = <<>> /\ write_pos'[e] = 0
      BY <1>1, <2>1 DEF TypeOK
    <3>2. Unsent(e)' = SubSeq(<<>>, 1, 0)
      BY <3>1 DEF Unsent
    <3>3. SubSeq(<<>>, 1, 0) = <<>>
      /\ Len(<<>>) = 0 /\ <<>> \in Seq(Records)
      OBVIOUS
    <3>4. SubSeq(u, n + 1, Len(u)) = <<>>
      <4> HIDE DEF u
      <4>1. Len(SubSeq(u, n + 1, Len(u))) = Len(u) - n
        BY <1>2, <1>4, CutSeq
      <4>2. QED
        BY <1>4, <1>5, <2>1, <4>1
    <3>5. write_pos'[e] <= Len(write_buf'[e]) /\ write_pos'[e] \in Nat
      BY <3>1, <3>3
    <3> HIDE DEF u
    <3>6. QED
      BY <3>1, <3>2, <3>3, <3>4, <3>5
  <2>2. CASE n # Len(u)
    <3>1. write_buf'[e] = w /\ write_pos'[e] = k + n
      BY <1>1, <2>2 DEF TypeOK
    <3>2. Unsent(e)' = SubSeq(w, k + n + 1, Len(w))
      BY <3>1 DEF Unsent
    <3>3. k + n < Len(w)
      <4> HIDE DEF u, w, k
      <4> QED BY <1>2, <1>4, <2>2
    <3> HIDE DEF u, w, k
    <3>4. QED
      BY <1>2, <1>4, <1>6, <3>1, <3>2, <3>3, SMTT(30)
  <2>3. QED
    BY <2>1, <2>2
<1>8. QED
  BY <1>1, <1>5, <1>7 DEF PollFlushWriteBuf, call, history

-----------------------------------------------------------------------------
\* The call of e becomes operation o at p with a buffer of length n. An end
\* leaves the handshake only when rustls is done and has nothing to send.
QuietCall(e, o, p, n) ==
  /\ op' = [op EXCEPT ![e] = o] /\ pc' = [pc EXCEPT ![e] = p] /\ buf' = [buf EXCEPT ![e] = n]
  /\ o = "handshake" => op[e] = "handshake"
  /\ op[e] = "handshake" /\ o # "handshake" => ~conn[e].handshaking /\ conn[e].out = <<>>
  /\ o = "write" => ~conn[e].notified /\ n \in WriteSizes /\ written[e] + n <= MaxData
  /\ \/ o # "read" /\ ended' = ended
     \/ o = "read" /\ ended[e] # "eof" /\ ended' = ended
     \/ /\ o = "idle" /\ ended' = [ended EXCEPT ![e] = "eof"]
        /\ op[e] = "read" /\ conn[e].plain = <<>> /\ conn[e].peer_closed

\* The steps that only begin, continue or end a call.
LEMMA QuietCalls ==
  ASSUME Control, NEW e \in Ends,
         \/ HandshakeCheck(e) \/ Read(e) \/ WriteReturn(e) \/ Flush(e) \/ FlushReturn(e)
         \/ Cancel(e) \/ ShutdownReturn(e) \/ ReadCloseNotify(e)
         \/ \E size \in WriteSizes : Write(e, size)
  PROVE  /\ UNCHANGED <<cert, conn, buffers, wire, dropped, written, got>>
         /\ closed' \in [Ends -> BOOLEAN] /\ cancelled' \in [Ends -> BOOLEAN]
         /\ op[e] # "idle" \/ ~dropped[e]
         /\ \E o \in Ops, p \in Labels, n \in {0} \cup WriteSizes : QuietCall(e, o, p, n)
<1> USE DEF link, history, buffers, QuietCall, Ops, Labels
<1>0. TypeOK
  BY DEF Control
<1>1. CASE HandshakeCheck(e)
  <2>1. CASE ~conn[e].handshaking /\ conn[e].out = <<>> /\ Return(e)
    BY <1>0, <1>1, <2>1 DEF HandshakeCheck, Return, TypeOK
  <2>2. CASE Goto(e, "fetch")
    <3>1. op' = [op EXCEPT ![e] = op[e]] /\ buf' = [buf EXCEPT ![e] = buf[e]]
      BY <1>0, <2>2 DEF Goto, TypeOK
    <3>2. op[e] = "handshake" /\ buf[e] \in {0} \cup WriteSizes
      BY <1>0, <1>1 DEF HandshakeCheck, TypeOK
    <3>3. QED
      BY <1>0, <1>1, <2>2, <3>1, <3>2 DEF HandshakeCheck, Goto, TypeOK
  <2>3. QED
    BY <1>1, <2>1, <2>2 DEF HandshakeCheck
<1>2. CASE Read(e)
  BY <1>0, <1>2 DEF Read, Idle, Start, TypeOK
<1>3. CASE WriteReturn(e)
  BY <1>0, <1>3 DEF WriteReturn, Return, TypeOK
<1>4. CASE Flush(e)
  BY <1>0, <1>4 DEF Flush, Idle, Start, TypeOK
<1>5. CASE FlushReturn(e)
  BY <1>0, <1>5 DEF FlushReturn, Return, TypeOK
<1>6. CASE Cancel(e)
  BY <1>0, <1>6 DEF Cancel, TypeOK
<1>7. CASE ShutdownReturn(e)
  BY <1>0, <1>7 DEF ShutdownReturn, Return, TypeOK
<1>8. CASE ReadCloseNotify(e)
  BY <1>0, <1>8 DEF ReadCloseNotify, CanTake, Return, TypeOK
<1>9. CASE \E size \in WriteSizes : Write(e, size)
  BY <1>0, <1>9 DEF Write, Idle, Start, TypeOK
<1>10. QED
  BY <1>1, <1>2, <1>3, <1>4, <1>5, <1>6, <1>7, <1>8, <1>9

\* They keep Control.
LEMMA QuietControl ==
  ASSUME Control, NEW e \in Ends,
         \/ HandshakeCheck(e) \/ Read(e) \/ WriteReturn(e) \/ Flush(e) \/ FlushReturn(e)
         \/ Cancel(e) \/ ShutdownReturn(e) \/ ReadCloseNotify(e)
         \/ \E size \in WriteSizes : Write(e, size)
  PROVE  Control'
<1>1. PICK o \in Ops, p \in Labels, n \in {0} \cup WriteSizes : QuietCall(e, o, p, n)
  BY QuietCalls
<1> USE DEF QuietCall
<1>2. /\ UNCHANGED <<cert, conn, buffers, wire, dropped, written, got>>
      /\ closed' \in [Ends -> BOOLEAN] /\ cancelled' \in [Ends -> BOOLEAN]
      /\ op[e] # "idle" \/ ~dropped[e]
  BY QuietCalls
<1>3. TypeOK'
  <2>1. /\ op' \in [Ends -> Ops]
        /\ pc' \in [Ends -> Labels]
        /\ buf' \in [Ends -> {0} \cup WriteSizes]
        /\ ended' \in [Ends -> {"no", "eof", "error"}]
    BY <1>1 DEF Control, TypeOK
  <2>2. QED
    BY <1>2, <2>1, QuietTypes DEF Control
<1>4. WriteFits'
  BY <1>1, <1>2 DEF Control, WriteFits, TypeOK
<1>5. DroppedIdle'
  BY <1>1, <1>2 DEF Control, DroppedIdle, TypeOK
<1>6. EofRead'
  BY <1>1, <1>2 DEF Control, EofRead, TypeOK
<1>7. QED
  BY <1>3, <1>4, <1>5, <1>6 DEF Control

\* A call that goes on elsewhere keeps Control.
LEMMA GotoControl ==
  ASSUME Control, TypeOK', NEW e \in Ends, NEW p \in Labels, Goto(e, p),
         op[e] # "idle", op[e] = "write" => p # "flush",
         UNCHANGED <<dropped, ended>>,
         \A f \in Ends : conn'[f].notified = conn[f].notified,
         \A f \in Ends : f # e => written'[f] = written[f]
  PROVE  Control'
<1>1. WriteFits'
  BY DEF Control, WriteFits, TypeOK, Goto
<1>2. DroppedIdle' /\ EofRead'
  BY DEF Control, DroppedIdle, EofRead, Goto
<1>3. QED
  BY <1>1, <1>2 DEF Control

\* Pulling records keeps Control.
LEMMA PullControl ==
  ASSUME Control, NEW e \in Ends, HandshakePull(e) \/ DrivePendingWrites(e)
  PROVE  Control'
<1>1. /\ PullTlsRecords(e, conn[e]) /\ Goto(e, "flush")
      /\ UNCHANGED <<cert, read_buf, write_pos, wire, closed, dropped, written, got, ended>>
      /\ op[e] \in {"handshake", "read"}
  BY DEF HandshakePull, DrivePendingWrites, link, history
<1>2. TypeOK /\ conn[e] \in Conns /\ ~conn[e].failed
  BY EndTypes DEF Control
<1>3. /\ conn' \in [Ends -> Conns] /\ \A f \in Ends : ~conn'[f].failed
      /\ write_buf' \in [Ends -> Seq(Records)]
      /\ \A f \in Ends : /\ write_pos'[f] <= Len(write_buf'[f])
                         /\ write_buf'[f] # <<>> => write_pos'[f] < Len(write_buf'[f])
  BY <1>1, <1>2, PullFacts
<1>4. \A f \in Ends : conn'[f].notified = conn[f].notified
  BY <1>1, <1>2, PullFacts
<1>5. TypeOK'
  BY <1>1, <1>2, <1>3 DEF TypeOK, Goto, Labels
<1>6. QED
  BY <1>1, <1>4, <1>5, GotoControl DEF Labels

\* Feeding rustls keeps Control.
LEMMA FeedControl ==
  ASSUME Control, NEW e \in Ends, HandshakeFeed(e) \/ ReadFeed(e)
  PROVE  Control'
<1>1. /\ Feed(e, read_buf[e]) /\ op[e] \in {"handshake", "read"}
      /\ \E p \in Labels : Goto(e, p)
      /\ UNCHANGED <<cert, write_buf, write_pos, wire, closed, dropped, written, got, ended>>
  BY DEF HandshakeFeed, ReadFeed, ReadBlocked, CanTake, link, history, Labels
<1>2. TypeOK /\ conn[e] \in Conns /\ read_buf[e] \in Seq(Records)
  BY EndTypes DEF Control
<1>3. PICK k \in 1..Len(read_buf[e]) :
           /\ conn'[e] = Processed(conn[e], read_buf[e], k)
           /\ conn' \in [Ends -> Conns] /\ \A f \in Ends : ~conn'[f].failed
           /\ \A f \in Ends : f # e => conn'[f] = conn[f]
           /\ read_buf' \in [Ends -> Seq(Records)]
  BY <1>1, <1>2, FeedFacts
<1>4. \A f \in Ends : conn'[f].notified = conn[f].notified
  <2>1. k \in 0..Len(read_buf[e])
    OBVIOUS
  <2>2. Processed(conn[e], read_buf[e], k).notified = conn[e].notified
    BY <1>2, <2>1, OutProcessed
  <2>3. QED
    BY <1>3, <2>2
<1>5. PICK p \in Labels : Goto(e, p)
  BY <1>1
<1>6. TypeOK'
  BY <1>1, <1>2, <1>3, <1>5 DEF TypeOK, Goto
<1>7. QED
  BY <1>1, <1>4, <1>5, <1>6, GotoControl

\* Taking n records from the transport splits what it holds.
LEMMA WireTail ==
  ASSUME TypeOK, NEW e \in Ends, NEW n \in 1..Len(wire[e]),
         wire' = [wire EXCEPT ![e] = SubSeq(@, n + 1, Len(@))]
  PROVE  /\ wire' \in [Ends -> Seq(Records)] /\ \A f \in Ends : Len(wire'[f]) <= Capacity
         /\ wire'[e] = SubSeq(wire[e], n + 1, Len(wire[e])) /\ \A f \in Ends : f # e => wire'[f] = wire[f]
         /\ SubSeq(wire[e], 1, n) \in Seq(Records)
         /\ SubSeq(wire[e], 1, n) \o wire'[e] = wire[e]
<1> DEFINE w == wire[e]
<1>1. w \in Seq(Records) /\ n \in 0..Len(w) /\ Len(w) \in Nat /\ Capacity \in Nat
  <2>1. w \in Seq(Records)
    BY DEF TypeOK
  <2>2. QED
    BY <2>1, TlsAssumption
<1>2. /\ SubSeq(w, 1, n) \in Seq(Records) /\ SubSeq(w, n + 1, Len(w)) \in Seq(Records)
      /\ Len(SubSeq(w, n + 1, Len(w))) = Len(w) - n
      /\ SubSeq(w, 1, n) \o SubSeq(w, n + 1, Len(w)) = w
  <2> HIDE DEF w
  <2> QED BY <1>1, CutSeq
<1>3. wire'[e] = SubSeq(w, n + 1, Len(w)) /\ \A f \in Ends : f # e => wire'[f] = wire[f]
  BY DEF TypeOK
<1>4. wire' \in [Ends -> Seq(Records)]
  BY <1>2 DEF TypeOK
<1>5. ASSUME NEW f \in Ends PROVE Len(wire'[f]) <= Capacity
  <2>1. Len(wire[f]) <= Capacity
    BY DEF TypeOK
  <2>2. CASE f = e
    <3>1. Len(w) <= Capacity /\ Len(wire'[f]) = Len(w) - n
      BY <1>2, <1>3, <2>1, <2>2
    <3> HIDE DEF w
    <3>2. QED
      BY <1>1, <3>1
  <2>3. QED
    BY <1>3, <2>1, <2>2
<1>6. QED
  BY <1>2, <1>3, <1>4, <1>5

\* Fetching in the handshake keeps Control.
LEMMA FetchControl ==
  ASSUME Control, NEW e \in Ends, HandshakeFetch(e)
  PROVE  Control'
<1>1. PICK n \in 1..Len(wire[e]) :
       /\ Feed(e, read_buf[e] \o SubSeq(wire[e], 1, n))
       /\ wire' = [wire EXCEPT ![e] = SubSeq(@, n + 1, Len(@))]
  BY DEF HandshakeFetch
<1>2. /\ op[e] = "handshake" /\ Goto(e, "top")
      /\ UNCHANGED <<cert, write_buf, write_pos, closed, dropped, written, got, ended>>
  BY DEF HandshakeFetch, history
<1>3. TypeOK /\ conn[e] \in Conns /\ read_buf[e] \in Seq(Records)
  BY EndTypes DEF Control
<1> DEFINE s == read_buf[e] \o SubSeq(wire[e], 1, n)
<1>4. /\ wire' \in [Ends -> Seq(Records)] /\ \A f \in Ends : Len(wire'[f]) <= Capacity
      /\ SubSeq(wire[e], 1, n) \in Seq(Records)
  BY <1>1, <1>3, WireTail
<1>5. s \in Seq(Records) /\ Feed(e, s)
  BY <1>1, <1>3, <1>4, RecordConcat
<1> HIDE DEF s
<1>6. PICK k \in 1..Len(s) :
           /\ conn'[e] = Processed(conn[e], s, k)
           /\ conn' \in [Ends -> Conns] /\ \A f \in Ends : ~conn'[f].failed
           /\ \A f \in Ends : f # e => conn'[f] = conn[f]
           /\ read_buf' \in [Ends -> Seq(Records)]
  BY <1>3, <1>5, FeedFacts
<1>7. \A f \in Ends : conn'[f].notified = conn[f].notified
  <2>1. k \in 0..Len(s)
    OBVIOUS
  <2>2. Processed(conn[e], s, k).notified = conn[e].notified
    BY <1>3, <1>5, <2>1, OutProcessed
  <2>3. QED
    BY <1>6, <2>2
<1>8. TypeOK'
  BY <1>2, <1>3, <1>4, <1>6 DEF TypeOK, Goto, Labels
<1>9. QED
  BY <1>2, <1>7, <1>8, GotoControl DEF Labels

\* Fetching in poll_read keeps Control.
LEMMA ReadFetchControl ==
  ASSUME Control, NEW e \in Ends, ReadFetch(e)
  PROVE  Control'
<1>1. PICK n \in 1..Len(wire[e]) :
       /\ read_buf' = [read_buf EXCEPT ![e] = SubSeq(wire[e], 1, n)]
       /\ wire' = [wire EXCEPT ![e] = SubSeq(@, n + 1, Len(@))]
  BY DEF ReadFetch
<1>2. /\ op[e] = "read" /\ Goto(e, "top")
      /\ UNCHANGED <<cert, conn, write_buf, write_pos, closed, dropped, written, got, ended>>
  BY DEF ReadFetch, ReadBlocked, CanTake, history
<1>3. TypeOK
  BY DEF Control
<1>4. /\ wire' \in [Ends -> Seq(Records)] /\ \A f \in Ends : Len(wire'[f]) <= Capacity
      /\ SubSeq(wire[e], 1, n) \in Seq(Records)
  BY <1>1, <1>3, WireTail
<1>5. TypeOK'
  BY <1>1, <1>2, <1>3, <1>4 DEF TypeOK, Goto, Labels
<1>6. QED
  BY <1>2, <1>5, GotoControl DEF Labels

\* Writing to the transport keeps Control: it never holds more than its
\* capacity.
LEMMA PollFlushControl ==
  ASSUME Control, NEW e \in Ends, PollFlushWriteBuf(e)
  PROVE  Control'
<1>0. TypeOK /\ Peer(e) \in Ends
  BY PeerFacts DEF Control
<1>1. PICK n \in 1..Len(Unsent(e)) :
           /\ n <= Room(e)
           /\ wire' = [wire EXCEPT ![Peer(e)] = @ \o SubSeq(Unsent(e), 1, n)]
           /\ write_buf' = [write_buf EXCEPT ![e] = IF n = Len(Unsent(e)) THEN <<>> ELSE @]
           /\ write_pos' = [write_pos EXCEPT ![e] = IF n = Len(Unsent(e)) THEN 0 ELSE @ + n]
           /\ UNCHANGED <<cert, conn, read_buf, closed, dropped, op, pc, buf, cancelled, written, got, ended>>
           /\ SubSeq(Unsent(e), 1, n) \in Seq(Records) /\ Len(SubSeq(Unsent(e), 1, n)) = n
           /\ write_buf'[e] \in Seq(Records) /\ write_pos'[e] \in Nat
           /\ write_pos'[e] <= Len(write_buf'[e])
           /\ write_buf'[e] # <<>> => write_pos'[e] < Len(write_buf'[e])
  BY <1>0, PollFlushFacts
<1>2. /\ write_buf' \in [Ends -> Seq(Records)] /\ write_pos' \in [Ends -> Nat]
      /\ \A f \in Ends : f # e => write_buf'[f] = write_buf[f] /\ write_pos'[f] = write_pos[f]
  BY <1>0, <1>1 DEF TypeOK
<1> DEFINE u == SubSeq(Unsent(e), 1, n)
           w == wire[Peer(e)]
<1>3. w \in Seq(Records) /\ u \in Seq(Records) /\ Len(u) = n /\ w \o u \in Seq(Records)
  BY <1>0, <1>1, RecordConcat DEF TypeOK
<1>4. Len(w \o u) <= Capacity
  <2>1. n <= Capacity - Len(w) /\ Capacity \in Nat /\ n \in Nat
    BY <1>1, TlsAssumption DEF Room
  <2> HIDE DEF w, u
  <2>2. Len(w \o u) = Len(w) + Len(u) /\ Len(w) \in Nat
    BY <1>3
  <2>3. QED
    BY <1>3, <2>1, <2>2
<1>5. wire' = [wire EXCEPT ![Peer(e)] = w \o u]
  BY <1>1
<1> HIDE DEF w, u
<1>6. wire' \in [Ends -> Seq(Records)] /\ \A f \in Ends : Len(wire'[f]) <= Capacity
  BY <1>0, <1>3, <1>4, <1>5 DEF TypeOK
<1>7. TypeOK'
  BY <1>0, <1>1, <1>2, <1>6 DEF TypeOK
<1>8. QED
  BY <1>1, <1>7 DEF Control, WriteFits, DroppedIdle, EofRead

\* Handing out plaintext splits what is decrypted.
LEMMA ReadPlaintextFacts ==
  ASSUME TypeOK, NEW e \in Ends, ReadPlaintext(e)
  PROVE  /\ Return(e) /\ op[e] = "read"
         /\ UNCHANGED <<cert, buffers, link, written, ended>>
         /\ conn' \in [Ends -> Conns] /\ \A f \in Ends : ~conn'[f].failed
         /\ got' \in [Ends -> Seq(1..MaxData)]
         /\ got'[e] \o conn'[e].plain = got[e] \o conn[e].plain
         /\ conn'[e].out = conn[e].out /\ conn'[e].handshaking = conn[e].handshaking
         /\ conn'[e].notified = conn[e].notified /\ conn'[e].peer_closed = conn[e].peer_closed
         /\ \A f \in Ends : f # e => conn'[f] = conn[f] /\ got'[f] = got[f]
<1>1. PICK n \in 1..Len(conn[e].plain) :
       /\ got' = [got EXCEPT ![e] = @ \o SubSeq(conn[e].plain, 1, n)]
       /\ conn' = [conn EXCEPT ![e].plain = SubSeq(@, n + 1, Len(@))]
  BY DEF ReadPlaintext
<1> DEFINE c == conn[e]
           p == c.plain
           a == SubSeq(p, 1, n)
           b == SubSeq(p, n + 1, Len(p))
           d == [c EXCEPT !.plain = b]
<1>2. c \in Conns /\ ~c.failed /\ p \in Seq(1..MaxData) /\ got[e] \in Seq(1..MaxData)
  BY EndTypes
<1>3. a \in Seq(1..MaxData) /\ b \in Seq(1..MaxData) /\ a \o b = p
  <2>1. n \in 0..Len(p)
    OBVIOUS
  <2> HIDE DEF p
  <2>2. QED
    BY <1>2, <2>1, CutSeq
<1>4. got' = [got EXCEPT ![e] = got[e] \o a] /\ conn' = [conn EXCEPT ![e] = d]
  BY <1>1 DEF TypeOK
<1>5. got[e] \o a \in Seq(1..MaxData) /\ (got[e] \o a) \o b = got[e] \o p
  <2> DEFINE g == got[e]
  <2>1. g \in Seq(1..MaxData)
    BY <1>2
  <2> HIDE DEF a, b, p, g
  <2>2. g \o a \in Seq(1..MaxData) /\ (g \o a) \o b = g \o (a \o b)
    BY <1>3, <2>1, PlainConcat, ZenonT(40)
  <2>3. QED
    BY <1>3, <2>2 DEF g
<1> HIDE DEF b, a
<1>6. d \in Conns /\ d.plain = b /\ d.out = c.out /\ d.handshaking = c.handshaking
      /\ d.notified = c.notified /\ d.peer_closed = c.peer_closed /\ ~d.failed
  BY <1>2, <1>3 DEF Conns
<1> HIDE DEF d
<1>7. conn' \in [Ends -> Conns] /\ (\A f \in Ends : ~conn'[f].failed) /\ conn'[e] = d
      /\ \A f \in Ends : f # e => conn'[f] = conn[f]
  BY <1>4, <1>6, ConnType DEF TypeOK
<1>8. got' \in [Ends -> Seq(1..MaxData)] /\ got'[e] = got[e] \o a /\ \A f \in Ends : f # e => got'[f] = got[f]
  BY <1>4, <1>5 DEF TypeOK
<1>9. QED
  BY <1>5, <1>6, <1>7, <1>8 DEF ReadPlaintext, CanTake

\* It keeps Control.
LEMMA ReadPlaintextControl ==
  ASSUME Control, NEW e \in Ends, ReadPlaintext(e)
  PROVE  Control'
<1>1. TypeOK
  BY DEF Control
<1>2. /\ Return(e) /\ op[e] = "read"
      /\ UNCHANGED <<cert, buffers, link, written, ended>>
      /\ conn' \in [Ends -> Conns] /\ \A f \in Ends : ~conn'[f].failed
      /\ got' \in [Ends -> Seq(1..MaxData)]
      /\ \A f \in Ends : conn'[f].notified = conn[f].notified
  BY <1>1, ReadPlaintextFacts
<1>3. TypeOK'
  BY <1>1, <1>2 DEF TypeOK, Return, buffers, link, Ops, Labels
<1>4. WriteFits' /\ DroppedIdle' /\ EofRead'
  BY <1>2 DEF Control, WriteFits, DroppedIdle, EofRead, TypeOK, Return, link
<1>5. QED
  BY <1>3, <1>4 DEF Control

\* How much of the buffer rustls takes.
Accepted(e) == IF buf[e] <= Limit - Len(conn[e].out) THEN buf[e] ELSE Limit - Len(conn[e].out)
\* The records of n plaintexts after the first k.
DataFrom(k, n) == [i \in 1..n |-> Data(k + i)]

\* A write that is accepted: what changes.
LEMMA WriteAcceptFacts ==
  ASSUME Control, NEW e \in Ends, WriteAccept(e)
  PROVE  /\ Accepted(e) \in 1..buf[e] /\ buf[e] \in Nat /\ written[e] + buf[e] \in 0..MaxData
         /\ DataFrom(written[e], Accepted(e)) \in Seq(Records)
         /\ [conn[e] EXCEPT !.out = @ \o DataFrom(written[e], Accepted(e))] \in Conns
         /\ ~[conn[e] EXCEPT !.out = @ \o DataFrom(written[e], Accepted(e))].failed
         /\ PullTlsRecords(e, [conn[e] EXCEPT !.out = @ \o DataFrom(written[e], Accepted(e))])
         /\ written' = [written EXCEPT ![e] = @ + buf[e]]
         /\ Goto(e, "tail") /\ op[e] = "write" /\ ~conn[e].notified
         /\ UNCHANGED <<cert, read_buf, write_pos, wire, closed, dropped, got, ended>>
<1>1. /\ PullTlsRecords(e, [conn[e] EXCEPT !.out = @ \o DataFrom(written[e], Accepted(e))])
      /\ written' = [written EXCEPT ![e] = @ + buf[e]]
      /\ Goto(e, "tail") /\ op[e] = "write" /\ pc[e] = "flush" /\ Accepted(e) > 0
      /\ UNCHANGED <<cert, read_buf, write_pos, wire, closed, dropped, got, ended>>
  BY DEF WriteAccept, link, Flushed, Accepted, DataFrom
<1>2. /\ buf[e] \in WriteSizes /\ written[e] + buf[e] <= MaxData /\ ~conn[e].notified
  BY <1>1 DEF Control, WriteFits
<1>3. TypeOK /\ conn[e] \in Conns /\ ~conn[e].failed /\ conn[e].out \in Seq(Records) /\ written[e] \in Nat
  BY EndTypes DEF Control
<1>4. buf[e] \in Nat /\ Limit \in Nat /\ Len(conn[e].out) \in Nat /\ MaxData \in Nat
  <2>1. Len(conn[e].out) \in Nat
    BY <1>3
  <2>2. buf[e] \in Nat /\ Limit \in Nat /\ MaxData \in Nat
    BY <1>2, TlsAssumption
  <2>3. QED
    BY <2>1, <2>2
<1>5. Accepted(e) \in 1..buf[e] /\ written[e] + buf[e] \in 0..MaxData
  BY <1>1, <1>2, <1>3, <1>4, SMTT(30) DEF Accepted
<1> DEFINE a == DataFrom(written[e], Accepted(e))
<1>6. a \in Seq(Records)
  <2>1. \A i \in 1..Accepted(e) : written[e] + i \in 1..MaxData
    BY <1>2, <1>3, <1>4, <1>5
  <2>2. \A i \in 1..Accepted(e) : Data(written[e] + i) \in Records
    BY <2>1, RecordFacts
  <2>3. Accepted(e) \in Nat
    BY <1>5
  <2>4. QED
    BY <2>2, <2>3 DEF DataFrom
<1> HIDE DEF a
<1>7. conn[e].out \o a \in Seq(Records)
  BY <1>3, <1>6, RecordConcat
<1>8. [conn[e] EXCEPT !.out = @ \o a] \in Conns /\ ~[conn[e] EXCEPT !.out = @ \o a].failed
  BY <1>3, <1>7 DEF Conns
<1>9. QED
  BY <1>1, <1>2, <1>4, <1>5, <1>6, <1>8 DEF a

\* It keeps Control.
LEMMA WriteAcceptControl ==
  ASSUME Control, NEW e \in Ends, WriteAccept(e)
  PROVE  Control'
<1> DEFINE c == [conn[e] EXCEPT !.out = @ \o DataFrom(written[e], Accepted(e))]
<1>1. /\ c \in Conns /\ ~c.failed /\ PullTlsRecords(e, c) /\ c.notified = conn[e].notified
      /\ written' = [written EXCEPT ![e] = @ + buf[e]] /\ written[e] + buf[e] \in 0..MaxData
      /\ Goto(e, "tail") /\ op[e] = "write"
      /\ UNCHANGED <<cert, read_buf, write_pos, wire, closed, dropped, got, ended>>
  <2>1. c.notified = conn[e].notified
    BY EndTypes DEF Control, Conns
  <2>2. QED
    BY <2>1, WriteAcceptFacts
<1> HIDE DEF c
<1>2. TypeOK
  BY DEF Control
<1>3. /\ conn' \in [Ends -> Conns] /\ \A f \in Ends : ~conn'[f].failed
      /\ write_buf' \in [Ends -> Seq(Records)]
      /\ \A f \in Ends : /\ write_pos'[f] <= Len(write_buf'[f])
                         /\ write_buf'[f] # <<>> => write_pos'[f] < Len(write_buf'[f])
  BY <1>1, <1>2, PullFacts
<1>4. \A f \in Ends : conn'[f].notified = conn[f].notified
  BY <1>1, <1>2, PullFacts
<1>5. written' \in [Ends -> 0..MaxData] /\ \A f \in Ends : f # e => written'[f] = written[f]
  BY <1>1, <1>2 DEF TypeOK
<1>6. TypeOK'
  BY <1>1, <1>2, <1>3, <1>5 DEF TypeOK, Goto, Labels
<1>7. QED
  BY <1>1, <1>4, <1>5, <1>6, GotoControl DEF Labels

\* The connection poll_shutdown leaves, with one close_notify at most.
Closing(c) == IF c.notified THEN c ELSE [c EXCEPT !.out = Append(@, Notify), !.notified = TRUE]

\* Its fields.
LEMMA ClosingFacts ==
  ASSUME NEW c \in Conns, ~c.failed
  PROVE  /\ Closing(c) \in Conns /\ ~Closing(c).failed /\ Closing(c).notified
         /\ Closing(c).plain = c.plain /\ Closing(c).peer_closed = c.peer_closed
         /\ Closing(c).handshaking = c.handshaking
         /\ Closing(c).out = IF c.notified THEN c.out ELSE c.out \o <<Notify>>
<1>1. c.out \in Seq(Records) /\ Notify \in Records
  BY RecordFacts DEF Conns
<1>2. c.out \o <<Notify>> \in Seq(Records) /\ Append(c.out, Notify) = c.out \o <<Notify>>
  BY <1>1
<1>3. CASE c.notified
  BY <1>3 DEF Closing
<1>4. CASE ~c.notified
  <2> DEFINE d == [c EXCEPT !.out = c.out \o <<Notify>>, !.notified = TRUE]
  <2>1. Closing(c) = d
    BY <1>2, <1>4 DEF Closing
  <2> DEFINE o == c.out \o <<Notify>>
  <2>2. o \in Seq(Records)
    BY <1>2
  <2> HIDE DEF o
  <2>3. d = [c EXCEPT !.out = o, !.notified = TRUE]
    BY DEF o
  <2> HIDE DEF d
  <2>4. d \in Conns /\ d.out = o /\ ~d.failed /\ d.notified /\ d.plain = c.plain
        /\ d.peer_closed = c.peer_closed /\ d.handshaking = c.handshaking
    BY <2>2, <2>3 DEF Conns
  <2>5. QED
    BY <1>4, <2>1, <2>4 DEF o
<1>5. QED
  BY <1>3, <1>4

\* poll_shutdown: what changes.
LEMMA ShutdownFacts ==
  ASSUME Control, NEW e \in Ends, Shutdown(e)
  PROVE  /\ Closing(conn[e]) \in Conns /\ ~Closing(conn[e]).failed
         /\ PullTlsRecords(e, Closing(conn[e]))
         /\ op' = [op EXCEPT ![e] = "shutdown"] /\ pc' = [pc EXCEPT ![e] = "flush"]
         /\ buf' = [buf EXCEPT ![e] = 0]
         /\ op[e] = "idle" /\ ~dropped[e]
         /\ UNCHANGED <<cert, read_buf, write_pos, wire, closed, dropped, cancelled, written, got, ended>>
<1>1. conn[e] \in Conns /\ ~conn[e].failed
  BY EndTypes DEF Control
<1>2. QED
  BY <1>1, ClosingFacts DEF Shutdown, Start, Idle, Closing, link, history

\* It keeps Control.
LEMMA ShutdownControl ==
  ASSUME Control, NEW e \in Ends, Shutdown(e)
  PROVE  Control'
<1> DEFINE c == Closing(conn[e])
<1>1. /\ c \in Conns /\ ~c.failed
      /\ PullTlsRecords(e, c)
      /\ op' = [op EXCEPT ![e] = "shutdown"] /\ pc' = [pc EXCEPT ![e] = "flush"]
      /\ buf' = [buf EXCEPT ![e] = 0]
      /\ op[e] = "idle" /\ ~dropped[e]
      /\ UNCHANGED <<cert, read_buf, write_pos, wire, closed, dropped, cancelled, written, got, ended>>
  BY ShutdownFacts
<1> HIDE DEF c
<1>2. TypeOK
  BY DEF Control
<1>3. /\ conn' \in [Ends -> Conns] /\ \A f \in Ends : ~conn'[f].failed
      /\ write_buf' \in [Ends -> Seq(Records)]
      /\ \A f \in Ends : /\ write_pos'[f] <= Len(write_buf'[f])
                         /\ write_buf'[f] # <<>> => write_pos'[f] < Len(write_buf'[f])
  BY <1>1, <1>2, PullFacts
<1>4. \A f \in Ends : f # e => conn'[f] = conn[f]
  BY <1>1, <1>2, PullFacts
<1>6. TypeOK'
  BY <1>1, <1>2, <1>3 DEF TypeOK, Labels, Ops
<1>7. WriteFits'
  BY <1>1, <1>4 DEF Control, WriteFits, TypeOK
<1>8. DroppedIdle' /\ EofRead'
  BY <1>1 DEF Control, DroppedIdle, EofRead, TypeOK
<1>9. QED
  BY <1>6, <1>7, <1>8 DEF Control

\* The stream of e goes away, after an error or not.
Drops(e) ==
  /\ DropEnd(e) /\ UNCHANGED <<cert, conn, written, got, cancelled>>
  /\ op' = [op EXCEPT ![e] = "idle"] /\ pc' \in [Ends -> Labels] /\ buf' = [buf EXCEPT ![e] = buf'[e]]
  /\ buf'[e] \in {0} \cup WriteSizes
  /\ \A f \in Ends : f # e => pc'[f] = pc[f] /\ buf'[f] = buf[f]
  /\ ended' \in [Ends -> {"no", "eof", "error"}]
  /\ \A f \in Ends : ended'[f] = "eof" => ended[f] = "eof"

\* The steps that drop a stream.
LEMMA DropFacts ==
  ASSUME Control, NEW e \in Ends,
         \/ WriteFails(e) \/ HandshakeFails(e) \/ HandshakeTimesOut(e) \/ ReadEof(e) \/ DropStream(e)
  PROVE  Drops(e)
<1>0. TypeOK
  BY DEF Control
<1>1. CASE Fail(e)
  <2>1. /\ op' = [op EXCEPT ![e] = "idle"] /\ pc' = [pc EXCEPT ![e] = "top"] /\ buf' = [buf EXCEPT ![e] = 0]
        /\ DropEnd(e) /\ UNCHANGED <<cert, conn, written, got, cancelled>>
        /\ ended' = [ended EXCEPT ![e] = IF @ = "no" THEN "error" ELSE @]
    BY <1>1 DEF Fail, Return
  <2>2. pc' \in [Ends -> Labels] /\ buf' = [buf EXCEPT ![e] = buf'[e]] /\ buf'[e] \in {0} \cup WriteSizes
        /\ \A f \in Ends : f # e => pc'[f] = pc[f] /\ buf'[f] = buf[f]
    BY <1>0, <2>1 DEF TypeOK, Labels
  <2>3. ended' \in [Ends -> {"no", "eof", "error"}] /\ \A f \in Ends : ended'[f] = "eof" => ended[f] = "eof"
    BY <1>0, <2>1 DEF TypeOK
  <2>4. QED
    BY <2>1, <2>2, <2>3 DEF Drops
<1>2. CASE DropStream(e)
  <2>1. DropEnd(e) /\ op[e] = "idle" /\ UNCHANGED <<cert, conn, written, got, cancelled, op, pc, buf, ended>>
    BY <1>2 DEF DropStream, call, history
  <2>2. op' = [op EXCEPT ![e] = "idle"] /\ buf' = [buf EXCEPT ![e] = buf'[e]]
        /\ buf'[e] \in {0} \cup WriteSizes /\ pc' \in [Ends -> Labels]
        /\ ended' \in [Ends -> {"no", "eof", "error"}]
    BY <1>0, <2>1 DEF TypeOK
  <2>3. QED
    BY <2>1, <2>2 DEF Drops
<1>3. QED
  BY <1>1, <1>2 DEF WriteFails, HandshakeFails, HandshakeTimesOut, ReadEof

\* They keep Control.
LEMMA DropControl ==
  ASSUME Control, NEW e \in Ends, Drops(e)
  PROVE  Control'
<1>1. TypeOK
  BY DEF Control
<1>2. op' \in [Ends -> Ops] /\ buf' \in [Ends -> {0} \cup WriteSizes]
  BY <1>1 DEF Drops, TypeOK, Ops
<1>3. TypeOK'
  BY <1>1, <1>2, DropTypes DEF Drops
<1>4. WriteFits'
  BY <1>1 DEF Drops, Control, WriteFits, TypeOK
<1>5. DroppedIdle' /\ EofRead'
  BY <1>1 DEF Drops, DropEnd, Control, DroppedIdle, EofRead, TypeOK
<1>6. QED
  BY <1>3, <1>4, <1>5 DEF Control

\* Control holds of two new connections.
LEMMA InitControl == Init => Control
<1> SUFFICES ASSUME Init PROVE Control
  OBVIOUS
<1> USE DEF Init
<1>1. <<>> \in Seq(Records) /\ <<Hello>> \in Seq(Records) /\ <<>> \in Seq(1..MaxData) /\ Len(<<>>) = 0
  BY RecordFacts
<1>2. \A e \in Ends : NewConnection(e) \in Conns /\ ~NewConnection(e).failed
  BY <1>1 DEF NewConnection, Conns
<1>3. MaxData \in Nat /\ Capacity \in Nat
  BY TlsAssumption
<1>4. conn \in [Ends -> Conns] /\ \A e \in Ends : ~conn[e].failed
  BY <1>2
<1>5. TypeOK
  BY <1>1, <1>3, <1>4 DEF TypeOK, Ops, Labels
<1>6. QED
  BY <1>5 DEF Control, WriteFits, DroppedIdle, EofRead

\* The steps that only begin, continue or end a call.
Calls(e) ==
  \/ HandshakeCheck(e) \/ Read(e) \/ WriteReturn(e) \/ Flush(e) \/ FlushReturn(e)
  \/ Cancel(e) \/ ShutdownReturn(e) \/ ReadCloseNotify(e)
  \/ \E size \in WriteSizes : Write(e, size)

\* The steps of the system, one group per argument.
LEMMA Steps ==
  Next => \E e \in Ends :
    \/ Calls(e) \/ (Drops(e) /\ Control) \/ HandshakePull(e) \/ DrivePendingWrites(e)
    \/ HandshakeFeed(e) \/ ReadFeed(e) \/ HandshakeFetch(e) \/ ReadFetch(e)
    \/ PollFlushWriteBuf(e) \/ ReadPlaintext(e) \/ WriteAccept(e) \/ Shutdown(e) \/ ~Control
BY DropFacts DEF Next, Progress, PollHandshake, PollRead, PollWrite, Calls

\* Every step keeps Control, whatever is written.
LEMMA ControlStep == Control /\ [Next]_vars => Control'
<1> SUFFICES ASSUME Control, [Next]_vars PROVE Control'
  OBVIOUS
<1>1. CASE UNCHANGED vars
  BY <1>1 DEF vars, buffers, link, call, history, Control, TypeOK, WriteFits, DroppedIdle, EofRead
<1>2. CASE Next
  <2>1. PICK e \in Ends :
          \/ Calls(e) \/ (Drops(e) /\ Control) \/ HandshakePull(e) \/ DrivePendingWrites(e)
          \/ HandshakeFeed(e) \/ ReadFeed(e) \/ HandshakeFetch(e) \/ ReadFetch(e)
          \/ PollFlushWriteBuf(e) \/ ReadPlaintext(e) \/ WriteAccept(e) \/ Shutdown(e) \/ ~Control
    BY <1>2, Steps
  <2>2. Calls(e) => Control'
    BY QuietControl DEF Calls
  <2>3. QED
    BY <2>1, <2>2, DropControl, PullControl, FeedControl, FetchControl, ReadFetchControl, PollFlushControl,
       ReadPlaintextControl, WriteAcceptControl, ShutdownControl
<1>3. QED
  BY <1>1, <1>2

\* OfKindConcat for records.
LEMMA KindsConcat ==
  \A kinds : \A u, v \in Seq(Records) : OfKind(kinds, u \o v) = OfKind(kinds, u) \o OfKind(kinds, v)
BY OfKindConcat

-----------------------------------------------------------------------------
\* Selecting everything.
LEMMA OfKindAll ==
  ASSUME NEW kinds, NEW s \in Seq(Records), \A i \in 1..Len(s) : s[i].kind \in kinds
  PROVE  OfKind(kinds, s) = s
<1>1. PICK g : KeptBy(g, kinds, Records, s) /\ OfKind(kinds, s) = g[Len(s)]
  BY OfKindRun
<1> DEFINE n == Len(s)
<1>2. n \in Nat /\ (\A i \in 1..n : s[i] \in Records /\ s[i].kind \in kinds)
  OBVIOUS
<1>3. g[0] = <<>> /\ (\A i \in 0..n : g[i] \in Seq(Records)) /\ \A i \in 1..n : g[i] = g[i - 1] \o <<s[i]>>
  BY <1>1 DEF KeptBy
<1> HIDE DEF n
<1> DEFINE T == {i \in 0..n : Len(g[i]) = i /\ \A j \in 1..i : g[i][j] = s[j]}
<1>4. 0 \in T
  BY <1>2, <1>3
<1>5. ASSUME NEW i \in 0..(n - 1), i \in T PROVE i + 1 \in T
  <2>1. i + 1 \in 1..n /\ (i + 1) - 1 = i /\ i \in 0..n /\ i + 1 \in 0..n
    BY <1>2
  <2>2. g[i + 1] = g[i] \o <<s[i + 1]>> /\ g[i] \in Seq(Records) /\ s[i + 1] \in Records
    BY <1>2, <1>3, <2>1
  <2>3. Len(g[i]) = i /\ \A j \in 1..i : g[i][j] = s[j]
    BY <1>5
  <2>4. Len(g[i + 1]) = i + 1 /\ \A j \in 1..(i + 1) : g[i + 1][j] = s[j]
    BY <2>1, <2>2, <2>3
  <2>5. QED
    BY <2>1, <2>4
<1>6. 0..n \subseteq T
  <2> HIDE DEF T
  <2> QED BY <1>2, <1>4, <1>5, SetInduction
<1>7. n \in 0..n
  BY <1>2
<1>8. g[n] \in Seq(Records) /\ Len(g[n]) = n /\ \A j \in 1..n : g[n][j] = s[j]
  BY <1>3, <1>6, <1>7
<1>9. g[n] = s
  BY <1>8, SeqEqual DEF n
<1>10. QED
  BY <1>1, <1>9 DEF n

\* Selecting nothing.
LEMMA OfKindNone ==
  ASSUME NEW kinds, NEW s \in Seq(Records), \A i \in 1..Len(s) : s[i].kind \notin kinds
  PROVE  OfKind(kinds, s) = <<>>
<1>1. PICK g : KeptBy(g, kinds, Records, s) /\ OfKind(kinds, s) = g[Len(s)]
  BY OfKindRun
<1> DEFINE n == Len(s)
<1>2. n \in Nat /\ g[0] = <<>> /\ \A i \in 1..n : g[i] = g[i - 1]
  <2>1. n \in Nat /\ \A i \in 1..n : s[i].kind \notin kinds
    OBVIOUS
  <2>2. g[0] = <<>> /\ \A i \in 1..n : g[i] = IF s[i].kind \in kinds THEN g[i - 1] \o <<s[i]>> ELSE g[i - 1]
    BY <1>1 DEF KeptBy
  <2>3. QED
    BY <2>1, <2>2
<1> HIDE DEF n
<1> DEFINE T == {i \in 0..n : g[i] = <<>>}
<1>3. 0 \in T
  BY <1>2
<1>4. ASSUME NEW i \in 0..(n - 1), i \in T PROVE i + 1 \in T
  <2>1. i + 1 \in 1..n /\ (i + 1) - 1 = i
    BY <1>2
  <2>2. QED
    BY <1>2, <1>4, <2>1
<1>5. 0..n \subseteq T
  <2> HIDE DEF T
  <2> QED BY <1>2, <1>3, <1>4, SetInduction
<1>6. QED
  BY <1>1, <1>2, <1>5 DEF n

\* Selecting fewer kinds from a selection.
LEMMA OfKindTwice ==
  ASSUME NEW kinds, NEW more, kinds \subseteq more, NEW s \in Seq(Records)
  PROVE  OfKind(kinds, OfKind(more, s)) = OfKind(kinds, s)
<1>1. PICK a : KeptBy(a, kinds, Records, s) /\ OfKind(kinds, s) = a[Len(s)]
  BY OfKindRun
<1>2. PICK b : KeptBy(b, more, Records, s) /\ OfKind(more, s) = b[Len(s)]
  BY OfKindRun
<1> DEFINE n == Len(s)
<1>3. n \in Nat /\ (\A i \in 1..n : s[i] \in Records)
  OBVIOUS
<1>4. a[0] = <<>> /\ \A i \in 1..n : a[i] = IF s[i].kind \in kinds THEN a[i - 1] \o <<s[i]>> ELSE a[i - 1]
  BY <1>1 DEF KeptBy
<1>5. b[0] = <<>> /\ (\A i \in 0..n : b[i] \in Seq(Records))
      /\ \A i \in 1..n : b[i] = IF s[i].kind \in more THEN b[i - 1] \o <<s[i]>> ELSE b[i - 1]
  BY <1>2 DEF KeptBy
<1> HIDE DEF n
<1> DEFINE T == {i \in 0..n : OfKind(kinds, b[i]) = a[i]}
<1>6. 0 \in T
  BY <1>3, <1>4, <1>5, OfKindEmpty
<1>7. ASSUME NEW i \in 0..(n - 1), i \in T PROVE i + 1 \in T
  <2>1. i + 1 \in 1..n /\ (i + 1) - 1 = i /\ i \in 0..n /\ i + 1 \in 0..n
    BY <1>3
  <2> DEFINE r == s[i + 1]
             x == b[i]
  <2>2. /\ a[i + 1] = IF r.kind \in kinds THEN a[i] \o <<r>> ELSE a[i]
        /\ b[i + 1] = IF r.kind \in more THEN x \o <<r>> ELSE x
        /\ r \in Records /\ x \in Seq(Records) /\ OfKind(kinds, x) = a[i]
    BY <1>3, <1>4, <1>5, <1>7, <2>1
  <2> HIDE DEF r, x
  <2>3. /\ r.kind \notin kinds => OfKind(kinds, x \o <<r>>) = OfKind(kinds, x)
        /\ r.kind \in kinds => OfKind(kinds, x \o <<r>>) = OfKind(kinds, x) \o <<r>>
    BY <2>2, KindConcat
  <2>4. OfKind(kinds, b[i + 1]) = a[i + 1]
    BY <2>2, <2>3
  <2>5. QED
    BY <2>1, <2>4
<1>8. 0..n \subseteq T
  <2> HIDE DEF T
  <2> QED BY <1>3, <1>6, <1>7, SetInduction
<1>9. n \in 0..n
  BY <1>3
<1>10. OfKind(kinds, b[n]) = a[n]
  BY <1>8, <1>9
<1>11. QED
  BY <1>1, <1>2, <1>10 DEF n

\* Data records belong to the stream and extend what was written.
LEMMA DataFromFacts ==
  ASSUME NEW n \in 0..MaxData, NEW m \in 0..MaxData, n + m <= MaxData
  PROVE  /\ DataFrom(n, m) \in Seq(Records) /\ n + m \in 0..MaxData
         /\ OfKind(HandshakeKinds, DataFrom(n, m)) = <<>>
         /\ OfKind(StreamKinds, DataFrom(n, m)) = DataFrom(n, m)
         /\ Marked(Identity(n + m), FALSE) = Marked(Identity(n), FALSE) \o DataFrom(n, m)
<1> DEFINE s == DataFrom(n, m)
           k == n + m
<1>1. n \in Nat /\ m \in Nat /\ MaxData \in Nat /\ k \in 0..MaxData /\ \A i \in 1..m : n + i \in 1..MaxData
  BY TlsAssumption
<1>2. s \in Seq(Records) /\ Len(s) = m /\ \A i \in 1..m : s[i] = Data(n + i)
  <2>1. \A i \in 1..m : Data(n + i) \in Records
    BY <1>1, RecordFacts
  <2>2. QED
    BY <1>1, <2>1 DEF DataFrom
<1> HIDE DEF s, k
<1>3. \A i \in 1..Len(s) : s[i].kind = "data"
  BY <1>2, KindFacts
<1>4. OfKind(HandshakeKinds, s) = <<>>
  BY <1>2, <1>3, OfKindNone DEF HandshakeKinds
<1>5. OfKind(StreamKinds, s) = s
  BY <1>2, <1>3, OfKindAll DEF StreamKinds
<1> DEFINE a == Marked(Identity(k), FALSE)
           b == Marked(Identity(n), FALSE)
<1>6. a \in Seq(Records) /\ Len(a) = k /\ \A i \in 1..k : a[i] = Data(i)
  <2> DEFINE q == Identity(k)
  <2>1. q \in Seq(1..MaxData) /\ Len(q) = k /\ \A i \in 1..k : q[i] = i
    BY <1>1, IdentityFacts
  <2> HIDE DEF q
  <2>2. /\ Marked(q, FALSE) = Plain(q)
    BY <2>1, MarkedFacts
  <2>3. Plain(q) \in Seq(Records) /\ Len(Plain(q)) = k /\ \A i \in 1..k : Plain(q)[i] = Data(i)
    BY <2>1, PlainFacts
  <2>4. QED
    BY <2>2, <2>3 DEF q
<1>7. b \in Seq(Records) /\ Len(b) = n /\ \A i \in 1..n : b[i] = Data(i)
  <2> DEFINE q == Identity(n)
  <2>1. q \in Seq(1..MaxData) /\ Len(q) = n /\ \A i \in 1..n : q[i] = i
    BY <1>1, IdentityFacts
  <2> HIDE DEF q
  <2>2. /\ Marked(q, FALSE) = Plain(q)
    BY <2>1, MarkedFacts
  <2>3. Plain(q) \in Seq(Records) /\ Len(Plain(q)) = n /\ \A i \in 1..n : Plain(q)[i] = Data(i)
    BY <2>1, PlainFacts
  <2>4. QED
    BY <2>2, <2>3 DEF q
<1> HIDE DEF a, b
<1> DEFINE c == b \o s
<1>8. /\ c \in Seq(Records) /\ Len(c) = n + m /\ (\A i \in 1..n : c[i] = b[i])
      /\ \A i \in 1..m : c[n + i] = s[i]
  <2>1. b \in Seq(Records) /\ s \in Seq(Records) /\ Len(b) = n /\ Len(s) = m
    BY <1>2, <1>7
  <2>2. /\ b \o s \in Seq(Records) /\ Len(b \o s) = Len(b) + Len(s)
        /\ \A i \in 1..Len(b) : (b \o s)[i] = b[i]
        /\ \A i \in 1..Len(s) : (b \o s)[Len(b) + i] = s[i]
    <3>1. b \in Seq(Records) /\ s \in Seq(Records)
      BY <2>1
    <3> HIDE DEF c
    <3>2. QED
      BY <3>1, ConcatElements
  <2>3. QED
    BY <2>1, <2>2
<1> HIDE DEF c
<1>9. ASSUME NEW i \in 1..k PROVE a[i] = c[i]
  <2>1. i \in Nat /\ a[i] = Data(i)
    BY <1>6
  <2>2. CASE i <= n
    BY <1>1, <1>7, <1>8, <2>1, <2>2
  <2>3. CASE i > n
    <3> DEFINE j == i - n
    <3>1. j \in 1..m /\ i = n + j
      BY <1>1, <2>3 DEF k
    <3> HIDE DEF j
    <3>2. QED
      BY <1>2, <1>8, <2>1, <3>1
  <2>4. QED
    BY <1>1, <2>1, <2>2, <2>3
<1>10. a = c
  <2>1. Len(c) = k
    BY <1>8 DEF k
  <2>2. QED
    BY <1>6, <1>8, <1>9, <2>1, SeqEqual
<1>11. QED
  BY <1>1, <1>2, <1>4, <1>5, <1>10 DEF a, b, c, s, k

-----------------------------------------------------------------------------
\* Both streams exist.
Alive == \A e \in Ends : ~dropped[e]
\* What e has and what is coming, followed by rest, is what its peer wrote.
FlowsTo(e, rest) ==
  Flow(got[e], conn[e], OfKind(StreamKinds, Coming(e)) \o rest, written[Peer(e)], conn[Peer(e)].notified)
\* While the peer exists nothing is missing; once it is dropped, the end may
\* be.
Flows(e) == \E rest \in Seq(Records) : FlowsTo(e, rest) /\ (~dropped[Peer(e)] => rest = <<>>)
\* The stream in each direction, once each and in order.
Ordered == \A e \in Ends : ~dropped[e] => Flows(e)
\* Where the two ends are in the handshake, from what is on its way.
Agree(e) ==
  Handshake(e, conn[e].handshaking, OfKind(HandshakeKinds, Coming(e)), conn[Peer(e)].handshaking,
            OfKind(HandshakeKinds, Coming(Peer(e))))
\* Exactly one flight is under way until both ends are done. Without it
\* rustls could answer during a read, and a record be left behind.
OneFlight == Alive => \A e \in Ends : Agree(e)
\* Once its handshake has returned, an end leaves nothing in rustls that it
\* has not pulled. So rustls has room for a whole write.
OutPulled == Alive => \A e \in Ends : op[e] # "handshake" => ~conn[e].handshaking /\ conn[e].out = <<>>
\* A dropped stream has nothing to send.
DroppedEmpty == \A e \in Ends : dropped[e] => write_buf[e] = <<>>
\* The part of the inductive invariant about what is on its way.
Stream == Ordered /\ OneFlight /\ OutPulled /\ DroppedEmpty /\ CleanEofIsComplete

\* What is on its way are sequences of records.
LEMMA ComingTypes ==
  ASSUME TypeOK, NEW e \in Ends
  PROVE  /\ Unsent(e) \in Seq(Records) /\ Arrived(e) \in Seq(Records) /\ Leaving(e) \in Seq(Records)
         /\ Coming(e) \in Seq(Records)
         /\ \A kinds : OfKind(kinds, Coming(e)) \in Seq(Records)
<1>1. Unsent(e) \in Seq(Records) /\ conn[e].out \in Seq(Records)
      /\ read_buf[e] \in Seq(Records) /\ wire[e] \in Seq(Records)
  BY EndTypes, UnsentFacts
<1>2. Arrived(e) \in Seq(Records) /\ Leaving(e) \in Seq(Records)
  BY <1>1, RecordConcat DEF Arrived, Leaving
<1>3. Unsent(Peer(e)) \in Seq(Records) /\ conn[Peer(e)].out \in Seq(Records)
  <2>1. Peer(e) \in Ends
    BY PeerFacts
  <2>2. QED
    BY <2>1, EndTypes, UnsentFacts
<1>4. Leaving(Peer(e)) \in Seq(Records)
  BY <1>3, RecordConcat DEF Leaving
<1>5. Coming(e) \in Seq(Records)
  BY <1>2, <1>4, RecordConcat DEF Coming
<1>6. \A kinds : OfKind(kinds, Coming(e)) \in Seq(Records)
  BY <1>5, OfKindType
<1>7. QED
  BY <1>1, <1>2, <1>5, <1>6

\* The handshake seen from the other end.
LEMMA Symmetric ==
  ASSUME NEW e \in Ends, NEW h, NEW i, NEW p, NEW o, Handshake(e, h, i, p, o)
  PROVE  Handshake(Peer(e), p, o, h, i)
BY TlsAssumption DEF Handshake, Peer, Ends

\* A step that only moves what is on its way keeps it in order.
LEMMA SameKeeps ==
  ASSUME dropped' = dropped, written' = written,
         \A f \in Ends : /\ conn'[f].handshaking = conn[f].handshaking /\ conn'[f].notified = conn[f].notified
                         /\ conn'[f].peer_closed = conn[f].peer_closed
                         /\ got'[f] \o conn'[f].plain = got[f] \o conn[f].plain
                         /\ ~dropped[f] => Coming(f)' = Coming(f)
  PROVE  (Ordered => Ordered') /\ (OneFlight => OneFlight')
<1>1. ASSUME Ordered, NEW f \in Ends, ~dropped'[f] PROVE Flows(f)'
  <2>1. PICK rest \in Seq(Records) : FlowsTo(f, rest) /\ (~dropped[Peer(f)] => rest = <<>>)
    BY <1>1 DEF Ordered, Flows
  <2>2. Coming(f)' = Coming(f) /\ written'[Peer(f)] = written[Peer(f)]
        /\ conn'[Peer(f)].notified = conn[Peer(f)].notified
    BY <1>1, PeerFacts
  <2>3. FlowsTo(f, rest)'
    BY <2>1, <2>2 DEF FlowsTo, Flow
  <2>4. QED
    BY <2>1, <2>3 DEF Flows
<1>2. ASSUME OneFlight, Alive', NEW f \in Ends PROVE Agree(f)'
  <2>1. Agree(f) /\ Alive
    BY <1>2 DEF OneFlight, Alive
  <2>2. Peer(f) \in Ends
    BY PeerFacts
  <2>3. Coming(f)' = Coming(f) /\ Coming(Peer(f))' = Coming(Peer(f))
    <3>1. ~dropped[f] /\ ~dropped[Peer(f)]
      BY <2>1, <2>2 DEF Alive
    <3>2. \A g \in Ends : ~dropped[g] => Coming(g)' = Coming(g)
      OBVIOUS
    <3>3. QED
      BY <2>2, <3>1, <3>2
  <2>4. /\ conn'[f].handshaking = conn[f].handshaking
        /\ conn'[Peer(f)].handshaking = conn[Peer(f)].handshaking
    BY <2>2
  <2>5. QED
    BY <2>1, <2>3, <2>4 DEF Agree
<1>3. QED
  BY <1>1, <1>2 DEF Ordered, OneFlight

\* Beginning and ending calls keeps Stream. For the read that returns a clean
\* end this is NotifyIsLast.
LEMMA QuietStream ==
  ASSUME Control, Stream, NEW e \in Ends, Calls(e)
  PROVE  Stream'
<1>1. /\ UNCHANGED <<cert, conn, buffers, wire, dropped, written, got>>
      /\ \E o \in Ops, p \in Labels, n \in {0} \cup WriteSizes : QuietCall(e, o, p, n)
  BY QuietCalls DEF Calls
<1>2. PICK o \in Ops, p \in Labels, n \in {0} \cup WriteSizes : QuietCall(e, o, p, n)
  BY <1>1
<1>3. Ordered' /\ OneFlight'
  <2>1. \A f \in Ends : Coming(f)' = Coming(f)
    BY <1>1 DEF Coming, Arrived, Leaving, Unsent, buffers
  <2>2. QED
    BY <1>1, <2>1, SameKeeps DEF Stream
<1>4. OutPulled' /\ DroppedEmpty'
  BY <1>1, <1>2 DEF QuietCall, Stream, OutPulled, DroppedEmpty, Alive, buffers, Control, TypeOK
<1>5. CleanEofIsComplete'
  <2>1. CASE ended' = ended
    BY <1>1, <2>1 DEF Stream, CleanEofIsComplete
  <2>2. CASE /\ ended' = [ended EXCEPT ![e] = "eof"]
             /\ op[e] = "read" /\ conn[e].plain = <<>> /\ conn[e].peer_closed
    <3>1. ~dropped[e] /\ Peer(e) \in Ends
      BY <2>2, PeerFacts DEF Control, DroppedIdle
    <3>2. PICK rest \in Seq(Records) : FlowsTo(e, rest)
      BY <3>1 DEF Stream, Ordered, Flows
    <3> DEFINE t == OfKind(StreamKinds, Coming(e)) \o rest
    <3>3. t \in Seq(Records)
      BY ComingTypes, RecordConcat DEF Control
    <3>4. got[e] \in Seq(1..MaxData) /\ written[Peer(e)] \in 0..MaxData /\ conn[Peer(e)].notified \in BOOLEAN
          /\ conn[e].peer_closed = TRUE
      BY <2>2, <3>1, EndTypes DEF Control
    <3>5. got[e] \o conn[e].plain = got[e]
      BY <2>2, <3>4
    <3>6. Marked(got[e], TRUE) \o t = Marked(Identity(written[Peer(e)]), conn[Peer(e)].notified)
      BY <3>2, <3>4, <3>5 DEF FlowsTo, Flow
    <3> HIDE DEF t
    <3>7. conn[Peer(e)].notified /\ Len(got[e]) = written[Peer(e)]
      BY <3>3, <3>4, <3>6, NotifyIsLast
    <3>8. QED
      BY <1>1, <2>2, <3>7 DEF Stream, CleanEofIsComplete, Control, TypeOK
  <2>3. QED
    BY <1>2, <2>1, <2>2 DEF QuietCall
<1>6. QED
  BY <1>3, <1>4, <1>5 DEF Stream

\* Pulling records moves them from rustls to write_buf.
LEMMA PullStream ==
  ASSUME Control, Stream, NEW e \in Ends, HandshakePull(e) \/ DrivePendingWrites(e)
  PROVE  Stream'
<1>1. /\ PullTlsRecords(e, conn[e]) /\ op' = op
      /\ UNCHANGED <<cert, read_buf, write_pos, wire, closed, dropped, written, got, ended>>
      /\ op[e] \in {"handshake", "read"}
  BY DEF HandshakePull, DrivePendingWrites, link, history, Goto
<1>2. TypeOK /\ conn[e] \in Conns /\ ~conn[e].failed /\ conn[e].out \in Seq(Records)
  BY EndTypes DEF Control
<1>3. /\ Unsent(e)' = Unsent(e) \o conn[e].out /\ conn'[e].out = <<>>
      /\ conn'[e].plain = conn[e].plain /\ conn'[e].handshaking = conn[e].handshaking
      /\ conn'[e].notified = conn[e].notified /\ conn'[e].peer_closed = conn[e].peer_closed
      /\ \A f \in Ends : f # e => conn'[f] = conn[f] /\ write_buf'[f] = write_buf[f]
  BY <1>1, <1>2, PullFacts
<1>4. ~dropped[e]
  BY <1>1 DEF Control, DroppedIdle
<1>5. \A f \in Ends : Arrived(f)' = Arrived(f)
  BY <1>1 DEF Arrived
<1>6. \A f \in Ends : Leaving(f)' = Leaving(f)
  <2>1. ASSUME NEW f \in Ends, f # e PROVE Leaving(f)' = Leaving(f)
    BY <1>1, <1>3, <2>1 DEF Leaving, Unsent
  <2>2. Leaving(e)' = (Unsent(e) \o conn[e].out) \o <<>>
    BY <1>3 DEF Leaving
  <2>3. Leaving(e)' = Leaving(e)
    <3>1. Unsent(e) \o conn[e].out \in Seq(Records)
      BY <1>2, UnsentFacts, RecordConcat
    <3>2. QED
      BY <2>2, <3>1, RecordConcat DEF Leaving
  <2>4. QED
    BY <2>1, <2>3
<1>7. \A f \in Ends : Coming(f)' = Coming(f)
  BY <1>1, <1>5, <1>6, PeerFacts DEF Coming
<1>8. Ordered' /\ OneFlight'
  BY <1>1, <1>3, <1>7, SameKeeps DEF Stream
<1>9. OutPulled' /\ DroppedEmpty' /\ CleanEofIsComplete'
  <2>1. \A f \in Ends : conn'[f].notified = conn[f].notified
    BY <1>3
  <2>2. CleanEofIsComplete'
    BY <1>1, <2>1, PeerFacts DEF Stream, CleanEofIsComplete
  <2>3. OutPulled' /\ DroppedEmpty'
    BY <1>1, <1>3, <1>4 DEF Stream, OutPulled, DroppedEmpty, Alive
  <2>4. QED
    BY <2>2, <2>3
<1>10. QED
  BY <1>8, <1>9 DEF Stream

\* The transport takes u from u and v.
LEMMA Regroup ==
  \A r, w, u, v, o \in Seq(Records) :
    (r \o (w \o u)) \o (v \o o) = (r \o w) \o ((u \o v) \o o)
<1> SUFFICES ASSUME NEW r \in Seq(Records), NEW w \in Seq(Records), NEW u \in Seq(Records),
                    NEW v \in Seq(Records), NEW o \in Seq(Records)
             PROVE  (r \o (w \o u)) \o (v \o o) = (r \o w) \o ((u \o v) \o o)
  OBVIOUS
<1> DEFINE a == r \o w
           b == v \o o
<1>1. a \in Seq(Records) /\ b \in Seq(Records)
  BY RecordConcat
<1>2. a \o u = r \o (w \o u)
  BY Join, ZenonT(40)
<1>3. (u \o v) \o o = u \o b
  BY Join, ZenonT(40)
<1>4. (a \o u) \o b = a \o (u \o b)
  <2> HIDE DEF a, b
  <2>1. a \in Seq(Records)
    BY <1>1
  <2>2. b \in Seq(Records)
    BY <1>1
  <2>3. \A z \in Seq(Records) : (a \o u) \o z = a \o (u \o z)
    BY <2>1, Join, Zenon
  <2>4. QED
    BY <2>2, <2>3, Zenon
<1>5. QED
  <2> HIDE DEF b
  <2>1. (r \o (w \o u)) \o b = a \o ((u \o v) \o o)
    BY <1>2, <1>3, <1>4, Zenon
  <2>2. QED
    BY <2>1 DEF a, b

\* A write to the transport, partial or not, moves records and loses none.
LEMMA PollFlushStream ==
  ASSUME Control, Stream, NEW e \in Ends, PollFlushWriteBuf(e)
  PROVE  Stream'
<1> DEFINE p == Peer(e)
<1>0. TypeOK /\ p \in Ends /\ p # e /\ Peer(p) = e /\ \A f \in Ends : f = e \/ f = p
  BY PeerFacts DEF Control
<1>1. PICK n \in 1..Len(Unsent(e)) :
           /\ wire' = [wire EXCEPT ![p] = @ \o SubSeq(Unsent(e), 1, n)]
           /\ write_buf' = [write_buf EXCEPT ![e] = IF n = Len(Unsent(e)) THEN <<>> ELSE @]
           /\ write_pos' = [write_pos EXCEPT ![e] = IF n = Len(Unsent(e)) THEN 0 ELSE @ + n]
           /\ UNCHANGED <<cert, conn, read_buf, closed, dropped, op, pc, buf, cancelled, written, got, ended>>
           /\ SubSeq(Unsent(e), 1, n) \in Seq(Records)
           /\ Unsent(e)' \in Seq(Records)
           /\ Unsent(e) = SubSeq(Unsent(e), 1, n) \o Unsent(e)'
  BY <1>0, PollFlushFacts
<1> DEFINE u == SubSeq(Unsent(e), 1, n)
           v == Unsent(e)'
           r == read_buf[p]
           w == wire[p]
           o == conn[e].out
<1>2. ~dropped[e]
  <2> SUFFICES ASSUME dropped[e] PROVE FALSE
    OBVIOUS
  <2>1. write_buf[e] = <<>>
    BY DEF Stream, DroppedEmpty
  <2>2. Len(Unsent(e)) = Len(write_buf[e]) - write_pos[e] /\ write_pos[e] \in 0..Len(write_buf[e])
    BY <1>0, UnsentFacts, EndTypes
  <2>3. Len(Unsent(e)) = 0
    BY <2>1, <2>2
  <2>4. QED
    BY <2>3
<1>3. u \in Seq(Records) /\ v \in Seq(Records) /\ r \in Seq(Records)
      /\ w \in Seq(Records) /\ o \in Seq(Records)
  BY <1>0, <1>1, EndTypes
<1>4. Unsent(e) = u \o v /\ wire'[p] = w \o u /\ wire'[e] = wire[e]
  BY <1>0, <1>1 DEF TypeOK
<1>5. Unsent(p)' = Unsent(p)
  BY <1>0, <1>1 DEF Unsent, TypeOK
<1>6. Coming(e)' = Coming(e)
  BY <1>1, <1>4, <1>5 DEF Coming, Arrived, Leaving
<1>7. Coming(p)' = (r \o (w \o u)) \o (v \o o) /\ Coming(p) = (r \o w) \o ((u \o v) \o o)
  BY <1>0, <1>1, <1>2, <1>4 DEF Coming, Arrived, Leaving
<1>8. Coming(p)' = Coming(p)
  <2> HIDE DEF u, v, r, w, o, p
  <2>1. (r \o (w \o u)) \o (v \o o) = (r \o w) \o ((u \o v) \o o)
    <3>1. r \in Seq(Records) /\ w \in Seq(Records)
      BY <1>3
    <3>2. v \in Seq(Records) /\ o \in Seq(Records)
      BY <1>3
    <3>3. u \in Seq(Records)
      BY <1>3
    <3>4. \A x, y, z \in Seq(Records) :
            (r \o (w \o x)) \o (y \o z) = (r \o w) \o ((x \o y) \o z)
      BY <3>1, Regroup, Zenon
    <3>5. \A y, z \in Seq(Records) :
            (r \o (w \o u)) \o (y \o z) = (r \o w) \o ((u \o y) \o z)
      BY <3>3, <3>4, Zenon
    <3>6. QED
      BY <3>2, <3>5, Zenon
  <2>2. QED
    BY <1>7, <2>1
<1>9. Ordered' /\ OneFlight'
  <2>1. \A f \in Ends : Coming(f)' = Coming(f)
    BY <1>0, <1>6, <1>8
  <2>2. QED
    BY <1>1, <2>1, SameKeeps DEF Stream
<1>10. OutPulled' /\ DroppedEmpty' /\ CleanEofIsComplete'
  BY <1>1, <1>2, <1>0 DEF Stream, OutPulled, DroppedEmpty, CleanEofIsComplete, Alive, TypeOK
<1>11. QED
  BY <1>9, <1>10 DEF Stream

\* Fetching in poll_read moves records to read_buf.
LEMMA ReadFetchStream ==
  ASSUME Control, Stream, NEW e \in Ends, ReadFetch(e)
  PROVE  Stream'
<1>1. PICK n \in 1..Len(wire[e]) :
       /\ read_buf' = [read_buf EXCEPT ![e] = SubSeq(wire[e], 1, n)]
       /\ wire' = [wire EXCEPT ![e] = SubSeq(@, n + 1, Len(@))]
  BY DEF ReadFetch
<1>2. /\ read_buf[e] = <<>> /\ op' = op
      /\ UNCHANGED <<cert, conn, write_buf, write_pos, closed, dropped, written, got, ended>>
  BY DEF ReadFetch, Goto, history
<1>3. TypeOK
  BY DEF Control
<1>4. /\ SubSeq(wire[e], 1, n) \o wire'[e] = wire[e] /\ wire[e] \in Seq(Records)
      /\ \A f \in Ends : f # e => wire'[f] = wire[f]
  BY <1>1, <1>3, WireTail, EndTypes
<1>5. read_buf'[e] = SubSeq(wire[e], 1, n) /\ \A f \in Ends : f # e => read_buf'[f] = read_buf[f]
  BY <1>1, <1>3 DEF TypeOK
<1>6. Arrived(e)' = Arrived(e)
  BY <1>2, <1>4, <1>5, RecordConcat DEF Arrived
<1>7. \A f \in Ends : Coming(f)' = Coming(f)
  <2>1. \A f \in Ends : Arrived(f)' = Arrived(f)
    BY <1>4, <1>5, <1>6 DEF Arrived
  <2>2. \A f \in Ends : Leaving(f)' = Leaving(f)
    BY <1>2 DEF Leaving, Unsent
  <2>3. QED
    BY <1>2, <2>1, <2>2, PeerFacts DEF Coming
<1>8. Ordered' /\ OneFlight'
  BY <1>2, <1>7, SameKeeps DEF Stream
<1>9. OutPulled' /\ DroppedEmpty' /\ CleanEofIsComplete'
  BY <1>2 DEF Stream, OutPulled, DroppedEmpty, CleanEofIsComplete, Alive
<1>10. QED
  BY <1>8, <1>9 DEF Stream

\* Handing out plaintext keeps Stream.
LEMMA ReadPlaintextStream ==
  ASSUME Control, Stream, NEW e \in Ends, ReadPlaintext(e)
  PROVE  Stream'
<1>0. TypeOK
  BY DEF Control
<1>1. /\ op' = [op EXCEPT ![e] = "idle"] /\ op[e] = "read"
      /\ UNCHANGED <<cert, read_buf, write_buf, write_pos, wire, closed, dropped, written, ended>>
      /\ got'[e] \o conn'[e].plain = got[e] \o conn[e].plain
      /\ conn'[e].out = conn[e].out /\ conn'[e].handshaking = conn[e].handshaking
      /\ conn'[e].notified = conn[e].notified /\ conn'[e].peer_closed = conn[e].peer_closed
      /\ \A f \in Ends : f # e => conn'[f] = conn[f] /\ got'[f] = got[f]
  BY <1>0, ReadPlaintextFacts DEF Return, buffers, link
<1>2. \A f \in Ends : Coming(f)' = Coming(f)
  <2>1. \A f \in Ends : Arrived(f)' = Arrived(f)
    BY <1>1 DEF Arrived
  <2>2. \A f \in Ends : Leaving(f)' = Leaving(f)
    BY <1>1 DEF Leaving, Unsent
  <2>3. QED
    BY <1>1, <2>1, <2>2, PeerFacts DEF Coming
<1>3. Ordered' /\ OneFlight'
  BY <1>1, <1>2, SameKeeps DEF Stream
<1>4. ended[e] # "eof"
  BY <1>1 DEF Control, EofRead
<1>5. CleanEofIsComplete'
  <2>1. \A f \in Ends : conn'[f].notified = conn[f].notified
    BY <1>1
  <2>2. QED
    BY <1>1, <1>4, <2>1, PeerFacts DEF Stream, CleanEofIsComplete
<1>6. OutPulled' /\ DroppedEmpty'
  BY <1>0, <1>1 DEF Stream, OutPulled, DroppedEmpty, Alive, TypeOK
<1>7. QED
  BY <1>3, <1>5, <1>6 DEF Stream

-----------------------------------------------------------------------------
\* rustls of e processes k records of s, which have arrived.
Takes(e, s, k) ==
  /\ Arrived(e) = s \o wire'[e] /\ wire'[e] \in Seq(Records)
  /\ conn'[e] = Processed(conn[e], s, k) /\ ~Processed(conn[e], s, k).failed
  /\ read_buf'[e] = SubSeq(s, k + 1, Len(s))
  /\ \A f \in Ends : f # e => conn'[f] = conn[f] /\ read_buf'[f] = read_buf[f] /\ wire'[f] = wire[f]
  /\ UNCHANGED <<write_buf, write_pos, dropped, written, got, ended, op>>
  /\ op[e] \in {"handshake", "read"}

\* What is on its way to e, apart from what rustls is fed.
Behind(e) == IF dropped[Peer(e)] THEN wire'[e] ELSE wire'[e] \o Leaving(Peer(e))
\* What is on its way from e, apart from what its rustls still holds.
Ahead(e) == Arrived(Peer(e)) \o Unsent(e)

\* How what is on its way changes in both directions.
LEMMA TakesComing ==
  ASSUME Control, NEW e \in Ends, NEW s \in Seq(Records), NEW k \in 0..Len(s), Takes(e, s, k)
  PROVE  /\ ~dropped[e] /\ Behind(e) \in Seq(Records) /\ Ahead(e) \in Seq(Records)
         /\ Coming(e) = s \o Behind(e)
         /\ \A kinds : OfKind(kinds, Coming(e)') = Rest(kinds, s, Behind(e), k)
         /\ Coming(Peer(e)) = Ahead(e) \o conn[e].out
         /\ Coming(Peer(e))' = Ahead(e) \o Processed(conn[e], s, k).out
<1> DEFINE p == Peer(e)
           y == Behind(e)
           w == wire'[e]
           l == Leaving(p)
           t == SubSeq(s, k + 1, Len(s))
<1>0. TypeOK /\ p \in Ends /\ p # e /\ Peer(p) = e
  BY PeerFacts DEF Control
<1>1. ~dropped[e] /\ dropped' = dropped
  BY DEF Takes, Control, DroppedIdle
<1>2. /\ l \in Seq(Records) /\ Arrived(p) \in Seq(Records) /\ Unsent(e) \in Seq(Records)
      /\ conn[e].out \in Seq(Records)
  BY <1>0, ComingTypes, EndTypes
<1>3. w \in Seq(Records) /\ Arrived(e) = s \o w
  BY DEF Takes
<1>4. y \in Seq(Records) /\ Ahead(e) \in Seq(Records)
  BY <1>2, <1>3, RecordConcat DEF Behind, Ahead
<1>5. t \in Seq(Records)
  BY CutSeq
<1>6. Coming(e) = s \o y
  <2>1. CASE dropped[p]
    BY <1>3, <2>1 DEF Coming, Behind
  <2>2. CASE ~dropped[p]
    <3>1. Coming(e) = (s \o w) \o l /\ y = w \o l
      BY <1>3, <2>2 DEF Coming, Behind
    <3> HIDE DEF w, l, y, t
    <3>2. (s \o w) \o l = s \o (w \o l)
      BY <1>2, <1>3, Join, Zenon
    <3>3. QED
      BY <3>1, <3>2
  <2>3. QED
    BY <2>1, <2>2
<1>7. Arrived(e)' = t \o w /\ Leaving(p)' = l /\ Arrived(p)' = Arrived(p) /\ Unsent(e)' = Unsent(e)
  BY <1>0 DEF Takes, Arrived, Leaving, Unsent
<1>8. Coming(e)' = t \o y
  <2>1. CASE dropped[p]
    BY <1>1, <1>7, <2>1 DEF Coming, Behind
  <2>2. CASE ~dropped[p]
    <3>1. Coming(e)' = (t \o w) \o l /\ y = w \o l
      BY <1>1, <1>7, <2>2 DEF Coming, Behind
    <3> HIDE DEF w, l, y, t
    <3>2. (t \o w) \o l = t \o (w \o l)
      BY <1>2, <1>3, <1>5, Join, Zenon
    <3>3. QED
      BY <3>1, <3>2
  <2>3. QED
    BY <2>1, <2>2
<1>9. \A kinds : OfKind(kinds, Coming(e)') = Rest(kinds, s, y, k)
  BY <1>8 DEF Rest
<1> DEFINE a == Arrived(p)
           u == Unsent(e)
           o == conn[e].out
           d == Processed(conn[e], s, k).out
<1>10. Coming(p) = a \o (u \o o) /\ Coming(p)' = a \o (u \o d)
  BY <1>0, <1>1, <1>7 DEF Coming, Leaving, Takes
<1>11. d \in Seq(Records)
  <2>1. conn[e] \in Conns
    BY <1>0, EndTypes
  <2>2. Processed(conn[e], s, k) \in Conns
    BY <2>1, ProcessedRun
  <2>3. QED
    BY <2>2 DEF Conns
<1>12. (a \o u) \o o = a \o (u \o o) /\ (a \o u) \o d = a \o (u \o d)
  <2> HIDE DEF a, u, o, d
  <2>1. a \in Seq(Records) /\ u \in Seq(Records)
    BY <1>2 DEF a, u
  <2>2. \A z \in Seq(Records) : (a \o u) \o z = a \o (u \o z)
    BY <2>1, Join, Zenon
  <2>3. QED
    BY <1>2, <1>11, <2>2 DEF o
<1>13. QED
  BY <1>1, <1>4, <1>6, <1>9, <1>10, <1>12 DEF Ahead

\* Both streams stay in order.
LEMMA TakesOrdered ==
  ASSUME Control, Stream, NEW e \in Ends, NEW s \in Seq(Records), NEW k \in 0..Len(s), Takes(e, s, k)
  PROVE  Ordered'
<1> DEFINE p == Peer(e)
           c == conn[e]
           d == Processed(c, s, k)
           y == Behind(e)
           z == Ahead(e)
<1>0. TypeOK /\ p \in Ends /\ p # e /\ Peer(p) = e /\ (\A f \in Ends : f = e \/ f = p) /\ c \in Conns
  BY PeerFacts, EndTypes DEF Control
<1>1. /\ ~dropped[e] /\ y \in Seq(Records) /\ z \in Seq(Records)
      /\ Coming(e) = s \o y
      /\ OfKind(StreamKinds, Coming(e)') = Rest(StreamKinds, s, y, k)
      /\ Coming(p) = z \o c.out /\ Coming(p)' = z \o d.out
  BY TakesComing
<1>2. d \in Conns /\ d.out \in Seq(Records) /\ c.out \in Seq(Records)
  <2>1. d \in Conns
    BY <1>0, ProcessedRun
  <2>2. QED
    BY <1>0, <2>1 DEF Conns
<1>3. /\ OfKind(StreamKinds, d.out) = OfKind(StreamKinds, c.out)
      /\ d.notified = c.notified
  BY <1>0, OutProcessed
<1>4. /\ UNCHANGED <<dropped, written, got>> /\ conn'[e] = d /\ conn'[p] = conn[p]
  BY <1>0 DEF Takes
<1> HIDE DEF d, y, z
<1>5. Flows(e)'
  <2>1. PICK rest \in Seq(Records) : FlowsTo(e, rest) /\ (~dropped[p] => rest = <<>>)
    BY <1>1 DEF Stream, Ordered, Flows
  <2>2. got[e] \in Seq(1..MaxData) /\ written[p] \in 0..MaxData /\ conn[p].notified \in BOOLEAN
    BY <1>0, EndTypes
  <2>3. Flow(got[e], c, OfKind(StreamKinds, s \o y) \o rest, written[p], conn[p].notified)
    BY <1>1, <2>1 DEF FlowsTo
  <2>4. Flow(got[e], d, Rest(StreamKinds, s, y, k) \o rest, written[p], conn[p].notified)
    <3> HIDE DEF c, p
    <3> QED BY <1>0, <1>1, <2>2, <2>3, FlowProcessed DEF d
  <2>5. FlowsTo(e, rest)'
    BY <1>1, <1>4, <2>4 DEF FlowsTo
  <2>6. QED
    BY <1>4, <2>1, <2>5 DEF Flows
<1>6. ASSUME ~dropped[p] PROVE Flows(p)'
  <2>1. PICK rest \in Seq(Records) : FlowsTo(p, rest) /\ (~dropped[e] => rest = <<>>)
    BY <1>0, <1>6 DEF Stream, Ordered, Flows
  <2>2. OfKind(StreamKinds, Coming(p)') = OfKind(StreamKinds, Coming(p))
    <3>1. /\ OfKind(StreamKinds, z \o c.out) = OfKind(StreamKinds, z) \o OfKind(StreamKinds, c.out)
          /\ OfKind(StreamKinds, z \o d.out) = OfKind(StreamKinds, z) \o OfKind(StreamKinds, d.out)
      <4> DEFINE x == c.out
                 v == d.out
      <4>1. x \in Seq(Records) /\ v \in Seq(Records) /\ z \in Seq(Records)
        BY <1>1, <1>2
      <4> HIDE DEF x, v
      <4>2. \A a, b \in Seq(Records) :
              OfKind(StreamKinds, a \o b) = OfKind(StreamKinds, a) \o OfKind(StreamKinds, b)
        BY KindsConcat, Zenon
      <4>3. /\ OfKind(StreamKinds, z \o x) = OfKind(StreamKinds, z) \o OfKind(StreamKinds, x)
            /\ OfKind(StreamKinds, z \o v) = OfKind(StreamKinds, z) \o OfKind(StreamKinds, v)
        BY <4>1, <4>2, Zenon
      <4>4. QED
        BY <4>3 DEF x, v
    <3>2. QED
      BY <1>1, <1>3, <3>1
  <2>3. FlowsTo(p, rest)'
    BY <1>0, <1>3, <1>4, <2>1, <2>2 DEF FlowsTo
  <2>4. QED
    BY <1>0, <1>4, <2>1, <2>3 DEF Flows
<1>7. QED
  BY <1>0, <1>4, <1>5, <1>6 DEF Ordered

\* So does the handshake, and a read after it finds nothing to answer.
LEMMA TakesStream ==
  ASSUME Control, Stream, NEW e \in Ends, NEW s \in Seq(Records), NEW k \in 0..Len(s), Takes(e, s, k)
  PROVE  Stream'
<1> DEFINE p == Peer(e)
           c == conn[e]
           d == Processed(c, s, k)
           y == Behind(e)
           z == Ahead(e)
<1>0. /\ TypeOK /\ p \in Ends /\ p # e /\ Peer(p) = e /\ (\A f \in Ends : f = e \/ f = p) /\ c \in Conns
      /\ conn[p].handshaking \in BOOLEAN
  BY PeerFacts, EndTypes DEF Control
<1>1. /\ ~dropped[e] /\ y \in Seq(Records) /\ z \in Seq(Records)
      /\ Coming(e) = s \o y
      /\ OfKind(HandshakeKinds, Coming(e)') = Rest(HandshakeKinds, s, y, k)
      /\ Coming(p) = z \o c.out /\ Coming(p)' = z \o d.out
  BY TakesComing
<1>2. Ordered'
  BY TakesOrdered
<1>3. d.notified = c.notified /\ ~d.failed
  BY <1>0, OutProcessed DEF Takes
<1>4. /\ UNCHANGED <<dropped, written, got, op, ended, write_buf>> /\ conn'[e] = d /\ conn'[p] = conn[p]
  BY <1>0 DEF Takes
<1> HIDE DEF y, z
<1>5. ASSUME Alive
      PROVE  /\ Handshake(e, d.handshaking, Rest(HandshakeKinds, s, y, k), conn[p].handshaking,
                          OfKind(HandshakeKinds, z \o d.out))
             /\ ~c.handshaking => d.out = c.out /\ ~d.handshaking
  <2>1. Handshake(e, c.handshaking, OfKind(HandshakeKinds, s \o y), conn[p].handshaking,
                  OfKind(HandshakeKinds, z \o c.out))
    BY <1>1, <1>5 DEF Stream, OneFlight, Agree
  <2> HIDE DEF c, p
  <2>2. QED
    BY <1>0, <1>1, <1>3, <2>1, HandshakeProcessed
<1> HIDE DEF d
<1>6. OneFlight'
  <2> SUFFICES ASSUME Alive' PROVE Agree(e)' /\ Agree(p)'
    BY <1>0 DEF OneFlight
  <2>1. Alive
    BY <1>4 DEF Alive
  <2>2. Agree(e)'
    BY <1>1, <1>4, <1>5, <2>1 DEF Agree
  <2>3. Agree(p)'
    BY <1>0, <2>2, Symmetric DEF Agree
  <2>4. QED
    BY <2>2, <2>3
<1>7. OutPulled'
  <2> SUFFICES ASSUME Alive', NEW f \in Ends, op[f] # "handshake"
               PROVE  ~conn'[f].handshaking /\ conn'[f].out = <<>>
    BY <1>4 DEF OutPulled
  <2>1. Alive
    BY <1>4 DEF Alive
  <2>2. ~conn[f].handshaking /\ conn[f].out = <<>>
    BY <2>1 DEF Stream, OutPulled
  <2>3. QED
    BY <1>0, <1>4, <1>5, <2>1, <2>2
<1>8. DroppedEmpty'
  BY <1>4 DEF Stream, DroppedEmpty
<1>9. CleanEofIsComplete'
  BY <1>0, <1>3, <1>4, PeerFacts DEF Stream, CleanEofIsComplete
<1>10. QED
  BY <1>2, <1>6, <1>7, <1>8, <1>9 DEF Stream

\* Feeding what is buffered keeps Stream.
LEMMA FeedStream ==
  ASSUME Control, Stream, NEW e \in Ends, HandshakeFeed(e) \/ ReadFeed(e)
  PROVE  Stream'
<1>1. /\ Feed(e, read_buf[e]) /\ op[e] \in {"handshake", "read"} /\ op' = op
      /\ UNCHANGED <<cert, write_buf, write_pos, wire, closed, dropped, written, got, ended>>
  BY DEF HandshakeFeed, ReadFeed, ReadBlocked, CanTake, link, history, Goto
<1>2. TypeOK /\ read_buf[e] \in Seq(Records) /\ wire[e] \in Seq(Records)
  BY EndTypes DEF Control
<1>3. PICK k \in 1..Len(read_buf[e]) :
           /\ conn'[e] = Processed(conn[e], read_buf[e], k) /\ ~Processed(conn[e], read_buf[e], k).failed
           /\ \A f \in Ends : f # e => conn'[f] = conn[f] /\ read_buf'[f] = read_buf[f]
           /\ read_buf'[e] = SubSeq(read_buf[e], k + 1, Len(read_buf[e]))
  BY <1>1, <1>2, FeedFacts
<1>4. Takes(e, read_buf[e], k) /\ k \in 0..Len(read_buf[e])
  BY <1>1, <1>2, <1>3 DEF Takes, Arrived
<1>5. QED
  BY <1>2, <1>4, TakesStream

\* Fetching in the handshake keeps Stream.
LEMMA FetchStream ==
  ASSUME Control, Stream, NEW e \in Ends, HandshakeFetch(e)
  PROVE  Stream'
<1>1. PICK n \in 1..Len(wire[e]) :
       /\ Feed(e, read_buf[e] \o SubSeq(wire[e], 1, n))
       /\ wire' = [wire EXCEPT ![e] = SubSeq(@, n + 1, Len(@))]
  BY DEF HandshakeFetch
<1>2. /\ op[e] = "handshake" /\ op' = op
      /\ UNCHANGED <<cert, write_buf, write_pos, closed, dropped, written, got, ended>>
  BY DEF HandshakeFetch, history, Goto
<1>3. TypeOK /\ read_buf[e] \in Seq(Records)
  BY EndTypes DEF Control
<1> DEFINE a == SubSeq(wire[e], 1, n)
           s == read_buf[e] \o a
           w == wire'[e]
<1>4. /\ w \in Seq(Records) /\ a \in Seq(Records) /\ a \o w = wire[e]
      /\ \A f \in Ends : f # e => wire'[f] = wire[f]
  BY <1>1, <1>3, WireTail
<1>5. s \in Seq(Records) /\ Feed(e, s)
  BY <1>1, <1>3, <1>4, RecordConcat
<1>6. Arrived(e) = s \o w
  <2>1. Arrived(e) = read_buf[e] \o (a \o w)
    BY <1>4 DEF Arrived
  <2> DEFINE b == read_buf[e]
  <2> HIDE DEF a, w, b
  <2>2. (b \o a) \o w = b \o (a \o w)
    BY <1>3, <1>4, Join, Zenon DEF b
  <2>3. QED
    BY <2>1, <2>2 DEF b
<1> HIDE DEF s
<1>7. PICK k \in 1..Len(s) :
           /\ conn'[e] = Processed(conn[e], s, k) /\ ~Processed(conn[e], s, k).failed
           /\ \A f \in Ends : f # e => conn'[f] = conn[f] /\ read_buf'[f] = read_buf[f]
           /\ read_buf'[e] = SubSeq(s, k + 1, Len(s))
  BY <1>3, <1>5, FeedFacts
<1>8. Takes(e, s, k) /\ k \in 0..Len(s)
  BY <1>2, <1>4, <1>6, <1>7 DEF Takes
<1>9. QED
  BY <1>5, <1>8, TakesStream

\* A stream to which the writer appends.
LEMMA FlowGrows ==
  ASSUME NEW g \in Seq(1..MaxData), NEW c \in Conns, NEW x \in Seq(Records), NEW r \in Seq(Records),
         NEW n, NEW b, NEW m, NEW d,
         Flow(g, c, x \o <<>>, n, b), Marked(Identity(m), d) = Marked(Identity(n), b) \o r
  PROVE  Flow(g, c, (x \o r) \o <<>>, m, d)
<1> DEFINE q == g \o c.plain
           a == Marked(q, c.peer_closed)
<1>1. a \in Seq(Records)
  <2>1. c.plain \in Seq(1..MaxData) /\ c.peer_closed \in BOOLEAN
    BY DEF Conns
  <2>2. q \in Seq(1..MaxData)
    BY <2>1, PlainConcat
  <2> HIDE DEF q
  <2>3. QED
    BY <2>1, <2>2, MarkedFacts
<1>2. x \o <<>> = x /\ x \o r \in Seq(Records) /\ (x \o r) \o <<>> = x \o r
  <2>1. x \o <<>> = x /\ x \o r \in Seq(Records)
    BY RecordConcat
  <2>2. QED
    BY <2>1, RecordConcat
<1>3. a \o x = Marked(Identity(n), b)
  BY <1>2 DEF Flow
<1> HIDE DEF a
<1>4. (a \o x) \o r = a \o (x \o r)
  BY <1>1, Join, Zenon
<1>5. a \o ((x \o r) \o <<>>) = Marked(Identity(m), d)
  BY <1>2, <1>3, <1>4
<1>6. QED
  BY <1>5 DEF Flow, a

-----------------------------------------------------------------------------
\* e appends records to its stream and reports what they hold as written.
Adds(e, records) ==
  /\ UNCHANGED <<read_buf, wire, dropped, got, ended>> /\ ~dropped[e]
  /\ \A f \in Ends : /\ conn'[f].plain = conn[f].plain /\ conn'[f].peer_closed = conn[f].peer_closed
                     /\ conn'[f].handshaking = conn[f].handshaking
                     /\ f # e => conn'[f] = conn[f] /\ Unsent(f)' = Unsent(f) /\ written'[f] = written[f]
                                 /\ op'[f] = op[f] /\ write_buf'[f] = write_buf[f]
  /\ op[e] # "handshake"
  /\ conn'[e].out = <<>>
  /\ Alive => /\ Leaving(e)' = Leaving(e) \o records
              /\ OfKind(HandshakeKinds, records) = <<>>
              /\ Marked(Identity(written'[e]), conn'[e].notified)
                   = Marked(Identity(written[e]), conn[e].notified) \o OfKind(StreamKinds, records)

\* They join what is coming to the peer.
LEMMA AddsComing ==
  ASSUME Control, NEW e \in Ends, NEW records \in Seq(Records), Adds(e, records)
  PROVE  /\ Coming(e)' = Coming(e)
         /\ Alive => /\ Coming(Peer(e))' = Coming(Peer(e)) \o records
                     /\ \A kinds : OfKind(kinds, Coming(Peer(e))')
                                     = OfKind(kinds, Coming(Peer(e))) \o OfKind(kinds, records)
<1> DEFINE p == Peer(e)
<1>0. TypeOK /\ p \in Ends /\ p # e /\ Peer(p) = e
  BY PeerFacts DEF Control
<1>1. Coming(e)' = Coming(e)
  BY <1>0 DEF Coming, Arrived, Leaving, Adds
<1>2. ASSUME Alive PROVE Coming(p)' = Coming(p) \o records
  <2> DEFINE a == Arrived(p)
             l == Leaving(e)
  <2>1. a \in Seq(Records) /\ l \in Seq(Records)
    BY <1>0, ComingTypes
  <2>2. Coming(p) = a \o l /\ Coming(p)' = a \o (l \o records)
    BY <1>0, <1>2 DEF Coming, Arrived, Adds
  <2> HIDE DEF a, l, p
  <2>3. (a \o l) \o records = a \o (l \o records)
    BY <2>1, Join, Zenon
  <2>4. QED
    BY <2>2, <2>3
<1>3. ASSUME Alive, NEW kinds
      PROVE  OfKind(kinds, Coming(p)') = OfKind(kinds, Coming(p)) \o OfKind(kinds, records)
  <2>1. Coming(p) \in Seq(Records)
    BY <1>0, ComingTypes
  <2>2. \A a, b \in Seq(Records) : OfKind(kinds, a \o b) = OfKind(kinds, a) \o OfKind(kinds, b)
    BY KindsConcat, Zenon
  <2> DEFINE a == Coming(p)
  <2>3. Coming(p)' = a \o records
    BY <1>2, <1>3
  <2> HIDE DEF a
  <2>4. OfKind(kinds, a \o records) = OfKind(kinds, a) \o OfKind(kinds, records)
    BY <2>1, <2>2, Zenon DEF a
  <2>5. QED
    BY <2>3, <2>4 DEF a
<1>4. QED
  BY <1>1, <1>2, <1>3

\* That keeps Stream.
LEMMA AddsStream ==
  ASSUME Control, Stream, NEW e \in Ends, NEW records \in Seq(Records), Adds(e, records),
         \A f \in Ends : conn[f].notified => conn'[f].notified /\ written'[f] = written[f]
  PROVE  Stream'
<1> DEFINE p == Peer(e)
<1>0. TypeOK /\ p \in Ends /\ p # e /\ Peer(p) = e /\ \A f \in Ends : f = e \/ f = p
  BY PeerFacts DEF Control
<1>1. /\ UNCHANGED <<read_buf, wire, dropped, got, ended>> /\ ~dropped[e]
      /\ conn'[p] = conn[p] /\ written'[p] = written[p]
      /\ conn'[e].plain = conn[e].plain /\ conn'[e].peer_closed = conn[e].peer_closed
      /\ conn'[e].handshaking = conn[e].handshaking
  BY <1>0 DEF Adds
<1>2. Coming(e)' = Coming(e)
  BY AddsComing
<1>3. Flows(e)'
  <2>1. PICK rest \in Seq(Records) : FlowsTo(e, rest) /\ (~dropped[p] => rest = <<>>)
    BY <1>1 DEF Stream, Ordered, Flows
  <2>2. FlowsTo(e, rest)'
    BY <1>1, <1>2, <2>1 DEF FlowsTo, Flow
  <2>3. QED
    BY <1>1, <2>1, <2>2 DEF Flows
<1>4. ASSUME Alive PROVE Flows(p)' /\ Agree(e)' /\ Agree(p)'
  <2> DEFINE x == OfKind(StreamKinds, Coming(p))
             r == OfKind(StreamKinds, records)
             h == OfKind(HandshakeKinds, Coming(p))
  <2>1. x \in Seq(Records) /\ r \in Seq(Records) /\ h \in Seq(Records)
    BY <1>0, ComingTypes, OfKindType
  <2>2. OfKind(StreamKinds, Coming(p)') = x \o r
    BY <1>4, AddsComing
  <2>3. OfKind(HandshakeKinds, Coming(p)') = h
    <3>0. OfKind(HandshakeKinds, Coming(p)') = h \o OfKind(HandshakeKinds, records)
      BY <1>4, AddsComing
    <3>1. OfKind(HandshakeKinds, Coming(p)') = h \o <<>>
      BY <1>4, <3>0 DEF Adds
    <3> HIDE DEF h
    <3>2. QED
      BY <2>1, <3>1, RecordConcat
  <2>4. Marked(Identity(written'[e]), conn'[e].notified)
          = Marked(Identity(written[e]), conn[e].notified) \o r
    BY <1>4 DEF Adds
  <2>5. Flow(got[p], conn[p], x \o <<>>, written[e], conn[e].notified)
    <3>1. Flows(p)
      BY <1>0, <1>4 DEF Stream, Ordered, Alive
    <3>2. QED
      BY <1>0, <1>1, <3>1 DEF Flows, FlowsTo
  <2>6. got[p] \in Seq(1..MaxData) /\ conn[p] \in Conns
    BY <1>0, EndTypes
  <2> HIDE DEF x, r
  <2>7. Flow(got[p], conn[p], (x \o r) \o <<>>, written'[e], conn'[e].notified)
    BY <2>1, <2>4, <2>5, <2>6, FlowGrows
  <2>8. FlowsTo(p, <<>>)'
    BY <1>0, <1>1, <2>2, <2>7 DEF FlowsTo
  <2>9. Flows(p)'
    <3>1. <<>> \in Seq(Records)
      OBVIOUS
    <3>2. QED
      BY <2>8, <3>1 DEF Flows
  <2>10. Agree(e)' /\ Agree(p)'
    <3>1. Agree(e) /\ Agree(p)
      BY <1>0, <1>4 DEF Stream, OneFlight
    <3>2. QED
      BY <1>0, <1>1, <1>2, <2>3, <3>1 DEF Agree
  <2>11. QED
    BY <2>9, <2>10
<1>5. Ordered' /\ OneFlight'
  <2>1. Alive' <=> Alive
    BY <1>1 DEF Alive
  <2>2. ~dropped[p] => Alive
    BY <1>0, <1>1 DEF Alive
  <2>3. Ordered'
    BY <1>0, <1>1, <1>3, <1>4, <2>2 DEF Ordered
  <2>4. OneFlight'
    BY <1>0, <1>4, <2>1 DEF OneFlight
  <2>5. QED
    BY <2>3, <2>4
<1>6. OutPulled' /\ DroppedEmpty'
  <2>1. DroppedEmpty'
    BY <1>0, <1>1 DEF Adds, Stream, DroppedEmpty
  <2>2. OutPulled'
    <3> SUFFICES ASSUME Alive', NEW f \in Ends, op'[f] # "handshake"
                 PROVE  ~conn'[f].handshaking /\ conn'[f].out = <<>>
      BY DEF OutPulled
    <3>1. Alive
      BY <1>1 DEF Alive
    <3>2. CASE f = p
      BY <1>0, <3>1, <3>2 DEF Adds, Stream, OutPulled
    <3>3. CASE f = e
      <4>1. op[e] # "handshake" => ~conn[e].handshaking
        BY <3>1 DEF Stream, OutPulled
      <4>2. QED
        BY <3>3, <4>1 DEF Adds
    <3>4. QED
      BY <1>0, <3>2, <3>3
  <2>3. QED
    BY <2>1, <2>2
<1>7. CleanEofIsComplete'
  BY <1>1, PeerFacts DEF Stream, CleanEofIsComplete
<1>8. QED
  BY <1>5, <1>6, <1>7 DEF Stream

\* Records rustls took join what is leaving.
LEMMA PullLeaves ==
  ASSUME Control, NEW e \in Ends, NEW records \in Seq(Records),
         Unsent(e)' = Unsent(e) \o records, conn'[e].out = <<>>, conn[e].out = <<>>
  PROVE  Leaving(e)' = Leaving(e) \o records
<1>1. Unsent(e) \in Seq(Records)
  BY UnsentFacts DEF Control
<1> DEFINE u == Unsent(e)
<1>2. Leaving(e)' = (u \o records) \o <<>> /\ Leaving(e) = u \o <<>>
  BY DEF Leaving
<1>3. u \in Seq(Records) /\ u \o records \in Seq(Records)
  BY <1>1, RecordConcat
<1> HIDE DEF u
<1>4. u \o <<>> = u
  BY <1>3, RecordConcat
<1> DEFINE v == u \o records
<1> HIDE DEF v
<1>5. v \o <<>> = v
  BY <1>3, RecordConcat DEF v
<1>6. QED
  BY <1>2, <1>4, <1>5 DEF v

\* An accepted write keeps Stream: rustls holds nothing, so it takes all of a
\* write that fits.
LEMMA WriteAcceptStream ==
  ASSUME WritesFit, Control, Stream, NEW e \in Ends, WriteAccept(e)
  PROVE  Stream'
<1> DEFINE records == DataFrom(written[e], Accepted(e))
           c == [conn[e] EXCEPT !.out = @ \o records]
<1>1. /\ Accepted(e) \in 1..buf[e] /\ buf[e] \in Nat /\ written[e] + buf[e] \in 0..MaxData
      /\ records \in Seq(Records) /\ c \in Conns /\ ~c.failed /\ PullTlsRecords(e, c)
      /\ written' = [written EXCEPT ![e] = @ + buf[e]]
      /\ op' = op /\ op[e] = "write" /\ ~conn[e].notified
      /\ UNCHANGED <<cert, read_buf, write_pos, wire, closed, dropped, got, ended>>
  BY WriteAcceptFacts DEF Goto
<1>2. /\ TypeOK /\ conn[e] \in Conns /\ conn[e].out \in Seq(Records) /\ written[e] \in 0..MaxData
      /\ written[e] \in Nat /\ conn[e].notified = FALSE
  BY <1>1, EndTypes DEF Control
<1> HIDE DEF records
<1>3. /\ c.out = conn[e].out \o records /\ c.plain = conn[e].plain /\ c.handshaking = conn[e].handshaking
      /\ c.notified = conn[e].notified /\ c.peer_closed = conn[e].peer_closed
  BY <1>2 DEF Conns
<1> HIDE DEF c
<1>4. /\ Unsent(e)' = Unsent(e) \o c.out /\ conn'[e].out = <<>>
      /\ conn'[e].plain = c.plain /\ conn'[e].handshaking = c.handshaking
      /\ conn'[e].notified = c.notified /\ conn'[e].peer_closed = c.peer_closed
      /\ \A f \in Ends : f # e => conn'[f] = conn[f] /\ write_buf'[f] = write_buf[f]
  BY <1>1, <1>2, PullFacts
<1>5. ~dropped[e]
  BY <1>1 DEF Control, DroppedIdle
<1>6. written'[e] = written[e] + buf[e] /\ \A f \in Ends : f # e => written'[f] = written[f]
  BY <1>1, <1>2 DEF TypeOK
<1>7. ASSUME Alive
      PROVE  /\ Leaving(e)' = Leaving(e) \o records
             /\ OfKind(HandshakeKinds, records) = <<>>
             /\ Marked(Identity(written'[e]), conn'[e].notified)
                  = Marked(Identity(written[e]), conn[e].notified) \o OfKind(StreamKinds, records)
  <2>1. conn[e].out = <<>>
    BY <1>1, <1>7 DEF Stream, OutPulled
  <2>2. c.out = records
    BY <1>1, <1>3, <2>1, RecordConcat
  <2>3. Accepted(e) = buf[e]
    <3>1. Len(conn[e].out) = 0 /\ Limit \in Nat
      BY <2>1, TlsAssumption
    <3>2. buf[e] \in {0} \cup WriteSizes
      BY <1>2 DEF TypeOK
    <3>3. buf[e] <= Limit
      BY <1>1, <3>1, <3>2 DEF WritesFit
    <3>4. QED
      BY <1>1, <3>1, <3>3 DEF Accepted
  <2>4. records = DataFrom(written[e], buf[e])
    BY <2>3 DEF records
  <2>5. buf[e] \in 0..MaxData /\ written[e] + buf[e] <= MaxData
    <3>1. MaxData \in Nat
      BY TlsAssumption
    <3>2. QED
      BY <1>1, <1>2, <3>1
  <2>6. /\ OfKind(HandshakeKinds, records) = <<>> /\ OfKind(StreamKinds, records) = records
        /\ Marked(Identity(written[e] + buf[e]), FALSE) = Marked(Identity(written[e]), FALSE) \o records
    BY <1>2, <2>4, <2>5, DataFromFacts
  <2>7. Leaving(e)' = Leaving(e) \o records
    BY <1>1, <1>4, <2>1, <2>2, PullLeaves
  <2>8. QED
    BY <1>2, <1>3, <1>4, <1>6, <2>6, <2>7
<1>8. Adds(e, records)
  <2>1. \A f \in Ends : f # e => Unsent(f)' = Unsent(f)
    BY <1>1, <1>4 DEF Unsent
  <2>2. QED
    BY <1>1, <1>3, <1>4, <1>5, <1>6, <1>7, <2>1 DEF Adds
<1>9. \A f \in Ends : conn[f].notified => conn'[f].notified /\ written'[f] = written[f]
  BY <1>1, <1>4, <1>6
<1>10. QED
  BY <1>1, <1>8, <1>9, AddsStream

\* poll_shutdown keeps Stream: its close_notify comes after all that was
\* written.
LEMMA ShutdownStream ==
  ASSUME Control, Stream, NEW e \in Ends, Shutdown(e)
  PROVE  Stream'
<1> DEFINE records == IF conn[e].notified THEN <<>> ELSE <<Notify>>
           c == Closing(conn[e])
<1>1. /\ c \in Conns /\ ~c.failed /\ PullTlsRecords(e, c)
      /\ op' = [op EXCEPT ![e] = "shutdown"]
      /\ op[e] = "idle" /\ ~dropped[e]
      /\ UNCHANGED <<cert, read_buf, write_pos, wire, closed, dropped, written, got, ended>>
  BY ShutdownFacts
<1>2. /\ TypeOK /\ conn[e] \in Conns /\ ~conn[e].failed /\ conn[e].out \in Seq(Records)
      /\ conn[e].notified \in BOOLEAN /\ written[e] \in 0..MaxData
  BY EndTypes DEF Control
<1>3. /\ c.notified = TRUE /\ c.plain = conn[e].plain /\ c.peer_closed = conn[e].peer_closed
      /\ c.handshaking = conn[e].handshaking
      /\ c.out = IF conn[e].notified THEN conn[e].out ELSE conn[e].out \o <<Notify>>
  <2>1. c.notified \in BOOLEAN
    BY <1>1 DEF Conns
  <2>2. QED
    BY <1>2, <2>1, ClosingFacts
<1> HIDE DEF c
<1>4. /\ Unsent(e)' = Unsent(e) \o c.out /\ conn'[e].out = <<>>
      /\ conn'[e].plain = c.plain /\ conn'[e].handshaking = c.handshaking
      /\ conn'[e].notified = c.notified /\ conn'[e].peer_closed = c.peer_closed
      /\ \A f \in Ends : f # e => conn'[f] = conn[f] /\ write_buf'[f] = write_buf[f]
  BY <1>1, <1>2, PullFacts
<1>5. records \in Seq(Records)
  BY RecordFacts
<1>7. ASSUME Alive
      PROVE  /\ Leaving(e)' = Leaving(e) \o records
             /\ OfKind(HandshakeKinds, records) = <<>>
             /\ Marked(Identity(written'[e]), conn'[e].notified)
                  = Marked(Identity(written[e]), conn[e].notified) \o OfKind(StreamKinds, records)
  <2>1. conn[e].out = <<>>
    BY <1>1, <1>7 DEF Stream, OutPulled
  <2>2. c.out = records
    <3>1. <<>> \o <<Notify>> = <<Notify>>
      OBVIOUS
    <3>2. QED
      BY <1>3, <2>1, <3>1
  <2>3. Leaving(e)' = Leaving(e) \o records
    <3> HIDE DEF records
    <3> QED BY <1>4, <1>5, <2>1, <2>2, PullLeaves
  <2> DEFINE q == Identity(written[e])
  <2>4. q \in Seq(1..MaxData)
    BY <1>2, IdentityFacts
  <2> HIDE DEF q
  <2>5. CASE conn[e].notified
    <3>1. records = <<>> /\ conn[e].notified = TRUE
      BY <1>2, <2>5
    <3>2. OfKind(HandshakeKinds, records) = <<>> /\ OfKind(StreamKinds, records) = <<>>
      BY <3>1, OfKindEmpty
    <3>3. Marked(q, TRUE) \o <<>> = Marked(q, TRUE)
      <4>1. Marked(q, TRUE) \in Seq(Records)
        BY <2>4, MarkedFacts
      <4>2. QED
        BY <4>1, RecordConcat
    <3>4. QED
      BY <1>1, <1>3, <1>4, <2>3, <3>1, <3>2, <3>3 DEF q
  <2>6. CASE ~conn[e].notified
    <3>1. records = <<Notify>> /\ conn[e].notified = FALSE
      BY <1>2, <2>6
    <3>2. OfKind(HandshakeKinds, <<Notify>>) = <<>> /\ OfKind(StreamKinds, <<Notify>>) = <<Notify>>
      BY OfKindOne, KindFacts DEF HandshakeKinds, StreamKinds
    <3>3. Marked(q, TRUE) = Marked(q, FALSE) \o <<Notify>>
      BY <2>4, MarkedFacts
    <3>4. QED
      BY <1>1, <1>3, <1>4, <2>3, <3>1, <3>2, <3>3 DEF q
  <2>7. QED
    BY <2>5, <2>6
<1> HIDE DEF records
<1>8. Adds(e, records)
  <2>1. \A f \in Ends : f # e => Unsent(f)' = Unsent(f) /\ op'[f] = op[f]
    BY <1>1, <1>2, <1>4 DEF Unsent, TypeOK
  <2>2. QED
    BY <1>1, <1>3, <1>4, <1>7, <2>1 DEF Adds
<1>9. \A f \in Ends : conn[f].notified => conn'[f].notified /\ written'[f] = written[f]
  BY <1>1, <1>3, <1>4
<1>10. QED
  BY <1>5, <1>8, <1>9, AddsStream

\* A dropped stream takes along what it had not sent, the end of what its
\* peer waits for.
LEMMA DropsStream ==
  ASSUME Control, Stream, NEW e \in Ends, Drops(e)
  PROVE  Stream'
<1> DEFINE p == Peer(e)
<1>0. TypeOK /\ p \in Ends /\ p # e /\ Peer(p) = e /\ \A f \in Ends : f = e \/ f = p
  BY PeerFacts DEF Control
<1>1. /\ UNCHANGED <<conn, written, got>> /\ dropped'[e] /\ dropped'[p] = dropped[p]
      /\ read_buf'[p] = read_buf[p] /\ wire'[p] = wire[p] /\ write_buf'[p] = write_buf[p]
      /\ write_buf'[e] = <<>>
      /\ \A f \in Ends : ended'[f] = "eof" => ended[f] = "eof"
  BY <1>0 DEF Drops, DropEnd, TypeOK
<1>2. ASSUME ~dropped[p] PROVE Flows(p)'
  <2>1. PICK rest \in Seq(Records) : FlowsTo(p, rest) /\ (~dropped[e] => rest = <<>>)
    BY <1>0, <1>2 DEF Stream, Ordered, Flows
  <2> DEFINE a == OfKind(StreamKinds, Arrived(p))
             l == OfKind(StreamKinds, Leaving(e))
  <2>2. Coming(p)' = Arrived(p)
    BY <1>0, <1>1 DEF Coming, Arrived
  <2>3. Arrived(p) \in Seq(Records) /\ Leaving(e) \in Seq(Records)
    BY <1>0, ComingTypes
  <2>4. a \in Seq(Records) /\ l \in Seq(Records)
    BY <2>3, OfKindType
  <2>5. CASE dropped[e]
    <3>1. Coming(p) = Arrived(p)
      BY <1>0, <2>5 DEF Coming
    <3>2. FlowsTo(p, rest)'
      BY <1>0, <1>1, <2>1, <2>2, <3>1 DEF FlowsTo
    <3>3. QED
      BY <1>0, <1>1, <3>2 DEF Flows
  <2>6. CASE ~dropped[e]
    <3>1. Coming(p) = Arrived(p) \o Leaving(e) /\ rest = <<>>
      BY <1>0, <2>1, <2>6 DEF Coming
    <3>2. OfKind(StreamKinds, Coming(p)) = a \o l
      <4>1. \A x, y \in Seq(Records) :
              OfKind(StreamKinds, x \o y) = OfKind(StreamKinds, x) \o OfKind(StreamKinds, y)
        BY KindsConcat, Zenon
      <4> DEFINE x == Arrived(p)
                 y == Leaving(e)
      <4>2. x \in Seq(Records) /\ y \in Seq(Records)
        BY <2>3
      <4> HIDE DEF x, y
      <4>3. OfKind(StreamKinds, x \o y) = OfKind(StreamKinds, x) \o OfKind(StreamKinds, y)
        BY <4>1, <4>2, Zenon
      <4>4. QED
        BY <3>1, <4>3 DEF x, y
    <3>3. OfKind(StreamKinds, Coming(p)) \o rest = a \o l
      <4> HIDE DEF a, l
      <4>1. a \o l \in Seq(Records)
        BY <2>4, RecordConcat
      <4> DEFINE b == a \o l
      <4> HIDE DEF b
      <4>2. b \o <<>> = b
        BY <4>1, RecordConcat DEF b
      <4>3. QED
        BY <3>1, <3>2, <4>2 DEF b
    <3>4. Flow(got[p], conn[p], a \o l, written[e], conn[e].notified)
      BY <1>0, <2>1, <3>3 DEF FlowsTo
    <3>5. PICK m \in Seq(Records) : m = l
      BY <2>4
    <3>6. FlowsTo(p, m)'
      BY <1>0, <1>1, <2>2, <3>4, <3>5 DEF FlowsTo
    <3>7. QED
      BY <1>0, <1>1, <3>6 DEF Flows
  <2>7. QED
    BY <2>5, <2>6
<1>3. Ordered'
  BY <1>0, <1>1, <1>2 DEF Ordered
<1>4. OneFlight' /\ OutPulled'
  BY <1>1 DEF OneFlight, OutPulled, Alive
<1>5. DroppedEmpty' /\ CleanEofIsComplete'
  BY <1>0, <1>1 DEF Stream, DroppedEmpty, CleanEofIsComplete
<1>6. QED
  BY <1>3, <1>4, <1>5 DEF Stream

\* Stream holds of two new connections, with the client's hello under way.
LEMMA InitStream == Init => Stream
<1> SUFFICES ASSUME Init PROVE Stream
  OBVIOUS
<1>0. Client \in Ends /\ Server \in Ends /\ Client # Server /\ Peer(Client) = Server /\ Peer(Server) = Client
      /\ \A e \in Ends : e = Client \/ e = Server
  BY TlsAssumption DEF Ends, Peer
<1>1. /\ \A e \in Ends : /\ ~dropped[e] /\ got[e] = <<>> /\ written[e] = 0
                         /\ op[e] = "handshake" /\ ended[e] = "no"
                         /\ conn[e].plain = <<>> /\ conn[e].handshaking = TRUE
                         /\ conn[e].notified = FALSE /\ conn[e].peer_closed = FALSE
                         /\ read_buf[e] = <<>> /\ wire[e] = <<>> /\ write_buf[e] = <<>> /\ write_pos[e] = 0
      /\ conn[Client].out = <<Hello>> /\ conn[Server].out = <<>>
  BY <1>0 DEF Init, NewConnection
<1>2. SubSeq(<<>>, 1, 0) = <<>> /\ <<>> \o <<>> = <<>> /\ <<>> \o <<Hello>> = <<Hello>>
      /\ Len(<<>>) = 0 /\ <<>> \in Seq(Records)
  OBVIOUS
<1>3. \A e \in Ends : Unsent(e) = <<>>
  BY <1>1, <1>2 DEF Unsent
<1>4. Coming(Client) = <<>> /\ Coming(Server) = <<Hello>>
  BY <1>0, <1>1, <1>2, <1>3, ZenonT(40) DEF Coming, Arrived, Leaving
<1>5. /\ OfKind(StreamKinds, <<>>) = <<>> /\ OfKind(HandshakeKinds, <<>>) = <<>>
      /\ OfKind(StreamKinds, <<Hello>>) = <<>> /\ OfKind(HandshakeKinds, <<Hello>>) = <<Hello>>
  BY OfKindEmpty, OfKindOne, KindFacts DEF StreamKinds, HandshakeKinds
<1>6. Ordered
  <2>1. Plain(<<>>) = <<>> /\ Identity(0) = <<>>
    BY <1>2 DEF Plain, Identity
  <2>2. Marked(<<>>, FALSE) \o (<<>> \o <<>>) = Marked(Identity(0), FALSE)
    BY <1>2, <2>1 DEF Marked
  <2>3. \A e \in Ends : FlowsTo(e, <<>>)
    BY <1>0, <1>1, <1>2, <1>4, <1>5, <2>2, ZenonT(40) DEF FlowsTo, Flow
  <2>4. QED
    BY <1>2, <2>3 DEF Ordered, Flows
<1>7. OneFlight
  BY <1>0, <1>1, <1>4, <1>5 DEF OneFlight, Agree, Handshake
<1>8. OutPulled /\ DroppedEmpty /\ CleanEofIsComplete
  BY <1>1 DEF OutPulled, DroppedEmpty, CleanEofIsComplete
<1>9. QED
  BY <1>6, <1>7, <1>8 DEF Stream

\* Every step keeps Stream when writes fit.
LEMMA StreamStep == WritesFit /\ Control /\ Stream /\ [Next]_vars => Stream'
<1> SUFFICES ASSUME WritesFit, Control, Stream, [Next]_vars PROVE Stream'
  OBVIOUS
<1>1. CASE UNCHANGED vars
  <2>1. /\ UNCHANGED <<conn, read_buf, write_buf, write_pos, wire, dropped, op, written, got, ended>>
    BY <1>1 DEF vars, buffers, link, call, history
  <2>2. \A f \in Ends : Coming(f)' = Coming(f)
    BY <2>1 DEF Coming, Arrived, Leaving, Unsent
  <2>3. Ordered' /\ OneFlight'
    BY <2>1, <2>2, SameKeeps DEF Stream
  <2>4. OutPulled' /\ DroppedEmpty' /\ CleanEofIsComplete'
    BY <2>1 DEF Stream, OutPulled, DroppedEmpty, CleanEofIsComplete, Alive
  <2>5. QED
    BY <2>3, <2>4 DEF Stream
<1>2. CASE Next
  <2>1. PICK e \in Ends :
          \/ Calls(e) \/ (Drops(e) /\ Control) \/ HandshakePull(e) \/ DrivePendingWrites(e)
          \/ HandshakeFeed(e) \/ ReadFeed(e) \/ HandshakeFetch(e) \/ ReadFetch(e)
          \/ PollFlushWriteBuf(e) \/ ReadPlaintext(e) \/ WriteAccept(e) \/ Shutdown(e) \/ ~Control
    BY <1>2, Steps
  <2>2. QED
    BY <2>1, QuietStream, DropsStream, PullStream, FeedStream, FetchStream, ReadFetchStream, PollFlushStream,
       ReadPlaintextStream, WriteAcceptStream, ShutdownStream
<1>3. QED
  BY <1>1, <1>2

-----------------------------------------------------------------------------
\* The data of a stream is its plaintext.
LEMMA DataOfMarked ==
  ASSUME NEW p \in Seq(1..MaxData), NEW b \in BOOLEAN
  PROVE  OfKind({"data"}, Marked(p, b)) = Plain(p)
<1>1. Plain(p) \in Seq(Records) /\ Len(Plain(p)) = Len(p) /\ \A i \in 1..Len(p) : Plain(p)[i] = Data(p[i])
  BY PlainFacts
<1> DEFINE a == Plain(p)
<1>2. \A i \in 1..Len(a) : a[i].kind \in {"data"}
  BY <1>1, KindFacts
<1>3. OfKind({"data"}, a) = a
  <2> HIDE DEF a
  <2> QED BY <1>1, <1>2, OfKindAll DEF a
<1>4. CASE b
  <2>1. Marked(p, b) = a \o <<Notify>>
    BY <1>4, MarkedFacts
  <2>2. Notify \in Records /\ Notify.kind \notin {"data"}
    BY RecordFacts, KindFacts
  <2> HIDE DEF a
  <2>3. OfKind({"data"}, a \o <<Notify>>) = OfKind({"data"}, a)
    BY <1>1, <2>2, KindConcat DEF a
  <2>4. QED
    BY <1>3, <2>1, <2>3 DEF a
<1>5. CASE ~b
  BY <1>3, <1>5, MarkedFacts
<1>6. QED
  BY <1>4, <1>5

\* From records to plaintext.
LEMMA FlowIsPlaintext ==
  ASSUME NEW q \in Seq(1..MaxData), NEW s \in Seq(Records), NEW n \in 0..MaxData,
         NEW a \in BOOLEAN, NEW b \in BOOLEAN,
         Marked(q, a) \o OfKind(StreamKinds, s) = Marked(Identity(n), b)
  PROVE  q \o Plaintext(s) = Identity(n)
<1> DEFINE x == Marked(q, a)
           t == OfKind(StreamKinds, s)
           d == OfKind({"data"}, s)
           i0 == Identity(n)
           l == Plain(q)
<1>1. x \in Seq(Records) /\ t \in Seq(Records) /\ d \in Seq(Records)
  BY MarkedFacts, OfKindType
<1>2. i0 \in Seq(1..MaxData) /\ Len(i0) = n /\ \A i \in 1..n : i0[i] = i
  BY IdentityFacts
<1>3. OfKind({"data"}, x) = l
  BY DataOfMarked
<1>4. OfKind({"data"}, t) = d
  <2>1. {"data"} \subseteq StreamKinds
    BY DEF StreamKinds
  <2>2. QED
    BY <2>1, OfKindTwice
<1>5. OfKind({"data"}, x \o t) = l \o d
  <2>1. \A u, v \in Seq(Records) : OfKind({"data"}, u \o v) = OfKind({"data"}, u) \o OfKind({"data"}, v)
    BY KindsConcat, Zenon
  <2> HIDE DEF x, t, d, l
  <2>2. OfKind({"data"}, x \o t) = OfKind({"data"}, x) \o OfKind({"data"}, t)
    BY <1>1, <2>1, Zenon
  <2>3. QED
    BY <1>3, <1>4, <2>2
<1>6. OfKind({"data"}, Marked(i0, b)) = Plain(i0)
  <2> HIDE DEF i0
  <2> QED BY <1>2, DataOfMarked
<1>7. l \o d = Plain(i0)
  BY <1>5, <1>6
<1>8. l \in Seq(Records) /\ Len(l) = Len(q) /\ \A i \in 1..Len(q) : l[i] = Data(q[i])
  BY PlainFacts
<1>9. Plain(i0) \in Seq(Records) /\ Len(Plain(i0)) = n /\ \A i \in 1..n : Plain(i0)[i] = Data(i)
  <2> HIDE DEF i0
  <2> QED BY <1>2, PlainFacts
<1> DEFINE f == Plaintext(s)
<1>10. Plaintext(s) = [i \in 1..Len(d) |-> d[i].n]
  BY DEF Plaintext
<1> HIDE DEF x, t, d, l
<1>11. /\ Len(l \o d) = Len(q) + Len(d) /\ Len(q) \in Nat /\ Len(d) \in Nat
       /\ (\A i \in 1..Len(q) : (l \o d)[i] = l[i])
       /\ \A i \in 1..Len(d) : (l \o d)[Len(q) + i] = d[i]
  <2>1. l \in Seq(Records) /\ d \in Seq(Records)
    BY <1>1, <1>8
  <2>2. /\ Len(l \o d) = Len(l) + Len(d) /\ Len(l) \in Nat /\ Len(d) \in Nat
        /\ (\A i \in 1..Len(l) : (l \o d)[i] = l[i])
        /\ \A i \in 1..Len(d) : (l \o d)[Len(l) + i] = d[i]
    BY <2>1, ConcatElements
  <2>3. QED
    BY <1>8, <2>2
<1>12. n = Len(q) + Len(d) /\ \A i \in 1..n : (l \o d)[i] = Data(i)
  BY <1>7, <1>9, <1>11
<1>13. ASSUME NEW i \in 1..Len(d) PROVE d[i].n = Len(q) + i /\ Len(q) + i \in 1..MaxData
  <2>1. Len(q) + i \in 1..n /\ n \in Nat /\ MaxData \in Nat
    BY <1>11, <1>12, TlsAssumption
  <2>2. d[i] = Data(Len(q) + i)
    BY <1>11, <1>12, <2>1
  <2>3. QED
    BY <2>1, <2>2, KindFacts
<1>14. ASSUME NEW i \in 1..Len(q) PROVE q[i] = i
  <2>1. i \in 1..n
    BY <1>11, <1>12
  <2>2. Data(q[i]) = Data(i)
    BY <1>8, <1>11, <1>12, <2>1
  <2>3. QED
    BY <2>2, KindFacts, SMTT(30)
<1>15. /\ f \in Seq(1..MaxData) /\ Len(f) = Len(d) /\ \A i \in 1..Len(d) : f[i] = Len(q) + i
  BY <1>10, <1>11, <1>13
<1> HIDE DEF f
<1> DEFINE z == q \o f
<1>16. /\ z \in Seq(1..MaxData) /\ Len(z) = Len(q) + Len(f)
       /\ (\A i \in 1..Len(q) : z[i] = q[i])
       /\ \A i \in 1..Len(f) : z[Len(q) + i] = f[i]
  <2>1. f \in Seq(1..MaxData)
    BY <1>15
  <2>2. QED
    BY <2>1, ConcatElements
<1> HIDE DEF z
<1>17. ASSUME NEW i \in 1..n PROVE z[i] = i0[i]
  <2>1. CASE i <= Len(q)
    <3>1. i \in 1..Len(q)
      BY <1>11, <2>1
    <3>2. z[i] = q[i] /\ q[i] = i
      BY <1>14, <1>16, <3>1
    <3>3. i0[i] = i
      BY <1>2
    <3>4. QED
      BY <3>2, <3>3
  <2>2. CASE i > Len(q)
    <3> DEFINE j == i - Len(q)
    <3>1. j \in 1..Len(d) /\ i = Len(q) + j
      BY <1>11, <1>12, <2>2
    <3> HIDE DEF j
    <3>2. QED
      BY <1>2, <1>15, <1>16, <3>1
  <2>3. QED
    BY <1>11, <2>1, <2>2
<1>18. z = i0
  <2>1. Len(z) = n
    BY <1>12, <1>15, <1>16
  <2> HIDE DEF i0
  <2>2. QED
    BY <1>2, <1>16, <1>17, <2>1, SeqEqual
<1>19. QED
  BY <1>18 DEF z, f

\* The invariant says that plaintext is conserved.
LEMMA StreamConserves == Control /\ Stream => PlaintextConserved
<1> SUFFICES ASSUME Control, Stream PROVE PlaintextConserved
  OBVIOUS
<1>1. TypeOK
  BY DEF Control
<1>2. ASSUME NEW e \in Ends, ~dropped[e], ~dropped[Peer(e)]
      PROVE  got[e] \o conn[e].plain
               \o Plaintext(read_buf[e] \o wire[e] \o Unsent(Peer(e)) \o conn[Peer(e)].out)
               = [i \in 1..written[Peer(e)] |-> i]
  <2> DEFINE p == Peer(e)
             q == got[e] \o conn[e].plain
             s == Coming(e)
  <2>0. p \in Ends
    BY PeerFacts
  <2>1. /\ got[e] \in Seq(1..MaxData) /\ conn[e].plain \in Seq(1..MaxData) /\ conn[e].peer_closed \in BOOLEAN
        /\ written[p] \in 0..MaxData /\ conn[p].notified \in BOOLEAN
        /\ read_buf[e] \in Seq(Records) /\ wire[e] \in Seq(Records) /\ conn[p].out \in Seq(Records)
        /\ Unsent(p) \in Seq(Records) /\ s \in Seq(Records) /\ Arrived(e) \in Seq(Records)
        /\ OfKind(StreamKinds, s) \in Seq(Records)
    BY <1>1, <2>0, EndTypes, ComingTypes
  <2>2. q \in Seq(1..MaxData)
    BY <2>1, PlainConcat
  <2>3. s = read_buf[e] \o wire[e] \o Unsent(p) \o conn[p].out
    <3> DEFINE a == Arrived(e)
               u == Unsent(p)
               o == conn[p].out
    <3>1. s = a \o (u \o o)
      BY <1>2 DEF Coming, Leaving
    <3>2. a \in Seq(Records) /\ u \in Seq(Records) /\ o \in Seq(Records)
      BY <2>1
    <3> HIDE DEF a, u, o
    <3>3. (a \o u) \o o = a \o (u \o o)
      BY <3>2, Join, Zenon
    <3> HIDE DEF s
    <3>4. s = (a \o u) \o o
      BY <3>1, <3>3
    <3>5. QED
      BY <3>4 DEF a, u, o, Arrived
  <2>4. Marked(q, conn[e].peer_closed) \o OfKind(StreamKinds, s)
          = Marked(Identity(written[p]), conn[p].notified)
    <3>1. Flows(e)
      BY <1>2 DEF Stream, Ordered
    <3>2. FlowsTo(e, <<>>)
      BY <1>2, <3>1 DEF Flows
    <3>3. OfKind(StreamKinds, s) \o <<>> = OfKind(StreamKinds, s)
      BY <2>1, RecordConcat
    <3>4. QED
      BY <3>2, <3>3 DEF FlowsTo, Flow
  <2> HIDE DEF q, s
  <2>5. q \o Plaintext(s) = Identity(written[p])
    <3> DEFINE n == written[p]
               a == conn[e].peer_closed
               b == conn[p].notified
    <3>1. n \in 0..MaxData /\ a \in BOOLEAN /\ b \in BOOLEAN /\ s \in Seq(Records)
          /\ Marked(q, a) \o OfKind(StreamKinds, s) = Marked(Identity(n), b)
      BY <2>1, <2>4
    <3> HIDE DEF n, a, b
    <3>2. q \o Plaintext(s) = Identity(n)
      BY <2>2, <3>1, FlowIsPlaintext
    <3>3. QED
      BY <3>2 DEF n
  <2>6. QED
    BY <2>3, <2>5 DEF q, Identity
<1>3. QED
  BY <1>1, <1>2 DEF PlaintextConserved

-----------------------------------------------------------------------------
\* Both ends keep their types: the transport never holds more than its
\* capacity, write_pos stays within write_buf and a buffer that is sent is
\* cleared, for writes of any length.
THEOREM TlsTypes == Spec => []TypeOK
<1>1. Control => TypeOK
  BY DEF Control
<1>2. QED
  BY <1>1, InitControl, ControlStep, PTL DEF Spec

\* Everything that poll_write of a TlsStream reports as written is read,
\* decrypted, or ciphertext between the two ends, once each and in order,
\* while both streams exist.
THEOREM PlaintextIsConserved == WritesFit /\ Spec => []PlaintextConserved
<1> SUFFICES ASSUME WritesFit PROVE Spec => []PlaintextConserved
  OBVIOUS
<1>1. Control /\ Stream /\ [Next]_vars => Stream'
  BY StreamStep
<1>2. QED
  BY <1>1, InitControl, ControlStep, InitStream, StreamConserves, PTL DEF Spec

\* When poll_read of a TlsStream reports a clean end, its peer has shut down
\* and all it ever wrote has been read, even if the peer has dropped its
\* stream since.
THEOREM EofIsComplete == WritesFit /\ Spec => []CleanEofIsComplete
<1> SUFFICES ASSUME WritesFit PROVE Spec => []CleanEofIsComplete
  OBVIOUS
<1>1. Control /\ Stream /\ [Next]_vars => Stream'
  BY StreamStep
<1>2. Stream => CleanEofIsComplete
  BY DEF Stream
<1>3. QED
  BY <1>1, <1>2, InitControl, ControlStep, InitStream, PTL DEF Spec
=============================================================================
