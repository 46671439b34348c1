---------------------------- MODULE WsOpeningProofs -------------------------
(***************************************************************************)
(* Proofs about WsOpening, for any requests, replies, messages, keys and   *)
(* bounds: how a request is split into reads does not decide what it is,   *)
(* our ends open with each other, messages come out as they went in, and   *)
(* nobody waits for bytes that have arrived.                               *)
(*                                                                         *)
(* The parts: where a head ends, in what has arrived of it (HttpHead); the *)
(* heads of the handshake, rendered and parsed, with their header lines    *)
(* and extensions; a frame, encoded and decoded, with its length bytes and *)
(* its mask (WsFrame); the chain of frames on its way to an end, with the  *)
(* compression contexts of both; and the inductive invariant WsInv, which  *)
(* says that what is on its way is such a chain behind the 101.            *)
(***************************************************************************)
EXTENDS WsOpening, ProofBasics, FiniteSetTheorems

\* A set of numbers that is not empty has a least, and Min is it.
LEMMA MinOf ==
  ASSUME NEW S, S \subseteq Nat, S # {}
  PROVE  Min(S) \in S /\ \A y \in S : Min(S) <= y
BY LeastNumber DEF Min

\* A least element is what Min is.
LEMMA MinIs ==
  ASSUME NEW S, S \subseteq Int, NEW x \in S, \A y \in S : x <= y
  PROVE  Min(S) = x
<1>1. \A z \in S : (\A y \in S : z <= y) => z = x
  OBVIOUS
<1>2. Min(S) \in S /\ \A y \in S : Min(S) <= y
  BY DEF Min
<1> QED BY <1>1, <1>2

\* A set of numbers up to n that is not empty has a greatest, and Max is it.
LEMMA MaxOf ==
  ASSUME NEW n \in Nat, NEW S, S \subseteq 0..n, S # {}
  PROVE  Max(S) \in S /\ \A y \in S : y <= Max(S)
<1> DEFINE T == {n - i : i \in S}
<1>1. T \subseteq Nat /\ T # {}
  <2>1. PICK x : x \in S
    OBVIOUS
  <2>2. n - x \in T
    BY <2>1
  <2>3. \A i \in S : n - i \in Nat
    OBVIOUS
  <2> QED BY <2>2, <2>3
<1>2. PICK t \in T : \A u \in T : t <= u
  <2> HIDE DEF T
  <2> QED BY <1>1, LeastNumber
<1>3. PICK x \in S : t = n - x
  OBVIOUS
<1>4. \A y \in S : y <= x
  <2> SUFFICES ASSUME NEW y \in S PROVE y <= x
    OBVIOUS
  <2>1. n - y \in T
    OBVIOUS
  <2>2. n - x <= n - y
    BY <1>2, <1>3, <2>1
  <2> QED BY <2>2
<1>5. \E z \in S : \A y \in S : z >= y
  BY <1>4
<1> QED BY <1>5 DEF Max

\* Two sequences are equal if their elements are; so two bytes and four in a
\* row are found one by one.
LEMMA PairIs ==
  ASSUME NEW S, NEW s \in Seq(S), Len(s) = 2, NEW x, NEW y
  PROVE  s = <<x, y>> <=> s[1] = x /\ s[2] = y
<1>1. ASSUME s[1] = x, s[2] = y PROVE s = <<x, y>>
  <2>1. x \in S /\ y \in S
    BY <1>1
  <2>2. <<x, y>> \in Seq(S) /\ Len(<<x, y>>) = 2 /\ \A i \in 1..2 : s[i] = <<x, y>>[i]
    BY <1>1, <2>1
  <2> QED BY <2>2, SeqEqual
<1> QED BY <1>1

\* Four bytes are equal one by one.
LEMMA FourAre ==
  ASSUME NEW s \in Seq(Nat), Len(s) = 4, NEW t \in Seq(Nat), Len(t) = 4
  PROVE  s = t <=> s[1] = t[1] /\ s[2] = t[2] /\ s[3] = t[3] /\ s[4] = t[4]
<1>1. ASSUME s[1] = t[1], s[2] = t[2], s[3] = t[3], s[4] = t[4] PROVE s = t
  <2>1. \A i \in 1..4 : s[i] = t[i]
    BY <1>1
  <2> QED BY <2>1, SeqEqual
<1> QED BY <1>1

\* HEADER_DELIM, byte by byte.
LEMMA Delimiter ==
  /\ HeaderDelim \in Seq(Nat) /\ Len(HeaderDelim) = 4
  /\ HeaderDelim[1] = CR /\ HeaderDelim[2] = LF /\ HeaderDelim[3] = CR /\ HeaderDelim[4] = LF
<1>1. CRLF \in Seq(Nat) /\ Len(CRLF) = 2 /\ CRLF[1] = CR /\ CRLF[2] = LF
  BY DEF CRLF, CR, LF
<1>2. HeaderDelim = CRLF \o CRLF
  BY DEF HeaderDelim
<1>3. PICK c \in Seq(Nat) : c = CRLF
  BY <1>1
<1>4. HeaderDelim = c \o c /\ Len(c) = 2 /\ c[1] = CR /\ c[2] = LF
  BY <1>1, <1>2, <1>3
<1>5. /\ c \o c \in Seq(Nat) /\ Len(c \o c) = 2 + 2 /\ (c \o c)[1] = c[1] /\ (c \o c)[2] = c[2]
      /\ (c \o c)[2 + 1] = c[1] /\ (c \o c)[2 + 2] = c[2]
  <2>1. /\ c \o c \in Seq(Nat) /\ Len(c \o c) = Len(c) + Len(c)
        /\ \A i \in 1..Len(c) : (c \o c)[i] = c[i]
        /\ \A i \in 1..Len(c) : (c \o c)[Len(c) + i] = c[i]
    BY ConcatElements
  <2> QED BY <1>4, <2>1
<1> QED BY <1>4, <1>5

\* Where HEADER_DELIM is, byte by byte.
LEMMA FourBytes ==
  ASSUME NEW b \in Seq(Nat), NEW i \in 1..(Len(b) - 3)
  PROVE  SubSeq(b, i, i + 3) = HeaderDelim
           <=> b[i] = CR /\ b[i + 1] = LF /\ b[i + 2] = CR /\ b[i + 3] = LF
<1>1. \A j \in i..(i + 3) : b[j] \in Nat
  OBVIOUS
<1> DEFINE c == SubSeq(b, i, i + 3)
<1>2. c \in Seq(Nat) /\ Len(c) = 4 /\ \A j \in 1..4 : c[j] = b[i + j - 1]
  <2>1. Len(c) = 4 /\ \A j \in 1..((i + 3) - i + 1) : c[j] = b[i + j - 1]
    BY <1>1, SubSeqProperties
  <2> QED BY <1>1, <2>1, SubSeqProperties
<1> HIDE DEF c
<1>3. c[1] = b[i] /\ c[2] = b[i + 1] /\ c[3] = b[i + 2] /\ c[4] = b[i + 3]
  BY <1>2
<1>4. c = HeaderDelim <=> c[1] = CR /\ c[2] = LF /\ c[3] = CR /\ c[4] = LF
  <2>1. PICK d \in Seq(Nat) : d = HeaderDelim
    BY Delimiter
  <2>2. Len(d) = 4 /\ d[1] = CR /\ d[2] = LF /\ d[3] = CR /\ d[4] = LF
    BY <2>1, Delimiter
  <2>3. c = d <=> c[1] = d[1] /\ c[2] = d[2] /\ c[3] = d[3] /\ c[4] = d[4]
    BY <1>2, <2>2, FourAre
  <2> QED BY <2>1, <2>2, <2>3
<1> QED BY <1>3, <1>4 DEF c

\* Where such bytes are in a buffer.
LEMMA FindTwo ==
  ASSUME NEW b \in Seq(Nat), NEW x, NEW y
  PROVE  Occurrences(b, <<x, y>>) = {i \in 1..(Len(b) - 1) : b[i] = x /\ b[i + 1] = y}
<1>1. Len(<<x, y>>) = 2
  OBVIOUS
<1>2. Occurrences(b, <<x, y>>) = {i \in 1..(Len(b) - 1) : SubSeq(b, i, i + 1) = <<x, y>>}
  BY <1>1 DEF Occurrences
<1>3. ASSUME NEW i \in 1..(Len(b) - 1)
      PROVE  SubSeq(b, i, i + 1) = <<x, y>> <=> b[i] = x /\ b[i + 1] = y
  <2>1. \A j \in i..(i + 1) : b[j] \in Nat
    OBVIOUS
  <2> DEFINE c == SubSeq(b, i, i + 1)
  <2>2. c \in Seq(Nat) /\ Len(c) = 2 /\ c[1] = b[i] /\ c[2] = b[i + 1]
    BY <2>1, SubSeqProperties
  <2> HIDE DEF c
  <2>3. c = <<x, y>> <=> c[1] = x /\ c[2] = y
    BY <2>2, PairIs
  <2> QED BY <2>2, <2>3 DEF c
<1> QED BY <1>2, <1>3

\* Where HEADER_DELIM is in a buffer.
Delims(b) == {i \in 1..(Len(b) - 3) : b[i] = CR /\ b[i + 1] = LF /\ b[i + 2] = CR /\ b[i + 3] = LF}
\* That is where find_head_end finds it, and where the heads end.
LEMMA FindDelim ==
  ASSUME NEW b \in Seq(Nat)
  PROVE  /\ Occurrences(b, HeaderDelim) = Delims(b)
         /\ HeadEnds(b) = {i + 3 : i \in Delims(b)}
<1>0. Len(HeaderDelim) = 4
  BY Delimiter
<1>1. Occurrences(b, HeaderDelim) = {i \in 1..(Len(b) - 3) : SubSeq(b, i, i + 3) = HeaderDelim}
  BY <1>0 DEF Occurrences
<1>2. Occurrences(b, HeaderDelim) = Delims(b)
  BY <1>1, FourBytes DEF Delims
<1>3. HeadEnds(b) = {i \in 4..Len(b) : SubSeq(b, i - 3, i) = HeaderDelim}
  BY DEF HeadEnds
<1>4. \A i \in 4..Len(b) : i - 3 \in 1..(Len(b) - 3) /\ (i - 3) + 3 = i /\ SubSeq(b, i - 3, (i - 3) + 3) = SubSeq(b, i - 3, i)
  OBVIOUS
<1>5. \A i \in 4..Len(b) : i \in HeadEnds(b) <=> i - 3 \in Delims(b)
  BY <1>1, <1>2, <1>3, <1>4
<1>6. \A i \in Delims(b) : i \in Nat /\ i + 3 \in 4..Len(b) /\ (i + 3) - 3 = i
  BY DEF Delims
<1>7. HeadEnds(b) \subseteq 4..Len(b)
  BY <1>3
<1> HIDE DEF Delims
<1> QED BY <1>2, <1>5, <1>6, <1>7, <1>4

-----------------------------------------------------------------------------
\* b is the beginning of s that has arrived.
Begins(b, s) == Len(b) <= Len(s) /\ \A i \in 1..Len(b) : b[i] = s[i]

\* Cut after the k-th byte, a buffer and what it is the beginning of are the same.
LEMMA SameCut ==
  ASSUME NEW b \in Seq(Nat), NEW s \in Seq(Nat), Begins(b, s), NEW k \in 0..Len(b)
  PROVE  SubSeq(b, 1, k) = SubSeq(s, 1, k) /\ SubSeq(b, 1, k) \in Seq(Nat)
<1> DEFINE c == SubSeq(b, 1, k)
           d == SubSeq(s, 1, k)
<1>1. k \in 0..Len(s) /\ \A i \in 1..k : b[i] = s[i]
  BY DEF Begins
<1>2. c \in Seq(Nat) /\ Len(c) = k /\ \A i \in 1..k : c[i] = b[i]
  BY CutSeq
<1>3. d \in Seq(Nat) /\ Len(d) = k /\ \A i \in 1..k : d[i] = s[i]
  BY <1>1, CutSeq
<1> HIDE DEF c, d
<1>4. \A i \in 1..Len(c) : c[i] = d[i]
  BY <1>1, <1>2, <1>3
<1>5. c = d
  BY <1>2, <1>3, <1>4, SeqEqual
<1> QED BY <1>2, <1>5 DEF c, d

\* When no less has arrived than was sent, all of it has.
LEMMA WholeBegins ==
  ASSUME NEW b \in Seq(Nat), NEW s \in Seq(Nat), Begins(b, s), Len(s) <= Len(b)
  PROVE  b = s
<1>1. Len(b) \in Nat /\ Len(s) \in Nat
  OBVIOUS
<1>2. Len(b) = Len(s) /\ \A i \in 1..Len(b) : b[i] = s[i]
  BY <1>1, SMTT(25) DEF Begins
<1> QED BY <1>2, SeqEqual

\* A head that ends in the beginning ends there in the whole.
LEMMA BeginsDelims ==
  ASSUME NEW b \in Seq(Nat), NEW s \in Seq(Nat), Begins(b, s)
  PROVE  Delims(b) = {i \in Delims(s) : i <= Len(b) - 3}
<1>1. Len(b) \in Nat /\ Len(s) \in Nat /\ Len(b) <= Len(s) /\ \A i \in 1..Len(b) : b[i] = s[i]
  BY DEF Begins
<1>2. ASSUME NEW i \in 1..(Len(b) - 3)
      PROVE  b[i] = s[i] /\ b[i + 1] = s[i + 1] /\ b[i + 2] = s[i + 2] /\ b[i + 3] = s[i + 3]
  <2>1. i \in 1..Len(b) /\ i + 1 \in 1..Len(b) /\ i + 2 \in 1..Len(b) /\ i + 3 \in 1..Len(b)
    BY <1>1
  <2> QED BY <1>1, <2>1
<1>3. \A i : i \in Delims(b) <=> i \in Delims(s) /\ i <= Len(b) - 3
  <2>1. \A i : i \in 1..(Len(b) - 3) <=> i \in 1..(Len(s) - 3) /\ i <= Len(b) - 3
    BY <1>1
  <2> QED BY <1>2, <2>1 DEF Delims
<1> QED BY <1>3

\* A fold, byte by byte.
FoldsAt(s, i) == s[i] = LF /\ s[i + 1] \in {SP, HT}
\* find_head_end finds such folds.
LEMMA FoldedIs ==
  ASSUME NEW s \in Seq(Nat)
  PROVE  Folded(s) <=> \E i \in 1..(Len(s) - 1) : FoldsAt(s, i)
<1>1. /\ Occurrences(s, <<LF, SP>>) = {i \in 1..(Len(s) - 1) : s[i] = LF /\ s[i + 1] = SP}
      /\ Occurrences(s, <<LF, HT>>) = {i \in 1..(Len(s) - 1) : s[i] = LF /\ s[i + 1] = HT}
  BY FindTwo, SMTT(25)
<1> QED BY <1>1 DEF Folded, FoldsAt

\* What is folded when it arrives is folded in the whole.
LEMMA FoldedBegins ==
  ASSUME NEW b \in Seq(Nat), NEW s \in Seq(Nat), Begins(b, s), Folded(b)
  PROVE  Folded(s)
<1>1. PICK i \in 1..(Len(b) - 1) : FoldsAt(b, i)
  BY FoldedIs
<1>2. Len(b) \in Nat /\ Len(s) \in Nat /\ Len(b) <= Len(s) /\ \A j \in 1..Len(b) : b[j] = s[j]
  BY DEF Begins
<1>3. i \in 1..Len(b) /\ i + 1 \in 1..Len(b) /\ i \in 1..(Len(s) - 1)
  BY <1>1, <1>2
<1>4. b[i] = s[i] /\ b[i + 1] = s[i + 1]
  BY <1>2, <1>3
<1>5. FoldsAt(s, i)
  BY <1>1, <1>4 DEF FoldsAt
<1> QED BY <1>3, <1>5, FoldedIs

\* A cut leaves a beginning.
LEMMA CutBegins ==
  ASSUME NEW b \in Seq(Nat), NEW k \in 0..Len(b)
  PROVE  SubSeq(b, 1, k) \in Seq(Nat) /\ Begins(SubSeq(b, 1, k), b)
<1> DEFINE c == SubSeq(b, 1, k)
<1>1. c \in Seq(Nat) /\ Len(c) = k /\ \A i \in 1..k : c[i] = b[i]
  BY CutSeq
<1> HIDE DEF c
<1>2. Begins(c, b)
  BY <1>1 DEF Begins
<1> QED BY <1>1, <1>2 DEF c

\* A beginning of a beginning is one.
LEMMA BeginsChain ==
  ASSUME NEW a \in Seq(Nat), NEW b \in Seq(Nat), NEW s \in Seq(Nat), Begins(a, b), Begins(b, s)
  PROVE  Begins(a, s)
<1>1. Len(a) <= Len(b) /\ Len(b) <= Len(s) /\ Len(a) \in Nat /\ Len(b) \in Nat /\ Len(s) \in Nat
  BY DEF Begins
<1>2. ASSUME NEW i \in 1..Len(a) PROVE a[i] = s[i]
  <2>1. i \in 1..Len(b)
    BY <1>1
  <2>2. a[i] = b[i]
    BY DEF Begins
  <2>3. b[i] = s[i]
    BY <2>1 DEF Begins
  <2> QED BY <2>2, <2>3
<1> QED BY <1>1, <1>2 DEF Begins

-----------------------------------------------------------------------------
\* What the parser makes of a buffer in which the first head ends at m.
LEMMA HeadDone ==
  ASSUME NEW b \in Seq(Nat), NEW m \in Delims(b), \A d \in Delims(b) : m <= d, NEW isResponse
  PROVE  ParseHead(b, isResponse) =
           IF Len(b) > MaxHead \/ Folded(SubSeq(b, 1, m - 1)) THEN Malformed
           ELSE ParseLines(SubSeq(b, 1, m - 1), isResponse)
<1>1. Occurrences(b, HeaderDelim) = Delims(b) /\ Delims(b) # {} /\ Delims(b) \subseteq Int
  <2>1. Delims(b) \subseteq Int
    BY DEF Delims
  <2> QED BY <2>1, FindDelim
<1>2. Min(Occurrences(b, HeaderDelim)) = m
  BY <1>1, MinIs
<1>3. Scanned(b) = SubSeq(b, 1, m - 1)
  BY <1>1, <1>2 DEF Scanned
<1>4. FindHeadEnd(b) = IF Len(b) > MaxHead \/ Folded(SubSeq(b, 1, m - 1)) THEN Malformed
                       ELSE [kind |-> "end", at |-> m - 1]
  BY <1>1, <1>2, <1>3 DEF FindHeadEnd
<1> QED BY <1>4 DEF ParseHead, Malformed

\* What it makes of one in which none ends: it needs more, unless the limit is
\* reached or a line is folded.
LEMMA HeadOpen ==
  ASSUME NEW b \in Seq(Nat), Delims(b) = {}, NEW isResponse
  PROVE  /\ ParseHead(b, isResponse) \in {Incomplete, Malformed}
         /\ ParseHead(b, isResponse) = Malformed => Len(b) > MaxHead \/ Folded(b)
<1>1. Occurrences(b, HeaderDelim) = {}
  BY FindDelim
<1>2. ParseHead(b, isResponse) = IF Len(b) > MaxHead \/ Folded(Scanned(b)) THEN Malformed ELSE Incomplete
  BY <1>1 DEF ParseHead, FindHeadEnd, Malformed, Incomplete
<1>3. ASSUME Folded(Scanned(b)) PROVE Folded(b)
  <2> DEFINE lines == Occurrences(b, CRLF)
  <2>1. CASE lines = {}
    <3>1. Scanned(b) = <<>>
      BY <1>1, <2>1 DEF Scanned
    <3>2. ~Folded(<<>>)
      <4>0. <<>> \in Seq(Nat)
        OBVIOUS
      <4>1. PICK e \in Seq(Nat) : e = <<>>
        BY <4>0
      <4>2. Len(e) = 0
        BY <4>1
      <4>3. 1..(Len(e) - 1) = {}
        BY <4>2
      <4> QED BY <4>1, <4>3, FoldedIs
    <3> QED BY <1>3, <3>1, <3>2
  <2>2. CASE lines # {}
    <3>1. lines \subseteq 1..(Len(b) - 1)
      <4>1. CRLF = <<CR, LF>>
        BY DEF CRLF
      <4> QED BY <4>1, FindTwo
    <3>2. Max(lines) \in lines
      <4>1. Len(b) \in Nat /\ lines \subseteq 0..Len(b)
        BY <3>1
      <4> HIDE DEF lines
      <4> QED BY <2>2, <4>1, MaxOf
    <3>3. Scanned(b) = SubSeq(b, 1, Max(lines) - 1) /\ Max(lines) - 1 \in 0..Len(b)
      BY <1>1, <2>2, <3>1, <3>2 DEF Scanned
    <3>4. PICK k \in 0..Len(b) : k = Max(lines) - 1
      BY <3>3
    <3>5. Folded(SubSeq(b, 1, k)) /\ SubSeq(b, 1, k) \in Seq(Nat) /\ Begins(SubSeq(b, 1, k), b)
      BY <1>3, <3>3, <3>4, CutBegins
    <3> QED BY <3>5, FoldedBegins
  <2> QED BY <2>1, <2>2
<1>4. Incomplete # Malformed
  BY DEF Incomplete, Malformed
<1> QED BY <1>2, <1>3, <1>4

\* The bytes of a request decide what it is, however they arrive.
LEMMA ReadsDecideNothing ==
  ASSUME NEW s \in Seq(Nat), HeadEnds(s) \subseteq {Len(s)}, NEW b \in Seq(Nat), Begins(b, s),
         NEW isResponse, ParseHead(b, isResponse) # Incomplete
  PROVE  \/ ParseHead(b, isResponse) = Alone(s, isResponse)
         \/ ParseHead(b, isResponse) = Malformed /\ (Folded(s) \/ Endless(s))
<1>1. ASSUME HeadEnds(s) # {} PROVE Alone(s, isResponse) = ParseHead(s, isResponse)
  <2>1. HeadEnds(s) = {Len(s)} /\ Len(s) \in Nat
    BY <1>1
  <2>2. (CHOOSE i \in HeadEnds(s) : \A j \in HeadEnds(s) : i <= j) = Len(s)
    BY <2>1
  <2>3. SubSeq(s, 1, Len(s)) = s
    BY SubSeqFull
  <2> QED BY <1>1, <2>2, <2>3 DEF Alone
<1>2. CASE Delims(b) = {}
  <2>1. ParseHead(b, isResponse) = Malformed /\ (Len(b) > MaxHead \/ Folded(b))
    BY <1>2, HeadOpen
  <2>2. CASE Folded(b)
    BY <2>1, <2>2, FoldedBegins
  <2>3. CASE Len(b) > MaxHead
    <3>1. Len(s) > MaxHead
      BY <2>3, HttpHeadAssumption DEF Begins
    <3>2. ASSUME HeadEnds(s) # {} PROVE Alone(s, isResponse) = Malformed
      <4>1. ParseHead(s, isResponse) = Malformed
        BY <3>1 DEF ParseHead, FindHeadEnd, Malformed
      <4> QED BY <1>1, <3>2, <4>1
    <3> QED BY <2>1, <3>1, <3>2 DEF Endless
  <2> QED BY <2>1, <2>2, <2>3
<1>3. CASE Delims(b) # {}
  <2>1. PICK d : d \in Delims(b)
    BY <1>3
  <2>2. d \in Delims(s) /\ d <= Len(b) - 3 /\ d \in Nat
    <3>1. d \in {i \in Delims(s) : i <= Len(b) - 3}
      BY <2>1, BeginsDelims
    <3>2. Delims(s) \subseteq Nat
      BY DEF Delims
    <3> QED BY <3>1, <3>2
  <2>3. d + 3 \in HeadEnds(s)
    BY <2>2, FindDelim
  <2>4. d + 3 = Len(s)
    BY <2>3
  <2>5. b = s
    BY <2>2, <2>4, WholeBegins
  <2> QED BY <1>1, <2>3, <2>5
<1> QED BY <1>2, <1>3

\* An answer is seen as it is when it has arrived, whatever is behind it, and
\* not before; the limit and a fold aside.
LEMMA AnswerArrives ==
  ASSUME NEW r \in Seq(Nat), HeadEnds(r) = {Len(r)}, NEW w \in Seq(Nat),
         NEW b \in Seq(Nat), Begins(b, r \o w), NEW isResponse
  PROVE  /\ Len(r) <= Len(b) => ParseHead(b, isResponse) # Incomplete
         /\ Len(b) < Len(r) /\ Len(b) <= MaxHead /\ ~Folded(r) => ParseHead(b, isResponse) = Incomplete
         /\ Len(r) <= Len(b) /\ Len(b) <= MaxHead => ParseHead(b, isResponse) = ParseHead(r, isResponse)
<1>1. /\ r \o w \in Seq(Nat) /\ Len(r \o w) = Len(r) + Len(w)
      /\ \A i \in 1..Len(r) : (r \o w)[i] = r[i]
  BY ConcatElements
<1>2. Len(r) \in Nat /\ Len(b) \in Nat /\ Len(r) - 3 \in Delims(r) /\ Delims(r) = {Len(r) - 3}
  <2>1. HeadEnds(r) = {i + 3 : i \in Delims(r)} /\ Delims(r) \subseteq Nat
    <3>1. Delims(r) \subseteq Nat
      BY DEF Delims
    <3> QED BY <3>1, FindDelim
  <2>2. PICK d \in Delims(r) : d + 3 = Len(r)
    BY <2>1
  <2>3. \A i \in Delims(r) : i \in Nat /\ i + 3 = Len(r)
    BY <2>1
  <2> QED BY <2>2, <2>3
<1>3. CASE Len(b) < Len(r)
  <2>1. Begins(b, r)
    BY <1>1, <1>3 DEF Begins
  <2>2. Delims(b) = {}
    BY <1>2, <1>3, <2>1, BeginsDelims
  <2>3. ~Folded(r) => ~Folded(b)
    BY <2>1, FoldedBegins
  <2> QED BY <1>2, <1>3, <2>2, <2>3, HeadOpen, HttpHeadAssumption
<1>4. CASE Len(r) <= Len(b)
  <2>1. Begins(r, b)
    <3>1. Begins(b, r \o w) /\ Len(r) \in Nat /\ Len(b) \in Nat
      OBVIOUS
    <3>2. \A i \in 1..Len(r) : b[i] = (r \o w)[i]
      BY <1>4, <3>1, SMTT(25) DEF Begins
    <3> QED BY <1>1, <1>4, <3>2 DEF Begins
  <2> DEFINE m == Len(r) - 3
  <2>2. Delims(r) = {i \in Delims(b) : i <= Len(r) - 3}
    BY <2>1, BeginsDelims
  <2>3. m \in Delims(b) /\ \A d \in Delims(b) : m <= d
    <3>1. Delims(b) \subseteq Int
      BY DEF Delims
    <3>2. \A d \in Delims(b) : d <= m => d = m
      BY <1>2, <2>2
    <3>3. m \in Delims(b) /\ m \in Int
      BY <1>2, <2>2
    <3> HIDE DEF m
    <3> QED BY <3>1, <3>2, <3>3
  <2>4. m - 1 \in 0..Len(r)
    BY <1>2 DEF Delims
  <2>5. SubSeq(r, 1, m - 1) = SubSeq(b, 1, m - 1)
    BY <2>1, <2>4, SameCut
  <2>6. m \in Delims(r) /\ \A d \in Delims(r) : m <= d
    BY <1>2
  <2> HIDE DEF m
  <2>7. ParseHead(b, isResponse) =
           IF Len(b) > MaxHead \/ Folded(SubSeq(b, 1, m - 1)) THEN Malformed
           ELSE ParseLines(SubSeq(b, 1, m - 1), isResponse)
    BY <2>3, HeadDone
  <2>8. ParseHead(r, isResponse) =
           IF Len(r) > MaxHead \/ Folded(SubSeq(r, 1, m - 1)) THEN Malformed
           ELSE ParseLines(SubSeq(r, 1, m - 1), isResponse)
    BY <2>6, HeadDone
  <2>9. ParseHead(b, isResponse) # Incomplete
    BY <2>7 DEF Malformed, Incomplete, ParseLines
  <2>10. Len(b) <= MaxHead => Len(r) <= MaxHead
    BY <1>2, <1>4, HttpHeadAssumption
  <2>11. Len(b) <= MaxHead => ParseHead(b, isResponse) = ParseHead(r, isResponse)
    <3>1. Len(b) <= MaxHead => ~(Len(b) > MaxHead) /\ ~(Len(r) > MaxHead)
      BY <1>2, <2>10, HttpHeadAssumption
    <3>2. PICK c : c = SubSeq(b, 1, m - 1)
      OBVIOUS
    <3>3. Len(b) <= MaxHead =>
            /\ ParseHead(b, isResponse) = IF Folded(c) THEN Malformed ELSE ParseLines(c, isResponse)
            /\ ParseHead(r, isResponse) = IF Folded(c) THEN Malformed ELSE ParseLines(c, isResponse)
      BY <2>5, <2>7, <2>8, <3>1, <3>2
    <3> QED BY <3>3
  <2> QED BY <1>2, <1>4, <2>9, <2>11
<1> QED BY <1>2, <1>3, <1>4

-----------------------------------------------------------------------------
\* A product of numbers is one.
LEMMA Product ==
  ASSUME NEW x \in Nat, NEW y \in Nat, NEW z \in Nat
  PROVE  x * y + z \in Nat
OBVIOUS

\* Quotients grow with what is divided.
LEMMA DivMonotone ==
  ASSUME NEW r \in Nat \ {0}, NEW x \in Nat, NEW y \in Nat, x <= y
  PROVE  x \div r <= y \div r
<1> DEFINE p == x \div r
           q == y \div r
<1>0. x = r * p + (x % r) /\ x % r \in 0..(r - 1) /\ p \in Nat
  BY DivMod
<1>5. y = r * q + (y % r) /\ y % r \in 0..(r - 1) /\ q \in Nat
  BY DivMod
<1>1. p \in Nat /\ q \in Nat /\ p * r <= x /\ y < q * r + r
  <2> DEFINE i == x % r
             j == y % r
  <2>1. x = r * p + i /\ i \in 0..(r - 1) /\ p \in Nat /\ y = r * q + j /\ j \in 0..(r - 1) /\ q \in Nat
    BY <1>0, <1>5
  <2> HIDE DEF i, j, p, q
  <2>2. r * p = p * r /\ r * q = q * r /\ p * r \in Nat /\ q * r \in Nat
    BY <2>1
  <2> QED BY <2>1, <2>2
<1> HIDE DEF p, q
<1>2. SUFFICES ASSUME q + 1 <= p PROVE FALSE
  BY <1>1 DEF p, q
<1>3. (q + 1) * r <= p * r
  BY <1>1, <1>2
<1>4. (q + 1) * r = q * r + r
  BY <1>1
<1> QED BY <1>1, <1>3, <1>4

\* Shift divides by the radix again and again.
LEMMA ShiftIs ==
  ASSUME NEW n \in Nat
  PROVE  /\ Shift(n, 0) = n /\ \A k \in 0..Wide : Shift(n, k) \in Nat
         /\ \A k \in 0..(Wide - 1) : Shift(n, k + 1) = Shift(n, k) \div Radix
<1>0. Wide \in Nat /\ Radix \in Nat \ {0}
  BY WsFrameAssumption
<1> DEFINE step == [p \in (1..Wide) \X Nat |-> p[2] \div Radix]
           f == CHOOSE g : g = [i \in 0..Wide |-> IF i = 0 THEN n ELSE g[i - 1] \div Radix]
<1>1. step \in [(1..Wide) \X Nat -> Nat]
  BY <1>0, DivMod
<1>2. PICK g : IsRun(g, Nat, Wide, n, step)
  <2> HIDE DEF step
  <2> QED BY <1>0, <1>1, Recursion
<1>3. g \in [0..Wide -> Nat] /\ g[0] = n /\ \A i \in 1..Wide : g[i] = g[i - 1] \div Radix
  <2>1. g \in [0..Wide -> Nat] /\ g[0] = n /\ \A i \in 1..Wide : g[i] = step[<<i, g[i - 1]>>]
    <3> HIDE DEF step
    <3> QED BY <1>2 DEF IsRun
  <2>2. ASSUME NEW i \in 1..Wide PROVE step[<<i, g[i - 1]>>] = g[i - 1] \div Radix
    <3>1. g[i - 1] \in Nat
      BY <1>0, <2>1
    <3>2. QED
      BY <3>1
  <2> HIDE DEF step
  <2>3. QED
    BY <2>1, <2>2
<1>4. g = [i \in 0..Wide |-> IF i = 0 THEN n ELSE g[i - 1] \div Radix]
  <2>1. g = [i \in 0..Wide |-> g[i]]
    BY <1>3
  <2>2. ASSUME NEW i \in 0..Wide PROVE g[i] = IF i = 0 THEN n ELSE g[i - 1] \div Radix
    <3>1. i = 0 \/ i \in 1..Wide
      BY <1>0
    <3>2. QED
      BY <1>3, <3>1
  <2>3. QED
    BY <2>1, <2>2
<1>5. f = [i \in 0..Wide |-> IF i = 0 THEN n ELSE f[i - 1] \div Radix]
  BY <1>4
<1> HIDE DEF f
<1>6. f[0] = n /\ \A k \in 0..(Wide - 1) : f[k + 1] = f[k] \div Radix
  <2>1. 0 \in 0..Wide
    BY <1>0
  <2>2. ASSUME NEW k \in 0..(Wide - 1) PROVE f[k + 1] = f[k] \div Radix
    <3>1. k + 1 \in 0..Wide /\ k + 1 # 0 /\ (k + 1) - 1 = k
      BY <1>0
    <3> QED BY <1>5, <3>1
  <2> QED BY <1>5, <2>1, <2>2
<1>7. \A k \in 0..Wide : f[k] \in Nat
  <2> DEFINE T == {k \in 0..Wide : f[k] \in Nat}
  <2>1. 0 \in T
    BY <1>0, <1>6
  <2>2. ASSUME NEW k \in 0..(Wide - 1), k \in T PROVE k + 1 \in T
    <3>1. f[k] \in Nat
      BY <2>2
    <3>2. f[k] \div Radix \in Nat
      BY <1>0, <3>1, DivMod
    <3> QED BY <1>0, <1>6, <3>2
  <2>3. 0..Wide \subseteq T
    <3> HIDE DEF T
    <3> QED BY <1>0, <2>1, <2>2, SetInduction
  <2> QED BY <2>3
<1>8. \A k : Shift(n, k) = f[k]
  BY DEF Shift, f
<1> QED BY <1>6, <1>7, <1>8

\* Shorter numbers have fewer digits.
LEMMA ShiftMonotone ==
  ASSUME NEW n \in Nat, NEW m \in Nat, n <= m
  PROVE  Shift(n, Wide) <= Shift(m, Wide)
<1>0. Wide \in Nat /\ Radix \in Nat \ {0}
  BY WsFrameAssumption
<1> DEFINE T == {k \in 0..Wide : Shift(n, k) <= Shift(m, k)}
<1>1. 0 \in T
  BY <1>0, ShiftIs
<1>2. ASSUME NEW k \in 0..(Wide - 1), k \in T PROVE k + 1 \in T
  <2>1. Shift(n, k) \in Nat /\ Shift(m, k) \in Nat
    BY <1>0, ShiftIs
  <2>2. Shift(n, k) \div Radix <= Shift(m, k) \div Radix
    BY <1>0, <1>2, <2>1, DivMonotone
  <2>3. Shift(n, k + 1) <= Shift(m, k + 1)
    BY <2>2, ShiftIs
  <2> QED BY <1>0, <2>3
<1>3. 0..Wide \subseteq T
  <2> HIDE DEF T
  <2> QED BY <1>0, <1>1, <1>2, SetInduction
<1> QED BY <1>0, <1>3

\* What FromBigEndian computes, digit by digit.
LEMMA DigitsIs ==
  ASSUME NEW s \in Seq(Nat)
  PROVE  \E f : /\ f \in [0..Len(s) -> Nat] /\ f[0] = 0 /\ FromBigEndian(s) = f[Len(s)]
                /\ \A i \in 1..Len(s) : f[i] = f[i - 1] * Radix + s[i]
<1>0. Len(s) \in Nat /\ Radix \in Nat
  BY WsFrameAssumption
<1> DEFINE n == Len(s)
           step == [p \in (1..n) \X Nat |-> p[2] * Radix + s[p[1]]]
           f == CHOOSE g : g = [i \in 0..n |-> IF i = 0 THEN 0 ELSE g[i - 1] * Radix + s[i]]
<1>1. step \in [(1..n) \X Nat -> Nat]
  <2>1. \A q \in (1..n) \X Nat : q[2] \in Nat /\ s[q[1]] \in Nat
    BY <1>0
  <2>2. \A q \in (1..n) \X Nat : q[2] * Radix + s[q[1]] \in Nat
    BY <1>0, <2>1, Product
  <2> QED BY <2>2
<1>2. PICK g : IsRun(g, Nat, n, 0, step)
  <2> HIDE DEF step
  <2> QED BY <1>0, <1>1, Recursion
<1>3. g \in [0..n -> Nat] /\ g[0] = 0 /\ \A i \in 1..n : g[i] = g[i - 1] * Radix + s[i]
  <2>1. g \in [0..n -> Nat] /\ g[0] = 0 /\ \A i \in 1..n : g[i] = step[<<i, g[i - 1]>>]
    <3> HIDE DEF step
    <3> QED BY <1>2 DEF IsRun
  <2>2. ASSUME NEW i \in 1..n PROVE step[<<i, g[i - 1]>>] = g[i - 1] * Radix + s[i]
    <3>1. g[i - 1] \in Nat
      BY <1>0, <2>1
    <3>2. QED
      BY <3>1
  <2> HIDE DEF step
  <2>3. QED
    BY <2>1, <2>2
<1>4. g = [i \in 0..n |-> IF i = 0 THEN 0 ELSE g[i - 1] * Radix + s[i]]
  <2>1. g = [i \in 0..n |-> g[i]]
    BY <1>3
  <2>2. ASSUME NEW i \in 0..n PROVE g[i] = IF i = 0 THEN 0 ELSE g[i - 1] * Radix + s[i]
    <3>1. i = 0 \/ i \in 1..n
      BY <1>0
    <3>2. QED
      BY <1>3, <3>1
  <2>3. QED
    BY <2>1, <2>2
<1>5. f = [i \in 0..n |-> IF i = 0 THEN 0 ELSE f[i - 1] * Radix + s[i]]
  BY <1>4
<1>6. FromBigEndian(s) = f[n]
  BY DEF FromBigEndian
<1> HIDE DEF f, n
<1>7. f[0] = 0 /\ \A i \in 1..n : f[i] = f[i - 1] * Radix + s[i]
  <2>1. 0 \in 0..n /\ \A i \in 1..n : i \in 0..n /\ i # 0
    BY <1>0 DEF n
  <2>2. QED
    BY <1>5, <2>1
<1>8. \A i \in 0..n : f[i] \in Nat
  <2> DEFINE T == {i \in 0..n : f[i] \in Nat}
  <2>0. n \in Nat /\ \A i \in 1..n : s[i] \in Nat
    BY DEF n
  <2>1. 0 \in T
    BY <1>7, <2>0
  <2>2. ASSUME NEW i \in 0..(n - 1), i \in T PROVE i + 1 \in T
    <3>1. i + 1 \in 1..n /\ (i + 1) - 1 = i /\ i + 1 \in 0..n
      BY <2>0
    <3>2. f[i + 1] = f[i] * Radix + s[i + 1]
      BY <1>7, <3>1
    <3>3. f[i] \in Nat /\ s[i + 1] \in Nat
      BY <2>0, <2>2, <3>1
    <3>4. f[i] * Radix + s[i + 1] \in Nat
      BY <1>0, <3>3, Product
    <3> QED BY <3>1, <3>2, <3>4
  <2>3. 0..n \subseteq T
    <3> HIDE DEF T
    <3> QED BY <2>0, <2>1, <2>2, SetInduction
  <2> QED BY <2>3
<1>9. f \in [0..n -> Nat]
  BY <1>5, <1>8
<1> QED BY <1>6, <1>7, <1>9 DEF n

\* A length comes out as it went in.
LEMMA LengthSurvives ==
  ASSUME NEW n \in Nat, NEW w \in 0..Wide, Shift(n, w) = 0
  PROVE  /\ BigEndian(n, w) \in Seq(Nat) /\ Len(BigEndian(n, w)) = w
         /\ FromBigEndian(BigEndian(n, w)) = n
<1>0. Wide \in Nat /\ Radix \in Nat \ {0} /\ w \in Nat
  BY WsFrameAssumption
<1> DEFINE be == BigEndian(n, w)
<1>1. be \in Seq(Nat) /\ Len(be) = w /\ \A i \in 1..w : be[i] = Shift(n, w - i) % Radix
  <2>1. be = [i \in 1..w |-> be[i]] /\ \A i \in 1..w : be[i] = Shift(n, w - i) % Radix
    BY DEF BigEndian
  <2>2. \A i \in 1..w : be[i] \in Nat
    <3>1. \A i \in 1..w : w - i \in 0..Wide
      BY <1>0
    <3> QED BY <1>0, <2>1, <3>1, ShiftIs, DivMod
  <2> HIDE DEF be
  <2> QED BY <1>0, <2>1, <2>2, MakeSeq
<1> HIDE DEF be
<1>2. PICK f : /\ f \in [0..w -> Nat] /\ f[0] = 0 /\ FromBigEndian(be) = f[w]
               /\ \A i \in 1..w : f[i] = f[i - 1] * Radix + be[i]
  BY <1>1, DigitsIs, ZenonT(40)
<1> DEFINE T == {i \in 0..w : f[i] = Shift(n, w - i)}
<1>3. 0 \in T
  BY <1>0, <1>2
<1>4. ASSUME NEW i \in 0..(w - 1), i \in T PROVE i + 1 \in T
  <2> DEFINE k == w - (i + 1)
             x == Shift(n, k)
  <2>1. k \in 0..(Wide - 1) /\ k + 1 = w - i /\ i + 1 \in 1..w /\ i + 1 \in 0..w /\ (i + 1) - 1 = i
    BY <1>0
  <2> HIDE DEF k
  <2>2. x \in Nat /\ Shift(n, k + 1) = x \div Radix
    BY <1>0, <2>1, ShiftIs
  <2>3. f[i] = x \div Radix
    BY <1>4, <2>1, <2>2
  <2>4. be[i + 1] = x % Radix
    BY <1>1, <2>1 DEF k
  <2>5. PICK q, r : q = x \div Radix /\ r = x % Radix
    OBVIOUS
  <2>6. x = Radix * q + r /\ q \in Nat /\ r \in Nat
    <3> HIDE DEF x
    <3>1. /\ x = Radix * (x \div Radix) + (x % Radix) /\ x % Radix \in 0..(Radix - 1)
          /\ x \div Radix \in Nat
      BY <1>0, <2>2, DivMod
    <3>2. 0..(Radix - 1) \subseteq Nat
      BY <1>0
    <3> QED BY <2>5, <3>1, <3>2
  <2>7. f[i + 1] = q * Radix + r
    <3>1. f[i + 1] = f[(i + 1) - 1] * Radix + be[i + 1]
      BY <1>2, <2>1
    <3>2. f[(i + 1) - 1] = q /\ be[i + 1] = r
      BY <2>1, <2>3, <2>4, <2>5
    <3> HIDE DEF x
    <3> QED BY <3>1, <3>2
  <2>8. f[i + 1] = x
    BY <1>0, <2>6, <2>7
  <2> QED BY <2>1, <2>8 DEF x, k
<1>5. 0..w \subseteq T
  <2> HIDE DEF T
  <2> QED BY <1>0, <1>3, <1>4, SetInduction
<1>6. f[w] = Shift(n, 0)
  BY <1>0, <1>5
<1> QED BY <1>1, <1>2, <1>6, ShiftIs DEF be

-----------------------------------------------------------------------------
\* What the recursion of Exclusive computes.
Pairs == [Nat \X Nat -> Nat]
Widen(g) == [p \in Nat \X Nat |-> 2 * g[<<p[1] \div 2, p[2] \div 2>>] + ((p[1] + p[2]) % 2)]

\* Widen maps functions on pairs to such functions.
LEMMA WidenType ==
  ASSUME NEW g \in Pairs
  PROVE  /\ Widen(g) \in Pairs
         /\ \A a, b \in Nat : Widen(g)[<<a, b>>] = 2 * g[<<a \div 2, b \div 2>>] + ((a + b) % 2)
<1>1. \A a, b \in Nat : g[<<a \div 2, b \div 2>>] \in Nat
  BY DEF Pairs
<1>2. ASSUME NEW a \in Nat, NEW b \in Nat
      PROVE  2 * g[<<a \div 2, b \div 2>>] + ((a + b) % 2) \in Nat
  <2>1. PICK x \in Nat : x = g[<<a \div 2, b \div 2>>]
    BY <1>1
  <2>2. 2 * x + ((a + b) % 2) \in Nat
    OBVIOUS
  <2> QED BY <2>1, <2>2
<1> QED BY <1>2 DEF Widen, Pairs

\* The exclusive or of w + 1 bits is Widen of that of w bits.
LEMMA ExclusiveIs ==
  /\ \A a, b \in Nat : Exclusive[0][<<a, b>>] = 0
  /\ \A w \in 0..Bits : Exclusive[w] \in Pairs
  /\ \A w \in 1..Bits : Exclusive[w] = Widen(Exclusive[w - 1])
<1> DEFINE zero == [p \in Nat \X Nat |-> 0]
           step == [p \in (1..Bits) \X Pairs |-> Widen(p[2])]
           body(g, w) == [p \in Nat \X Nat |->
                           IF w = 0 THEN 0
                           ELSE 2 * g[w - 1][<<p[1] \div 2, p[2] \div 2>>] + ((p[1] + p[2]) % 2)]
<1>0. Bits \in Nat /\ zero \in Pairs
  BY DEF Bits, Pairs
<1>1. step \in [(1..Bits) \X Pairs -> Pairs]
  BY WidenType
<1>2. PICK g : IsRun(g, Pairs, Bits, zero, step)
  <2> HIDE DEF step, zero
  <2> QED BY <1>0, <1>1, Recursion
<1>3. g \in [0..Bits -> Pairs] /\ g[0] = zero /\ \A i \in 1..Bits : g[i] = Widen(g[i - 1])
  <2>1. g \in [0..Bits -> Pairs] /\ g[0] = zero /\ \A i \in 1..Bits : g[i] = step[<<i, g[i - 1]>>]
    <3> HIDE DEF step
    <3> QED BY <1>2 DEF IsRun
  <2>2. ASSUME NEW i \in 1..Bits PROVE step[<<i, g[i - 1]>>] = Widen(g[i - 1])
    <3>1. g[i - 1] \in Pairs
      BY <1>0, <2>1
    <3>2. QED
      BY <3>1
  <2> HIDE DEF step
  <2>3. QED
    BY <2>1, <2>2
<1>4. g = [w \in 0..Bits |-> body(g, w)]
  <2>1. g = [w \in 0..Bits |-> g[w]]
    BY <1>3
  <2>2. ASSUME NEW w \in 0..Bits PROVE g[w] = body(g, w)
    <3>1. CASE w = 0
      BY <1>3, <3>1
    <3>2. CASE w \in 1..Bits
      <4>1. w # 0
        BY <1>0, <3>2
      <4> QED BY <1>3, <3>2, <4>1, ZenonT(40) DEF Widen
    <3>3. QED
      BY <1>0, <3>1, <3>2
  <2> HIDE DEF body
  <2>3. QED
    BY <2>1, <2>2
<1>5. Exclusive = CHOOSE f : f = [w \in 0..Bits |-> body(f, w)]
  BY DEF Exclusive
<1>6. Exclusive = [w \in 0..Bits |-> body(Exclusive, w)]
  <2> HIDE DEF body
  <2> QED BY <1>4, <1>5
<1>7. Exclusive[0] = zero
  <2>1. 0 \in 0..Bits
    BY <1>0
  <2> QED BY <1>6, <2>1
<1>8. ASSUME NEW w \in 1..Bits PROVE Exclusive[w] = Widen(Exclusive[w - 1])
  <2>1. w \in 0..Bits /\ w # 0
    BY <1>0
  <2> QED BY <1>6, <2>1, ZenonT(40) DEF Widen
<1> DEFINE T == {w \in 0..Bits : Exclusive[w] \in Pairs}
<1>9. 0 \in T
  BY <1>0, <1>7
<1>10. ASSUME NEW w \in 0..(Bits - 1), w \in T PROVE w + 1 \in T
  <2>1. w + 1 \in 1..Bits /\ w + 1 \in 0..Bits /\ (w + 1) - 1 = w
    BY <1>0
  <2> QED BY <1>8, <1>10, <2>1, WidenType
<1>11. 0..Bits \subseteq T
  <2> HIDE DEF T
  <2> QED BY <1>0, <1>9, <1>10, SetInduction
<1>12. \A a, b \in Nat : Exclusive[0][<<a, b>>] = 0
  BY <1>7
<1> QED BY <1>8, <1>11, <1>12

\* Twice the same number undoes it.
Undoes(w, a) == \A b \in Nat : Exclusive[w][<<Exclusive[w][<<a, b>>], b>>] = a

\* So for all numbers below c.
AllUndone(w, c) == \A a \in Nat : a < c => Undoes(w, a)

\* With a bit more, for twice as many.
LEMMA UndoesStep ==
  ASSUME NEW w \in 1..Bits, NEW c \in Nat, AllUndone(w - 1, c)
  PROVE  AllUndone(w, 2 * c)
<1> SUFFICES ASSUME NEW a \in Nat, a < 2 * c, NEW b \in Nat
             PROVE  Exclusive[w][<<Exclusive[w][<<a, b>>], b>>] = a
  BY DEF Undoes, AllUndone
<1> DEFINE g == Exclusive[w - 1]
           d == g[<<a \div 2, b \div 2>>]
           e == (a + b) % 2
<1>0. w - 1 \in 0..Bits
  BY DEF Bits
<1>1. g \in Pairs /\ Exclusive[w] = Widen(g)
  BY <1>0, ExclusiveIs
<1>2. a \div 2 < c /\ a \div 2 \in Nat /\ b \div 2 \in Nat
  OBVIOUS
<1>3. g[<<d, b \div 2>>] = a \div 2
  <2>1. Undoes(w - 1, a \div 2)
    BY <1>2 DEF AllUndone
  <2> QED BY <1>2, <2>1 DEF Undoes
<1>4. d \in Nat
  BY <1>1, <1>2 DEF Pairs
<1>5. e \in 0..1
  OBVIOUS
<1>6. Exclusive[w][<<a, b>>] = 2 * d + e
  BY <1>1, WidenType
<1> HIDE DEF d, g
<1>7. (2 * d + e) \div 2 = d /\ 2 * d + e \in Nat
  BY <1>4, <1>5
<1>8. (2 * d + e + b) % 2 = a % 2
  BY <1>4
<1>9. Exclusive[w][<<2 * d + e, b>>] = 2 * g[<<(2 * d + e) \div 2, b \div 2>>] + ((2 * d + e + b) % 2)
  <2> HIDE DEF e
  <2> QED BY <1>1, <1>7, WidenType
<1>10. Exclusive[w][<<2 * d + e, b>>] = 2 * (a \div 2) + (a % 2)
  <2> HIDE DEF e
  <2> QED BY <1>3, <1>7, <1>8, <1>9
<1>11. 2 * (a \div 2) + (a % 2) = a
  OBVIOUS
<1> QED BY <1>6, <1>10, <1>11

\* Without bits, for 0.
LEMMA NothingUndone == AllUndone(0, 1)
<1>1. \A x, y \in Nat : Exclusive[0][<<x, y>>] = 0
  BY ExclusiveIs
<1>2. \A x \in Nat : x < 1 => x = 0
  OBVIOUS
<1>3. 0 \in Nat
  OBVIOUS
<1> QED BY <1>1, <1>2, <1>3 DEF AllUndone, Undoes

\* All bytes have fewer bits, and so have the tags of compressed payloads.
Unmasks(a, b) == Xor(a, b) \in Nat /\ Xor(Xor(a, b), b) = a
\* Xor with a byte of the key is undone by another one.
LEMMA XorUndoes ==
  ASSUME NEW a \in Nat, a < 4096, NEW b \in Nat
  PROVE  Unmasks(a, b)
<1>0. Bits = 12
  BY DEF Bits
<1>1. AllUndone(0, 1)
  BY NothingUndone
<1>2. \A w \in 1..12, c \in Nat : AllUndone(w - 1, c) => AllUndone(w, 2 * c)
  BY <1>0, UndoesStep
<1>3. AllUndone(1, 2)
  BY <1>2, <1>1
<1>4. AllUndone(2, 4)
  BY <1>2, <1>3
<1>5. AllUndone(3, 8)
  BY <1>2, <1>4
<1>6. AllUndone(4, 16)
  BY <1>2, <1>5
<1>7. AllUndone(5, 32)
  BY <1>2, <1>6
<1>8. AllUndone(6, 64)
  BY <1>2, <1>7
<1>9. AllUndone(7, 128)
  BY <1>2, <1>8
<1>10. AllUndone(8, 256)
  BY <1>2, <1>9
<1>11. AllUndone(9, 512)
  BY <1>2, <1>10
<1>12. AllUndone(10, 1024)
  BY <1>2, <1>11
<1>13. AllUndone(11, 2048)
  BY <1>2, <1>12
<1>14. AllUndone(12, 4096)
  BY <1>2, <1>13
<1>15. Exclusive[Bits] \in Pairs
  <2>1. Bits \in 0..Bits
    BY <1>0
  <2> QED BY <2>1, ExclusiveIs
<1>16. Exclusive[Bits][<<a, b>>] \in Nat
  BY <1>15 DEF Pairs
<1>17. Undoes(12, a)
  BY <1>14 DEF AllUndone
<1> QED BY <1>0, <1>16, <1>17 DEF Unmasks, Xor, Undoes

-----------------------------------------------------------------------------
\* A payload that is masked twice is as it was.
Words(s) == s \in Seq(Nat) /\ \A i \in 1..Len(s) : s[i] < 4096

\* apply_mask with the same key restores the payload.
LEMMA MaskUndoes ==
  ASSUME NEW data \in Seq(Nat), Words(data), NEW key \in Seq(Nat), Len(key) = KeyLen
  PROVE  /\ ApplyMask(data, key) \in Seq(Nat) /\ Len(ApplyMask(data, key)) = Len(data)
         /\ ApplyMask(ApplyMask(data, key), key) = data
<1>0. KeyLen \in Nat \ {0} /\ Len(data) \in Nat /\ DOMAIN data = 1..Len(data)
  BY WsFrameAssumption
<1> DEFINE k(i) == key[((i - 1) % KeyLen) + 1]
           m == ApplyMask(data, key)
           n == Len(data)
<1>1. ASSUME NEW i \in 1..n PROVE k(i) \in Nat
  <2>1. i - 1 \in Nat
    OBVIOUS
  <2>2. (i - 1) % KeyLen \in 0..(KeyLen - 1)
    BY <1>0, <2>1, DivMod
  <2>3. ((i - 1) % KeyLen) + 1 \in 1..Len(key)
    BY <1>0, <2>2
  <2> QED BY <2>3
<1>2. ASSUME NEW i \in 1..n PROVE Xor(data[i], k(i)) \in Nat /\ Xor(Xor(data[i], k(i)), k(i)) = data[i]
  <2>1. data[i] \in Nat /\ data[i] < 4096
    BY DEF Words
  <2>2. PICK x \in Nat : x = k(i)
    BY <1>1
  <2> HIDE DEF k
  <2>3. Unmasks(data[i], x)
    BY <2>1, XorUndoes
  <2> QED BY <2>2, <2>3 DEF Unmasks
<1>3. m = [i \in 1..n |-> Xor(data[i], k(i))]
  BY <1>0 DEF ApplyMask
<1> HIDE DEF k
<1>4. m = [i \in 1..n |-> m[i]] /\ \A i \in 1..n : m[i] = Xor(data[i], k(i))
  BY <1>3
<1>5. m \in Seq(Nat) /\ Len(m) = n
  <2> HIDE DEF m
  <2> QED BY <1>0, <1>2, <1>4, MakeSeq
<1>6. DOMAIN m = 1..n
  BY <1>3
<1> HIDE DEF m
<1>7. ApplyMask(m, key) = [i \in 1..n |-> Xor(m[i], k(i))]
  BY <1>6 DEF ApplyMask, k
<1>8. [i \in 1..n |-> Xor(m[i], k(i))] = [i \in 1..n |-> data[i]]
  BY <1>2, <1>4
<1>9. [i \in 1..n |-> data[i]] = data
  BY <1>0
<1> QED BY <1>5, <1>7, <1>8, <1>9 DEF m

-----------------------------------------------------------------------------
\* The first byte of a frame.
LEMMA FirstByte ==
  ASSUME NEW fin \in BOOLEAN, NEW rsv1 \in BOOLEAN, NEW opcode \in Opcodes,
         NEW x, x = Bit(fin, 128) + Bit(rsv1, 64) + opcode
  PROVE  /\ x \in Nat /\ x % 16 = opcode
         /\ IsSet(x, 128) = fin /\ IsSet(x, 64) = rsv1 /\ ~IsSet(x, 32) /\ ~IsSet(x, 16)
<1>1. opcode \in {0, 1, 2, 8, 9, 10}
  BY DEF Opcodes, Text, Binary, Close, Ping, Pong
<1> QED BY <1>1 DEF Bit, IsSet

\* The length of a payload: how many bytes it takes and what it begins with.
Extended(n) == IF n < Len16 THEN 0 ELSE IF n < Radix * Radix THEN 2 ELSE Wide
Len7(n)     == IF n < Len16 THEN n ELSE IF n < Radix * Radix THEN Len16 ELSE Len16 + 1

\* A length fits into the bytes that encode gives it.
LEMMA ShortShift ==
  ASSUME NEW n \in Nat
  PROVE  /\ n < Radix * Radix => Shift(n, 2) = 0
         /\ n <= MaxPayload => Shift(n, Wide) = 0
<1>0. Wide \in 3..8 /\ Radix \in Nat \ {0} /\ MaxPayload \in Nat /\ Shift(MaxPayload, Wide) = 0
  BY WsFrameAssumption
<1>1. ASSUME n < Radix * Radix PROVE Shift(n, 2) = 0
  <2>1. Shift(n, 0) = n /\ Shift(n, 0 + 1) = Shift(n, 0) \div Radix /\ Shift(n, 1 + 1) = Shift(n, 1) \div Radix
    <3>1. 0 \in 0..(Wide - 1) /\ 1 \in 0..(Wide - 1)
      BY <1>0
    <3> QED BY <3>1, ShiftIs
  <2>2. PICK q, r : q = n \div Radix /\ r = n % Radix
    OBVIOUS
  <2>3. Shift(n, 2) = q \div Radix
    BY <2>1, <2>2
  <2>4. n = Radix * q + r /\ q \in Nat /\ r \in Nat
    <3>1. n = Radix * (n \div Radix) + (n % Radix) /\ n % Radix \in 0..(Radix - 1) /\ n \div Radix \in Nat
      BY <1>0, DivMod
    <3>2. 0..(Radix - 1) \subseteq Nat
      BY <1>0
    <3> QED BY <2>2, <3>1, <3>2
  <2>5. q < Radix
    <3>1. SUFFICES ASSUME Radix <= q PROVE FALSE
      BY <1>0, <2>4
    <3>2. Radix * Radix <= Radix * q
      BY <1>0, <2>4, <3>1
    <3>3. Radix * Radix \in Nat /\ Radix * q \in Nat
      BY <1>0, <2>4
    <3> QED BY <1>1, <2>4, <3>2, <3>3
  <2>6. q \div Radix = 0
    BY <1>0, <2>4, <2>5
  <2> QED BY <2>3, <2>6
<1>2. ASSUME n <= MaxPayload PROVE Shift(n, Wide) = 0
  <2>1. Shift(n, Wide) <= Shift(MaxPayload, Wide)
    BY <1>0, <1>2, ShiftMonotone
  <2>2. Shift(n, Wide) \in Nat
    BY <1>0, ShiftIs, SMTT(25)
  <2> QED BY <1>0, <2>1, <2>2
<1> QED BY <1>1, <1>2

\* The length bytes of encode are what decode reads a length from.
LEMMA LengthIs ==
  ASSUME NEW n \in Nat, n <= MaxPayload, NEW masked \in BOOLEAN
  PROVE  \E s \in Seq(Nat) :
           /\ LengthBytes(n, Bit(masked, 128)) = <<Bit(masked, 128) + Len7(n)>> \o s
           /\ Len(s) = Extended(n) /\ Len7(n) \in 0..127
           /\ Extended(n) = IF Len7(n) = Len16 THEN 2 ELSE IF Len7(n) = Len16 + 1 THEN Wide ELSE 0
           /\ Extended(n) # 0 => FromBigEndian(s) = n
           /\ Extended(n) = 0 => n = Len7(n)
<1>0. Wide \in 3..8 /\ Radix \in 2..256 /\ Len16 \in 1..126 /\ MaxPayload \in Nat /\ Radix * Radix \in Nat
  BY WsFrameAssumption
<1> DEFINE m == Bit(masked, 128)
<1>1. m \in Nat
  BY DEF Bit
<1> HIDE DEF m
<1>2. CASE n < Len16
  <2>1. LengthBytes(n, m) = <<m + n>> /\ Extended(n) = 0 /\ Len7(n) = n
    BY <1>2 DEF LengthBytes, Extended, Len7
  <2>2. <<m + n>> \o <<>> = <<m + n>> /\ <<>> \in Seq(Nat) /\ Len(<<>>) = 0
    <3>1. <<m + n>> \in Seq(Nat)
      BY <1>1
    <3> QED BY <3>1
  <2>3. PICK s \in Seq(Nat) : s = <<>>
    BY <2>2
  <2>4. LengthBytes(n, m) = <<m + Len7(n)>> \o s /\ Len(s) = Extended(n)
    BY <2>1, <2>2, <2>3
  <2>5. /\ Len7(n) \in 0..127 /\ Extended(n) = 0 /\ n = Len7(n)
        /\ Len7(n) # Len16 /\ Len7(n) # Len16 + 1
    BY <1>0, <1>2, <2>1
  <2>6. Extended(n) = IF Len7(n) = Len16 THEN 2 ELSE IF Len7(n) = Len16 + 1 THEN Wide ELSE 0
    BY <2>5
  <2> QED BY <2>4, <2>5, <2>6 DEF m
<1>3. CASE ~(n < Len16) /\ n < Radix * Radix
  <2>1. LengthBytes(n, m) = <<m + Len16>> \o BigEndian(n, 2) /\ Extended(n) = 2 /\ Len7(n) = Len16
    BY <1>3 DEF LengthBytes, Extended, Len7
  <2>2. BigEndian(n, 2) \in Seq(Nat) /\ Len(BigEndian(n, 2)) = 2 /\ FromBigEndian(BigEndian(n, 2)) = n
    <3>1. 2 \in 0..Wide
      BY <1>0
    <3> QED BY <1>3, <3>1, ShortShift, LengthSurvives
  <2>3. PICK s \in Seq(Nat) : s = BigEndian(n, 2)
    BY <2>2
  <2>4. LengthBytes(n, m) = <<m + Len7(n)>> \o s /\ Len(s) = Extended(n) /\ FromBigEndian(s) = n
    BY <2>1, <2>2, <2>3
  <2>5. Len7(n) \in 0..127 /\ Extended(n) = 2 /\ Len7(n) = Len16
    BY <1>0, <2>1
  <2>6. Extended(n) = IF Len7(n) = Len16 THEN 2 ELSE IF Len7(n) = Len16 + 1 THEN Wide ELSE 0
    BY <2>5
  <2>7. Extended(n) # 0
    BY <2>5
  <2> QED BY <2>4, <2>5, <2>6, <2>7 DEF m
<1>4. CASE ~(n < Len16) /\ ~(n < Radix * Radix)
  <2>1. LengthBytes(n, m) = <<m + Len16 + 1>> \o BigEndian(n, Wide) /\ Extended(n) = Wide /\ Len7(n) = Len16 + 1
    BY <1>4 DEF LengthBytes, Extended, Len7
  <2>2. BigEndian(n, Wide) \in Seq(Nat) /\ Len(BigEndian(n, Wide)) = Wide /\ FromBigEndian(BigEndian(n, Wide)) = n
    <3>1. Wide \in 0..Wide
      BY <1>0
    <3> QED BY <3>1, ShortShift, LengthSurvives
  <2>3. m + Len16 + 1 = m + (Len16 + 1)
    BY <1>0, <1>1
  <2> QED BY <1>0, <2>1, <2>2, <2>3, SMTT(25) DEF m
<1> QED BY <1>2, <1>3, <1>4

-----------------------------------------------------------------------------
\* A part of a buffer is what its bytes are.
LEMMA PartIs ==
  ASSUME NEW b \in Seq(Nat), NEW t \in Seq(Nat), NEW k \in Nat, k + Len(t) <= Len(b),
         \A i \in 1..Len(t) : b[k + i] = t[i]
  PROVE  SubSeq(b, k + 1, k + Len(t)) = t
<1> DEFINE m == k + 1
           n == k + Len(t)
           c == SubSeq(b, m, n)
<1>0. Len(t) \in Nat /\ Len(b) \in Nat /\ m \in Int /\ n \in Int
  OBVIOUS
<1>1. \A i \in m..n : b[i] \in Nat
  <2>1. \A i \in m..n : i \in 1..Len(b)
    BY <1>0
  <2> QED BY <2>1
<1> HIDE DEF m, n
<1>2. /\ c \in Seq(Nat)
      /\ Len(c) = IF m <= n THEN n - m + 1 ELSE 0
      /\ \A i \in 1..(n - m + 1) : c[i] = b[m + i - 1]
  BY <1>0, <1>1, SubSeqProperties
<1>3. Len(c) = Len(t)
  BY <1>0, <1>2 DEF m, n
<1>4. ASSUME NEW i \in 1..Len(t) PROVE c[i] = t[i]
  <2>1. i \in 1..(n - m + 1) /\ m + i - 1 = k + i
    BY <1>0 DEF m, n
  <2> QED BY <1>2, <2>1
<1> HIDE DEF c
<1>5. c = t
  BY <1>2, <1>3, <1>4, SeqEqual
<1> QED BY <1>5 DEF c, m, n

\* The parts of a frame as it is sent, and where they are.
Layout(f, b1, b2, s, key, wire) ==
  /\ f \in Seq(Nat) /\ Len(f) = 2 + Len(s) + Len(key) + Len(wire)
  /\ f[1] = b1 /\ f[2] = b2
  /\ \A i \in 1..Len(s) : f[2 + i] = s[i]
  /\ \A i \in 1..Len(key) : f[2 + Len(s) + i] = key[i]
  /\ \A i \in 1..Len(wire) : f[2 + Len(s) + Len(key) + i] = wire[i]

\* A byte put before others.
LEMMA OneThen ==
  ASSUME NEW x \in Nat, NEW s \in Seq(Nat)
  PROVE  /\ <<x>> \o s \in Seq(Nat) /\ Len(<<x>> \o s) = 1 + Len(s) /\ (<<x>> \o s)[1] = x
         /\ \A i \in 1..Len(s) : (<<x>> \o s)[1 + i] = s[i]
<1>0. <<x>> \in Seq(Nat)
  OBVIOUS
<1>1. PICK t \in Seq(Nat) : t = <<x>>
  BY <1>0
<1>2. Len(t) = 1 /\ t[1] = x
  BY <1>1
<1>3. /\ t \o s \in Seq(Nat) /\ Len(t \o s) = Len(t) + Len(s)
      /\ \A i \in 1..Len(t) : (t \o s)[i] = t[i]
      /\ \A i \in 1..Len(s) : (t \o s)[Len(t) + i] = s[i]
  BY ConcatElements
<1>4. (t \o s)[1] = x
  BY <1>2, <1>3
<1> QED BY <1>1, <1>2, <1>3, <1>4

\* What encode puts together has that layout.
LEMMA LayoutIs ==
  ASSUME NEW b1 \in Nat, NEW b2 \in Nat, NEW s \in Seq(Nat), NEW key \in Seq(Nat), NEW wire \in Seq(Nat)
  PROVE  Layout(((<<b1>> \o (<<b2>> \o s)) \o key) \o wire, b1, b2, s, key, wire)
<1> DEFINE t == <<b2>> \o s
           u == <<b1>> \o t
           v == u \o key
           f == v \o wire
<1>1. /\ t \in Seq(Nat) /\ Len(t) = 1 + Len(s) /\ t[1] = b2
      /\ \A i \in 1..Len(s) : t[1 + i] = s[i]
  BY OneThen
<1> HIDE DEF t
<1>2. /\ u \in Seq(Nat) /\ Len(u) = 1 + Len(t) /\ u[1] = b1
      /\ \A i \in 1..Len(t) : u[1 + i] = t[i]
  BY <1>1, OneThen
<1> HIDE DEF u
<1>3. /\ v \in Seq(Nat) /\ Len(v) = Len(u) + Len(key)
      /\ \A i \in 1..Len(u) : v[i] = u[i]
      /\ \A i \in 1..Len(key) : v[Len(u) + i] = key[i]
  <2>1. u \in Seq(Nat)
    BY <1>2
  <2> QED BY <2>1, ConcatElements
<1> HIDE DEF v
<1>4. /\ f \in Seq(Nat) /\ Len(f) = Len(v) + Len(wire)
      /\ \A i \in 1..Len(v) : f[i] = v[i]
      /\ \A i \in 1..Len(wire) : f[Len(v) + i] = wire[i]
  <2>1. v \in Seq(Nat)
    BY <1>3
  <2> QED BY <2>1, ConcatElements
<1> HIDE DEF f
<1>0. Len(s) \in Nat /\ Len(key) \in Nat /\ Len(wire) \in Nat
  OBVIOUS
<1>5. Len(u) = 2 + Len(s) /\ Len(v) = 2 + Len(s) + Len(key)
  BY <1>0, <1>1, <1>2, <1>3
<1>6. f[1] = b1 /\ f[2] = b2
  <2>1. 1 \in 1..Len(v) /\ 2 \in 1..Len(v) /\ 1 \in 1..Len(u) /\ 2 \in 1..Len(u) /\ 1 \in 1..Len(t) /\ 2 = 1 + 1
    BY <1>0, <1>1, <1>5
  <2>2. u[1 + 1] = t[1]
    BY <1>2, <2>1
  <2> QED BY <1>1, <1>2, <1>3, <1>4, <2>1, <2>2
<1>7. ASSUME NEW i \in 1..Len(s) PROVE f[2 + i] = s[i]
  <2>1. 2 + i \in 1..Len(v) /\ 2 + i \in 1..Len(u) /\ 1 + i \in 1..Len(t) /\ 2 + i = 1 + (1 + i)
    BY <1>0, <1>1, <1>5
  <2>2. u[1 + (1 + i)] = t[1 + i]
    BY <1>2, <2>1
  <2> QED BY <1>1, <1>3, <1>4, <2>1, <2>2
<1>8. ASSUME NEW i \in 1..Len(key) PROVE f[2 + Len(s) + i] = key[i]
  <2>1. 2 + Len(s) + i \in 1..Len(v) /\ 2 + Len(s) + i = Len(u) + i
    BY <1>0, <1>5
  <2> QED BY <1>3, <1>4, <2>1
<1>9. \A i \in 1..Len(wire) : f[2 + Len(s) + Len(key) + i] = wire[i]
  BY <1>4, <1>5
<1>10. Len(f) = 2 + Len(s) + Len(key) + Len(wire)
  BY <1>4, <1>5
<1>11. Layout(f, b1, b2, s, key, wire)
  BY <1>4, <1>6, <1>7, <1>8, <1>9, <1>10 DEF Layout
<1> QED BY <1>11 DEF f, v, u, t

-----------------------------------------------------------------------------
\* What a frame is made of: a payload of words within the limits, and a key
\* if the sender is a client.
Frameable(fin, rsv1, opcode, body, key) ==
  /\ fin \in BOOLEAN /\ rsv1 \in BOOLEAN /\ opcode \in Opcodes
  /\ Words(body) /\ Len(body) <= MaxPayload /\ (IsControl(opcode) => Len(body) < Len16)
  /\ key \in Seq(Nat) /\ (key = <<>> \/ Len(key) = KeyLen)

\* Encode, part by part: two bytes, the rest of the length, the key, the payload.
Parts(f, fin, rsv1, opcode, body, key, b1, b2, s, wire) ==
  /\ Layout(f, b1, b2, s, key, wire)
  /\ b1 % 16 = opcode /\ IsSet(b1, 128) = fin /\ IsSet(b1, 64) = rsv1
  /\ ~IsSet(b1, 32) /\ ~IsSet(b1, 16)
  /\ IsSet(b2, 128) = (key # <<>>)
  /\ Len(s) = IF b2 % 128 = Len16 THEN 2 ELSE IF b2 % 128 = Len16 + 1 THEN Wide ELSE 0
  /\ Len(s) = 0 => b2 % 128 = Len(body)
  /\ Len(s) # 0 => FromBigEndian(s) = Len(body)
  /\ Len(wire) = Len(body)
  /\ body = IF key # <<>> THEN ApplyMask(wire, key) ELSE wire

\* encode puts a frame together from these parts.
LEMMA EncodeIs ==
  ASSUME NEW fin, NEW rsv1, NEW opcode, NEW body, NEW key, Frameable(fin, rsv1, opcode, body, key),
         NEW frame, frame = WireFrame(fin, rsv1, opcode, body)
  PROVE  \E b1 \in Nat, b2 \in Nat, s \in Seq(Nat), wire \in Seq(Nat) :
           Parts(Encode(frame, key), fin, rsv1, opcode, body, key, b1, b2, s, wire)
<1> DEFINE n == Len(body)
           masked == key # <<>>
           m == Bit(masked, 128)
           b1 == Bit(fin, 128) + Bit(rsv1, 64) + opcode
           b2 == m + Len7(n)
           wire == IF masked THEN ApplyMask(body, key) ELSE body
<1>0. /\ fin \in BOOLEAN /\ rsv1 \in BOOLEAN /\ opcode \in Opcodes /\ Words(body)
      /\ key \in Seq(Nat) /\ (key = <<>> \/ Len(key) = KeyLen) /\ n <= MaxPayload
      /\ body \in Seq(Nat) /\ n \in Nat /\ masked \in BOOLEAN
  BY DEF Frameable, Words
<1>1. PICK s \in Seq(Nat) :
           /\ LengthBytes(n, m) = <<b2>> \o s
           /\ Len(s) = Extended(n) /\ Len7(n) \in 0..127
           /\ Extended(n) = IF Len7(n) = Len16 THEN 2 ELSE IF Len7(n) = Len16 + 1 THEN Wide ELSE 0
           /\ Extended(n) # 0 => FromBigEndian(s) = n
           /\ Extended(n) = 0 => n = Len7(n)
  <2> HIDE DEF masked, n
  <2> QED BY <1>0, LengthIs, SMTT(25)
<1>2. /\ b1 \in Nat /\ b1 % 16 = opcode
      /\ IsSet(b1, 128) = fin /\ IsSet(b1, 64) = rsv1 /\ ~IsSet(b1, 32) /\ ~IsSet(b1, 16)
  BY <1>0, FirstByte
<1>3. b2 \in Nat /\ IsSet(b2, 128) = masked /\ b2 % 128 = Len7(n)
  <2>1. PICK l \in 0..127 : l = Len7(n)
    BY <1>1
  <2>2. b2 = Bit(masked, 128) + l
    BY <2>1
  <2>3. masked \in BOOLEAN
    OBVIOUS
  <2> HIDE DEF masked, n, m, b2
  <2>4. CASE masked
    <3>1. b2 = 128 + l
      BY <2>2, <2>4 DEF Bit
    <3>2. b2 \in Nat /\ IsSet(b2, 128) = TRUE /\ b2 % 128 = l
      BY <3>1 DEF IsSet
    <3> QED BY <2>1, <2>3, <2>4, <3>2
  <2>5. CASE ~masked
    <3>1. b2 = l
      BY <2>2, <2>5 DEF Bit
    <3>2. b2 \in Nat /\ IsSet(b2, 128) = FALSE /\ b2 % 128 = l
      BY <3>1 DEF IsSet
    <3> QED BY <2>1, <2>3, <2>5, <3>2
  <2> QED BY <2>4, <2>5
<1>4. wire \in Seq(Nat) /\ Len(wire) = n /\ body = IF masked THEN ApplyMask(wire, key) ELSE wire
  <2>1. CASE masked
    <3>1. Len(key) = KeyLen
      BY <1>0, <2>1
    <3>2. /\ ApplyMask(body, key) \in Seq(Nat) /\ Len(ApplyMask(body, key)) = Len(body)
          /\ ApplyMask(ApplyMask(body, key), key) = body
      BY <1>0, <3>1, MaskUndoes
    <3> QED BY <2>1, <3>2
  <2>2. CASE ~masked
    BY <1>0, <2>2
  <2> QED BY <2>1, <2>2
<1>5. Encode(frame, key) = ((<<b1>> \o (<<b2>> \o s)) \o key) \o wire
  <2>1. /\ frame.fin = fin /\ frame.rsv1 = rsv1 /\ frame.opcode = opcode /\ frame.payload = body
    BY DEF WireFrame
  <2>2. Encode(frame, key) = ((<<b1>> \o LengthBytes(n, m)) \o key) \o wire
    BY <2>1 DEF Encode
  <2> HIDE DEF b1, b2, wire, n, m
  <2> QED BY <1>1, <2>2
<1> HIDE DEF b1, b2, wire
<1>6. Layout(Encode(frame, key), b1, b2, s, key, wire)
  <2>1. b1 \in Nat /\ b2 \in Nat /\ key \in Seq(Nat) /\ wire \in Seq(Nat)
    BY <1>0, <1>2, <1>3, <1>4
  <2>2. Layout(((<<b1>> \o (<<b2>> \o s)) \o key) \o wire, b1, b2, s, key, wire)
    BY <2>1, LayoutIs
  <2> QED BY <1>5, <2>2
<1>7. /\ Len(s) = IF b2 % 128 = Len16 THEN 2 ELSE IF b2 % 128 = Len16 + 1 THEN Wide ELSE 0
      /\ Len(s) = 0 => b2 % 128 = n
      /\ Len(s) # 0 => FromBigEndian(s) = n
  BY <1>1, <1>3
<1>8. b1 \in Nat /\ b2 \in Nat /\ wire \in Seq(Nat)
  BY <1>2, <1>3, <1>4
<1>9. Parts(Encode(frame, key), fin, rsv1, opcode, body, key, b1, b2, s, wire)
  BY <1>2, <1>3, <1>4, <1>6, <1>7 DEF Parts
<1> QED BY <1>8, <1>9

-----------------------------------------------------------------------------
\* A buffer agrees with a frame as far as both go.
Agree(b, f) == \A i \in 1..Len(b) : i <= Len(f) => b[i] = f[i]

\* Decode waits until all of a frame has arrived, and then gives it back.
Expects(expectMask, key) == expectMask = (key # <<>>)

\* decode of any beginning of a frame: more is needed until it is whole, then
\* it is what was encoded.
LEMMA DecodeIs ==
  ASSUME NEW fin, NEW rsv1, NEW opcode, NEW body, NEW key, Frameable(fin, rsv1, opcode, body, key),
         NEW frame, frame = WireFrame(fin, rsv1, opcode, body),
         NEW b \in Seq(Nat), Agree(b, Encode(frame, key)), NEW expectMask, Expects(expectMask, key)
  PROVE  /\ Encode(frame, key) \in Seq(Nat) /\ Len(Encode(frame, key)) \in Nat \ {0}
         /\ Decode(b, expectMask) =
              IF Len(b) < Len(Encode(frame, key)) THEN More
              ELSE [kind |-> "frame", consumed |-> Len(Encode(frame, key)), frame |-> frame]
<1> DEFINE f == Encode(frame, key)
<1>1. PICK b1 \in Nat, b2 \in Nat, s \in Seq(Nat), wire \in Seq(Nat) :
           Parts(f, fin, rsv1, opcode, body, key, b1, b2, s, wire)
  BY EncodeIs
<1> HIDE DEF f
<1>10. /\ b1 % 16 = opcode /\ IsSet(b1, 128) = fin /\ IsSet(b1, 64) = rsv1
       /\ ~IsSet(b1, 32) /\ ~IsSet(b1, 16)
       /\ IsSet(b2, 128) = (key # <<>>)
       /\ Len(s) = IF b2 % 128 = Len16 THEN 2 ELSE IF b2 % 128 = Len16 + 1 THEN Wide ELSE 0
  BY <1>1 DEF Parts
<1>11. /\ Len(s) = 0 => b2 % 128 = Len(body)
       /\ Len(s) # 0 => FromBigEndian(s) = Len(body)
       /\ Len(wire) = Len(body)
  BY <1>1 DEF Parts
<1>12. body = IF key # <<>> THEN ApplyMask(wire, key) ELSE wire
  BY <1>1 DEF Parts
<1>2. /\ opcode \in Opcodes /\ Len(body) <= MaxPayload /\ (IsControl(opcode) => Len(body) < Len16)
      /\ key \in Seq(Nat) /\ (key = <<>> \/ Len(key) = KeyLen) /\ body \in Seq(Nat)
  BY DEF Frameable, Words
<1>3. /\ Len(s) \in Nat /\ Len(wire) \in Nat /\ Len(key) \in Nat /\ Len(b) \in Nat /\ Len(body) \in Nat
      /\ Len(key) = (IF key # <<>> THEN KeyLen ELSE 0)
      /\ Wide \in Nat /\ KeyLen \in Nat /\ Len16 \in Nat /\ MaxPayload \in Nat
  BY <1>2, WsFrameAssumption, SMTT(25)
<1>4. /\ f \in Seq(Nat) /\ Len(f) = 2 + Len(s) + Len(key) + Len(wire)
      /\ f[1] = b1 /\ f[2] = b2
      /\ \A i \in 1..Len(s) : f[2 + i] = s[i]
      /\ \A i \in 1..Len(key) : f[2 + Len(s) + i] = key[i]
      /\ \A i \in 1..Len(wire) : f[2 + Len(s) + Len(key) + i] = wire[i]
  BY <1>1 DEF Parts, Layout
<1>13. /\ Len(s) \in Nat /\ Len(wire) \in Nat /\ Len(key) \in Nat /\ Len(b) \in Nat
       /\ Len(f) = 2 + Len(s) + Len(key) + Len(wire) /\ Len(wire) = Len(body)
  BY <1>3, <1>4, <1>11
<1>5. \A i \in 1..Len(b) : i <= Len(f) => b[i] = f[i]
  BY DEF Agree, f
<1> DEFINE op == b[1] % 16
           ma == IsSet(b[2], 128)
           l7 == b[2] % 128
           ex == IF l7 = Len16 THEN 2 ELSE IF l7 = Len16 + 1 THEN Wide ELSE 0
           nn == IF ex = 0 THEN l7 ELSE FromBigEndian(SubSeq(b, 3, 2 + ex))
           ka == 2 + ex
           at == ka + Bit(ma, KeyLen)
           bo == SubSeq(b, at + 1, at + nn)
           res == [kind |-> "frame", consumed |-> at + nn,
                   frame |-> WireFrame(IsSet(b[1], 128), IsSet(b[1], 64), op,
                                       IF ma THEN ApplyMask(bo, SubSeq(b, ka + 1, at)) ELSE bo)]
<1>6. Decode(b, expectMask) =
        IF Len(b) < 2 THEN More
        ELSE IF IsSet(b[1], 32) \/ IsSet(b[1], 16) \/ op \notin Opcodes THEN BadFrame
        ELSE IF Len(b) < ka THEN More
        ELSE IF nn > MaxPayload \/ (IsControl(op) /\ nn >= Len16) THEN BadFrame
        ELSE IF Len(b) < at THEN More
        ELSE IF ma # expectMask THEN BadFrame
        ELSE IF Len(b) < at + nn THEN More
        ELSE res
  BY DEF Decode
<1>7. f \in Seq(Nat) /\ Len(f) \in Nat \ {0}
  BY <1>3, <1>4
<1> SUFFICES Decode(b, expectMask) = IF Len(b) < Len(f) THEN More
               ELSE [kind |-> "frame", consumed |-> Len(f), frame |-> frame]
  BY <1>7 DEF f
<1>8. CASE Len(b) < 2
  BY <1>3, <1>4, <1>6, <1>8
<1>9. CASE ~(Len(b) < 2)
  <2>1. b[1] = b1 /\ b[2] = b2
    <3>1. 1 \in 1..Len(b) /\ 2 \in 1..Len(b) /\ 1 <= Len(f) /\ 2 <= Len(f)
      BY <1>3, <1>4, <1>9, SMTT(25)
    <3> QED BY <1>4, <1>5, <3>1
  <2>2. op = opcode /\ ma = (key # <<>>) /\ l7 = b2 % 128 /\ ex = Len(s)
    BY <1>10, <2>1
  <2>3. ~(IsSet(b[1], 32) \/ IsSet(b[1], 16) \/ op \notin Opcodes)
    BY <1>2, <1>10, <2>1, <2>2
  <2>4. ka = 2 + Len(s) /\ at = 2 + Len(s) + Len(key)
    <3>1. Bit(ma, KeyLen) = Len(key)
      BY <1>3, <2>2 DEF Bit
    <3> HIDE DEF ma, ex
    <3> QED BY <1>3, <2>2, <3>1
  <2>5. CASE Len(b) < ka
    <3>1. Decode(b, expectMask) = More
      <4> HIDE DEF op, ma, l7, ex, nn, ka, at, res
      <4> QED BY <1>6, <1>9, <2>3, <2>5
    <3>2. Len(b) < Len(f)
      <4> HIDE DEF ka
      <4> QED BY <1>3, <1>4, <2>4, <2>5
    <3> QED BY <3>1, <3>2
  <2>6. CASE ~(Len(b) < ka)
    <3>1. nn = Len(body)
      <4>1. CASE Len(s) = 0
        <5> HIDE DEF ex
        <5> QED BY <1>11, <2>2, <4>1
      <4>2. CASE Len(s) # 0
        <5>1. 2 + Len(s) <= Len(b)
          <6> HIDE DEF ka
          <6> QED BY <1>3, <2>4, <2>6
        <5>2. ASSUME NEW i \in 1..Len(s) PROVE b[2 + i] = s[i]
          <6>1. 2 + i \in 1..Len(b) /\ 2 + i <= Len(f)
            BY <1>13, <5>1
          <6> QED BY <1>4, <1>5, <6>1
        <5>3. SubSeq(b, 2 + 1, 2 + Len(s)) = s
          BY <5>1, <5>2, PartIs
        <5> HIDE DEF ex
        <5>4. nn = FromBigEndian(SubSeq(b, 3, 2 + Len(s)))
          BY <2>2, <4>2
        <5>5. SubSeq(b, 3, 2 + Len(s)) = s
          BY <5>3
        <5> HIDE DEF nn
        <5> QED BY <1>11, <4>2, <5>4, <5>5
      <4> QED BY <4>1, <4>2
    <3>2. ~(nn > MaxPayload \/ (IsControl(op) /\ nn >= Len16))
      <4>1. Len(body) <= MaxPayload /\ (IsControl(opcode) => Len(body) < Len16)
        BY <1>2
      <4>2. Len(body) \in Nat /\ MaxPayload \in Nat /\ Len16 \in Nat
        BY <1>3
      <4>3. ~(Len(body) > MaxPayload) /\ (IsControl(opcode) => ~(Len(body) >= Len16))
        BY <4>1, <4>2
      <4>4. op = opcode
        BY <2>2
      <4> HIDE DEF nn, op
      <4> QED BY <3>1, <4>3, <4>4
    <3>3. at + nn = Len(f)
      <4> HIDE DEF nn, at
      <4> QED BY <1>3, <1>4, <1>11, <2>4, <3>1
    <3>4. ma = expectMask
      <4> HIDE DEF ma
      <4> QED BY <2>2 DEF Expects
    <3>5. CASE Len(b) < at + nn
      <4>1. Decode(b, expectMask) = More
        <5> HIDE DEF op, ma, l7, ex, nn, ka, at, res
        <5> QED BY <1>6, <1>9, <2>3, <2>6, <3>2, <3>4, <3>5
      <4> HIDE DEF at, nn
      <4> QED BY <3>3, <3>5, <4>1
    <3>6. CASE ~(Len(b) < at + nn)
      <4>1. Decode(b, expectMask) = res
        <5>1. ~(Len(b) < at)
          <6> HIDE DEF nn, at
          <6> QED BY <1>3, <2>4, <3>1, <3>6
        <5> HIDE DEF op, ma, l7, ex, nn, ka, at, res
        <5> QED BY <1>6, <1>9, <2>3, <2>6, <3>2, <3>4, <3>6, <5>1
      <4>2. bo = wire
        <5> DEFINE k == 2 + Len(s) + Len(key)
        <5>1. k \in Nat /\ k + Len(wire) <= Len(b) /\ at = k /\ at + nn = k + Len(wire)
          <6> HIDE DEF nn, at, ka
          <6> QED BY <1>13, <2>4, <3>1, <3>6
        <5> HIDE DEF nn, at
        <5>2. ASSUME NEW i \in 1..Len(wire) PROVE b[k + i] = wire[i]
          <6>1. k + i \in 1..Len(b) /\ k + i <= Len(f)
            BY <1>13, <5>1, SMTT(25)
          <6> QED BY <1>4, <1>5, <6>1
        <5> HIDE DEF k, nn, at
        <5>3. SubSeq(b, k + 1, k + Len(wire)) = wire
          BY <5>1, <5>2, PartIs
        <5> QED BY <5>1, <5>3
      <4>3. SubSeq(b, ka + 1, at) = key
        <5> DEFINE k == 2 + Len(s)
        <5>1. k \in Nat /\ k + Len(key) <= Len(b) /\ ka = k /\ at = k + Len(key)
          <6> HIDE DEF nn, at, ka
          <6> QED BY <1>13, <2>4, <3>1, <3>6
        <5> HIDE DEF nn, at, ka
        <5>2. ASSUME NEW i \in 1..Len(key) PROVE b[k + i] = key[i]
          <6>1. k + i \in 1..Len(b) /\ k + i <= Len(f)
            BY <1>13, <5>1
          <6> QED BY <1>4, <1>5, <6>1
        <5> HIDE DEF k, at, ka
        <5>3. SubSeq(b, k + 1, k + Len(key)) = key
          BY <1>2, <5>1, <5>2, PartIs
        <5> QED BY <5>1, <5>3
      <4>4. (IF ma THEN ApplyMask(bo, SubSeq(b, ka + 1, at)) ELSE bo) = body
        <5> HIDE DEF bo, ka, at, ma
        <5> QED BY <1>12, <2>2, <4>2, <4>3
      <4>5. res = [kind |-> "frame", consumed |-> Len(f), frame |-> WireFrame(fin, rsv1, opcode, body)]
        <5>1. IsSet(b[1], 128) = fin /\ IsSet(b[1], 64) = rsv1
          BY <1>10, <2>1
        <5> HIDE DEF bo, ka, at, ma, nn, op
        <5> QED BY <2>2, <3>3, <4>4, <5>1
      <4> HIDE DEF at, nn, res
      <4> QED BY <3>3, <3>6, <4>1, <4>5
    <3> QED BY <3>5, <3>6
  <2> QED BY <2>5, <2>6
<1> QED BY <1>8, <1>9

-----------------------------------------------------------------------------
\* Where lines end; a line that is rendered has no end in it.
Cr(b) == {i \in 1..(Len(b) - 1) : b[i] = CR /\ b[i + 1] = LF}

\* A line with its CRLF, which has no other line break.
IsLine(l) == l \in Seq(Nat) /\ Len(l) >= 1 /\ Cr(l) = {} /\ l[Len(l)] # CR

\* A block is the lines f, each where f has it and with its end.
Lines(b, f) ==
  /\ b \in Seq(Nat) /\ DOMAIN f \subseteq 1..Len(b)
  /\ \A s \in DOMAIN f : IsLine(f[s]) /\ s + Len(f[s]) + 1 <= Len(b)
  /\ \A s \in DOMAIN f : \A i \in 1..Len(f[s]) : b[s + i - 1] = f[s][i]
  /\ \A s \in DOMAIN f : s + Len(f[s]) \in Cr(b) /\ \A c \in Cr(b) : c >= s => c >= s + Len(f[s])
  /\ DOMAIN f \cup {Len(b) + 1} = {1} \cup {c + 2 : c \in Cr(b)}

Plus(f, s, l) == [x \in DOMAIN f \cup {s} |-> IF x = s THEN l ELSE f[x]]

\* CRLF, byte by byte.
LEMMA EndOfLine == CRLF \in Seq(Nat) /\ Len(CRLF) = 2 /\ CRLF[1] = CR /\ CRLF[2] = LF /\ CR # LF
BY DEF CRLF, CR, LF

\* Where the lines end.
LEMMA LineEnds == ASSUME NEW b \in Seq(Nat) PROVE Occurrences(b, CRLF) = Cr(b)
BY FindTwo DEF CRLF, Cr

\* No bytes have no lines.
LEMMA NoLines == Lines(<<>>, [x \in {} |-> <<>>])
<1> DEFINE f == [x \in {} |-> <<>>]
<1>1. PICK e \in Seq(Nat) : e = <<>>
  <2>1. <<>> \in Seq(Nat)
    OBVIOUS
  <2> QED BY <2>1
<1>2. Len(e) = 0
  BY <1>1
<1>3. Cr(e) = {}
  BY <1>2 DEF Cr
<1>4. DOMAIN f = {}
  OBVIOUS
<1> HIDE DEF f
<1>5. Lines(e, f)
  BY <1>2, <1>3, <1>4 DEF Lines
<1> QED BY <1>1, <1>5 DEF f

\* Bytes with one line more.
LEMMA AddLine ==
  ASSUME NEW b, NEW f, Lines(b, f), NEW l, IsLine(l)
  PROVE  Lines(b \o (l \o CRLF), Plus(f, Len(b) + 1, l)) /\ Len(b \o (l \o CRLF)) = Len(b) + Len(l) + 2
<1> DEFINE n == Len(b)
           m == Len(l)
           t == l \o CRLF
           u == b \o t
           g == Plus(f, n + 1, l)
<1>0. b \in Seq(Nat) /\ l \in Seq(Nat) /\ n \in Nat /\ m \in Nat /\ m >= 1 /\ Cr(l) = {} /\ l[m] # CR
  BY DEF Lines, IsLine
<1>1. t \in Seq(Nat) /\ Len(t) = m + 2 /\ (\A i \in 1..m : t[i] = l[i]) /\ t[m + 1] = CR /\ t[m + 2] = LF
  <2>1. PICK c \in Seq(Nat) : c = CRLF
    BY EndOfLine
  <2>2. Len(c) = 2 /\ c[1] = CR /\ c[2] = LF
    BY <2>1, EndOfLine
  <2>3. /\ l \o c \in Seq(Nat) /\ Len(l \o c) = Len(l) + Len(c)
        /\ \A i \in 1..Len(l) : (l \o c)[i] = l[i]
        /\ \A i \in 1..Len(c) : (l \o c)[Len(l) + i] = c[i]
    BY <1>0, ConcatElements
  <2>4. (l \o c)[Len(l) + 1] = CR /\ (l \o c)[Len(l) + 2] = LF
    BY <2>2, <2>3
  <2> QED BY <2>1, <2>2, <2>3, <2>4
<1> HIDE DEF t
<1>2. /\ u \in Seq(Nat) /\ Len(u) = n + Len(t) /\ (\A i \in 1..n : u[i] = b[i])
      /\ \A i \in 1..Len(t) : u[n + i] = t[i]
  <2>1. b \in Seq(Nat) /\ t \in Seq(Nat)
    BY <1>0, <1>1
  <2> QED BY <2>1, ConcatElements
<1> HIDE DEF u
<1>3. Len(u) = n + m + 2
  BY <1>0, <1>1, <1>2
<1>4. (\A i \in 1..m : u[n + i] = l[i]) /\ u[n + m + 1] = CR /\ u[n + m + 2] = LF
  <2>1. \A i \in 1..m : i \in 1..Len(t)
    BY <1>0, <1>1
  <2>2. m + 1 \in 1..Len(t) /\ m + 2 \in 1..Len(t) /\ n + (m + 1) = n + m + 1 /\ n + (m + 2) = n + m + 2
    BY <1>0, <1>1
  <2>3. u[n + (m + 1)] = t[m + 1] /\ u[n + (m + 2)] = t[m + 2]
    BY <1>2, <2>2
  <2> QED BY <1>1, <1>2, <2>1, <2>2, <2>3
<1>5. n # 0 => b[n] = LF
  <2>1. n + 1 \in {1} \cup {c + 2 : c \in Cr(b)}
    BY DEF Lines
  <2>2. ASSUME n # 0 PROVE \E c \in Cr(b) : c + 2 = n + 1
    BY <1>0, <2>1, <2>2
  <2> QED BY <1>0, <2>2 DEF Cr
<1>6. \A i : i \in Cr(u) <=> i \in Cr(b) \/ i = n + m + 1
  <2>1. ASSUME NEW i \in 1..(n - 1) PROVE i \in Cr(u) <=> i \in Cr(b)
    <3>1. u[i] = b[i] /\ u[i + 1] = b[i + 1] /\ i \in 1..(Len(u) - 1)
      BY <1>0, <1>2, <1>3
    <3> QED BY <3>1 DEF Cr
  <2>2. ASSUME n \in 1..n PROVE n \notin Cr(u)
    <3>1. n # 0 /\ u[n] = b[n]
      BY <1>0, <1>2, <2>2
    <3>2. u[n] # CR
      BY <1>5, <3>1, EndOfLine
    <3> QED BY <3>2 DEF Cr
  <2>3. ASSUME NEW j \in 1..(m - 1) PROVE n + j \notin Cr(u)
    <3>1. u[n + j] = l[j] /\ u[n + (j + 1)] = l[j + 1] /\ n + (j + 1) = (n + j) + 1
      BY <1>0, <1>4
    <3>2. ~(l[j] = CR /\ l[j + 1] = LF)
      BY <1>0 DEF Cr
    <3> QED BY <3>1, <3>2 DEF Cr
  <2>4. n + m \notin Cr(u)
    <3>1. u[n + m] = l[m]
      BY <1>0, <1>4
    <3> QED BY <1>0, <3>1 DEF Cr
  <2>5. n + m + 1 \in Cr(u)
    <3>1. n + m + 1 \in 1..(Len(u) - 1) /\ (n + m + 1) + 1 = n + m + 2
      BY <1>0, <1>3
    <3> QED BY <1>4, <3>1 DEF Cr
  <2>6. ASSUME NEW i \in Cr(u)
        PROVE  i \in 1..(n - 1) \/ (i = n /\ n \in 1..n) \/ (\E j \in 1..(m - 1) : i = n + j) \/ i = n + m \/ i = n + m + 1
    <3>1. i \in 1..(n + m + 1)
      BY <1>0, <1>3 DEF Cr
    <3>2. ASSUME i > n, i < n + m PROVE \E j \in 1..(m - 1) : i = n + j
      <4>1. i - n \in 1..(m - 1) /\ i = n + (i - n)
        BY <1>0, <3>1, <3>2
      <4> QED BY <4>1
    <3>3. i < n \/ i = n \/ (i > n /\ i < n + m) \/ i = n + m \/ i = n + m + 1
      BY <1>0, <3>1, SMTT(25)
    <3> HIDE DEF n, m
    <3>4. i < n => i \in 1..(n - 1)
      BY <1>0, <3>1
    <3>5. i = n => n \in 1..n
      BY <1>0, <3>1
    <3> QED BY <3>2, <3>3, <3>4, <3>5
  <2>7. \A i \in Cr(b) : i \in 1..(n - 1)
    BY DEF Cr
  <2> HIDE DEF n, m
  <2> QED BY <2>1, <2>2, <2>3, <2>4, <2>5, <2>6, <2>7
<1>7. /\ DOMAIN g = DOMAIN f \cup {n + 1} /\ g[n + 1] = l
      /\ \A s \in DOMAIN f : s # n + 1 /\ g[s] = f[s]
  <2>1. \A s \in DOMAIN f : s \in 1..n
    BY DEF Lines
  <2>2. \A s \in DOMAIN f : s # n + 1
    BY <1>0, <2>1
  <2> QED BY <2>2 DEF Plus
<1> HIDE DEF g
<1>8. DOMAIN g \subseteq 1..Len(u)
  <2>1. DOMAIN f \subseteq 1..n
    BY DEF Lines
  <2>2. n + 1 \in 1..Len(u) /\ 1..n \subseteq 1..Len(u)
    BY <1>0, <1>3
  <2> QED BY <1>7, <2>1, <2>2
<1>9. ASSUME NEW s \in DOMAIN g
      PROVE  /\ IsLine(g[s]) /\ s + Len(g[s]) + 1 <= Len(u)
             /\ \A i \in 1..Len(g[s]) : u[s + i - 1] = g[s][i]
             /\ s + Len(g[s]) \in Cr(u) /\ \A c \in Cr(u) : c >= s => c >= s + Len(g[s])
  <2>1. CASE s = n + 1
    <3>0. g[s] = l
      BY <1>7, <2>1
    <3>5. s + m = n + m + 1 /\ s + m + 1 <= Len(u)
      BY <1>0, <1>3, <2>1
    <3>1. g[s] = l /\ s + Len(g[s]) = n + m + 1 /\ s + m + 1 <= Len(u)
      BY <3>0, <3>5
    <3>2. \A i \in 1..m : u[s + i - 1] = l[i]
      <4>1. \A i \in 1..m : s + i - 1 = n + i
        BY <1>0, <2>1
      <4> QED BY <1>4, <4>1
    <3>3. \A c \in Cr(u) : c >= s => c >= n + m + 1
      <4>1. \A c \in Cr(b) : c < n + 1
        BY <1>0 DEF Cr
      <4>2. \A c \in Cr(u) : c \in Int
        BY DEF Cr
      <4> QED BY <1>0, <1>6, <2>1, <4>1, <4>2
    <3>4. n + m + 1 \in Cr(u)
      BY <1>6
    <3> QED BY <3>1, <3>2, <3>3, <3>4
  <2>2. CASE s \in DOMAIN f
    <3>0. g[s] = f[s]
      BY <1>7, <2>2
    <3> DEFINE k == f[s]
    <3>1. /\ IsLine(k) /\ s + Len(k) + 1 <= n /\ (\A i \in 1..Len(k) : b[s + i - 1] = k[i])
          /\ s + Len(k) \in Cr(b) /\ (\A c \in Cr(b) : c >= s => c >= s + Len(k)) /\ s \in 1..n
      BY <2>2 DEF Lines
    <3> HIDE DEF k
    <3>2. Len(k) \in Nat
      BY <3>1 DEF IsLine
    <3>3. \A i \in 1..Len(k) : u[s + i - 1] = k[i]
      <4>1. \A i \in 1..Len(k) : s + i - 1 \in 1..n
        <5>1. s \in Nat /\ s >= 1 /\ s + Len(k) + 1 <= n
          BY <1>0, <3>1
        <5> HIDE DEF n
        <5> QED BY <1>0, <3>2, <5>1
      <4> QED BY <1>2, <3>1, <4>1
    <3>6. s + Len(k) + 1 <= n /\ s \in Nat
      BY <1>0, <3>1
    <3>4. s + Len(k) + 1 <= Len(u) /\ n + m + 1 >= s + Len(k)
      <4> HIDE DEF n, m
      <4> QED BY <1>0, <1>3, <3>2, <3>6
    <3>5. s + Len(k) \in Cr(u) /\ \A c \in Cr(u) : c >= s => c >= s + Len(k)
      BY <1>6, <3>1, <3>4
    <3> QED BY <3>0, <3>1, <3>3, <3>4, <3>5 DEF k
  <2> QED BY <1>7, <2>1, <2>2
<1>10. DOMAIN g \cup {Len(u) + 1} = {1} \cup {c + 2 : c \in Cr(u)}
  <2>1. DOMAIN f \cup {n + 1} = {1} \cup {c + 2 : c \in Cr(b)}
    BY DEF Lines
  <2>2. Len(u) + 1 = (n + m + 1) + 2
    BY <1>0, <1>3
  <2>3. {c + 2 : c \in Cr(u)} = {c + 2 : c \in Cr(b)} \cup {(n + m + 1) + 2}
    BY <1>6
  <2> QED BY <1>7, <2>1, <2>2, <2>3
<1>11. Lines(u, g)
  BY <1>2, <1>8, <1>9, <1>10 DEF Lines
<1> QED BY <1>3, <1>11 DEF u, t, g

-----------------------------------------------------------------------------
\* A head ends once, after its lines and the empty one.
LEMMA OneHead ==
  ASSUME NEW b, NEW f, Lines(b, f), Len(b) > 0
  PROVE  /\ b \o CRLF \in Seq(Nat) /\ Len(b \o CRLF) = Len(b) + 2
         /\ \A i \in 1..Len(b) : (b \o CRLF)[i] = b[i]
         /\ Delims(b \o CRLF) = {Len(b) - 1} /\ HeadEnds(b \o CRLF) = {Len(b \o CRLF)}
         /\ Len(b) - 1 \in Cr(b)
<1> DEFINE n == Len(b)
           r == b \o CRLF
<1>0. b \in Seq(Nat) /\ n \in Nat /\ n > 0
  BY DEF Lines
<1>1. PICK c \in Seq(Nat) : c = CRLF
  BY EndOfLine
<1>2. Len(c) = 2 /\ c[1] = CR /\ c[2] = LF
  BY <1>1, EndOfLine
<1>3. /\ r \in Seq(Nat) /\ Len(r) = n + 2 /\ (\A i \in 1..n : r[i] = b[i])
      /\ r[n + 1] = CR /\ r[n + 2] = LF
  <2>1. /\ b \o c \in Seq(Nat) /\ Len(b \o c) = Len(b) + Len(c)
        /\ \A i \in 1..Len(b) : (b \o c)[i] = b[i]
        /\ \A i \in 1..Len(c) : (b \o c)[Len(b) + i] = c[i]
    BY <1>0, ConcatElements
  <2>2. 1 \in 1..Len(c) /\ 2 \in 1..Len(c)
    BY <1>2
  <2> QED BY <1>1, <1>2, <2>1, <2>2
<1> HIDE DEF r
<1>4. n - 1 \in Cr(b)
  <2>1. n + 1 \in {1} \cup {x + 2 : x \in Cr(b)}
    BY DEF Lines
  <2>2. PICK x \in Cr(b) : x + 2 = n + 1
    BY <1>0, <2>1
  <2>3. x \in Int
    BY DEF Cr
  <2> QED BY <1>0, <2>2, <2>3
<1>5. b[n - 1] = CR /\ b[n] = LF /\ n - 1 \in 1..(n - 1) /\ (n - 1) + 1 = n
  BY <1>0, <1>4 DEF Cr
<1>6. n - 1 \in Delims(r)
  <2>1. n - 1 \in 1..(Len(r) - 3) /\ (n - 1) + 1 = n /\ (n - 1) + 2 = n + 1 /\ (n - 1) + 3 = n + 2
    BY <1>0, <1>3, <1>5
  <2>2. r[n - 1] = CR /\ r[n] = LF
    <3>1. n - 1 \in 1..n /\ n \in 1..n
      BY <1>0, <1>5
    <3> QED BY <1>3, <1>5, <3>1
  <2> QED BY <1>3, <2>1, <2>2 DEF Delims
<1>7. ASSUME NEW i \in Delims(r), i # n - 1 PROVE FALSE
  <2>1. i \in 1..(n - 1) /\ r[i] = CR /\ r[i + 1] = LF /\ r[i + 2] = CR /\ r[i + 3] = LF
    BY <1>0, <1>3 DEF Delims
  <2>2. i \in 1..(n - 2)
    BY <1>0, <1>7, <2>1
  <2>3. i # n - 2
    <3>1. i = n - 2 => i + 2 = n
      BY <1>0
    <3>2. n \in 1..n
      BY <1>0
    <3>3. r[n] = LF
      BY <1>3, <1>5, <3>2
    <3> QED BY <2>1, <3>1, <3>3, EndOfLine
  <2>4. i \in 1..n /\ i + 1 \in 1..n /\ i + 2 \in 1..n /\ i + 3 \in 1..n /\ i + 2 < n
    BY <1>0, <2>2, <2>3
  <2>5. b[i] = CR /\ b[i + 1] = LF /\ b[i + 2] = CR /\ b[i + 3] = LF
    BY <1>3, <2>1, <2>4
  <2>6. i \in Cr(b) /\ i + 2 \in Cr(b)
    <3>1. i \in 1..(n - 1) /\ i + 2 \in 1..(n - 1) /\ (i + 2) + 1 = i + 3
      BY <1>0, <2>4
    <3> QED BY <2>5, <3>1 DEF Cr
  <2>7. i + 2 \in DOMAIN f
    <3>1. i + 2 \in DOMAIN f \cup {n + 1}
      BY <2>6 DEF Lines
    <3> QED BY <1>0, <2>4, <3>1
  <2>8. i + 2 >= (i + 2) + Len(f[i + 2]) /\ Len(f[i + 2]) \in Nat /\ Len(f[i + 2]) >= 1
    <3>1. i + 2 >= i + 2
      BY <2>4
    <3> QED BY <2>6, <2>7, <3>1 DEF Lines, IsLine
  <2>9. PICK k \in Nat : k = Len(f[i + 2])
    BY <2>8
  <2>10. i \in Nat /\ i + 2 >= (i + 2) + k /\ k >= 1
    <3>1. i + 2 >= (i + 2) + k /\ k >= 1
      BY <2>8, <2>9
    <3>2. i \in Nat
      BY <2>4
    <3> QED BY <3>1, <3>2
  <2> QED BY <2>10
<1>8. Delims(r) = {n - 1}
  BY <1>6, <1>7
<1>9. HeadEnds(r) = {n + 2}
  <2>1. HeadEnds(r) = {i + 3 : i \in Delims(r)}
    BY <1>3, FindDelim
  <2> QED BY <1>0, <1>8, <2>1
<1> QED BY <1>3, <1>4, <1>8, <1>9 DEF r

\* What the parser makes of it: the first line, and the others as headers.
LEMMA ParsedHead ==
  ASSUME NEW b, NEW f, Lines(b, f), Len(b) > 0, NEW isResponse
  PROVE  ParseLines(SubSeq(b \o CRLF, 1, Len(b) - 2), isResponse) =
           IF /\ IF isResponse THEN IsStatusLine(f[1]) ELSE IsRequestLine(f[1])
              /\ \A s \in DOMAIN f \ {1} : HasColon(f[s])
           THEN [kind |-> "head", first |-> f[1],
                 headers |-> [s \in DOMAIN f \ {1} |-> HeaderRanges(f[s])], consumed |-> Len(b) + 2]
           ELSE Malformed
<1> DEFINE n == Len(b)
           r == b \o CRLF
           h == SubSeq(r, 1, n - 2)
<1>0. b \in Seq(Nat) /\ n \in Nat /\ n > 0
  BY DEF Lines
<1>1. r \in Seq(Nat) /\ Len(r) = n + 2 /\ (\A i \in 1..n : r[i] = b[i]) /\ n - 1 \in Cr(b)
  BY OneHead
<1> HIDE DEF r
<1>2. n - 1 \in 1..(n - 1) /\ b[n - 1] = CR
  BY <1>1 DEF Cr
<1>3. h \in Seq(Nat) /\ Len(h) = n - 2 /\ \A i \in 1..(n - 2) : h[i] = b[i]
  <2>1. PICK k \in 0..Len(r) : k = n - 2
    <3>1. n - 2 \in 0..Len(r)
      BY <1>0, <1>1, <1>2
    <3> QED BY <3>1
  <2>2. SubSeq(r, 1, k) \in Seq(Nat) /\ Len(SubSeq(r, 1, k)) = k /\ \A i \in 1..k : SubSeq(r, 1, k)[i] = r[i]
    <3>1. r \in Seq(Nat)
      BY <1>1
    <3> QED BY <3>1, CutSeq
  <2>3. \A i \in 1..(n - 2) : i \in 1..n
    BY <1>0
  <2> QED BY <1>1, <2>1, <2>2, <2>3
<1> HIDE DEF h
<1>4. Cr(h) = Cr(b) \ {n - 1}
  <2>1. ASSUME NEW i \in 1..(n - 3) PROVE i \in Cr(h) <=> i \in Cr(b)
    <3>1. i \in 1..(n - 2) /\ i + 1 \in 1..(n - 2) /\ i \in 1..(n - 1) /\ i \in 1..(Len(h) - 1)
      BY <1>0, <1>3
    <3> QED BY <1>3, <3>1 DEF Cr
  <2>2. \A i \in Cr(h) : i \in 1..(n - 3)
    BY <1>0, <1>3 DEF Cr
  <2>3. ASSUME NEW i \in Cr(b), i # n - 1 PROVE i \in 1..(n - 3)
    <3>1. i \in 1..(n - 1) /\ b[i + 1] = LF
      BY DEF Cr
    <3>2. i # n - 2
      <4>1. i = n - 2 => i + 1 = n - 1
        BY <1>0
      <4> QED BY <1>2, <3>1, <4>1, EndOfLine
    <3> QED BY <1>0, <2>3, <3>1, <3>2
  <2>4. \A i \in 1..(n - 3) : i # n - 1
    BY <1>0
  <2> QED BY <2>1, <2>2, <2>3, <2>4
<1>5. Occurrences(h, CRLF) = Cr(b) \ {n - 1}
  BY <1>3, <1>4, LineEnds
<1>6. LineStarts(h) = DOMAIN f /\ 1 \in DOMAIN f
  <2>1. LineStarts(h) = {1} \cup {c + 2 : c \in Cr(b) \ {n - 1}}
    BY <1>5 DEF LineStarts
  <2>2. DOMAIN f \cup {n + 1} = {1} \cup {c + 2 : c \in Cr(b)} /\ DOMAIN f \subseteq 1..n
    BY DEF Lines
  <2>3. \A c \in Cr(b) : c \in Int /\ (c + 2 = n + 1 <=> c = n - 1)
    BY <1>0 DEF Cr
  <2>4. n + 1 \notin DOMAIN f /\ n + 1 # 1
    BY <1>0, <2>2
  <2>5. n + 1 \notin {c + 2 : c \in Cr(b) \ {n - 1}}
    BY <2>3
  <2>6. {c + 2 : c \in Cr(b)} = {c + 2 : c \in Cr(b) \ {n - 1}} \cup {n + 1}
    <3>1. (n - 1) + 2 = n + 1
      BY <1>0
    <3> QED BY <1>1, <2>3, <3>1
  <2> QED BY <2>1, <2>2, <2>4, <2>5, <2>6
<1>7. ASSUME NEW s \in DOMAIN f PROVE Line(h, s) = f[s]
  <2> DEFINE k == f[s]
             C == {i \in Occurrences(h, CRLF) : i >= s} \cup {Len(h) + 1}
  <2>1. /\ IsLine(k) /\ s + Len(k) + 1 <= n /\ (\A i \in 1..Len(k) : b[s + i - 1] = k[i])
        /\ s + Len(k) \in Cr(b) /\ (\A c \in Cr(b) : c >= s => c >= s + Len(k)) /\ s \in 1..n
    BY DEF Lines
  <2>2. k \in Seq(Nat) /\ Len(k) \in Nat /\ Len(k) >= 1
    BY <2>1 DEF IsLine
  <2> HIDE DEF k
  <2>3. C = {i \in Cr(b) : i >= s}
    <3>1. Len(h) + 1 = n - 1 /\ n - 1 >= s
      BY <1>0, <1>3, <2>1, <2>2
    <3> QED BY <1>1, <1>5, <3>1
  <2>4. Min(C) = s + Len(k)
    <3>1. C \subseteq Int
      BY <2>3 DEF Cr
    <3>2. s + Len(k) \in C /\ \A i \in C : s + Len(k) <= i
      <4>1. s + Len(k) >= s
        BY <2>1, <2>2
      <4>2. \A i \in C : i >= s + Len(k)
        BY <2>1, <2>3
      <4>3. \A i \in C : s + Len(k) <= i
        BY <2>1, <2>2, <3>1, <4>2
      <4> QED BY <2>1, <2>3, <4>1, <4>3
    <3> HIDE DEF C
    <3> QED BY <3>1, <3>2, MinIs
  <2>5. Line(h, s) = SubSeq(h, s, s + Len(k) - 1)
    <3>1. Line(h, s) = SubSeq(h, s, Min(C) - 1)
      BY DEF Line
    <3>2. PICK c : c = Min(C)
      OBVIOUS
    <3> HIDE DEF C
    <3>3. Line(h, s) = SubSeq(h, s, c - 1) /\ c = s + Len(k)
      BY <2>4, <3>1, <3>2
    <3>4. c - 1 = s + Len(k) - 1
      BY <2>1, <2>2, <3>3
    <3> QED BY <3>3, <3>4
  <2> DEFINE j == s - 1
  <2>9. /\ s \in Nat /\ s >= 1 /\ s + Len(k) + 1 <= n /\ Len(k) \in Nat /\ Len(k) >= 1
        /\ n \in Nat /\ Len(h) = n - 2
    <3>1. s \in Nat /\ s >= 1
      BY <2>1
    <3> QED BY <1>0, <1>3, <2>1, <2>2, <3>1
  <2> HIDE DEF n
  <2>6. j \in Nat /\ j + 1 = s /\ j + Len(k) = s + Len(k) - 1 /\ j + Len(k) <= Len(h)
    BY <2>9
  <2>7. ASSUME NEW i \in 1..Len(k) PROVE h[j + i] = k[i]
    <3>1. j + i \in 1..(n - 2) /\ j + i = s + i - 1
      BY <2>9
    <3> HIDE DEF j
    <3> QED BY <1>3, <2>1, <3>1
  <2> HIDE DEF j
  <2>8. SubSeq(h, j + 1, j + Len(k)) = k
    BY <1>3, <2>2, <2>6, <2>7, PartIs
  <2> QED BY <2>5, <2>6, <2>8 DEF k
<1>8. Line(h, 1) = f[1]
  BY <1>6, <1>7
<1>9. FieldLines(h) = [s \in DOMAIN f \ {1} |-> f[s]]
  <2>1. \A s \in DOMAIN f : f[s] # <<>>
    BY DEF Lines, IsLine
  <2>2. {s \in LineStarts(h) \ {1} : Line(h, s) # <<>>} = DOMAIN f \ {1}
    BY <1>6, <1>7, <2>1
  <2> QED BY <1>7, <2>2 DEF FieldLines
<1>10. Headers(FieldLines(h)) = [s \in DOMAIN f \ {1} |-> HeaderRanges(f[s])]
  BY <1>9 DEF Headers
<1>11. Len(h) + Len(HeaderDelim) = n + 2
  BY <1>0, <1>3, Delimiter
<1>12. (\A s \in DOMAIN FieldLines(h) : HasColon(FieldLines(h)[s])) <=> \A s \in DOMAIN f \ {1} : HasColon(f[s])
  BY <1>9
<1> QED BY <1>8, <1>10, <1>11, <1>12 DEF ParseLines, h, r

-----------------------------------------------------------------------------
\* Nothing in it is folded.
Smooth(b) == \A i \in 1..(Len(b) - 1) : ~FoldsAt(b, i)

\* Lines that do not begin with white space are not folded.
LEMMA JoinSmooth ==
  ASSUME NEW a \in Seq(Nat), NEW c \in Seq(Nat), Smooth(a), Smooth(c), c # <<>> => c[1] \notin {SP, HT}
  PROVE  a \o c \in Seq(Nat) /\ Smooth(a \o c)
<1> DEFINE u == a \o c
           n == Len(a)
           m == Len(c)
<1>1. /\ u \in Seq(Nat) /\ Len(u) = n + m /\ n \in Nat /\ m \in Nat
      /\ (\A i \in 1..n : u[i] = a[i]) /\ (\A i \in 1..m : u[n + i] = c[i])
  BY ConcatElements
<1> HIDE DEF u
<1>2. m # 0 => c[1] \notin {SP, HT}
  OBVIOUS
<1> HIDE DEF n, m
<1>3. ASSUME NEW i \in 1..(Len(u) - 1) PROVE ~FoldsAt(u, i)
  <2>1. CASE i \in 1..(n - 1)
    <3>1. u[i] = a[i] /\ u[i + 1] = a[i + 1]
      BY <1>1, <2>1
    <3>2. ~FoldsAt(a, i)
      BY <2>1 DEF Smooth, n
    <3> QED BY <3>1, <3>2 DEF FoldsAt
  <2>2. CASE i = n
    <3>1. u[n + 1] = c[1] /\ m # 0
      BY <1>1, <2>2
    <3> QED BY <1>2, <2>2, <3>1 DEF FoldsAt
  <2>3. CASE i > n
    <3> DEFINE j == i - n
    <3>1. j \in 1..(m - 1) /\ i = n + j /\ i + 1 = n + (j + 1) /\ j \in 1..m /\ j + 1 \in 1..m
      BY <1>1, <2>3
    <3> HIDE DEF j
    <3>2. u[i] = c[j] /\ u[i + 1] = c[j + 1]
      BY <1>1, <3>1
    <3>3. ~FoldsAt(c, j)
      BY <3>1 DEF Smooth, m
    <3> QED BY <3>2, <3>3 DEF FoldsAt
  <2> QED BY <1>1, <2>1, <2>2, <2>3
<1> QED BY <1>1, <1>3 DEF Smooth, u

\* The last line is one of them.
LEMMA SmoothEnd == Smooth(CRLF) /\ CRLF[1] \notin {SP, HT} /\ CRLF # <<>>
<1>1. \A i \in 1..(Len(CRLF) - 1) : i = 1
  BY EndOfLine
<1>2. CRLF[1] = CR
  BY EndOfLine
<1>3. CR # LF /\ CR \notin {SP, HT}
  BY DEF CR, LF, SP, HT
<1>4. ~FoldsAt(CRLF, 1)
  BY <1>2, <1>3 DEF FoldsAt
<1>5. Smooth(CRLF)
  BY <1>1, <1>4 DEF Smooth
<1>6. PICK c \in Seq(Nat) : c = CRLF
  BY EndOfLine
<1>7. c # <<>>
  BY <1>6, EndOfLine
<1> QED BY <1>2, <1>3, <1>5, <1>6, <1>7

\* Such lines are not folded.
LEMMA SmoothIs ==
  ASSUME NEW s \in Seq(Nat)
  PROVE  Smooth(s) <=> ~Folded(s)
BY FoldedIs DEF Smooth

\* A header as a line: what is in the value is not read as the end of it.
Field(name, value) == <<name, COLON, SP>> \o value

\* The bytes of a header line.
LEMMA FieldElements ==
  ASSUME NEW name \in Nat, NEW value \in Seq(Nat)
  PROVE  /\ Field(name, value) \in Seq(Nat) /\ Len(Field(name, value)) = 3 + Len(value)
         /\ Field(name, value)[1] = name /\ Field(name, value)[2] = COLON /\ Field(name, value)[3] = SP
         /\ \A i \in 1..Len(value) : Field(name, value)[3 + i] = value[i]
<1>0. COLON \in Nat /\ SP \in Nat
  BY DEF COLON, SP
<1>1. <<name, COLON, SP>> \in Seq(Nat)
  BY <1>0
<1>2. PICK t \in Seq(Nat) : t = <<name, COLON, SP>>
  BY <1>1
<1>3. Len(t) = 3 /\ t[1] = name /\ t[2] = COLON /\ t[3] = SP
  BY <1>2
<1>4. /\ t \o value \in Seq(Nat) /\ Len(t \o value) = Len(t) + Len(value)
      /\ \A i \in 1..Len(t) : (t \o value)[i] = t[i]
      /\ \A i \in 1..Len(value) : (t \o value)[Len(t) + i] = value[i]
  BY ConcatElements
<1>5. (t \o value)[1] = name /\ (t \o value)[2] = COLON /\ (t \o value)[3] = SP
  BY <1>3, <1>4
<1> QED BY <1>2, <1>3, <1>4, <1>5 DEF Field

\* A header line is a line.
LEMMA FieldLine ==
  ASSUME NEW name \in Nat, name >= Token, NEW value \in Seq(Nat), Cr(value) = {},
         value # <<>> => value[Len(value)] # CR
  PROVE  IsLine(Field(name, value))
<1> DEFINE l == Field(name, value)
           m == Len(value)
<1>1. /\ l \in Seq(Nat) /\ Len(l) = 3 + m /\ l[1] = name /\ l[2] = COLON /\ l[3] = SP
      /\ (\A i \in 1..m : l[3 + i] = value[i]) /\ m \in Nat
  <2>1. m \in Nat
    OBVIOUS
  <2> QED BY <2>1, FieldElements
<1> HIDE DEF l
<1>2. name # CR /\ COLON # CR /\ SP # CR
  BY DEF Token, CR, COLON, SP
<1>3. ASSUME NEW i \in Cr(l) PROVE FALSE
  <2>1. i \in 1..(Len(l) - 1) /\ l[i] = CR /\ l[i + 1] = LF
    BY DEF Cr
  <2>2. i > 3
    BY <1>1, <1>2, <2>1, SMTT(25)
  <2> DEFINE j == i - 3
  <2>3. j \in 1..(m - 1) /\ j \in 1..m /\ j + 1 \in 1..m /\ i = 3 + j /\ i + 1 = 3 + (j + 1)
    BY <1>1, <2>1, <2>2
  <2> HIDE DEF j
  <2>4. value[j] = CR /\ value[j + 1] = LF
    BY <1>1, <2>1, <2>3
  <2> QED BY <2>3, <2>4 DEF Cr
<1>4. l[Len(l)] # CR
  <2>1. CASE m = 0
    BY <1>1, <1>2, <2>1
  <2>2. CASE m # 0
    <3>1. value # <<>> /\ m \in 1..m
      BY <1>1, <2>2
    <3> QED BY <1>1, <3>1
  <2> QED BY <2>1, <2>2
<1>5. Len(l) >= 1
  BY <1>1
<1> QED BY <1>1, <1>3, <1>4, <1>5 DEF IsLine, l

\* A byte by itself, and where it is in a line.
LEMMA UnitIs ==
  ASSUME NEW x \in Nat
  PROVE  <<x>> \in Seq(Nat) /\ Len(<<x>>) = 1 /\ <<x>>[1] = x
OBVIOUS

\* Where a byte is in what begins with others.
LEMMA UnitAt ==
  ASSUME NEW l \in Seq(Nat), NEW i \in 1..Len(l)
  PROVE  SubSeq(l, i, i) = <<l[i]>>
<1>1. l[i] \in Nat /\ Len(l) \in Nat
  OBVIOUS
<1> DEFINE t == <<l[i]>>
           k == i - 1
<1>2. t \in Seq(Nat) /\ Len(t) = 1 /\ t[1] = l[i]
  BY <1>1, UnitIs
<1> HIDE DEF t
<1>3. k \in Nat /\ k + 1 = i /\ k + Len(t) = i /\ k + Len(t) <= Len(l)
  BY <1>1, <1>2
<1>4. \A x \in 1..Len(t) : l[k + x] = t[x]
  <2>1. \A x \in 1..Len(t) : x = 1
    BY <1>2
  <2> QED BY <1>2, <1>3, <2>1
<1> HIDE DEF k
<1>5. SubSeq(l, k + 1, k + Len(t)) = t
  BY <1>2, <1>3, <1>4, PartIs
<1> QED BY <1>3, <1>5 DEF t

\* Where a byte is in a buffer.
LEMMA FindOne ==
  ASSUME NEW l \in Seq(Nat), NEW c \in Nat
  PROVE  Occurrences(l, <<c>>) = {i \in 1..Len(l) : l[i] = c}
<1>1. Len(<<c>>) = 1 /\ Len(l) \in Nat
  OBVIOUS
<1>2. Occurrences(l, <<c>>) = {i \in 1..(Len(l) - 1 + 1) : SubSeq(l, i, i + 1 - 1) = <<c>>}
  BY <1>1 DEF Occurrences
<1>3. Len(l) - 1 + 1 = Len(l) /\ \A i \in 1..Len(l) : i + 1 - 1 = i
  BY <1>1
<1>4. Occurrences(l, <<c>>) = {i \in 1..Len(l) : SubSeq(l, i, i) = <<c>>}
  BY <1>2, <1>3
<1>5. \A i \in 1..Len(l) : SubSeq(l, i, i) = <<l[i]>>
  BY UnitAt
<1> QED BY <1>4, <1>5

\* A value has no white space around it to be trimmed.
LEMMA TrimPart ==
  ASSUME NEW w \in Seq(Nat), NEW k \in 1..Len(w), \A i \in 1..(k - 1) : w[i] \in {SP, HT},
         w[k] \notin {SP, HT}, w[Len(w)] \notin {SP, HT}
  PROVE  TrimOws(w) = SubSeq(w, k, Len(w))
<1> DEFINE T == {i \in DOMAIN w : w[i] \notin {SP, HT}}
           m == Len(w)
<1>0. m \in Nat /\ DOMAIN w = 1..m /\ m \in 1..m
  OBVIOUS
<1>1. k \in T /\ m \in T /\ T \subseteq k..m
  BY <1>0
<1> HIDE DEF T
<1>2. Min(T) = k
  <2>1. T \subseteq Int /\ \A y \in T : k <= y
    BY <1>1
  <2> QED BY <1>1, <2>1, MinIs
<1>3. Max(T) = m
  <2>1. T \subseteq 0..m /\ T # {}
    BY <1>0, <1>1
  <2> HIDE DEF m
  <2>2. Max(T) \in T /\ \A y \in T : y <= Max(T)
    BY <1>0, <2>1, MaxOf
  <2>3. PICK x : x = Max(T)
    OBVIOUS
  <2>4. x \in k..m /\ m <= x
    BY <1>1, <2>2, <2>3
  <2> QED BY <1>0, <2>3, <2>4
<1>4. TrimOws(w) = IF T = {} THEN <<>> ELSE SubSeq(w, Min(T), Max(T))
  BY DEF TrimOws, T
<1> QED BY <1>1, <1>2, <1>3, <1>4

\* trim_ows cuts nothing off a value, and the white space before it.
LEMMA TrimIs ==
  ASSUME NEW v, IsValue(v)
  PROVE  TrimOws(v) = v
<1>0. v \in Seq(Nat)
  BY DEF IsValue
<1>1. CASE v = <<>>
  BY <1>1 DEF TrimOws
<1>2. CASE v # <<>>
  <2>1. v[1] \notin {SP, HT} /\ v[Len(v)] \notin {SP, HT}
    BY <1>2 DEF IsValue
  <2>2. 1 \in 1..Len(v) /\ \A i \in 1..(1 - 1) : v[i] \in {SP, HT}
    BY <1>0, <1>2
  <2>3. TrimOws(v) = SubSeq(v, 1, Len(v))
    BY <1>0, <2>1, <2>2, TrimPart
  <2> QED BY <1>0, <2>3, SubSeqFull
<1> QED BY <1>1, <1>2

\* Read back, it is what it was.
LEMMA FieldIs ==
  ASSUME NEW name \in Nat, name >= Token, NEW value, IsValue(value), value # <<>>
  PROVE  /\ HasColon(Field(name, value)) /\ Smooth(Field(name, value))
         /\ Field(name, value)[1] \notin {SP, HT}
         /\ HeaderRanges(Field(name, value)) = [name |-> <<name>>, value |-> value]
<1> DEFINE l == Field(name, value)
           m == Len(value)
<1>0. /\ value \in Seq(Nat) /\ (\A i \in DOMAIN value : value[i] \notin {CR, LF})
      /\ value[1] \notin {SP, HT} /\ value[m] \notin {SP, HT}
  BY DEF IsValue
<1>1. /\ l \in Seq(Nat) /\ Len(l) = 3 + m /\ l[1] = name /\ l[2] = COLON /\ l[3] = SP
      /\ (\A i \in 1..m : l[3 + i] = value[i]) /\ m \in Nat
  <2>1. m \in Nat /\ value \in Seq(Nat)
    BY <1>0
  <2> QED BY <2>1, FieldElements
<1>2. m \in 1..m /\ 1 \in 1..m
  BY <1>0, <1>1
<1> HIDE DEF l
<1>3. name \notin {COLON, SP, HT, LF} /\ COLON # LF /\ SP # LF
  BY DEF Token, COLON, SP, HT, LF
<1>4. ASSUME NEW i \in 1..(Len(l) - 1) PROVE ~FoldsAt(l, i)
  <2>1. CASE i <= 3
    BY <1>1, <1>3, <2>1, SMTT(25) DEF FoldsAt
  <2>2. CASE i > 3
    <3>1. i - 3 \in 1..m /\ i = 3 + (i - 3)
      BY <1>1, <2>2
    <3>2. value[i - 3] # LF
      BY <1>0, <3>1
    <3>3. l[i] = value[i - 3]
      BY <1>1, <3>1
    <3> QED BY <3>2, <3>3 DEF FoldsAt
  <2> QED BY <2>1, <2>2
<1> DEFINE O == Occurrences(l, <<COLON>>)
<1>5. 2 \in O /\ O \subseteq Int /\ \A i \in O : 2 <= i
  <2>1. COLON \in Nat
    BY DEF COLON
  <2>4. O = {i \in 1..Len(l) : l[i] = COLON}
    BY <1>1, <2>1, FindOne
  <2> HIDE DEF O
  <2>5. 2 \in O
    BY <1>1, <2>4
  <2>6. \A i \in O : i \in Int /\ i # 1 /\ i >= 1
    BY <1>1, <1>3, <2>4
  <2> QED BY <2>5, <2>6
<1>6. Min(O) = 2
  <2> HIDE DEF O
  <2> QED BY <1>5, MinIs
<1>7. SubSeq(l, 1, 1) = <<name>>
  <2>1. 1 \in 1..Len(l)
    BY <1>1
  <2> QED BY <1>1, <2>1, UnitAt
<1> DEFINE w == SubSeq(l, 3, Len(l))
<1>8. w \in Seq(Nat) /\ Len(w) = 1 + m /\ w[1] = SP /\ \A i \in 1..m : w[1 + i] = value[i]
  <2>1. PICK k \in 0..Len(l) : k = 2
    BY <1>1
  <2>2. /\ SubSeq(l, k + 1, Len(l)) \in Seq(Nat) /\ Len(SubSeq(l, k + 1, Len(l))) = Len(l) - k
        /\ \A i \in 1..(Len(l) - k) : SubSeq(l, k + 1, Len(l))[i] = l[k + i]
    BY <1>1, CutSeq
  <2>3. w \in Seq(Nat) /\ Len(w) = 1 + m /\ \A i \in 1..(1 + m) : w[i] = l[2 + i]
    BY <1>1, <2>1, <2>2
  <2> HIDE DEF w
  <2>4. ASSUME NEW i \in 1..m PROVE w[1 + i] = value[i]
    <3>1. 1 + i \in 1..(1 + m) /\ 2 + (1 + i) = 3 + i
      BY <1>1
    <3> QED BY <1>1, <2>3, <3>1
  <2>5. w[1] = SP
    BY <1>1, <2>3
  <2> QED BY <2>3, <2>4, <2>5
<1> HIDE DEF w
<1>9. TrimOws(w) = value
  <2>1. w[2] = value[1] /\ w[1 + m] = value[m] /\ 2 \in 1..(1 + m) /\ 1 + m \in 1..(1 + m)
    <3> HIDE DEF m
    <3>1. w[1 + 1] = value[1] /\ w[1 + m] = value[m]
      BY <1>2, <1>8
    <3> QED BY <1>1, <1>2, <3>1
  <2>2. \A i \in 1..(2 - 1) : w[i] \in {SP, HT}
    BY <1>8
  <2>5. TrimOws(w) = SubSeq(w, 2, 1 + m)
    <3>1. PICK n : n = Len(w)
      OBVIOUS
    <3>2. n = 1 + m
      BY <1>8, <3>1
    <3>3. 2 \in 1..Len(w) /\ w[2] \notin {SP, HT} /\ w[Len(w)] \notin {SP, HT}
      BY <1>0, <1>8, <2>1
    <3>4. TrimOws(w) = SubSeq(w, 2, Len(w))
      BY <1>8, <2>2, <3>3, TrimPart
    <3> QED BY <3>1, <3>2, <3>4
  <2>6. SubSeq(w, 1 + 1, 1 + m) = value
    BY <1>0, <1>1, <1>8, PartIs
  <2> QED BY <2>5, <2>6
<1>10. HasColon(l)
  BY <1>5 DEF HasColon
<1>11. HeaderRanges(l) = [name |-> <<name>>, value |-> value]
  <2>1. HeaderRanges(l) = [name |-> SubSeq(l, 1, Min(O) - 1), value |-> TrimOws(SubSeq(l, Min(O) + 1, Len(l)))]
    BY DEF HeaderRanges
  <2> HIDE DEF O
  <2>2. HeaderRanges(l) = [name |-> SubSeq(l, 1, 1), value |-> TrimOws(SubSeq(l, 3, Len(l)))]
    BY <1>6, <2>1
  <2> QED BY <1>7, <1>9, <2>2 DEF w
<1> QED BY <1>1, <1>3, <1>4, <1>10, <1>11 DEF Smooth, l

-----------------------------------------------------------------------------
\* A rendered head without the empty line: its first line, and by name what its
\* headers say, which is not empty.
Silent == [n \in Nat |-> <<>>]

\* The lines f are a first line and headers with these values.
Says(f, first, V) ==
  /\ 1 \in DOMAIN f /\ f[1] = first /\ V \in [Nat -> Seq(Nat)]
  /\ \A s \in DOMAIN f \ {1} :
       HasColon(f[s]) /\ \E n \in Nat : V[n] # <<>> /\ HeaderRanges(f[s]) = [name |-> <<n>>, value |-> V[n]]
  /\ \A n \in Nat : V[n] # <<>> => \E s \in DOMAIN f \ {1} : HeaderRanges(f[s]).name = <<n>>

Block(b, first, V) == Smooth(b) /\ \E f : Lines(b, f) /\ Says(f, first, V)

\* A header line put behind the lines.
LEMMA AddAnyHeader ==
  ASSUME NEW b, NEW f, Lines(b, f), NEW name \in Nat, name >= Token, NEW value \in Seq(Nat),
         Cr(value) = {}, value # <<>> => value[Len(value)] # CR
  PROVE  /\ Header(name, value) = Field(name, value) \o CRLF
         /\ Lines(b \o Header(name, value), Plus(f, Len(b) + 1, Field(name, value)))
         /\ Len(b \o Header(name, value)) = Len(b) + 5 + Len(value)
<1>1. Header(name, value) = Field(name, value) \o CRLF
  BY DEF Header, Field
<1>2. IsLine(Field(name, value))
  BY FieldLine
<1>3. Lines(b \o (Field(name, value) \o CRLF), Plus(f, Len(b) + 1, Field(name, value)))
      /\ Len(b \o (Field(name, value) \o CRLF)) = Len(b) + Len(Field(name, value)) + 2
  <2>1. PICK l : l = Field(name, value)
    OBVIOUS
  <2>2. IsLine(l)
    BY <1>2, <2>1
  <2>3. Lines(b \o (l \o CRLF), Plus(f, Len(b) + 1, l)) /\ Len(b \o (l \o CRLF)) = Len(b) + Len(l) + 2
    BY <2>2, AddLine
  <2> QED BY <2>1, <2>3
<1>4. Len(Field(name, value)) = 3 + Len(value)
  BY FieldElements
<1>5. Len(b) \in Nat /\ Len(value) \in Nat
  BY DEF Lines
<1> QED BY <1>1, <1>3, <1>4, <1>5

\* A value ends in no white space.
LEMMA ValueEnds ==
  ASSUME NEW v, IsValue(v)
  PROVE  v \in Seq(Nat) /\ Cr(v) = {} /\ (v # <<>> => v[Len(v)] # CR)
<1>1. v \in Seq(Nat) /\ \A i \in DOMAIN v : v[i] \notin {CR, LF}
  BY DEF IsValue
<1>2. DOMAIN v = 1..Len(v) /\ Len(v) \in Nat
  BY <1>1
<1>3. Cr(v) = {}
  BY <1>1, <1>2 DEF Cr
<1>4. v # <<>> => Len(v) \in 1..Len(v)
  BY <1>1
<1> QED BY <1>1, <1>2, <1>3, <1>4

\* Two bytes are equal as sequences of one.
LEMMA SameUnit ==
  ASSUME NEW x \in Nat, NEW y \in Nat, <<x>> = <<y>>
  PROVE  x = y
OBVIOUS

\* A header that render functions add, when its name is new.
LEMMA AddHeader ==
  ASSUME NEW b, NEW first, NEW V, Block(b, first, V), NEW name \in Nat, name >= Token, V[name] = <<>>,
         NEW value, IsValue(value), value # <<>>
  PROVE  /\ Block(b \o Header(name, value), first, [V EXCEPT ![name] = value])
         /\ Len(b \o Header(name, value)) = Len(b) + 5 + Len(value)
<1>1. PICK f : Lines(b, f) /\ Says(f, first, V)
  BY DEF Block
<1> DEFINE l == Field(name, value)
           s0 == Len(b) + 1
           g == Plus(f, s0, l)
           W == [V EXCEPT ![name] = value]
           u == b \o Header(name, value)
<1>2. value \in Seq(Nat) /\ Cr(value) = {} /\ value[Len(value)] # CR
  BY ValueEnds
<1>3. Header(name, value) = l \o CRLF /\ Lines(u, g) /\ Len(u) = Len(b) + 5 + Len(value)
  BY <1>1, <1>2, AddAnyHeader
<1>4. HasColon(l) /\ Smooth(l) /\ l[1] \notin {SP, HT} /\ HeaderRanges(l) = [name |-> <<name>>, value |-> value]
  BY FieldIs
<1>5. l \in Seq(Nat) /\ b \in Seq(Nat) /\ l # <<>>
  <2>1. l \in Seq(Nat) /\ Len(l) = 3 + Len(value) /\ Len(value) \in Nat
    BY <1>2, FieldElements
  <2>2. b \in Seq(Nat)
    BY <1>1 DEF Lines
  <2> QED BY <2>1, <2>2
<1> HIDE DEF l
<1>6. Smooth(u)
  <2>1. CRLF \in Seq(Nat)
    BY EndOfLine
  <2>2. l \o CRLF \in Seq(Nat) /\ Smooth(l \o CRLF)
    BY <1>4, <1>5, <2>1, SmoothEnd, JoinSmooth
  <2>3. (l \o CRLF)[1] = l[1]
    <3>1. 1 \in 1..Len(l)
      BY <1>5
    <3> QED BY <1>5, <2>1, <3>1, ConcatElements
  <2>4. PICK t \in Seq(Nat) : t = l \o CRLF
    BY <2>2
  <2>5. Smooth(b) /\ Smooth(t) /\ t[1] \notin {SP, HT}
    BY <1>4, <2>2, <2>3, <2>4 DEF Block
  <2>6. Smooth(b \o t)
    BY <1>5, <2>5, JoinSmooth
  <2> QED BY <1>3, <2>4, <2>6
<1>7. /\ 1 \in DOMAIN f /\ f[1] = first /\ V \in [Nat -> Seq(Nat)]
      /\ DOMAIN f \subseteq 1..Len(b) /\ Len(b) \in Nat
  <2>1. 1 \in DOMAIN f /\ f[1] = first /\ V \in [Nat -> Seq(Nat)]
    BY <1>1 DEF Says
  <2>2. DOMAIN f \subseteq 1..Len(b)
    BY <1>1 DEF Lines
  <2>3. Len(b) \in Nat
    BY <1>5
  <2> QED BY <2>1, <2>2, <2>3
<1>8. DOMAIN g = DOMAIN f \cup {s0} /\ g[s0] = l /\ s0 # 1 /\ s0 \notin DOMAIN f /\ \A s \in DOMAIN f : g[s] = f[s]
  <2>1. s0 \notin DOMAIN f /\ s0 # 1
    <3>1. PICK n \in Nat : n = Len(b)
      BY <1>7
    <3>2. 1 \in 1..n /\ DOMAIN f \subseteq 1..n
      BY <1>7, <3>1, Zenon
    <3>3. n + 1 \notin 1..n /\ n + 1 # 1
      BY <3>2
    <3> QED BY <3>1, <3>2, <3>3, Zenon
  <2> HIDE DEF s0
  <2>2. /\ DOMAIN g = DOMAIN f \cup {s0}
        /\ \A x \in DOMAIN f \cup {s0} : g[x] = IF x = s0 THEN l ELSE f[x]
    BY DEF Plus
  <2> QED BY <2>1, <2>2
<1> HIDE DEF g, s0
<1>9. W \in [Nat -> Seq(Nat)] /\ W[name] = value /\ \A n \in Nat : n # name => W[n] = V[n]
  BY <1>2, <1>7
<1> HIDE DEF W
<1>10. ASSUME NEW s \in DOMAIN g \ {1}
       PROVE  HasColon(g[s]) /\ \E n \in Nat : W[n] # <<>> /\ HeaderRanges(g[s]) = [name |-> <<n>>, value |-> W[n]]
  <2>1. CASE s = s0
    BY <1>4, <1>8, <1>9, <2>1
  <2>2. CASE s \in DOMAIN f \ {1}
    <3>1. HasColon(f[s]) /\ \E n \in Nat : V[n] # <<>> /\ HeaderRanges(f[s]) = [name |-> <<n>>, value |-> V[n]]
      BY <1>1, <2>2 DEF Says
    <3>2. PICK n \in Nat : V[n] # <<>> /\ HeaderRanges(f[s]) = [name |-> <<n>>, value |-> V[n]]
      BY <3>1
    <3>3. W[n] = V[n]
      BY <1>9, <3>2
    <3>4. W[n] # <<>> /\ HeaderRanges(g[s]) = [name |-> <<n>>, value |-> W[n]]
      BY <1>8, <2>2, <3>2, <3>3
    <3> QED BY <1>8, <2>2, <3>1, <3>4
  <2> QED BY <1>8, <2>1, <2>2
<1>11. ASSUME NEW n \in Nat, W[n] # <<>>
       PROVE  \E s \in DOMAIN g \ {1} : HeaderRanges(g[s]).name = <<n>>
  <2>1. CASE n = name
    <3>1. s0 \in DOMAIN g \ {1} /\ HeaderRanges(g[s0]).name = <<n>>
      BY <1>4, <1>8, <2>1
    <3> QED BY <3>1
  <2>2. CASE n # name
    <3>1. PICK s \in DOMAIN f \ {1} : HeaderRanges(f[s]).name = <<n>>
      BY <1>1, <1>9, <1>11, <2>2 DEF Says
    <3> QED BY <1>8, <3>1
  <2> QED BY <2>1, <2>2
<1>12. Says(g, first, W)
  <2>1. 1 \in DOMAIN g /\ g[1] = first
    BY <1>7, <1>8
  <2> QED BY <1>9, <1>10, <1>11, <2>1 DEF Says
<1>13. Block(u, first, W)
  BY <1>3, <1>6, <1>12 DEF Block
<1> QED BY <1>3, <1>13 DEF W, u

\* The first line by itself.
LEMMA FirstBlock ==
  ASSUME NEW l, IsLine(l), Smooth(l)
  PROVE  Block(l \o CRLF, l, Silent) /\ Len(l \o CRLF) = Len(l) + 2
<1> DEFINE f0 == [x \in {} |-> <<>>]
           t == l \o CRLF
<1>1. l \in Seq(Nat) /\ CRLF \in Seq(Nat)
  BY EndOfLine DEF IsLine
<1>2. t \in Seq(Nat) /\ Smooth(t)
  BY <1>1, SmoothEnd, JoinSmooth
<1>3. Lines(<<>> \o (l \o CRLF), Plus(f0, Len(<<>>) + 1, l)) /\ Len(<<>> \o (l \o CRLF)) = Len(<<>>) + Len(l) + 2
  <2>1. Lines(<<>>, f0)
    BY NoLines
  <2> HIDE DEF f0
  <2> QED BY <2>1, AddLine
<1>4. <<>> \o t = t
  <2> HIDE DEF t
  <2> QED BY <1>2
<1>5. Len(<<>>) = 0
  OBVIOUS
<1>6. Len(l) \in Nat
  BY <1>1
<1> DEFINE g == Plus(f0, 1, l)
<1>7. Lines(t, g) /\ Len(t) = Len(l) + 2
  <2> HIDE DEF f0
  <2> QED BY <1>3, <1>4, <1>5, <1>6
<1>8. DOMAIN g = {1} /\ g[1] = l
  BY DEF Plus
<1> HIDE DEF g
<1>9. Says(g, l, Silent)
  <2>1. Silent \in [Nat -> Seq(Nat)] /\ \A n \in Nat : Silent[n] = <<>>
    BY DEF Silent
  <2> QED BY <1>8, <2>1 DEF Says
<1>10. Block(t, l, Silent)
  BY <1>2, <1>7, <1>9 DEF Block
<1> QED BY <1>7, <1>10

\* Parsed, such a head says what was rendered.
IsFirst(line, isResponse) == IF isResponse THEN IsStatusLine(line) ELSE IsRequestLine(line)

\* r is a head that is parsed to a first line and these headers.
IsHead(r, isResponse, first, V) ==
  /\ r \in Seq(Nat) /\ HeadEnds(r) = {Len(r)} /\ ~Folded(r)
  /\ Len(r) <= MaxHead =>
       LET h == ParseHead(r, isResponse)
       IN  /\ h.kind = "head" /\ h.first = first /\ h.consumed = Len(r)
           /\ \A n \in Nat : Get(h.headers, n) = V[n]

\* Lines and an empty one make such a head.
LEMMA ParsedBlock ==
  ASSUME NEW b, NEW first, NEW V, Block(b, first, V), NEW isResponse, IsFirst(first, isResponse)
  PROVE  Len(b \o CRLF) = Len(b) + 2 /\ IsHead(b \o CRLF, isResponse, first, V)
<1> DEFINE r == b \o CRLF
<1>1. PICK f : Lines(b, f) /\ Says(f, first, V)
  BY DEF Block
<1>2. b \in Seq(Nat) /\ 1 \in DOMAIN f /\ f[1] = first /\ DOMAIN f \subseteq 1..Len(b) /\ Len(b) \in Nat /\ Smooth(b)
  <2>1. 1 \in DOMAIN f /\ f[1] = first
    BY <1>1 DEF Says
  <2>2. b \in Seq(Nat) /\ DOMAIN f \subseteq 1..Len(b)
    BY <1>1 DEF Lines
  <2>3. Len(b) \in Nat
    BY <2>2
  <2>4. Smooth(b)
    BY DEF Block
  <2> QED BY <2>1, <2>2, <2>3, <2>4
<1>3. Len(b) > 0
  BY <1>2
<1>4. /\ r \in Seq(Nat) /\ Len(r) = Len(b) + 2 /\ Delims(r) = {Len(b) - 1} /\ HeadEnds(r) = {Len(r)}
      /\ Len(b) - 1 \in Cr(b)
  BY <1>1, <1>3, OneHead
<1>5. Smooth(r)
  <2>1. CRLF \in Seq(Nat)
    BY EndOfLine
  <2> QED BY <1>2, <2>1, SmoothEnd, JoinSmooth
<1>6. ~Folded(r)
  BY <1>4, <1>5, SmoothIs
<1> DEFINE m == Len(b) - 1
           head == SubSeq(r, 1, Len(b) - 2)
<1>7. ParseLines(head, isResponse) =
           IF /\ IF isResponse THEN IsStatusLine(f[1]) ELSE IsRequestLine(f[1])
              /\ \A s \in DOMAIN f \ {1} : HasColon(f[s])
           THEN [kind |-> "head", first |-> f[1],
                 headers |-> [s \in DOMAIN f \ {1} |-> HeaderRanges(f[s])], consumed |-> Len(b) + 2]
           ELSE Malformed
  BY <1>1, <1>3, ParsedHead
<1>8. /\ m - 1 = Len(b) - 2 /\ m \in Delims(r) /\ (\A d \in Delims(r) : m <= d)
      /\ m - 1 \in 0..Len(r)
  <2>1. m \in 1..(Len(b) - 1)
    BY <1>4 DEF Cr
  <2> QED BY <1>2, <1>4, <2>1
<1> HIDE DEF r, head
<1>9. ~Folded(head)
  <2>1. PICK k \in 0..Len(r) : k = m - 1
    BY <1>8
  <2>2. SubSeq(r, 1, k) \in Seq(Nat) /\ Begins(SubSeq(r, 1, k), r)
    BY <1>4, CutBegins
  <2>3. head = SubSeq(r, 1, k)
    BY <1>8, <2>1 DEF head
  <2> QED BY <1>4, <1>6, <2>2, <2>3, FoldedBegins
<1> DEFINE hs == [s \in DOMAIN f \ {1} |-> HeaderRanges(f[s])]
           rec == [kind |-> "head", first |-> first, headers |-> hs, consumed |-> Len(b) + 2]
<1>10. ParseLines(head, isResponse) = rec
  <2>1. \A s \in DOMAIN f \ {1} : HasColon(f[s])
    BY <1>1 DEF Says
  <2> HIDE DEF hs
  <2>2. ParseLines(head, isResponse) =
           IF /\ IF isResponse THEN IsStatusLine(first) ELSE IsRequestLine(first)
              /\ \A s \in DOMAIN f \ {1} : HasColon(f[s])
           THEN rec ELSE Malformed
    BY <1>2, <1>7 DEF hs, IsFirst
  <2> HIDE DEF rec
  <2> QED BY <2>1, <2>2 DEF IsFirst
<1>11. ASSUME Len(r) <= MaxHead PROVE ParseHead(r, isResponse) = rec
  <2>1. ParseHead(r, isResponse) =
           IF Len(r) > MaxHead \/ Folded(SubSeq(r, 1, m - 1)) THEN Malformed
           ELSE ParseLines(SubSeq(r, 1, m - 1), isResponse)
    <3> HIDE DEF m
    <3> QED BY <1>4, <1>8, HeadDone, ZenonT(40)
  <2>2. ~(Len(r) > MaxHead) /\ SubSeq(r, 1, m - 1) = head
    <3>1. Len(r) \in Nat
      BY <1>2, <1>4
    <3> QED BY <1>8, <1>11, <3>1, HttpHeadAssumption DEF head
  <2> HIDE DEF rec, m
  <2> QED BY <1>9, <1>10, <2>1, <2>2
<1>12. ASSUME NEW n \in Nat PROVE Get(hs, n) = V[n]
  <2> DEFINE named == {i \in DOMAIN hs : hs[i].name = <<n>>}
  <2>1. ASSUME NEW i \in named PROVE hs[i].value = V[n]
    <3>1. i \in DOMAIN f \ {1} /\ hs[i] = HeaderRanges(f[i])
      OBVIOUS
    <3>2. PICK x \in Nat : HeaderRanges(f[i]) = [name |-> <<x>>, value |-> V[x]]
      BY <1>1, <3>1 DEF Says
    <3>3. <<x>> = <<n>>
      BY <3>1, <3>2
    <3>4. x = n
      BY <3>3, SameUnit
    <3> QED BY <3>1, <3>2, <3>4
  <2>2. named \subseteq Nat
    BY <1>2
  <2>3. CASE named = {}
    <3>1. V[n] = <<>>
      BY <1>1, <2>3 DEF Says
    <3>2. Get(hs, n) = <<>>
      <4> HIDE DEF hs
      <4> QED BY <2>3 DEF Get
    <3> QED BY <3>1, <3>2
  <2>4. CASE named # {}
    <3>1. Get(hs, n) = hs[Min(named)].value
      <4> HIDE DEF hs
      <4> QED BY <2>4 DEF Get
    <3>2. Min(named) \in named
      <4> HIDE DEF named
      <4> QED BY <2>2, <2>4, MinOf
    <3>3. PICK i \in named : i = Min(named)
      BY <3>2
    <3> HIDE DEF hs, named
    <3> QED BY <2>1, <3>1, <3>3
  <2> QED BY <2>3, <2>4
<1>13. rec.kind = "head" /\ rec.first = first /\ rec.consumed = Len(r) /\ rec.headers = hs
  <2> HIDE DEF hs
  <2> QED BY <1>4
<1> HIDE DEF rec, hs
<1>14. Len(r) <= MaxHead => ParseHead(r, isResponse) = rec
  BY <1>11
<1>15. IsHead(r, isResponse, first, V)
  BY <1>4, <1>6, <1>12, <1>13, <1>14 DEF IsHead
<1> QED BY <1>4, <1>15 DEF r

-----------------------------------------------------------------------------
\* A value without a comma is one element.
LEMMA OneElement ==
  ASSUME NEW v, IsValue(v), \A i \in DOMAIN v : v[i] # COMMA
  PROVE  Elements(v) = {v}
<1> DEFINE n == Len(v)
           cuts == {0, n + 1} \cup Occurrences(v, <<COMMA>>)
           next(i) == CHOOSE j \in cuts : j > i /\ \A k \in cuts : k > i => k >= j
<1>0. v \in Seq(Nat) /\ n \in Nat /\ DOMAIN v = 1..n
  BY DEF IsValue
<1>1. Occurrences(v, <<COMMA>>) = {}
  <2>1. COMMA \in Nat
    BY DEF COMMA
  <2>2. Occurrences(v, <<COMMA>>) = {i \in 1..n : v[i] = COMMA}
    BY <1>0, <2>1, FindOne
  <2> QED BY <1>0, <2>2
<1>2. cuts = {0, n + 1}
  BY <1>1
<1>3. Elements(v) = {TrimOws(SubSeq(v, i + 1, next(i) - 1)) : i \in cuts \ {n + 1}}
  BY DEF Elements
<1> HIDE DEF cuts, n
<1>4. cuts \ {n + 1} = {0}
  BY <1>0, <1>2
<1>5. next(0) = n + 1
  <2>1. \A j \in cuts : (j > 0 /\ \A k \in cuts : k > 0 => k >= j) => j = n + 1
    BY <1>0, <1>2
  <2>2. n + 1 \in cuts /\ n + 1 > 0 /\ \A k \in cuts : k > 0 => k >= n + 1
    BY <1>0, <1>2
  <2> QED BY <2>1, <2>2
<1> HIDE DEF next
<1>6. Elements(v) = {TrimOws(SubSeq(v, 0 + 1, next(0) - 1))}
  BY <1>3, <1>4
<1>7. 0 + 1 = 1 /\ next(0) - 1 = n
  BY <1>0, <1>5
<1>8. SubSeq(v, 1, n) = v
  BY <1>0, SubSeqFull DEF n
<1>9. TrimOws(v) = v
  BY TrimIs
<1> QED BY <1>6, <1>7, <1>8, <1>9

\* No extensions are a value that negotiates nothing.
LEMMA NoValue == IsValue(<<>>) /\ Elements(<<>>) = {<<>>} /\ DeflateElement(<<>>) = <<>> /\ ~Refused(<<>>)
<1>0. <<>> \in Seq(Nat)
  OBVIOUS
<1>1. PICK v \in Seq(Nat) : v = <<>>
  BY <1>0
<1>2. Len(v) = 0 /\ DOMAIN v = {}
  BY <1>1
<1>3. IsValue(v)
  BY <1>1, <1>2 DEF IsValue
<1>4. Elements(v) = {v}
  BY <1>2, <1>3, OneElement
<1>5. DeflateElement(v) = <<>>
  <2>1. {x \in Elements(v) : x # <<>> /\ x[1] = Deflate} = {}
    BY <1>1, <1>4
  <2> QED BY <2>1 DEF DeflateElement
<1>6. ~Refused(v)
  <2>1. ~Contains(v, SmallWindow)
    BY <1>2 DEF Contains
  <2> QED BY <1>1, <1>5, <2>1 DEF Refused
<1> QED BY <1>1, <1>3, <1>4, <1>5, <1>6

\* Words as values.
LEMMA UnitValue ==
  ASSUME NEW x \in Nat, x >= Token
  PROVE  IsValue(<<x>>) /\ <<x>> # <<>> /\ Elements(<<x>>) = {<<x>>}
<1>1. <<x>> \in Seq(Nat) /\ Len(<<x>>) = 1 /\ <<x>>[1] = x /\ DOMAIN <<x>> = {1} /\ <<x>> # <<>>
  OBVIOUS
<1>2. x \notin {CR, LF, SP, HT, COMMA}
  BY DEF Token, CR, LF, SP, HT, COMMA
<1>3. PICK v \in Seq(Nat) : v = <<x>>
  BY <1>1
<1>4. Len(v) = 1 /\ v[1] = x /\ DOMAIN v = {1} /\ v # <<>>
  BY <1>1, <1>3
<1>5. IsValue(v)
  BY <1>2, <1>4 DEF IsValue
<1>6. Elements(v) = {v}
  BY <1>2, <1>4, <1>5, OneElement
<1> QED BY <1>3, <1>4, <1>5, <1>6

\* What our server answers to an offer.
NoTakeover == <<Deflate, ClientNoContext, ServerNoContext>>

\* What server_accept answers to an offer, and what client_codec makes of it.
LEMMA NoTakeoverIs ==
  /\ IsValue(NoTakeover) /\ NoTakeover # <<>> /\ DeflateElement(NoTakeover) = NoTakeover
  /\ ~Refused(NoTakeover)
  /\ Contains(NoTakeover, ClientNoContext) /\ Contains(NoTakeover, ServerNoContext)
  /\ ServerAccept(<<Deflate>>) = NoTakeover
<1>0. /\ Deflate \in Nat /\ ClientNoContext \in Nat /\ ServerNoContext \in Nat
      /\ Deflate \notin {CR, LF, SP, HT, COMMA} /\ ClientNoContext \notin {CR, LF, SP, HT, COMMA}
      /\ ServerNoContext \notin {CR, LF, SP, HT, COMMA} /\ Deflate >= Token
      /\ SmallWindow \notin {Deflate, ClientNoContext, ServerNoContext}
  BY DEF Deflate, ClientNoContext, ServerNoContext, SmallWindow, Token, CR, LF, SP, HT, COMMA
<1>1. /\ NoTakeover \in Seq(Nat) /\ Len(NoTakeover) = 3 /\ NoTakeover # <<>>
      /\ NoTakeover[1] = Deflate /\ NoTakeover[2] = ClientNoContext /\ NoTakeover[3] = ServerNoContext
  BY <1>0 DEF NoTakeover
<1>2. PICK v \in Seq(Nat) : v = NoTakeover
  BY <1>1
<1>3. Len(v) = 3 /\ v # <<>> /\ v[1] = Deflate /\ v[2] = ClientNoContext /\ v[3] = ServerNoContext /\ DOMAIN v = 1..3
  BY <1>1, <1>2
<1>4. IsValue(v) /\ \A i \in DOMAIN v : v[i] # COMMA
  <2>1. \A i \in 1..3 : v[i] \notin {CR, LF, SP, HT, COMMA}
    BY <1>0, <1>3
  <2> QED BY <1>3, <2>1 DEF IsValue
<1>5. Elements(v) = {v}
  BY <1>4, OneElement
<1>6. DeflateElement(v) = v
  <2>1. {x \in Elements(v) : x # <<>> /\ x[1] = Deflate} = {v}
    BY <1>3, <1>5
  <2> QED BY <2>1 DEF DeflateElement
<1>7. Contains(v, ClientNoContext) /\ Contains(v, ServerNoContext) /\ ~Contains(v, SmallWindow)
  BY <1>0, <1>3 DEF Contains
<1>8. ~Refused(v)
  BY <1>6, <1>7 DEF Refused
<1>9. ServerAccept(<<Deflate>>) = NoTakeover
  <2>1. Elements(<<Deflate>>) = {<<Deflate>>} /\ <<Deflate>> # <<>> /\ <<Deflate>>[1] = Deflate
    BY <1>0, UnitValue
  <2>2. PICK u : u = <<Deflate>>
    OBVIOUS
  <2>3. {x \in Elements(u) : x # <<>> /\ x[1] = Deflate} = {u} /\ u # <<>>
    <3>1. u # <<>> /\ u[1] = Deflate
      BY <2>1, <2>2
    <3>2. Elements(u) = {u}
      BY <2>1, <2>2
    <3> QED BY <3>1, <3>2
  <2>4. DeflateElement(u) # <<>>
    BY <2>3 DEF DeflateElement
  <2> QED BY <2>2, <2>4 DEF ServerAccept, NoTakeover
<1> QED BY <1>2, <1>3, <1>4, <1>6, <1>7, <1>8, <1>9

-----------------------------------------------------------------------------
\* The first lines of our own heads.
RequestLine == <<GET, SP, SLASH, SP, HTTP11>>
StatusLine  == <<HTTP11, SP, Status + 101, SP>>

\* The request line is one.
LEMMA RequestLineIs ==
  IsLine(RequestLine) /\ Smooth(RequestLine) /\ IsRequestLine(RequestLine) /\ RequestMethod(RequestLine) = <<GET>>
<1>0. /\ GET \in Nat /\ SP \in Nat /\ SLASH \in Nat /\ HTTP11 \in Nat /\ GET > HTTP11
      /\ GET \notin {CR, LF, SP} /\ SP \notin {CR, LF} /\ SLASH \notin {CR, LF, SP} /\ HTTP11 \notin {CR, LF, SP}
  BY DEF GET, SP, SLASH, HTTP11, Token, CR, LF
<1>1. /\ RequestLine \in Seq(Nat) /\ Len(RequestLine) = 5 /\ RequestLine[1] = GET /\ RequestLine[2] = SP
      /\ RequestLine[3] = SLASH /\ RequestLine[4] = SP /\ RequestLine[5] = HTTP11
  BY <1>0 DEF RequestLine
<1>2. PICK l \in Seq(Nat) : l = RequestLine
  BY <1>1
<1>3. Len(l) = 5 /\ l[1] = GET /\ l[2] = SP /\ l[3] = SLASH /\ l[4] = SP /\ l[5] = HTTP11
  BY <1>1, <1>2
<1>4. \A i \in 1..5 : l[i] \notin {CR, LF}
  BY <1>0, <1>3
<1>5. IsLine(l)
  <2>1. Cr(l) = {}
    BY <1>3, <1>4 DEF Cr
  <2>2. l[Len(l)] # CR
    BY <1>0, <1>3
  <2> QED BY <1>3, <2>1, <2>2 DEF IsLine
<1>6. Smooth(l)
  BY <1>3, <1>4 DEF Smooth, FoldsAt
<1> DEFINE spaces == Occurrences(l, <<SP>>)
<1>7. spaces = {2, 4}
  <2>1. spaces = {i \in 1..Len(l) : l[i] = SP}
    BY <1>0, FindOne
  <2> QED BY <1>0, <1>3, <2>1, SMTT(25)
<1> HIDE DEF spaces
<1>8. Min(spaces) = 2
  BY <1>7, MinIs, SMTT(25)
<1>9. Min(spaces \ {2}) = 4
  <2>1. spaces \ {2} = {4}
    BY <1>7
  <2>2. 4 \in {4} /\ {4} \subseteq Int /\ \A y \in {4} : 4 <= y
    OBVIOUS
  <2>3. Min({4}) = 4
    BY <2>2, MinIs
  <2> QED BY <2>1, <2>3
<1>10. Cardinality(spaces) = 2
  <2>1. IsFiniteSet({2}) /\ Cardinality({2}) = 1
    BY FS_Singleton
  <2>2. Cardinality({2} \cup {4}) = 2
    <3>1. Cardinality({2} \cup {4}) = IF 4 \in {2} THEN Cardinality({2}) ELSE Cardinality({2}) + 1
      BY <2>1, FS_AddElement
    <3>2. 4 \notin {2}
      OBVIOUS
    <3>3. Cardinality({2} \cup {4}) = Cardinality({2}) + 1
      BY <3>1, <3>2
    <3>4. \A n : n = 1 => n + 1 = 2
      OBVIOUS
    <3> QED BY <2>1, <3>3, <3>4, Zenon
  <2>3. spaces = {2} \cup {4}
    BY <1>7
  <2> QED BY <2>2, <2>3
<1>11. SubSeq(l, 1, 1) = <<GET>> /\ SubSeq(l, 5, 5) = <<HTTP11>>
  <2>1. 1 \in 1..Len(l) /\ 5 \in 1..Len(l)
    BY <1>3
  <2> QED BY <1>3, <2>1, UnitAt
<1>12. IsRequestLine(l)
  <2>1. \A i \in 1..(2 - 1) : IsTchar(l[i])
    BY <1>0, <1>3 DEF IsTchar
  <2>2. SubSeq(l, 4 + 1, Len(l)) = <<HTTP11>>
    BY <1>3, <1>11
  <2>3. IsRequestLine(l) = (/\ Cardinality(spaces) >= 2
                            /\ Min(spaces) > 1 /\ (\A i \in 1..(Min(spaces) - 1) : IsTchar(l[i]))
                            /\ Min(spaces \ {Min(spaces)}) > Min(spaces) + 1
                            /\ SubSeq(l, Min(spaces \ {Min(spaces)}) + 1, Len(l)) \in {<<HTTP11>>, <<HTTP10>>})
    BY DEF IsRequestLine, spaces
  <2>4. IsRequestLine(l) = (/\ Cardinality(spaces) >= 2
                            /\ 2 > 1 /\ (\A i \in 1..(2 - 1) : IsTchar(l[i]))
                            /\ 4 > 2 + 1
                            /\ SubSeq(l, 4 + 1, Len(l)) \in {<<HTTP11>>, <<HTTP10>>})
    <3>1. PICK x, y : x = Min(spaces) /\ y = Min(spaces \ {x})
      OBVIOUS
    <3>2. x = 2 /\ y = 4
      BY <1>8, <1>9, <3>1
    <3>3. IsRequestLine(l) = (/\ Cardinality(spaces) >= 2
                              /\ x > 1 /\ (\A i \in 1..(x - 1) : IsTchar(l[i]))
                              /\ y > x + 1
                              /\ SubSeq(l, y + 1, Len(l)) \in {<<HTTP11>>, <<HTTP10>>})
      BY <2>3, <3>1
    <3> QED BY <3>2, <3>3
  <2>5. Cardinality(spaces) >= 2 /\ 2 > 1 /\ 4 > 2 + 1
    BY <1>10
  <2> QED BY <2>1, <2>2, <2>4, <2>5
<1>13. RequestMethod(l) = <<GET>>
  <2>1. RequestMethod(l) = SubSeq(l, 1, Min(spaces) - 1)
    BY DEF RequestMethod, spaces
  <2> QED BY <1>8, <1>11, <2>1
<1> QED BY <1>2, <1>5, <1>6, <1>12, <1>13

\* The status line is one.
LEMMA StatusLineIs == IsLine(StatusLine) /\ Smooth(StatusLine) /\ IsStatusLine(StatusLine) /\ StatusLine[3] = Status + 101
<1>0. /\ SP \in Nat /\ HTTP11 \in Nat /\ Status \in Nat
      /\ SP \notin {CR, LF} /\ HTTP11 \notin {CR, LF} /\ Status + 101 \notin {CR, LF}
  BY DEF SP, HTTP11, Status, Token, CR, LF
<1>1. /\ StatusLine \in Seq(Nat) /\ Len(StatusLine) = 4 /\ StatusLine[1] = HTTP11 /\ StatusLine[2] = SP
      /\ StatusLine[3] = Status + 101 /\ StatusLine[4] = SP
  BY <1>0 DEF StatusLine
<1>2. PICK l \in Seq(Nat) : l = StatusLine
  BY <1>1
<1>3. Len(l) = 4 /\ l[1] = HTTP11 /\ l[2] = SP /\ l[3] = Status + 101 /\ l[4] = SP
  BY <1>1, <1>2
<1>4. \A i \in 1..4 : l[i] \notin {CR, LF}
  BY <1>0, <1>3
<1>5. IsLine(l)
  <2>1. Cr(l) = {}
    BY <1>3, <1>4 DEF Cr
  <2>2. l[Len(l)] # CR
    BY <1>0, <1>3
  <2> QED BY <1>3, <2>1, <2>2 DEF IsLine
<1>6. Smooth(l)
  BY <1>3, <1>4 DEF Smooth, FoldsAt
<1>7. IsStatusLine(l)
  <2>1. l[3] - Status \in 100..599
    BY <1>0, <1>3
  <2> QED BY <1>3, <2>1 DEF IsStatusLine
<1> QED BY <1>2, <1>3, <1>5, <1>6, <1>7

-----------------------------------------------------------------------------
\* One more header, in what a block says.
Adds(W, V, name, value) == W[name] = value /\ \A n \in Nat : n # name => W[n] = V[n]

\* One more header, and what it is looked up as.
LEMMA AddOne ==
  ASSUME NEW b, NEW first, NEW V, Block(b, first, V), NEW name \in Nat, name >= Token, V[name] = <<>>,
         NEW value, IsValue(value), value # <<>>
  PROVE  /\ \E W : Block(b \o Header(name, value), first, W) /\ Adds(W, V, name, value)
         /\ Len(b \o Header(name, value)) = Len(b) + 5 + Len(value)
<1> DEFINE W == [V EXCEPT ![name] = value]
<1>1. Block(b \o Header(name, value), first, W) /\ Len(b \o Header(name, value)) = Len(b) + 5 + Len(value)
  BY AddHeader
<1>2. V \in [Nat -> Seq(Nat)]
  BY DEF Block, Says
<1>3. Adds(W, V, name, value)
  BY <1>2 DEF Adds
<1> HIDE DEF W
<1> QED BY <1>1, <1>3

\* The header of the extensions is left out if there are none.
LEMMA AddMaybe ==
  ASSUME NEW b, NEW first, NEW V, Block(b, first, V), NEW name \in Nat, name >= Token, V[name] = <<>>,
         NEW value, IsValue(value)
  PROVE  LET u == b \o (IF value = <<>> THEN <<>> ELSE Header(name, value))
         IN  /\ \E W : Block(u, first, W) /\ Adds(W, V, name, value)
             /\ Len(u) = Len(b) + (IF value = <<>> THEN 0 ELSE 5 + Len(value))
<1>0. b \in Seq(Nat) /\ Len(b) \in Nat
  <2>1. b \in Seq(Nat)
    BY DEF Block, Lines
  <2> QED BY <2>1
<1>1. CASE value = <<>>
  <2>1. b \o <<>> = b
    BY <1>0
  <2>2. Adds(V, V, name, value)
    BY <1>1 DEF Adds
  <2>3. Len(b) = Len(b) + 0
    BY <1>0
  <2> QED BY <1>1, <2>1, <2>2, <2>3
<1>2. CASE value # <<>>
  <2>1. /\ \E W : Block(b \o Header(name, value), first, W) /\ Adds(W, V, name, value)
        /\ Len(b \o Header(name, value)) = Len(b) + 5 + Len(value)
    BY <1>2, AddOne
  <2>2. Len(value) \in Nat
    BY DEF IsValue
  <2>3. Len(b) + 5 + Len(value) = Len(b) + (5 + Len(value))
    BY <1>0, <2>2
  <2> QED BY <1>2, <2>1, <2>3
<1> QED BY <1>1, <1>2

\* The words of the heads are different names.
LEMMA WordsAre ==
  /\ Upgrade \in Nat /\ Connection \in Nat /\ SecKey \in Nat /\ SecVersion \in Nat /\ SecAccept \in Nat
  /\ SecExt \in Nat /\ WebSocket \in Nat /\ Nonce \in Nat /\ Thirteen \in Nat /\ Accepted \in Nat
  /\ Upgrade >= Token /\ Connection >= Token /\ SecKey >= Token /\ SecVersion >= Token /\ SecAccept >= Token
  /\ SecExt >= Token /\ WebSocket >= Token /\ Nonce >= Token /\ Thirteen >= Token /\ Accepted >= Token
  /\ Upgrade \notin {Connection, SecKey, SecVersion, SecAccept, SecExt}
  /\ Connection \notin {SecKey, SecVersion, SecAccept, SecExt}
  /\ SecKey \notin {SecVersion, SecAccept, SecExt}
  /\ SecVersion \notin {SecAccept, SecExt} /\ SecAccept # SecExt
BY DEF Upgrade, Connection, SecKey, SecVersion, SecAccept, SecExt, WebSocket, Nonce, Thirteen, Accepted, Token

\* No header has been said.
LEMMA SilentIs == \A n \in Nat : Silent[n] = <<>>
BY DEF Silent

\* The request of our client, without the empty line.
LEMMA RequestBlock ==
  ASSUME NEW ext, IsValue(ext)
  PROVE  \E b, V : /\ RenderClientRequest(ext) = b \o CRLF /\ Block(b, RequestLine, V)
                   /\ V[Upgrade] = <<WebSocket>> /\ V[Connection] = <<Upgrade>> /\ V[SecKey] = <<Nonce>>
                   /\ V[SecVersion] = <<Thirteen>> /\ V[SecExt] = ext
<1> DEFINE b0 == RequestLine \o CRLF
           b1 == b0 \o Header(Upgrade, <<WebSocket>>)
           b2 == b1 \o Header(Connection, <<Upgrade>>)
           b3 == b2 \o Header(SecKey, <<Nonce>>)
           b4 == b3 \o Header(SecVersion, <<Thirteen>>)
           b5 == b4 \o (IF ext = <<>> THEN <<>> ELSE Header(SecExt, ext))
<1>1. RenderClientRequest(ext) = b5 \o CRLF
  BY DEF RenderClientRequest, RequestLine
<1>2. Block(b0, RequestLine, Silent)
  <2>1. PICK l : l = RequestLine
    OBVIOUS
  <2>2. IsLine(l) /\ Smooth(l)
    BY <2>1, RequestLineIs
  <2>3. Block(l \o CRLF, l, Silent)
    BY <2>2, FirstBlock
  <2> QED BY <2>1, <2>3
<1> HIDE DEF b0
<1>3. PICK V1 : Block(b1, RequestLine, V1) /\ Adds(V1, Silent, Upgrade, <<WebSocket>>)
  BY <1>2, AddOne, UnitValue, WordsAre, SilentIs
<1>4. V1[Upgrade] = <<WebSocket>> /\ V1[Connection] = <<>> /\ V1[SecKey] = <<>> /\ V1[SecVersion] = <<>> /\ V1[SecExt] = <<>>
  BY <1>3, WordsAre, SilentIs DEF Adds
<1> HIDE DEF b1
<1>5. PICK V2 : Block(b2, RequestLine, V2) /\ Adds(V2, V1, Connection, <<Upgrade>>)
  BY <1>3, <1>4, AddOne, UnitValue, WordsAre
<1>6. /\ V2[Upgrade] = <<WebSocket>> /\ V2[Connection] = <<Upgrade>> /\ V2[SecKey] = <<>> /\ V2[SecVersion] = <<>>
      /\ V2[SecExt] = <<>>
  BY <1>4, <1>5, WordsAre DEF Adds
<1> HIDE DEF b2
<1>7. PICK V3 : Block(b3, RequestLine, V3) /\ Adds(V3, V2, SecKey, <<Nonce>>)
  BY <1>5, <1>6, AddOne, UnitValue, WordsAre
<1>8. /\ V3[Upgrade] = <<WebSocket>> /\ V3[Connection] = <<Upgrade>> /\ V3[SecKey] = <<Nonce>> /\ V3[SecVersion] = <<>>
      /\ V3[SecExt] = <<>>
  BY <1>6, <1>7, WordsAre DEF Adds
<1> HIDE DEF b3
<1>9. PICK V4 : Block(b4, RequestLine, V4) /\ Adds(V4, V3, SecVersion, <<Thirteen>>)
  BY <1>7, <1>8, AddOne, UnitValue, WordsAre
<1>10. /\ V4[Upgrade] = <<WebSocket>> /\ V4[Connection] = <<Upgrade>> /\ V4[SecKey] = <<Nonce>>
       /\ V4[SecVersion] = <<Thirteen>> /\ V4[SecExt] = <<>>
  BY <1>8, <1>9, WordsAre DEF Adds
<1> HIDE DEF b4
<1>11. PICK V5 : Block(b5, RequestLine, V5) /\ Adds(V5, V4, SecExt, ext)
  <2>1. SecExt \in Nat /\ SecExt >= Token
    BY WordsAre
  <2> QED BY <1>9, <1>10, <2>1, AddMaybe
<1>12. /\ V5[Upgrade] = <<WebSocket>> /\ V5[Connection] = <<Upgrade>> /\ V5[SecKey] = <<Nonce>>
       /\ V5[SecVersion] = <<Thirteen>> /\ V5[SecExt] = ext
  BY <1>10, <1>11, WordsAre DEF Adds
<1> HIDE DEF b5
<1> QED BY <1>1, <1>11, <1>12

\* The request of our client: one head, not folded, which our server takes for
\* an upgrade and reads the key and the extensions from.
LEMMA OurRequestIs ==
  ASSUME NEW ext, IsValue(ext), NEW r, r = RenderClientRequest(ext)
  PROVE  /\ r \in Seq(Nat) /\ HeadEnds(r) = {Len(r)} /\ ~Folded(r)
         /\ Len(r) <= MaxHead =>
              LET h == ParseHead(r, FALSE)
              IN  /\ h.kind = "head" /\ h.consumed = Len(r) /\ IsUpgrade(h)
                  /\ Get(h.headers, SecKey) = <<Nonce>> /\ Get(h.headers, SecExt) = ext
<1>1. PICK b, V : /\ r = b \o CRLF /\ Block(b, RequestLine, V)
                  /\ V[Upgrade] = <<WebSocket>> /\ V[Connection] = <<Upgrade>> /\ V[SecKey] = <<Nonce>>
                  /\ V[SecVersion] = <<Thirteen>> /\ V[SecExt] = ext
  BY RequestBlock
<1>2. /\ r \in Seq(Nat) /\ HeadEnds(r) = {Len(r)} /\ ~Folded(r)
      /\ Len(r) <= MaxHead =>
           LET h == ParseHead(r, FALSE)
           IN  /\ h.kind = "head" /\ h.first = RequestLine /\ h.consumed = Len(r)
               /\ \A n \in Nat : Get(h.headers, n) = V[n]
  <2>1. IsFirst(RequestLine, FALSE)
    BY RequestLineIs DEF IsFirst
  <2>2. Block(b, RequestLine, V)
    BY <1>1
  <2>3. IsHead(b \o CRLF, FALSE, RequestLine, V)
    BY <2>1, <2>2, ParsedBlock
  <2> QED BY <1>1, <2>3 DEF IsHead
<1>3. ASSUME NEW h, h.first = RequestLine, \A n \in Nat : Get(h.headers, n) = V[n]
      PROVE  IsUpgrade(h) /\ Get(h.headers, SecKey) = <<Nonce>> /\ Get(h.headers, SecExt) = ext
  <2>1. /\ Get(h.headers, Upgrade) = <<WebSocket>> /\ Get(h.headers, Connection) = <<Upgrade>>
        /\ Get(h.headers, SecKey) = <<Nonce>> /\ Get(h.headers, SecVersion) = <<Thirteen>>
        /\ Get(h.headers, SecExt) = ext
    BY <1>1, <1>3, WordsAre
  <2>2. IsKey(<<Nonce>>)
    <3>1. 1 \in DOMAIN <<Nonce>> /\ <<Nonce>>[1] = Nonce
      OBVIOUS
    <3> QED BY <3>1 DEF IsKey
  <2>3. RequestMethod(h.first) = <<GET>>
    BY <1>3, RequestLineIs
  <2>4. <<Upgrade>> \in Elements(<<Upgrade>>)
    BY UnitValue, WordsAre
  <2> QED BY <2>1, <2>2, <2>3, <2>4 DEF IsUpgrade
<1> QED BY <1>2, <1>3

-----------------------------------------------------------------------------
\* The answer up to the accept header.
LEMMA AnswerBlock ==
  \E b, V : /\ Block(b, StatusLine, V) /\ V[SecAccept] = <<>> /\ V[SecExt] = <<>>
            /\ \A accept, ext : RenderAcceptResponse(accept, ext) =
                 ((b \o Header(SecAccept, accept)) \o (IF ext = <<>> THEN <<>> ELSE Header(SecExt, ext))) \o CRLF
<1> DEFINE b0 == StatusLine \o CRLF
           b1 == b0 \o Header(Upgrade, <<WebSocket>>)
           b2 == b1 \o Header(Connection, <<Upgrade>>)
<1>1. \A accept, ext : RenderAcceptResponse(accept, ext) =
                 ((b2 \o Header(SecAccept, accept)) \o (IF ext = <<>> THEN <<>> ELSE Header(SecExt, ext))) \o CRLF
  BY DEF RenderAcceptResponse, StatusLine
<1>2. Block(b0, StatusLine, Silent)
  <2>1. PICK l : l = StatusLine
    OBVIOUS
  <2>2. IsLine(l) /\ Smooth(l)
    BY <2>1, StatusLineIs
  <2>3. Block(l \o CRLF, l, Silent)
    BY <2>2, FirstBlock
  <2> QED BY <2>1, <2>3
<1> HIDE DEF b0
<1>3. PICK V1 : Block(b1, StatusLine, V1) /\ Adds(V1, Silent, Upgrade, <<WebSocket>>)
  BY <1>2, AddOne, UnitValue, WordsAre, SilentIs
<1>4. V1[Connection] = <<>> /\ V1[SecAccept] = <<>> /\ V1[SecExt] = <<>>
  BY <1>3, WordsAre, SilentIs DEF Adds
<1> HIDE DEF b1
<1>5. PICK V2 : Block(b2, StatusLine, V2) /\ Adds(V2, V1, Connection, <<Upgrade>>)
  BY <1>3, <1>4, AddOne, UnitValue, WordsAre
<1>6. V2[SecAccept] = <<>> /\ V2[SecExt] = <<>>
  BY <1>4, <1>5, WordsAre DEF Adds
<1> HIDE DEF b2
<1> QED BY <1>1, <1>5, <1>6


\* The answer to the key our client sent: one head, not folded, from which our
\* client reads that key's hash and the extensions.
LEMMA AnswerIs ==
  ASSUME NEW ext, IsValue(ext), NEW r, r = RenderAcceptResponse(<<Accepted>>, ext)
  PROVE  /\ r \in Seq(Nat) /\ HeadEnds(r) = {Len(r)} /\ ~Folded(r)
         /\ Len(r) <= MaxHead =>
              LET h == ParseHead(r, TRUE)
              IN  /\ h.kind = "head" /\ h.consumed = Len(r) /\ h.first[3] = Status + 101
                  /\ Get(h.headers, SecAccept) = <<Accepted>> /\ Get(h.headers, SecExt) = ext
<1>1. PICK b, V : /\ Block(b, StatusLine, V) /\ V[SecAccept] = <<>> /\ V[SecExt] = <<>>
                  /\ \A accept, e : RenderAcceptResponse(accept, e) =
                       ((b \o Header(SecAccept, accept)) \o (IF e = <<>> THEN <<>> ELSE Header(SecExt, e))) \o CRLF
  BY AnswerBlock
<1> DEFINE b1 == b \o Header(SecAccept, <<Accepted>>)
           b2 == b1 \o (IF ext = <<>> THEN <<>> ELSE Header(SecExt, ext))
<1>2. r = b2 \o CRLF
  BY <1>1
<1>3. PICK V1 : Block(b1, StatusLine, V1) /\ Adds(V1, V, SecAccept, <<Accepted>>)
  BY <1>1, AddOne, UnitValue, WordsAre
<1>4. V1[SecAccept] = <<Accepted>> /\ V1[SecExt] = <<>>
  BY <1>1, <1>3, WordsAre DEF Adds
<1> HIDE DEF b1
<1>5. PICK V2 : Block(b2, StatusLine, V2) /\ Adds(V2, V1, SecExt, ext)
  <2>1. SecExt \in Nat /\ SecExt >= Token
    BY WordsAre
  <2> QED BY <1>3, <1>4, <2>1, AddMaybe
<1>6. V2[SecAccept] = <<Accepted>> /\ V2[SecExt] = ext
  BY <1>4, <1>5, WordsAre DEF Adds
<1> HIDE DEF b2
<1>7. /\ r \in Seq(Nat) /\ HeadEnds(r) = {Len(r)} /\ ~Folded(r)
      /\ Len(r) <= MaxHead =>
           LET h == ParseHead(r, TRUE)
           IN  /\ h.kind = "head" /\ h.first = StatusLine /\ h.consumed = Len(r)
               /\ \A n \in Nat : Get(h.headers, n) = V2[n]
  <2>1. IsFirst(StatusLine, TRUE)
    BY StatusLineIs DEF IsFirst
  <2>2. Block(b2, StatusLine, V2)
    BY <1>5
  <2>3. IsHead(b2 \o CRLF, TRUE, StatusLine, V2)
    BY <2>1, <2>2, ParsedBlock
  <2> QED BY <1>2, <2>3 DEF IsHead
<1>8. SecAccept \in Nat /\ SecExt \in Nat /\ StatusLine[3] = Status + 101
  BY WordsAre, StatusLineIs
<1> QED BY <1>6, <1>7, <1>8

\* An answer without extensions is not longer than another one.
LEMMA AnswerLength ==
  ASSUME NEW x, IsValue(x)
  PROVE  /\ Len(RenderAcceptResponse(<<Accepted>>, x)) \in Nat
         /\ Len(RenderAcceptResponse(<<Accepted>>, <<>>)) <= Len(RenderAcceptResponse(<<Accepted>>, x))
<1>1. PICK b, V : /\ Block(b, StatusLine, V) /\ V[SecAccept] = <<>> /\ V[SecExt] = <<>>
                  /\ \A accept, e : RenderAcceptResponse(accept, e) =
                       ((b \o Header(SecAccept, accept)) \o (IF e = <<>> THEN <<>> ELSE Header(SecExt, e))) \o CRLF
  BY AnswerBlock
<1> DEFINE b1 == b \o Header(SecAccept, <<Accepted>>)
<1>2. PICK V1 : Block(b1, StatusLine, V1) /\ Adds(V1, V, SecAccept, <<Accepted>>)
  BY <1>1, AddOne, UnitValue, WordsAre
<1>3. V1[SecExt] = <<>>
  BY <1>1, <1>2, WordsAre DEF Adds
<1> HIDE DEF b1
<1>4. ASSUME NEW e, IsValue(e)
      PROVE  /\ Len(RenderAcceptResponse(<<Accepted>>, e)) = Len(b1) + (IF e = <<>> THEN 0 ELSE 5 + Len(e)) + 2
  <2> DEFINE u == b1 \o (IF e = <<>> THEN <<>> ELSE Header(SecExt, e))
  <2>1. (\E W : Block(u, StatusLine, W)) /\ Len(u) = Len(b1) + (IF e = <<>> THEN 0 ELSE 5 + Len(e))
    <3>1. SecExt \in Nat /\ SecExt >= Token
      BY WordsAre
    <3>2. /\ \E W : Block(u, StatusLine, W) /\ Adds(W, V1, SecExt, e)
          /\ Len(u) = Len(b1) + (IF e = <<>> THEN 0 ELSE 5 + Len(e))
      BY <1>2, <1>3, <1>4, <3>1, AddMaybe
    <3> HIDE DEF u
    <3> QED BY <3>2
  <2>2. Len(u \o CRLF) = Len(u) + 2
    <3>1. u \in Seq(Nat)
      BY <2>1 DEF Block, Lines
    <3>2. CRLF \in Seq(Nat) /\ Len(CRLF) = 2
      BY EndOfLine
    <3> HIDE DEF u
    <3>3. Len(u \o CRLF) = Len(u) + Len(CRLF)
      BY <3>1, <3>2, ConcatElements
    <3> QED BY <3>2, <3>3
  <2>3. RenderAcceptResponse(<<Accepted>>, e) = u \o CRLF
    BY <1>1 DEF b1
  <2> HIDE DEF u
  <2> QED BY <2>1, <2>2, <2>3
<1>5. Len(b1) \in Nat
  <2>1. b1 \in Seq(Nat)
    BY <1>2 DEF Block, Lines
  <2> QED BY <2>1
<1>6. Len(RenderAcceptResponse(<<Accepted>>, <<>>)) = Len(b1) + 2
  <2>1. PICK e : e = <<>>
    OBVIOUS
  <2>2. IsValue(e)
    BY <2>1, NoValue
  <2>3. Len(RenderAcceptResponse(<<Accepted>>, e)) = Len(b1) + 0 + 2
    BY <1>4, <2>1, <2>2
  <2> QED BY <1>5, <2>1, <2>3
<1>7. Len(RenderAcceptResponse(<<Accepted>>, x)) = Len(b1) + (IF x = <<>> THEN 0 ELSE 5 + Len(x)) + 2
  BY <1>4
<1>8. Len(x) \in Nat
  BY DEF IsValue
<1> QED BY <1>5, <1>6, <1>7, <1>8

-----------------------------------------------------------------------------
\* A head that is parsed ends where its delimiter does.
LEMMA HeadConsumed ==
  ASSUME NEW b \in Seq(Nat), NEW isResponse, ParseHead(b, isResponse).kind = "head"
  PROVE  /\ Len(b) <= MaxHead
         /\ \E m \in Delims(b) :
              /\ \A d \in Delims(b) : m <= d
              /\ ParseHead(b, isResponse).consumed = m + 3
              /\ ParseHead(b, isResponse) = ParseLines(SubSeq(b, 1, m - 1), isResponse)
              /\ SubSeq(b, 1, m - 1) \in Seq(Nat)
<1>1. Delims(b) # {}
  BY HeadOpen DEF Incomplete, Malformed
<1>2. Delims(b) \subseteq Nat /\ \A d \in Delims(b) : d - 1 \in 0..Len(b) /\ d \in Nat
  BY DEF Delims
<1>3. PICK m \in Delims(b) : \A d \in Delims(b) : m <= d
  BY <1>1, <1>2, LeastNumber
<1>4. ParseHead(b, isResponse) =
           IF Len(b) > MaxHead \/ Folded(SubSeq(b, 1, m - 1)) THEN Malformed
           ELSE ParseLines(SubSeq(b, 1, m - 1), isResponse)
  BY <1>3, HeadDone
<1>5. Malformed.kind # "head"
  BY DEF Malformed
<1>6. ~(Len(b) > MaxHead) /\ ParseHead(b, isResponse) = ParseLines(SubSeq(b, 1, m - 1), isResponse)
  BY <1>4, <1>5
<1>7. PICK k \in 0..Len(b) : k = m - 1
  BY <1>2
<1> DEFINE head == SubSeq(b, 1, k)
<1>8. head \in Seq(Nat) /\ Len(head) = k
  BY CutSeq
<1> HIDE DEF head
<1>9. ParseLines(head, isResponse).kind = "head"
  BY <1>6, <1>7 DEF head
<1>10. ParseLines(head, isResponse).consumed = Len(head) + Len(HeaderDelim)
  BY <1>5, <1>9 DEF ParseLines
<1>11. Len(head) + Len(HeaderDelim) = m + 3 /\ Len(b) <= MaxHead
  <2>1. m \in Nat /\ Len(b) \in Nat
    BY <1>2
  <2> QED BY <1>6, <1>7, <1>8, <2>1, Delimiter, HttpHeadAssumption
<1> QED BY <1>3, <1>6, <1>7, <1>8, <1>10, <1>11 DEF head

\* Of a request with nothing behind it, accept consumes all.
LEMMA OnlyHeadConsumed ==
  ASSUME NEW r \in Seq(Nat), HeadEnds(r) \subseteq {Len(r)}, NEW b \in Seq(Nat), Begins(b, r),
         NEW isResponse, ParseHead(b, isResponse).kind = "head"
  PROVE  b = r /\ ParseHead(b, isResponse).consumed = Len(r) /\ HeadEnds(r) = {Len(r)}
<1>1. PICK m \in Delims(b) : ParseHead(b, isResponse).consumed = m + 3
  BY HeadConsumed
<1>2. m \in Delims(r) /\ m <= Len(b) - 3 /\ m \in Nat
  <2>1. m \in {i \in Delims(r) : i <= Len(b) - 3}
    BY <1>1, BeginsDelims
  <2>2. Delims(r) \subseteq Nat
    BY DEF Delims
  <2> QED BY <2>1, <2>2
<1>3. m + 3 \in HeadEnds(r)
  BY <1>2, FindDelim
<1>4. m + 3 = Len(r) /\ HeadEnds(r) = {Len(r)}
  BY <1>3
<1>5. b = r
  BY <1>2, <1>4, WholeBegins
<1> QED BY <1>1, <1>4, <1>5

\* Part of a sequence; what has no line end in it has none in a part.
LEMMA SubIs ==
  ASSUME NEW s \in Seq(Nat), NEW m \in Nat \ {0}, NEW n \in Int, n <= Len(s)
  PROVE  /\ SubSeq(s, m, n) \in Seq(Nat)
         /\ Len(SubSeq(s, m, n)) = IF m <= n THEN n - m + 1 ELSE 0
         /\ \A i \in 1..Len(SubSeq(s, m, n)) : SubSeq(s, m, n)[i] = s[m + i - 1] /\ m + i - 1 <= n
<1>1. \A i \in m..n : s[i] \in Nat
  <2>1. \A i \in m..n : i \in 1..Len(s)
    OBVIOUS
  <2> QED BY <2>1
<1> DEFINE c == SubSeq(s, m, n)
<1>2. /\ c \in Seq(Nat)
      /\ Len(c) = IF m <= n THEN n - m + 1 ELSE 0
      /\ \A i \in 1..(n - m + 1) : c[i] = s[m + i - 1]
  BY <1>1, SubSeqProperties
<1> HIDE DEF c
<1>3. ASSUME NEW i \in 1..Len(c) PROVE i \in 1..(n - m + 1) /\ m + i - 1 <= n
  BY <1>2
<1> QED BY <1>2, <1>3 DEF c

\* Bytes without a line break.
OneLine(s) == s \in Seq(Nat) /\ Cr(s) = {}

\* A part of such bytes is one.
LEMMA PartOneLine ==
  ASSUME NEW s, OneLine(s), NEW m \in Nat \ {0}, NEW n \in Int, n <= Len(s)
  PROVE  OneLine(SubSeq(s, m, n))
<1> DEFINE c == SubSeq(s, m, n)
<1>1. s \in Seq(Nat) /\ Cr(s) = {} /\ Len(s) \in Nat
  BY DEF OneLine
<1>2. /\ c \in Seq(Nat)
      /\ \A i \in 1..Len(c) : c[i] = s[m + i - 1] /\ m + i - 1 <= n
  BY <1>1, SubIs
<1> HIDE DEF c
<1>3. ASSUME NEW i \in Cr(c) PROVE FALSE
  <2>1. i \in 1..(Len(c) - 1) /\ c[i] = CR /\ c[i + 1] = LF /\ Len(c) \in Nat
    BY <1>2 DEF Cr
  <2>2. i \in 1..Len(c) /\ i + 1 \in 1..Len(c) /\ m + (i + 1) - 1 = (m + i - 1) + 1
    BY <2>1
  <2>3. s[m + i - 1] = CR /\ s[(m + i - 1) + 1] = LF /\ (m + i - 1) + 1 <= n
    <3>1. c[i] = s[m + i - 1]
      BY <1>2, <2>2
    <3>2. c[i + 1] = s[m + (i + 1) - 1] /\ m + (i + 1) - 1 <= n
      BY <1>2, <2>2
    <3> QED BY <2>1, <2>2, <3>1, <3>2
  <2>4. m + i - 1 \in 1..(Len(s) - 1)
    BY <1>1, <2>1, <2>3
  <2> QED BY <1>1, <2>3, <2>4 DEF Cr
<1>4. OneLine(c)
  BY <1>2, <1>3 DEF OneLine
<1> QED BY <1>4 DEF c

\* What is between two line breaks is one.
LEMMA LineOneLine ==
  ASSUME NEW head \in Seq(Nat), NEW start \in LineStarts(head)
  PROVE  OneLine(Line(head, start)) /\ start \in Nat \ {0}
<1> DEFINE O == Occurrences(head, CRLF)
           C == {i \in O : i >= start} \cup {Len(head) + 1}
<1>1. O = Cr(head)
  BY LineEnds
<1>2. O \subseteq 1..Len(head) /\ Len(head) \in Nat
  BY <1>1 DEF Cr
<1>3. start \in Nat \ {0}
  <2>1. start \in {1} \cup {i + 2 : i \in O}
    BY DEF LineStarts
  <2> HIDE DEF O
  <2> QED BY <1>2, <2>1
<1>4. Min(C) \in C /\ \A y \in C : Min(C) <= y
  <2>1. C \subseteq Nat /\ C # {}
    BY <1>2
  <2> HIDE DEF C
  <2> QED BY <2>1, MinOf
<1>5. PICK e \in C : e = Min(C)
  BY <1>4
<1>6. e \in Nat /\ e - 1 <= Len(head) /\ e >= 1
  BY <1>2
<1>7. Line(head, start) = SubSeq(head, start, e - 1)
  BY <1>5 DEF Line
<1>8. \A i \in Cr(head) : i >= start => e <= i
  <2>1. \A y \in C : e <= y
    BY <1>4, <1>5
  <2>2. \A i \in Cr(head) : i >= start => i \in C
    BY <1>1
  <2> HIDE DEF C, O
  <2> QED BY <2>1, <2>2
<1> DEFINE c == SubSeq(head, start, e - 1)
<1>9. /\ c \in Seq(Nat)
      /\ \A i \in 1..Len(c) : c[i] = head[start + i - 1] /\ start + i - 1 <= e - 1
  <2>1. e - 1 \in Int
    BY <1>6
  <2> QED BY <1>3, <1>6, <2>1, SubIs
<1> HIDE DEF c, C, O
<1>10. ASSUME NEW i \in Cr(c) PROVE FALSE
  <2>1. i \in 1..(Len(c) - 1) /\ c[i] = CR /\ c[i + 1] = LF /\ Len(c) \in Nat
    BY <1>9 DEF Cr
  <2>2. i \in 1..Len(c) /\ i + 1 \in 1..Len(c) /\ start + (i + 1) - 1 = (start + i - 1) + 1
    BY <1>3, <2>1
  <2>3. head[start + i - 1] = CR /\ head[(start + i - 1) + 1] = LF /\ (start + i - 1) + 1 <= e - 1
    BY <1>9, <2>1, <2>2, SMTT(25)
  <2>4. start + i - 1 \in 1..(Len(head) - 1)
    BY <1>2, <1>3, <1>6, <2>1, <2>3
  <2>5. start + i - 1 \in Cr(head) /\ start + i - 1 >= start
    BY <1>3, <2>1, <2>3, <2>4 DEF Cr
  <2>6. e <= start + i - 1
    BY <1>8, <2>5
  <2> QED BY <1>3, <1>6, <2>1, <2>3, <2>6
<1>11. OneLine(c)
  BY <1>9, <1>10 DEF OneLine
<1> QED BY <1>3, <1>7, <1>11 DEF c

\* No bytes have no line break.
LEMMA EmptyOneLine == OneLine(<<>>)
<1>1. <<>> \in Seq(Nat)
  OBVIOUS
<1>2. PICK e \in Seq(Nat) : e = <<>>
  BY <1>1
<1>3. Len(e) = 0
  BY <1>2
<1>4. Cr(e) = {}
  BY <1>3 DEF Cr
<1> QED BY <1>2, <1>4 DEF OneLine

\* trim_ows leaves no line break.
LEMMA TrimOneLine ==
  ASSUME NEW v, OneLine(v)
  PROVE  OneLine(TrimOws(v))
<1> DEFINE T == {i \in DOMAIN v : v[i] \notin {SP, HT}}
<1>1. v \in Seq(Nat) /\ DOMAIN v = 1..Len(v) /\ Len(v) \in Nat
  BY DEF OneLine
<1>2. TrimOws(v) = IF T = {} THEN <<>> ELSE SubSeq(v, Min(T), Max(T))
  BY DEF TrimOws
<1>3. T \subseteq 0..Len(v) /\ T \subseteq Nat \ {0}
  BY <1>1
<1> HIDE DEF T
<1>4. CASE T = {}
  BY <1>2, <1>4, EmptyOneLine
<1>5. CASE T # {}
  <2>1. Min(T) \in T /\ Max(T) \in T
    BY <1>1, <1>3, <1>5, MinOf, MaxOf
  <2>2. PICK m \in T, n \in T : m = Min(T) /\ n = Max(T)
    BY <2>1
  <2>3. m \in Nat \ {0} /\ n \in Int /\ n <= Len(v)
    BY <1>1, <1>3
  <2>4. OneLine(SubSeq(v, m, n))
    BY <2>3, PartOneLine
  <2> QED BY <1>2, <1>5, <2>2, <2>4
<1> QED BY <1>4, <1>5

\* header_ranges leaves no line break in a value.
LEMMA RangesOneLine ==
  ASSUME NEW l, OneLine(l), HasColon(l)
  PROVE  OneLine(HeaderRanges(l).value)
<1> DEFINE O == Occurrences(l, <<COLON>>)
<1>1. l \in Seq(Nat) /\ Len(l) \in Nat
  BY DEF OneLine
<1>2. O \subseteq 1..Len(l) /\ O # {}
  <2>1. COLON \in Nat
    BY DEF COLON
  <2>2. O = {i \in 1..Len(l) : l[i] = COLON}
    BY <1>1, <2>1, FindOne
  <2> QED BY <2>2 DEF HasColon
<1>3. HeaderRanges(l).value = TrimOws(SubSeq(l, Min(O) + 1, Len(l)))
  BY DEF HeaderRanges
<1> HIDE DEF O
<1>4. Min(O) \in O
  <2>1. O \subseteq Nat
    BY <1>2
  <2> QED BY <1>2, <2>1, MinOf
<1>5. PICK m \in Nat \ {0} : m = Min(O) + 1
  <2>0. PICK x \in O : x = Min(O)
    BY <1>4
  <2>1. Min(O) \in Nat
    BY <1>2, <2>0
  <2>2. Min(O) + 1 \in Nat \ {0}
    BY <2>1
  <2> QED BY <2>2
<1>6. OneLine(SubSeq(l, m, Len(l)))
  BY <1>1, PartOneLine
<1> QED BY <1>3, <1>5, <1>6, TrimOneLine

\* What any head says is in one line.
LEMMA SaidInOneLine ==
  ASSUME NEW s \in Seq(Nat), NEW isResponse, ParseHead(s, isResponse).kind = "head", NEW n
  PROVE  OneLine(Get(ParseHead(s, isResponse).headers, n))
<1>1. PICK m \in Delims(s) : /\ ParseHead(s, isResponse) = ParseLines(SubSeq(s, 1, m - 1), isResponse)
                             /\ SubSeq(s, 1, m - 1) \in Seq(Nat)
  BY HeadConsumed
<1>2. PICK head \in Seq(Nat) : head = SubSeq(s, 1, m - 1)
  BY <1>1
<1> DEFINE fields == FieldLines(head)
           hs == Headers(fields)
           h == ParseHead(s, isResponse)
<1>3. h = ParseLines(head, isResponse) /\ h.kind = "head"
  BY <1>1, <1>2
<1> HIDE DEF h
<1>4. h.headers = hs /\ \A start \in DOMAIN fields : HasColon(fields[start])
  <2>1. Malformed.kind # "head"
    BY DEF Malformed
  <2>2. ParseLines(head, isResponse) # Malformed
    BY <1>3, <2>1
  <2>3. h = [kind |-> "head", first |-> Line(head, 1), headers |-> hs,
             consumed |-> Len(head) + Len(HeaderDelim)]
        /\ \A start \in DOMAIN fields : HasColon(fields[start])
    <3> HIDE DEF hs, fields
    <3> QED BY <1>3, <2>2 DEF ParseLines, hs, fields
  <2> HIDE DEF hs
  <2> QED BY <2>3
<1>5. ASSUME NEW i \in DOMAIN hs PROVE OneLine(hs[i].value) /\ i \in Nat
  <2>1. i \in DOMAIN fields /\ hs[i] = HeaderRanges(fields[i])
    BY DEF Headers
  <2>2. fields[i] = Line(head, i) /\ i \in LineStarts(head)
    BY <2>1 DEF FieldLines
  <2>3. OneLine(fields[i]) /\ i \in Nat
    BY <2>2, LineOneLine
  <2>4. HasColon(fields[i])
    BY <1>4, <2>1
  <2>5. OneLine(HeaderRanges(fields[i]).value)
    <3> HIDE DEF fields
    <3> QED BY <2>3, <2>4, RangesOneLine
  <2> QED BY <2>1, <2>3, <2>5
<1> HIDE DEF hs, fields
<1> DEFINE named == {i \in DOMAIN hs : hs[i].name = <<n>>}
<1>6. Get(hs, n) = IF named = {} THEN <<>> ELSE hs[Min(named)].value
  BY DEF Get
<1>7. named \subseteq Nat /\ named \subseteq DOMAIN hs
  BY <1>5
<1> HIDE DEF named
<1>8. CASE named = {}
  <2>1. OneLine(Get(hs, n))
    BY <1>6, <1>8, EmptyOneLine
  <2> QED BY <1>4, <2>1 DEF h
<1>9. CASE named # {}
  <2>1. Min(named) \in named
    BY <1>7, <1>9, MinOf
  <2>2. OneLine(Get(hs, n))
    BY <1>5, <1>6, <1>7, <1>9, <2>1
  <2> QED BY <1>4, <2>2 DEF h
<1> QED BY <1>8, <1>9

-----------------------------------------------------------------------------
\* The answer to any key is one head.
LEMMA AnswerEnds ==
  ASSUME NEW key, OneLine(key), NEW ext, IsValue(ext), NEW r, r = RenderAcceptResponse(AcceptKey(key), ext)
  PROVE  r \in Seq(Nat) /\ HeadEnds(r) = {Len(r)}
<1> DEFINE accept == AcceptKey(key)
<1>1. accept \in Seq(Nat) /\ Cr(accept) = {} /\ (accept # <<>> => accept[Len(accept)] # CR)
  <2>0. Accepted \in Nat /\ Accepted # CR /\ Accepted # LF
    BY DEF Accepted, Token, CR, LF
  <2>1. CASE key = <<Nonce>>
    <3>1. accept = <<Accepted>>
      BY <2>1 DEF AcceptKey
    <3>2. IsValue(<<Accepted>>)
      BY UnitValue, WordsAre
    <3>3. PICK v : v = <<Accepted>>
      OBVIOUS
    <3> QED BY <3>1, <3>2, <3>3, ValueEnds
  <2>2. CASE key # <<Nonce>>
    <3>1. accept = Append(key, Accepted)
      BY <2>2 DEF AcceptKey
    <3>2. key \in Seq(Nat) /\ Cr(key) = {} /\ Len(key) \in Nat
      BY DEF OneLine
    <3>3. /\ accept \in Seq(Nat) /\ Len(accept) = Len(key) + 1 /\ accept[Len(key) + 1] = Accepted
          /\ \A i \in 1..Len(key) : accept[i] = key[i]
      BY <2>0, <3>1, <3>2
    <3> HIDE DEF accept
    <3>4. ASSUME NEW i \in Cr(accept) PROVE FALSE
      <4>1. i \in 1..Len(key) /\ accept[i] = CR /\ accept[i + 1] = LF
        BY <3>2, <3>3 DEF Cr
      <4>2. i # Len(key)
        BY <2>0, <3>2, <3>3, <4>1
      <4>3. i \in 1..(Len(key) - 1) /\ i + 1 \in 1..Len(key)
        BY <3>2, <4>1, <4>2
      <4>4. key[i] = CR /\ key[i + 1] = LF
        BY <3>3, <4>1, <4>3
      <4> QED BY <3>2, <4>3, <4>4 DEF Cr
    <3> QED BY <2>0, <3>3, <3>4
  <2> QED BY <2>1, <2>2
<1> HIDE DEF accept
<1>2. PICK b, V : /\ Block(b, StatusLine, V)
                  /\ \A a, e : RenderAcceptResponse(a, e) =
                       ((b \o Header(SecAccept, a)) \o (IF e = <<>> THEN <<>> ELSE Header(SecExt, e))) \o CRLF
  BY AnswerBlock
<1>3. PICK f : Lines(b, f)
  BY <1>2 DEF Block
<1> DEFINE b1 == b \o Header(SecAccept, accept)
           b2 == b1 \o (IF ext = <<>> THEN <<>> ELSE Header(SecExt, ext))
<1>4. r = b2 \o CRLF
  BY <1>2 DEF accept
<1>5. (\E g : Lines(b1, g)) /\ Len(b1) > 0
  <2>1. SecAccept \in Nat /\ SecAccept >= Token
    BY WordsAre
  <2>2. /\ Lines(b1, Plus(f, Len(b) + 1, Field(SecAccept, accept)))
        /\ Len(b1) = Len(b) + 5 + Len(accept)
    BY <1>1, <1>3, <2>1, AddAnyHeader
  <2>3. Len(b) \in Nat /\ Len(accept) \in Nat
    BY <1>1, <1>3 DEF Lines
  <2> HIDE DEF b1
  <2> QED BY <2>2, <2>3
<1>6. PICK g : Lines(b1, g)
  BY <1>5
<1> HIDE DEF b1
<1>7. (\E k : Lines(b2, k)) /\ Len(b2) > 0
  <2>1. CASE ext = <<>>
    <3>1. b1 \o <<>> = b1
      BY <1>6 DEF Lines
    <3> QED BY <1>5, <2>1, <3>1
  <2>2. CASE ext # <<>>
    <3>1. ext \in Seq(Nat) /\ Cr(ext) = {} /\ (ext # <<>> => ext[Len(ext)] # CR)
      BY ValueEnds
    <3>2. SecExt \in Nat /\ SecExt >= Token
      BY WordsAre
    <3>3. /\ Lines(b1 \o Header(SecExt, ext), Plus(g, Len(b1) + 1, Field(SecExt, ext)))
          /\ Len(b1 \o Header(SecExt, ext)) = Len(b1) + 5 + Len(ext)
      BY <1>6, <3>1, <3>2, AddAnyHeader
    <3>4. Len(b1) \in Nat /\ Len(ext) \in Nat
      BY <1>6, <3>1 DEF Lines
    <3>5. b2 = b1 \o Header(SecExt, ext)
      BY <2>2
    <3> HIDE DEF b2
    <3> QED BY <3>3, <3>4, <3>5
  <2> QED BY <2>1, <2>2
<1> HIDE DEF b2
<1>8. PICK k : Lines(b2, k)
  BY <1>7
<1> QED BY <1>4, <1>7, <1>8, OneHead

-----------------------------------------------------------------------------
\* Messages that are sent, and the frames they are sent in: by a client with its
\* mask, compressed with the context of c messages if that was negotiated.
Sendables == {m \in Messages : IsControl(m[1]) => Len(m[2]) < Len16}

KeyOf(p) == IF p = Client THEN Key ELSE <<>>
Marked(on, m) == on /\ ~IsControl(m[1])
Carried(on, m, c) == IF Marked(on, m) THEN <<Compressed + c>> \o m[2] ELSE m[2]
FrameOf(on, m, c) == WireFrame(TRUE, Marked(on, m), m[1], Carried(on, m, c))
Wire(p, on, m, c) == Encode(FrameOf(on, m, c), KeyOf(p))
After(on, reset, m, c) == IF Marked(on, m) /\ ~reset THEN c + 1 ELSE c

\* What a message that is sent consists of.
LEMMA Sent ==
  ASSUME NEW m \in Sendables
  PROVE  /\ m = <<m[1], m[2]>> /\ m[1] \in Opcodes /\ m[2] \in Seq(0..255) /\ Len(m[2]) < MaxPayload
         /\ IsControl(m[1]) => Len(m[2]) < Len16
<1>1. m \in Messages /\ (IsControl(m[1]) => Len(m[2]) < Len16)
  BY DEF Sendables
<1>2. m \in Opcodes \X Seq(0..255)
  BY <1>1, WsOpeningAssumption
<1>3. Len(m[2]) < MaxPayload
  BY <1>1, WsOpeningAssumption
<1> QED BY <1>1, <1>2, <1>3

\* A sequence over a subset is one over the set.
LEMMA SeqOver ==
  ASSUME NEW A, NEW B, A \subseteq B, NEW s \in Seq(A)
  PROVE  s \in Seq(B) /\ Len(s) \in Nat /\ \A i \in 1..Len(s) : s[i] \in A
OBVIOUS

\* The payload of a frame is within the limits, and holds the message.
LEMMA CarriedIs ==
  ASSUME NEW m \in Sendables, NEW on \in BOOLEAN, NEW c \in Nat, c <= 1000
  PROVE  /\ Words(Carried(on, m, c)) /\ Len(Carried(on, m, c)) <= MaxPayload
         /\ IsControl(m[1]) => Len(Carried(on, m, c)) < Len16
         /\ Marked(on, m) => /\ Carried(on, m, c) # <<>> /\ Carried(on, m, c)[1] = Compressed + c
                             /\ Tail(Carried(on, m, c)) = m[2]
<1>1. m[2] \in Seq(0..255) /\ Len(m[2]) < MaxPayload /\ (IsControl(m[1]) => Len(m[2]) < Len16)
  BY Sent
<1>2. PICK s \in Seq(0..255) : s = m[2]
  BY <1>1
<1>3. s \in Seq(Nat) /\ Len(s) \in Nat /\ \A i \in 1..Len(s) : s[i] \in Nat /\ s[i] < 4096
  <2>1. PICK A : A = 0..255
    BY ZenonT(40)
  <2>2. s \in Seq(A) /\ A \subseteq Nat /\ \A x \in A : x < 4096
    BY <2>1
  <2>3. s \in Seq(Nat) /\ Len(s) \in Nat /\ \A i \in 1..Len(s) : s[i] \in A
    BY <2>2, SeqOver
  <2> QED BY <2>2, <2>3
<1>4. MaxPayload \in Nat
  BY WsFrameAssumption
<1>5. CASE Marked(on, m)
  <2> DEFINE x == Compressed + c
             t == <<x>> \o s
  <2>1. x \in Nat /\ x < 4096
    BY DEF Compressed, Token
  <2> HIDE DEF x
  <2>2. /\ t \in Seq(Nat) /\ Len(t) = 1 + Len(s) /\ t[1] = x /\ \A i \in 1..Len(s) : t[1 + i] = s[i]
    BY <1>3, <2>1, OneThen
  <2>3. \A i \in 1..Len(t) : t[i] < 4096
    <3>1. ASSUME NEW i \in 1..Len(t) PROVE t[i] < 4096
      <4>1. CASE i = 1
        BY <2>1, <2>2, <4>1
      <4>2. CASE i # 1
        <5>1. i - 1 \in 1..Len(s) /\ i = 1 + (i - 1)
          BY <1>3, <2>2, <4>2
        <5>2. t[i] = s[i - 1] /\ s[i - 1] < 4096
          <6>1. t[1 + (i - 1)] = s[i - 1]
            BY <2>2, <5>1
          <6> HIDE DEF t
          <6> QED BY <1>3, <5>1, <6>1
        <5> HIDE DEF t
        <5> QED BY <5>2
      <4> QED BY <4>1, <4>2
    <3> QED BY <3>1
  <2>4. t # <<>> /\ Tail(t) = s
    <3>1. Tail(t) \in Seq(Nat) /\ Len(Tail(t)) = Len(s) /\ \A i \in 1..Len(s) : Tail(t)[i] = t[i + 1]
      <4> HIDE DEF t
      <4> QED BY <1>3, <2>2
    <3>2. \A i \in 1..Len(s) : t[i + 1] = s[i]
      <4>1. \A i \in 1..Len(s) : i + 1 = 1 + i
        OBVIOUS
      <4> HIDE DEF t
      <4> QED BY <2>2, <4>1, SMTT(25)
    <3> HIDE DEF t
    <3>3. Tail(t) = s
      <4>1. PICK u \in Seq(Nat) : u = Tail(t)
        BY <3>1, ZenonT(40)
      <4>2. Len(u) = Len(s) /\ \A i \in 1..Len(u) : u[i] = s[i]
        BY <3>1, <3>2, <4>1, ZenonT(40)
      <4>3. s \in Seq(Nat)
        BY <1>3
      <4> QED BY <4>1, <4>2, <4>3, SeqEqual
    <3>4. t # <<>>
      BY <1>3, <2>2
    <3> QED BY <3>3, <3>4
  <2>5. Carried(on, m, c) = t
    <3>1. Carried(on, m, c) = <<Compressed + c>> \o m[2]
      BY <1>5 DEF Carried
    <3> QED BY <1>2, <3>1 DEF x
  <2>6. ~IsControl(m[1])
    BY <1>5 DEF Marked
  <2>7. Words(t) /\ Len(t) <= MaxPayload
    <3> HIDE DEF t
    <3> QED BY <1>1, <1>2, <1>3, <1>4, <2>2, <2>3 DEF Words
  <2> HIDE DEF t
  <2> QED BY <1>2, <2>2, <2>4, <2>5, <2>6, <2>7 DEF x
<1>6. CASE ~Marked(on, m)
  <2>1. Carried(on, m, c) = s
    BY <1>2, <1>6 DEF Carried
  <2>2. Words(s)
    BY <1>3 DEF Words
  <2>3. Len(s) <= MaxPayload
    BY <1>1, <1>2, <1>3, <1>4
  <2> QED BY <1>1, <1>2, <1>6, <2>1, <2>2, <2>3
<1> QED BY <1>5, <1>6

\* What the receiver decodes of such a frame and what follows it.
LEMMA WireIs ==
  ASSUME NEW m \in Sendables, NEW on \in BOOLEAN, NEW c \in Nat, c <= 1000, NEW p \in Ends
  PROVE  /\ Wire(p, on, m, c) \in Seq(Nat) /\ Len(Wire(p, on, m, c)) \in Nat \ {0}
         /\ \A b \in Seq(Nat) : Agree(b, Wire(p, on, m, c)) =>
              Decode(b, p = Client) =
                IF Len(b) < Len(Wire(p, on, m, c)) THEN More
                ELSE [kind |-> "frame", consumed |-> Len(Wire(p, on, m, c)), frame |-> FrameOf(on, m, c)]
<1> DEFINE r == Marked(on, m)
           body == Carried(on, m, c)
           key == KeyOf(p)
           frame == FrameOf(on, m, c)
<1>1. key \in Seq(Nat) /\ (key = <<>> \/ Len(key) = KeyLen) /\ (p = Client) = (key # <<>>)
  <2>1. Key \in Seq(0..255) /\ Len(Key) = KeyLen /\ KeyLen \in Nat \ {0}
    BY WsOpeningAssumption, WsFrameAssumption
  <2>2. Key \in Seq(Nat) /\ Key # <<>>
    <3>1. PICK A : A = 0..255
      BY ZenonT(40)
    <3>2. Key \in Seq(A) /\ A \subseteq Nat
      BY <2>1, <3>1
    <3>3. Key \in Seq(Nat)
      BY <3>2, SeqOver, ZenonT(40)
    <3>4. Key # <<>>
      BY <2>1, <3>3
    <3> QED BY <3>3, <3>4
  <2> QED BY <2>1, <2>2 DEF KeyOf
<1>2. r \in BOOLEAN
  BY DEF Marked, IsControl
<1>3. m[1] \in Opcodes
  BY Sent
<1>4. Words(body) /\ Len(body) <= MaxPayload /\ (IsControl(m[1]) => Len(body) < Len16)
  BY CarriedIs
<1>5. frame = WireFrame(TRUE, r, m[1], body)
  BY DEF FrameOf
<1> HIDE DEF r, body, key
<1>6. Frameable(TRUE, r, m[1], body, key)
  BY <1>1, <1>2, <1>3, <1>4 DEF Frameable
<1>7. Wire(p, on, m, c) = Encode(frame, key)
  BY DEF Wire, key
<1> HIDE DEF frame
<1>8. PICK q : q = (p = Client)
  OBVIOUS
<1>9. ASSUME NEW b \in Seq(Nat), Agree(b, Encode(frame, key))
      PROVE  /\ Encode(frame, key) \in Seq(Nat) /\ Len(Encode(frame, key)) \in Nat \ {0}
             /\ Decode(b, q) =
                  IF Len(b) < Len(Encode(frame, key)) THEN More
                  ELSE [kind |-> "frame", consumed |-> Len(Encode(frame, key)), frame |-> frame]
  <2>1. Expects(q, key)
    BY <1>1, <1>8 DEF Expects
  <2>2. PICK fin, rsv1, op, data, k, g :
          fin = TRUE /\ rsv1 = r /\ op = m[1] /\ data = body /\ k = key /\ g = frame
    BY ZenonT(40)
  <2>3. Frameable(fin, rsv1, op, data, k) /\ g = WireFrame(fin, rsv1, op, data) /\ Agree(b, Encode(g, k)) /\ Expects(q, k)
    BY <1>5, <1>6, <1>9, <2>1, <2>2, ZenonT(40)
  <2>4. /\ Encode(g, k) \in Seq(Nat) /\ Len(Encode(g, k)) \in Nat \ {0}
        /\ Decode(b, q) =
             IF Len(b) < Len(Encode(g, k)) THEN More
             ELSE [kind |-> "frame", consumed |-> Len(Encode(g, k)), frame |-> g]
    BY <2>3, DecodeIs
  <2> QED BY <2>2, <2>4
<1>10. Encode(frame, key) \in Seq(Nat) /\ Len(Encode(frame, key)) \in Nat \ {0}
  <2>1. <<>> \in Seq(Nat)
    OBVIOUS
  <2>2. PICK e \in Seq(Nat) : e = <<>>
    BY <2>1, ZenonT(40)
  <2>3. Len(e) = 0
    BY <2>2
  <2>4. Agree(e, Encode(frame, key))
    BY <2>3 DEF Agree
  <2> QED BY <1>9, <2>4
<1> QED BY <1>7, <1>8, <1>9, <1>10 DEF frame

-----------------------------------------------------------------------------
\* What an end has put on the way: S[j] are the bytes behind its message j, the
\* frames of the later ones and what is last, and c[j] its context after it.
Chain(p, on, reset, msgs, last, S, c) ==
  /\ msgs \in Seq(Sendables) /\ Len(msgs) <= 1000
  /\ S \in [0..Len(msgs) -> Seq(Nat)] /\ c \in [0..Len(msgs) -> Nat]
  /\ c[0] = 0 /\ S[Len(msgs)] = last
  /\ \A j \in 1..Len(msgs) : /\ S[j - 1] = Wire(p, on, msgs[j], c[j - 1]) \o S[j]
                             /\ c[j] = After(on, reset, msgs[j], c[j - 1])

\* The types of such a chain.
LEMMA ChainTypes ==
  ASSUME NEW p, NEW on, NEW reset, NEW msgs, NEW last, NEW S, NEW c, Chain(p, on, reset, msgs, last, S, c)
  PROVE  /\ Len(msgs) \in Nat /\ 0 \in 0..Len(msgs) /\ Len(msgs) \in 0..Len(msgs)
         /\ \A j \in 1..Len(msgs) : j - 1 \in 0..Len(msgs) /\ j \in 0..Len(msgs) /\ msgs[j] \in Sendables
         /\ \A j \in 0..Len(msgs) : S[j] \in Seq(Nat) /\ c[j] \in Nat
<1>1. msgs \in Seq(Sendables) /\ S \in [0..Len(msgs) -> Seq(Nat)] /\ c \in [0..Len(msgs) -> Nat]
  BY DEF Chain
<1>2. Len(msgs) \in Nat /\ \A j \in 1..Len(msgs) : msgs[j] \in Sendables
  <2>1. msgs \in Seq(Sendables)
    BY <1>1
  <2> QED BY <2>1
<1> QED BY <1>1, <1>2, SMTT(25)

\* No context holds more messages than were sent.
LEMMA ContextBound ==
  ASSUME NEW p, NEW on, NEW reset, NEW msgs, NEW last, NEW S, NEW c, Chain(p, on, reset, msgs, last, S, c)
  PROVE  \A j \in 0..Len(msgs) : c[j] \in Nat /\ c[j] <= j /\ c[j] <= 1000
<1> DEFINE n == Len(msgs)
           T == {j \in 0..n : c[j] <= j}
<1>1. n \in Nat /\ n <= 1000 /\ \A j \in 0..n : c[j] \in Nat
  <2>1. n <= 1000
    BY DEF Chain
  <2> QED BY <2>1, ChainTypes
<1>2. c[0] = 0 /\ \A j \in 1..n : c[j] = After(on, reset, msgs[j], c[j - 1])
  BY ZenonT(40) DEF Chain
<1> HIDE DEF n
<1>3. 0 \in T
  BY <1>1, <1>2
<1>4. ASSUME NEW i \in 0..(n - 1), i \in T PROVE i + 1 \in T
  <2>1. i + 1 \in 1..n /\ (i + 1) - 1 = i /\ i \in 0..n /\ i + 1 \in 0..n /\ c[i] <= i
    BY <1>1, <1>4
  <2>2. c[i + 1] = After(on, reset, msgs[i + 1], c[i])
    BY <1>2, <2>1
  <2>3. c[i + 1] = c[i] + 1 \/ c[i + 1] = c[i]
    BY <2>2 DEF After
  <2>4. c[i] \in Nat /\ c[i + 1] \in Nat
    BY <1>1, <2>1
  <2>5. c[i + 1] <= i + 1
    BY <2>1, <2>3, <2>4
  <2> QED BY <2>1, <2>5
<1>5. 0..n \subseteq T
  <2> HIDE DEF T
  <2> QED BY <1>1, <1>3, <1>4, SetInduction
<1>6. ASSUME NEW j \in 0..n PROVE c[j] \in Nat /\ c[j] <= j /\ c[j] <= 1000
  <2>1. c[j] <= j /\ c[j] \in Nat
    BY <1>1, <1>5
  <2> QED BY <1>1, <2>1
<1> QED BY <1>6 DEF n

\* Its frames are bytes.
LEMMA ChainWires ==
  ASSUME NEW p \in Ends, NEW on \in BOOLEAN, NEW reset, NEW msgs, NEW last, NEW S, NEW c,
         Chain(p, on, reset, msgs, last, S, c), NEW j \in 1..Len(msgs)
  PROVE  Wire(p, on, msgs[j], c[j - 1]) \in Seq(Nat)
<1>1. msgs[j] \in Sendables /\ j - 1 \in 0..Len(msgs)
  BY ChainTypes
<1>2. c[j - 1] \in Nat /\ c[j - 1] <= 1000
  BY <1>1, ContextBound
<1> QED BY <1>1, <1>2, WireIs, ZenonT(40)

\* More bytes are put behind what is last.
Longer(p, on, reset, msgs, last, S, c, f) ==
  \E T : Chain(p, on, reset, msgs, last \o f, T, c) /\ \A j \in 0..Len(msgs) : T[j] = S[j] \o f

\* Bytes put behind the last frame of a chain.
LEMMA ChainMore ==
  ASSUME NEW p \in Ends, NEW on \in BOOLEAN, NEW reset, NEW msgs, NEW last, NEW S, NEW c,
         Chain(p, on, reset, msgs, last, S, c), NEW f \in Seq(Nat)
  PROVE  Longer(p, on, reset, msgs, last, S, c, f)
<1> DEFINE n == Len(msgs)
           T == [j \in 0..n |-> S[j] \o f]
<1>1. n \in Nat /\ n \in 0..n /\ (\A j \in 0..n : S[j] \in Seq(Nat)) /\ \A j \in 1..n : j - 1 \in 0..n /\ j \in 0..n
  BY ChainTypes
<1>2. msgs \in Seq(Sendables) /\ n <= 1000 /\ c \in [0..n -> Nat] /\ c[0] = 0 /\ S[n] = last
  BY DEF Chain
<1>3. \A j \in 1..n : /\ S[j - 1] = Wire(p, on, msgs[j], c[j - 1]) \o S[j]
                      /\ c[j] = After(on, reset, msgs[j], c[j - 1])
  BY ZenonT(40) DEF Chain
<1>4. \A j \in 1..n : Wire(p, on, msgs[j], c[j - 1]) \in Seq(Nat)
  BY ChainWires
<1> HIDE DEF n
<1>5. T \in [0..n -> Seq(Nat)]
  <2>1. \A j \in 0..n : S[j] \o f \in Seq(Nat)
    BY <1>1, ConcatElements
  <2> QED BY <2>1
<1>6. T[n] = last \o f
  BY <1>1, <1>2, ZenonT(40)
<1>7. ASSUME NEW j \in 1..n PROVE T[j - 1] = Wire(p, on, msgs[j], c[j - 1]) \o T[j]
  <2>1. T[j - 1] = S[j - 1] \o f /\ T[j] = S[j] \o f
    BY <1>1
  <2> HIDE DEF T
  <2>2. PICK w \in Seq(Nat) : w = Wire(p, on, msgs[j], c[j - 1])
    BY <1>4
  <2>3. S[j - 1] = w \o S[j] /\ S[j] \in Seq(Nat)
    BY <1>1, <1>3, <2>2
  <2>4. (w \o S[j]) \o f = w \o (S[j] \o f)
    <3>1. PICK v \in Seq(Nat) : v = S[j]
      BY <2>3
    <3>2. (w \o v) \o f = w \o (v \o f)
      BY ConcatThree, SMTT(25)
    <3> QED BY <3>1, <3>2
  <2> QED BY <2>1, <2>2, <2>3, <2>4
<1> HIDE DEF T
<1>8. Chain(p, on, reset, msgs, last \o f, T, c)
  <2>1. T \in [0..Len(msgs) -> Seq(Nat)] /\ T[Len(msgs)] = last \o f /\ c \in [0..Len(msgs) -> Nat] /\ c[0] = 0
    BY <1>2, <1>5, <1>6 DEF n
  <2>2. msgs \in Seq(Sendables) /\ Len(msgs) <= 1000
    BY <1>2 DEF n
  <2>3. \A j \in 1..Len(msgs) : /\ T[j - 1] = Wire(p, on, msgs[j], c[j - 1]) \o T[j]
                                /\ c[j] = After(on, reset, msgs[j], c[j - 1])
    BY <1>3, <1>7 DEF n
  <2> QED BY <2>1, <2>2, <2>3, ZenonT(40) DEF Chain
<1>9. \A j \in 0..Len(msgs) : T[j] = S[j] \o f
  BY DEF T, n
<1> QED BY <1>8, <1>9 DEF Longer

\* What is last is the frame of another message.
Added(p, on, reset, msgs, S, c, m) ==
  \E T, d : /\ Chain(p, on, reset, Append(msgs, m), <<>>, T, d)
            /\ \A j \in 0..Len(msgs) : T[j] = S[j] /\ d[j] = c[j]
            /\ d[Len(msgs) + 1] = After(on, reset, m, c[Len(msgs)])

\* A message put behind those of a chain.
LEMMA ChainAdd ==
  ASSUME NEW p \in Ends, NEW on \in BOOLEAN, NEW reset, NEW msgs, NEW S, NEW c, NEW m \in Sendables,
         Len(msgs) < 1000,
         Chain(p, on, reset, msgs, Wire(p, on, m, c[Len(msgs)]), S, c)
  PROVE  Added(p, on, reset, msgs, S, c, m)
<1> DEFINE n == Len(msgs)
           ms == Append(msgs, m)
           e == <<>>
           x == After(on, reset, m, c[n])
           T == [j \in 0..(n + 1) |-> IF j = n + 1 THEN e ELSE S[j]]
           d == [j \in 0..(n + 1) |-> IF j = n + 1 THEN x ELSE c[j]]
<1>1. /\ n \in Nat /\ (\A j \in 0..n : S[j] \in Seq(Nat) /\ c[j] \in Nat)
      /\ \A j \in 1..n : j - 1 \in 0..n /\ j \in 0..n
  BY ChainTypes
<1>2. msgs \in Seq(Sendables) /\ c[0] = 0 /\ S[n] = Wire(p, on, m, c[n])
  BY DEF Chain
<1>3. \A j \in 1..n : /\ S[j - 1] = Wire(p, on, msgs[j], c[j - 1]) \o S[j]
                      /\ c[j] = After(on, reset, msgs[j], c[j - 1])
  BY ZenonT(40) DEF Chain
<1>4. ms \in Seq(Sendables) /\ Len(ms) = n + 1 /\ ms[n + 1] = m /\ \A j \in 1..n : ms[j] = msgs[j]
  <2>1. msgs \in Seq(Sendables)
    BY <1>2
  <2> QED BY <2>1
<1>5. e \in Seq(Nat) /\ x \in Nat /\ Wire(p, on, m, c[n]) \in Seq(Nat)
  <2>1. c[n] \in Nat /\ n \in 0..n
    BY <1>1
  <2>2. x \in Nat
    BY <2>1 DEF After
  <2>3. c[n] <= 1000
    BY <2>1, ContextBound
  <2>4. Wire(p, on, m, c[n]) \in Seq(Nat)
    BY <2>1, <2>3, WireIs, ZenonT(40)
  <2>5. e \in Seq(Nat)
    OBVIOUS
  <2> HIDE DEF x, e
  <2> QED BY <2>2, <2>4, <2>5
<1>6. n < 1000
  OBVIOUS
<1>7. PICK y : y = x
  OBVIOUS
<1> HIDE DEF n, ms
<1>8. T \in [0..(n + 1) -> Seq(Nat)] /\ T[n + 1] = e /\ \A j \in 0..n : T[j] = S[j]
  <2>1. \A j \in 0..n : j \in 0..(n + 1) /\ j # n + 1
    BY <1>1
  <2>2. n + 1 \in 0..(n + 1) /\ \A j \in 0..(n + 1) : j # n + 1 => j \in 0..n
    BY <1>1
  <2> HIDE DEF e
  <2> QED BY <1>1, <1>5, <2>1, <2>2
<1>9. d \in [0..(n + 1) -> Nat] /\ d[n + 1] = x /\ \A j \in 0..n : d[j] = c[j]
  <2>1. \A j \in 0..n : j \in 0..(n + 1) /\ j # n + 1
    BY <1>1
  <2>2. n + 1 \in 0..(n + 1) /\ \A j \in 0..(n + 1) : j # n + 1 => j \in 0..n
    BY <1>1
  <2> HIDE DEF x
  <2> QED BY <1>1, <1>5, <2>1, <2>2
<1> HIDE DEF T, d
<1>10. ASSUME NEW j \in 1..(n + 1)
       PROVE  T[j - 1] = Wire(p, on, ms[j], d[j - 1]) \o T[j] /\ d[j] = After(on, reset, ms[j], d[j - 1])
  <2>1. CASE j = n + 1
    <3>1. j - 1 = n /\ n \in 0..n
      BY <1>1, <2>1
    <3>2. Wire(p, on, m, c[n]) \o e = Wire(p, on, m, c[n])
      <4>1. PICK w \in Seq(Nat) : w = Wire(p, on, m, c[n])
        BY <1>5
      <4>2. w \o <<>> = w
        OBVIOUS
      <4> QED BY <4>1, <4>2
    <3>3. T[j - 1] = S[n] /\ d[j - 1] = c[n] /\ T[j] = e /\ d[j] = x /\ ms[j] = m
      BY <1>4, <1>8, <1>9, <2>1, <3>1, SMTT(25)
    <3> HIDE DEF e
    <3> QED BY <1>2, <3>2, <3>3
  <2>2. CASE j # n + 1
    <3>1. j \in 1..n
      BY <1>1, <2>2
    <3>2. j - 1 \in 0..n /\ j \in 0..n
      BY <1>1, <3>1
    <3>3. T[j - 1] = S[j - 1] /\ T[j] = S[j] /\ d[j - 1] = c[j - 1] /\ d[j] = c[j] /\ ms[j] = msgs[j]
      BY <1>4, <1>8, <1>9, <3>1, <3>2
    <3> QED BY <1>3, <3>1, <3>3, ZenonT(40)
  <2> QED BY <2>1, <2>2, ZenonT(40)
<1>11. Len(ms) <= 1000 /\ d[0] = 0
  <2>1. 0 \in 0..n
    BY <1>1
  <2>2. n + 1 <= 1000
    BY <1>1, <1>6
  <2>3. d[0] = c[0]
    BY <1>9, <2>1
  <2> QED BY <1>2, <1>4, <2>2, <2>3
<1>12. Chain(p, on, reset, ms, e, T, d)
  <2> HIDE DEF e, x
  <2>1. T \in [0..Len(ms) -> Seq(Nat)] /\ T[Len(ms)] = e /\ d \in [0..Len(ms) -> Nat]
    BY <1>4, <1>8, <1>9
  <2>2. \A j \in 1..Len(ms) : T[j - 1] = Wire(p, on, ms[j], d[j - 1]) \o T[j] /\ d[j] = After(on, reset, ms[j], d[j - 1])
    BY <1>4, <1>10, ZenonT(40)
  <2>3. ms \in Seq(Sendables)
    BY <1>4
  <2> QED BY <1>11, <2>1, <2>2, <2>3, ZenonT(40) DEF Chain
<1>13. Chain(p, on, reset, Append(msgs, m), <<>>, T, d)
  BY <1>12 DEF ms
<1>14. \A j \in 0..Len(msgs) : T[j] = S[j] /\ d[j] = c[j]
  BY <1>8, <1>9 DEF n
<1>15. d[Len(msgs) + 1] = After(on, reset, m, c[Len(msgs)])
  BY <1>9 DEF n
<1> QED BY <1>13, <1>14, <1>15 DEF Added

-----------------------------------------------------------------------------
\* Bytes put together and cut.
LEMMA TailBytes ==
  \A s, t \in Seq(Nat) : \A k \in 0..Len(s) :
    SubSeq(s \o t, k + 1, Len(s \o t)) = SubSeq(s, k + 1, Len(s)) \o t
<1>1. \A X : \A x, y \in Seq(X) : \A i \in 0..Len(x) :
        SubSeq(x \o y, i + 1, Len(x \o y)) = SubSeq(x, i + 1, Len(x)) \o y
   BY TailConcat, ZenonT(40)
<1> QED  BY <1>1, Zenon

\* Concatenation is associative.
LEMMA JoinBytes ==
  \A s, t, u \in Seq(Nat) : (s \o t) \o u = s \o (t \o u)
BY ConcatJoin, SMTT(25)

\* The bytes an end has still to decode, k messages on, are what its peer p has
\* put on the way behind its message k, and behind a head; and the contexts of
\* both ends are those of the messages sent and handed out.
LinkOf(p, on, reset, msgs, lasts, k, head, bytes, compressed, decompressed) ==
  \E S, c, last :
    /\ Chain(p, on, reset, msgs, last, S, c) /\ last \in lasts
    /\ k \in 0..Len(msgs) /\ head \o S[k] = bytes
    /\ c[Len(msgs)] = compressed /\ c[k] = decompressed

\* Before the first message there is the head.
LEMMA LinkStart ==
  ASSUME NEW p, NEW on, NEW reset, NEW head \in Seq(Nat)
  PROVE  LinkOf(p, on, reset, <<>>, {<<>>}, 0, head, head, 0, 0)
<1> DEFINE e == <<>>
           S == [j \in 0..0 |-> e]
           c == [j \in 0..0 |-> 0]
<1>1. <<>> \in Seq(Sendables) /\ Len(<<>>) = 0 /\ e \in Seq(Nat) /\ head \o e = head
  OBVIOUS
<1> HIDE DEF e
<1>2. 0..0 = {0} /\ 1..0 = {}
  OBVIOUS
<1>3. S \in [0..0 -> Seq(Nat)] /\ c \in [0..0 -> Nat] /\ S[0] = e /\ c[0] = 0
  BY <1>1, <1>2
<1> HIDE DEF S, c
<1>4. Chain(p, on, reset, <<>>, e, S, c)
  BY <1>1, <1>2, <1>3 DEF Chain
<1>5. 0 \in 0..Len(<<>>) /\ e \in {<<>>}
  BY <1>1 DEF e
<1> QED BY <1>1, <1>3, <1>4, <1>5, ZenonT(40) DEF LinkOf

\* Without messages there is nothing else.
LEMMA LinkNothing ==
  ASSUME NEW p, NEW on, NEW reset, NEW k, NEW head \in Seq(Nat), NEW bytes, NEW x, NEW y,
         LinkOf(p, on, reset, <<>>, {<<>>}, k, head, bytes, x, y)
  PROVE  bytes = head
<1>1. PICK S, c, last : /\ Chain(p, on, reset, <<>>, last, S, c) /\ last \in {<<>>}
                        /\ k \in 0..Len(<<>>) /\ head \o S[k] = bytes
  BY DEF LinkOf
<1>2. Len(<<>>) = 0
  OBVIOUS
<1>3. k = 0 /\ S[0] = <<>>
  <2>1. k \in 0..0
    BY <1>1, <1>2
  <2>2. S[Len(<<>>)] = last
    BY <1>1 DEF Chain
  <2> QED BY <1>1, <1>2, <2>1, <2>2
<1>4. head \o <<>> = head
  OBVIOUS
<1> QED BY <1>1, <1>3, <1>4

\* The bytes arrive in order, whatever part of them is read at once.
Follows(bytes, head) == bytes \in Seq(Nat) /\ \E w \in Seq(Nat) : bytes = head \o w

\* What is on its way behind a head begins with it.
LEMMA LinkBytes ==
  ASSUME NEW p \in Ends, NEW on \in BOOLEAN, NEW reset, NEW msgs, NEW lasts, NEW k, NEW head \in Seq(Nat), NEW bytes,
         NEW x, NEW y, LinkOf(p, on, reset, msgs, lasts, k, head, bytes, x, y)
  PROVE  Follows(bytes, head)
<1>1. PICK S, c, last : /\ Chain(p, on, reset, msgs, last, S, c)
                        /\ k \in 0..Len(msgs) /\ head \o S[k] = bytes
  BY DEF LinkOf
<1>2. S[k] \in Seq(Nat)
  BY <1>1, ChainTypes
<1>3. PICK w \in Seq(Nat) : w = S[k]
  BY <1>2
<1>4. head \o w \in Seq(Nat)
  BY ConcatElements
<1> QED BY <1>1, <1>3, <1>4 DEF Follows

\* An end sends bytes.
LEMMA LinkMore ==
  ASSUME NEW p \in Ends, NEW on \in BOOLEAN, NEW reset, NEW msgs, NEW k, NEW head \in Seq(Nat), NEW bytes,
         NEW x, NEW y, LinkOf(p, on, reset, msgs, {<<>>}, k, head, bytes, x, y), NEW f \in Seq(Nat)
  PROVE  LinkOf(p, on, reset, msgs, {f}, k, head, bytes \o f, x, y)
<1>1. PICK S, c, last : /\ Chain(p, on, reset, msgs, last, S, c) /\ last \in {<<>>}
                        /\ k \in 0..Len(msgs) /\ head \o S[k] = bytes
                        /\ c[Len(msgs)] = x /\ c[k] = y
  BY DEF LinkOf
<1>2. PICK T : Chain(p, on, reset, msgs, last \o f, T, c) /\ \A j \in 0..Len(msgs) : T[j] = S[j] \o f
  <2>1. Chain(p, on, reset, msgs, last, S, c)
    BY <1>1
  <2>2. Longer(p, on, reset, msgs, last, S, c, f)
    BY <2>1, ChainMore
  <2> QED BY <2>2 DEF Longer
<1>3. last \o f = f
  BY <1>1
<1>4. head \o T[k] = bytes \o f
  <2>1. S[k] \in Seq(Nat)
    BY <1>1, ChainTypes
  <2>2. PICK w \in Seq(Nat) : w = S[k]
    BY <2>1
  <2>3. (head \o w) \o f = head \o (w \o f)
    <3>1. head \in Seq(Nat) /\ w \in Seq(Nat) /\ f \in Seq(Nat)
      OBVIOUS
    <3> QED BY <3>1, JoinBytes
  <2>4. T[k] = S[k] \o f
    BY <1>1, <1>2
  <2> QED BY <1>1, <2>2, <2>3, <2>4
<1>5. Chain(p, on, reset, msgs, f, T, c) /\ f \in {f}
  BY <1>2, <1>3
<1> QED BY <1>1, <1>4, <1>5 DEF LinkOf

\* An end sends a message.
LEMMA LinkSend ==
  ASSUME NEW p \in Ends, NEW on \in BOOLEAN, NEW reset, NEW msgs, Len(msgs) < 1000, NEW k, NEW head \in Seq(Nat), NEW bytes,
         NEW x, NEW y, LinkOf(p, on, reset, msgs, {<<>>}, k, head, bytes, x, y), NEW m \in Sendables
  PROVE  LinkOf(p, on, reset, Append(msgs, m), {<<>>}, k, head, bytes \o Wire(p, on, m, x), After(on, reset, m, x), y)
<1> DEFINE f == Wire(p, on, m, x)
<1>0. f \in Seq(Nat) /\ msgs \in Seq(Sendables) /\ Len(msgs) \in Nat
  <2>1. PICK S, c, last : Chain(p, on, reset, msgs, last, S, c) /\ c[Len(msgs)] = x
    BY DEF LinkOf
  <2>2. x \in Nat /\ x <= 1000 /\ Len(msgs) \in Nat
    BY <2>1, ContextBound, ChainTypes
  <2>3. msgs \in Seq(Sendables)
    BY <2>1 DEF Chain
  <2> QED BY <2>2, <2>3, WireIs, ZenonT(40)
<1> HIDE DEF f
<1>1. LinkOf(p, on, reset, msgs, {f}, k, head, bytes \o f, x, y)
  BY <1>0, LinkMore
<1>2. PICK S, c, last : /\ Chain(p, on, reset, msgs, last, S, c) /\ last \in {f}
                        /\ k \in 0..Len(msgs) /\ head \o S[k] = bytes \o f
                        /\ c[Len(msgs)] = x /\ c[k] = y
  BY <1>1, ZenonT(40) DEF LinkOf
<1> DEFINE n == Len(msgs)
<1>3. PICK T, d : /\ Chain(p, on, reset, Append(msgs, m), <<>>, T, d)
                  /\ \A j \in 0..Len(msgs) : T[j] = S[j] /\ d[j] = c[j]
                  /\ d[Len(msgs) + 1] = After(on, reset, m, c[Len(msgs)])
  <2>1. Chain(p, on, reset, msgs, Wire(p, on, m, c[Len(msgs)]), S, c)
    BY <1>2 DEF f
  <2>2. Len(msgs) < 1000
    OBVIOUS
  <2>3. Added(p, on, reset, msgs, S, c, m)
    BY <2>1, <2>2, ChainAdd
  <2> QED BY <2>3 DEF Added
<1>4. Len(Append(msgs, m)) = n + 1
  BY <1>0
<1>5. k \in 0..(n + 1) /\ k # n + 1 /\ n + 1 \in 0..(n + 1)
  <2>1. n \in Nat /\ k \in 0..n
    BY <1>0, <1>2
  <2> HIDE DEF n
  <2> QED BY <2>1
<1>6. T[k] = S[k] /\ d[k] = c[k] /\ d[n + 1] = After(on, reset, m, x)
  BY <1>2, <1>3
<1> HIDE DEF n
<1>7. /\ k \in 0..Len(Append(msgs, m)) /\ head \o T[k] = bytes \o f
      /\ d[Len(Append(msgs, m))] = After(on, reset, m, x) /\ d[k] = y /\ <<>> \in {<<>>}
  BY <1>2, <1>4, <1>5, <1>6, SMTT(25)
<1>8. LinkOf(p, on, reset, Append(msgs, m), {<<>>}, k, head, bytes \o f, After(on, reset, m, x), y)
  BY <1>3, <1>7, ZenonT(40) DEF LinkOf
<1> QED BY <1>8 DEF f

\* The receiver opens the connection: the head is consumed.
Rest(b, n) == SubSeq(b, n + 1, Len(b))
Split(h, w, b, s) == h \o w = b \o s /\ Len(h) <= Len(b)

\* Consuming h leaves what is behind it.
LEMMA Dropped ==
  ASSUME NEW h \in Seq(Nat), NEW w \in Seq(Nat), NEW b \in Seq(Nat), NEW s \in Seq(Nat),
         Split(h, w, b, s)
  PROVE  Rest(b, Len(h)) \in Seq(Nat) /\ Rest(b, Len(h)) \o s = w
<1>0. Len(h) \in 0..Len(b) /\ Len(h) \in Nat /\ Len(b) \in Nat
  BY DEF Split
<1> DEFINE n == Len(h)
           u == h \o w
<1>1. SubSeq(b, n + 1, Len(b)) \in Seq(Nat)
  BY <1>0, CutSeq
<1> HIDE DEF n
<1>2. SubSeq(b \o s, n + 1, Len(b \o s)) = SubSeq(b, n + 1, Len(b)) \o s
  <2>1. b \in Seq(Nat) /\ s \in Seq(Nat) /\ n \in 0..Len(b)
    BY <1>0 DEF n
  <2> QED BY <2>1, TailBytes
<1>3. SubSeq(h \o w, n + 1, Len(h \o w)) = SubSeq(h, n + 1, Len(h)) \o w
  <2>1. h \in Seq(Nat) /\ w \in Seq(Nat) /\ n \in 0..Len(h)
    BY <1>0 DEF n
  <2> QED BY <2>1, TailBytes
<1>4. SubSeq(h, n + 1, Len(h)) = <<>>
  <2>1. n \in 0..Len(h)
    BY <1>0 DEF n
  <2>2. SubSeq(h, n + 1, Len(h)) \in Seq(Nat) /\ Len(SubSeq(h, n + 1, Len(h))) = Len(h) - n
    BY <2>1, CutSeq
  <2>3. Len(h) - n = 0
    BY <1>0 DEF n
  <2>4. PICK t \in Seq(Nat) : t = SubSeq(h, n + 1, Len(h))
    BY <2>2
  <2>5. Len(t) = 0
    BY <2>2, <2>3, <2>4
  <2> QED BY <2>4, <2>5
<1>5. <<>> \o w = w
  OBVIOUS
<1>6. SubSeq(b, n + 1, Len(b)) \o s = w
  BY <1>2, <1>3, <1>4, <1>5 DEF Split
<1> QED BY <1>1, <1>6 DEF n, Rest

\* When the head is consumed, the messages are left.
LEMMA LinkOpened ==
  ASSUME NEW p \in Ends, NEW on \in BOOLEAN, NEW reset, NEW msgs, NEW lasts, NEW k, NEW head \in Seq(Nat),
         NEW b \in Seq(Nat), NEW s \in Seq(Nat),
         NEW x, NEW y, LinkOf(p, on, reset, msgs, lasts, k, head, b \o s, x, y), Len(head) <= Len(b)
  PROVE  LinkOf(p, on, reset, msgs, lasts, k, <<>>, Rest(b, Len(head)) \o s, x, y)
<1>1. PICK S, c, last : /\ Chain(p, on, reset, msgs, last, S, c) /\ last \in lasts
                        /\ k \in 0..Len(msgs) /\ head \o S[k] = b \o s
                        /\ c[Len(msgs)] = x /\ c[k] = y
  BY DEF LinkOf
<1>2. S[k] \in Seq(Nat)
  BY <1>1, ChainTypes
<1>3. PICK w \in Seq(Nat) : w = S[k]
  BY <1>2
<1>4. Rest(b, Len(head)) \o s = w
  <2>1. head \o w = b \o s
    BY <1>1, <1>3
  <2>2. Len(head) <= Len(b)
    OBVIOUS
  <2>3. Split(head, w, b, s)
    BY <2>1, <2>2 DEF Split
  <2> QED BY <2>3, Dropped
<1>5. <<>> \o w = w
  OBVIOUS
<1>6. <<>> \o S[k] = Rest(b, Len(head)) \o s
  BY <1>3, <1>4, <1>5
<1> QED BY <1>1, <1>6 DEF LinkOf

-----------------------------------------------------------------------------
\* Bytes that begin with a frame, of which b has arrived.
LEMMA FrameArrives ==
  ASSUME NEW f \in Seq(Nat), NEW w \in Seq(Nat), NEW b \in Seq(Nat), NEW s \in Seq(Nat), f \o w = b \o s
  PROVE  Agree(b, f) /\ (Len(b) < Len(f) => s # <<>>)
<1>1. /\ Len(f) \in Nat /\ Len(w) \in Nat /\ Len(f \o w) = Len(f) + Len(w)
      /\ \A i \in 1..Len(f) : (f \o w)[i] = f[i]
  BY ConcatElements
<1>2. /\ Len(b) \in Nat /\ Len(s) \in Nat /\ Len(b \o s) = Len(b) + Len(s)
      /\ \A i \in 1..Len(b) : (b \o s)[i] = b[i]
  BY ConcatElements
<1>3. Agree(b, f)
  <2>1. ASSUME NEW i \in 1..Len(b), i <= Len(f) PROVE b[i] = f[i]
    <3>1. i \in 1..Len(f)
      BY <1>1, <1>2, <2>1
    <3>2. (f \o w)[i] = f[i] /\ (b \o s)[i] = b[i]
      BY <1>1, <1>2, <3>1
    <3> QED BY <3>2
  <2> QED BY <2>1 DEF Agree
<1>4. ASSUME Len(b) < Len(f) PROVE s # <<>>
  <2>1. Len(f) + Len(w) = Len(b) + Len(s)
    BY <1>1, <1>2
  <2>2. Len(s) # 0
    BY <1>1, <1>2, <1>4, <2>1
  <2> QED BY <2>2
<1> QED BY <1>3, <1>4

\* The receiver waits for a byte on its way, or decodes the next frame, in the
\* context it was compressed in, and leaves the rest.
Delivers(p, on, reset, msgs, lasts, k, b, s, x, y) ==
  \/ Decode(b, p = Client) = More /\ s # <<>>
  \/ LET d == Decode(b, p = Client)
     IN  /\ d.kind = "frame" /\ d.frame = FrameOf(on, msgs[k + 1], y)
         /\ Rest(b, d.consumed) \in Seq(Nat)
         /\ LinkOf(p, on, reset, msgs, lasts, k + 1, <<>>, Rest(b, d.consumed) \o s, x,
                   After(on, reset, msgs[k + 1], y))

\* While there are messages, the next is delivered.
LEMMA LinkReceive ==
  ASSUME NEW p \in Ends, NEW on \in BOOLEAN, NEW reset, NEW msgs, NEW lasts, NEW k,
         NEW b \in Seq(Nat), NEW s \in Seq(Nat), NEW x, NEW y,
         LinkOf(p, on, reset, msgs, lasts, k, <<>>, b \o s, x, y), k # Len(msgs)
  PROVE  /\ k + 1 \in 1..Len(msgs) /\ msgs[k + 1] \in Sendables /\ y \in Nat /\ y <= 1000
         /\ Delivers(p, on, reset, msgs, lasts, k, b, s, x, y)
<1>1. PICK S, c, last : /\ Chain(p, on, reset, msgs, last, S, c) /\ last \in lasts
                        /\ k \in 0..Len(msgs) /\ <<>> \o S[k] = b \o s
                        /\ c[Len(msgs)] = x /\ c[k] = y
  BY DEF LinkOf
<1>2. Len(msgs) \in Nat
  BY <1>1, ChainTypes
<1>3. k \in Nat /\ k + 1 \in 1..Len(msgs) /\ k + 1 \in 0..Len(msgs) /\ (k + 1) - 1 = k
  BY <1>1, <1>2
<1>4. msgs[k + 1] \in Sendables /\ S[k] \in Seq(Nat) /\ S[k + 1] \in Seq(Nat)
  BY <1>1, <1>3, ChainTypes
<1>5. y \in Nat /\ y <= 1000
  BY <1>1, ContextBound
<1> DEFINE f == Wire(p, on, msgs[k + 1], y)
           d == Decode(b, p = Client)
<1>6. S[k] = f \o S[k + 1] /\ c[k + 1] = After(on, reset, msgs[k + 1], y)
  <2>1. \A j \in 1..Len(msgs) : /\ S[j - 1] = Wire(p, on, msgs[j], c[j - 1]) \o S[j]
                                /\ c[j] = After(on, reset, msgs[j], c[j - 1])
    BY <1>1, ZenonT(40) DEF Chain
  <2>2. k \in Nat /\ k + 1 \in 1..Len(msgs) /\ (k + 1) - 1 = k
    BY <1>1, <1>3
  <2>3. S[k] = Wire(p, on, msgs[k + 1], c[k]) \o S[k + 1] /\ c[k + 1] = After(on, reset, msgs[k + 1], c[k])
    BY <2>1, <2>2
  <2> QED BY <1>1, <1>3, <2>3
<1>7. /\ f \in Seq(Nat) /\ Len(f) \in Nat \ {0}
      /\ Agree(b, f) => d = IF Len(b) < Len(f) THEN More
                            ELSE [kind |-> "frame", consumed |-> Len(f), frame |-> FrameOf(on, msgs[k + 1], y)]
  <2>1. PICK m \in Sendables, n \in Nat : m = msgs[k + 1] /\ n = y
    BY <1>4, <1>5
  <2>2. n <= 1000 /\ f = Wire(p, on, m, n)
    BY <1>5, <2>1
  <2> HIDE DEF f
  <2>3. /\ Wire(p, on, m, n) \in Seq(Nat) /\ Len(Wire(p, on, m, n)) \in Nat \ {0}
        /\ \A bb \in Seq(Nat) : Agree(bb, Wire(p, on, m, n)) =>
             Decode(bb, p = Client) =
               IF Len(bb) < Len(Wire(p, on, m, n)) THEN More
               ELSE [kind |-> "frame", consumed |-> Len(Wire(p, on, m, n)), frame |-> FrameOf(on, m, n)]
    BY <2>2, WireIs, SMTT(40)
  <2>4. /\ f \in Seq(Nat) /\ Len(f) \in Nat \ {0}
        /\ Agree(b, f) => d = IF Len(b) < Len(f) THEN More
                              ELSE [kind |-> "frame", consumed |-> Len(f), frame |-> FrameOf(on, m, n)]
    BY <2>2, <2>3, Zenon
  <2> HIDE DEF d
  <2> QED BY <2>1, <2>4, Zenon
<1> HIDE DEF f
<1>8. PICK w \in Seq(Nat) : w = S[k + 1]
  BY <1>4
<1>9. f \o w = b \o s
  <2>1. PICK v \in Seq(Nat) : v = S[k]
    BY <1>4
  <2>2. <<>> \o v = v
    OBVIOUS
  <2> QED BY <1>1, <1>6, <1>8, <2>1, <2>2
<1>10. Agree(b, f) /\ (Len(b) < Len(f) => s # <<>>)
  BY <1>7, <1>9, FrameArrives
<1>11. CASE Len(b) < Len(f)
  BY <1>3, <1>4, <1>5, <1>7, <1>10, <1>11 DEF Delivers
<1>12. CASE ~(Len(b) < Len(f))
  <2>1. d = [kind |-> "frame", consumed |-> Len(f), frame |-> FrameOf(on, msgs[k + 1], y)]
    BY <1>7, <1>10, <1>12
  <2>2. d.kind = "frame" /\ d.consumed = Len(f) /\ d.frame = FrameOf(on, msgs[k + 1], y)
    BY <2>1
  <2>3. Rest(b, Len(f)) \in Seq(Nat) /\ Rest(b, Len(f)) \o s = w
    <3>1. Split(f, w, b, s)
      <4>1. Len(b) \in Nat /\ Len(f) \in Nat
        BY <1>7
      <4>2. Len(f) <= Len(b)
        BY <1>12, <4>1
      <4> QED BY <1>9, <4>2 DEF Split
    <3> QED BY <1>7, <3>1, Dropped
  <2>4. LinkOf(p, on, reset, msgs, lasts, k + 1, <<>>, Rest(b, Len(f)) \o s, x, After(on, reset, msgs[k + 1], y))
    <3>1. <<>> \o S[k + 1] = Rest(b, Len(f)) \o s
      <4>1. <<>> \o w = w
        OBVIOUS
      <4> QED BY <1>8, <2>3, <4>1
    <3> QED BY <1>1, <1>3, <1>6, <3>1 DEF LinkOf
  <2>5. Delivers(p, on, reset, msgs, lasts, k, b, s, x, y)
    BY <2>2, <2>3, <2>4 DEF Delivers
  <2> QED BY <1>3, <1>4, <1>5, <2>5
<1> QED BY <1>11, <1>12

\* When all has been handed out, there is what is last.
LEMMA LinkEnd ==
  ASSUME NEW p, NEW on, NEW reset, NEW msgs, NEW lasts, NEW k,
         NEW b \in Seq(Nat), NEW s \in Seq(Nat), NEW x, NEW y,
         LinkOf(p, on, reset, msgs, lasts, k, <<>>, b \o s, x, y), k = Len(msgs)
  PROVE  b \o s \in lasts
<1>1. PICK S, c, last : /\ Chain(p, on, reset, msgs, last, S, c) /\ last \in lasts
                        /\ <<>> \o S[k] = b \o s
  BY DEF LinkOf
<1>2. S[k] = last /\ S[k] \in Seq(Nat)
  <2>1. Len(msgs) \in 0..Len(msgs)
    BY <1>1, ChainTypes
  <2> QED BY <1>1, <2>1, ChainTypes DEF Chain
<1>3. PICK v \in Seq(Nat) : v = S[k]
  BY <1>2
<1>4. <<>> \o v = v
  OBVIOUS
<1> QED BY <1>1, <1>2, <1>3, <1>4

\* No bytes are decoded to no frame.
LEMMA NothingLeft ==
  ASSUME NEW b \in Seq(Nat), NEW s \in Seq(Nat), b \o s = <<>>, NEW q
  PROVE  s = <<>> /\ Decode(b, q) = More
<1>1. Len(b) \in Nat /\ Len(s) \in Nat /\ Len(b \o s) = Len(b) + Len(s)
  BY ConcatElements
<1>2. Len(b) = 0 /\ Len(s) = 0
  BY <1>1
<1>3. s = <<>> /\ Len(b) < 2
  BY <1>2
<1> QED BY <1>3 DEF Decode

\* A bad frame is no good one, however much of it has arrived.
LEMMA BadArrives ==
  ASSUME NEW p \in Ends, NEW f \in BadFrames[p], NEW b \in Seq(Nat), NEW s \in Seq(Nat), b \o s = f,
         Decode(b, p = Client).kind = "frame"
  PROVE  LET g == Decode(b, p = Client).frame
         IN  g.rsv1 /\ ~IsControl(g.opcode) /\ (g.payload = <<>> \/ g.payload[1] < Compressed)
<1>1. NeverGood(f, p = Client)
  BY WsOpeningAssumption
<1>2. Len(b) \in 0..Len(f) /\ SubSeq(f, 1, Len(b)) = b
  <2>1. /\ b \o s \in Seq(Nat) /\ Len(b) \in Nat /\ Len(s) \in Nat /\ Len(b \o s) = Len(b) + Len(s)
        /\ \A i \in 1..Len(b) : (b \o s)[i] = b[i]
    <3>1. b \in Seq(Nat) /\ s \in Seq(Nat)
      OBVIOUS
    <3>2. PICK u \in Seq(Nat), v \in Seq(Nat) : u = b /\ v = s
      BY <3>1
    <3>3. /\ u \o v \in Seq(Nat) /\ Len(u) \in Nat /\ Len(v) \in Nat /\ Len(u \o v) = Len(u) + Len(v)
          /\ \A i \in 1..Len(u) : (u \o v)[i] = u[i]
      BY ConcatElements
    <3> QED BY <3>2, <3>3
  <2>2. PICK g \in Seq(Nat) : g = b \o s
    BY <2>1
  <2>3. Len(b) \in 0..Len(g) /\ \A i \in 1..Len(b) : g[i] = b[i]
    BY <2>1, <2>2
  <2>4. PICK n \in 0..Len(g) : n = Len(b)
    BY <2>3
  <2>5. SubSeq(g, 1, n) \in Seq(Nat) /\ Len(SubSeq(g, 1, n)) = n /\ \A i \in 1..n : SubSeq(g, 1, n)[i] = g[i]
    BY CutSeq
  <2>6. PICK h \in Seq(Nat) : h = SubSeq(g, 1, n)
    BY <2>5
  <2>7. Len(h) = Len(b) /\ \A i \in 1..Len(h) : h[i] = b[i]
    BY <2>3, <2>4, <2>5, <2>6
  <2>8. h = b
    BY <2>7, SeqEqual
  <2> QED BY <2>2, <2>3, <2>4, <2>6, <2>8
<1>3. LET d == Decode(SubSeq(f, 1, Len(b)), p = Client)
      IN  d.kind = "frame" =>
            /\ d.frame.rsv1 /\ ~IsControl(d.frame.opcode)
            /\ d.frame.payload = <<>> \/ d.frame.payload[1] < Compressed
  BY <1>1, <1>2 DEF NeverGood
<1> QED BY <1>2, <1>3

-----------------------------------------------------------------------------
\* A read moves bytes from the way into the buffer.
LEMMA ReadMoves ==
  ASSUME NEW b \in Seq(Nat), NEW s \in Seq(Nat), NEW n \in 1..Len(s)
  PROVE  /\ b \o SubSeq(s, 1, n) \in Seq(Nat) /\ Len(b \o SubSeq(s, 1, n)) = Len(b) + n
         /\ SubSeq(s, n + 1, Len(s)) \in Seq(Nat)
         /\ (b \o SubSeq(s, 1, n)) \o SubSeq(s, n + 1, Len(s)) = b \o s
<1>1. n \in 0..Len(s)
  OBVIOUS
<1>2. /\ SubSeq(s, 1, n) \in Seq(Nat) /\ SubSeq(s, n + 1, Len(s)) \in Seq(Nat)
      /\ Len(SubSeq(s, 1, n)) = n /\ SubSeq(s, 1, n) \o SubSeq(s, n + 1, Len(s)) = s
  BY <1>1, CutSeq
<1>3. PICK u \in Seq(Nat), v \in Seq(Nat) : u = SubSeq(s, 1, n) /\ v = SubSeq(s, n + 1, Len(s))
  BY <1>2
<1>4. Len(u) = n /\ u \o v = s
  BY <1>2, <1>3
<1>5. b \o u \in Seq(Nat) /\ Len(b \o u) = Len(b) + Len(u)
  BY ConcatElements
<1>6. (b \o u) \o v = b \o (u \o v)
  BY JoinBytes, ZenonT(40)
<1> QED BY <1>3, <1>4, <1>5, <1>6

\* What has arrived is the beginning of what was sent.
LEMMA ArrivedBegins ==
  ASSUME NEW b \in Seq(Nat), NEW s \in Seq(Nat), NEW r, b \o s = r
  PROVE  r \in Seq(Nat) /\ Begins(b, r) /\ (s = <<>> => b = r)
<1>1. /\ b \o s \in Seq(Nat) /\ Len(b) \in Nat /\ Len(s) \in Nat /\ Len(b \o s) = Len(b) + Len(s)
      /\ \A i \in 1..Len(b) : (b \o s)[i] = b[i]
  BY ConcatElements, ZenonT(40)
<1>2. b \o <<>> = b
  OBVIOUS
<1>3. PICK t \in Seq(Nat) : t = r
  BY <1>1
<1>4. Len(t) = Len(b) + Len(s) /\ \A i \in 1..Len(b) : t[i] = b[i]
  BY <1>1, <1>3
<1>5. Begins(b, t)
  BY <1>1, <1>4 DEF Begins
<1> QED BY <1>2, <1>3, <1>5

\* What the parser and the decoder return.
LEMMA HeadKinds ==
  ASSUME NEW b, NEW isResponse
  PROVE  ParseHead(b, isResponse) = Incomplete \/ ParseHead(b, isResponse).kind \in {"error", "head"}
<1>1. FindHeadEnd(b) \in {Malformed, Incomplete} \/ FindHeadEnd(b).kind = "end"
  BY DEF FindHeadEnd
<1>2. Malformed.kind = "error" /\ Incomplete.kind = "more"
  BY DEF Malformed, Incomplete
<1>3. \A head : ParseLines(head, isResponse).kind \in {"error", "head"}
  BY <1>2 DEF ParseLines
<1> QED BY <1>1, <1>2, <1>3 DEF ParseHead

\* Neither does the decoder return anything else.
LEMMA FrameKinds ==
  ASSUME NEW b, NEW q
  PROVE  Decode(b, q) = More \/ Decode(b, q).kind \in {"error", "frame"}
<1>1. BadFrame.kind = "error"
  BY DEF BadFrame
<1>2. \A n, f : [kind |-> "frame", consumed |-> n, frame |-> f].kind = "frame"
  OBVIOUS
<1> QED BY <1>1, <1>2 DEF Decode

\* The parser and the decoder ask for more bytes alike.
LEMMA MoreIs == More = Incomplete /\ More.kind = "more" /\ Incomplete.kind = "more"
BY DEF More, Incomplete

\* Of no bytes there is more to read.
LEMMA NothingParsed ==
  ASSUME NEW isResponse
  PROVE  ParseHead(<<>>, isResponse) = Incomplete
<1>1. <<>> \in Seq(Nat)
  OBVIOUS
<1>2. PICK b \in Seq(Nat) : b = <<>>
  BY <1>1
<1>3. Len(b) = 0
  BY <1>2
<1>4. Delims(b) = {}
  BY <1>3 DEF Delims
<1>5. ~Folded(b)
  <2>1. 1..(Len(b) - 1) = {}
    BY <1>3
  <2> QED BY <2>1, FoldedIs
<1>6. ~(Len(b) > MaxHead)
  BY <1>3, HttpHeadAssumption
<1>7. ParseHead(b, isResponse) = Incomplete
  BY <1>4, <1>5, <1>6, HeadOpen
<1> QED BY <1>2, <1>7

\* A good frame is decompressed in the context it was compressed in.
LEMMA PlainGood ==
  ASSUME NEW m \in Sendables, NEW on \in BOOLEAN, NEW c \in Nat, c <= 1000, NEW e,
         deflate[e].on = on, deflate[e].decompressed = c
  PROVE  LET f == FrameOf(on, m, c)
         IN  /\ Plain(e, f).ok /\ Plain(e, f).payload = m[2] /\ f.opcode = m[1]
             /\ IsCompressed(f) <=> Marked(on, m)
<1> DEFINE f == FrameOf(on, m, c)
<1>1. f.rsv1 = Marked(on, m) /\ f.opcode = m[1] /\ f.payload = Carried(on, m, c)
  BY DEF FrameOf, WireFrame
<1>2. Marked(on, m) => ~IsControl(m[1]) /\ on
  BY DEF Marked
<1> HIDE DEF f
<1>3. CASE Marked(on, m)
  <2>1. /\ Carried(on, m, c) # <<>> /\ Carried(on, m, c)[1] = Compressed + c
        /\ Tail(Carried(on, m, c)) = m[2]
    BY <1>3, CarriedIs, SMTT(25)
  <2>2. IsCompressed(f)
    BY <1>1, <1>2, <1>3 DEF IsCompressed
  <2>3. Plain(e, f) = [ok |-> TRUE, payload |-> m[2]]
    <3>1. Plain(e, f) = Decompress(e, f.payload)
      BY <2>2 DEF Plain
    <3> QED BY <1>1, <1>2, <1>3, <2>1, <3>1, ZenonT(40) DEF Decompress
  <2> QED BY <1>1, <1>3, <2>2, <2>3 DEF f
<1>4. CASE ~Marked(on, m)
  <2>1. ~IsCompressed(f) /\ ~f.rsv1
    BY <1>1, <1>4 DEF IsCompressed
  <2>2. Carried(on, m, c) = m[2]
    BY <1>4 DEF Carried
  <2>3. Plain(e, f).ok /\ Plain(e, f).payload = m[2]
    BY <1>1, <2>1, <2>2, ZenonT(40) DEF Plain
  <2> QED BY <1>1, <1>4, <2>1, <2>3 DEF f
<1> QED BY <1>3, <1>4

\* A bad frame is not.
LEMMA PlainBad ==
  ASSUME NEW e, NEW f, f.rsv1, ~IsControl(f.opcode), f.payload = <<>> \/ f.payload[1] < Compressed,
         deflate[e].decompressed \in Nat
  PROVE  ~Plain(e, f).ok
<1>1. Plain(e, f) = Decompress(e, f.payload)
  BY DEF Plain, IsCompressed
<1>2. Compressed \in Nat
  BY DEF Compressed, Token
<1>3. ~(f.payload # <<>> /\ f.payload[1] = Compressed + deflate[e].decompressed)
  BY <1>2
<1> QED BY <1>1, <1>3 DEF Decompress

-----------------------------------------------------------------------------
\* The codecs that the two ends install for an answer fit.
Fit(c, d) ==
  /\ c.on = d.on
  /\ c.reset_compressor = d.reset_decompressor /\ c.reset_decompressor = d.reset_compressor

\* What an opening negotiates.
Negotiable == {<<>>, NoTakeover} \cup Replies

\* server_accept and client_codec agree, or the answer of another server is
\* refused.
LEMMA Negotiated ==
  ASSUME NEW ext \in Negotiable
  PROVE  /\ IsValue(ext) /\ Fit(ServerCodec(ext), ClientCodec(ext))
         /\ Refused(ext) => ext \in Replies
<1>1. CASE ext = <<>>
  <2>1. ServerCodec(ext) = NoDeflate /\ ClientCodec(ext) = NoDeflate
    BY <1>1, NoValue DEF ServerCodec, ClientCodec
  <2>2. Fit(NoDeflate, NoDeflate)
    BY DEF Fit, NoDeflate
  <2>3. Fit(ServerCodec(ext), ClientCodec(ext))
    BY <2>1, <2>2
  <2>4. IsValue(ext) /\ ~Refused(ext)
    BY <1>1, NoValue
  <2> QED BY <2>3, <2>4
<1>2. ASSUME IsValue(ext), DeflateElement(ext) # <<>>,
             Contains(ext, ClientNoContext) <=> Contains(DeflateElement(ext), ClientNoContext),
             Contains(ext, ServerNoContext) <=> Contains(DeflateElement(ext), ServerNoContext)
      PROVE  Fit(ServerCodec(ext), ClientCodec(ext))
  <2>1. ext # <<>>
    BY <1>2, NoValue
  <2>2. PICK a, b : a = Contains(ext, ServerNoContext) /\ b = Contains(ext, ClientNoContext)
    OBVIOUS
  <2>3. a = Contains(DeflateElement(ext), ServerNoContext) /\ b = Contains(DeflateElement(ext), ClientNoContext)
    BY <1>2, <2>2 DEF Contains
  <2>4. ServerCodec(ext) = NewCodec(a, b)
    BY <2>1, <2>2 DEF ServerCodec
  <2>5. ClientCodec(ext) = NewCodec(b, a)
    BY <1>2, <2>3 DEF ClientCodec
  <2>6. Fit(NewCodec(a, b), NewCodec(b, a))
    BY DEF Fit, NewCodec, NoDeflate
  <2> QED BY <2>4, <2>5, <2>6
<1>3. CASE ext = NoTakeover
  <2>1. Fit(ServerCodec(ext), ClientCodec(ext))
    BY <1>2, <1>3, NoTakeoverIs
  <2> QED BY <1>3, <2>1, NoTakeoverIs
<1>4. CASE ext \in Replies
  <2>1. IsValue(ext)
    BY <1>4, HeadsAssumption
  <2>2. /\ DeflateElement(ext) # <<>>
        /\ \A p \in {ClientNoContext, ServerNoContext} :
             Contains(ext, p) <=> Contains(DeflateElement(ext), p)
    BY <1>4, RepliesAssumption
  <2>3. Fit(ServerCodec(ext), ClientCodec(ext))
    BY <1>2, <2>1, <2>2
  <2> QED BY <1>4, <2>1, <2>3
<1> QED BY <1>1, <1>3, <1>4 DEF Negotiable

\* Both are codecs, new ones.
Codec == [on : BOOLEAN, reset_compressor : BOOLEAN, reset_decompressor : BOOLEAN,
          compressed : Nat, decompressed : Nat]
IsNew(c) == c \in Codec /\ c.compressed = 0 /\ c.decompressed = 0

\* New codecs hold no context.
LEMMA NewCodecs ==
  IsNew(NoDeflate) /\ \A ext : IsNew(ServerCodec(ext)) /\ IsNew(ClientCodec(ext))
<1>1. IsNew(NoDeflate)
  BY DEF NoDeflate, IsNew, Codec
<1>2. \A a, b \in BOOLEAN : IsNew(NewCodec(a, b))
  BY DEF NewCodec, NoDeflate, IsNew, Codec
<1>3. \A s, x : Contains(s, x) \in BOOLEAN
  BY DEF Contains
<1>4. ASSUME NEW ext PROVE IsNew(ServerCodec(ext)) /\ IsNew(ClientCodec(ext))
  <2>1. IsNew(ServerCodec(ext))
    BY <1>1, <1>2, <1>3 DEF ServerCodec
  <2>2. IsNew(ClientCodec(ext))
    BY <1>1, <1>2, <1>3 DEF ClientCodec
  <2> QED BY <2>1, <2>2
<1> QED BY <1>1, <1>4

\* What is last may be anything else as well.
LEMMA LinkWider ==
  ASSUME NEW p, NEW on, NEW reset, NEW msgs, NEW lasts, NEW k, NEW head, NEW bytes, NEW x, NEW y,
         LinkOf(p, on, reset, msgs, lasts, k, head, bytes, x, y), NEW wider, lasts \subseteq wider
  PROVE  LinkOf(p, on, reset, msgs, wider, k, head, bytes, x, y)
BY DEF LinkOf

-----------------------------------------------------------------------------
\* What the request says, the extensions it is answered with, and the answer.
Asked  == ParseHead(request, FALSE)
Said   == Extensions(Get(Asked.headers, SecExt))
Answer == RenderAcceptResponse(AcceptKey(Get(Asked.headers, SecKey)), Said)

\* The answer is one that an opening negotiates.
LEMMA SaidNegotiable ==
  ASSUME reply \in {OurServer} \cup Replies
  PROVE  Said \in Negotiable
<1>1. \A offer : ServerAccept(offer) \in {<<>>, NoTakeover}
  BY DEF ServerAccept, NoTakeover
<1>2. \A offer : Extensions(offer) = ServerAccept(offer) \/ (Extensions(offer) = reply /\ reply # OurServer)
  BY DEF Extensions
<1> QED BY <1>1, <1>2 DEF Said, Negotiable

\* A request has its end where its bytes end.
LEMMA RequestIs ==
  ASSUME request \in Requests
  PROVE  request \in Seq(Nat) /\ HeadEnds(request) \subseteq {Len(request)}
<1>1. CASE request \in OtherRequests
  BY <1>1, HeadsAssumption
<1>2. CASE request \in OurRequests
  <2>1. PICK ext \in Offers : request = RenderClientRequest(ext)
    BY <1>2 DEF OurRequests
  <2>2. IsValue(ext)
    BY HeadsAssumption
  <2>3. request \in Seq(Nat) /\ HeadEnds(request) = {Len(request)}
    BY <2>1, <2>2, OurRequestIs
  <2> QED BY <2>3
<1> QED BY <1>1, <1>2 DEF Requests

\* So has the answer of accept.
LEMMA AnswerOnce ==
  ASSUME reply \in {OurServer} \cup Replies, request \in Requests, Asked.kind = "head"
  PROVE  Answer \in Seq(Nat) /\ HeadEnds(Answer) = {Len(Answer)}
<1>1. IsValue(Said)
  BY SaidNegotiable, Negotiated
<1>2. OneLine(Get(Asked.headers, SecKey))
  <2>1. request \in Seq(Nat) /\ ParseHead(request, FALSE).kind = "head"
    BY RequestIs DEF Asked
  <2>2. PICK r \in Seq(Nat), isResponse \in BOOLEAN : r = request /\ isResponse = FALSE
    BY <2>1
  <2>3. ParseHead(r, isResponse).kind = "head"
    BY <2>1, <2>2
  <2>4. OneLine(Get(ParseHead(r, isResponse).headers, SecKey))
    BY <2>3, SaidInOneLine
  <2> QED BY <2>2, <2>4 DEF Asked
<1>3. PICK key, ext : key = Get(Asked.headers, SecKey) /\ ext = Said
  OBVIOUS
<1>4. PICK r : r = RenderAcceptResponse(AcceptKey(key), ext)
  OBVIOUS
<1>5. r \in Seq(Nat) /\ HeadEnds(r) = {Len(r)}
  BY <1>1, <1>2, <1>3, <1>4, AnswerEnds
<1> QED BY <1>3, <1>4, <1>5 DEF Answer

\* Our own request is an upgrade, and within the limit.
OurRequest ==
  /\ HeadEnds(request) = {Len(request)} /\ ~Folded(request) /\ Len(request) <= MaxHead
  /\ Asked.kind = "head" /\ Asked.consumed = Len(request) /\ IsUpgrade(Asked)
  /\ Get(Asked.headers, SecKey) = <<Nonce>>

\* A request of our own is accepted.
LEMMA OurRequestOpens ==
  ASSUME request \in OurRequests
  PROVE  OurRequest
<1>1. PICK ext \in Offers : request = RenderClientRequest(ext)
  BY DEF OurRequests
<1>2. IsValue(ext) /\ Len(request) <= MaxHead
  BY <1>1, HeadsAssumption
<1>3. PICK r : r = request
  OBVIOUS
<1>4. r = RenderClientRequest(ext) /\ Len(r) <= MaxHead
  BY <1>1, <1>2, <1>3
<1>5. /\ HeadEnds(r) = {Len(r)} /\ ~Folded(r)
      /\ LET h == ParseHead(r, FALSE)
         IN  /\ h.kind = "head" /\ h.consumed = Len(r) /\ IsUpgrade(h)
             /\ Get(h.headers, SecKey) = <<Nonce>> /\ Get(h.headers, SecExt) = ext
  BY <1>2, <1>4, OurRequestIs
<1> QED BY <1>2, <1>3, <1>5 DEF OurRequest, Asked

\* So is the answer to it, which leaves room for another read.
OurAnswer ==
  LET h == ParseHead(Answer, TRUE)
  IN  /\ Answer \in Seq(Nat) /\ HeadEnds(Answer) = {Len(Answer)} /\ ~Folded(Answer)
      /\ Len(Answer) + Chunk - 1 <= MaxHead
      /\ h.kind = "head" /\ h.consumed = Len(Answer) /\ h.first[3] = Status + 101
      /\ Get(h.headers, SecAccept) = <<Accepted>> /\ Get(h.headers, SecExt) = Said

\* The answer to it is, too.
LEMMA OurAnswerOpens ==
  ASSUME request \in OurRequests, reply \in {OurServer} \cup Replies
  PROVE  OurAnswer
<1>1. PICK ext \in Negotiable : ext = Said
  BY SaidNegotiable
<1>2. PICK r : r = RenderAcceptResponse(<<Accepted>>, ext)
  OBVIOUS
<1>3. Answer = r
  <2>1. Get(Asked.headers, SecKey) = <<Nonce>>
    BY OurRequestOpens DEF OurRequest
  <2>2. AcceptKey(<<Nonce>>) = <<Accepted>>
    BY DEF AcceptKey
  <2> QED BY <1>1, <1>2, <2>1, <2>2 DEF Answer
<1>4. IsValue(ext)
  BY Negotiated
<1>5. r \in Seq(Nat) /\ HeadEnds(r) = {Len(r)} /\ ~Folded(r)
  BY <1>2, <1>4, AnswerIs
<1>6. Len(r) \in Nat /\ Chunk \in Nat \ {0} /\ MaxHead \in Nat
  BY <1>5, WsOpeningAssumption, HttpHeadAssumption
<1>7. Len(r) + Chunk - 1 <= MaxHead
  <2>1. ServerAccept(<<Deflate>>) = NoTakeover
    BY NoTakeoverIs
  <2>2. \A x \in Replies \cup {NoTakeover} : Len(RenderAcceptResponse(<<Accepted>>, x)) + Chunk - 1 <= MaxHead
    BY <2>1, HeadsAssumption
  <2>3. CASE ext # <<>>
    BY <1>2, <2>2, <2>3 DEF Negotiable
  <2>4. CASE ext = <<>>
    <3>1. IsValue(NoTakeover)
      BY NoTakeoverIs
    <3>2. PICK n : n = Len(RenderAcceptResponse(<<Accepted>>, NoTakeover))
      OBVIOUS
    <3>3. n \in Nat /\ Len(r) <= n
      BY <1>2, <2>4, <3>1, <3>2, AnswerLength
    <3>4. n + Chunk - 1 <= MaxHead
      BY <2>2, <3>2
    <3> QED BY <1>6, <3>3, <3>4
  <2> QED BY <2>3, <2>4
<1>8. Len(r) <= MaxHead
  BY <1>6, <1>7
<1>9. LET h == ParseHead(r, TRUE)
      IN  /\ h.kind = "head" /\ h.consumed = Len(r) /\ h.first[3] = Status + 101
          /\ Get(h.headers, SecAccept) = <<Accepted>> /\ Get(h.headers, SecExt) = ext
  BY <1>2, <1>4, <1>8, AnswerIs
<1> QED BY <1>1, <1>3, <1>5, <1>7, <1>9 DEF OurAnswer

-----------------------------------------------------------------------------
\* The inductive invariant.
Opened(e) == stage[e] \in {"open", "broken"}

\* Types, and requests and replies that an opening begins with.
Typed ==
  /\ request \in Requests /\ reply \in {OurServer} \cup Replies
  /\ stream \in [Ends -> Seq(Nat)] /\ buf \in [Ends -> Seq(Nat)]
  /\ stage \in [Ends -> {"opening", "open", "refused", "broken"}]
  /\ parsed = [e \in Ends |-> parsed[e]] /\ deflate \in [Ends -> Codec]
  /\ sent \in [Ends -> Seq(Sendables)] /\ got \in [Ends -> Seq(Sendables)]
  /\ bad \in [Ends -> BOOLEAN]

\* The buffer has been parsed.
ParsedIs ==
  \A e \in Ends :
    /\ stage[e] \in {"opening", "open"} => parsed[e] = Parse(e, stage[e], buf[e])
    /\ parsed[e].kind \in {"more", "error", IF stage[e] \in {"opening", "refused"} THEN "head" ELSE "frame"}

\* Nothing is sent before an end is open, or to the client before accept
\* has answered.
NotYet ==
  /\ \A e \in Ends : ~Opened(e) =>
       sent[e] = <<>> /\ got[e] = <<>> /\ bad[e] = FALSE /\ deflate[e] = NoDeflate
  /\ stage[Server] = "opening" => buf[Server] \o stream[Server] = request
  /\ ~Opened(Server) => ~Opened(Client) /\ stream[Client] = <<>> /\ buf[Client] = <<>>
  /\ request \notin OurRequests => \A e \in Ends : sent[e] = <<>> /\ bad[e] = FALSE

\* What accept has answered, the codecs follow.
Flags(c, d) ==
  /\ c.on = d.on /\ c.reset_compressor = d.reset_compressor
  /\ c.reset_decompressor = d.reset_decompressor

Agreed ==
  /\ Opened(Server) => /\ Asked.kind = "head" /\ HeadEnds(request) = {Len(request)}
                       /\ Flags(deflate[Server], ServerCodec(Said))
  /\ Opened(Client) /\ request \in OurRequests => Flags(deflate[Client], ClientCodec(Said))

\* The client has not read more than one chunk behind the answer.
Room ==
  stage[Client] = "opening" /\ Opened(Server) => Len(buf[Client]) < Len(Answer) + Chunk

\* Each message is in a context at most once, and in none that is reset.
Counts ==
  /\ Len(sent[Client]) + Len(sent[Server]) <= MaxMsgs
  /\ \A e \in Ends : /\ deflate[e].reset_compressor => deflate[e].compressed = 0
                     /\ deflate[e].compressed <= Len(sent[e])
                     /\ deflate[e].decompressed <= Len(got[e])

\* Messages were handed out in order, and only the peer breaks a connection.
InOrder ==
  \A e \in Ends :
    /\ Len(got[e]) <= Len(sent[Peer(e)])
    /\ \A i \in 1..Len(got[e]) : got[e][i] = sent[Peer(e)][i]
    /\ stage[e] = "broken" => bad[Peer(e)]

\* What is on its way to an end, or has arrived, are the messages that it has not
\* handed out, behind the answer if that is not read yet.
Linked(e) == stage[e] = "open" \/ (e = Client /\ stage[e] = "opening" /\ Opened(Server))
HeadOf(e) == IF stage[e] = "opening" THEN Answer ELSE <<>>
Lasts(p)  == IF bad[p] THEN BadFrames[p] ELSE {<<>>}

Link(e, p) ==
  LinkOf(p, deflate[p].on, deflate[p].reset_compressor, sent[p], Lasts(p), Len(got[e]),
         HeadOf(e), buf[e] \o stream[e], deflate[p].compressed, deflate[e].decompressed)

Links == \A e \in Ends : Linked(e) => Link(e, Peer(e))

\* All of it.
WsInv ==
  /\ Typed /\ ParsedIs /\ NotYet /\ Agreed /\ OwnHandshakeOpens
  /\ Room /\ Counts /\ InOrder /\ Links

\* There are two ends.
LEMMA TwoEnds ==
  /\ Client \in Ends /\ Server \in Ends /\ Client # Server
  /\ \A e \in Ends : e = Client \/ e = Server
  /\ Peer(Client) = Server /\ Peer(Server) = Client
BY WsOpeningAssumption DEF Ends, Peer

-----------------------------------------------------------------------------
\* What an end makes of its buffer is of these kinds.
LEMMA ParseKinds ==
  ASSUME NEW e, NEW stg, NEW b
  PROVE  Parse(e, stg, b).kind \in {"more", "error", IF stg = "opening" THEN "head" ELSE "frame"}
<1>1. CASE stg = "opening"
  <2>1. PICK q : q = (e = Client)
    OBVIOUS
  <2>2. Parse(e, stg, b) = ParseHead(b, q)
    BY <1>1, <2>1 DEF Parse
  <2> QED BY <1>1, <2>2, HeadKinds, MoreIs
<1>2. CASE stg # "opening"
  <2>1. PICK q : q = (e = Server)
    OBVIOUS
  <2>2. Parse(e, stg, b) = Decode(b, q)
    BY <1>2, <2>1 DEF Parse
  <2> QED BY <1>2, <2>2, FrameKinds, MoreIs
<1> QED BY <1>1, <1>2

\* WsInv holds at first.
LEMMA InitInv == Init => WsInv
<1> SUFFICES ASSUME Init PROVE WsInv
  OBVIOUS
<1>0. Client \in Ends /\ Server \in Ends /\ Client # Server /\ <<>> \in Seq(Nat) /\ <<>> \in Seq(Sendables)
  BY TwoEnds
<1>1. /\ request \in Requests /\ reply \in {OurServer} \cup Replies
      /\ stream = [e \in Ends |-> IF e = Server THEN request ELSE <<>>]
      /\ buf = [e \in Ends |-> <<>>] /\ stage = [e \in Ends |-> "opening"]
      /\ parsed = [e \in Ends |-> Incomplete] /\ deflate = [e \in Ends |-> NoDeflate]
      /\ sent = [e \in Ends |-> <<>>] /\ got = [e \in Ends |-> <<>>] /\ bad = [e \in Ends |-> FALSE]
  BY DEF Init
<1>2. request \in Seq(Nat)
  BY <1>1, RequestIs
<1>3. NoDeflate \in Codec /\ NoDeflate.compressed = 0 /\ NoDeflate.decompressed = 0
  BY NewCodecs DEF IsNew
<1>4. Typed
  <2>1. stream \in [Ends -> Seq(Nat)] /\ buf \in [Ends -> Seq(Nat)]
    BY <1>0, <1>1, <1>2
  <2>2. stage \in [Ends -> {"opening", "open", "refused", "broken"}] /\ bad \in [Ends -> BOOLEAN]
    BY <1>1
  <2>3. deflate \in [Ends -> Codec] /\ parsed = [e \in Ends |-> parsed[e]]
    BY <1>1, <1>3
  <2>4. sent \in [Ends -> Seq(Sendables)] /\ got \in [Ends -> Seq(Sendables)]
    BY <1>0, <1>1
  <2> QED BY <1>1, <2>1, <2>2, <2>3, <2>4 DEF Typed
<1>5. ASSUME NEW e \in Ends
      PROVE  /\ stage[e] = "opening" /\ ~Opened(e) /\ buf[e] = <<>> /\ parsed[e] = Incomplete
             /\ sent[e] = <<>> /\ got[e] = <<>> /\ bad[e] = FALSE /\ deflate[e] = NoDeflate
  BY <1>1 DEF Opened
<1>6. ParsedIs
  <2>1. ASSUME NEW e \in Ends PROVE parsed[e] = Parse(e, stage[e], buf[e])
    <3>1. PICK q : q = (e = Client)
      OBVIOUS
    <3>2. Parse(e, "opening", <<>>) = ParseHead(<<>>, q)
      BY <3>1 DEF Parse
    <3> QED BY <1>5, <3>2, NothingParsed
  <2> QED BY <1>5, <2>1, MoreIs DEF ParsedIs
<1>7. NotYet
  <2>1. buf[Server] \o stream[Server] = request
    <3>1. buf[Server] = <<>> /\ stream[Server] = request
      BY <1>0, <1>1
    <3>2. <<>> \o request = request
      BY <1>2
    <3> QED BY <3>1, <3>2
  <2>2. stream[Client] = <<>>
    BY <1>0, <1>1
  <2> QED BY <1>0, <1>5, <2>1, <2>2 DEF NotYet
<1>8. Agreed /\ Room /\ Links
  BY <1>0, <1>5 DEF Agreed, Room, Links, Linked
<1>9. OwnHandshakeOpens
  BY <1>0, <1>5 DEF OwnHandshakeOpens
<1>10. Counts
  <2>1. Len(<<>>) = 0 /\ MaxMsgs \in Nat
    <3>1. MaxMsgs \in 0..1000
      BY WsOpeningAssumption, SMTT(25)
    <3>2. MaxMsgs \in Nat
      BY <3>1
    <3>3. Len(<<>>) = 0
      OBVIOUS
    <3> QED BY <3>2, <3>3
  <2>3. ASSUME NEW e \in Ends
        PROVE  /\ Len(got[e]) = 0 /\ Len(sent[e]) = 0 /\ deflate[e].compressed = 0
               /\ deflate[e].decompressed = 0
    BY <1>3, <1>5, <2>1
  <2>4. Len(sent[Client]) + Len(sent[Server]) <= MaxMsgs
    <3>1. Len(sent[Client]) = 0 /\ Len(sent[Server]) = 0
      BY <1>0, <2>3
    <3>2. MaxMsgs \in Nat
      BY <2>1
    <3> QED BY <3>1, <3>2
  <2>5. \A e \in Ends : /\ deflate[e].reset_compressor => deflate[e].compressed = 0
                       /\ deflate[e].compressed <= Len(sent[e])
                       /\ deflate[e].decompressed <= Len(got[e])
    BY <2>3
  <2> QED BY <2>4, <2>5 DEF Counts
<1>11. InOrder
  <2>1. Len(<<>>) = 0 /\ 1..0 = {}
    OBVIOUS
  <2>2. \A e \in Ends : Peer(e) \in Ends
    BY TwoEnds
  <2>3. ASSUME NEW e \in Ends
        PROVE  Len(got[e]) = 0 /\ Len(sent[Peer(e)]) = 0 /\ stage[e] # "broken"
    BY <1>5, <2>1, <2>2
  <2> QED BY <2>1, <2>3 DEF InOrder
<1> QED BY <1>4, <1>6, <1>7, <1>8, <1>9, <1>10, <1>11 DEF WsInv

\* The request and the answer to it stay what they are.
LEMMA SaidOnce ==
  ASSUME UNCHANGED <<request, reply>>
  PROVE  Asked' = Asked /\ Said' = Said /\ Answer' = Answer
<1>1. Asked' = Asked
  BY DEF Asked
<1>2. Said' = Said
  BY <1>1 DEF Said, Extensions
<1> QED BY <1>1, <1>2 DEF Answer

\* It holds when nothing happens.
LEMMA UnchangedInv == WsInv /\ UNCHANGED vars => WsInv'
<1> SUFFICES ASSUME WsInv, UNCHANGED vars PROVE WsInv'
  OBVIOUS
<1>1. UNCHANGED <<request, reply, stream, buf, stage, parsed, deflate, sent, got, bad>>
  BY DEF vars
<1>2. Asked' = Asked /\ Said' = Said /\ Answer' = Answer
  BY <1>1, SaidOnce
<1>3. Typed' /\ ParsedIs' /\ Counts' /\ InOrder' /\ OwnHandshakeOpens'
  BY <1>1 DEF WsInv, Typed, ParsedIs, Counts, InOrder, OwnHandshakeOpens
<1>4. NotYet' /\ Agreed' /\ Room'
  BY <1>1, <1>2 DEF WsInv, NotYet, Agreed, Room, Opened
<1>5. Links'
  BY <1>1, <1>2 DEF WsInv, Links, Link, Linked, HeadOf, Lasts, Opened
<1> QED BY <1>3, <1>4, <1>5 DEF WsInv

-----------------------------------------------------------------------------
\* The types of what an end has.
LEMMA TypedEnd ==
  ASSUME Typed, NEW e \in Ends
  PROVE  /\ buf[e] \in Seq(Nat) /\ stream[e] \in Seq(Nat)
         /\ stage[e] \in {"opening", "open", "refused", "broken"} /\ bad[e] \in BOOLEAN
         /\ sent[e] \in Seq(Sendables) /\ got[e] \in Seq(Sendables)
         /\ Len(sent[e]) \in Nat /\ Len(got[e]) \in Nat
         /\ deflate[e] \in Codec
         /\ deflate[e].compressed \in Nat /\ deflate[e].decompressed \in Nat
         /\ deflate[e].on \in BOOLEAN
<1>1. deflate[e] \in Codec
  BY DEF Typed
<1>2. deflate[e].compressed \in Nat /\ deflate[e].decompressed \in Nat /\ deflate[e].on \in BOOLEAN
  BY <1>1 DEF Codec
<1>3. sent[e] \in Seq(Sendables) /\ got[e] \in Seq(Sendables)
  BY DEF Typed
<1>4. Len(sent[e]) \in Nat /\ Len(got[e]) \in Nat
  BY <1>3
<1> QED BY <1>1, <1>2, <1>3, <1>4 DEF Typed

\* accept parses a beginning of the request.
LEMMA ServerReads ==
  ASSUME WsInv, stage[Server] = "opening"
  PROVE  /\ buf[Server] \in Seq(Nat) /\ stream[Server] \in Seq(Nat)
         /\ request \in Seq(Nat) /\ HeadEnds(request) \subseteq {Len(request)}
         /\ buf[Server] \o stream[Server] = request
         /\ Begins(buf[Server], request) /\ (stream[Server] = <<>> => buf[Server] = request)
         /\ parsed[Server] = ParseHead(buf[Server], FALSE)
<1>1. Server \in Ends /\ Server # Client
  BY TwoEnds
<1>2. buf[Server] \in Seq(Nat) /\ stream[Server] \in Seq(Nat)
  BY <1>1, TypedEnd DEF WsInv
<1>3. request \in Seq(Nat) /\ HeadEnds(request) \subseteq {Len(request)}
  BY RequestIs DEF WsInv, Typed
<1>4. buf[Server] \o stream[Server] = request
  BY DEF WsInv, NotYet
<1>5. Begins(buf[Server], request) /\ (stream[Server] = <<>> => buf[Server] = request)
  <2>1. PICK b \in Seq(Nat), s \in Seq(Nat), r \in Seq(Nat) : b = buf[Server] /\ s = stream[Server] /\ r = request
    BY <1>2, <1>3
  <2>2. b \o s = r
    BY <1>4, <2>1
  <2>3. Begins(b, r) /\ (s = <<>> => b = r)
    BY <2>2, ArrivedBegins
  <2> QED BY <2>1, <2>3
<1>6. parsed[Server] = Parse(Server, "opening", buf[Server])
  BY <1>1 DEF WsInv, ParsedIs
<1>7. Parse(Server, "opening", buf[Server]) = ParseHead(buf[Server], FALSE)
  BY <1>1 DEF Parse
<1> QED BY <1>2, <1>3, <1>4, <1>5, <1>6, <1>7

\* A head that the parser still waits for has not arrived in full.
LEMMA StillShort ==
  ASSUME NEW r \in Seq(Nat), HeadEnds(r) = {Len(r)}, NEW w \in Seq(Nat),
         NEW b \in Seq(Nat), Begins(b, r \o w), NEW q \in BOOLEAN, ParseHead(b, q) = Incomplete
  PROVE  Len(b) < Len(r)
<1>1. /\ Len(r) <= Len(b) => ParseHead(b, q) # Incomplete
      /\ Len(b) < Len(r) /\ Len(b) <= MaxHead /\ ~Folded(r) => ParseHead(b, q) = Incomplete
      /\ Len(r) <= Len(b) /\ Len(b) <= MaxHead => ParseHead(b, q) = ParseHead(r, q)
  BY AnswerArrives
<1>2. ~(Len(r) <= Len(b))
  BY <1>1
<1>3. Len(r) \in Nat /\ Len(b) \in Nat
  OBVIOUS
<1> QED BY <1>2, <1>3

\* connect parses a beginning of the answer and of what follows it.
LEMMA ClientReads ==
  ASSUME WsInv, stage[Client] = "opening", Opened(Server)
  PROVE  /\ Asked.kind = "head" /\ Answer \in Seq(Nat) /\ HeadEnds(Answer) = {Len(Answer)}
         /\ buf[Client] \in Seq(Nat) /\ stream[Client] \in Seq(Nat)
         /\ parsed[Client] = ParseHead(buf[Client], TRUE)
         /\ Link(Client, Server) /\ HeadOf(Client) = Answer
         /\ \E w \in Seq(Nat) : /\ buf[Client] \o stream[Client] = Answer \o w
                                /\ Begins(buf[Client], Answer \o w)
         /\ parsed[Client] = Incomplete => Len(buf[Client]) < Len(Answer)
<1>1. Client \in Ends /\ Server \in Ends /\ Server # Client /\ Peer(Client) = Server
  BY TwoEnds
<1>2. buf[Client] \in Seq(Nat) /\ stream[Client] \in Seq(Nat)
  BY <1>1, TypedEnd DEF WsInv
<1>3. Asked.kind = "head"
  BY DEF WsInv, Agreed
<1>4. Answer \in Seq(Nat) /\ HeadEnds(Answer) = {Len(Answer)}
  BY <1>3, AnswerOnce DEF WsInv, Typed
<1>5. parsed[Client] = ParseHead(buf[Client], TRUE)
  <2>1. parsed[Client] = Parse(Client, "opening", buf[Client])
    BY <1>1 DEF WsInv, ParsedIs
  <2>2. Parse(Client, "opening", buf[Client]) = ParseHead(buf[Client], TRUE)
    BY <1>1 DEF Parse
  <2> QED BY <2>1, <2>2
<1>6. Link(Client, Server) /\ HeadOf(Client) = Answer
  BY <1>1 DEF WsInv, Links, Linked, HeadOf
<1>7. PICK w \in Seq(Nat) : buf[Client] \o stream[Client] = Answer \o w
  <2>1. PICK on, reset, msgs, lasts, k, bytes, x, y :
          /\ on = deflate[Server].on /\ bytes = buf[Client] \o stream[Client]
          /\ LinkOf(Server, on, reset, msgs, lasts, k, Answer, bytes, x, y)
    BY <1>6 DEF Link
  <2>2. on \in BOOLEAN
    BY <1>1, <2>1, TypedEnd DEF WsInv
  <2>3. LinkOf(Server, on, reset, msgs, lasts, k, Answer, bytes, x, y)
    BY <2>1
  <2>4. \E w \in Seq(Nat) : bytes = Answer \o w
    <3>1. PICK h \in Seq(Nat), p \in Ends, o \in BOOLEAN : h = Answer /\ p = Server /\ o = on
      BY <1>1, <1>4, <2>2
    <3>2. LinkOf(p, o, reset, msgs, lasts, k, h, bytes, x, y)
      BY <2>3, <3>1
    <3>3. Follows(bytes, h)
      BY <3>2, LinkBytes
    <3> QED BY <3>1, <3>3 DEF Follows
  <2> QED BY <2>1, <2>4
<1>8. Begins(buf[Client], Answer \o w)
  BY <1>2, <1>7, ArrivedBegins
<1>9. ASSUME parsed[Client] = Incomplete PROVE Len(buf[Client]) < Len(Answer)
  <2>1. PICK r \in Seq(Nat), b \in Seq(Nat), q \in BOOLEAN : r = Answer /\ b = buf[Client] /\ q = TRUE
    BY <1>2, <1>4
  <2>2. HeadEnds(r) = {Len(r)} /\ Begins(b, r \o w)
    BY <1>4, <1>8, <2>1
  <2>3. ParseHead(b, q) = Incomplete
    BY <1>5, <1>9, <2>1
  <2>4. Len(b) < Len(r)
    BY <2>2, <2>3, StillShort
  <2> QED BY <2>1, <2>4
<1> QED BY <1>2, <1>3, <1>4, <1>5, <1>6, <1>7, <1>8, <1>9

\* Bytes arrive.
LEMMA FillInv ==
  ASSUME WsInv, NEW e \in Ends, Fill(e)
  PROVE  WsInv'
<1>1. /\ stage[e] \in {"opening", "open"} /\ parsed[e] = Incomplete
      /\ UNCHANGED <<request, reply, stage, deflate, sent, got, bad>>
  BY DEF Fill, Wanting
<1>2. PICK n \in 1..Chunk :
        /\ n <= Len(stream[e])
        /\ buf' = [buf EXCEPT ![e] = @ \o SubSeq(stream[e], 1, n)]
        /\ stream' = [stream EXCEPT ![e] = SubSeq(@, n + 1, Len(@))]
        /\ parsed' = [parsed EXCEPT ![e] = Parse(e, stage[e], buf'[e])]
  BY DEF Fill
<1>3. Asked' = Asked /\ Said' = Said /\ Answer' = Answer
  BY <1>1, SaidOnce
<1>4. Typed /\ ParsedIs /\ NotYet /\ Agreed /\ OwnHandshakeOpens /\ Room /\ Counts /\ InOrder /\ Links
  BY DEF WsInv
<1>5. /\ buf'[e] = buf[e] \o SubSeq(stream[e], 1, n) /\ stream'[e] = SubSeq(stream[e], n + 1, Len(stream[e]))
      /\ parsed'[e] = Parse(e, stage[e], buf'[e])
      /\ \A x \in Ends : x # e => buf'[x] = buf[x] /\ stream'[x] = stream[x] /\ parsed'[x] = parsed[x]
  BY <1>2, <1>4 DEF Typed
<1>6. /\ buf'[e] \in Seq(Nat) /\ stream'[e] \in Seq(Nat) /\ Len(buf'[e]) = Len(buf[e]) + n
      /\ buf'[e] \o stream'[e] = buf[e] \o stream[e]
  <2>1. PICK b \in Seq(Nat), s \in Seq(Nat) : b = buf[e] /\ s = stream[e]
    BY <1>4, TypedEnd
  <2>2. n \in 1..Len(s)
    <3>1. n \in Int /\ 1 <= n /\ n <= Len(s) /\ Len(s) \in Nat
      BY <1>2, <2>1
    <3> QED BY <3>1
  <2>3. /\ b \o SubSeq(s, 1, n) \in Seq(Nat) /\ Len(b \o SubSeq(s, 1, n)) = Len(b) + n
        /\ SubSeq(s, n + 1, Len(s)) \in Seq(Nat)
        /\ (b \o SubSeq(s, 1, n)) \o SubSeq(s, n + 1, Len(s)) = b \o s
    BY <2>2, ReadMoves
  <2> QED BY <1>5, <2>1, <2>3
<1>7. \A x \in Ends : buf'[x] \o stream'[x] = buf[x] \o stream[x]
  BY <1>5, <1>6
<1>8. Typed'
  <2>1. buf' = [x \in Ends |-> buf'[x]] /\ stream' = [x \in Ends |-> stream'[x]] /\ parsed' = [x \in Ends |-> parsed'[x]]
    BY <1>2, <1>4 DEF Typed
  <2>2. \A x \in Ends : buf'[x] \in Seq(Nat) /\ stream'[x] \in Seq(Nat)
    BY <1>4, <1>5, <1>6, TypedEnd
  <2>3. buf' \in [Ends -> Seq(Nat)] /\ stream' \in [Ends -> Seq(Nat)]
    BY <2>1, <2>2
  <2> QED BY <1>1, <1>4, <2>1, <2>3 DEF Typed
<1>9. ParsedIs'
  <2>1. ASSUME NEW x \in Ends
        PROVE  /\ stage[x] \in {"opening", "open"} => parsed'[x] = Parse(x, stage[x], buf'[x])
               /\ parsed'[x].kind \in {"more", "error", IF stage[x] \in {"opening", "refused"} THEN "head" ELSE "frame"}
    <3>1. CASE x = e
      <4>1. parsed'[e].kind \in {"more", "error", IF stage[e] = "opening" THEN "head" ELSE "frame"}
        BY <1>5, ParseKinds
      <4> QED BY <1>1, <1>5, <3>1, <4>1
    <3>2. CASE x # e
      BY <1>4, <1>5, <3>2 DEF ParsedIs
    <3> QED BY <3>1, <3>2
  <2> QED BY <1>1, <2>1 DEF ParsedIs
<1>10. NotYet'
  <2>1. ASSUME ~Opened(Server) PROVE stream'[Client] = <<>> /\ buf'[Client] = <<>>
    <3>1. stream[Client] = <<>> /\ buf[Client] = <<>>
      BY <1>4, <2>1 DEF NotYet
    <3>2. e # Client
      <4>1. n >= 1 /\ n <= Len(stream[e]) /\ Len(<<>>) = 0
        BY <1>2
      <4> QED BY <3>1, <4>1
    <3> QED BY <1>5, <3>1, <3>2, TwoEnds
  <2>2. stage[Server] = "opening" => buf'[Server] \o stream'[Server] = request
    BY <1>4, <1>7, TwoEnds DEF NotYet
  <2> QED BY <1>1, <1>4, <2>1, <2>2 DEF NotYet, Opened
<1>11. Agreed' /\ OwnHandshakeOpens' /\ Counts' /\ InOrder'
  BY <1>1, <1>3, <1>4 DEF Agreed, OwnHandshakeOpens, Counts, InOrder, Opened
<1>12. Room'
  <2> SUFFICES ASSUME stage[Client] = "opening", Opened(Server)
               PROVE  Len(buf'[Client]) < Len(Answer) + Chunk
    BY <1>1, <1>3 DEF Room, Opened
  <2>1. CASE e = Client
    <3>1. Len(buf[Client]) < Len(Answer) /\ Answer \in Seq(Nat) /\ buf[Client] \in Seq(Nat)
      BY <1>1, <2>1, ClientReads
    <3>2. Len(Answer) \in Nat /\ Len(buf[Client]) \in Nat
      BY <3>1
    <3>3. Chunk \in Nat /\ n \in Nat /\ n <= Chunk
      BY <1>2, WsOpeningAssumption
    <3> QED BY <1>6, <2>1, <3>1, <3>2, <3>3
  <2>2. CASE e # Client
    BY <1>4, <1>5, <2>2, TwoEnds DEF Room
  <2> QED BY <2>1, <2>2
<1>13. Links'
  <2>1. \A x \in Ends : Linked(x)' = Linked(x)
    BY <1>1 DEF Linked, Opened
  <2>2. \A x, p \in Ends : Link(x, p) => Link(x, p)'
    BY <1>1, <1>3, <1>7 DEF Link, HeadOf, Lasts
  <2> QED BY <1>4, <2>1, <2>2, TwoEnds DEF Links
<1> QED BY <1>8, <1>9, <1>10, <1>11, <1>12, <1>13 DEF WsInv

-----------------------------------------------------------------------------
\* A connection ends, for a reason.
LEMMA FailInv ==
  ASSUME WsInv, NEW e \in Ends, FailEnd(e),
         \/ stage[e] = "open" /\ bad[Peer(e)]
         \/ stage[e] = "opening" /\ (request \in OurRequests => e = Client /\ Refused(reply))
  PROVE  WsInv'
<1>1. /\ stage' = [stage EXCEPT ![e] = IF @ = "open" THEN "broken" ELSE "refused"]
      /\ UNCHANGED <<request, reply, stream, buf, parsed, deflate, sent, got, bad>>
  BY DEF FailEnd
<1>2. Asked' = Asked /\ Said' = Said /\ Answer' = Answer
  BY <1>1, SaidOnce
<1>3. Typed /\ ParsedIs /\ NotYet /\ Agreed /\ OwnHandshakeOpens /\ Room /\ Counts /\ InOrder /\ Links
  BY DEF WsInv
<1>4. /\ stage'[e] = IF stage[e] = "open" THEN "broken" ELSE "refused"
      /\ \A x \in Ends : x # e => stage'[x] = stage[x]
  BY <1>1, <1>3 DEF Typed
<1>5. \A x \in Ends : Opened(x)' = Opened(x)
  BY <1>4 DEF Opened
<1>6. Typed'
  <2>1. stage' \in [Ends -> {"opening", "open", "refused", "broken"}]
    BY <1>1, <1>3 DEF Typed
  <2> QED BY <1>1, <1>3, <2>1 DEF Typed
<1>7. ParsedIs'
  <2>1. ASSUME NEW x \in Ends
        PROVE  /\ stage'[x] \in {"opening", "open"} => parsed[x] = Parse(x, stage'[x], buf[x])
               /\ parsed[x].kind \in {"more", "error", IF stage'[x] \in {"opening", "refused"} THEN "head" ELSE "frame"}
    <3>1. CASE x = e
      BY <1>3, <1>4, <3>1 DEF ParsedIs
    <3>2. CASE x # e
      BY <1>3, <1>4, <3>2 DEF ParsedIs
    <3> QED BY <3>1, <3>2
  <2> QED BY <1>1, <2>1 DEF ParsedIs
<1>8. NotYet' /\ Agreed'
  <2>1. stage'[Server] = "opening" => stage[Server] = "opening"
    BY <1>4, TwoEnds
  <2>2. NotYet'
    BY <1>1, <1>3, <1>5, <2>1, TwoEnds DEF NotYet
  <2>3. Agreed'
    BY <1>1, <1>2, <1>3, <1>5, TwoEnds DEF Agreed
  <2> QED BY <2>2, <2>3
<1>9. OwnHandshakeOpens'
  <2> SUFFICES ASSUME request \in OurRequests
               PROVE  stage'[Server] # "refused" /\ (stage'[Client] = "refused" => Refused(reply))
    BY <1>1 DEF OwnHandshakeOpens
  <2>1. stage[Server] # "refused" /\ (stage[Client] = "refused" => Refused(reply))
    BY <1>3 DEF OwnHandshakeOpens
  <2> QED BY <1>4, <2>1, TwoEnds
<1>10. Room' /\ Counts'
  <2>1. Room'
    <3>1. stage'[Client] = "opening" => stage[Client] = "opening"
      BY <1>4, TwoEnds
    <3> QED BY <1>1, <1>2, <1>3, <1>5, <3>1, TwoEnds DEF Room
  <2> QED BY <1>1, <1>3, <2>1 DEF Counts
<1>11. InOrder'
  <2>1. \A x \in Ends : stage'[x] = "broken" => bad[Peer(x)]
    BY <1>3, <1>4 DEF InOrder
  <2> QED BY <1>1, <1>3, <2>1 DEF InOrder
<1>12. Links'
  <2>1. ASSUME NEW x \in Ends, Linked(x)' PROVE Link(x, Peer(x))'
    <3>1. x # e
      BY <1>4, <2>1 DEF Linked
    <3>2. stage'[x] = stage[x]
      BY <1>4, <3>1
    <3>3. Linked(x)
      BY <1>5, <2>1, <3>2, TwoEnds DEF Linked
    <3>4. Link(x, Peer(x))
      BY <1>3, <3>3 DEF Links
    <3> QED BY <1>1, <1>2, <3>2, <3>4 DEF Link, HeadOf, Lasts
  <2> QED BY <2>1 DEF Links
<1> QED BY <1>6, <1>7, <1>8, <1>9, <1>10, <1>11, <1>12 DEF WsInv

\* A head that accept has parsed is the request.
LEMMA ServerHead ==
  ASSUME WsInv, stage[Server] = "opening", parsed[Server].kind = "head"
  PROVE  /\ buf[Server] = request /\ stream[Server] = <<>>
         /\ parsed[Server] = Asked /\ Asked.kind = "head" /\ Asked.consumed = Len(request)
         /\ HeadEnds(request) = {Len(request)}
<1>1. PICK b \in Seq(Nat), s \in Seq(Nat), r \in Seq(Nat), q \in BOOLEAN :
        b = buf[Server] /\ s = stream[Server] /\ r = request /\ q = FALSE
  BY ServerReads
<1>2. HeadEnds(r) \subseteq {Len(r)} /\ Begins(b, r) /\ b \o s = r /\ parsed[Server] = ParseHead(b, q)
  BY <1>1, ServerReads
<1>3. ParseHead(b, q).kind = "head"
  BY <1>2
<1>4. b = r /\ ParseHead(b, q).consumed = Len(r) /\ HeadEnds(r) = {Len(r)}
  <2>1. HeadEnds(r) \subseteq {Len(r)} /\ Begins(b, r)
    BY <1>2
  <2> QED BY <1>3, <2>1, OnlyHeadConsumed, SMTT(40)
<1>5. s = <<>>
  <2>1. Len(b \o s) = Len(b) + Len(s) /\ Len(b) \in Nat /\ Len(s) \in Nat
    BY ConcatElements
  <2>2. Len(b \o s) = Len(b)
    BY <1>2, <1>4
  <2>3. Len(s) = 0
    BY <2>1, <2>2
  <2> QED BY <2>3
<1>6. parsed[Server] = Asked
  BY <1>1, <1>2, <1>4 DEF Asked
<1> QED BY <1>1, <1>2, <1>3, <1>4, <1>5, <1>6

\* Our own request is accepted as soon as it is parsed.
LEMMA OurHeadAccepted ==
  ASSUME WsInv, stage[Server] = "opening", parsed[Server] # Incomplete, request \in OurRequests
  PROVE  parsed[Server].kind = "head" /\ IsUpgrade(parsed[Server])
<1>1. PICK b \in Seq(Nat), r \in Seq(Nat), q \in BOOLEAN : b = buf[Server] /\ r = request /\ q = FALSE
  BY ServerReads
<1>2. Begins(b, r) /\ parsed[Server] = ParseHead(b, q)
  BY <1>1, ServerReads
<1>3. HeadEnds(r) = {Len(r)} /\ ~Folded(r) /\ Len(r) <= MaxHead
  BY <1>1, OurRequestOpens DEF OurRequest
<1>4. PICK w \in Seq(Nat) : w = <<>>
  <2>1. <<>> \in Seq(Nat)
    OBVIOUS
  <2> QED BY <2>1
<1>5. r \o w = r
  BY <1>4
<1>6. Begins(b, r \o w)
  BY <1>2, <1>5
<1>7. Len(b) < Len(r) /\ Len(b) <= MaxHead /\ ~Folded(r) => ParseHead(b, q) = Incomplete
  BY <1>3, <1>6, AnswerArrives
<1>8. Len(b) \in Nat /\ Len(r) \in Nat /\ MaxHead \in Nat
  BY HttpHeadAssumption
<1>9. Len(b) <= Len(r)
  BY <1>2 DEF Begins
<1>10. ParseHead(b, q) # Incomplete
  BY <1>2
<1>11. Len(r) <= Len(b)
  BY <1>3, <1>7, <1>8, <1>9, <1>10
<1>12. b = r
  BY <1>2, <1>11, WholeBegins
<1>13. parsed[Server] = Asked
  BY <1>1, <1>2, <1>12 DEF Asked
<1> QED BY <1>13, OurRequestOpens DEF OurRequest

-----------------------------------------------------------------------------
\* Nothing is on its way to the client before accept answers.
LEMMA NothingBehind ==
  ASSUME NEW r \in Seq(Nat), NEW n, n = Len(r)
  PROVE  SubSeq(r, n + 1, Len(r)) = <<>>
<1>1. n \in 0..Len(r)
  OBVIOUS
<1>2. SubSeq(r, n + 1, Len(r)) \in Seq(Nat) /\ Len(SubSeq(r, n + 1, Len(r))) = Len(r) - n
  BY <1>1, CutSeq
<1>3. PICK t \in Seq(Nat) : t = SubSeq(r, n + 1, Len(r))
  BY <1>2
<1>4. Len(r) - n = 0
  OBVIOUS
<1>5. Len(t) = 0
  BY <1>2, <1>3, <1>4
<1> QED BY <1>3, <1>5

\* accept answers the request.
AcceptOpens ==
  /\ stage[Server] = "opening" /\ parsed[Server].kind = "head"
  /\ UNCHANGED <<request, reply, sent, got, bad>>
  /\ stage' = [stage EXCEPT ![Server] = "open"]
  /\ buf' = [buf EXCEPT ![Server] = SubSeq(@, parsed[Server].consumed + 1, Len(@))]
  /\ parsed' = [parsed EXCEPT ![Server] = Parse(Server, stage'[Server], buf'[Server])]
  /\ deflate' = [deflate EXCEPT ![Server] = ServerCodec(Extensions(Get(parsed[Server].headers, SecExt)))]
  /\ stream' = [stream EXCEPT ![Client] =
       @ \o RenderAcceptResponse(AcceptKey(Get(parsed[Server].headers, SecKey)),
                                 Extensions(Get(parsed[Server].headers, SecExt)))]

\* The server is open, and its answer is on its way.
LEMMA AcceptOpensInv ==
  ASSUME WsInv, AcceptOpens
  PROVE  WsInv'
<1>0. Client \in Ends /\ Server \in Ends /\ Server # Client /\ \A x \in Ends : x = Client \/ x = Server
  BY TwoEnds
<1>1. Typed /\ ParsedIs /\ NotYet /\ Agreed /\ OwnHandshakeOpens /\ Room /\ Counts /\ InOrder /\ Links
  BY DEF WsInv
<1>2. /\ buf[Server] = request /\ stream[Server] = <<>>
      /\ parsed[Server] = Asked /\ Asked.kind = "head" /\ Asked.consumed = Len(request)
      /\ HeadEnds(request) = {Len(request)}
  BY ServerHead DEF AcceptOpens
<1>3. UNCHANGED <<request, reply, sent, got, bad>>
  BY DEF AcceptOpens
<1>4. Asked' = Asked /\ Said' = Said /\ Answer' = Answer
  BY <1>3, SaidOnce
<1>5. Answer \in Seq(Nat) /\ HeadEnds(Answer) = {Len(Answer)}
  BY <1>1, <1>2, AnswerOnce DEF Typed
<1>6. ~Opened(Server) /\ ~Opened(Client) /\ stream[Client] = <<>> /\ buf[Client] = <<>>
  BY <1>1 DEF AcceptOpens, NotYet, Opened
<1>7. \A x \in Ends : sent[x] = <<>> /\ got[x] = <<>> /\ bad[x] = FALSE /\ deflate[x] = NoDeflate
  BY <1>0, <1>1, <1>6 DEF NotYet
<1>8. stage'[Server] = "open" /\ stage'[Client] = stage[Client] /\ parsed'[Client] = parsed[Client]
  BY <1>0, <1>1 DEF AcceptOpens, Typed
<1>9. /\ buf'[Server] = <<>> /\ buf'[Client] = <<>> /\ stream'[Server] = <<>> /\ stream'[Client] = Answer
      /\ deflate'[Server] = ServerCodec(Said) /\ deflate'[Client] = NoDeflate
  <2>1. /\ buf'[Server] = SubSeq(request, Len(request) + 1, Len(request)) /\ buf'[Client] = buf[Client]
        /\ stream'[Server] = stream[Server] /\ stream'[Client] = stream[Client] \o Answer
        /\ deflate'[Server] = ServerCodec(Said) /\ deflate'[Client] = deflate[Client]
    BY <1>0, <1>1, <1>2 DEF AcceptOpens, Typed, Answer, Said
  <2>2. SubSeq(request, Len(request) + 1, Len(request)) = <<>>
    <3>1. PICK r \in Seq(Nat) : r = request
      BY ServerReads DEF AcceptOpens
    <3>2. SubSeq(r, Len(r) + 1, Len(r)) = <<>>
      BY NothingBehind
    <3> QED BY <3>1, <3>2
  <2>3. <<>> \o Answer = Answer
    BY <1>5
  <2> QED BY <1>0, <1>2, <1>6, <1>7, <2>1, <2>2, <2>3
<1>10. parsed'[Server] = Parse(Server, "open", buf'[Server])
  BY <1>0, <1>1, <1>8 DEF AcceptOpens, Typed
<1>11. IsNew(ServerCodec(Said)) /\ IsNew(NoDeflate)
  BY NewCodecs
<1>12. Typed'
  <2>1. /\ stage' = [x \in Ends |-> stage'[x]] /\ buf' = [x \in Ends |-> buf'[x]] /\ parsed' = [x \in Ends |-> parsed'[x]]
        /\ deflate' = [x \in Ends |-> deflate'[x]] /\ stream' = [x \in Ends |-> stream'[x]]
    BY <1>1 DEF AcceptOpens, Typed
  <2>2. <<>> \in Seq(Nat)
    OBVIOUS
  <2>3. \A x \in Ends : buf'[x] \in Seq(Nat) /\ stream'[x] \in Seq(Nat)
    BY <1>0, <1>5, <1>9, <2>2
  <2>4. \A x \in Ends : deflate'[x] \in Codec
    BY <1>0, <1>9, <1>11 DEF IsNew
  <2>5. \A x \in Ends : stage'[x] \in {"opening", "open", "refused", "broken"}
    BY <1>0, <1>1, <1>8 DEF Typed
  <2>6. /\ buf' \in [Ends -> Seq(Nat)] /\ stream' \in [Ends -> Seq(Nat)] /\ deflate' \in [Ends -> Codec]
        /\ stage' \in [Ends -> {"opening", "open", "refused", "broken"}]
    BY <2>1, <2>3, <2>4, <2>5
  <2> QED BY <1>1, <1>3, <2>1, <2>6 DEF Typed
<1>13. ParsedIs'
  <2>1. parsed'[Server].kind \in {"more", "error", "frame"}
    BY <1>10, ParseKinds
  <2>2. /\ stage'[Client] \in {"opening", "open"} => parsed'[Client] = Parse(Client, stage'[Client], buf'[Client])
        /\ parsed'[Client].kind \in {"more", "error", IF stage'[Client] \in {"opening", "refused"} THEN "head" ELSE "frame"}
    BY <1>0, <1>1, <1>6, <1>8, <1>9 DEF ParsedIs
  <2> QED BY <1>0, <1>8, <1>10, <2>1, <2>2 DEF ParsedIs
<1>14. Opened(Server)' /\ ~Opened(Client)'
  BY <1>6, <1>8 DEF Opened
<1>15. NotYet'
  BY <1>0, <1>3, <1>7, <1>8, <1>9, <1>14 DEF NotYet
<1>16. Agreed'
  <2>1. Flags(deflate'[Server], ServerCodec(Said))
    BY <1>9 DEF Flags
  <2> QED BY <1>2, <1>3, <1>4, <1>14, <2>1 DEF Agreed
<1>17. OwnHandshakeOpens'
  BY <1>0, <1>1, <1>3, <1>8 DEF OwnHandshakeOpens
<1>18. Room'
  <2>1. Len(buf'[Client]) = 0 /\ Len(Answer) \in Nat /\ Chunk \in Nat \ {0}
    BY <1>5, <1>9, WsOpeningAssumption
  <2> QED BY <1>4, <2>1 DEF Room
<1>19. Counts'
  <2>1. \A x \in Ends : deflate'[x].compressed = 0 /\ deflate'[x].decompressed = 0
    BY <1>0, <1>9, <1>11 DEF IsNew
  <2>2. \A x \in Ends : Len(sent[x]) = 0 /\ Len(got[x]) = 0
    BY <1>7
  <2>3. \A x \in Ends : /\ deflate'[x].reset_compressor => deflate'[x].compressed = 0
                        /\ deflate'[x].compressed <= Len(sent[x])
                        /\ deflate'[x].decompressed <= Len(got[x])
    BY <2>1, <2>2
  <2> QED BY <1>1, <1>3, <2>3 DEF Counts
<1>20. InOrder'
  <2>1. \A x \in Ends : stage'[x] = "broken" => bad[Peer(x)]
    BY <1>0, <1>1, <1>8 DEF InOrder
  <2> QED BY <1>1, <1>3, <2>1 DEF InOrder
<1>21. Links'
  <2>1. Len(got'[Server]) = 0 /\ Len(got'[Client]) = 0
    <3>1. got[Server] = <<>> /\ got[Client] = <<>> /\ got' = got
      BY <1>0, <1>3, <1>7
    <3> QED BY <3>1
  <2>2. /\ sent'[Client] = <<>> /\ sent'[Server] = <<>> /\ bad'[Client] = FALSE /\ bad'[Server] = FALSE
    BY <1>0, <1>3, <1>7
  <2>3. Lasts(Client)' = {<<>>} /\ Lasts(Server)' = {<<>>}
    BY <2>2 DEF Lasts
  <2>4. \A x \in Ends : deflate'[x].compressed = 0 /\ deflate'[x].decompressed = 0
    BY <1>0, <1>9, <1>11 DEF IsNew
  <2>5. \A p, on, reset : \A head \in Seq(Nat) : LinkOf(p, on, reset, <<>>, {<<>>}, 0, head, head, 0, 0)
    BY LinkStart
  <2>6. Link(Server, Client)'
    <3>1. HeadOf(Server)' = <<>>
      BY <1>8 DEF HeadOf
    <3>2. buf'[Server] \o stream'[Server] = <<>> /\ <<>> \in Seq(Nat)
      BY <1>9
    <3>3. LinkOf(Client, deflate'[Client].on, deflate'[Client].reset_compressor, <<>>, {<<>>}, 0, <<>>, <<>>, 0, 0)
      BY <2>5, <3>2
    <3> QED BY <1>0, <2>1, <2>2, <2>3, <2>4, <3>1, <3>2, <3>3 DEF Link
  <2>7. ASSUME Linked(Client)' PROVE Link(Client, Server)'
    <3>1. stage'[Client] = "opening"
      BY <1>6, <1>8, <2>7 DEF Linked, Opened
    <3>2. HeadOf(Client)' = Answer
      BY <1>4, <3>1 DEF HeadOf
    <3>3. buf'[Client] \o stream'[Client] = Answer
      <4>1. <<>> \o Answer = Answer
        BY <1>5
      <4> QED BY <1>9, <4>1
    <3>4. LinkOf(Server, deflate'[Server].on, deflate'[Server].reset_compressor, <<>>, {<<>>}, 0, Answer, Answer, 0, 0)
      BY <1>5, <2>5
    <3> QED BY <1>0, <2>1, <2>2, <2>3, <2>4, <3>2, <3>3, <3>4 DEF Link
  <2> QED BY <1>0, <2>6, <2>7, TwoEnds DEF Links
<1> QED BY <1>12, <1>13, <1>15, <1>16, <1>17, <1>18, <1>19, <1>20, <1>21 DEF WsInv

\* accept answers or refuses.
LEMMA AcceptInv ==
  ASSUME WsInv, Accept
  PROVE  WsInv'
<1> DEFINE h == parsed[Server]
<1>1. stage[Server] = "opening" /\ h # Incomplete
  BY DEF Accept
<1>2. CASE h.kind = "head" /\ IsUpgrade(h)
  <2>1. PICK ext : /\ ext = Extensions(Get(h.headers, SecExt)) /\ Open(Server, ServerCodec(ext))
                   /\ stream' = [stream EXCEPT ![Client] =
                        @ \o RenderAcceptResponse(AcceptKey(Get(h.headers, SecKey)), ext)]
    BY <1>2 DEF Accept
  <2>2. AcceptOpens
    BY <1>1, <1>2, <2>1 DEF AcceptOpens, Open, Consume
  <2> QED BY <2>2, AcceptOpensInv
<1>3. CASE ~(h.kind = "head" /\ IsUpgrade(h))
  <2>1. FailEnd(Server)
    BY <1>3 DEF Accept
  <2>2. request \notin OurRequests
    BY <1>1, <1>3, OurHeadAccepted
  <2> QED BY <1>1, <2>1, <2>2, FailInv, TwoEnds
<1> QED BY <1>2, <1>3

-----------------------------------------------------------------------------
\* connect parses nothing before accept has answered.
LEMMA ClientParses ==
  ASSUME WsInv, stage[Client] = "opening", parsed[Client] # Incomplete
  PROVE  Opened(Server)
<1> SUFFICES ASSUME ~Opened(Server) PROVE FALSE
  OBVIOUS
<1>1. buf[Client] = <<>>
  BY DEF WsInv, NotYet
<1>2. parsed[Client] = Parse(Client, "opening", <<>>)
  BY <1>1, TwoEnds DEF WsInv, ParsedIs
<1>3. Parse(Client, "opening", <<>>) = ParseHead(<<>>, TRUE)
  BY DEF Parse
<1>4. PICK q : q = TRUE
  OBVIOUS
<1>5. ParseHead(<<>>, q) = Incomplete
  BY NothingParsed
<1> QED BY <1>2, <1>3, <1>4, <1>5

\* A head that connect has parsed is the answer.
LEMMA ClientHead ==
  ASSUME WsInv, stage[Client] = "opening", parsed[Client].kind = "head"
  PROVE  /\ Opened(Server) /\ Answer \in Seq(Nat) /\ Len(Answer) <= Len(buf[Client])
         /\ parsed[Client] = ParseHead(Answer, TRUE) /\ parsed[Client].consumed = Len(Answer)
<1>1. Opened(Server)
  BY ClientParses, MoreIs
<1>2. PICK b \in Seq(Nat), r \in Seq(Nat), q \in BOOLEAN : b = buf[Client] /\ r = Answer /\ q = TRUE
  BY <1>1, ClientReads
<1>3. HeadEnds(r) = {Len(r)} /\ parsed[Client] = ParseHead(b, q)
  BY <1>1, <1>2, ClientReads
<1>4. PICK w \in Seq(Nat) : Begins(b, r \o w)
  BY <1>1, <1>2, ClientReads
<1>5. Len(b) \in Nat /\ Len(r) \in Nat /\ ParseHead(b, q).kind = "head"
  BY <1>3
<1>6. Len(b) <= MaxHead
  BY <1>5, HeadConsumed
<1>7. Len(r) <= Len(b)
  <2> SUFFICES ASSUME Len(b) < Len(r) PROVE FALSE
    BY <1>5
  <2>1. Begins(b, r)
    <3>1. \A i \in 1..Len(r) : (r \o w)[i] = r[i]
      BY ConcatElements
    <3>2. \A i \in 1..Len(b) : i \in 1..Len(r)
      BY <1>5
    <3>3. \A i \in 1..Len(b) : b[i] = (r \o w)[i]
      BY <1>4 DEF Begins
    <3>4. Len(b) <= Len(r)
      BY <1>5
    <3>5. \A i \in 1..Len(b) : b[i] = r[i]
      BY <3>1, <3>2, <3>3
    <3> QED BY <3>4, <3>5 DEF Begins
  <2>2. HeadEnds(r) \subseteq {Len(r)}
    BY <1>3
  <2>3. b = r
    BY <1>5, <2>1, <2>2, OnlyHeadConsumed
  <2> QED BY <1>5, <2>3
<1>8. ParseHead(b, q) = ParseHead(r, q)
  <2>1. Len(r) <= Len(b) /\ Len(b) <= MaxHead => ParseHead(b, q) = ParseHead(r, q)
    BY <1>3, <1>4, AnswerArrives
  <2> QED BY <1>6, <1>7, <2>1
<1>9. ParseHead(r, q).consumed = Len(r)
  <2>1. HeadEnds(r) \subseteq {Len(r)} /\ Begins(r, r) /\ ParseHead(r, q).kind = "head"
    BY <1>3, <1>5, <1>8 DEF Begins
  <2> QED BY <2>1, OnlyHeadConsumed
<1> QED BY <1>1, <1>2, <1>3, <1>7, <1>8, <1>9

\* Our client refuses no answer to its own request, but a window.
LEMMA OurAnswerRefused ==
  ASSUME WsInv, stage[Client] = "opening", parsed[Client] # Incomplete, request \in OurRequests,
         ~(parsed[Client].kind = "head" /\ IsSwitch(parsed[Client]))
  PROVE  Refused(reply)
<1>1. Opened(Server)
  BY ClientParses
<1>2. PICK b \in Seq(Nat), r \in Seq(Nat), q \in BOOLEAN : b = buf[Client] /\ r = Answer /\ q = TRUE
  BY <1>1, ClientReads
<1>3. HeadEnds(r) = {Len(r)} /\ parsed[Client] = ParseHead(b, q)
  BY <1>1, <1>2, ClientReads
<1>4. PICK w \in Seq(Nat) : Begins(b, r \o w)
  BY <1>1, <1>2, ClientReads
<1>5. OurAnswer
  BY OurAnswerOpens DEF WsInv, Typed
<1>6. ~Folded(r) /\ Len(r) + Chunk - 1 <= MaxHead
  BY <1>2, <1>5 DEF OurAnswer
<1>7. /\ parsed[Client] # Incomplete
      /\ Len(r) <= Len(b) /\ Len(b) <= MaxHead => ParseHead(b, q) = ParseHead(r, q)
      /\ Len(b) < Len(r) /\ Len(b) <= MaxHead /\ ~Folded(r) => ParseHead(b, q) = Incomplete
  BY <1>3, <1>4, AnswerArrives
<1>8. Len(b) \in Nat /\ Len(r) \in Nat /\ Chunk \in Nat \ {0} /\ MaxHead \in Nat
  BY WsOpeningAssumption, HttpHeadAssumption
<1>9. Len(b) < Len(r) + Chunk
  BY <1>1, <1>2 DEF WsInv, Room
<1>10. Len(b) <= MaxHead
  BY <1>6, <1>8, <1>9
<1>11. Len(r) <= Len(b)
  BY <1>3, <1>6, <1>7, <1>8, <1>10
<1>12. parsed[Client] = ParseHead(Answer, TRUE)
  BY <1>2, <1>3, <1>7, <1>10, <1>11
<1>13. /\ parsed[Client].kind = "head" /\ parsed[Client].first[3] = Status + 101
       /\ Get(parsed[Client].headers, SecAccept) = <<Accepted>> /\ Get(parsed[Client].headers, SecExt) = Said
  BY <1>5, <1>12 DEF OurAnswer
<1>14. Refused(Said)
  <2>1. AcceptKey(<<Nonce>>) = <<Accepted>>
    BY DEF AcceptKey
  <2> QED BY <1>13, <2>1 DEF IsSwitch
<1>15. Said # <<>> /\ Said # NoTakeover
  BY <1>14, NoValue, NoTakeoverIs
<1>16. Said = reply
  <2>1. \A offer : ServerAccept(offer) \in {<<>>, NoTakeover}
    BY DEF ServerAccept, NoTakeover
  <2> QED BY <1>15, <2>1 DEF Said, Extensions
<1> QED BY <1>14, <1>16

\* connect has its answer.
ConnectOpens ==
  /\ stage[Client] = "opening" /\ parsed[Client].kind = "head"
  /\ UNCHANGED <<request, reply, stream, sent, got, bad>>
  /\ stage' = [stage EXCEPT ![Client] = "open"]
  /\ buf' = [buf EXCEPT ![Client] = SubSeq(@, parsed[Client].consumed + 1, Len(@))]
  /\ parsed' = [parsed EXCEPT ![Client] = Parse(Client, stage'[Client], buf'[Client])]
  /\ deflate' = [deflate EXCEPT ![Client] = ClientCodec(Get(parsed[Client].headers, SecExt))]

\* The client is open, and what is behind the answer is left.
LEMMA ConnectOpensInv ==
  ASSUME WsInv, ConnectOpens
  PROVE  WsInv'
<1>0. Client \in Ends /\ Server \in Ends /\ Server # Client /\ \A x \in Ends : x = Client \/ x = Server
  BY TwoEnds
<1>1. Typed /\ ParsedIs /\ NotYet /\ Agreed /\ OwnHandshakeOpens /\ Room /\ Counts /\ InOrder /\ Links
  BY DEF WsInv
<1>2. /\ Opened(Server) /\ Answer \in Seq(Nat) /\ Len(Answer) <= Len(buf[Client])
      /\ parsed[Client] = ParseHead(Answer, TRUE) /\ parsed[Client].consumed = Len(Answer)
  BY ClientHead DEF ConnectOpens
<1>3. UNCHANGED <<request, reply, stream, sent, got, bad>>
  BY DEF ConnectOpens
<1>4. Asked' = Asked /\ Said' = Said /\ Answer' = Answer
  BY <1>3, SaidOnce
<1>5. stage'[Client] = "open" /\ stage'[Server] = stage[Server] /\ parsed'[Server] = parsed[Server]
  BY <1>0, <1>1 DEF ConnectOpens, Typed
<1> DEFINE codec == ClientCodec(Get(parsed[Client].headers, SecExt))
<1>6. /\ buf'[Client] = Rest(buf[Client], Len(Answer)) /\ buf'[Server] = buf[Server]
      /\ deflate'[Client] = codec /\ deflate'[Server] = deflate[Server]
  BY <1>0, <1>1, <1>2 DEF ConnectOpens, Typed, Rest
<1>7. IsNew(codec)
  BY NewCodecs
<1> HIDE DEF codec
<1>8. parsed'[Client] = Parse(Client, "open", buf'[Client])
  BY <1>0, <1>1, <1>5 DEF ConnectOpens, Typed
<1>9. ~Opened(Client) /\ sent[Client] = <<>> /\ got[Client] = <<>> /\ bad[Client] = FALSE /\ deflate[Client] = NoDeflate
  <2>1. ~Opened(Client)
    BY DEF ConnectOpens, Opened
  <2> QED BY <1>0, <1>1, <2>1 DEF NotYet
<1>10. Opened(Client)' /\ Opened(Server)'
  BY <1>2, <1>5 DEF Opened
<1>11. Link(Client, Server) /\ HeadOf(Client) = Answer /\ buf[Client] \in Seq(Nat) /\ stream[Client] \in Seq(Nat)
  BY <1>2, ClientReads DEF ConnectOpens
<1>12. Rest(buf[Client], Len(Answer)) \in Seq(Nat)
  <2>1. PICK b \in Seq(Nat), r \in Seq(Nat) : b = buf[Client] /\ r = Answer
    BY <1>2, <1>11
  <2>2. Len(r) \in 0..Len(b)
    BY <1>2, <2>1
  <2>3. PICK n \in 0..Len(b) : n = Len(r)
    BY <2>2
  <2>4. SubSeq(b, n + 1, Len(b)) \in Seq(Nat)
    BY CutSeq
  <2> QED BY <2>1, <2>3, <2>4 DEF Rest
<1>13. Typed'
  <2>1. /\ stage' = [x \in Ends |-> stage'[x]] /\ buf' = [x \in Ends |-> buf'[x]] /\ parsed' = [x \in Ends |-> parsed'[x]]
        /\ deflate' = [x \in Ends |-> deflate'[x]]
    BY <1>1 DEF ConnectOpens, Typed
  <2>2. \A x \in Ends : buf'[x] \in Seq(Nat)
    BY <1>0, <1>1, <1>6, <1>12, TypedEnd
  <2>3. \A x \in Ends : deflate'[x] \in Codec
    BY <1>0, <1>1, <1>6, <1>7, TypedEnd DEF IsNew
  <2>4. \A x \in Ends : stage'[x] \in {"opening", "open", "refused", "broken"}
    BY <1>0, <1>1, <1>5 DEF Typed
  <2>5. /\ buf' \in [Ends -> Seq(Nat)] /\ deflate' \in [Ends -> Codec]
        /\ stage' \in [Ends -> {"opening", "open", "refused", "broken"}]
    BY <2>1, <2>2, <2>3, <2>4
  <2> QED BY <1>1, <1>3, <2>1, <2>5 DEF Typed
<1>14. ParsedIs'
  <2>1. parsed'[Client].kind \in {"more", "error", "frame"}
    BY <1>8, ParseKinds
  <2>2. /\ stage'[Server] \in {"opening", "open"} => parsed'[Server] = Parse(Server, stage'[Server], buf'[Server])
        /\ parsed'[Server].kind \in {"more", "error", IF stage'[Server] \in {"opening", "refused"} THEN "head" ELSE "frame"}
    BY <1>0, <1>1, <1>5, <1>6 DEF ParsedIs
  <2> QED BY <1>0, <1>5, <1>8, <2>1, <2>2 DEF ParsedIs
<1>15. NotYet'
  <2>1. stage'[Server] # "opening"
    BY <1>2, <1>5 DEF Opened
  <2>2. \A e \in Ends : Opened(e)'
    BY <1>0, <1>10
  <2> QED BY <1>1, <1>3, <1>10, <2>1, <2>2 DEF NotYet
<1>16. Agreed'
  <2>1. ASSUME request \in OurRequests PROVE Flags(deflate'[Client], ClientCodec(Said))
    <3>1. OurAnswer
      BY <1>1, <2>1, OurAnswerOpens DEF Typed
    <3>2. deflate'[Client] = ClientCodec(Said)
      BY <1>2, <1>6, <3>1 DEF OurAnswer, codec
    <3> QED BY <3>2 DEF Flags
  <2>2. Asked.kind = "head" /\ HeadEnds(request) = {Len(request)} /\ Flags(deflate[Server], ServerCodec(Said))
    BY <1>1, <1>2 DEF Agreed
  <2> QED BY <1>3, <1>4, <1>6, <2>1, <2>2 DEF Agreed
<1>17. OwnHandshakeOpens'
  BY <1>0, <1>1, <1>3, <1>5 DEF OwnHandshakeOpens
<1>18. Room'
  BY <1>5 DEF Room
<1>19. Counts'
  <2>1. codec.compressed = 0 /\ codec.decompressed = 0 /\ Len(sent[Client]) \in Nat /\ Len(got[Client]) \in Nat
    BY <1>0, <1>1, <1>7, TypedEnd DEF IsNew
  <2>2. \A x \in Ends : /\ deflate'[x].reset_compressor => deflate'[x].compressed = 0
                        /\ deflate'[x].compressed <= Len(sent[x])
                        /\ deflate'[x].decompressed <= Len(got[x])
    BY <1>0, <1>1, <1>6, <2>1 DEF Counts
  <2> QED BY <1>1, <1>3, <2>2 DEF Counts
<1>20. InOrder'
  <2>1. \A x \in Ends : stage'[x] = "broken" => bad[Peer(x)]
    BY <1>0, <1>1, <1>5 DEF InOrder
  <2> QED BY <1>1, <1>3, <2>1 DEF InOrder
<1>21. Link(Client, Server)'
  <2>1. HeadOf(Client)' = <<>>
    BY <1>5 DEF HeadOf
  <2>2. deflate[Client].decompressed = 0 /\ deflate'[Client].decompressed = 0
    BY <1>6, <1>7, <1>9, NewCodecs DEF IsNew
  <2>3. PICK on \in BOOLEAN, p \in Ends, h \in Seq(Nat), b \in Seq(Nat), s \in Seq(Nat) :
          on = deflate[Server].on /\ p = Server /\ h = Answer /\ b = buf[Client] /\ s = stream[Client]
    BY <1>0, <1>1, <1>2, <1>11, TypedEnd
  <2>4. PICK reset, msgs, lasts, k, x, y :
          /\ reset = deflate[Server].reset_compressor /\ msgs = sent[Server] /\ lasts = Lasts(Server)
          /\ k = Len(got[Client]) /\ x = deflate[Server].compressed /\ y = deflate[Client].decompressed
    OBVIOUS
  <2>5. LinkOf(p, on, reset, msgs, lasts, k, h, b \o s, x, y)
    BY <1>11, <2>3, <2>4 DEF Link
  <2>6. Len(h) <= Len(b)
    BY <1>2, <2>3
  <2>7. LinkOf(p, on, reset, msgs, lasts, k, <<>>, Rest(b, Len(h)) \o s, x, y)
    BY <2>5, <2>6, LinkOpened
  <2>8. Lasts(Server)' = Lasts(Server)
    BY <1>3 DEF Lasts
  <2>9. y = deflate'[Client].decompressed
    BY <2>2, <2>4
  <2>10. LinkOf(Server, deflate'[Server].on, deflate'[Server].reset_compressor, sent[Server], Lasts(Server), Len(got[Client]),
                <<>>, buf'[Client] \o stream[Client], deflate'[Server].compressed, deflate'[Client].decompressed)
    BY <1>6, <2>3, <2>4, <2>7, <2>9
  <2> QED BY <1>3, <2>1, <2>8, <2>10 DEF Link
<1>22. ASSUME Linked(Server)' PROVE Link(Server, Client)'
  <2>1. stage[Server] = "open" /\ HeadOf(Server) = <<>> /\ HeadOf(Server)' = <<>>
    BY <1>0, <1>5, <1>22 DEF Linked, HeadOf
  <2>2. Link(Server, Client)
    BY <1>0, <1>1, <2>1, TwoEnds DEF Links, Linked
  <2>3. Lasts(Client) = {<<>>} /\ Lasts(Client)' = {<<>>}
    BY <1>3, <1>9 DEF Lasts
  <2>4. Len(got[Server]) = 0 /\ deflate[Server].decompressed = 0
    <3>1. Len(got[Server]) <= Len(sent[Client]) /\ deflate[Server].decompressed <= Len(got[Server])
      BY <1>0, <1>1, TwoEnds DEF InOrder, Counts
    <3>2. Len(sent[Client]) = 0
      BY <1>9
    <3>3. Len(got[Server]) \in Nat /\ deflate[Server].decompressed \in Nat
      BY <1>0, <1>1, TypedEnd
    <3> QED BY <3>1, <3>2, <3>3
  <2>5. buf[Server] \o stream[Server] = <<>>
    <3>1. PICK on, reset, k, bytes, x, y :
            /\ bytes = buf[Server] \o stream[Server]
            /\ LinkOf(Client, on, reset, <<>>, {<<>>}, k, <<>>, bytes, x, y)
      BY <1>9, <2>1, <2>2, <2>3 DEF Link
    <3>2. PICK h \in Seq(Nat) : h = <<>>
      <4>1. <<>> \in Seq(Nat)
        OBVIOUS
      <4> QED BY <4>1
    <3>3. LinkOf(Client, on, reset, <<>>, {<<>>}, k, h, bytes, x, y)
      BY <3>1, <3>2
    <3>4. bytes = h
      BY <3>3, LinkNothing
    <3> QED BY <3>1, <3>2, <3>4
  <2>6. LinkOf(Client, codec.on, codec.reset_compressor, <<>>, {<<>>}, 0, <<>>, <<>>, 0, 0)
    <3>1. \A p, on, reset : \A head \in Seq(Nat) : LinkOf(p, on, reset, <<>>, {<<>>}, 0, head, head, 0, 0)
      BY LinkStart
    <3>2. <<>> \in Seq(Nat)
      OBVIOUS
    <3> QED BY <3>1, <3>2
  <2>7. codec.compressed = 0
    BY <1>7 DEF IsNew
  <2> QED BY <1>3, <1>6, <1>9, <2>1, <2>3, <2>4, <2>5, <2>6, <2>7 DEF Link
<1>23. Links'
  BY <1>0, <1>21, <1>22, TwoEnds DEF Links
<1> QED BY <1>13, <1>14, <1>15, <1>16, <1>17, <1>18, <1>19, <1>20, <1>23 DEF WsInv

\* connect opens or refuses.
LEMMA ConnectInv ==
  ASSUME WsInv, Connect
  PROVE  WsInv'
<1> DEFINE h == parsed[Client]
<1>1. stage[Client] = "opening" /\ h # Incomplete
  BY DEF Connect
<1>2. CASE h.kind = "head" /\ IsSwitch(h)
  <2>1. Open(Client, ClientCodec(Get(h.headers, SecExt))) /\ UNCHANGED stream
    BY <1>2 DEF Connect
  <2>2. ConnectOpens
    BY <1>1, <1>2, <2>1 DEF ConnectOpens, Open, Consume
  <2> QED BY <2>2, ConnectOpensInv
<1>3. CASE ~(h.kind = "head" /\ IsSwitch(h))
  <2>1. FailEnd(Client)
    BY <1>3 DEF Connect
  <2>2. request \in OurRequests => Refused(reply)
    BY <1>1, <1>3, OurAnswerRefused
  <2> QED BY <1>1, <2>1, <2>2, FailInv, TwoEnds
<1> QED BY <1>2, <1>3

\* connect sees that accept has refused.
LEMMA ConnectClosedInv ==
  ASSUME WsInv, ConnectClosed
  PROVE  WsInv'
<1>1. stage[Client] = "opening" /\ stage[Server] = "refused" /\ FailEnd(Client)
  BY DEF ConnectClosed
<1>2. request \notin OurRequests
  BY <1>1 DEF WsInv, OwnHandshakeOpens
<1> QED BY <1>1, <1>2, FailInv, TwoEnds

-----------------------------------------------------------------------------
\* The peer's peer is the end itself.
LEMMA EndAndPeer ==
  ASSUME NEW e \in Ends
  PROVE  Peer(e) \in Ends /\ Peer(e) # e /\ Peer(Peer(e)) = e /\ \A x \in Ends : x = e \/ x = Peer(e)
BY TwoEnds

\* What is on the way to an end that is linked, as the lemmas about it take it.
LEMMA LinkedIs ==
  ASSUME WsInv, NEW e \in Ends, Linked(e)
  PROVE  Link(e, Peer(e)) /\ HeadOf(e) \in Seq(Nat) /\ buf[e] \in Seq(Nat) /\ stream[e] \in Seq(Nat)
<1>1. Link(e, Peer(e)) /\ buf[e] \in Seq(Nat) /\ stream[e] \in Seq(Nat)
  BY TypedEnd DEF WsInv, Links
<1>2. CASE stage[e] = "open"
  <2>1. HeadOf(e) = <<>>
    BY <1>2 DEF HeadOf
  <2>2. <<>> \in Seq(Nat)
    OBVIOUS
  <2> QED BY <1>1, <2>1, <2>2
<1>3. CASE stage[e] # "open"
  <2>1. e = Client /\ stage[e] = "opening" /\ Opened(Server)
    BY <1>3 DEF Linked
  <2>2. HeadOf(Client) = Answer /\ Answer \in Seq(Nat)
    BY <2>1, ClientReads
  <2> QED BY <1>1, <2>1, <2>2
<1> QED BY <1>2, <1>3

\* Bytes put on the way to an end are behind those that are there.
LEMMA PutBehind ==
  ASSUME NEW b \in Seq(Nat), NEW s \in Seq(Nat), NEW f \in Seq(Nat)
  PROVE  s \o f \in Seq(Nat) /\ b \o (s \o f) = (b \o s) \o f
<1>1. s \o f \in Seq(Nat)
  BY ConcatElements
<1>2. (b \o s) \o f = b \o (s \o f)
  BY JoinBytes
<1> QED BY <1>1, <1>2

\* An end that is open sends f to its peer.
Sends(e, f) ==
  /\ stage[e] = "open" /\ request \in OurRequests /\ f \in Seq(Nat)
  /\ stream' = [stream EXCEPT ![Peer(e)] = @ \o f]
  /\ UNCHANGED <<request, reply, buf, stage, parsed, got>>

\* What does not depend on what f is.
LEMMA SendsInv ==
  ASSUME WsInv, NEW e \in Ends, NEW f, Sends(e, f),
         sent' \in [Ends -> Seq(Sendables)], bad' \in [Ends -> BOOLEAN], deflate' \in [Ends -> Codec],
         \A x \in Ends : x # e => sent'[x] = sent[x] /\ bad'[x] = bad[x] /\ deflate'[x] = deflate[x],
         Flags(deflate'[e], deflate[e])
  PROVE  /\ Typed' /\ ParsedIs' /\ NotYet' /\ Agreed' /\ OwnHandshakeOpens' /\ Room'
         /\ Answer' = Answer /\ stream'[e] = stream[e] /\ stream'[Peer(e)] = stream[Peer(e)] \o f
         /\ \A x \in Ends : Linked(x)' = Linked(x) /\ HeadOf(x)' = HeadOf(x)
<1>0. Peer(e) \in Ends /\ Peer(e) # e /\ Peer(Peer(e)) = e /\ \A x \in Ends : x = e \/ x = Peer(e)
  BY EndAndPeer
<1>1. Typed /\ ParsedIs /\ NotYet /\ Agreed /\ OwnHandshakeOpens /\ Room
  BY DEF WsInv
<1>2. /\ stage[e] = "open" /\ request \in OurRequests /\ f \in Seq(Nat)
      /\ UNCHANGED <<request, reply, buf, stage, parsed, got>>
  BY DEF Sends
<1>3. Asked' = Asked /\ Said' = Said /\ Answer' = Answer
  BY <1>2, SaidOnce
<1>4. stream'[e] = stream[e] /\ stream'[Peer(e)] = stream[Peer(e)] \o f
  BY <1>0, <1>1 DEF Sends, Typed
<1>5. Opened(e) /\ Opened(Server)
  <2>1. Opened(e)
    BY <1>2 DEF Opened
  <2> QED BY <1>1, <2>1, TwoEnds DEF NotYet
<1>6. \A x \in Ends : Opened(x)' = Opened(x)
  BY <1>2 DEF Opened
<1>7. Typed'
  <2>1. stream' = [x \in Ends |-> stream'[x]]
    BY <1>1 DEF Sends, Typed
  <2>2. stream[Peer(e)] \o f \in Seq(Nat)
    <3>1. PICK s \in Seq(Nat), g \in Seq(Nat) : s = stream[Peer(e)] /\ g = f
      BY <1>0, <1>1, <1>2, TypedEnd
    <3>2. s \o g \in Seq(Nat)
      BY ConcatElements
    <3> QED BY <3>1, <3>2
  <2>3. \A x \in Ends : stream'[x] \in Seq(Nat)
    BY <1>0, <1>1, <1>4, <2>2, TypedEnd
  <2>4. stream' \in [Ends -> Seq(Nat)]
    BY <2>1, <2>3
  <2> QED BY <1>1, <1>2, <2>4 DEF Typed
<1>8. ParsedIs'
  BY <1>1, <1>2 DEF ParsedIs
<1>9. NotYet'
  <2>1. \A x \in Ends : ~Opened(x) =>
          sent'[x] = <<>> /\ got[x] = <<>> /\ bad'[x] = FALSE /\ deflate'[x] = NoDeflate
    BY <1>1, <1>5 DEF NotYet
  <2>2. stage[Server] # "opening"
    BY <1>5 DEF Opened
  <2> QED BY <1>2, <1>5, <1>6, <2>1, <2>2, TwoEnds DEF NotYet
<1>10. Agreed'
  <2>1. \A x \in Ends : \A c : Flags(deflate[x], c) => Flags(deflate'[x], c)
    BY DEF Flags
  <2> QED BY <1>1, <1>2, <1>3, <1>6, <2>1, TwoEnds DEF Agreed
<1>11. OwnHandshakeOpens' /\ Room'
  BY <1>1, <1>2, <1>3, <1>6, TwoEnds DEF OwnHandshakeOpens, Room
<1>12. \A x \in Ends : Linked(x)' = Linked(x) /\ HeadOf(x)' = HeadOf(x)
  BY <1>2, <1>3 DEF Linked, HeadOf, Opened
<1> QED BY <1>3, <1>4, <1>7, <1>8, <1>9, <1>10, <1>11, <1>12

\* The compressor takes a message.
LEMMA CompressIs ==
  ASSUME Typed, NEW e \in Ends, NEW m, Counts,
         IF Marked(deflate[e].on, m) THEN Compress(e) ELSE UNCHANGED deflate
  PROVE  /\ deflate' \in [Ends -> Codec] /\ \A x \in Ends : x # e => deflate'[x] = deflate[x]
         /\ Flags(deflate'[e], deflate[e]) /\ deflate'[e].decompressed = deflate[e].decompressed
         /\ deflate'[e].compressed = After(deflate[e].on, deflate[e].reset_compressor, m, deflate[e].compressed)
         /\ deflate'[e].compressed <= deflate[e].compressed + 1
         /\ deflate'[e].reset_compressor => deflate'[e].compressed = 0
<1>1. deflate \in [Ends -> Codec] /\ deflate[e] \in Codec /\ deflate[e].compressed \in Nat
  BY TypedEnd DEF Typed
<1>2. deflate[e].reset_compressor => deflate[e].compressed = 0
  BY DEF Counts
<1>3. CASE Marked(deflate[e].on, m)
  <2> DEFINE v == IF deflate[e].reset_compressor THEN 0 ELSE deflate[e].compressed + 1
             d == [deflate[e] EXCEPT !.compressed = v]
  <2>1. deflate' = [deflate EXCEPT ![e] = d]
    BY <1>3 DEF Compress
  <2>2. v \in Nat
    BY <1>1
  <2>3. d \in Codec /\ d.compressed = v /\ d.decompressed = deflate[e].decompressed /\ Flags(d, deflate[e])
    <3> HIDE DEF v
    <3> QED BY <1>1, <2>2 DEF Codec, Flags
  <2>4. v = After(deflate[e].on, deflate[e].reset_compressor, m, deflate[e].compressed)
    BY <1>2, <1>3 DEF After
  <2>5. v <= deflate[e].compressed + 1
    BY <1>1
  <2>6. d.reset_compressor => v = 0
    BY <2>3 DEF Flags
  <2> HIDE DEF d, v
  <2>7. deflate' \in [Ends -> Codec] /\ deflate'[e] = d /\ \A x \in Ends : x # e => deflate'[x] = deflate[x]
    BY <1>1, <2>1, <2>3
  <2> QED BY <2>3, <2>4, <2>5, <2>6, <2>7
<1>4. CASE ~Marked(deflate[e].on, m)
  <2>1. deflate' = deflate
    BY <1>4
  <2>2. After(deflate[e].on, deflate[e].reset_compressor, m, deflate[e].compressed) = deflate[e].compressed
    BY <1>4 DEF After
  <2>3. Flags(deflate[e], deflate[e])
    BY DEF Flags
  <2> QED BY <1>1, <1>2, <2>1, <2>2, <2>3
<1> QED BY <1>3, <1>4

-----------------------------------------------------------------------------
\* An end sends a message.
LEMMA SendMessageInv ==
  ASSUME WsInv, NEW e \in Ends, NEW m \in Messages, SendMessage(e, m[1], m[2])
  PROVE  WsInv'
<1> DEFINE p == Peer(e)
           on == deflate[e].on
           reset == deflate[e].reset_compressor
           c == deflate[e].compressed
           f == Wire(e, on, m, c)
<1>0. p \in Ends /\ p # e /\ Peer(p) = e /\ \A x \in Ends : x = e \/ x = p
  BY EndAndPeer
<1>1. Typed /\ Counts /\ InOrder /\ Links
  BY DEF WsInv
<1>2. /\ stage[e] = "open" /\ ~bad[e] /\ Len(sent[Client]) + Len(sent[Server]) < MaxMsgs
      /\ request \in OurRequests /\ (IsControl(m[1]) => Len(m[2]) < Len16)
      /\ UNCHANGED <<request, reply, buf, stage, parsed, got, bad>>
  BY DEF SendMessage
<1>3. m \in Sendables /\ m = <<m[1], m[2]>>
  <2>1. m \in Sendables
    BY <1>2 DEF Sendables
  <2> QED BY <2>1, Sent
<1>4. /\ stream' = [stream EXCEPT ![p] = @ \o f] /\ sent' = [sent EXCEPT ![e] = Append(@, m)]
      /\ IF Marked(on, m) THEN Compress(e) ELSE UNCHANGED deflate
  <2>1. Marked(on, m) = (deflate[e].on /\ ~IsControl(m[1]))
    BY DEF Marked
  <2>2. PICK r : r = (deflate[e].on /\ ~IsControl(m[1]))
    OBVIOUS
  <2>3. /\ stream' = [stream EXCEPT ![p] = @ \o
               Encode(WireFrame(TRUE, r, m[1], IF r THEN <<Compressed + c>> \o m[2] ELSE m[2]),
                      IF e = Client THEN Key ELSE <<>>)]
        /\ sent' = [sent EXCEPT ![e] = Append(@, <<m[1], m[2]>>)]
        /\ IF r THEN Compress(e) ELSE UNCHANGED deflate
    BY <2>2 DEF SendMessage
  <2>4. f = Encode(WireFrame(TRUE, r, m[1], IF r THEN <<Compressed + c>> \o m[2] ELSE m[2]),
                   IF e = Client THEN Key ELSE <<>>)
    BY <2>1, <2>2 DEF Wire, FrameOf, Carried, KeyOf
  <2> HIDE DEF f
  <2> QED BY <1>3, <2>1, <2>2, <2>3, <2>4
<1>5. /\ sent[e] \in Seq(Sendables) /\ Len(sent[e]) \in Nat /\ Len(sent[p]) \in Nat
      /\ on \in BOOLEAN /\ c \in Nat /\ MaxMsgs \in Nat /\ MaxMsgs <= 1000
  <2>1. MaxMsgs \in 0..1000
    BY WsOpeningAssumption
  <2> QED BY <1>0, <1>1, <2>1, TypedEnd
<1>6. Len(sent[e]) + Len(sent[p]) < MaxMsgs /\ Len(sent[e]) < MaxMsgs /\ Len(sent[e]) < 1000 /\ c <= 1000
  <2>1. c <= Len(sent[e])
    BY <1>1 DEF Counts
  <2>2. Len(sent[e]) + Len(sent[p]) < MaxMsgs
    <3>1. (e = Client /\ p = Server) \/ (e = Server /\ p = Client)
      BY TwoEnds
    <3> HIDE DEF p
    <3>2. PICK i \in Nat, j \in Nat : i = Len(sent[e]) /\ j = Len(sent[p])
      BY <1>5
    <3>3. i + j = j + i
      OBVIOUS
    <3>4. CASE e = Client /\ p = Server
      BY <1>2, <3>2, <3>4
    <3>5. CASE e = Server /\ p = Client
      <4>1. j + i < MaxMsgs
        BY <1>2, <3>2, <3>5
      <4> QED BY <3>2, <3>3, <4>1
    <3> QED BY <3>1, <3>4, <3>5
  <2>3. PICK i \in Nat, j \in Nat, n \in Nat, k \in Nat : i = Len(sent[e]) /\ j = Len(sent[p]) /\ n = MaxMsgs /\ k = c
    <3>1. Len(sent[e]) \in Nat /\ Len(sent[p]) \in Nat /\ MaxMsgs \in Nat /\ c \in Nat
      BY <1>5, Zenon
    <3> QED BY <3>1, Zenon
  <2>4. i + j < n /\ n <= 1000 /\ k <= i
    <3>1. i + j < n
      BY <2>2, <2>3, Zenon
    <3>2. n <= 1000
      BY <1>5, <2>3, Zenon
    <3>3. k <= i
      BY <2>1, <2>3, Zenon
    <3> QED BY <3>1, <3>2, <3>3
  <2>5. i < n /\ i < 1000 /\ k <= 1000
    BY <2>4
  <2> QED BY <2>2, <2>3, <2>5, ZenonT(40)
<1>7. f \in Seq(Nat)
  BY <1>3, <1>5, <1>6, WireIs, ZenonT(40)
<1>8. /\ sent' \in [Ends -> Seq(Sendables)] /\ sent'[e] = Append(sent[e], m)
      /\ \A x \in Ends : x # e => sent'[x] = sent[x]
  <2>1. Append(sent[e], m) \in Seq(Sendables)
    BY <1>3, <1>5
  <2> QED BY <1>1, <1>4, <2>1 DEF Typed
<1>9. /\ Len(sent'[e]) = Len(sent[e]) + 1 /\ \A i \in 1..Len(sent[e]) : sent'[e][i] = sent[e][i]
  <2>1. PICK s \in Seq(Sendables) : s = sent[e]
    BY <1>5
  <2>2. Len(Append(s, m)) = Len(s) + 1 /\ \A i \in 1..Len(s) : Append(s, m)[i] = s[i]
    BY <1>3
  <2> QED BY <1>8, <2>1, <2>2
<1>10. /\ deflate' \in [Ends -> Codec] /\ \A x \in Ends : x # e => deflate'[x] = deflate[x]
       /\ Flags(deflate'[e], deflate[e]) /\ deflate'[e].decompressed = deflate[e].decompressed
       /\ deflate'[e].compressed = After(on, reset, m, c)
       /\ deflate'[e].compressed <= c + 1
       /\ deflate'[e].reset_compressor => deflate'[e].compressed = 0
  BY <1>1, <1>4, CompressIs
<1> HIDE DEF f, on, reset, c, p
<1>11. /\ Typed' /\ ParsedIs' /\ NotYet' /\ Agreed' /\ OwnHandshakeOpens' /\ Room'
       /\ Answer' = Answer /\ stream'[e] = stream[e] /\ stream'[p] = stream[p] \o f
       /\ \A x \in Ends : Linked(x)' = Linked(x) /\ HeadOf(x)' = HeadOf(x)
  <2>1. Sends(e, f)
    BY <1>2, <1>4, <1>7 DEF Sends, p
  <2>2. /\ bad' \in [Ends -> BOOLEAN]
        /\ \A x \in Ends : x # e => sent'[x] = sent[x] /\ bad'[x] = bad[x] /\ deflate'[x] = deflate[x]
    BY <1>1, <1>2, <1>8, <1>10 DEF Typed
  <2> QED BY <1>8, <1>10, <2>1, <2>2, SendsInv DEF p
<1>12. Counts'
  <2>1. deflate'[e].compressed <= Len(sent'[e])
    <3>1. c <= Len(sent[e])
      BY <1>1 DEF Counts, c
    <3>2. deflate'[e].compressed \in Nat
      <4>1. deflate'[e] \in Codec
        BY <1>10
      <4> QED BY <4>1 DEF Codec
    <3> QED BY <1>5, <1>9, <1>10, <3>1, <3>2
  <2>2. Len(sent'[Client]) + Len(sent'[Server]) <= MaxMsgs
    <3>1. (e = Client /\ p = Server) \/ (e = Server /\ p = Client)
      BY TwoEnds DEF p
    <3>2. Len(sent'[p]) = Len(sent[p])
      BY <1>0, <1>8
    <3>3. Len(sent'[e]) + Len(sent'[p]) <= MaxMsgs /\ Len(sent'[p]) + Len(sent'[e]) <= MaxMsgs
      <4>1. PICK i \in Nat, j \in Nat, n \in Nat : i = Len(sent[e]) /\ j = Len(sent[p]) /\ n = MaxMsgs
        BY <1>5
      <4>2. i + j < n
        BY <1>6, <4>1, ZenonT(40)
      <4>3. (i + 1) + j <= n /\ j + (i + 1) <= n
        BY <4>2
      <4>4. Len(sent'[e]) = i + 1 /\ Len(sent'[p]) = j
        BY <1>9, <3>2, <4>1
      <4> QED BY <4>1, <4>3, <4>4
    <3> QED BY <3>1, <3>3
  <2>3. deflate'[e].decompressed <= Len(got[e])
    BY <1>1, <1>10 DEF Counts
  <2>4. \A x \in Ends : /\ deflate'[x].reset_compressor => deflate'[x].compressed = 0
                        /\ deflate'[x].compressed <= Len(sent'[x])
                        /\ deflate'[x].decompressed <= Len(got[x])
    BY <1>1, <1>8, <1>10, <2>1, <2>3 DEF Counts
  <2> QED BY <1>2, <2>2, <2>4 DEF Counts
<1>13. InOrder'
  <2>1. /\ Len(got[p]) <= Len(sent'[e])
        /\ \A i \in 1..Len(got[p]) : got[p][i] = sent'[e][i]
    <3>1. Len(got[p]) <= Len(sent[e]) /\ \A i \in 1..Len(got[p]) : got[p][i] = sent[e][i]
      BY <1>0, <1>1 DEF InOrder
    <3>2. Len(got[p]) \in Nat
      BY <1>0, <1>1, TypedEnd
    <3>3. \A i \in 1..Len(got[p]) : i \in 1..Len(sent[e])
      BY <1>5, <3>1, <3>2
    <3>4. Len(got[p]) <= Len(sent'[e])
      BY <1>5, <1>9, <3>1, <3>2
    <3> QED BY <1>9, <3>1, <3>3, <3>4
  <2>2. /\ Len(got[e]) <= Len(sent'[p]) /\ \A i \in 1..Len(got[e]) : got[e][i] = sent'[p][i]
    BY <1>0, <1>1, <1>8 DEF InOrder, p
  <2>3. \A x \in Ends : stage[x] = "broken" => bad[Peer(x)]
    BY <1>1 DEF InOrder
  <2>4. \A x \in Ends : Len(got[x]) <= Len(sent'[Peer(x)]) /\ \A i \in 1..Len(got[x]) : got[x][i] = sent'[Peer(x)][i]
    BY <1>0, <2>1, <2>2 DEF p
  <2> QED BY <1>2, <2>3, <2>4 DEF InOrder
<1>14. ASSUME Linked(e) PROVE Link(e, p)'
  <2>1. Link(e, p)
    BY <1>1, <1>14 DEF Links, p
  <2>2. deflate'[p] = deflate[p] /\ sent'[p] = sent[p]
    BY <1>0, <1>8, <1>10
  <2>3. HeadOf(e)' = HeadOf(e) /\ Lasts(p)' = Lasts(p)
    BY <1>2, <1>11 DEF Lasts
  <2> QED BY <1>2, <1>10, <1>11, <2>1, <2>2, <2>3 DEF Link
<1>15. ASSUME Linked(p) PROVE Link(p, e)'
  <2>1. Link(p, e) /\ HeadOf(p) \in Seq(Nat) /\ buf[p] \in Seq(Nat) /\ stream[p] \in Seq(Nat)
    BY <1>0, <1>15, LinkedIs
  <2>2. Lasts(e) = {<<>>} /\ Lasts(e)' = {<<>>}
    BY <1>2 DEF Lasts
  <2>3a. PICK b \in Seq(Nat), s \in Seq(Nat), g \in Seq(Nat), h \in Seq(Nat), o \in BOOLEAN :
           b = buf[p] /\ s = stream[p] /\ g = f /\ h = HeadOf(p) /\ o = on
    BY <1>5, <1>7, <2>1
  <2>3b. PICK k, y, msgs : msgs = sent[e] /\ k = Len(got[p]) /\ y = deflate[p].decompressed
    OBVIOUS
  <2>4. LinkOf(e, o, reset, msgs, {<<>>}, k, h, b \o s, c, y)
    BY <2>1, <2>2, <2>3a, <2>3b DEF Link, on, reset, c
  <2>5. Len(msgs) < 1000
    BY <1>6, <2>3a, <2>3b
  <2>6. LinkOf(e, o, reset, Append(msgs, m), {<<>>}, k, h, (b \o s) \o Wire(e, o, m, c), After(o, reset, m, c), y)
    BY <1>3, <2>4, <2>5, LinkSend
  <2>7. b \o (s \o g) = (b \o s) \o g
    BY PutBehind, SMTT(25)
  <2>8. Wire(e, o, m, c) = g
    BY <2>3a, <2>3b DEF f
  <2>9. buf'[p] \o stream'[p] = (b \o s) \o Wire(e, o, m, c)
    BY <1>2, <1>11, <2>3a, <2>3b, <2>7, <2>8
  <2>10. deflate'[e].on = o /\ deflate'[e].reset_compressor = reset /\ deflate'[e].compressed = After(o, reset, m, c)
    BY <1>10, <2>3a, <2>3b DEF Flags, on, reset
  <2>11. HeadOf(p)' = h /\ sent'[e] = Append(msgs, m) /\ Len(got'[p]) = k /\ deflate'[p].decompressed = y
    BY <1>0, <1>2, <1>8, <1>10, <1>11, <2>3a, <2>3b
  <2> QED BY <2>2, <2>6, <2>9, <2>10, <2>11 DEF Link
<1>16. Links'
  <2>1. \A x \in Ends : Linked(x)' => Link(x, Peer(x))'
    BY <1>0, <1>11, <1>14, <1>15 DEF p
  <2> QED BY <2>1 DEF Links
<1> QED BY <1>11, <1>12, <1>13, <1>16 DEF WsInv

\* Another implementation breaks the protocol.
LEMMA SendBadInv ==
  ASSUME WsInv, NEW e \in Ends, SendBad(e)
  PROVE  WsInv'
<1> DEFINE p == Peer(e)
<1>0. p \in Ends /\ p # e /\ Peer(p) = e /\ \A x \in Ends : x = e \/ x = p
  BY EndAndPeer
<1>1. Typed /\ Counts /\ InOrder /\ Links
  BY DEF WsInv
<1>2. PICK f \in BadFrames[e] : stream' = [stream EXCEPT ![p] = @ \o f]
  BY DEF SendBad
<1>3. /\ stage[e] = "open" /\ bad = [x \in Ends |-> FALSE] /\ request \in OurRequests
      /\ bad' = [bad EXCEPT ![e] = TRUE]
      /\ UNCHANGED <<request, reply, buf, stage, parsed, deflate, sent, got>>
  BY DEF SendBad
<1>4. f \in Seq(Nat)
  BY WsOpeningAssumption
<1>5. bad[e] = FALSE /\ bad'[e] = TRUE /\ bad' \in [Ends -> BOOLEAN] /\ \A x \in Ends : x # e => bad'[x] = bad[x]
  BY <1>3
<1> HIDE DEF p
<1>6. /\ Typed' /\ ParsedIs' /\ NotYet' /\ Agreed' /\ OwnHandshakeOpens' /\ Room'
      /\ Answer' = Answer /\ stream'[e] = stream[e] /\ stream'[p] = stream[p] \o f
      /\ \A x \in Ends : Linked(x)' = Linked(x) /\ HeadOf(x)' = HeadOf(x)
  <2>1. Sends(e, f)
    BY <1>2, <1>3, <1>4 DEF Sends, p
  <2>2. /\ sent' \in [Ends -> Seq(Sendables)] /\ deflate' \in [Ends -> Codec]
        /\ \A x \in Ends : x # e => sent'[x] = sent[x] /\ bad'[x] = bad[x] /\ deflate'[x] = deflate[x]
    BY <1>1, <1>3, <1>5 DEF Typed
  <2>3. Flags(deflate'[e], deflate[e])
    BY <1>3 DEF Flags
  <2> QED BY <1>5, <2>1, <2>2, <2>3, SendsInv DEF p
<1>7. Counts'
  BY <1>1, <1>3 DEF Counts
<1>8. InOrder'
  <2>1. \A x \in Ends : stage[x] = "broken" => bad'[Peer(x)]
    BY <1>0, <1>1, <1>5 DEF InOrder, p
  <2> QED BY <1>1, <1>3, <2>1 DEF InOrder
<1>9. ASSUME Linked(e) PROVE Link(e, p)'
  <2>1. Link(e, p)
    BY <1>1, <1>9 DEF Links, p
  <2>2. HeadOf(e)' = HeadOf(e) /\ Lasts(p)' = Lasts(p)
    BY <1>0, <1>5, <1>6 DEF Lasts
  <2> QED BY <1>3, <1>6, <2>1, <2>2 DEF Link
<1>10. ASSUME Linked(p) PROVE Link(p, e)'
  <2>1. Link(p, e) /\ HeadOf(p) \in Seq(Nat) /\ buf[p] \in Seq(Nat) /\ stream[p] \in Seq(Nat)
    BY <1>0, <1>10, LinkedIs
  <2>2. Lasts(e) = {<<>>} /\ Lasts(e)' = BadFrames[e]
    BY <1>5 DEF Lasts
  <2>3a. PICK b \in Seq(Nat), s \in Seq(Nat), g \in Seq(Nat), h \in Seq(Nat), o \in BOOLEAN :
           b = buf[p] /\ s = stream[p] /\ g = f /\ h = HeadOf(p) /\ o = deflate[e].on
    BY <1>1, <1>4, <2>1, TypedEnd
  <2>3b. PICK reset, k, x, y, msgs :
           /\ msgs = sent[e] /\ reset = deflate[e].reset_compressor
           /\ k = Len(got[p]) /\ x = deflate[e].compressed /\ y = deflate[p].decompressed
    OBVIOUS
  <2>4. LinkOf(e, o, reset, msgs, {<<>>}, k, h, b \o s, x, y)
    BY <2>1, <2>2, <2>3a, <2>3b DEF Link
  <2>5. LinkOf(e, o, reset, msgs, {g}, k, h, (b \o s) \o g, x, y)
    BY <2>4, LinkMore
  <2>6. LinkOf(e, o, reset, msgs, BadFrames[e], k, h, (b \o s) \o g, x, y)
    <3>1. {g} \subseteq BadFrames[e]
      BY <2>3a, <2>3b
    <3> QED BY <2>5, <3>1, LinkWider
  <2>7. b \o (s \o g) = (b \o s) \o g
    BY PutBehind, SMTT(25)
  <2>8. buf'[p] \o stream'[p] = (b \o s) \o g
    BY <1>3, <1>6, <2>3a, <2>3b, <2>7
  <2>9. HeadOf(p)' = h
    BY <1>0, <1>6, <2>3a, <2>3b
  <2> QED BY <1>3, <2>2, <2>3a, <2>3b, <2>6, <2>8, <2>9 DEF Link
<1>11. Links'
  <2>1. \A x \in Ends : Linked(x)' => Link(x, Peer(x))'
    BY <1>0, <1>6, <1>9, <1>10 DEF p
  <2> QED BY <2>1 DEF Links
<1> QED BY <1>6, <1>7, <1>8, <1>11 DEF WsInv

-----------------------------------------------------------------------------
\* What an end that is open decodes.
LEMMA OpenEnd ==
  ASSUME WsInv, NEW e \in Ends, stage[e] = "open"
  PROVE  /\ parsed[e] = Decode(buf[e], Peer(e) = Client)
         /\ LinkOf(Peer(e), deflate[Peer(e)].on, deflate[Peer(e)].reset_compressor, sent[Peer(e)], Lasts(Peer(e)),
                   Len(got[e]), <<>>, buf[e] \o stream[e], deflate[Peer(e)].compressed, deflate[e].decompressed)
<1>1. parsed[e] = Decode(buf[e], Peer(e) = Client)
  <2>1. PICK q : q = (e = Server)
    OBVIOUS
  <2>2. parsed[e] = Parse(e, "open", buf[e])
    BY DEF WsInv, ParsedIs
  <2>3. parsed[e] = Decode(buf[e], q)
    BY <2>1, <2>2 DEF Parse
  <2>4. q = (Peer(e) = Client)
    BY <2>1, TwoEnds
  <2> QED BY <2>3, <2>4
<1>2. Linked(e) /\ HeadOf(e) = <<>>
  BY DEF Linked, HeadOf
<1>3. Link(e, Peer(e))
  BY <1>2, LinkedIs
<1> QED BY <1>1, <1>2, <1>3 DEF Link

\* The codecs of the ends fit when a message has been sent.
LEMMA CodecsFit ==
  ASSUME WsInv, NEW e \in Ends, stage[e] = "open", sent[Peer(e)] # <<>>
  PROVE  /\ deflate[e].on = deflate[Peer(e)].on
         /\ deflate[e].reset_decompressor = deflate[Peer(e)].reset_compressor
<1>0. Peer(e) \in Ends
  BY EndAndPeer
<1>1. Opened(e) /\ Opened(Peer(e)) /\ request \in OurRequests
  BY <1>0 DEF WsInv, NotYet, Opened
<1>2. Opened(Client) /\ Opened(Server)
  BY <1>1, TwoEnds
<1>3. Flags(deflate[Server], ServerCodec(Said)) /\ Flags(deflate[Client], ClientCodec(Said))
  BY <1>1, <1>2 DEF WsInv, Agreed
<1>4. Said \in Negotiable
  BY SaidNegotiable DEF WsInv, Typed
<1>5. PICK c, d : c = ServerCodec(Said) /\ d = ClientCodec(Said)
  OBVIOUS
<1>6. Fit(c, d)
  BY <1>4, <1>5, Negotiated
<1>7. Flags(deflate[Server], c) /\ Flags(deflate[Client], d)
  BY <1>3, <1>5
<1>8. Fit(deflate[Server], deflate[Client])
  BY <1>6, <1>7 DEF Fit, Flags
<1>9. (e = Client /\ Peer(e) = Server) \/ (e = Server /\ Peer(e) = Client)
  BY TwoEnds
<1> QED BY <1>8, <1>9 DEF Fit

\* recv hands out m and drops n bytes; the context is then that of z messages.
Hands(e, m, n, z) ==
  /\ stage[e] = "open"
  /\ got' = [got EXCEPT ![e] = Append(@, m)]
  /\ buf' = [buf EXCEPT ![e] = Rest(buf[e], n)]
  /\ parsed' = [parsed EXCEPT ![e] = Parse(e, "open", Rest(buf[e], n))]
  /\ deflate' = [deflate EXCEPT ![e].decompressed = z]
  /\ UNCHANGED <<request, reply, stage, stream, sent, bad>>

\* It is the next one, and what is left are those behind it.
IsNext(e, m, n, z) ==
  LET p == Peer(e)
      k == Len(got[e])
  IN  /\ k + 1 \in 1..Len(sent[p]) /\ m = sent[p][k + 1] /\ m \in Sendables
      /\ Rest(buf[e], n) \in Seq(Nat) /\ z \in Nat /\ z <= k + 1
      /\ LinkOf(p, deflate[p].on, deflate[p].reset_compressor, sent[p], Lasts(p), k + 1, <<>>,
                Rest(buf[e], n) \o stream[e], deflate[p].compressed, z)

\* Handing out the next message keeps the invariant.
LEMMA HandsInv ==
  ASSUME WsInv, NEW e \in Ends, NEW m, NEW n, NEW z, Hands(e, m, n, z), IsNext(e, m, n, z)
  PROVE  WsInv'
<1> DEFINE p == Peer(e)
           k == Len(got[e])
           rest == Rest(buf[e], n)
<1>0. p \in Ends /\ p # e /\ Peer(p) = e /\ \A x \in Ends : x = e \/ x = p
  BY EndAndPeer
<1>1. Typed /\ ParsedIs /\ NotYet /\ Agreed /\ OwnHandshakeOpens /\ Room /\ Counts /\ InOrder /\ Links
  BY DEF WsInv
<1>2. /\ stage[e] = "open" /\ got' = [got EXCEPT ![e] = Append(@, m)] /\ buf' = [buf EXCEPT ![e] = rest]
      /\ parsed' = [parsed EXCEPT ![e] = Parse(e, "open", rest)]
      /\ deflate' = [deflate EXCEPT ![e].decompressed = z]
      /\ UNCHANGED <<request, reply, stage, stream, sent, bad>>
  BY DEF Hands
<1>3. /\ k + 1 \in 1..Len(sent[p]) /\ m = sent[p][k + 1] /\ m \in Sendables
      /\ rest \in Seq(Nat) /\ z \in Nat /\ z <= k + 1
      /\ LinkOf(p, deflate[p].on, deflate[p].reset_compressor, sent[p], Lasts(p), k + 1, <<>>,
                rest \o stream[e], deflate[p].compressed, z)
  BY DEF IsNext
<1>4. Asked' = Asked /\ Said' = Said /\ Answer' = Answer
  BY <1>2, SaidOnce
<1> HIDE DEF rest, p
<1>5. Opened(e) /\ stage[e] # "opening"
  BY <1>2 DEF Opened
<1>6. /\ buf'[e] = rest /\ parsed'[e] = Parse(e, "open", rest) /\ got'[e] = Append(got[e], m)
      /\ \A x \in Ends : x # e => buf'[x] = buf[x] /\ parsed'[x] = parsed[x] /\ got'[x] = got[x]
  BY <1>1, <1>2 DEF Typed
<1>7. /\ deflate' \in [Ends -> Codec] /\ \A x \in Ends : x # e => deflate'[x] = deflate[x]
      /\ Flags(deflate'[e], deflate[e]) /\ deflate'[e].compressed = deflate[e].compressed
      /\ deflate'[e].decompressed = z
  <2> DEFINE d == [deflate[e] EXCEPT !.decompressed = z]
  <2>1. deflate \in [Ends -> Codec] /\ deflate[e] \in Codec
    BY <1>1 DEF Typed
  <2>2. deflate' = [deflate EXCEPT ![e] = d]
    BY <1>2
  <2>3. d \in Codec /\ d.decompressed = z /\ d.compressed = deflate[e].compressed /\ Flags(d, deflate[e])
    BY <1>3, <2>1 DEF Codec, Flags
  <2> HIDE DEF d
  <2>4. deflate' \in [Ends -> Codec] /\ deflate'[e] = d /\ \A x \in Ends : x # e => deflate'[x] = deflate[x]
    BY <2>1, <2>2, <2>3
  <2> QED BY <2>3, <2>4
<1>8. /\ got[e] \in Seq(Sendables) /\ k \in Nat /\ got'[e] \in Seq(Sendables) /\ Len(got'[e]) = k + 1
      /\ got'[e][k + 1] = m /\ \A i \in 1..k : got'[e][i] = got[e][i]
  <2>1. PICK s \in Seq(Sendables) : s = got[e]
    BY <1>1, TypedEnd
  <2>2. /\ Append(s, m) \in Seq(Sendables) /\ Len(Append(s, m)) = Len(s) + 1 /\ Len(s) \in Nat
        /\ Append(s, m)[Len(s) + 1] = m /\ \A i \in 1..Len(s) : Append(s, m)[i] = s[i]
    BY <1>3
  <2> QED BY <1>6, <2>1, <2>2
<1> HIDE DEF k
<1>9. Typed'
  <2>1. buf' \in [Ends -> Seq(Nat)]
    BY <1>1, <1>2, <1>3 DEF Typed
  <2>2. got' \in [Ends -> Seq(Sendables)]
    <3>1. got' = [x \in Ends |-> got'[x]]
      BY <1>1, <1>2 DEF Typed
    <3>2. \A x \in Ends : got'[x] \in Seq(Sendables)
      BY <1>1, <1>6, <1>8 DEF Typed
    <3> QED BY <3>1, <3>2
  <2>3. parsed' = [x \in Ends |-> parsed'[x]]
    BY <1>1, <1>2 DEF Typed
  <2> QED BY <1>1, <1>2, <1>7, <2>1, <2>2, <2>3 DEF Typed
<1>10. ParsedIs'
  <2>1. ASSUME NEW x \in Ends
        PROVE  /\ stage[x] \in {"opening", "open"} => parsed'[x] = Parse(x, stage[x], buf'[x])
               /\ parsed'[x].kind \in {"more", "error", IF stage[x] \in {"opening", "refused"} THEN "head" ELSE "frame"}
    <3>1. CASE x = e
      <4>1. parsed'[e].kind \in {"more", "error", "frame"}
        BY <1>6, ParseKinds
      <4> QED BY <1>2, <1>6, <3>1, <4>1
    <3>2. CASE x # e
      BY <1>1, <1>6, <3>2 DEF ParsedIs
    <3> QED BY <3>1, <3>2
  <2> QED BY <1>2, <2>1 DEF ParsedIs
<1>11. NotYet'
  <2>1. \A x \in Ends : ~Opened(x) =>
          sent[x] = <<>> /\ got'[x] = <<>> /\ bad[x] = FALSE /\ deflate'[x] = NoDeflate
    BY <1>1, <1>5, <1>6, <1>7 DEF NotYet
  <2>2. stage[Server] = "opening" => buf'[Server] \o stream[Server] = request
    BY <1>1, <1>5, <1>6, TwoEnds DEF NotYet
  <2>3. ~Opened(Server) => ~Opened(Client) /\ stream[Client] = <<>> /\ buf'[Client] = <<>>
    BY <1>1, <1>5, <1>6, TwoEnds DEF NotYet
  <2>4. request \notin OurRequests => \A x \in Ends : sent[x] = <<>> /\ bad[x] = FALSE
    BY <1>1 DEF NotYet
  <2>5. \A x \in Ends : Opened(x)' = Opened(x)
    BY <1>2 DEF Opened
  <2> QED BY <1>2, <2>1, <2>2, <2>3, <2>4, <2>5, TwoEnds DEF NotYet
<1>12. Agreed'
  <2>1. \A x \in Ends : \A c : Flags(deflate[x], c) => Flags(deflate'[x], c)
    BY <1>7 DEF Flags
  <2>2. \A x \in Ends : Opened(x)' = Opened(x)
    BY <1>2 DEF Opened
  <2> QED BY <1>1, <1>2, <1>4, <2>1, <2>2, TwoEnds DEF Agreed
<1>13. OwnHandshakeOpens' /\ Room'
  <2>1. OwnHandshakeOpens'
    BY <1>1, <1>2 DEF OwnHandshakeOpens
  <2>2. stage[Client] = "opening" => buf'[Client] = buf[Client]
    BY <1>5, <1>6, TwoEnds
  <2>3. Room'
    BY <1>1, <1>2, <1>4, <2>2 DEF Room, Opened
  <2> QED BY <2>1, <2>3
<1>14. Counts'
  <2>1. deflate'[e].reset_compressor => deflate'[e].compressed = 0
    BY <1>1, <1>7 DEF Counts, Flags
  <2>2. \A x \in Ends : /\ deflate'[x].reset_compressor => deflate'[x].compressed = 0
                        /\ deflate'[x].compressed <= Len(sent[x])
                        /\ deflate'[x].decompressed <= Len(got'[x])
    BY <1>1, <1>3, <1>6, <1>7, <1>8, <2>1 DEF Counts
  <2> QED BY <1>1, <1>2, <2>2 DEF Counts
<1>15. InOrder'
  <2>1. Len(got'[e]) <= Len(sent[p]) /\ \A i \in 1..Len(got'[e]) : got'[e][i] = sent[p][i]
    <3>1. \A i \in 1..k : got[e][i] = sent[p][i]
      BY <1>1 DEF InOrder, p, k
    <3>2. ASSUME NEW i \in 1..(k + 1) PROVE got'[e][i] = sent[p][i]
      <4>1. i \in 1..k \/ i = k + 1
        BY <1>8
      <4> QED BY <1>3, <1>8, <3>1, <4>1
    <3>3. k + 1 <= Len(sent[p])
      BY <1>3
    <3> QED BY <1>8, <3>2, <3>3
  <2>2. \A x \in Ends : /\ Len(got'[x]) <= Len(sent[Peer(x)])
                        /\ \A i \in 1..Len(got'[x]) : got'[x][i] = sent[Peer(x)][i]
    BY <1>1, <1>6, <2>1, SMTT(25) DEF InOrder, p
  <2>3. \A x \in Ends : stage[x] = "broken" => bad[Peer(x)]
    BY <1>1 DEF InOrder
  <2> QED BY <1>2, <2>2, <2>3 DEF InOrder
<1>16. Link(e, p)'
  <2>1. HeadOf(e)' = <<>>
    BY <1>2 DEF HeadOf
  <2>2. Lasts(p)' = Lasts(p)
    BY <1>2 DEF Lasts
  <2>3. deflate'[p] = deflate[p]
    BY <1>0, <1>7
  <2> QED BY <1>2, <1>3, <1>6, <1>7, <1>8, <2>1, <2>2, <2>3 DEF Link
<1>17. ASSUME Linked(p) PROVE Link(p, e)'
  <2>1. Link(p, e)
    BY <1>0, <1>1, <1>17 DEF Links
  <2>2. HeadOf(p)' = HeadOf(p) /\ Lasts(e)' = Lasts(e)
    BY <1>2, <1>4 DEF HeadOf, Lasts
  <2>3. deflate'[e].on = deflate[e].on /\ deflate'[e].reset_compressor = deflate[e].reset_compressor
    BY <1>7 DEF Flags
  <2>4. deflate'[p] = deflate[p] /\ got'[p] = got[p] /\ buf'[p] = buf[p]
    BY <1>0, <1>6, <1>7
  <2> QED BY <1>2, <1>7, <2>1, <2>2, <2>3, <2>4 DEF Link
<1>18. Links'
  <2>1. Linked(p)' = Linked(p)
    BY <1>2 DEF Linked, Opened
  <2>2. \A x \in Ends : Linked(x)' => Link(x, Peer(x))'
    BY <1>0, <1>16, <1>17, <2>1 DEF p
  <2> QED BY <2>2 DEF Links
<1> QED BY <1>9, <1>10, <1>11, <1>12, <1>13, <1>14, <1>15, <1>18 DEF WsInv

-----------------------------------------------------------------------------
\* Of messages that were sent and not handed out, the next is decoded whole,
\* or waits for bytes on their way.
LEMMA NextArrives ==
  ASSUME WsInv, NEW e \in Ends, stage[e] = "open", Len(got[e]) # Len(sent[Peer(e)])
  PROVE  LET p == Peer(e)
             m == sent[p][Len(got[e]) + 1]
             y == deflate[e].decompressed
         IN  /\ Len(got[e]) + 1 \in 1..Len(sent[p]) /\ m \in Sendables /\ y <= 1000
             /\ Delivers(p, deflate[p].on, deflate[p].reset_compressor, sent[p], Lasts(p), Len(got[e]),
                         buf[e], stream[e], deflate[p].compressed, y)
<1> DEFINE p == Peer(e)
<1>0. p \in Ends
  BY EndAndPeer
<1>1. PICK q \in Ends, on \in BOOLEAN, b \in Seq(Nat), s \in Seq(Nat) :
        q = p /\ on = deflate[p].on /\ b = buf[e] /\ s = stream[e]
  <2>1. deflate[p].on \in BOOLEAN /\ buf[e] \in Seq(Nat) /\ stream[e] \in Seq(Nat)
    BY <1>0, TypedEnd DEF WsInv
  <2> HIDE DEF p
  <2> QED BY <1>0, <2>1
<1> DEFINE reset == deflate[p].reset_compressor
           msgs == sent[p]
           lasts == Lasts(p)
           k == Len(got[e])
           x == deflate[p].compressed
           y == deflate[e].decompressed
<1>2. LinkOf(q, on, reset, msgs, lasts, k, <<>>, b \o s, x, y) /\ k # Len(msgs)
  BY <1>1, OpenEnd
<1> HIDE DEF reset, msgs, lasts, k, x, y
<1>3. /\ k + 1 \in 1..Len(msgs) /\ msgs[k + 1] \in Sendables /\ y <= 1000
      /\ Delivers(q, on, reset, msgs, lasts, k, b, s, x, y)
  BY <1>2, LinkReceive
<1> QED BY <1>1, <1>3 DEF reset, msgs, lasts, k, x, y

\* When all has been handed out, nothing is left, or a bad frame.
LEMMA NothingArrives ==
  ASSUME WsInv, NEW e \in Ends, stage[e] = "open", Len(got[e]) = Len(sent[Peer(e)])
  PROVE  buf[e] \o stream[e] \in Lasts(Peer(e))
<1> DEFINE p == Peer(e)
           on == deflate[p].on
           reset == deflate[p].reset_compressor
           msgs == sent[p]
           lasts == Lasts(p)
           k == Len(got[e])
           x == deflate[p].compressed
           y == deflate[e].decompressed
<1>1. PICK b \in Seq(Nat), s \in Seq(Nat) : b = buf[e] /\ s = stream[e]
  <2>1. buf[e] \in Seq(Nat) /\ stream[e] \in Seq(Nat)
    BY TypedEnd DEF WsInv
  <2> QED BY <2>1
<1>2. LinkOf(p, on, reset, msgs, lasts, k, <<>>, b \o s, x, y) /\ k = Len(msgs)
  BY <1>1, OpenEnd
<1>3. b \o s \in lasts
  <2> HIDE DEF p, on, reset, msgs, lasts, k, x, y
  <2> QED BY <1>2, LinkEnd
<1> QED BY <1>1, <1>3

\* A message is decoded.
LEMMA ReceiveNext ==
  ASSUME WsInv, NEW e \in Ends, Receive(e), Len(got[e]) # Len(sent[Peer(e)])
  PROVE  WsInv'
<1> DEFINE p == Peer(e)
           k == Len(got[e])
           m == sent[p][k + 1]
           y == deflate[e].decompressed
           on == deflate[p].on
           reset == deflate[p].reset_compressor
           d == parsed[e]
           z == After(on, reset, m, y)
<1>0. p \in Ends
  BY EndAndPeer
<1>1. stage[e] = "open" /\ d # More
  BY DEF Receive
<1>2. /\ k + 1 \in 1..Len(sent[p]) /\ m \in Sendables /\ y <= 1000
      /\ Delivers(p, on, reset, sent[p], Lasts(p), k, buf[e], stream[e], deflate[p].compressed, y)
  BY <1>1, NextArrives
<1>3. on \in BOOLEAN /\ y \in Nat /\ k \in Nat /\ y <= k
  <2>1. y <= k
    BY DEF WsInv, Counts
  <2> QED BY <1>0, <2>1, TypedEnd DEF WsInv
<1>4. d = Decode(buf[e], p = Client)
  BY <1>1, OpenEnd
<1>5. /\ d.kind = "frame" /\ d.frame = FrameOf(on, m, y) /\ Rest(buf[e], d.consumed) \in Seq(Nat)
      /\ LinkOf(p, on, reset, sent[p], Lasts(p), k + 1, <<>>, Rest(buf[e], d.consumed) \o stream[e],
                deflate[p].compressed, z)
  BY <1>1, <1>2, <1>4 DEF Delivers
<1>6. sent[p] # <<>>
  <2>1. Len(<<>>) = 0
    OBVIOUS
  <2>2. Len(sent[p]) # 0
    <3> HIDE DEF p, k
    <3> QED BY <1>2, <1>3
  <2> QED BY <2>1, <2>2
<1>7. deflate[e].on = on /\ deflate[e].reset_decompressor = reset
  BY <1>1, <1>6, CodecsFit
<1>8. /\ Plain(e, d.frame).ok /\ Plain(e, d.frame).payload = m[2] /\ d.frame.opcode = m[1]
      /\ IsCompressed(d.frame) <=> Marked(on, m)
  <2>1. PICK o \in BOOLEAN, c \in Nat, w \in Sendables : o = on /\ c = y /\ w = m
    BY <1>2, <1>3
  <2>2. c <= 1000 /\ deflate[e].on = o /\ deflate[e].decompressed = c
    BY <1>2, <1>7, <2>1
  <2>3. LET f == FrameOf(o, w, c)
        IN  /\ Plain(e, f).ok /\ Plain(e, f).payload = w[2] /\ f.opcode = w[1]
            /\ IsCompressed(f) <=> Marked(o, w)
    BY <2>2, PlainGood
  <2> QED BY <1>5, <2>1, <2>3
<1>9. m = <<m[1], m[2]>>
  BY <1>2, Sent
<1>10. /\ got' = [got EXCEPT ![e] = Append(@, <<d.frame.opcode, Plain(e, d.frame).payload>>)]
       /\ stage' = stage /\ Consume(e)
       /\ deflate' = [deflate EXCEPT ![e].decompressed =
            IF IsCompressed(d.frame) /\ ~deflate[e].reset_decompressor THEN @ + 1 ELSE @]
       /\ UNCHANGED <<request, reply, stream, sent, bad>>
  BY <1>5, <1>8 DEF Receive
<1>11. Hands(e, m, d.consumed, z)
  <2>1. got' = [got EXCEPT ![e] = Append(@, m)]
    BY <1>8, <1>9, <1>10
  <2>2. buf' = [buf EXCEPT ![e] = Rest(buf[e], d.consumed)]
    BY <1>10 DEF Consume, Rest
  <2>3. parsed' = [parsed EXCEPT ![e] = Parse(e, "open", Rest(buf[e], d.consumed))]
    <3>1. buf'[e] = Rest(buf[e], d.consumed)
      BY <2>2 DEF WsInv, Typed
    <3> QED BY <1>1, <1>10, <3>1 DEF Consume
  <2>4. deflate' = [deflate EXCEPT ![e].decompressed = z]
    <3>1. (IF IsCompressed(d.frame) /\ ~deflate[e].reset_decompressor THEN y + 1 ELSE y) = z
      BY <1>7, <1>8 DEF After
    <3>2. deflate' = [deflate EXCEPT ![e].decompressed =
                        IF IsCompressed(d.frame) /\ ~deflate[e].reset_decompressor THEN y + 1 ELSE y]
      BY <1>10
    <3> HIDE DEF z
    <3> QED BY <3>1, <3>2
  <2> QED BY <1>1, <1>10, <2>1, <2>2, <2>3, <2>4 DEF Hands
<1>12. z \in Nat /\ z <= k + 1
  <2>1. z = y + 1 \/ z = y
    BY DEF After
  <2> HIDE DEF z, y, k
  <2> QED BY <1>3, <2>1
<1>13. IsNext(e, m, d.consumed, z)
  BY <1>2, <1>5, <1>12 DEF IsNext
<1> HIDE DEF m, d, z
<1> QED BY <1>11, <1>13, HandsInv

\* What is left when all has been handed out is no frame.
LEMMA ReceiveEnd ==
  ASSUME WsInv, NEW e \in Ends, Receive(e), Len(got[e]) = Len(sent[Peer(e)])
  PROVE  WsInv'
<1> DEFINE p == Peer(e)
           d == parsed[e]
<1>0. p \in Ends
  BY EndAndPeer
<1>1. stage[e] = "open" /\ d # More
  BY DEF Receive
<1>2. d = Decode(buf[e], p = Client) /\ buf[e] \o stream[e] \in Lasts(p)
  BY <1>1, OpenEnd, NothingArrives
<1>3. PICK b \in Seq(Nat), s \in Seq(Nat), q \in Ends : b = buf[e] /\ s = stream[e] /\ q = p
  BY <1>0, TypedEnd DEF WsInv
<1>4. b \o s \in Lasts(q) /\ d = Decode(b, q = Client)
  BY <1>2, <1>3
<1>5. bad[q]
  <2> SUFFICES ASSUME ~bad[q] PROVE FALSE
    OBVIOUS
  <2>1. b \o s = <<>>
    BY <1>4 DEF Lasts
  <2>2. Decode(b, q = Client) = More
    BY <2>1, NothingLeft
  <2> QED BY <1>1, <1>4, <2>2
<1>6. PICK f \in BadFrames[q] : b \o s = f
  BY <1>4, <1>5 DEF Lasts
<1>7. ~(d.kind = "frame" /\ Plain(e, d.frame).ok)
  <2> SUFFICES ASSUME d.kind = "frame" PROVE ~Plain(e, d.frame).ok
    OBVIOUS
  <2>1. PICK g : g = d.frame
    OBVIOUS
  <2>2. Decode(b, q = Client).kind = "frame"
    BY <1>4
  <2>3. LET h == Decode(b, q = Client).frame
        IN  h.rsv1 /\ ~IsControl(h.opcode) /\ (h.payload = <<>> \/ h.payload[1] < Compressed)
    BY <1>6, <2>2, BadArrives
  <2>4. g.rsv1 /\ ~IsControl(g.opcode) /\ (g.payload = <<>> \/ g.payload[1] < Compressed)
    BY <1>4, <2>1, <2>3
  <2>5. deflate[e].decompressed \in Nat
    BY TypedEnd DEF WsInv
  <2>6. ~Plain(e, g).ok
    BY <2>4, <2>5, PlainBad
  <2> QED BY <2>1, <2>6
<1>8. FailEnd(e)
  BY <1>7 DEF Receive
<1> QED BY <1>1, <1>3, <1>5, <1>8, FailInv

\* recv hands out the next message or fails.
LEMMA ReceiveInv ==
  ASSUME WsInv, NEW e \in Ends, Receive(e)
  PROVE  WsInv'
BY ReceiveNext, ReceiveEnd

-----------------------------------------------------------------------------
\* The invariant holds.
LEMMA NextInv == WsInv /\ [Next]_vars => WsInv'
<1>1. ASSUME WsInv, Accept PROVE WsInv'
  BY <1>1, AcceptInv
<1>2. ASSUME WsInv, Connect PROVE WsInv'
  BY <1>2, ConnectInv
<1>3. ASSUME WsInv, ConnectClosed PROVE WsInv'
  BY <1>3, ConnectClosedInv
<1>4. ASSUME WsInv, NEW e \in Ends, Fill(e) PROVE WsInv'
  BY <1>4, FillInv
<1>5. ASSUME WsInv, NEW e \in Ends, Receive(e) PROVE WsInv'
  BY <1>5, ReceiveInv
<1>6. ASSUME WsInv, NEW e \in Ends, SendBad(e) PROVE WsInv'
  BY <1>6, SendBadInv
<1>7. ASSUME WsInv, NEW e \in Ends, NEW m \in Messages, SendMessage(e, m[1], m[2]) PROVE WsInv'
  BY <1>7, SendMessageInv
<1> QED BY <1>1, <1>2, <1>3, <1>4, <1>5, <1>6, <1>7, UnchangedInv DEF Next

\* WsInv is an invariant of the opening and of the messages.
LEMMA Holds == Spec => []WsInv
BY InitInv, NextInv, PTL DEF Spec

-----------------------------------------------------------------------------
\* What WsInv says of a request that is being read.
LEMMA InvHead == WsInv => HeadIndependentOfReads
<1> SUFFICES ASSUME WsInv, stage[Server] = "opening", parsed[Server] # Incomplete
             PROVE  \/ parsed[Server] = Alone(request, FALSE)
                    \/ parsed[Server] = Malformed /\ (Folded(request) \/ Endless(request))
  BY DEF HeadIndependentOfReads
<1>1. PICK b \in Seq(Nat), r \in Seq(Nat), q \in BOOLEAN : b = buf[Server] /\ r = request /\ q = FALSE
  BY ServerReads
<1>2. HeadEnds(r) \subseteq {Len(r)} /\ Begins(b, r) /\ parsed[Server] = ParseHead(b, q)
  BY <1>1, ServerReads
<1>3. \/ ParseHead(b, q) = Alone(r, q)
      \/ ParseHead(b, q) = Malformed /\ (Folded(r) \/ Endless(r))
  BY <1>2, ReadsDecideNothing
<1> QED BY <1>1, <1>2, <1>3

\* WsInv implies the types.
LEMMA InvTypes == WsInv => TypeOK
<1> SUFFICES ASSUME WsInv PROVE TypeOK
  OBVIOUS
<1>1. Typed /\ ParsedIs /\ Counts /\ InOrder
  BY DEF WsInv
<1>2. MaxMsgs \in Nat /\ Len(sent[Client]) + Len(sent[Server]) <= MaxMsgs
  <2>1. MaxMsgs \in 0..1000
    BY WsOpeningAssumption
  <2>2. MaxMsgs \in Nat
    BY <2>1
  <2>3. Len(sent[Client]) + Len(sent[Server]) <= MaxMsgs
    BY <1>1 DEF Counts
  <2> QED BY <2>2, <2>3
<1>3. ASSUME NEW e \in Ends PROVE Len(sent[e]) <= MaxMsgs
  <2>1. PICK i \in Nat, j \in Nat, n \in Nat : i = Len(sent[Client]) /\ j = Len(sent[Server]) /\ n = MaxMsgs
    BY <1>1, <1>2, TypedEnd, TwoEnds
  <2>2. i + j <= n
    BY <1>2, <2>1
  <2>3. i <= n /\ j <= n
    BY <2>2
  <2> QED BY <2>1, <2>3, TwoEnds
<1>4. ASSUME NEW e \in Ends
      PROVE  deflate[e] \in [on : BOOLEAN, reset_compressor : BOOLEAN, reset_decompressor : BOOLEAN,
                             compressed : 0..MaxMsgs, decompressed : 0..MaxMsgs]
  <2>1. deflate[e] \in Codec
    BY <1>1, TypedEnd
  <2>2. deflate[e].compressed \in 0..MaxMsgs
    <3>1. deflate[e].compressed \in Nat /\ deflate[e].compressed <= Len(sent[e]) /\ Len(sent[e]) \in Nat
      BY <1>1, TypedEnd DEF Counts
    <3> QED BY <1>2, <1>3, <3>1
  <2>3. deflate[e].decompressed \in 0..MaxMsgs
    <3>1. Peer(e) \in Ends
      BY EndAndPeer
    <3>2. /\ deflate[e].decompressed \in Nat /\ Len(got[e]) \in Nat /\ Len(sent[Peer(e)]) \in Nat
          /\ deflate[e].decompressed <= Len(got[e]) /\ Len(got[e]) <= Len(sent[Peer(e)])
      BY <1>1, <3>1, TypedEnd DEF Counts, InOrder
    <3>3. Len(sent[Peer(e)]) <= MaxMsgs
      BY <1>3, <3>1
    <3> QED BY <1>2, <3>2, <3>3
  <2> QED BY <2>1, <2>2, <2>3 DEF Codec
<1>5. deflate \in [Ends -> [on : BOOLEAN, reset_compressor : BOOLEAN, reset_decompressor : BOOLEAN,
                            compressed : 0..MaxMsgs, decompressed : 0..MaxMsgs]]
  BY <1>1, <1>4 DEF Typed
<1>6. ASSUME NEW e \in Ends
      PROVE  /\ Len(sent[e]) <= MaxMsgs /\ bad[e] \in BOOLEAN
             /\ deflate[e].reset_compressor => deflate[e].compressed = 0
             /\ parsed[e].kind \in {"more", "error", IF stage[e] \in {"opening", "refused"} THEN "head" ELSE "frame"}
  BY <1>1, <1>3, TypedEnd DEF Counts, ParsedIs
<1>7. /\ stream \in [Ends -> Seq(Nat)] /\ buf \in [Ends -> Seq(Nat)]
      /\ stage \in [Ends -> {"opening", "open", "refused", "broken"}]
  BY <1>1 DEF Typed
<1> QED BY <1>5, <1>6, <1>7 DEF TypeOK

\* A prefix, message by message.
LEMMA PrefixIs ==
  ASSUME NEW A, NEW s \in Seq(A), NEW t \in Seq(A), Len(s) <= Len(t), \A i \in 1..Len(s) : s[i] = t[i]
  PROVE  IsPrefix(s, t)
<1>1. Len(s) \in 0..Len(t) /\ Len(s) \in 0..Len(s)
  OBVIOUS
<1>2. SubSeq(s, 1, Len(s)) = SubSeq(t, 1, Len(s))
  <2>1. PICK n \in Nat : n = Len(s)
    OBVIOUS
  <2>2. n <= Len(s) /\ n <= Len(t)
    BY <2>1
  <2>3. /\ SubSeq(s, 1, n) \in Seq(A) /\ Len(SubSeq(s, 1, n)) = n /\ \A i \in 1..n : SubSeq(s, 1, n)[i] = s[i]
        /\ SubSeq(t, 1, n) \in Seq(A) /\ Len(SubSeq(t, 1, n)) = n /\ \A i \in 1..n : SubSeq(t, 1, n)[i] = t[i]
    BY <2>2
  <2>4. PICK u \in Seq(A), v \in Seq(A) : u = SubSeq(s, 1, n) /\ v = SubSeq(t, 1, n)
    BY <2>3
  <2>5. Len(u) = Len(v) /\ \A i \in 1..Len(u) : u[i] = v[i]
    BY <2>1, <2>3, <2>4
  <2>6. u = v
    BY <2>5, SeqEqual
  <2> QED BY <2>1, <2>4, <2>6
<1> QED BY <1>2 DEF IsPrefix

\* What it says of messages.
LEMMA InvMessages == WsInv => MessagesIntact
<1> SUFFICES ASSUME WsInv PROVE MessagesIntact
  OBVIOUS
<1>1. TypeOK
  BY InvTypes
<1>2. ASSUME NEW e \in Ends PROVE IsPrefix(got[e], sent[Peer(e)]) /\ (stage[e] = "broken" => bad[Peer(e)])
  <2>1. /\ Len(got[e]) <= Len(sent[Peer(e)]) /\ \A i \in 1..Len(got[e]) : got[e][i] = sent[Peer(e)][i]
        /\ stage[e] = "broken" => bad[Peer(e)]
    BY DEF WsInv, InOrder
  <2>2. PICK s \in Seq(Sendables), t \in Seq(Sendables) : s = got[e] /\ t = sent[Peer(e)]
    BY TypedEnd, EndAndPeer DEF WsInv
  <2>3. Len(s) <= Len(t) /\ \A i \in 1..Len(s) : s[i] = t[i]
    BY <2>1, <2>2
  <2>4. IsPrefix(s, t)
    BY <2>3, PrefixIs
  <2> QED BY <2>1, <2>2, <2>4
<1> QED BY <1>1, <1>2 DEF MessagesIntact

\* What it says of an end that waits.
LEMMA InvWaits == WsInv => NobodyWaitsForArrived
<1> SUFFICES ASSUME WsInv PROVE OpeningEnds /\ AllDelivered
  BY DEF NobodyWaitsForArrived
<1>1. ASSUME stage[Server] = "opening", Waiting(Server) PROVE HeadEnds(request) = {}
  <2> SUFFICES ASSUME HeadEnds(request) # {} PROVE FALSE
    OBVIOUS
  <2>1. PICK r \in Seq(Nat), q \in BOOLEAN : r = request /\ q = FALSE
    BY <1>1, ServerReads
  <2>2. buf[Server] = r /\ HeadEnds(r) = {Len(r)} /\ ParseHead(r, q) = Incomplete
    BY <1>1, <2>1, ServerReads DEF Waiting, Wanting
  <2>3. PICK w \in Seq(Nat) : w = <<>>
    <3>1. <<>> \in Seq(Nat)
      OBVIOUS
    <3> QED BY <3>1
  <2>4. r \o w = r
    BY <2>3
  <2>5. Begins(r, r \o w)
    <3>1. Len(r) <= Len(r) /\ \A i \in 1..Len(r) : r[i] = r[i]
      OBVIOUS
    <3> QED BY <2>4, <3>1 DEF Begins
  <2>6. Len(r) <= Len(r)
    OBVIOUS
  <2> QED BY <2>2, <2>5, <2>6, AnswerArrives
<1>2. ASSUME stage[Client] = "opening", Waiting(Client), stage[Server] = "open" PROVE FALSE
  <2>1. Opened(Server) /\ parsed[Client] = Incomplete /\ stream[Client] = <<>>
    BY <1>2 DEF Opened, Waiting, Wanting
  <2>2. Len(buf[Client]) < Len(Answer) /\ Answer \in Seq(Nat) /\ buf[Client] \in Seq(Nat)
    BY <1>2, <2>1, ClientReads
  <2>3. PICK w \in Seq(Nat) : buf[Client] \o stream[Client] = Answer \o w
    BY <1>2, <2>1, ClientReads
  <2>4. PICK b \in Seq(Nat), a \in Seq(Nat) : b = buf[Client] /\ a = Answer
    BY <2>2
  <2>5. b \o <<>> = b
    OBVIOUS
  <2>6. b = a \o w
    BY <2>1, <2>3, <2>4, <2>5
  <2>7. Len(a \o w) = Len(a) + Len(w) /\ Len(a) \in Nat /\ Len(w) \in Nat
    BY ConcatElements
  <2>8. Len(b) < Len(a)
    BY <2>2, <2>4
  <2>9. Len(b) = Len(a) + Len(w)
    BY <2>6, <2>7
  <2> QED BY <2>7, <2>8, <2>9
<1>3. ASSUME NEW e \in Ends, stage[e] = "open", Waiting(e), Len(got[e]) # Len(sent[Peer(e)]) PROVE FALSE
  <2>1. parsed[e] = Incomplete /\ stream[e] = <<>> /\ parsed[e] = Decode(buf[e], Peer(e) = Client)
    BY <1>3, OpenEnd DEF Waiting, Wanting
  <2>2. PICK d : d = Decode(buf[e], Peer(e) = Client)
    OBVIOUS
  <2>3. stream[e] # <<>> \/ d.kind = "frame"
    BY <1>3, <2>2, NextArrives DEF Delivers
  <2> QED BY <2>1, <2>2, <2>3, MoreIs
<1> QED BY <1>1, <1>2, <1>3 DEF OpeningEnds, AllDelivered

-----------------------------------------------------------------------------
\* The reads that a request arrives in do not decide what read_request_head and
\* accept make of it.
THEOREM WsReadsDoNotDecide == Spec => []HeadIndependentOfReads
BY Holds, InvHead, PTL

\* accept and connect open a connection with each other, down to the bytes of
\* their heads and the extensions that they negotiate.
THEOREM WsOpens == Spec => []OwnHandshakeOpens
<1>1. WsInv => OwnHandshakeOpens
  BY DEF WsInv
<1> QED BY <1>1, Holds, PTL

\* send and recv: what recv_message hands out is a prefix of what the peer's
\* send_message was given, and only a peer that breaks the protocol breaks a
\* connection.
THEOREM WsMessagesIntact == Spec => []MessagesIntact
BY Holds, InvMessages, PTL

\* accept, connect and recv wait for bytes only when those that make the head or
\* the frame whole have not arrived.
THEOREM WsNobodyWaits == Spec => []NobodyWaitsForArrived
BY Holds, InvWaits, PTL
=============================================================================
