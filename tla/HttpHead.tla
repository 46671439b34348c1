------------------------------ MODULE HttpHead ------------------------------
(***************************************************************************)
(* Parsing of HTTP/1.1 heads (tpt-net-http/src/parse.rs) over a buffer     *)
(* that may end anywhere, also inside a line or after the head.            *)
(*                                                                         *)
(* Bytes are integers.  A number from Token up stands for a whole word     *)
(* that the parser compares as one: a method, a header name, a status.     *)
(* Names are compared without case, so a word is its lower-case form.      *)
(***************************************************************************)
EXTENDS Integers, FiniteSets, SequencesExt

CONSTANT MaxHead   \* MAX_HEAD, 64 KiB in the code

ASSUME HttpHeadAssumption == MaxHead \in Nat

HT == 9
LF == 10
CR == 13
SP == 32
COMMA == 44
SLASH == 47
COLON == 58
Token  == 1000
HTTP10 == Token
HTTP11 == Token + 1
Status == 2000      \* Status + 101 is the three digits of 101

CRLF        == <<CR, LF>>
HeaderDelim == CRLF \o CRLF

Incomplete == [kind |-> "more"]
Malformed  == [kind |-> "error"]

-----------------------------------------------------------------------------
\* memchr_find and the windows() searches: where needle occurs.
Occurrences(buf, needle) ==
  {i \in 1..(Len(buf) - Len(needle) + 1) : SubSeq(buf, i, i + Len(needle) - 1) = needle}

TrimOws(value) ==
  LET text == {i \in DOMAIN value : value[i] \notin {SP, HT}}
  IN  IF text = {} THEN <<>> ELSE SubSeq(value, Min(text), Max(text))

\* The part of the buffer that is certainly header lines: the head, or what
\* precedes the last line end while the head is incomplete.
Scanned(buf) ==
  LET ends  == Occurrences(buf, HeaderDelim)
      lines == Occurrences(buf, CRLF)
  IN  IF ends # {} THEN SubSeq(buf, 1, Min(ends) - 1)
      ELSE IF lines # {} THEN SubSeq(buf, 1, Max(lines) - 1)
      ELSE <<>>

Folded(scanned) == Occurrences(scanned, <<LF, SP>>) \cup Occurrences(scanned, <<LF, HT>>) # {}

\* Mutant: what follows the head is scanned for folding too.
FindHeadEndAll(buf) ==
  IF Len(buf) > MaxHead \/ Folded(buf) THEN Malformed
  ELSE IF Occurrences(buf, HeaderDelim) = {} THEN Incomplete
  ELSE [kind |-> "end", at |-> Min(Occurrences(buf, HeaderDelim)) - 1]

\* Mutant: the limit is on what is still incomplete only.
FindHeadEndLateLimit(buf) ==
  IF Folded(Scanned(buf)) THEN Malformed
  ELSE IF Occurrences(buf, HeaderDelim) # {}
  THEN [kind |-> "end", at |-> Min(Occurrences(buf, HeaderDelim)) - 1]
  ELSE IF Len(buf) > MaxHead THEN Malformed ELSE Incomplete

\* The limit is on the buffer, whatever of it is head.
FindHeadEnd(buf) ==
  IF Len(buf) > MaxHead \/ Folded(Scanned(buf)) THEN Malformed
  ELSE IF Occurrences(buf, HeaderDelim) = {} THEN Incomplete
  ELSE [kind |-> "end", at |-> Min(Occurrences(buf, HeaderDelim)) - 1]

\* The lines of a head, by where they start; the one at 1 is the request or
\* status line.
LineStarts(head) == {1} \cup {i + 2 : i \in Occurrences(head, CRLF)}
Line(head, start) ==
  SubSeq(head, start, Min({i \in Occurrences(head, CRLF) : i >= start} \cup {Len(head) + 1}) - 1)

HasColon(line) == Occurrences(line, <<COLON>>) # {}

HeaderRanges(line) ==
  LET colon == Min(Occurrences(line, <<COLON>>))
  IN  [name |-> SubSeq(line, 1, colon - 1),
       value |-> TrimOws(SubSeq(line, colon + 1, Len(line)))]

\* collect_header_ranges: empty lines are skipped.
FieldLines(head) ==
  [start \in {s \in LineStarts(head) \ {1} : Line(head, s) # <<>>} |-> Line(head, start)]

IsTchar(b) == b > HTTP11

\* method SP target SP version
IsRequestLine(line) ==
  LET spaces == Occurrences(line, <<SP>>)
      sp1 == Min(spaces)
      sp2 == Min(spaces \ {sp1})
  IN  /\ Cardinality(spaces) >= 2
      /\ sp1 > 1 /\ \A i \in 1..(sp1 - 1) : IsTchar(line[i])
      /\ sp2 > sp1 + 1
      /\ SubSeq(line, sp2 + 1, Len(line)) \in {<<HTTP11>>, <<HTTP10>>}

RequestMethod(line) == SubSeq(line, 1, Min(Occurrences(line, <<SP>>)) - 1)

\* version SP code SP reason
IsStatusLine(line) ==
  /\ Len(line) >= 3
  /\ line[1] \in {HTTP11, HTTP10} /\ line[2] = SP
  /\ line[3] - Status \in 100..599

Headers(fields) == [start \in DOMAIN fields |-> HeaderRanges(fields[start])]

\* parse_request_ranges and parse_response_ranges differ in the first line.
ParseLines(head, isResponse) ==
  LET first  == Line(head, 1)
      fields == FieldLines(head)
  IN  IF /\ IF isResponse THEN IsStatusLine(first) ELSE IsRequestLine(first)
         /\ \A start \in DOMAIN fields : HasColon(fields[start])
      THEN [kind |-> "head", first |-> first, headers |-> Headers(fields),
            consumed |-> Len(head) + Len(HeaderDelim)]
      ELSE Malformed

ParseHead(buf, isResponse) ==
  LET end == FindHeadEnd(buf)
  IN  IF end.kind = "end" THEN ParseLines(SubSeq(buf, 1, end.at), isResponse) ELSE end

\* HeaderBlock::get: the first header of that name; an absent one reads as
\* empty, which every caller treats alike.
Get(headers, name) ==
  LET named == {i \in DOMAIN headers : headers[i].name = <<name>>}
  IN  IF named = {} THEN <<>> ELSE headers[Min(named)].value
=============================================================================
