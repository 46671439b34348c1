---------------------------- MODULE HttpFraming ----------------------------
(***************************************************************************)
(* What the two ends of an HTTP/1.1 connection decide from a head: where a *)
(* head ends, how its body is framed (body.rs), whether the connection     *)
(* stays open (server.rs, client.rs).  A message on the wire is a sequence *)
(* of units: "start" and "head" are a head in two pieces, the second with  *)
(* the blank line; "size" is a chunk-size line, "crlf" a bare line end and *)
(* "data" the body bytes of one read.  A head carries its message, the     *)
(* other units the identity of theirs.                                     *)
(***************************************************************************)
EXTENDS Naturals, Sequences, SequencesExt

\* The header fields the code looks at.  cl is the Content-Length, te the
\* Transfer-Encoding, None where the header is missing, Invalid where it does
\* not parse.
None     == 1000
Invalid  == 1001
Relative == 1002   \* a Location without an authority

Unit(kind, msg, n) == [kind |-> kind, msg |-> msg, n |-> n]

HeadUnits(msg) == <<Unit("start", msg.id, 0), Unit("head", msg, 0)>>
DataUnits(id, len) == [i \in 1..len |-> Unit("data", id, i)]

\* A chunked body: one chunk per data unit, the last chunk, one trailer line.
ChunkedUnits(id, len) ==
  [i \in 1..(3 * len) |-> CASE i % 3 = 1 -> Unit("size", id, 1)
                            [] i % 3 = 2 -> Unit("data", id, (i + 1) \div 3)
                            [] OTHER     -> Unit("crlf", id, 0)]
    \o <<Unit("size", id, 0), Unit("size", id, 9), Unit("crlf", id, 0)>>

BodyUnits(msg, len) ==
  IF msg.te = "chunked" THEN ChunkedUnits(msg.id, len) ELSE DataUnits(msg.id, len)
MessageUnits(msg, len) == HeadUnits(msg) \o BodyUnits(msg, len)

\* Position of the first unit that satisfies Test, 0 if there is none.
FirstUnit(units, Test(_)) == SelectInSeq(units, Test)

\* parse_request_ranges and parse_response_ranges: no blank line in the buffer
\* asks for more bytes; whatever precedes the blank line must be one head.
ParseHead(units) ==
  LET end == FirstUnit(units, LAMBDA u : u.kind = "head")
  IN  IF end = 0 THEN "more"
      ELSE IF end = 2 /\ units[1].kind = "start" /\ units[2].msg.wellformed
           THEN "head"
           ELSE "malformed"

\* read_line: a line is there once a unit with a CRLF is.
LineEnd(units) ==
  FirstUnit(units, LAMBDA u : u.kind \in {"size", "crlf", "start", "head"})

ContentLengthKind(msg) ==
  CASE msg.cl = None    -> [kind |-> "empty", left |-> 0]
    [] msg.cl = Invalid -> [kind |-> "error", left |-> 0]
    [] OTHER            -> [kind |-> "length", left |-> msg.cl]

TransferEncodingKind(msg) ==
  [kind |-> IF msg.te = "chunked" THEN "chunked" ELSE "error", left |-> 0]

\* Mutant: with both headers, Content-Length wins.
RequestBodyKindPrefersLength(msg) ==
  IF msg.te # "none" /\ msg.cl = None THEN TransferEncodingKind(msg) ELSE ContentLengthKind(msg)

\* A request with both headers is refused.
RequestBodyKind(msg) ==
  IF msg.te = "none" THEN ContentLengthKind(msg)
  ELSE IF msg.cl # None THEN [kind |-> "error", left |-> 0]
  ELSE TransferEncodingKind(msg)

\* Neither header: the body of a response ends with the connection.
Bodyless == {204, 304} \cup (100..199)
ResponseBodyKind(msg, isHead) ==
  IF msg.status \in Bodyless \/ isHead
  THEN [kind |-> "empty", left |-> 0]
  ELSE IF msg.te # "none" THEN TransferEncodingKind(msg)
  ELSE IF ContentLengthKind(msg).kind = "empty" THEN [kind |-> "eof", left |-> 0]
  ELSE ContentLengthKind(msg)

\* keep_alive_requested: the default depends on the version.
KeepAliveRequested(msg) ==
  IF msg.version = 11 THEN msg.connection # "close" ELSE msg.connection = "keep-alive"

\* keep_alive_from: the client looks at the response header only.
KeepAliveFrom(msg) == msg.connection # "close"

\* resolve_redirect, of which the connection depends on the authority only.
ResolveRedirect(authority, location) == IF location = Relative THEN authority ELSE location

\* The sender puts as many bytes behind a head as the receiver expects there.
Fits(kind, msg, len) ==
  /\ kind.kind = "empty" => len = 0 /\ msg.te # "chunked"
  /\ kind.kind = "length" => kind.left = len

IsRedirect(msg) == msg.status \in 300..399 /\ msg.status # 304
=============================================================================
