------------------------------ MODULE MCHttp ------------------------------
(***************************************************************************)
(* Instances of Http for TLC.                                              *)
(***************************************************************************)
EXTENDS Http, TLC

CONSTANTS A, B, t1, t2

Get(a)  == [method |-> "GET", authority |-> a, len |-> 0, connection |-> "none"]
Post(a) == [method |-> "POST", authority |-> a, len |-> 1, connection |-> "none"]

MCRequests == t1 :> {Post(A)} @@ t2 :> {[Get(A) EXCEPT !.connection = "close"]}

Answer(status, len) ==
  [status |-> status, len |-> len, location |-> None, connection |-> "none"]
MCResponses == {Answer(200, 0), Answer(200, 1), [Answer(302, 1) EXCEPT !.location = B],
                [Answer(302, 1) EXCEPT !.location = Relative]}

Sent(te, cl, len) ==
  [version |-> 11, connection |-> "none", te |-> te, cl |-> cl, len |-> len, wellformed |-> TRUE]
MCForeignRequests ==
  {Sent("none", 2, 2), Sent("chunked", None, 1), Sent("none", None, 0),
   Sent("chunked", 1, 1), Sent("gzip", None, 0), Sent("none", Invalid, 0),
   [Sent("none", 1, 1) EXCEPT !.version = 10],
   [Sent("none", 0, 0) EXCEPT !.wellformed = FALSE]}

MCForeignResponses ==
  LET r == [status |-> 200, len |-> 1, te |-> "none", cl |-> 1, location |-> None,
            connection |-> "none", closes |-> FALSE]
  IN  {[r EXCEPT !.len = 2, !.cl = 2], [r EXCEPT !.te = "chunked", !.cl = None, !.connection = "close"],
       [r EXCEPT !.cl = None, !.closes = TRUE],
       [r EXCEPT !.status = 302, !.location = A]}
=============================================================================
