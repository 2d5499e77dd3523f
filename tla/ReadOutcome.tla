---------------------------- MODULE ReadOutcome -----------------------------
(***************************************************************************)
(* What one pass of HttpData::handleRead, up to the end of its do block,   *)
(* can make of the fields of a connection c that the reactor depends on,   *)
(* with k at its socket: connectionState, error, finish (state_ is         *)
(* STATE_FINISH), more (inBuffer_ holds bytes beyond the request just      *)
(* finished) and out (outBuffer_ is not empty).  Reactor uses it in place  *)
(* of the parser; HttpParser has the parser and is checked against it.     *)
(***************************************************************************)

(* The parser wants more bytes, rejects the request, or finishes it, with   *)
(* an answer in outBuffer_ or (POST) without one.                           *)
Finished(c, m, o) == [c EXCEPT !.finish = TRUE, !.more = m, !.out = o]

ParseAgain(c)  == {c}
ParseBad(c)    == {[c EXCEPT !.error = TRUE]}
ParseFinish(c) == {Finished(c, p[1], p[2]) : p \in BOOLEAN \X {c.out, TRUE}}

ReadOutcomes(c, k) ==
  LET c1 == [c EXCEPT !.more = FALSE]
      c2 == [c1 EXCEPT !.connectionState = IF k.fin THEN "DISCONNECTING" ELSE @]
  IN  IF c.connectionState = "DISCONNECTING" THEN {c1}
      ELSE IF k.rst THEN {[c1 EXCEPT !.error = TRUE]}
      ELSE IF k.fin /\ ~k.inq THEN {c2}
      ELSE ParseAgain(c2) \cup ParseBad(c2) \cup ParseFinish(c2)
=============================================================================
