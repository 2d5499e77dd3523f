-------------------------- MODULE HttpParserProofs --------------------------
(***************************************************************************)
(* Three results about every stream, however long it is and wherever the   *)
(* reads cut it.  ReadOutcomes, by which Reactor and SocketIO stand in for *)
(* the parser, is a complete account of it; the answers are to the         *)
(* client's requests, in their order; and while the reads end only where   *)
(* they do no harm, each plain request is answered and none is rejected.   *)
(***************************************************************************)
EXTENDS HttpParser, SequenceTheorems, FiniteSetTheorems, WellFoundedInduction, TLAPS

Fields == {"buf", "state", "hState", "method", "file", "headers", "out", "sent", "conn", "error"}

IsSequence(s) == \E S : s \in Seq(S)

(* An HttpData whose output is a sequence of answers. *)
HasFields(c) == DOMAIN c = Fields /\ IsSequence(c.out)

(* Between two passes the parser waits for a line, headers or a body.       *)
AtRest(c) == /\ HasFields(c)
             /\ c.state \in {"URI", "HEADERS", "BODY"}
             /\ c.conn \in {"CONNECTED", "DISCONNECTING"}

RestInv == http.error \in BOOLEAN /\ (~http.error => AtRest(http))

(* Appending an answer leaves a sequence of answers. *)
LEMMA AppendNotEmpty ==
  ASSUME NEW s, IsSequence(s), NEW e
  PROVE  Append(s, e) # <<>> /\ IsSequence(Append(s, e))
<1>1. PICK S : s \in Seq(S)
  BY DEF IsSequence
<1> DEFINE T == S \cup {e}
<1>2. s \in Seq(T) /\ e \in T
  BY <1>1, SeqMonotonic
<1> HIDE DEF T
<1>3. Append(s, e) \in Seq(T) /\ Append(s, e) # <<>>
  BY <1>2, AppendProperties
<1> QED BY <1>3 DEF IsSequence

(* The text of a read is empty when its length is. *)
LEMMA TextEmpty ==
  ASSUME NEW s, NEW n \in Nat
  PROVE  SubSeq(s, 1, n) = <<>> <=> n = 0
<1> DEFINE S == {s[i] : i \in 1..n}
<1>1. \A i \in 1..n : s[i] \in S
  OBVIOUS
<1> HIDE DEF S
<1>2. SubSeq(s, 1, n) \in Seq(S) /\ Len(SubSeq(s, 1, n)) = (IF 1 <= n THEN n - 1 + 1 ELSE 0)
  BY <1>1, SubSeqProperties
<1>3. SubSeq(s, 1, n) = <<>> <=> Len(SubSeq(s, 1, n)) = 0
  BY <1>2, EmptySeq
<1> QED BY <1>2, <1>3

-----------------------------------------------------------------------------
(* What a stage of the parser makes of c: d, on the same connection.  An    *)
(* error stays, and no stage but the last touches the output.               *)

Keeps(c, d) == /\ HasFields(d) /\ d.conn = c.conn
               /\ d.error \in {c.error, TRUE}
               /\ d.out = c.out

(* handleError says that the connection has failed, and nothing else. *)
LEMMA HandleErrorKeeps ==
  ASSUME NEW c, HasFields(c), NEW answer
  PROVE  /\ Keeps(c, HandleError(c, answer)) /\ HandleError(c, answer).error = TRUE
         /\ HandleError(c, answer).state = c.state
BY DEF HandleError, HasFields, Fields, Keeps

(* What each stage keeps, and the states it can leave the parser in. *)
LEMMA ParseURIKeeps ==
  ASSUME NEW c, HasFields(c), c.state = "URI"
  PROVE  LET d == ParseURI(c) IN
         Keeps(c, d) /\ (d.state = "HEADERS" \/ (d.state = "URI" /\ d.error = TRUE))
<1> DEFINE e == [c EXCEPT !.buf = <<>>]
<1>1. HasFields(e) /\ e.state = "URI" /\ e.conn = c.conn /\ e.error = c.error /\ e.out = c.out
  BY DEF HasFields, Fields
<1> HIDE DEF e
<1>2. /\ Keeps(c, HandleError(e, BadRequest)) /\ HandleError(e, BadRequest).error = TRUE
      /\ HandleError(e, BadRequest).state = "URI"
  BY <1>1, HandleErrorKeeps DEF Keeps
<1>3. \/ ParseURI(c) = HandleError(e, BadRequest)
      \/ \E r, m, file : ParseURI(c) = [c EXCEPT !.state = "HEADERS", !.buf = r, !.method = m,
                                                 !.file = file]
  BY Zenon DEF ParseURI, e
<1>4. CASE ParseURI(c) = HandleError(e, BadRequest)
  BY <1>2, <1>4
<1>5. CASE \E r, m, file : ParseURI(c) = [c EXCEPT !.state = "HEADERS", !.buf = r, !.method = m,
                                                  !.file = file]
  <2>1. PICK r, m, file :
          ParseURI(c) = [c EXCEPT !.state = "HEADERS", !.buf = r, !.method = m, !.file = file]
    BY <1>5
  <2> DEFINE d == [c EXCEPT !.state = "HEADERS", !.buf = r, !.method = m, !.file = file]
  <2>2. Keeps(c, d) /\ d.state = "HEADERS"
    BY DEF HasFields, Fields, Keeps
  <2> HIDE DEF d
  <2>3. ParseURI(c) = d
    BY <2>1 DEF d
  <2> QED BY <2>2, <2>3
<1> QED BY <1>3, <1>4, <1>5

(* The headers lead to the body or the analysis, or are still cut off. *)
LEMMA ParseHeadersKeeps ==
  ASSUME NEW c, HasFields(c), c.state = "HEADERS"
  PROVE  LET d == ParseHeaders(c) IN
         Keeps(c, d) /\ (\/ d.state \in {"HEADERS", "BODY", "ANALYSIS"} /\ d.error = c.error
                         \/ d.state = "HEADERS" /\ d.error = TRUE)
<1> DEFINE e(p) == [c EXCEPT !.hState = p.hState, !.headers = p.headers]
<1>1. \A p : /\ HasFields(e(p)) /\ e(p).state = "HEADERS" /\ e(p).conn = c.conn
             /\ e(p).error = c.error /\ e(p).out = c.out
  BY DEF HasFields, Fields
<1> DEFINE f == e(Scanned(c))
<1>2. /\ HasFields(f) /\ f.state = "HEADERS" /\ f.conn = c.conn
      /\ f.error = c.error /\ f.out = c.out
  BY <1>1
<1>3. \/ ParseHeaders(c) = HandleError(f, BadRequest)
      \/ \E b : \E s \in {"BODY", "ANALYSIS"} :
           ParseHeaders(c) = [f EXCEPT !.state = s, !.buf = b]
      \/ \E b : ParseHeaders(c) = [f EXCEPT !.buf = b]
  BY DEF ParseHeaders, e
<1> HIDE DEF f
<1>4. CASE ParseHeaders(c) = HandleError(f, BadRequest)
  <2>1. /\ Keeps(f, HandleError(f, BadRequest)) /\ HandleError(f, BadRequest).error = TRUE
        /\ HandleError(f, BadRequest).state = "HEADERS"
    BY <1>2, HandleErrorKeeps
  <2> QED BY <1>2, <1>4, <2>1 DEF Keeps
<1>5. ASSUME NEW b, NEW s \in {"BODY", "ANALYSIS"},
             ParseHeaders(c) = [f EXCEPT !.state = s, !.buf = b]
      PROVE  Keeps(c, ParseHeaders(c)) /\ ParseHeaders(c).state = s /\ ParseHeaders(c).error = c.error
  BY <1>2, <1>5 DEF HasFields, Fields, Keeps
<1>6. ASSUME NEW b, ParseHeaders(c) = [f EXCEPT !.buf = b]
      PROVE  /\ Keeps(c, ParseHeaders(c)) /\ ParseHeaders(c).state = "HEADERS"
             /\ ParseHeaders(c).error = c.error
  BY <1>2, <1>6 DEF HasFields, Fields, Keeps
<1> QED BY <1>3, <1>4, <1>5, <1>6

(* The body leads to the analysis, or is still cut off. *)
LEMMA ReceiveBodyKeeps ==
  ASSUME NEW c, HasFields(c), c.state = "BODY"
  PROVE  LET d == ReceiveBody(c) IN
         Keeps(c, d) /\ (\/ d.state \in {"BODY", "ANALYSIS"} /\ d.error = c.error
                         \/ d.state = "BODY" /\ d.error = TRUE)
<1>1. LET d == [c EXCEPT !.state = "ANALYSIS"]
      IN  Keeps(c, d) /\ d.state = "ANALYSIS" /\ d.error = c.error
  BY DEF HasFields, Fields, Keeps
<1>2. Keeps(c, c)
  BY DEF Keeps
<1> QED BY <1>1, <1>2, HandleErrorKeeps DEF ReceiveBody

(* The last stage finishes the request or fails. *)
LEMMA AnalysisOutcome ==
  ASSUME NEW c, HasFields(c), NEW d \in AnalysisRequest(c)
  PROVE  /\ HasFields(d) /\ d.conn = c.conn
         /\ \/ d.error = TRUE
            \/ d.error = c.error /\ d.state = "FINISH" /\ (d.out = c.out \/ d.out # <<>>)
<1> DEFINE answer == <<c.method, c.file>>
           success == [c EXCEPT !.state = "FINISH"]
           empty == [c EXCEPT !.out = <<>>]
<1>1. /\ HasFields(success) /\ success.conn = c.conn /\ success.error = c.error
      /\ success.state = "FINISH" /\ success.out = c.out
  BY DEF HasFields, Fields
<1>2. HasFields(empty) /\ empty.conn = c.conn
  <2>1. IsSequence(<<>>)
    BY EmptySeq DEF IsSequence
  <2> QED BY <2>1 DEF HasFields, Fields
<1>3. \A x : /\ Append(success.out, x) # <<>> /\ IsSequence(Append(success.out, x))
             /\ <<x>> # <<>> /\ IsSequence(<<x>>)
  <2>1. ASSUME NEW x
        PROVE  /\ Append(success.out, x) # <<>> /\ IsSequence(Append(success.out, x))
               /\ <<x>> # <<>> /\ IsSequence(<<x>>)
    <3>1. <<x>> \in Seq({x}) /\ <<x>> # <<>>
      OBVIOUS
    <3>2. IsSequence(success.out)
      BY <1>1 DEF HasFields
    <3> HIDE DEF success
    <3> QED BY <3>1, <3>2, AppendNotEmpty DEF IsSequence
  <2> QED BY <2>1
<1>4. d \in {success, [success EXCEPT !.out = <<answer>>],
             [success EXCEPT !.out = Append(@, answer)],
             HandleError(c, NotFound), HandleError(empty, NotFound)}
  BY DEF AnalysisRequest
<1> HIDE DEF success, empty, answer
<1>5. \A x : IsSequence(x) =>
        LET e == [success EXCEPT !.out = x]
        IN  /\ HasFields(e) /\ e.conn = c.conn /\ e.error = c.error
            /\ e.state = "FINISH" /\ e.out = x
  BY <1>1 DEF HasFields, Fields
<1>6. \A e : HasFields(e) /\ e.conn = c.conn =>
        /\ HasFields(HandleError(e, NotFound)) /\ HandleError(e, NotFound).conn = c.conn
        /\ HandleError(e, NotFound).error = TRUE
  BY HandleErrorKeeps DEF Keeps
<1>7. CASE d = success
  BY <1>1, <1>7
<1>8. CASE d = [success EXCEPT !.out = <<answer>>]
  <2>1. IsSequence(<<answer>>) /\ <<answer>> # <<>>
    BY <1>3
  <2> QED BY <1>5, <1>8, <2>1
<1>10. CASE d = [success EXCEPT !.out = Append(@, answer)]
  <2>1. IsSequence(Append(success.out, answer)) /\ Append(success.out, answer) # <<>>
    BY <1>3
  <2>2. d = [success EXCEPT !.out = Append(success.out, answer)]
    BY <1>10
  <2> QED BY <1>5, <2>1, <2>2
<1>9. CASE d = HandleError(c, NotFound) \/ d = HandleError(empty, NotFound)
  BY <1>2, <1>6, <1>9
<1> QED BY <1>4, <1>7, <1>8, <1>9, <1>10

(* The parser as a whole. *)
LEMMA ParseOutcome ==
  ASSUME NEW c, HasFields(c), c.state \in {"URI", "HEADERS", "BODY"}, NEW d \in Parse(c)
  PROVE  /\ HasFields(d) /\ d.conn = c.conn
         /\ \/ d.error = TRUE
            \/ /\ d.error = c.error
               /\ \/ d.state \in {"URI", "HEADERS", "BODY"} /\ d.out = c.out
                  \/ d.state = "FINISH" /\ (d.out = c.out \/ d.out # <<>>)
<1> DEFINE line    == IF c.state = "URI" THEN ParseURI(c) ELSE c
           headers == IF line.state = "HEADERS" THEN ParseHeaders(line) ELSE line
           body    == IF headers.state = "BODY" THEN ReceiveBody(headers) ELSE headers
           Good(x, states) == Keeps(c, x) /\ (\/ x.state \in states /\ x.error = c.error
                                              \/ x.error = TRUE)
<1>1. d \in IF body.state = "ANALYSIS" THEN AnalysisRequest(body) ELSE {body}
  BY Zenon DEF Parse
<1>2. Good(line, {"HEADERS", "BODY"})
  <2>1. CASE c.state = "URI"
    BY <2>1, ParseURIKeeps DEF Keeps
  <2>2. CASE c.state # "URI"
    BY <2>2 DEF Keeps
  <2> QED BY <2>1, <2>2
<1> HIDE DEF line
<1>3. Good(headers, {"HEADERS", "BODY", "ANALYSIS"})
  <2>1. CASE line.state = "HEADERS"
    <3> DEFINE p == ParseHeaders(line)
    <3>1. Keeps(line, p) /\ (\/ p.state \in {"HEADERS", "BODY", "ANALYSIS"} /\ p.error = line.error
                             \/ p.state = "HEADERS" /\ p.error = TRUE)
      BY <1>2, <2>1, ParseHeadersKeeps DEF Keeps
    <3> HIDE DEF p
    <3>2. Good(p, {"HEADERS", "BODY", "ANALYSIS"})
      BY <1>2, <3>1 DEF Keeps
    <3> QED BY <2>1, <3>2 DEF p
  <2>2. CASE line.state # "HEADERS"
    BY <1>2, <2>2
  <2> QED BY <2>1, <2>2
<1> HIDE DEF headers
<1>4. Good(body, {"HEADERS", "BODY", "ANALYSIS"})
  <2>1. CASE headers.state = "BODY"
    <3> DEFINE p == ReceiveBody(headers)
    <3>1. Keeps(headers, p) /\ (\/ p.state \in {"BODY", "ANALYSIS"} /\ p.error = headers.error
                                \/ p.state = "BODY" /\ p.error = TRUE)
      BY <1>3, <2>1, ReceiveBodyKeeps DEF Keeps
    <3> HIDE DEF p
    <3>2. Good(p, {"HEADERS", "BODY", "ANALYSIS"})
      BY <1>3, <3>1 DEF Keeps
    <3> QED BY <2>1, <3>2 DEF p
  <2>2. CASE headers.state # "BODY"
    BY <1>3, <2>2
  <2> QED BY <2>1, <2>2
<1> HIDE DEF body
<1>5. CASE body.state = "ANALYSIS"
  BY <1>1, <1>4, <1>5, AnalysisOutcome DEF Keeps
<1>6. CASE body.state # "ANALYSIS"
  BY <1>1, <1>4, <1>6 DEF Keeps
<1> QED BY <1>5, <1>6

-----------------------------------------------------------------------------
(* A whole read, and what Reactor says of it.                               *)

Ends == {"EAGAIN", "eof", "error"}

Socket(text, end) == [inq |-> text # <<>>, fin |-> end = "eof", rst |-> end = "error"]

(* Reactor's view of a connection without an error. *)
View(conn, finish, more, out) ==
  [connectionState |-> conn, error |-> FALSE, finish |-> finish, more |-> more, out |-> out]

Views == [connectionState : {"CONNECTED", "DISCONNECTING"}, error : BOOLEAN, finish : BOOLEAN,
          more : BOOLEAN, out : BOOLEAN]

(* Two views are the same when their fields are. *)
LEMMA SameView ==
  ASSUME NEW v \in Views, NEW w \in Views,
         v.connectionState = w.connectionState, v.error = w.error, v.finish = w.finish,
         v.more = w.more, v.out = w.out
  PROVE  v = w
BY DEF Views

(* A view with fields replaced is the view with other arguments. *)
LEMMA ViewExcept ==
  ASSUME NEW conn \in {"CONNECTED", "DISCONNECTING"}, NEW at \in {"CONNECTED", "DISCONNECTING"},
         NEW o \in BOOLEAN, NEW m \in BOOLEAN, NEW p \in BOOLEAN
  PROVE  LET c == View(conn, FALSE, FALSE, o)
         IN  /\ [c EXCEPT !.more = FALSE] = c
             /\ [c EXCEPT !.connectionState = at] = View(at, FALSE, FALSE, o)
             /\ Finished(c, m, p) = View(conn, TRUE, m, p)
<1> DEFINE c == View(conn, FALSE, FALSE, o)
           c1 == [c EXCEPT !.more = FALSE]
           c2 == [c EXCEPT !.connectionState = at]
           c3 == Finished(c, m, p)
<1>1. /\ c \in Views /\ c.connectionState = conn /\ c.error = FALSE
      /\ c.finish = FALSE /\ c.more = FALSE /\ c.out = o
  BY DEF View, Views
<1> HIDE DEF c
<1>2. /\ c1 \in Views /\ c1.connectionState = conn /\ c1.error = FALSE
      /\ c1.finish = FALSE /\ c1.more = FALSE /\ c1.out = o
  BY <1>1 DEF Views
<1>3. /\ c2 \in Views /\ c2.connectionState = at /\ c2.error = FALSE
      /\ c2.finish = FALSE /\ c2.more = FALSE /\ c2.out = o
  BY <1>1 DEF Views
<1>4. /\ c3 \in Views /\ c3.connectionState = conn /\ c3.error = FALSE
      /\ c3.finish = TRUE /\ c3.more = m /\ c3.out = p
  BY <1>1 DEF Views, Finished
<1> HIDE DEF c1, c2, c3
<1>5. c1 = c
  BY <1>1, <1>2, SameView
<1> DEFINE v2 == View(at, FALSE, FALSE, o)
           v3 == View(conn, TRUE, m, p)
<1>6. /\ v2 \in Views /\ v2.connectionState = at /\ v2.error = FALSE
      /\ v2.finish = FALSE /\ v2.more = FALSE /\ v2.out = o
  BY DEF View, Views
<1>7. /\ v3 \in Views /\ v3.connectionState = conn /\ v3.error = FALSE
      /\ v3.finish = TRUE /\ v3.more = m /\ v3.out = p
  BY DEF View, Views
<1> HIDE DEF v2, v3
<1>8. c2 = v2 /\ c3 = v3
  BY <1>3, <1>4, <1>6, <1>7, SameView
<1> QED BY <1>5, <1>8 DEF c, c1, c2, c3, v2, v3

(* ReadOutcomes at a connection that waits for input. *)
LEMMA OutcomesOf ==
  ASSUME NEW conn \in {"CONNECTED", "DISCONNECTING"}, NEW o \in BOOLEAN, NEW text,
         NEW end \in Ends
  PROVE  LET R == ReadOutcomes(View(conn, FALSE, FALSE, o), Socket(text, end))
             at == IF end = "eof" THEN "DISCONNECTING" ELSE conn
         IN  IF conn = "DISCONNECTING" THEN View(conn, FALSE, FALSE, o) \in R
             ELSE IF end = "error" THEN [View(conn, FALSE, FALSE, o) EXCEPT !.error = TRUE] \in R
             ELSE IF end = "eof" /\ text = <<>> THEN View(at, FALSE, FALSE, o) \in R
             ELSE /\ View(at, FALSE, FALSE, o) \in R
                  /\ [View(at, FALSE, FALSE, o) EXCEPT !.error = TRUE] \in R
                  /\ \A m \in BOOLEAN, p \in {o, TRUE} : View(at, TRUE, m, p) \in R
<1> DEFINE c == View(conn, FALSE, FALSE, o)
           k == Socket(text, end)
           at == IF end = "eof" THEN "DISCONNECTING" ELSE conn
           c2 == View(at, FALSE, FALSE, o)
           R  == ReadOutcomes(c, k)
<1>1. /\ at \in {"CONNECTED", "DISCONNECTING"} /\ [c EXCEPT !.more = FALSE] = c
      /\ c.connectionState = conn /\ c2.out = o
  BY ViewExcept DEF View
<1>2. \A y \in {"CONNECTED", "DISCONNECTING"} :
        [c EXCEPT !.connectionState = y] = View(y, FALSE, FALSE, o)
  BY ViewExcept
<1>3. \A m \in BOOLEAN, p \in BOOLEAN : Finished(c2, m, p) = View(at, TRUE, m, p)
  BY <1>1, ViewExcept
<1>4. (k.fin <=> end = "eof") /\ (k.rst <=> end = "error") /\ (k.inq <=> text # <<>>)
  BY DEF Socket
<1> HIDE DEF k
<1>5. [c EXCEPT !.connectionState = IF k.fin THEN "DISCONNECTING" ELSE @] = c2
  <2>1. CASE end = "eof"
    BY <1>2, <1>4, <2>1
  <2>2. CASE end # "eof"
    <3>1. [c EXCEPT !.connectionState = conn] = View(conn, FALSE, FALSE, o)
      BY <1>2
    <3> QED BY <1>1, <1>4, <2>2, <3>1
  <2> QED BY <2>1, <2>2
<1>6. R = IF conn = "DISCONNECTING" THEN {c}
          ELSE IF end = "error" THEN {[c EXCEPT !.error = TRUE]}
          ELSE IF end = "eof" /\ text = <<>> THEN {c2}
          ELSE ParseAgain(c2) \cup ParseBad(c2) \cup ParseFinish(c2)
  <2> HIDE DEF c, c2
  <2> QED BY <1>1, <1>4, <1>5 DEF ReadOutcomes
<1>7. ASSUME NEW m \in BOOLEAN, NEW p \in {o, TRUE}
      PROVE  View(at, TRUE, m, p) \in ParseFinish(c2)
  <2>1. View(at, TRUE, m, p) = Finished(c2, m, p)
    BY <1>3
  <2>2. <<m, p>> \in BOOLEAN \X {c2.out, TRUE} /\ <<m, p>>[1] = m /\ <<m, p>>[2] = p
    BY <1>1
  <2> HIDE DEF c2
  <2> QED BY <2>1, <2>2 DEF ParseFinish
<1>8. c2 \in ParseAgain(c2) /\ [c2 EXCEPT !.error = TRUE] \in ParseBad(c2)
  BY DEF ParseAgain, ParseBad
<1> HIDE DEF R, c, c2
<1>9. IF conn = "DISCONNECTING" THEN c \in R
      ELSE IF end = "error" THEN [c EXCEPT !.error = TRUE] \in R
      ELSE IF end = "eof" /\ text = <<>> THEN c2 \in R
      ELSE /\ c2 \in R /\ [c2 EXCEPT !.error = TRUE] \in R
           /\ \A m \in BOOLEAN, p \in {o, TRUE} : View(at, TRUE, m, p) \in R
  BY <1>6, <1>7, <1>8
<1> QED BY Zenon, <1>9 DEF R, c, c2, k

(* The connection after a read: what it keeps, and where the parser stands. *)
LEMMA ReadKeeps ==
  ASSUME NEW c, AtRest(c), c.error = FALSE, NEW text, NEW end \in Ends,
         NEW d \in ReadAndParse(c, text, end)
  PROVE  LET at == IF end = "eof" THEN "DISCONNECTING" ELSE c.conn
             quiet == c.conn = "DISCONNECTING" \/ (end = "eof" /\ text = <<>>)
         IN  /\ HasFields(d) /\ d.error \in BOOLEAN
             /\ d.conn = IF c.conn = "DISCONNECTING" THEN c.conn ELSE at
             /\ quiet => d.error = FALSE /\ d.state = c.state /\ d.out = c.out
             /\ ~quiet /\ end = "error" => d.error = TRUE
             /\ d.error = FALSE =>
                  \/ d.state \in {"URI", "HEADERS", "BODY"} /\ d.out = c.out
                  \/ ~quiet /\ d.state = "FINISH" /\ (d.out = c.out \/ d.out # <<>>)
<1> DEFINE e == [c EXCEPT !.buf = @ \o text]
<1>1. /\ HasFields(e) /\ e.state = c.state /\ e.conn = c.conn /\ e.error = FALSE
      /\ e.out = c.out
  BY DEF AtRest, HasFields, Fields
<1>2. d \in IF c.conn = "DISCONNECTING" THEN {[e EXCEPT !.buf = <<>>]}
            ELSE CASE end = "EAGAIN" -> Parse(e)
                   [] end = "error"  -> Parse(HandleError(e, BadRequest))
                   [] end = "eof"    -> IF text = <<>> THEN {[e EXCEPT !.conn = "DISCONNECTING"]}
                                        ELSE Parse([e EXCEPT !.conn = "DISCONNECTING"])
  BY DEF ReadAndParse
<1> HIDE DEF e
<1>3. CASE c.conn = "DISCONNECTING"
  <2>1. d = [e EXCEPT !.buf = <<>>]
    BY <1>2, <1>3
  <2>2. HasFields(d) /\ d.state = c.state /\ d.conn = c.conn /\ d.error = FALSE /\ d.out = c.out
    BY <1>1, <2>1 DEF HasFields, Fields
  <2> QED BY <1>3, <2>2 DEF AtRest
<1>4. CASE c.conn # "DISCONNECTING" /\ end = "EAGAIN"
  <2>1. d \in Parse(e)
    BY <1>2, <1>4
  <2>2. e.state \in {"URI", "HEADERS", "BODY"}
    BY <1>1 DEF AtRest
  <2> QED BY <1>1, <1>4, <2>1, <2>2, ParseOutcome
<1>5. CASE c.conn # "DISCONNECTING" /\ end = "error"
  <2> DEFINE h == HandleError(e, BadRequest)
  <2>1. d \in Parse(h)
    BY <1>2, <1>5
  <2>2. HasFields(h) /\ h.state \in {"URI", "HEADERS", "BODY"} /\ h.conn = c.conn /\ h.error = TRUE
    <3>1. Keeps(e, h) /\ h.error = TRUE /\ h.state = e.state
      BY <1>1, HandleErrorKeeps
    <3> HIDE DEF h
    <3> QED BY <1>1, <3>1 DEF AtRest, Keeps
  <2> HIDE DEF h
  <2>3. HasFields(d) /\ d.conn = c.conn /\ d.error = TRUE
    BY <2>1, <2>2, ParseOutcome
  <2> QED BY <1>5, <2>3
<1>6. CASE c.conn # "DISCONNECTING" /\ end = "eof"
  <2> DEFINE h == [e EXCEPT !.conn = "DISCONNECTING"]
  <2>1. d \in IF text = <<>> THEN {h} ELSE Parse(h)
    BY <1>2, <1>6
  <2>2. /\ HasFields(h) /\ h.state \in {"URI", "HEADERS", "BODY"} /\ h.state = c.state
        /\ h.conn = "DISCONNECTING" /\ h.error = FALSE /\ h.out = c.out
    BY <1>1 DEF AtRest, HasFields, Fields
  <2> HIDE DEF h
  <2>3. CASE text = <<>>
    BY <1>6, <2>1, <2>2, <2>3
  <2>4. CASE text # <<>>
    <3>1. d \in Parse(h)
      BY <2>1, <2>4
    <3> QED BY <1>6, <2>2, <2>4, <3>1, ParseOutcome
  <2> QED BY <2>3, <2>4
<1> QED BY <1>3, <1>4, <1>5, <1>6 DEF Ends

(* What Reactor says a read can do covers what it does. *)
LEMMA ReadForeseen ==
  ASSUME NEW c, AtRest(c), c.error = FALSE, NEW text, NEW end \in Ends,
         NEW d \in ReadAndParse(c, text, end)
  PROVE  \E e \in ReadOutcomes(Seen(c), Socket(text, end)) :
           IF d.error THEN e.error /\ e.connectionState = d.conn ELSE Seen(d) = e
<1> DEFINE o == c.out # <<>>
           at == IF end = "eof" THEN "DISCONNECTING" ELSE c.conn
           quiet == c.conn = "DISCONNECTING" \/ (end = "eof" /\ text = <<>>)
           R == ReadOutcomes(View(c.conn, FALSE, FALSE, o), Socket(text, end))
<1>1. Seen(c) = View(c.conn, FALSE, FALSE, o)
  BY DEF Seen, View, AtRest
<1>2. /\ d.error \in BOOLEAN
      /\ d.conn = IF c.conn = "DISCONNECTING" THEN c.conn ELSE at
      /\ quiet => d.error = FALSE /\ d.state = c.state /\ d.out = c.out
      /\ ~quiet /\ end = "error" => d.error = TRUE
      /\ d.error = FALSE =>
           \/ d.state \in {"URI", "HEADERS", "BODY"} /\ d.out = c.out
           \/ ~quiet /\ d.state = "FINISH" /\ (d.out = c.out \/ d.out # <<>>)
  BY ReadKeeps
<1>3. c.conn \in {"CONNECTED", "DISCONNECTING"} /\ o \in BOOLEAN
  BY DEF AtRest
<1>4. IF c.conn = "DISCONNECTING" THEN View(c.conn, FALSE, FALSE, o) \in R
      ELSE IF end = "error" THEN [View(c.conn, FALSE, FALSE, o) EXCEPT !.error = TRUE] \in R
      ELSE IF end = "eof" /\ text = <<>> THEN View(at, FALSE, FALSE, o) \in R
      ELSE /\ View(at, FALSE, FALSE, o) \in R
           /\ [View(at, FALSE, FALSE, o) EXCEPT !.error = TRUE] \in R
           /\ \A m \in BOOLEAN, p \in {o, TRUE} : View(at, TRUE, m, p) \in R
  BY <1>3, OutcomesOf
<1>5. \A x : LET e == [View(x, FALSE, FALSE, o) EXCEPT !.error = TRUE]
             IN  e.error = TRUE /\ e.connectionState = x
  BY DEF View
<1> HIDE DEF R
<1>6. CASE d.error = TRUE
  <2>1. ~quiet /\ c.conn # "DISCONNECTING" /\ d.conn = at
    BY <1>2, <1>6
  <2>2. [View(at, FALSE, FALSE, o) EXCEPT !.error = TRUE] \in R
    BY <1>4, <2>1
  <2> QED BY <1>1, <1>5, <1>6, <2>1, <2>2 DEF R
<1>7. CASE d.error = FALSE /\ d.state \in {"URI", "HEADERS", "BODY"} /\ d.out = c.out
  <2>1. Seen(d) = View(d.conn, FALSE, FALSE, o)
    BY <1>7 DEF Seen, View
  <2>2. View(d.conn, FALSE, FALSE, o) \in R
    BY <1>2, <1>4, <1>7
  <2> QED BY <1>1, <1>7, <2>1, <2>2 DEF R
<1>8. CASE d.error = FALSE /\ d.state = "FINISH" /\ ~quiet /\ (d.out = c.out \/ d.out # <<>>)
  <2> DEFINE m == d.buf # <<>>
             p == d.out # <<>>
  <2>1. Seen(d) = View(d.conn, TRUE, m, p)
    BY <1>8 DEF Seen, View
  <2>2. m \in BOOLEAN /\ p \in {o, TRUE}
    BY <1>8
  <2>3. View(d.conn, TRUE, m, p) \in R
    BY <1>2, <1>4, <1>8, <2>2
  <2> QED BY <1>1, <1>8, <2>1, <2>3 DEF R
<1>9. c.state # "FINISH" /\ c.state \in {"URI", "HEADERS", "BODY"}
  BY DEF AtRest
<1> QED BY <1>2, <1>6, <1>7, <1>8

-----------------------------------------------------------------------------
(* Between two passes the connection is at rest or has failed.              *)

(* A fresh connection is at rest. *)
LEMMA InitAtRest == Init => RestInv
<1>1. IsSequence(<<>>)
  BY EmptySeq DEF IsSequence
<1> QED BY <1>1 DEF Init, InitHttp, RestInv, AtRest, HasFields, Fields

(* A write fails, or moves answers from out to sent. *)
LEMMA WritesKeep ==
  ASSUME NEW c, HasFields(c), c.error \in BOOLEAN, NEW d \in Writes(c)
  PROVE  /\ HasFields(d) /\ d.conn = c.conn /\ d.state = c.state
         /\ d.error \in BOOLEAN
<1>1. \/ d = [c EXCEPT !.error = TRUE]
      \/ \E k \in 0..Len(c.out) :
           d = [c EXCEPT !.sent = @ \o SubSeq(c.out, 1, k), !.out = SubSeq(@, k + 1, Len(@))]
  BY DEF Writes
<1>2. CASE d = [c EXCEPT !.error = TRUE]
  BY <1>2 DEF HasFields, Fields
<1>3. ASSUME NEW k \in 0..Len(c.out),
             d = [c EXCEPT !.sent = @ \o SubSeq(c.out, 1, k), !.out = SubSeq(@, k + 1, Len(@))]
      PROVE  /\ HasFields(d) /\ d.conn = c.conn /\ d.state = c.state
             /\ d.error \in BOOLEAN
  <2>1. PICK S : c.out \in Seq(S)
    BY DEF HasFields, IsSequence
  <2>2. Len(c.out) \in Nat /\ \A i \in 1..Len(c.out) : c.out[i] \in S
    BY <2>1, LenProperties, ElementOfSeq
  <2>3. SubSeq(c.out, k + 1, Len(c.out)) \in Seq(S)
    BY <2>2, SubSeqProperties
  <2>4. IsSequence(SubSeq(c.out, k + 1, Len(c.out)))
    BY <2>3 DEF IsSequence
  <2> QED BY <1>3, <2>4 DEF HasFields, Fields
<1> QED BY <1>1, <1>2, <1>3

(* What handleRead leaves at its end, after its write. *)
LEMMA AfterRead ==
  ASSUME NEW d, HasFields(d), d.error \in BOOLEAN, d.conn \in {"CONNECTED", "DISCONNECTING"},
         ~d.error => d.state \in {"URI", "HEADERS", "BODY", "FINISH"},
         http' = IF d.error THEN Closed(d) ELSE IF ~d.error /\ d.state = "FINISH" THEN Reset(d) ELSE d
  PROVE  RestInv'
<1>1. CASE d.error
  BY <1>1 DEF Closed, InitHttp, RestInv
<1>2. CASE ~d.error /\ d.state = "FINISH"
  <2>1. HasFields(Reset(d)) /\ Reset(d).state = "URI" /\ Reset(d).conn = d.conn /\ Reset(d).error = d.error
    BY DEF Reset, HasFields, Fields
  <2> QED BY <1>2, <2>1 DEF RestInv, AtRest
<1>3. CASE ~d.error /\ d.state # "FINISH"
  BY <1>3 DEF RestInv, AtRest
<1> QED BY <1>1, <1>2, <1>3

(* A pass of handleRead leaves the connection at rest. *)
LEMMA ReadStep ==
  ASSUME RestInv, NEW n, NEW text, NEW end \in Ends, HandleRead(n, text, end)
  PROVE  RestInv'
<1>1. AtRest(http) /\ http.error = FALSE
  BY DEF RestInv, HandleRead
<1>2. PICK c \in ReadAndParse(http, text, end) :
      \E d \in IF c.error \/ c.out = <<>> THEN {c} ELSE Writes(c) :
        http' = IF d.error THEN Closed(d) ELSE IF ~d.error /\ d.state = "FINISH" THEN Reset(d) ELSE d
  BY DEF HandleRead
<1>3. PICK d \in IF c.error \/ c.out = <<>> THEN {c} ELSE Writes(c) :
        http' = IF d.error THEN Closed(d) ELSE IF ~d.error /\ d.state = "FINISH" THEN Reset(d) ELSE d
  BY <1>2
<1>4. /\ HasFields(c) /\ c.error \in BOOLEAN /\ c.conn \in {"CONNECTED", "DISCONNECTING"}
      /\ c.error = FALSE => c.state \in {"URI", "HEADERS", "BODY", "FINISH"}
  <2>1. /\ HasFields(c) /\ c.error \in BOOLEAN
        /\ c.conn = IF http.conn = "DISCONNECTING" THEN http.conn
                    ELSE IF end = "eof" THEN "DISCONNECTING" ELSE http.conn
        /\ c.error = FALSE => \/ c.state \in {"URI", "HEADERS", "BODY"}
                              \/ c.state = "FINISH"
    BY <1>1, ReadKeeps
  <2> QED BY <1>1, <2>1 DEF AtRest
<1>5. CASE d = c
  BY <1>3, <1>4, <1>5, AfterRead
<1>6. CASE d \in Writes(c) /\ ~c.error
  <2>1. /\ HasFields(d) /\ d.conn = c.conn /\ d.state = c.state /\ d.error \in BOOLEAN
    BY <1>4, <1>6, WritesKeep
  <2> QED BY <1>3, <1>4, <1>6, <2>1, AfterRead
<1> QED BY <1>3, <1>5, <1>6

(* So it is after a write. *)
LEMMA WriteStep == RestInv /\ HandleWrite => RestInv'
<1> SUFFICES ASSUME RestInv, HandleWrite PROVE RestInv'
  OBVIOUS
<1>1. AtRest(http) /\ http.error \in BOOLEAN
  BY DEF RestInv, HandleWrite
<1>2. PICK c \in Writes(http) : http' = IF c.error THEN Closed(c) ELSE c
  BY DEF HandleWrite
<1>3. HasFields(c) /\ c.conn = http.conn /\ c.state = http.state /\ c.error \in BOOLEAN
  BY <1>1, WritesKeep DEF AtRest
<1>4. CASE c.error
  BY <1>2, <1>4 DEF Closed, InitHttp, RestInv
<1>5. CASE ~c.error
  BY <1>1, <1>2, <1>3, <1>5 DEF RestInv, AtRest
<1> QED BY <1>4, <1>5

(* RestInv is an invariant. *)
LEMMA StaysAtRest == Spec => []RestInv
<1>1. RestInv /\ [Next]_vars => RestInv'
  <2> SUFFICES ASSUME RestInv, [Next]_vars PROVE RestInv'
    OBVIOUS
  <2>1. CASE \E n, text : \E end \in Ends : HandleRead(n, text, end)
    BY <2>1, ReadStep
  <2>2. CASE HandleWrite
    BY <2>2, WriteStep
  <2>3. CASE UNCHANGED vars
    BY <2>3 DEF vars, RestInv, AtRest, HasFields
  <2>4. Next => (\E n, text : \E end \in Ends : HandleRead(n, text, end)) \/ HandleWrite
    BY DEF Next, Ends
  <2> QED BY <2>1, <2>2, <2>3, <2>4
<1> QED BY InitAtRest, <1>1, PTL DEF Spec

(* Whatever the client sends and however the reads cut it, one pass of      *)
(* handleRead does one of the things ReadOutcomes lists, by which Reactor   *)
(* and SocketIO stand in for the parser (HttpData.cpp:167-279).             *)
THEOREM OutcomesComplete == Spec => []OutcomesForeseen
<1>1. RestInv => OutcomesForeseen
  <2> DEFINE left == SubSeq(Stream, taken + 1, Len(Stream))
             text(n) == SubSeq(left, 1, n)
             k(n, end) == [inq |-> n > 0, fin |-> end = "eof", rst |-> end = "error"]
  <2> SUFFICES ASSUME RestInv, ~http.error, NEW n \in 0..Len(left), NEW end \in Ends,
                      NEW c \in ReadAndParse(http, text(n), end)
               PROVE  \E e \in ReadOutcomes(Seen(http), k(n, end)) :
                        IF c.error THEN e.error /\ e.connectionState = c.conn ELSE Seen(c) = e
    BY DEF OutcomesForeseen, Ends
  <2>1. AtRest(http) /\ http.error = FALSE
    BY DEF RestInv
  <2> HIDE DEF left
  <2>2. n \in Nat
    OBVIOUS
  <2>3. n > 0 <=> text(n) # <<>>
    BY <2>2, TextEmpty
  <2>4. k(n, end) = Socket(text(n), end)
    BY <2>3 DEF Socket
  <2> HIDE DEF k, text
  <2>5. \E e \in ReadOutcomes(Seen(http), Socket(text(n), end)) :
          IF c.error THEN e.error /\ e.connectionState = c.conn ELSE Seen(c) = e
    BY <2>1, ReadForeseen
  <2> QED BY <2>4, <2>5
<1> QED BY StaysAtRest, <1>1, PTL

-----------------------------------------------------------------------------
(* Induction, in the form the provers can use: over a set of numbers.       *)

(* A set of numbers has a least one. *)
LEMMA Least ==
  ASSUME NEW T, T \subseteq Nat, T # {}
  PROVE  \E x \in T : \A y \in T : x <= y
<1> DEFINE R == {ss \in Nat \X Nat : ss[1] < ss[2]}
<1>1. IsWellFoundedOn(R, Nat)
  BY NatLessThanWellFounded DEF OpToRel
<1>2. \A x, y \in Nat : x < y => <<x, y>> \in R
  OBVIOUS
<1> HIDE DEF R
<1>3. PICK x \in T : \A y \in T : ~(<<y, x>> \in R)
  BY <1>1, WFMin
<1>4. ASSUME NEW y \in T
      PROVE  x <= y
  <2>1. x \in Nat /\ y \in Nat
    OBVIOUS
  <2>2. ~(y < x)
    BY <1>2, <1>3, <2>1
  <2> QED BY <2>1, <2>2
<1> QED BY <1>4

(* Whatever holds of 0 and is passed on up to N holds up to N. *)
LEMMA Induction ==
  ASSUME NEW T, 0 \in T, NEW N \in Nat, \A n \in 0..N - 1 : n \in T => n + 1 \in T
  PROVE  \A n \in 0..N : n \in T
<1> DEFINE U == (0..N) \ T
<1> SUFFICES ASSUME U # {} PROVE FALSE
  OBVIOUS
<1>1. PICK x \in U : \A y \in U : x <= y
  <2> HIDE DEF U
  <2>1. U \subseteq Nat /\ U # {}
    BY DEF U
  <2> QED BY <2>1, Least
<1>2. x # 0 /\ x - 1 \in 0..N - 1 /\ x - 1 \notin U
  BY <1>1
<1> QED BY <1>1, <1>2

(* The recursion of the scan is well founded. *)
LEMMA ScanSteps ==
  ASSUME NEW c, Len(c.buf) \in Nat
  PROVE  \E scan : /\ scan[0] = Scan(c)
                   /\ \A i \in 1..Len(c.buf) : scan[i] = Turn(c, scan[i - 1], i)
                   /\ Scanned(c) = scan[Len(c.buf)]
<1> DEFINE N == Len(c.buf)
           Is(g, n) == g = [i \in 0..n |-> IF i = 0 THEN Scan(c) ELSE Turn(c, g[i - 1], i)]
           T == {n \in Nat : \E g : Is(g, n)}
<1>1. 0 \in T
  <2> DEFINE g == [i \in 0..0 |-> Scan(c)]
  <2>1. Is(g, 0)
    OBVIOUS
  <2> QED BY <2>1
<1>2. ASSUME NEW n \in 0..N - 1, n \in T
      PROVE  n + 1 \in T
  <2>1. PICK g : Is(g, n)
    BY <1>2
  <2> DEFINE h == [i \in 0..n + 1 |-> IF i = n + 1 THEN Turn(c, g[n], n + 1) ELSE g[i]]
  <2>2. \A i \in 0..n + 1 : h[i] = IF i = 0 THEN Scan(c) ELSE Turn(c, h[i - 1], i)
    <3>1. \A i \in 0..n : h[i] = g[i]
      OBVIOUS
    <3>2. \A i \in 0..n : g[i] = IF i = 0 THEN Scan(c) ELSE Turn(c, g[i - 1], i)
      BY <2>1
    <3>3. h[n + 1] = Turn(c, g[n], n + 1)
      OBVIOUS
    <3> HIDE DEF h
    <3>4. ASSUME NEW i \in 0..n + 1
          PROVE  h[i] = IF i = 0 THEN Scan(c) ELSE Turn(c, h[i - 1], i)
      <4>1. CASE i = n + 1
        BY <3>1, <3>3, <4>1
      <4>2. CASE i = 0
        BY <3>1, <3>2, <4>2
      <4>3. CASE i \in 1..n
        <5>1. i - 1 \in 0..n /\ i \in 0..n /\ i # 0
          BY <4>3
        <5> QED BY <3>1, <3>2, <5>1
      <4> QED BY <4>1, <4>2, <4>3
    <3> QED BY <3>4
  <2>3. Is(h, n + 1)
    <3>1. h = [i \in 0..n + 1 |-> h[i]]
      OBVIOUS
    <3> HIDE DEF h
    <3> QED BY <2>2, <3>1
  <2> HIDE DEF h
  <2> QED BY <2>3
<1>3. \E g : Is(g, N)
  <2> HIDE DEF T
  <2>1. \A n \in 0..N : n \in T
    BY <1>1, <1>2, Induction
  <2> QED BY <2>1 DEF T
<1> DEFINE scan == CHOOSE g : Is(g, N)
<1>4. Is(scan, N)
  BY <1>3
<1>5. Scanned(c) = scan[N]
  BY DEF Scanned
<1> HIDE DEF scan
<1>6. scan[0] = Scan(c) /\ \A i \in 1..N : scan[i] = Turn(c, scan[i - 1], i)
  <2>1. N \in Nat /\ 0 \in 0..N /\ \A i \in 1..N : i \in 0..N /\ i # 0
    OBVIOUS
  <2>2. \A i \in 0..N : scan[i] = IF i = 0 THEN Scan(c) ELSE Turn(c, scan[i - 1], i)
    BY <1>4
  <2> HIDE DEF N
  <2> QED BY <2>1, <2>2
<1> QED BY <1>5, <1>6

(* FlattenSeq by its recursion, for the sequences that are not empty. *)
LEMMA FlattenSteps ==
  ASSUME NEW seqs, Len(seqs) \in Nat \ {0}
  PROVE  \E flat : /\ flat[1] = seqs[1]
                   /\ \A i \in 2..Len(seqs) : flat[i] = flat[i - 1] \o seqs[i]
                   /\ FlattenSeq(seqs) = flat[Len(seqs)]
<1> DEFINE N == Len(seqs)
           Is(g, n) == g = [i \in 1..n |-> IF i = 1 THEN seqs[i] ELSE g[i - 1] \o seqs[i]]
           T == {n \in Nat : n = 0 \/ \E g : Is(g, n)}
<1>1. 0 \in T
  OBVIOUS
<1>2. ASSUME NEW n \in 0..N - 1, n \in T
      PROVE  n + 1 \in T
  <2>1. \E h : Is(h, n + 1)
    <3>1. CASE n = 0
      <4> DEFINE h == [i \in 1..1 |-> seqs[1]]
      <4>1. h = [i \in 1..1 |-> IF i = 1 THEN seqs[i] ELSE h[i - 1] \o seqs[i]]
        OBVIOUS
      <4> HIDE DEF h
      <4>2. Is(h, 1)
        BY <4>1
      <4> QED BY <3>1, <4>2
    <3>2. CASE n # 0
      <4>1. PICK g : Is(g, n)
        BY <1>2, <3>2
      <4> DEFINE h == [i \in 1..n + 1 |-> IF i = n + 1 THEN g[n] \o seqs[n + 1] ELSE g[i]]
      <4>2. \A i \in 1..n : h[i] = g[i]
        OBVIOUS
      <4>3. \A i \in 1..n : g[i] = IF i = 1 THEN seqs[i] ELSE g[i - 1] \o seqs[i]
        BY <4>1
      <4>4. h[n + 1] = g[n] \o seqs[n + 1] /\ n \in 1..n
        <5>1. n + 1 \in 1..n + 1 /\ n \in 1..n
          BY <3>2
        <5> QED BY <5>1
      <4>5. h = [i \in 1..n + 1 |-> h[i]]
        OBVIOUS
      <4> HIDE DEF h
      <4>6. ASSUME NEW i \in 1..n + 1
            PROVE  h[i] = IF i = 1 THEN seqs[i] ELSE h[i - 1] \o seqs[i]
        <5>1. CASE i = n + 1
          <6>1. i - 1 = n /\ i # 1
            BY <3>2, <5>1
          <6>2. h[i] = g[n] \o seqs[i] /\ h[n] = g[n]
            BY <4>2, <4>4, <5>1
          <6> QED BY <6>1, <6>2
        <5>2. CASE i = 1
          BY <3>2, <4>2, <4>3, <5>2
        <5>3. CASE i \in 2..n
          <6>1. i - 1 \in 1..n /\ i \in 1..n /\ i # 1
            BY <5>3
          <6> QED BY <4>2, <4>3, <6>1
        <5> QED BY <5>1, <5>2, <5>3
      <4>7. Is(h, n + 1)
        BY <4>5, <4>6
      <4> QED BY <4>7
    <3> QED BY <3>1, <3>2
  <2> HIDE DEF Is
  <2> QED BY <2>1
<1>3. \E g : Is(g, N)
  <2> HIDE DEF T
  <2>1. \A n \in 0..N : n \in T
    BY <1>1, <1>2, Induction
  <2>2. N \in T /\ N # 0
    BY <2>1
  <2> QED BY <2>2 DEF T
<1> DEFINE flat == CHOOSE g : Is(g, N)
<1>4. Is(flat, N)
  BY <1>3
<1>5. FlattenSeq(seqs) = flat[N]
  BY DEF FlattenSeq
<1> HIDE DEF flat
<1>6. flat[1] = seqs[1] /\ \A i \in 2..N : flat[i] = flat[i - 1] \o seqs[i]
  <2>1. N \in Nat /\ 1 \in 1..N /\ \A i \in 2..N : i \in 1..N /\ i # 1
    OBVIOUS
  <2>2. \A i \in 1..N : flat[i] = IF i = 1 THEN seqs[i] ELSE flat[i - 1] \o seqs[i]
    BY <1>4
  <2> HIDE DEF N
  <2> QED BY <2>1, <2>2
<1> QED BY <1>5, <1>6

(* The length of a sequence is a number. *)
LEMMA SequenceLen ==
  ASSUME NEW s, IsSequence(s)
  PROVE  Len(s) \in Nat /\ DOMAIN s = 1..Len(s)
BY LenProperties DEF IsSequence

(* What SubSeq returns, for places that need not be in the sequence. *)
LEMMA SubSequence ==
  ASSUME NEW s, NEW m \in Nat, NEW n \in Nat
  PROVE  /\ IsSequence(SubSeq(s, m, n))
         /\ Len(SubSeq(s, m, n)) = IF m <= n THEN n - m + 1 ELSE 0
         /\ \A i \in 1..Len(SubSeq(s, m, n)) : SubSeq(s, m, n)[i] = s[m + i - 1]
<1> DEFINE S == {s[i] : i \in m..n}
<1>1. \A i \in m..n : s[i] \in S
  OBVIOUS
<1> HIDE DEF S
<1>2. /\ SubSeq(s, m, n) \in Seq(S)
      /\ Len(SubSeq(s, m, n)) = IF m <= n THEN n - m + 1 ELSE 0
      /\ \A i \in 1..n - m + 1 : SubSeq(s, m, n)[i] = s[m + i - 1]
  BY <1>1, SubSeqProperties
<1> QED BY <1>2 DEF IsSequence

(* What \o returns. *)
LEMMA Joined ==
  ASSUME NEW s, IsSequence(s), NEW t, IsSequence(t)
  PROVE  /\ IsSequence(s \o t)
         /\ Len(s \o t) = Len(s) + Len(t)
         /\ \A i \in 1..Len(s) : (s \o t)[i] = s[i]
         /\ \A i \in 1..Len(t) : (s \o t)[Len(s) + i] = t[i]
<1>1. PICK S, T : s \in Seq(S) /\ t \in Seq(T)
  BY DEF IsSequence
<1> DEFINE U == S \cup T
<1>2. S \subseteq U /\ T \subseteq U
  OBVIOUS
<1> HIDE DEF U
<1>3. s \in Seq(U) /\ t \in Seq(U)
  BY <1>1, <1>2, SeqMonotonic
<1>4. Len(s) \in Nat /\ Len(t) \in Nat
  BY <1>3, LenProperties
<1>5. /\ s \o t \in Seq(U)
      /\ Len(s \o t) = Len(s) + Len(t)
      /\ \A i \in 1..Len(s) + Len(t) : (s \o t)[i] = IF i <= Len(s) THEN s[i] ELSE t[i - Len(s)]
  BY <1>3, ConcatProperties
<1>6. ASSUME NEW i \in 1..Len(t)
      PROVE  (s \o t)[Len(s) + i] = t[i]
  <2>1. Len(s) + i \in 1..Len(s) + Len(t) /\ ~(Len(s) + i <= Len(s)) /\ Len(s) + i - Len(s) = i
    BY <1>4
  <2> QED BY <1>5, <2>1
<1> QED BY <1>4, <1>5, <1>6 DEF IsSequence

(* Sequences are equal when their tokens are. *)
LEMMA SameSequence ==
  ASSUME NEW s, IsSequence(s), NEW t, IsSequence(t), Len(s) = Len(t),
         \A i \in 1..Len(s) : s[i] = t[i]
  PROVE  s = t
<1>1. PICK S, T : s \in Seq(S) /\ t \in Seq(T)
  BY DEF IsSequence
<1> DEFINE U == S \cup T
<1>2. S \subseteq U /\ T \subseteq U
  OBVIOUS
<1> HIDE DEF U
<1>3. s \in Seq(U) /\ t \in Seq(U)
  BY <1>1, <1>2, SeqMonotonic
<1> QED BY <1>3, SeqEqual

-----------------------------------------------------------------------------
(* The text of one request.                                                 *)

(* The space is none of the other tokens. *)
LEMMA BlankToken == Blank \notin {"GET", "POST", "HEAD", "/", "?", ":", "CR", "LF", "f", "q", "1.1"}
BY Zenon DEF Blank

Requests == Get \cup Odd \cup Post

(* What a request can be. *)
LEMMA RequestFields ==
  ASSUME NEW r \in Requests
  PROVE  /\ r.method \in {"GET", "HEAD", "POST"} /\ r.path \in Names \cup {Root}
         /\ r.special = "query" => r.method = "GET" /\ r.path = Root
         /\ r.special \in {"plain", "query", "no header", "two headers", "long", "0", "1"}
<1>1. DOMAIN Number = {"0", "1"}
  BY DEF Number
<1> QED BY <1>1 DEF Requests, Get, Odd, Post

(* The tokens of a request line: method, slash, name, and seven in all      *)
(* besides the name.                                                        *)
LineForm(r, w) ==
  /\ IsSequence(Line(r)) /\ Len(Line(r)) = w + 7 /\ w \in {0, 1, 3}
  /\ Line(r)[1] = r.method /\ Line(r)[2] = "/"
  /\ Line(r)[w + 3] = Blank /\ Line(r)[w + 4] = "/" /\ Line(r)[w + 5] = "1.1"
  /\ Line(r)[w + 6] = "CR" /\ Line(r)[w + 7] = "LF"
  /\ r.special = "query" => w = 3 /\ Line(r)[3] = "f" /\ Line(r)[4] = "?" /\ Line(r)[5] = "q"
  /\ r.special # "query" /\ r.path = Root => w = 0
  /\ r.special # "query" /\ r.path # Root => w = 1 /\ Line(r)[3] = r.path

(* The request line of every request is of that form. *)
LEMMA LineHasForm ==
  ASSUME NEW r \in Requests
  PROVE  \E w : LineForm(r, w)
<1> DEFINE a == <<r.method, "/">>
           b == IF r.path = Root THEN <<>> ELSE <<r.path>>
           q == IF r.special = "query" THEN <<"f", "?", "q">> ELSE <<>>
           d == <<Blank, "/", "1.1", "CR", "LF">>
           w == Len(b) + Len(q)
<1>1. IsSequence(a) /\ Len(a) = 2 /\ a[1] = r.method /\ a[2] = "/"
  <2>1. a \in Seq({r.method, "/"})
    OBVIOUS
  <2> QED BY <2>1 DEF IsSequence
<1>2. /\ IsSequence(b)
      /\ r.path = Root => Len(b) = 0
      /\ r.path # Root => Len(b) = 1 /\ b[1] = r.path
  <2>1. <<>> \in Seq({r.path}) /\ <<r.path>> \in Seq({r.path})
    OBVIOUS
  <2> QED BY <2>1 DEF IsSequence
<1>3. /\ IsSequence(q)
      /\ r.special = "query" => Len(q) = 3 /\ q[1] = "f" /\ q[2] = "?" /\ q[3] = "q"
      /\ r.special # "query" => Len(q) = 0
  <2>1. <<>> \in Seq({"f", "?", "q"}) /\ <<"f", "?", "q">> \in Seq({"f", "?", "q"})
    OBVIOUS
  <2> QED BY <2>1 DEF IsSequence
<1>4. /\ IsSequence(d) /\ Len(d) = 5
      /\ d[1] = Blank /\ d[2] = "/" /\ d[3] = "1.1" /\ d[4] = "CR" /\ d[5] = "LF"
  <2>1. d \in Seq({Blank, "/", "1.1", "CR", "LF"})
    OBVIOUS
  <2> QED BY <2>1 DEF IsSequence
<1>5. Line(r) = ((a \o b) \o q) \o d
  BY DEF Line
<1>6. r.special = "query" => r.path = Root
  BY RequestFields
<1>L. Len(b) \in {0, 1} /\ Len(q) \in {0, 3}
  BY <1>2, <1>3
<1> HIDE DEF a, b, q, d
<1> DEFINE ab == a \o b
           abq == ab \o q
<1> IsSequence(a) /\ IsSequence(b) /\ IsSequence(q) /\ IsSequence(d)
  BY <1>1, <1>2, <1>3, <1>4
<1>7. IsSequence(ab) /\ Len(ab) = 2 + Len(b) /\ ab[1] = a[1] /\ ab[2] = a[2] /\ (Len(b) = 1 => ab[3] = b[1])
  <2>1. /\ IsSequence(ab) /\ Len(ab) = Len(a) + Len(b)
        /\ \A i \in 1..Len(a) : ab[i] = a[i]
        /\ \A i \in 1..Len(b) : ab[Len(a) + i] = b[i]
    BY Joined
  <2> HIDE DEF ab
  <2>2. Len(b) = 1 => ab[2 + 1] = b[1]
    BY <1>1, <2>1
  <2> QED BY <1>1, <2>1, <2>2
<1> HIDE DEF ab
<1> IsSequence(ab)
  BY <1>7
<1>8. /\ IsSequence(abq) /\ Len(abq) = 2 + w
      /\ \A i \in 1..Len(ab) : abq[i] = ab[i]
      /\ \A i \in 1..Len(q) : abq[Len(ab) + i] = q[i]
  <2>1. /\ IsSequence(abq) /\ Len(abq) = Len(ab) + Len(q)
        /\ \A i \in 1..Len(ab) : abq[i] = ab[i]
        /\ \A i \in 1..Len(q) : abq[Len(ab) + i] = q[i]
    BY Joined
  <2> HIDE DEF abq
  <2> QED BY <1>7, <1>L, <2>1
<1> HIDE DEF abq
<1> IsSequence(abq)
  BY <1>8
<1>9. /\ IsSequence(Line(r)) /\ Len(Line(r)) = 2 + w + 5
      /\ \A i \in 1..2 + w : Line(r)[i] = abq[i]
      /\ \A i \in 1..5 : Line(r)[2 + w + i] = d[i]
  <2>1. Line(r) = abq \o d
    BY <1>5 DEF ab, abq
  <2>2. /\ IsSequence(abq \o d) /\ Len(abq \o d) = Len(abq) + Len(d)
        /\ \A i \in 1..Len(abq) : (abq \o d)[i] = abq[i]
        /\ \A i \in 1..Len(d) : (abq \o d)[Len(abq) + i] = d[i]
    BY Joined
  <2> QED BY <1>4, <1>8, <2>1, <2>2
<1>10. /\ w \in {0, 1, 3}
       /\ r.special = "query" => w = 3
       /\ r.special # "query" /\ r.path = Root => w = 0
       /\ r.special # "query" /\ r.path # Root => w = 1
  <2>1. CASE r.special = "query"
    <3>1. Len(b) = 0 /\ Len(q) = 3
      BY <1>2, <1>3, <1>6, <2>1
    <3>2. Len(b) + Len(q) = 3
      BY ONLY <3>1
    <3> QED BY <2>1, <3>2
  <2>2. CASE r.special # "query" /\ r.path = Root
    <3>1. Len(b) = 0 /\ Len(q) = 0
      BY <1>2, <1>3, <2>2
    <3>2. Len(b) + Len(q) = 0
      BY ONLY <3>1
    <3> QED BY <2>2, <3>2
  <2>3. CASE r.special # "query" /\ r.path # Root
    <3>1. Len(b) = 1 /\ Len(q) = 0
      BY <1>2, <1>3, <2>3
    <3>2. Len(b) + Len(q) = 1
      BY ONLY <3>1
    <3> QED BY <2>3, <3>2
  <2> QED BY <2>1, <2>2, <2>3
<1> HIDE DEF w
<1>W. w \in Nat
  BY <1>10
<1>11. Line(r)[1] = r.method /\ Line(r)[2] = "/"
  <2>1. 1 \in 1..2 + w /\ 2 \in 1..2 + w
    BY <1>W
  <2>2. Line(r)[1] = abq[1] /\ Line(r)[2] = abq[2]
    BY <1>9, <2>1
  <2>3. 1 \in 1..Len(ab) /\ 2 \in 1..Len(ab)
    BY <1>7, <1>L
  <2>4. abq[1] = ab[1] /\ abq[2] = ab[2]
    BY <1>8, <2>3
  <2> QED BY <1>1, <1>7, <2>2, <2>4
<1>12. /\ Line(r)[w + 3] = Blank /\ Line(r)[w + 4] = "/" /\ Line(r)[w + 5] = "1.1"
       /\ Line(r)[w + 6] = "CR" /\ Line(r)[w + 7] = "LF"
  <2>1. ASSUME NEW k \in 3..7
        PROVE  Line(r)[w + k] = d[k - 2]
    <3>1. k - 2 \in 1..5 /\ 2 + w + (k - 2) = w + k
      BY <1>W
    <3> QED BY <1>9, <3>1
  <2>2. /\ Line(r)[w + 3] = d[1] /\ Line(r)[w + 4] = d[2] /\ Line(r)[w + 5] = d[3]
        /\ Line(r)[w + 6] = d[4] /\ Line(r)[w + 7] = d[5]
    BY <2>1
  <2> QED BY <1>4, <2>2
<1>13. Len(Line(r)) = w + 7
  BY <1>9, <1>W
<1>14. CASE r.special = "query"
  <2>1. Len(b) = 0 /\ Len(q) = 3 /\ w = 3
    BY <1>2, <1>3, <1>6, <1>10, <1>14
  <2>2. Len(ab) = 2
    BY <1>7, <2>1
  <2>3. abq[2 + 1] = q[1] /\ abq[2 + 2] = q[2] /\ abq[2 + 3] = q[3]
    BY <1>8, <2>1, <2>2
  <2>4. Line(r)[3] = abq[3] /\ Line(r)[4] = abq[4] /\ Line(r)[5] = abq[5]
    BY <1>9, <2>1
  <2>5. Line(r)[3] = "f" /\ Line(r)[4] = "?" /\ Line(r)[5] = "q"
    BY <1>3, <1>14, <2>3, <2>4
  <2> QED BY <1>9, <1>10, <1>11, <1>12, <1>13, <1>14, <2>1, <2>5 DEF LineForm
<1>15. CASE r.special # "query" /\ r.path = Root
  BY <1>9, <1>10, <1>11, <1>12, <1>13, <1>15 DEF LineForm
<1>16. CASE r.special # "query" /\ r.path # Root
  <2>1. Len(b) = 1 /\ w = 1 /\ b[1] = r.path
    BY <1>2, <1>10, <1>16
  <2>2. Line(r)[3] = abq[3]
    BY <1>9, <2>1
  <2>3. abq[3] = ab[3]
    BY <1>7, <1>8, <2>1
  <2>4. Line(r)[3] = r.path
    BY <1>7, <2>1, <2>2, <2>3
  <2> QED BY <1>9, <1>10, <1>11, <1>12, <1>13, <1>16, <2>1, <2>4 DEF LineForm
<1> QED BY <1>14, <1>15, <1>16

Methods == {"GET", "POST", "HEAD"}

(* What follows a request line holds no method, and a colon is followed by  *)
(* the end of its line.                                                     *)
Quiet(s) ==
  /\ IsSequence(s)
  /\ \A i \in 1..Len(s) : /\ s[i] \notin Methods
                          /\ s[i] = ":" => \E j \in i + 1..Len(s) : s[j] = "CR"

(* Two quiet texts in a row are quiet. *)
LEMMA QuietJoin ==
  ASSUME NEW s, Quiet(s), NEW t, Quiet(t)
  PROVE  Quiet(s \o t)
<1> DEFINE u == s \o t
<1>1. IsSequence(s) /\ IsSequence(t)
  BY DEF Quiet
<1>2. Len(s) \in Nat /\ Len(t) \in Nat
  BY <1>1, SequenceLen
<1>3. /\ IsSequence(u) /\ Len(u) = Len(s) + Len(t)
      /\ \A i \in 1..Len(s) : u[i] = s[i]
      /\ \A i \in 1..Len(t) : u[Len(s) + i] = t[i]
  BY <1>1, Joined
<1> HIDE DEF u
<1>4. ASSUME NEW i \in 1..Len(u)
      PROVE  u[i] \notin Methods /\ (u[i] = ":" => \E j \in i + 1..Len(u) : u[j] = "CR")
  <2>1. CASE i <= Len(s)
    <3>1. i \in 1..Len(s) /\ u[i] = s[i]
      BY <1>2, <1>3, <2>1
    <3>2. s[i] \notin Methods /\ (s[i] = ":" => \E j \in i + 1..Len(s) : s[j] = "CR")
      BY <3>1 DEF Quiet
    <3>3. ASSUME NEW j \in i + 1..Len(s), s[j] = "CR"
          PROVE  j \in i + 1..Len(u) /\ u[j] = "CR"
      <4>1. j \in 1..Len(s) /\ j \in i + 1..Len(s) + Len(t)
        BY <1>2, <3>1
      <4> QED BY <1>3, <3>3, <4>1
    <3> QED BY <3>1, <3>2, <3>3
  <2>2. CASE ~(i <= Len(s))
    <3> DEFINE k == i - Len(s)
    <3>1. k \in 1..Len(t) /\ Len(s) + k = i
      BY <1>2, <1>3, <2>2
    <3>2. u[i] = t[k]
      BY <1>3, <3>1
    <3>3. t[k] \notin Methods /\ (t[k] = ":" => \E j \in k + 1..Len(t) : t[j] = "CR")
      BY <3>1 DEF Quiet
    <3>4. ASSUME NEW j \in k + 1..Len(t), t[j] = "CR"
          PROVE  Len(s) + j \in i + 1..Len(u) /\ u[Len(s) + j] = "CR"
      <4>1. j \in 1..Len(t) /\ Len(s) + j \in i + 1..Len(s) + Len(t)
        BY <1>2, <3>1
      <4> QED BY <1>3, <3>4, <4>1
    <3> HIDE DEF k
    <3> QED BY <3>2, <3>3, <3>4
  <2> QED BY <2>1, <2>2
<1>5. Quiet(u)
  BY <1>3, <1>4 DEF Quiet
<1> QED BY <1>5 DEF u

(* A header with a harmless key and value is quiet. *)
LEMMA QuietHeader ==
  ASSUME NEW key, key \notin Methods, key # ":", NEW value, IsSequence(value),
         \A i \in 1..Len(value) : value[i] \notin Methods /\ value[i] # ":"
  PROVE  Quiet(Header(key, value))
<1> DEFINE a == <<key, ":", Blank>>
           e == <<"CR", "LF">>
           h == (a \o value) \o e
           L == Len(value)
<1>1. IsSequence(a) /\ Len(a) = 3 /\ a[1] = key /\ a[2] = ":" /\ a[3] = Blank
  <2>1. a \in Seq({key, ":", Blank})
    OBVIOUS
  <2> QED BY <2>1 DEF IsSequence
<1>2. IsSequence(e) /\ Len(e) = 2 /\ e[1] = "CR" /\ e[2] = "LF"
  <2>1. e \in Seq({"CR", "LF"})
    OBVIOUS
  <2> QED BY <2>1 DEF IsSequence
<1>3. L \in Nat
  BY SequenceLen
<1>4. h = Header(key, value)
  BY Zenon DEF Header
<1> HIDE DEF a, e
<1> DEFINE av == a \o value
<1>5. /\ IsSequence(av) /\ Len(av) = 3 + L
      /\ \A i \in 1..3 : av[i] = a[i]
      /\ \A i \in 1..L : av[3 + i] = value[i]
  <2>0. IsSequence(a)
    BY <1>1
  <2>1. /\ IsSequence(a \o value) /\ Len(a \o value) = Len(a) + Len(value)
        /\ \A i \in 1..Len(a) : (a \o value)[i] = a[i]
        /\ \A i \in 1..Len(value) : (a \o value)[Len(a) + i] = value[i]
    BY <2>0, Joined
  <2> QED BY <1>1, <2>1
<1> HIDE DEF av
<1>6. /\ IsSequence(h) /\ Len(h) = (3 + L) + 2
      /\ \A i \in 1..3 + L : h[i] = av[i]
      /\ \A i \in 1..2 : h[(3 + L) + i] = e[i]
  <2>0. IsSequence(av) /\ IsSequence(e)
    BY <1>2, <1>5
  <2>1. /\ IsSequence(av \o e) /\ Len(av \o e) = Len(av) + Len(e)
        /\ \A i \in 1..Len(av) : (av \o e)[i] = av[i]
        /\ \A i \in 1..Len(e) : (av \o e)[Len(av) + i] = e[i]
    BY <2>0, Joined
  <2>2. h = av \o e
    BY DEF av
  <2> QED BY <1>2, <1>5, <2>1, <2>2
<1> HIDE DEF h
<1>7. h[4 + L] = "CR" /\ h[5 + L] = "LF"
  <2>1. (3 + L) + 1 = 4 + L /\ (3 + L) + 2 = 5 + L
    BY <1>3
  <2>2. h[(3 + L) + 1] = e[1] /\ h[(3 + L) + 2] = e[2]
    BY <1>6
  <2> QED BY <1>2, <2>1, <2>2
<1>8. ASSUME NEW i \in 1..Len(h)
      PROVE  h[i] \notin Methods /\ (h[i] = ":" => \E j \in i + 1..Len(h) : h[j] = "CR")
  <2> USE DEF Methods
  <2>1. CASE i \in 1..3
    <3>1. h[i] = a[i]
      BY <1>3, <1>5, <1>6, <2>1
    <3>2. h[i] \notin Methods
      <4>1. i = 1 \/ i = 2 \/ i = 3
        BY <2>1
      <4>2. h[i] \in {key, ":", Blank}
        BY <1>1, <3>1, <4>1
      <4> QED BY <4>2, BlankToken
    <3>3. 4 + L \in i + 1..Len(h)
      BY <1>3, <1>6, <2>1
    <3> QED BY <1>7, <3>2, <3>3
  <2>2. CASE i \in 4..3 + L
    <3>1. i - 3 \in 1..L /\ 3 + (i - 3) = i /\ i \in 1..3 + L
      BY <1>3, <2>2
    <3>2. h[i] = value[i - 3]
      BY <1>5, <1>6, <3>1
    <3> QED BY <3>1, <3>2
  <2>3. CASE i = 4 + L \/ i = 5 + L
    BY <1>7, <2>3
  <2>4. i \in 1..3 \/ i \in 4..3 + L \/ i = 4 + L \/ i = 5 + L
    BY <1>3, <1>6
  <2> QED BY <2>1, <2>2, <2>3, <2>4
<1> QED BY <1>4, <1>6, <1>8 DEF Quiet

(* A sequence of tokens that are neither a method nor a colon. *)
LEMMA QuietTokens ==
  ASSUME NEW s, IsSequence(s), \A i \in 1..Len(s) : s[i] \notin Methods /\ s[i] # ":"
  PROVE  Quiet(s)
BY DEF Quiet

(* n times the same token. *)
Run(n, x) == [i \in 1..n |-> x]

(* A sequence of one token over and over. *)
LEMMA Repeated ==
  ASSUME NEW n \in Nat, NEW x
  PROVE  IsSequence(Run(n, x)) /\ \A i \in 1..Len(Run(n, x)) : Run(n, x)[i] = x
<1>1. Run(n, x) \in [1..n -> {x}]
  BY DEF Run
<1>2. Run(n, x) \in Seq({x}) /\ Len(Run(n, x)) = n
  BY <1>1
<1>3. \A i \in 1..n : Run(n, x)[i] = x
  BY DEF Run
<1> QED BY <1>2, <1>3 DEF IsSequence

(* A sequence of one token. *)
LEMMA Single ==
  ASSUME NEW x
  PROVE  IsSequence(<<x>>) /\ Len(<<x>>) = 1 /\ <<x>>[1] = x
<1>1. <<x>> \in Seq({x})
  OBVIOUS
<1> QED BY <1>1 DEF IsSequence

(* So are the headers and the body of every request. *)
LEMMA HeadersQuiet ==
  ASSUME NEW r \in Requests
  PROVE  Quiet(Headers(r))
<1>1. ASSUME NEW key, NEW x, key \notin Methods, key # ":", x \notin Methods, x # ":"
      PROVE  Quiet(Header(key, <<x>>))
  BY <1>1, QuietHeader, Single
<1>2. Quiet(Header("Host", <<"v">>)) /\ Quiet(Header("Accept", <<"v">>))
  BY <1>1 DEF Methods
<1>3. Quiet(Header("Host", [i \in 1..(MaxValue + 2) |-> "v"]))
  <2> DEFINE n == MaxValue + 2
             v == Run(n, "v")
  <2>1. n \in Nat
    BY ParserAssumption
  <2> HIDE DEF n
  <2>2. IsSequence(v) /\ \A i \in 1..Len(v) : v[i] = "v"
    BY <2>1, Repeated
  <2> HIDE DEF v
  <2>3. "v" \notin Methods /\ "Host" \notin Methods
    BY DEF Methods
  <2>4. Quiet(Header("Host", v))
    BY <2>2, <2>3, QuietHeader
  <2> QED BY <2>4 DEF v, n, Run
<1>4. r.special \in DOMAIN Number => Quiet(Header("Content-length", <<r.special>>))
  <2>1. DOMAIN Number = {"0", "1"}
    BY DEF Number
  <2>2. r.special \in {"0", "1"} => r.special \notin Methods /\ r.special # ":"
    BY DEF Methods
  <2>3. "Content-length" \notin Methods
    BY DEF Methods
  <2> QED BY <1>1, <2>1, <2>2, <2>3
<1>5. Quiet(<<>>)
  <2>1. IsSequence(<<>>) /\ Len(<<>>) = 0
    BY EmptySeq DEF IsSequence
  <2> QED BY <2>1, QuietTokens
<1>6. Quiet(Header("Host", <<"v">>) \o Header("Accept", <<"v">>))
  BY <1>2, QuietJoin
<1>7. \/ Headers(r) = <<>>
      \/ Headers(r) = Header("Host", <<"v">>) \o Header("Accept", <<"v">>)
      \/ Headers(r) = Header("Host", [i \in 1..(MaxValue + 2) |-> "v"])
      \/ r.special \in DOMAIN Number /\ Headers(r) = Header("Content-length", <<r.special>>)
      \/ Headers(r) = Header("Host", <<"v">>)
  <2>1. DOMAIN Number = {"0", "1"}
    BY DEF Number
  <2>2. CASE r.special = "no header"
    BY <2>1, <2>2 DEF Headers
  <2>3. CASE r.special = "two headers"
    BY <2>1, <2>3 DEF Headers
  <2>4. CASE r.special = "long"
    BY <2>1, <2>4 DEF Headers
  <2>5. CASE r.special \in DOMAIN Number
    BY <2>1, <2>5 DEF Headers
  <2>6. CASE r.special \notin {"no header", "two headers", "long"} \cup DOMAIN Number
    BY <2>1, <2>6 DEF Headers
  <2> QED BY <2>2, <2>3, <2>4, <2>5, <2>6
<1> QED BY <1>2, <1>3, <1>4, <1>5, <1>6, <1>7

(* So are the bodies. *)
LEMMA BodyQuiet ==
  ASSUME NEW r \in Requests
  PROVE  Quiet(Body(r))
<1>1. CASE r.special \in DOMAIN Number
  <2> DEFINE n == Number[r.special]
             v == Run(n, "b")
  <2>1. n \in Nat
    BY <1>1 DEF Number
  <2>2. Body(r) = v
    BY <1>1 DEF Body, Run
  <2> HIDE DEF n
  <2>3. IsSequence(v) /\ \A i \in 1..Len(v) : v[i] = "b"
    BY <2>1, Repeated
  <2> HIDE DEF v
  <2> QED BY <2>2, <2>3, QuietTokens DEF Methods
<1>2. CASE r.special \notin DOMAIN Number
  <2>1. Body(r) = <<>>
    BY <1>2 DEF Body
  <2>2. IsSequence(<<>>) /\ Len(<<>>) = 0
    BY EmptySeq DEF IsSequence
  <2> QED BY <2>1, <2>2, QuietTokens
<1> QED BY <1>1, <1>2

(* Joining three texts, from either end. *)
Associates(s, t, u) == (s \o t) \o u = s \o (t \o u)

(* Joining is associative. *)
LEMMA JoinAssociative ==
  ASSUME NEW s, IsSequence(s), NEW t, IsSequence(t), NEW u, IsSequence(u)
  PROVE  Associates(s, t, u)
<1> USE DEF Associates
<1>1. PICK S, T, U : s \in Seq(S) /\ t \in Seq(T) /\ u \in Seq(U)
  BY DEF IsSequence
<1> DEFINE V == S \cup T \cup U
<1>2. S \subseteq V /\ T \subseteq V /\ U \subseteq V
  OBVIOUS
<1> HIDE DEF V
<1>3. s \in Seq(V) /\ t \in Seq(V) /\ u \in Seq(V)
  BY <1>1, <1>2, SeqMonotonic
<1> QED BY <1>3, ConcatAssociative

(* Where the tokens that the parser looks for stand in a request line.      *)
LEMMA LineTokens ==
  ASSUME NEW r \in Requests, NEW w, LineForm(r, w), NEW i \in 1..w + 7
  PROVE  /\ Line(r)[i] \in Methods => i = 1
         /\ Line(r)[i] # ":"
         /\ Line(r)[i] = "CR" => i = w + 6
         /\ Line(r)[i] = Blank => i = w + 3
<1> DEFINE t == Line(r)[i]
<1>1. /\ w \in {0, 1, 3}
      /\ Line(r)[1] = r.method /\ Line(r)[2] = "/"
      /\ Line(r)[w + 3] = Blank /\ Line(r)[w + 4] = "/" /\ Line(r)[w + 5] = "1.1"
      /\ Line(r)[w + 6] = "CR" /\ Line(r)[w + 7] = "LF"
      /\ r.special = "query" => w = 3 /\ Line(r)[3] = "f" /\ Line(r)[4] = "?" /\ Line(r)[5] = "q"
      /\ r.special # "query" /\ r.path = Root => w = 0
      /\ r.special # "query" /\ r.path # Root => w = 1 /\ Line(r)[3] = r.path
  BY DEF LineForm
<1>W. w \in Nat
  <2>1. w \in {0, 1, 3}
    BY <1>1
  <2> QED BY <2>1
<1>2. r.method \in {"GET", "HEAD", "POST"} /\ (r.path # Root => r.path \in Names)
  BY RequestFields
<1>3. r.path # Root => r.path \notin Delimiters
  BY <1>2, ParserAssumption
<1>4. CASE i = 1
  BY <1>1, BlankToken, <1>2, <1>4 DEF Methods
<1>5. CASE i = 2
  BY <1>1, BlankToken, <1>5 DEF Methods
<1>6. CASE i \in 3..w + 2
  <2>1. CASE r.special = "query"
    <3>0. w = 3
      BY <1>1, <2>1
    <3>1. i = 3 \/ i = 4 \/ i = 5
      BY <1>6, <3>0
    <3>2. t \in {"f", "?", "q"}
      BY <1>1, <2>1, <3>1
    <3> HIDE DEF t
    <3>3. t \notin Methods /\ t # ":" /\ t # "CR" /\ t # Blank
      BY <3>2, BlankToken DEF Methods
    <3> QED BY <3>3 DEF t
  <2>2. CASE r.special # "query"
    <3>0. (r.path = Root => w = 0) /\ (r.path # Root => w = 1)
      BY <1>1, <2>2
    <3>1. r.path # Root /\ i = 3
      <4>1. CASE r.path = Root
        <5>1. w = 0
          BY <3>0, <4>1
        <5> QED BY <1>6, <5>1
      <4>2. CASE r.path # Root
        <5>1. w = 1
          BY <3>0, <4>2
        <5>2. i = 3
          BY <1>6, <5>1
        <5> QED BY <4>2, <5>2
      <4> QED BY <4>1, <4>2
    <3>2. t = r.path /\ r.path \notin Delimiters
      BY <1>1, <1>3, <2>2, <3>1
    <3> HIDE DEF t
    <3>3. t \notin Methods /\ t # ":" /\ t # "CR" /\ t # Blank
      BY <3>2 DEF Methods, Delimiters
    <3> QED BY <3>3 DEF t
  <2> QED BY <2>1, <2>2
<1>7. CASE i = w + 3
  BY <1>1, BlankToken, <1>7 DEF Methods
<1>8. CASE i = w + 4
  BY <1>1, BlankToken, <1>8 DEF Methods
<1>9. CASE i = w + 5
  BY <1>1, BlankToken, <1>9 DEF Methods
<1>10. CASE i = w + 6
  BY <1>1, BlankToken, <1>10 DEF Methods
<1>11. CASE i = w + 7
  BY <1>1, BlankToken, <1>11 DEF Methods
<1>12. \/ i = 1 \/ i = 2 \/ i \in 3..w + 2 \/ i = w + 3 \/ i = w + 4 \/ i = w + 5
       \/ i = w + 6 \/ i = w + 7
  BY <1>W
<1> QED BY <1>4, <1>5, <1>6, <1>7, <1>8, <1>9, <1>10, <1>11, <1>12

(* A request is its line and a quiet rest. *)
TextForm(r, w) ==
  /\ LineForm(r, w) /\ w \in Nat
  /\ IsSequence(Text(r)) /\ Len(Text(r)) \in Nat /\ w + 7 <= Len(Text(r))
  /\ \A i \in 1..w + 7 : Text(r)[i] = Line(r)[i]
  /\ \A i \in 1..Len(Text(r)) :
       /\ Text(r)[i] \in Methods => i = 1
       /\ Text(r)[i] = ":" => i > w + 7 /\ \E j \in i + 1..Len(Text(r)) : Text(r)[j] = "CR"

(* Every request is of that form. *)
LEMMA TextHasForm ==
  ASSUME NEW r \in Requests
  PROVE  \E w : TextForm(r, w)
<1>1. PICK w : LineForm(r, w)
  BY LineHasForm
<1>2. w \in Nat /\ IsSequence(Line(r)) /\ Len(Line(r)) = w + 7
  <2>1. w \in {0, 1, 3} /\ IsSequence(Line(r)) /\ Len(Line(r)) = w + 7
    BY <1>1 DEF LineForm
  <2> QED BY <2>1
<1> DEFINE e == <<"CR", "LF">>
           rest == (Headers(r) \o e) \o Body(r)
           L == Line(r)
           T == Text(r)
<1>3. Quiet(e)
  <2>1. e \in Seq({"CR", "LF"})
    OBVIOUS
  <2>2. IsSequence(e) /\ Len(e) = 2
    BY <2>1 DEF IsSequence
  <2>3. \A i \in 1..2 : e[i] \notin Methods /\ e[i] # ":"
    BY DEF Methods
  <2> HIDE DEF e
  <2> QED BY <2>2, <2>3, QuietTokens
<1>4. Quiet(Headers(r)) /\ Quiet(Body(r))
  BY HeadersQuiet, BodyQuiet
<1>5. Quiet(rest)
  <2> HIDE DEF e
  <2>1. Quiet(Headers(r) \o e)
    BY <1>3, <1>4, QuietJoin
  <2> QED BY <1>4, <2>1, QuietJoin
<1>6. IsSequence(e) /\ IsSequence(Headers(r)) /\ IsSequence(Body(r)) /\ IsSequence(rest)
  BY <1>3, <1>4, <1>5 DEF Quiet
<1>7. T = L \o rest
  <2>1. T = ((L \o Headers(r)) \o e) \o Body(r)
    BY DEF Text
  <2> HIDE DEF e, L, T
  <2>2. IsSequence(L)
    BY <1>2 DEF L
  <2>3. IsSequence(L \o Headers(r)) /\ IsSequence(Headers(r) \o e)
    BY <1>6, <2>2, Joined
  <2>4. Associates(L, Headers(r), e) /\ Associates(L, Headers(r) \o e, Body(r))
    BY <1>6, <2>2, <2>3, JoinAssociative
  <2>5. ((L \o Headers(r)) \o e) \o Body(r) = (L \o (Headers(r) \o e)) \o Body(r)
    BY <2>4 DEF Associates
  <2>6. (L \o (Headers(r) \o e)) \o Body(r) = L \o ((Headers(r) \o e) \o Body(r))
    BY <2>4 DEF Associates
  <2> QED BY <2>1, <2>5, <2>6
<1> HIDE DEF rest
<1>8. IsSequence(L)
  BY <1>2
<1>9. Len(rest) \in Nat
  BY <1>6, SequenceLen
<1>10. /\ IsSequence(T) /\ Len(T) = (w + 7) + Len(rest)
       /\ \A i \in 1..w + 7 : T[i] = L[i]
       /\ \A i \in 1..Len(rest) : T[(w + 7) + i] = rest[i]
  <2> HIDE DEF L, T
  <2>1. /\ IsSequence(L \o rest) /\ Len(L \o rest) = Len(L) + Len(rest)
        /\ \A i \in 1..Len(L) : (L \o rest)[i] = L[i]
        /\ \A i \in 1..Len(rest) : (L \o rest)[Len(L) + i] = rest[i]
    BY <1>6, <1>8, Joined
  <2>2. Len(L) = w + 7
    BY <1>2 DEF L
  <2> QED BY <1>7, <2>1, <2>2
<1>11. ASSUME NEW i \in 1..Len(T)
       PROVE  /\ T[i] \in Methods => i = 1
              /\ T[i] = ":" => i > w + 7 /\ \E j \in i + 1..Len(T) : T[j] = "CR"
  <2> HIDE DEF T
  <2>1. CASE i \in 1..w + 7
    <3>1. (L[i] \in Methods => i = 1) /\ L[i] # ":"
      BY <1>1, <2>1, LineTokens
    <3>2. T[i] = L[i]
      BY <1>10, <2>1
    <3> HIDE DEF L
    <3> QED BY <3>1, <3>2
  <2>2. CASE i \notin 1..w + 7
    <3> HIDE DEF L
    <3> DEFINE k == i - (w + 7)
    <3>1. k \in 1..Len(rest) /\ (w + 7) + k = i /\ i > w + 7
      BY <1>2, <1>9, <1>10, <2>2
    <3>2. T[i] = rest[k]
      BY <1>10, <3>1
    <3>3. rest[k] \notin Methods /\ (rest[k] = ":" => \E j \in k + 1..Len(rest) : rest[j] = "CR")
      BY <1>5, <3>1 DEF Quiet
    <3>4. ASSUME NEW j \in k + 1..Len(rest), rest[j] = "CR"
          PROVE  (w + 7) + j \in i + 1..Len(T) /\ T[(w + 7) + j] = "CR"
      <4>1. j \in 1..Len(rest) /\ (w + 7) + j \in i + 1..(w + 7) + Len(rest)
        BY <1>2, <1>9, <3>1
      <4> QED BY <1>10, <3>4, <4>1
    <3> HIDE DEF k
    <3> QED BY <3>1, <3>2, <3>3, <3>4
  <2> QED BY <2>1, <2>2
<1>12. Len(T) \in Nat /\ w + 7 <= Len(T)
  BY <1>2, <1>9, <1>10
<1> QED BY <1>1, <1>2, <1>10, <1>11, <1>12 DEF TextForm

-----------------------------------------------------------------------------
(* The stream, and where the requests lie in it.                            *)

(* The texts of the first n requests. *)
Texts(n) == [j \in 1..n |-> Text(requests[j])]

(* The stream up to the end of request n. *)
Before(n) == FlattenSeq(Texts(n))

(* The texts of the first n requests. *)
LEMMA TextsLen ==
  ASSUME NEW n \in Nat
  PROVE  /\ Len(Texts(n)) = n /\ IsSequence(Texts(n))
         /\ \A j \in 1..n : Texts(n)[j] = Text(requests[j])
<1> DEFINE S == {Text(requests[j]) : j \in 1..n}
<1>1. Texts(n) \in [1..n -> S]
  BY DEF Texts
<1>2. \A j \in 1..n : Texts(n)[j] = Text(requests[j])
  BY DEF Texts
<1> HIDE DEF S
<1>3. Texts(n) \in Seq(S) /\ Len(Texts(n)) = n
  BY <1>1
<1> QED BY <1>2, <1>3 DEF IsSequence

(* Before, unrolled by one request: a longer list flattens to a longer      *)
(* text.                                                                    *)
LEMMA BeforeStep ==
  ASSUME NEW n \in Nat \ {0, 1}
  PROVE  Before(n) = Before(n - 1) \o Text(requests[n])
<1>0. n \in Nat /\ n - 1 \in Nat /\ n \in 2..n /\ n \in Nat \ {0} /\ n - 1 \in Nat \ {0}
  OBVIOUS
<1>1. Len(Texts(n)) = n /\ \A j \in 1..n : Texts(n)[j] = Text(requests[j])
  BY <1>0, TextsLen
<1>2. Len(Texts(n - 1)) = n - 1 /\ \A j \in 1..n - 1 : Texts(n - 1)[j] = Text(requests[j])
  BY <1>0, TextsLen
<1>3. PICK f : /\ f[1] = Texts(n)[1]
               /\ \A i \in 2..Len(Texts(n)) : f[i] = f[i - 1] \o Texts(n)[i]
               /\ FlattenSeq(Texts(n)) = f[Len(Texts(n))]
  <2>1. Len(Texts(n)) \in Nat \ {0}
    BY <1>0, <1>1
  <2> QED BY <2>1, FlattenSteps
<1>4. PICK g : /\ g[1] = Texts(n - 1)[1]
               /\ \A i \in 2..Len(Texts(n - 1)) : g[i] = g[i - 1] \o Texts(n - 1)[i]
               /\ FlattenSeq(Texts(n - 1)) = g[Len(Texts(n - 1))]
  <2>1. Len(Texts(n - 1)) \in Nat \ {0}
    BY <1>0, <1>2
  <2> QED BY <2>1, FlattenSteps
<1>5. /\ f[1] = Text(requests[1])
      /\ \A i \in 2..n : f[i] = f[i - 1] \o Text(requests[i])
      /\ Before(n) = f[n]
  <2>1. 1 \in 1..n /\ \A i \in 2..n : i \in 1..n
    OBVIOUS
  <2> QED BY <1>1, <1>3, <2>1 DEF Before
<1>6. /\ g[1] = Text(requests[1])
      /\ \A i \in 2..n - 1 : g[i] = g[i - 1] \o Text(requests[i])
      /\ Before(n - 1) = g[n - 1]
  <2>1. 1 \in 1..n - 1 /\ \A i \in 2..n - 1 : i \in 1..n - 1
    OBVIOUS
  <2> QED BY <1>2, <1>4, <2>1 DEF Before
<1> DEFINE T == {i \in Nat : i = 0 \/ f[i] = g[i]}
<1>7. 0 \in T
  OBVIOUS
<1>8. ASSUME NEW i \in 0..(n - 1) - 1, i \in T
      PROVE  i + 1 \in T
  <2>1. CASE i = 0
    BY <1>5, <1>6, <2>1
  <2>2. CASE i # 0
    <3>1. i + 1 \in 2..n /\ i + 1 \in 2..n - 1 /\ (i + 1) - 1 = i /\ i + 1 \in Nat
      BY <2>2
    <3>2. f[i] = g[i]
      BY <1>8, <2>2
    <3>3. f[i + 1] = f[i] \o Text(requests[i + 1]) /\ g[i + 1] = g[i] \o Text(requests[i + 1])
      BY <1>5, <1>6, <3>1
    <3> QED BY <3>1, <3>2, <3>3
  <2> QED BY <2>1, <2>2
<1>9. f[n - 1] = g[n - 1]
  <2>1. n - 1 \in 0..n - 1 /\ n - 1 # 0
    BY <1>0
  <2> HIDE DEF T
  <2>2. \A i \in 0..n - 1 : i \in T
    BY <1>0, <1>7, <1>8, Induction
  <2>3. n - 1 \in T
    BY <2>1, <2>2
  <2> QED BY <2>1, <2>3 DEF T
<1> QED BY <1>0, <1>5, <1>6, <1>9

(* Before the first request there is nothing. *)
LEMMA BeforeFirst ==
  /\ IsSequence(Before(0)) /\ Len(Before(0)) = 0
  /\ Before(1) = Text(requests[1])
<1>1. Len(Texts(0)) = 0 /\ IsSequence(Texts(0))
  BY TextsLen
<1>2. Before(0) = Texts(0)
  BY <1>1 DEF Before, FlattenSeq
<1>3. Len(Texts(1)) = 1 /\ Texts(1)[1] = Text(requests[1])
  <2>1. Len(Texts(1)) = 1 /\ \A j \in 1..1 : Texts(1)[j] = Text(requests[j])
    BY TextsLen
  <2>2. 1 \in 1..1
    OBVIOUS
  <2> QED BY <2>1, <2>2
<1>4. PICK f : f[1] = Texts(1)[1] /\ FlattenSeq(Texts(1)) = f[Len(Texts(1))]
  <2>1. Len(Texts(1)) \in Nat \ {0}
    BY <1>3
  <2> QED BY <2>1, FlattenSteps
<1> QED BY <1>1, <1>2, <1>3, <1>4 DEF Before

(* How long that is. *)
Off(n) == Len(Before(n))

(* Before, one request after the other. *)
LEMMA BeforeNext ==
  ASSUME requests \in Seq(Requests), NEW n \in Nat, n + 1 \in 1..Len(requests),
         IsSequence(Before(n))
  PROVE  LET t == Text(requests[n + 1])
         IN  /\ IsSequence(Before(n + 1)) /\ Off(n + 1) = Off(n) + Len(t)
             /\ \A i \in 1..Off(n) : Before(n + 1)[i] = Before(n)[i]
             /\ \A i \in 1..Len(t) : Before(n + 1)[Off(n) + i] = t[i]
<1> DEFINE t == Text(requests[n + 1])
<1>1. requests[n + 1] \in Requests
  BY ElementOfSeq
<1>2. IsSequence(t)
  BY <1>1, TextHasForm DEF TextForm
<1> HIDE DEF t
<1>3. CASE n = 0
  <2>1. Before(1) = t /\ Len(Before(0)) = 0
    BY <1>3, BeforeFirst DEF t
  <2>2. Len(t) \in Nat
    BY <1>2, SequenceLen
  <2>3. \A i \in 1..Len(t) : 0 + i = i
    BY <2>2
  <2>4. Off(1) = Len(t) /\ Off(0) = 0
    BY <2>1 DEF Off
  <2>5. Off(1) = Off(0) + Len(t)
    BY <2>2, <2>4
  <2> QED BY <1>2, <1>3, <2>1, <2>3, <2>4, <2>5 DEF t
<1>4. CASE n # 0
  <2>1. n + 1 \in Nat \ {0, 1} /\ (n + 1) - 1 = n
    BY <1>4
  <2>2. Before(n + 1) = Before(n) \o t
    BY <2>1, BeforeStep DEF t
  <2>3. /\ IsSequence(Before(n) \o t) /\ Len(Before(n) \o t) = Len(Before(n)) + Len(t)
        /\ \A i \in 1..Len(Before(n)) : (Before(n) \o t)[i] = Before(n)[i]
        /\ \A i \in 1..Len(t) : (Before(n) \o t)[Len(Before(n)) + i] = t[i]
    BY <1>2, Joined
  <2> QED BY <2>2, <2>3 DEF Off, t
<1> QED BY <1>3, <1>4

(* Where each request lies in the stream. *)
LaidOut(n) ==
  /\ IsSequence(Before(n)) /\ Off(n) \in Nat
  /\ \A m \in 0..n : Off(m) \in 0..Off(n) /\ \A i \in 1..Off(m) : Before(n)[i] = Before(m)[i]
  /\ \A i \in 1..Off(n) : \E k \in 1..n : i - Off(k - 1) \in 1..Len(Text(requests[k]))

(* Requests lie one after the other, by induction on their number. *)
LEMMA Layout ==
  ASSUME requests \in Seq(Requests)
  PROVE  /\ Len(requests) \in Nat
         /\ \A n \in 0..Len(requests) : LaidOut(n)
<1> DEFINE N == Len(requests)
           T == {n \in Nat : LaidOut(n)}
<1>1. N \in Nat
  BY LenProperties
<1> HIDE DEF N
<1>2. 0 \in T
  <2>1. IsSequence(Before(0)) /\ Off(0) = 0
    BY BeforeFirst DEF Off
  <2>2. \A m \in 0..0 : Off(m) \in 0..Off(0) /\ \A i \in 1..Off(m) : Before(0)[i] = Before(m)[i]
    BY <2>1
  <2>3. \A i \in 1..Off(0) : FALSE
    BY <2>1
  <2>4. LaidOut(0)
    BY <2>1, <2>2, <2>3 DEF LaidOut
  <2> QED BY <2>4
<1>3. ASSUME NEW n \in 0..N - 1, n \in T
      PROVE  n + 1 \in T
  <2> DEFINE t == Text(requests[n + 1])
  <2>1. n \in Nat /\ n + 1 \in 1..N /\ n + 1 \in Nat
    BY <1>1
  <2>2. LaidOut(n)
    BY <1>3
  <2>3. IsSequence(Before(n)) /\ Off(n) \in Nat
    BY <2>2 DEF LaidOut
  <2>4. /\ IsSequence(Before(n + 1)) /\ Off(n + 1) = Off(n) + Len(t)
        /\ \A i \in 1..Off(n) : Before(n + 1)[i] = Before(n)[i]
    BY <2>1, <2>3, BeforeNext DEF N
  <2>5. Len(t) \in Nat
    <3>1. requests[n + 1] \in Requests
      BY <2>1, ElementOfSeq DEF N
    <3> QED BY <3>1, TextHasForm DEF TextForm
  <2>6. Off(n + 1) \in Nat /\ Off(n) <= Off(n + 1)
    BY <2>3, <2>4, <2>5
  <2>7. ASSUME NEW m \in 0..n + 1
        PROVE  Off(m) \in 0..Off(n + 1) /\ \A i \in 1..Off(m) : Before(n + 1)[i] = Before(m)[i]
    <3>1. CASE m = n + 1
      BY <2>6, <3>1
    <3>2. CASE m \in 0..n
      <4>1. /\ Off(m) \in 0..Off(n)
            /\ \A i \in 1..Off(m) : Before(n)[i] = Before(m)[i]
        BY <2>2, <3>2 DEF LaidOut
      <4>3. Off(m) \in 0..Off(n + 1)
        BY <2>3, <2>6, <4>1
      <4>4. \A i \in 1..Off(m) : i \in 1..Off(n)
        BY <2>3, <4>1
      <4> QED BY <2>4, <4>1, <4>3, <4>4
    <3> QED BY <2>1, <3>1, <3>2
  <2>8. ASSUME NEW i \in 1..Off(n + 1)
        PROVE  \E k \in 1..n + 1 : i - Off(k - 1) \in 1..Len(Text(requests[k]))
    <3>1. CASE i <= Off(n)
      <4>1. i \in 1..Off(n)
        BY <2>3, <3>1
      <4>2. PICK k \in 1..n : i - Off(k - 1) \in 1..Len(Text(requests[k]))
        BY <2>2, <4>1 DEF LaidOut
      <4> QED BY <2>1, <4>2
    <3>2. CASE ~(i <= Off(n))
      <4>1. i - Off(n) \in 1..Len(t)
        BY <2>3, <2>4, <2>5, <3>2
      <4>2. (n + 1) - 1 = n /\ n + 1 \in 1..n + 1
        BY <2>1
      <4>3. i - Off((n + 1) - 1) \in 1..Len(Text(requests[n + 1]))
        BY <4>1, <4>2
      <4> QED BY <4>2, <4>3
    <3> QED BY <3>1, <3>2
  <2>9. LaidOut(n + 1)
    BY <2>4, <2>6, <2>7, <2>8 DEF LaidOut
  <2> QED BY <2>1, <2>9
<1>4. \A n \in 0..N : n \in T
  <2> HIDE DEF T
  <2> QED BY <1>1, <1>2, <1>3, Induction
<1> QED BY <1>1, <1>4 DEF N

(* The end of the line of request k: its CR.  0 stands for no request.      *)
Shut(k) == Start(k) + Len(Line(requests[k])) - 1
LineEnd(k) == IF k = 0 THEN 0 ELSE Shut(k)

(* Where the marks of the requests stand in the stream. *)
Marks ==
  LET N == Len(requests)
  IN  /\ N \in Nat /\ DOMAIN requests = 1..N /\ \A k \in 1..N : requests[k] \in Requests
      /\ IsSequence(Stream) /\ Len(Stream) \in Nat
      /\ \A k \in 1..N : /\ Start(k) \in Nat /\ Shut(k) \in Nat
                         /\ Start(k) + 1 < Shut(k) /\ Shut(k) <= Len(Stream)
                         /\ \A j \in 1..k - 1 : Shut(j) < Start(k)
      /\ \A i \in 1..Len(Stream) : Stream[i] \in Methods => \E k \in 1..N : i = Start(k) + 1
      /\ \A k \in 1..N : \A i \in 1..Len(Line(requests[k])) :
           Stream[Start(k) + i] = Line(requests[k])[i]
      /\ \A k \in 1..N : \A i \in 1..Start(k) :
           Stream[i] = ":" => \E j \in i + 1..Start(k) : Stream[j] = "CR"

(* The method, CR and colons of every request stand where Marks says. *)
LEMMA StreamMarks ==
  ASSUME requests \in Seq(Requests)
  PROVE  Marks
<1> DEFINE N == Len(requests)
           L(k) == Line(requests[k])
           X(k) == Text(requests[k])
<1>1. N \in Nat /\ DOMAIN requests = 1..N /\ \A k \in 1..N : requests[k] \in Requests
  BY LenProperties, ElementOfSeq
<1>2. \A n \in 0..N : LaidOut(n)
  BY Layout
<1>3. Stream = Before(N)
  BY <1>1 DEF Stream, Before, Texts
<1>4. ASSUME NEW k \in 1..N
      PROVE  /\ k \in Nat /\ k - 1 \in 0..N /\ k \in 0..N /\ k - 1 \in 0..k /\ N \in 0..N /\ k \in 0..N
  BY <1>1
<1>5. \A k \in 1..N : Start(k) = Off(k - 1)
  BY DEF Start, Off, Before, Texts
<1> HIDE DEF N, L, X
<1>6. ASSUME NEW k \in 1..N
      PROVE  \E w : /\ TextForm(requests[k], w) /\ Len(L(k)) = w + 7 /\ w \in Nat
                    /\ Shut(k) = Start(k) + (w + 6)
                    /\ Start(k) \in Nat /\ Off(k) = Start(k) + Len(X(k))
                    /\ \A i \in 1..Len(X(k)) : Before(k)[Start(k) + i] = X(k)[i]
  <2>1. PICK w : TextForm(requests[k], w)
    BY <1>1, TextHasForm
  <2>2. Len(L(k)) = w + 7 /\ w \in Nat
    BY <2>1 DEF TextForm, LineForm, L
  <2>3. LaidOut(k - 1)
    BY <1>2, <1>4
  <2>4. Start(k) \in Nat
    BY <1>5, <2>3 DEF LaidOut
  <2>5. Shut(k) = Start(k) + (w + 6)
    <3>1. Shut(k) = Start(k) + Len(L(k)) - 1
      BY DEF Shut, L
    <3> QED BY <2>2, <2>4, <3>1
  <2>6. k - 1 \in Nat /\ (k - 1) + 1 = k
    BY <1>1
  <2>7. IsSequence(Before(k - 1))
    BY <2>3 DEF LaidOut
  <2>8. /\ Off((k - 1) + 1) = Off(k - 1) + Len(Text(requests[(k - 1) + 1]))
        /\ \A i \in 1..Len(Text(requests[(k - 1) + 1])) :
             Before((k - 1) + 1)[Off(k - 1) + i] = Text(requests[(k - 1) + 1])[i]
    BY <2>6, <2>7, BeforeNext DEF N
  <2>9. /\ Off(k) = Start(k) + Len(X(k))
        /\ \A i \in 1..Len(X(k)) : Before(k)[Start(k) + i] = X(k)[i]
    BY <1>5, <2>6, <2>8 DEF X
  <2> QED BY <2>1, <2>2, <2>4, <2>5, <2>9
<1>7. ASSUME NEW m \in 0..N
      PROVE  /\ Off(m) \in 0..Off(N)
             /\ \A i \in 1..Off(m) : Stream[i] = Before(m)[i]
  <2>1. LaidOut(N)
    BY <1>1, <1>2
  <2> QED BY <1>3, <2>1 DEF LaidOut
<1>8. ASSUME NEW m \in 0..N, NEW n \in 0..N, m <= n
      PROVE  Off(m) \in 0..Off(n)
  <2>1. LaidOut(n) /\ m \in 0..n
    BY <1>1, <1>2, <1>8
  <2> QED BY <2>1 DEF LaidOut
<1>9. Off(N) = Len(Stream) /\ Len(Stream) \in Nat /\ IsSequence(Stream)
  BY <1>1, <1>2, <1>3 DEF LaidOut, Off
<1>10. ASSUME NEW k \in 1..N
       PROVE  \A i \in 1..Len(X(k)) : /\ Stream[Start(k) + i] = X(k)[i]
                                      /\ Start(k) + i \in 1..Len(Stream)
                                      /\ Start(k) + i <= Off(k)
  <2>1. PICK w : /\ TextForm(requests[k], w) /\ Start(k) \in Nat /\ Off(k) = Start(k) + Len(X(k))
                 /\ \A i \in 1..Len(X(k)) : Before(k)[Start(k) + i] = X(k)[i]
    BY <1>6
  <2>2. Len(X(k)) \in Nat
    BY <2>1 DEF TextForm, X
  <2>3. /\ Off(k) \in 0..Len(Stream)
        /\ \A j \in 1..Off(k) : Stream[j] = Before(k)[j]
    BY <1>4, <1>7, <1>9
  <2>4. ASSUME NEW i \in 1..Len(X(k))
        PROVE  Start(k) + i \in 1..Off(k) /\ Start(k) + i <= Off(k)
    BY <2>1, <2>2
  <2>5. ASSUME NEW i \in 1..Len(X(k))
        PROVE  Start(k) + i \in 1..Len(Stream)
    BY <1>9, <2>3, <2>4
  <2> QED BY <2>1, <2>3, <2>4, <2>5
<1>11. ASSUME NEW k \in 1..N
       PROVE  /\ Start(k) \in Nat /\ Shut(k) \in Nat
              /\ Start(k) + 1 < Shut(k) /\ Shut(k) <= Len(Stream) /\ Shut(k) < Off(k)
  <2>1. PICK w : /\ TextForm(requests[k], w) /\ w \in Nat /\ Shut(k) = Start(k) + (w + 6)
                 /\ Start(k) \in Nat /\ Off(k) = Start(k) + Len(X(k))
    BY <1>6
  <2>2. Len(X(k)) \in Nat /\ w + 7 <= Len(X(k))
    BY <2>1 DEF TextForm, X
  <2>3. Off(k) \in 0..Len(Stream)
    BY <1>4, <1>7, <1>9
  <2> QED BY <1>9, <2>1, <2>2, <2>3
<1>12. ASSUME NEW k \in 1..N, NEW j \in 1..k - 1
       PROVE  Shut(j) < Start(k)
  <2>1. j \in 1..N /\ j \in 0..N /\ k - 1 \in 0..N /\ j <= k - 1
    BY <1>1
  <2>2. Shut(j) \in Nat /\ Shut(j) < Off(j) /\ Start(k) \in Nat
    BY <1>11, <2>1
  <2>3. Off(j) \in 0..Start(k)
    BY <1>5, <1>8, <2>1
  <2> QED BY <2>2, <2>3
<1>13. ASSUME NEW i \in 1..Len(Stream)
       PROVE  \E k \in 1..N : \E j \in 1..Len(X(k)) : i = Start(k) + j /\ Stream[i] = X(k)[j]
  <2>1. PICK k \in 1..N : i - Off(k - 1) \in 1..Len(Text(requests[k]))
    BY <1>1, <1>2, <1>9 DEF LaidOut
  <2> DEFINE j == i - Off(k - 1)
  <2>2. j \in 1..Len(X(k))
    BY <2>1 DEF X
  <2>3. Start(k) \in Nat
    BY <1>11
  <2>4. i = Start(k) + j
    BY <1>5, <1>9, <2>3
  <2>5. Stream[Start(k) + j] = X(k)[j]
    BY <1>10, <2>2
  <2> HIDE DEF j
  <2> QED BY <2>2, <2>4, <2>5
<1>14. ASSUME NEW i \in 1..Len(Stream), Stream[i] \in Methods
       PROVE  \E k \in 1..N : i = Start(k) + 1
  <2>1. PICK k \in 1..N : \E j \in 1..Len(X(k)) : i = Start(k) + j /\ Stream[i] = X(k)[j]
    BY <1>13
  <2>2. PICK j \in 1..Len(X(k)) : i = Start(k) + j /\ Stream[i] = X(k)[j]
    BY <2>1
  <2>3. PICK w : TextForm(requests[k], w)
    BY <1>6
  <2>4. j = 1
    BY <1>14, <2>2, <2>3 DEF TextForm, X
  <2> QED BY <2>2, <2>4
<1>15. ASSUME NEW k \in 1..N, NEW i \in 1..Len(L(k))
       PROVE  Stream[Start(k) + i] = L(k)[i]
  <2>1. PICK w : TextForm(requests[k], w) /\ Len(L(k)) = w + 7 /\ w \in Nat
    BY <1>6
  <2>2. /\ Len(X(k)) \in Nat /\ w + 7 <= Len(X(k))
        /\ \A n \in 1..w + 7 : X(k)[n] = L(k)[n]
    BY <2>1 DEF TextForm, X, L
  <2>3. i \in 1..w + 7 /\ i \in 1..Len(X(k))
    BY <2>1, <2>2
  <2> QED BY <1>10, <2>2, <2>3
<1>16. ASSUME NEW k \in 1..N, NEW i \in 1..Start(k), Stream[i] = ":"
       PROVE  \E j \in i + 1..Start(k) : Stream[j] = "CR"
  <2>1. Start(k) \in Nat /\ Start(k) <= Len(Stream) /\ i \in 1..Len(Stream)
    BY <1>9, <1>11
  <2>2. PICK m \in 1..N : \E j \in 1..Len(X(m)) : i = Start(m) + j /\ Stream[i] = X(m)[j]
    BY <1>13, <2>1
  <2>3. PICK j \in 1..Len(X(m)) : i = Start(m) + j /\ Stream[i] = X(m)[j]
    BY <2>2
  <2>4. PICK w : TextForm(requests[m], w) /\ Start(m) \in Nat
    BY <1>6
  <2>5. PICK n \in j + 1..Len(X(m)) : X(m)[n] = "CR"
    BY <1>16, <2>3, <2>4 DEF TextForm, X
  <2>6. Len(X(m)) \in Nat
    BY <2>4 DEF TextForm, X
  <2>7. n \in 1..Len(X(m)) /\ Start(m) + n > i /\ Start(m) + n \in Nat
    BY <2>3, <2>4, <2>5, <2>6
  <2>8. Stream[Start(m) + n] = "CR" /\ Start(m) + n <= Off(m)
    BY <1>10, <2>5, <2>7
  <2>9. m <= k - 1
    <3>1. SUFFICES ASSUME ~(m <= k - 1) PROVE FALSE
      OBVIOUS
    <3>2. k - 1 \in 0..N /\ m - 1 \in 0..N /\ k - 1 <= m - 1
      BY <1>1, <3>1
    <3>3. Start(k) <= Start(m)
      <4>1. Off(k - 1) \in 0..Off(m - 1)
        BY <1>8, <3>2
      <4>2. Off(m - 1) = Start(m) /\ Off(k - 1) = Start(k)
        BY <1>5
      <4> QED BY <2>4, <4>1, <4>2
    <3> QED BY <2>1, <2>3, <2>4, <2>6, <3>3
  <2>10. Off(m) \in 0..Start(k)
    <3>1. m \in 0..N /\ k - 1 \in 0..N
      BY <1>1
    <3> QED BY <1>5, <1>8, <2>9, <3>1
  <2>11. Start(m) + n \in i + 1..Start(k)
    BY <2>1, <2>7, <2>8, <2>10
  <2> QED BY <2>8, <2>11
<1>17. \A k \in 1..N : \A i \in 1..Len(Line(requests[k])) :
         Stream[Start(k) + i] = Line(requests[k])[i]
  BY <1>15 DEF L
<1> QED BY <1>1, <1>9, <1>11, <1>12, <1>14, <1>16, <1>17 DEF Marks, N

-----------------------------------------------------------------------------
(* Lines of the stream, whole or cut.                                       *)

(* Find returns the first place of a token, or 0. *)
LEMMA FindFirst ==
  ASSUME NEW s, Len(s) \in Nat, NEW t, NEW from \in Nat \ {0}
  PROVE  LET n == Find(s, t, from)
         IN  \/ n = 0 /\ \A i \in from..Len(s) : s[i] # t
             \/ n \in from..Len(s) /\ s[n] = t /\ \A i \in from..n - 1 : s[i] # t
<1> DEFINE I == {i \in from..Len(s) : s[i] = t}
<1>1. Find(s, t, from) = IF I # {} THEN Min(I) ELSE 0
  BY DEF Find, SelectInSubSeq
<1>2. CASE I = {}
  BY <1>1, <1>2
<1>3. CASE I # {}
  <2>1. I \subseteq Nat
    OBVIOUS
  <2>2. \E x \in I : \A y \in I : x <= y
    <3> HIDE DEF I
    <3> QED BY <1>3, <2>1, Least
  <2>3. Min(I) \in I /\ \A y \in I : Min(I) <= y
    <3> HIDE DEF I
    <3> QED BY <2>2 DEF Min
  <2> DEFINE n == Min(I)
  <2>4. n \in from..Len(s) /\ s[n] = t /\ n \in Nat
    BY <2>3
  <2>5. ASSUME NEW i \in from..n - 1
        PROVE  s[i] # t
    <3>1. i \in from..Len(s) /\ ~(n <= i)
      BY <2>4
    <3>2. i \notin I
      <4> HIDE DEF I
      <4> QED BY <2>3, <3>1
    <3> QED BY <3>1, <3>2
  <2> HIDE DEF n
  <2>6. Find(s, t, from) = n
    BY <1>1, <1>3 DEF n
  <2> QED BY <2>4, <2>5, <2>6
<1> QED BY <1>2, <1>3

(* A part of the stream, after position p. *)
PartOf(s, p) == Len(s) \in Nat /\ \A i \in 1..Len(s) : s[i] = Stream[p + i]

(* A part without the end of a line. *)
OneLine(s, p) == PartOf(s, p) /\ \A i \in 1..Len(s) : s[i] # "CR"

(* The line holds the beginning of request k, from place o + 1 on; w is the *)
(* length of its name.                                                      *)
AtRequest(line, p, k, o, w) ==
  /\ k \in 1..Len(requests) /\ o \in Nat /\ w \in Nat /\ LineForm(requests[k], w)
  /\ requests[k] \in Requests /\ Start(k) \in Nat /\ Shut(k) \in Nat
  /\ p + o = Start(k) /\ Len(line) \in Nat /\ o + 1 <= Len(line) /\ p + Len(line) < Shut(k)
  /\ \A j \in Nat \ {0} : o + j <= Len(line) => j <= w + 5 /\ line[o + j] = Line(requests[k])[j]

(* Request k starts at the place i of the line. *)
StartsAt(line, p, i, k) ==
  /\ i \in 1..Len(line) /\ k \in 1..Len(requests) /\ p + i = Start(k) + 1

(* A method in a line is the beginning of a request. *)
LEMMA LineStart ==
  ASSUME Marks, NEW p \in Nat, NEW line, OneLine(line, p), p + Len(line) <= Len(Stream),
         NEW i \in 1..Len(line), line[i] \in Methods
  PROVE  \E k : StartsAt(line, p, i, k)
<1> DEFINE N == Len(requests)
<1>1. Len(Stream) \in Nat /\ Len(line) \in Nat
  BY DEF Marks, OneLine, PartOf
<1>2. \A j \in 1..Len(Stream) : Stream[j] \in Methods => \E q \in 1..N : j = Start(q) + 1
  BY DEF Marks, N
<1>3. line[i] = Stream[p + i]
  BY DEF OneLine, PartOf
<1> HIDE DEF N
<1>4. p + i \in 1..Len(Stream)
  BY <1>1
<1>5. \E q \in 1..N : p + i = Start(q) + 1
  BY <1>2, <1>3, <1>4
<1> QED BY <1>5 DEF StartsAt, N

(* No line of the stream ends between p and the end of this one. *)
LEMMA LineUnbroken ==
  ASSUME Marks, NEW p \in Nat, NEW line, OneLine(line, p), p + Len(line) <= Len(Stream),
         NEW q \in 1..Len(requests), p < Shut(q)
  PROVE  p + Len(line) < Shut(q)
<1> DEFINE n == Len(line)
<1>1. n \in Nat
  BY DEF OneLine, PartOf
<1>2. /\ Start(q) \in Nat /\ Shut(q) \in Nat /\ requests[q] \in Requests
      /\ \A j \in 1..Len(Line(requests[q])) : Stream[Start(q) + j] = Line(requests[q])[j]
  BY DEF Marks
<1>3. \A j \in 1..n : line[j] = Stream[p + j] /\ line[j] # "CR"
  BY DEF OneLine, PartOf
<1>4. PICK x : TextForm(requests[q], x)
  BY <1>2, TextHasForm
<1>5. x \in Nat /\ Len(Line(requests[q])) = x + 7 /\ Line(requests[q])[x + 6] = "CR"
  BY <1>4 DEF TextForm, LineForm
<1>6. Shut(q) = Start(q) + (x + 6)
  BY <1>2, <1>5 DEF Shut
<1>7. x + 6 \in 1..Len(Line(requests[q]))
  BY <1>5
<1>8. Stream[Shut(q)] = "CR"
  BY <1>2, <1>5, <1>6, <1>7
<1> HIDE DEF n
<1> SUFFICES ASSUME ~(p + n < Shut(q)) PROVE FALSE
  BY DEF n
<1>9. Shut(q) - p \in 1..n /\ p + (Shut(q) - p) = Shut(q)
  BY <1>1, <1>2
<1> QED BY <1>3, <1>8, <1>9

(* A line holds the beginning of one request only. *)
LEMMA OneStart ==
  ASSUME Marks, NEW p \in Nat, NEW line, OneLine(line, p), p + Len(line) <= Len(Stream),
         NEW i, NEW k, StartsAt(line, p, i, k), NEW j, NEW q, StartsAt(line, p, j, q)
  PROVE  j = i
<1> DEFINE N == Len(requests)
           n == Len(line)
<1>1. n \in Nat /\ N \in Nat
  BY DEF Marks, OneLine, PartOf
<1>2. k \in 1..N /\ q \in 1..N /\ i \in 1..n /\ j \in 1..n
  BY DEF StartsAt
<1>3. p + i = Start(k) + 1 /\ p + j = Start(q) + 1
  BY DEF StartsAt
<1>4. /\ Start(k) \in Nat /\ Shut(k) \in Nat /\ Start(k) + 1 < Shut(k)
      /\ Start(q) \in Nat /\ Shut(q) \in Nat /\ Start(q) + 1 < Shut(q)
  BY <1>2 DEF Marks
<1>5. /\ \A x \in 1..k - 1 : Shut(x) < Start(k)
      /\ \A x \in 1..q - 1 : Shut(x) < Start(q)
  BY <1>2 DEF Marks
<1>6. p + n < Shut(k) /\ p + n < Shut(q)
  <2>1. i \in Nat \ {0} /\ j \in Nat \ {0}
    BY <1>1, <1>2
  <2>2. p < Shut(k)
    BY <1>3, <1>4, <2>1
  <2>3. p < Shut(q)
    BY <1>3, <1>4, <2>1
  <2>4. k \in 1..Len(requests) /\ q \in 1..Len(requests)
    BY <1>2
  <2> HIDE DEF N
  <2> QED BY <2>2, <2>3, <2>4, LineUnbroken
<1> HIDE DEF N, n
<1>7. Start(q) < Shut(k) /\ Start(k) < Shut(q)
  <2>1. i \in Nat /\ i <= n /\ j \in Nat /\ j <= n
    BY <1>1, <1>2
  <2>2. Start(k) < Shut(q)
    BY <1>1, <1>3, <1>4, <1>6, <2>1
  <2>3. Start(q) < Shut(k)
    BY <1>1, <1>3, <1>4, <1>6, <2>1
  <2> QED BY <2>2, <2>3
<1>8. CASE q < k
  <2>1. q \in 1..k - 1
    BY <1>1, <1>2, <1>8
  <2> QED BY <1>4, <1>5, <1>7, <2>1
<1>9. CASE k < q
  <2>1. k \in 1..q - 1
    BY <1>1, <1>2, <1>9
  <2> QED BY <1>4, <1>5, <1>7, <2>1
<1>10. CASE q = k
  BY <1>2, <1>3, <1>4, <1>10
<1> QED BY <1>1, <1>2, <1>8, <1>9, <1>10

(* A line that holds a beginning holds as much of the request as it is      *)
(* long.                                                                    *)
LEMMA LineOfRequest ==
  ASSUME Marks, NEW p \in Nat, NEW line, OneLine(line, p), p + Len(line) <= Len(Stream),
         NEW i, NEW k, StartsAt(line, p, i, k)
  PROVE  \E w : AtRequest(line, p, k, i - 1, w)
<1> DEFINE N == Len(requests)
           n == Len(line)
           o == i - 1
           L == Line(requests[k])
<1>1. n \in Nat /\ N \in Nat
  BY DEF Marks, OneLine, PartOf
<1>2. k \in 1..N /\ i \in 1..n /\ p + i = Start(k) + 1
  BY DEF StartsAt
<1>3. /\ Start(k) \in Nat /\ Shut(k) \in Nat /\ Start(k) + 1 < Shut(k) /\ requests[k] \in Requests
      /\ \A j \in 1..Len(L) : Stream[Start(k) + j] = L[j]
  BY <1>2 DEF Marks
<1>4. \A j \in 1..n : line[j] = Stream[p + j]
  BY DEF OneLine, PartOf
<1>5. p + n < Shut(k)
  <2>1. p < Shut(k)
    BY <1>2, <1>3
  <2>2. k \in 1..Len(requests)
    BY <1>2
  <2> HIDE DEF N
  <2> QED BY <2>1, <2>2, LineUnbroken
<1>6. PICK w : TextForm(requests[k], w)
  BY <1>3, TextHasForm
<1>7. LineForm(requests[k], w) /\ w \in Nat /\ Len(L) = w + 7
  BY <1>6 DEF TextForm, LineForm
<1>8. Shut(k) = Start(k) + (w + 6)
  BY <1>3, <1>7 DEF Shut
<1> HIDE DEF N, n, L
<1>9. o \in Nat /\ p + o = Start(k) /\ o + 1 <= n
  BY <1>1, <1>2, <1>3
<1> HIDE DEF o
<1>10. ASSUME NEW j \in Nat \ {0}, o + j <= n
       PROVE  j <= w + 5 /\ line[o + j] = L[j]
  <2>1. o + j \in 1..n /\ p + (o + j) = Start(k) + j
    BY <1>1, <1>3, <1>9, <1>10
  <2>2. Start(k) + j = p + (o + j)
    BY <1>3, <1>9
  <2>3. Start(k) + j < Start(k) + (w + 6)
    <3>1. o + j \in Nat /\ p + (o + j) < Shut(k)
      BY <1>1, <1>3, <1>5, <1>9, <1>10
    <3> QED BY <1>8, <2>2, <3>1
  <2>4. j <= w + 5 /\ j \in 1..w + 7
    BY <1>3, <1>7, <2>3
  <2>5. Stream[Start(k) + j] = L[j]
    BY <1>3, <1>7, <2>4
  <2>6. line[o + j] = Stream[p + (o + j)]
    BY <1>4, <2>1
  <2> QED BY <2>1, <2>4, <2>5, <2>6
<1>11. AtRequest(line, p, k, o, w)
  BY <1>1, <1>2, <1>3, <1>5, <1>7, <1>9, <1>10 DEF AtRequest, N, n, L
<1> QED BY <1>11 DEF o

(* ParseURI finds the method, the slash and the space of that request. *)
LEMMA LineFinds ==
  ASSUME Marks, NEW p \in Nat, NEW line, OneLine(line, p), p + Len(line) <= Len(Stream),
         MethodOf(line) # "none"
  PROVE  LET m     == MethodOf(line)
             slash == Find(line, "/", Find(line, m, 1))
             space == Find(line, Blank, slash)
         IN  slash # 0 /\ space # 0 =>
               \E k, o, w : /\ AtRequest(line, p, k, o, w) /\ m = requests[k].method
                            /\ slash = o + 2 /\ space = o + (w + 3) /\ space <= Len(line)
<1> DEFINE m == MethodOf(line)
           n == Len(line)
           first == Find(line, m, 1)
           slash == Find(line, "/", first)
           space == Find(line, Blank, slash)
<1> SUFFICES ASSUME slash # 0, space # 0
             PROVE  \E k, o, w : /\ AtRequest(line, p, k, o, w) /\ m = requests[k].method
                                 /\ slash = o + 2 /\ space = o + (w + 3) /\ space <= Len(line)
  OBVIOUS
<1>1. m \in Methods /\ \E i \in 1..n : line[i] = m
  BY DEF MethodOf, Contains, Methods
<1>2. n \in Nat
  BY DEF OneLine, PartOf
<1>3. first \in 1..n /\ line[first] = m
  <2>1. 1 \in Nat \ {0}
    OBVIOUS
  <2>2. \/ first = 0 /\ \A j \in 1..n : line[j] # m
        \/ first \in 1..n /\ line[first] = m
    BY <1>2, <2>1, FindFirst
  <2> QED BY <1>1, <2>2
<1> HIDE DEF first
<1>4. PICK k : StartsAt(line, p, first, k)
  BY <1>1, <1>3, LineStart DEF n
<1>5. PICK w : AtRequest(line, p, k, first - 1, w)
  BY <1>4, LineOfRequest
<1> DEFINE o == first - 1
           L == Line(requests[k])
<1>6. /\ o \in Nat /\ w \in Nat /\ LineForm(requests[k], w) /\ requests[k] \in Requests
      /\ \A j \in Nat \ {0} : o + j <= n => j <= w + 5 /\ line[o + j] = L[j]
  BY <1>5 DEF AtRequest
<1>7. /\ w \in {0, 1, 3} /\ L[1] = requests[k].method /\ L[2] = "/" /\ L[w + 3] = Blank
  BY <1>6 DEF LineForm
<1>8. first = o + 1
  BY <1>3
<1>9. \/ slash = 0
      \/ slash \in first..n /\ line[slash] = "/" /\ \A j \in first..slash - 1 : line[j] # "/"
  <2>1. first \in Nat \ {0}
    BY <1>3
  <2> QED BY <1>2, <2>1, FindFirst DEF n
<1> HIDE DEF o, L, slash
<1>10. slash \in Nat \ {0}
  BY <1>9, <1>6, <1>8
<1>11. \/ space = 0
       \/ space \in slash..n /\ line[space] = Blank
  <2>1. \/ space = 0 /\ \A j \in slash..n : line[j] # Blank
        \/ space \in slash..n /\ line[space] = Blank /\ \A j \in slash..space - 1 : line[j] # Blank
    BY <1>2, <1>10, FindFirst DEF n
  <2> QED BY <2>1
<1> HIDE DEF space, n, m
<1>12. m = requests[k].method
  <2>1. line[o + 1] = L[1]
    <3>1. 1 \in Nat \ {0} /\ o + 1 <= n
      BY <1>2, <1>3, <1>8
    <3> QED BY <1>6, <3>1
  <2> QED BY <1>3, <1>7, <1>8, <2>1
<1>13. slash \in o + 1..n /\ line[slash] = "/" /\ \A j \in o + 1..slash - 1 : line[j] # "/"
  BY <1>8, <1>9
<1>14. slash # o + 1
  <2>1. "/" \notin Methods
    BY DEF Methods
  <2> QED BY <1>1, <1>3, <1>8, <1>13, <2>1
<1>15. slash = o + 2
  <2>1. o + 2 <= n /\ o + 2 \in o + 1..n
    BY <1>2, <1>6, <1>13, <1>14
  <2>2. 2 \in Nat \ {0}
    OBVIOUS
  <2>3. line[o + 2] = "/"
    BY <1>6, <1>7, <2>1, <2>2
  <2>4. ~(o + 2 \in o + 1..slash - 1)
    BY <1>13, <2>3
  <2> QED BY <1>2, <1>6, <1>13, <1>14, <2>4
<1>16. space \in o + 2..n /\ line[space] = Blank /\ space <= n
  BY <1>2, <1>6, <1>11, <1>15
<1>17. space = o + (w + 3)
  <2> DEFINE j == space - o
  <2>1. j \in Nat \ {0} /\ o + j = space /\ o + j <= n
    BY <1>2, <1>6, <1>16
  <2> HIDE DEF j
  <2>2. j <= w + 5 /\ line[o + j] = L[j]
    BY <1>6, <2>1
  <2>3. j \in 1..w + 7
    BY <1>6, <2>1, <2>2
  <2>4. L[j] = Blank
    BY <1>16, <2>1, <2>2
  <2>5. j = w + 3
    BY <1>6, <2>3, <2>4, LineTokens DEF L
  <2> QED BY <2>1, <2>5
<1> QED BY <1>5, <1>12, <1>15, <1>16, <1>17 DEF o, n

(* The tokens of a name, as FileName cuts them from the line. *)
NameForm(name, r, w) ==
  /\ IsSequence(name) /\ Len(name) = w /\ w \in {0, 1, 3}
  /\ r.special = "query" => w = 3 /\ name[1] = "f" /\ name[2] = "?"
  /\ r.special # "query" /\ r.path = Root => w = 0
  /\ r.special # "query" /\ r.path # Root => w = 1 /\ name[1] = r.path

(* What ParseURI cuts out between slash and space is the request's name. *)
LEMMA NameFound ==
  ASSUME NEW line, NEW p \in Nat, NEW k, NEW o, NEW w, AtRequest(line, p, k, o, w),
         NEW slash, slash = o + 2, NEW space, space = o + (w + 3), space <= Len(line)
  PROVE  NameForm(SubSeq(line, slash + 1, space - 1), requests[k], w)
<1> DEFINE name == SubSeq(line, slash + 1, space - 1)
           L == Line(requests[k])
           r == requests[k]
           n == Len(line)
<1>1. /\ o \in Nat /\ w \in Nat /\ LineForm(r, w)
      /\ \A j \in Nat \ {0} : o + j <= n => j <= w + 5 /\ line[o + j] = L[j]
  BY DEF AtRequest
<1>2. n \in Nat
  BY DEF AtRequest
<1>3. /\ w \in {0, 1, 3}
      /\ r.special = "query" => w = 3 /\ L[3] = "f" /\ L[4] = "?" /\ L[5] = "q"
      /\ r.special # "query" /\ r.path = Root => w = 0
      /\ r.special # "query" /\ r.path # Root => w = 1 /\ L[3] = r.path
  BY <1>1 DEF LineForm
<1> HIDE DEF L, r, n
<1>4. slash + 1 \in Nat /\ space - 1 \in Nat /\ slash + 1 = o + 3 /\ space - 1 = o + (w + 2)
  BY <1>1
<1>5. /\ IsSequence(name)
      /\ Len(name) = IF slash + 1 <= space - 1 THEN (space - 1) - (slash + 1) + 1 ELSE 0
      /\ \A j \in 1..Len(name) : name[j] = line[(slash + 1) + j - 1]
  <2> DEFINE a == slash + 1
             b == space - 1
  <2>1. a \in Nat /\ b \in Nat
    BY <1>4
  <2> HIDE DEF a, b
  <2>2. /\ IsSequence(SubSeq(line, a, b))
        /\ Len(SubSeq(line, a, b)) = IF a <= b THEN b - a + 1 ELSE 0
        /\ \A j \in 1..Len(SubSeq(line, a, b)) : SubSeq(line, a, b)[j] = line[a + j - 1]
    BY <2>1, SubSequence
  <2> QED BY <2>2 DEF a, b
<1> HIDE DEF name
<1>6. Len(name) = w
  BY <1>1, <1>4, <1>5
<1>7. ASSUME NEW j \in 1..w
      PROVE  name[j] = L[2 + j]
  <2>1. (slash + 1) + j - 1 = o + (2 + j) /\ 2 + j \in Nat \ {0} /\ o + (2 + j) <= n
    BY <1>1, <1>2, <1>4 DEF n
  <2>2. name[j] = line[o + (2 + j)]
    BY <1>5, <1>6, <2>1
  <2> QED BY <1>1, <2>1, <2>2
<1>8. r.special = "query" => w = 3 /\ name[1] = "f" /\ name[2] = "?"
  <2> SUFFICES ASSUME r.special = "query" PROVE w = 3 /\ name[1] = "f" /\ name[2] = "?"
    OBVIOUS
  <2>1. w = 3
    BY <1>3
  <2>2. 1 \in 1..w /\ 2 \in 1..w /\ 2 + 1 = 3 /\ 2 + 2 = 4
    BY <2>1
  <2>3. name[1] = L[3] /\ name[2] = L[4]
    BY <1>7, <2>2
  <2> QED BY <1>3, <2>1, <2>3
<1>9. r.special # "query" /\ r.path # Root => w = 1 /\ name[1] = r.path
  <2> SUFFICES ASSUME r.special # "query", r.path # Root PROVE w = 1 /\ name[1] = r.path
    OBVIOUS
  <2>1. w = 1
    BY <1>3
  <2>2. 1 \in 1..w /\ 2 + 1 = 3
    BY <2>1
  <2>3. name[1] = L[3]
    BY <1>7, <2>2
  <2> QED BY <1>3, <2>1, <2>3
<1> QED BY <1>3, <1>5, <1>6, <1>8, <1>9 DEF NameForm, name, r

(* What FileName makes of the name is what the answer is to be about. *)
LEMMA NameIsAnswer ==
  ASSUME NEW r \in Requests, NEW name, NEW w, NameForm(name, r, w)
  PROVE  (IF name = <<>> THEN <<"index.html">>
          ELSE IF Find(name, "?", 1) = 0 THEN name ELSE SubSeq(name, 1, Find(name, "?", 1) - 1))
         = IF r.special = "query" THEN <<"f">>
           ELSE IF r.path = Root THEN <<"index.html">> ELSE <<r.path>>
<1> DEFINE mark == Find(name, "?", 1)
<1>1. /\ IsSequence(name) /\ Len(name) = w /\ w \in {0, 1, 3}
      /\ r.special = "query" => w = 3 /\ name[1] = "f" /\ name[2] = "?"
      /\ r.special # "query" /\ r.path = Root => w = 0
      /\ r.special # "query" /\ r.path # Root => w = 1 /\ name[1] = r.path
  BY DEF NameForm
<1>2. \/ mark = 0 /\ \A j \in 1..w : name[j] # "?"
      \/ mark \in 1..w /\ name[mark] = "?" /\ \A j \in 1..mark - 1 : name[j] # "?"
  <2>1. Len(name) \in Nat /\ 1 \in Nat \ {0}
    BY <1>1
  <2>2. \/ mark = 0 /\ \A j \in 1..Len(name) : name[j] # "?"
        \/ mark \in 1..Len(name) /\ name[mark] = "?" /\ \A j \in 1..mark - 1 : name[j] # "?"
    BY <2>1, FindFirst
  <2> HIDE DEF mark
  <2> QED BY <1>1, <2>2
<1> HIDE DEF mark
<1>3. IsSequence(<<>>) /\ Len(<<>>) = 0
  BY EmptySeq DEF IsSequence
<1>4. r.path # Root => r.path # "?"
  <2>1. r.path # Root => r.path \in Names
    BY RequestFields
  <2>2. "?" \in Delimiters
    BY DEF Delimiters
  <2> QED BY <2>1, <2>2, ParserAssumption
<1>5. CASE r.special = "query"
  <2>1. w = 3 /\ name[1] = "f" /\ name[2] = "?"
    BY <1>1, <1>5
  <2>2. mark = 2
    <3>1. "f" # "?" /\ 2 \in 1..w
      BY <2>1
    <3>2. mark \in 1..w /\ name[mark] = "?" /\ \A j \in 1..mark - 1 : name[j] # "?"
      BY <1>2, <2>1, <3>1
    <3>3. mark # 1
      BY <2>1, <3>1, <3>2
    <3>4. ~(mark > 2)
      <4> SUFFICES ASSUME mark > 2 PROVE FALSE
        OBVIOUS
      <4>1. 2 \in 1..mark - 1
        BY <3>2, <2>1
      <4> QED BY <2>1, <3>2, <4>1
    <3> QED BY <2>1, <3>2, <3>3, <3>4
  <2>3. name # <<>>
    BY <1>1, <1>3, <2>1
  <2> DEFINE s == SubSeq(name, 1, 1)
  <2>4. IsSequence(s) /\ Len(s) = 1 /\ s[1] = name[1]
    <3>1. 1 \in Nat
      OBVIOUS
    <3>2. /\ IsSequence(s)
          /\ Len(s) = IF 1 <= 1 THEN 1 - 1 + 1 ELSE 0
          /\ \A j \in 1..Len(s) : s[j] = name[1 + j - 1]
      BY <3>1, SubSequence
    <3> HIDE DEF s
    <3> QED BY <3>2
  <2> HIDE DEF s
  <2>5. s = <<"f">>
    <3>1. IsSequence(<<"f">>) /\ Len(<<"f">>) = 1 /\ <<"f">>[1] = "f"
      BY Single
    <3>2. \A j \in 1..Len(s) : s[j] = <<"f">>[j]
      BY <2>1, <2>4, <3>1
    <3> QED BY <2>4, <3>1, <3>2, SameSequence
  <2>6. mark # 0 /\ mark - 1 = 1
    BY <2>2
  <2> QED BY <1>5, <2>3, <2>5, <2>6 DEF mark, s
<1>6. CASE r.special # "query" /\ r.path = Root
  <2>1. Len(name) = Len(<<>>) /\ \A j \in 1..Len(name) : name[j] = <<>>[j]
    BY <1>1, <1>3, <1>6
  <2>2. name = <<>>
    BY <1>1, <1>3, <2>1, SameSequence
  <2> QED BY <1>6, <2>2
<1>7. CASE r.special # "query" /\ r.path # Root
  <2>1. w = 1 /\ name[1] = r.path
    BY <1>1, <1>7
  <2>2. mark = 0
    BY <1>2, <1>4, <1>7, <2>1
  <2>3. name # <<>>
    BY <1>1, <1>3, <2>1
  <2>4. name = <<r.path>>
    <3>1. IsSequence(<<r.path>>) /\ Len(<<r.path>>) = 1 /\ <<r.path>>[1] = r.path
      BY Single
    <3>2. \A j \in 1..Len(name) : name[j] = <<r.path>>[j]
      BY <1>1, <2>1, <3>1
    <3> QED BY <1>1, <2>1, <3>1, <3>2, SameSequence
  <2> QED BY <1>7, <2>2, <2>3, <2>4 DEF mark
<1> QED BY <1>5, <1>6, <1>7

(* A line that starts in the stream and has no CR, and in which ParseURI    *)
(* finds what it looks for, is one of the requests': its answer is the one  *)
(* the parser will give.                                                    *)
Promised(p, t, m, file) ==
  \E k \in 1..Len(requests) :
    /\ p <= Start(k) /\ Start(k) + 1 <= t /\ t < Shut(k)
    /\ <<m, file>> = Answer(requests[k])

(* A line that ParseURI accepts, even one cut short, is the line of one     *)
(* request.                                                                 *)
LEMMA LineAnswer ==
  ASSUME Marks, NEW p \in Nat, NEW line, OneLine(line, p), p + Len(line) <= Len(Stream),
         MethodOf(line) # "none",
         Find(line, "/", Find(line, MethodOf(line), 1)) # 0,
         Find(line, Blank, Find(line, "/", Find(line, MethodOf(line), 1))) # 0
  PROVE  LET m     == MethodOf(line)
             slash == Find(line, "/", Find(line, m, 1))
             space == Find(line, Blank, slash)
         IN  Promised(p, p + Len(line), m, FileName(line, slash, space))
<1> DEFINE m == MethodOf(line)
           slash == Find(line, "/", Find(line, m, 1))
           space == Find(line, Blank, slash)
           name == SubSeq(line, slash + 1, space - 1)
<1>1. PICK k, o, w : /\ AtRequest(line, p, k, o, w) /\ m = requests[k].method
                     /\ slash = o + 2 /\ space = o + (w + 3) /\ space <= Len(line)
  BY LineFinds
<1> HIDE DEF m, slash, space
<1>2. NameForm(name, requests[k], w)
  BY <1>1, NameFound
<1>3. /\ k \in 1..Len(requests) /\ requests[k] \in Requests /\ o \in Nat
      /\ p + o = Start(k) /\ o + 1 <= Len(line) /\ p + Len(line) < Shut(k)
      /\ Len(line) \in Nat /\ Start(k) \in Nat
  BY <1>1 DEF AtRequest
<1>4. FileName(line, slash, space) =
      IF name = <<>> THEN <<"index.html">>
      ELSE IF Find(name, "?", 1) = 0 THEN name ELSE SubSeq(name, 1, Find(name, "?", 1) - 1)
  BY Zenon DEF FileName
<1> HIDE DEF name
<1> DEFINE r == requests[k]
<1>5. Answer(r) = <<r.method, IF r.special = "query" THEN <<"f">>
                              ELSE IF r.path = Root THEN <<"index.html">> ELSE <<r.path>> >>
  BY Zenon DEF Answer
<1>6. FileName(line, slash, space) =
      IF r.special = "query" THEN <<"f">>
      ELSE IF r.path = Root THEN <<"index.html">> ELSE <<r.path>>
  BY <1>2, <1>3, <1>4, NameIsAnswer
<1>7. <<m, FileName(line, slash, space)>> = Answer(r)
  BY <1>1, <1>5, <1>6
<1> HIDE DEF r
<1>8. p <= Start(k) /\ Start(k) + 1 <= p + Len(line)
  BY <1>3
<1>9. \E q \in 1..Len(requests) :
        /\ p <= Start(q) /\ Start(q) + 1 <= p + Len(line) /\ p + Len(line) < Shut(q)
        /\ <<m, FileName(line, slash, space)>> = Answer(requests[q])
  BY <1>3, <1>7, <1>8 DEF r
<1> QED BY <1>9 DEF Promised, m, slash, space

(* A buffer that holds the part of the stream between p and t. *)
Buffered(b, p, t) ==
  /\ IsSequence(b) /\ p \in Nat /\ t \in Nat /\ p + Len(b) = t /\ t <= Len(Stream) /\ PartOf(b, p)

(* A part of the stream after p in which no header can be: its line ends at *)
(* q, and no colon comes before.                                            *)
NoColon(p, q) ==
  /\ q \in Nat /\ p < q /\ q <= Len(Stream) /\ Stream[q] = "CR"
  /\ \A i \in p + 1..q - 1 : Stream[i] # ":"

(* What is left of a buffer after some tokens are dropped. *)
LEMMA BufferedTail ==
  ASSUME NEW b, NEW p, NEW t, Buffered(b, p, t), NEW i \in Nat \ {0}, i <= Len(b) + 1
  PROVE  Buffered(SubSeq(b, i, Len(b)), p + (i - 1), t)
<1> DEFINE n == Len(b)
           s == SubSeq(b, i, n)
<1>1. /\ p \in Nat /\ t \in Nat /\ p + n = t /\ t <= Len(Stream) /\ n \in Nat
      /\ \A j \in 1..n : b[j] = Stream[p + j]
  BY DEF Buffered, PartOf
<1> HIDE DEF n
<1>2. /\ IsSequence(s) /\ Len(s) = IF i <= n THEN n - i + 1 ELSE 0
      /\ \A j \in 1..Len(s) : s[j] = b[i + j - 1]
  <2>1. i \in Nat /\ n \in Nat
    BY <1>1
  <2> QED BY <2>1, SubSequence
<1> HIDE DEF s
<1>3. Len(s) = n - (i - 1) /\ Len(s) \in Nat
  BY <1>1, <1>2 DEF n
<1>4. ASSUME NEW j \in 1..Len(s)
      PROVE  s[j] = Stream[(p + (i - 1)) + j]
  <2>1. i + j - 1 \in 1..n /\ p + (i + j - 1) = (p + (i - 1)) + j
    BY <1>1, <1>3
  <2> QED BY <1>1, <1>2, <2>1
<1>5. p + (i - 1) \in Nat /\ (p + (i - 1)) + Len(s) = t
  BY <1>1, <1>3
<1>6. PartOf(s, p + (i - 1))
  BY <1>3, <1>4 DEF PartOf
<1> QED BY <1>1, <1>2, <1>5, <1>6 DEF Buffered, s, n

(* A buffer to which a read has added. *)
LEMMA BufferedMore ==
  ASSUME NEW b, NEW p, NEW t, Buffered(b, p, t), IsSequence(Stream), NEW n \in Nat, t + n <= Len(Stream)
  PROVE  Buffered(b \o SubSeq(SubSeq(Stream, t + 1, Len(Stream)), 1, n), p, t + n)
<1> DEFINE m == Len(b)
           M == Len(Stream)
           left == SubSeq(Stream, t + 1, M)
           s == SubSeq(left, 1, n)
           u == b \o s
<1>1. /\ p \in Nat /\ t \in Nat /\ p + m = t /\ m \in Nat /\ IsSequence(b)
      /\ \A j \in 1..m : b[j] = Stream[p + j]
  BY DEF Buffered, PartOf
<1>2. M \in Nat
  BY SequenceLen
<1> HIDE DEF M, m
<1>3. /\ IsSequence(left) /\ Len(left) = IF t + 1 <= M THEN M - (t + 1) + 1 ELSE 0
      /\ \A j \in 1..Len(left) : left[j] = Stream[(t + 1) + j - 1]
  <2>1. t + 1 \in Nat
    BY <1>1
  <2> QED BY <1>2, <2>1, SubSequence
<1> HIDE DEF left
<1>4. Len(left) = M - t /\ t + n <= M
  BY <1>1, <1>2, <1>3 DEF M
<1>5. /\ IsSequence(s) /\ Len(s) = IF 1 <= n THEN n - 1 + 1 ELSE 0
      /\ \A j \in 1..Len(s) : s[j] = left[1 + j - 1]
  <2>1. 1 \in Nat
    OBVIOUS
  <2> QED BY <2>1, SubSequence
<1> HIDE DEF s
<1>6. Len(s) = n
  BY <1>5
<1>7. ASSUME NEW j \in 1..n
      PROVE  s[j] = Stream[t + j]
  <2>1. 1 + j - 1 = j /\ j \in 1..Len(left) /\ (t + 1) + j - 1 = t + j
    BY <1>1, <1>2, <1>4
  <2> QED BY <1>3, <1>5, <1>6, <2>1
<1>8. /\ IsSequence(u) /\ Len(u) = Len(b) + Len(s)
      /\ \A i \in 1..Len(b) : u[i] = b[i]
      /\ \A i \in 1..Len(s) : u[Len(b) + i] = s[i]
  <2>1. IsSequence(b) /\ IsSequence(s)
    BY <1>1, <1>5
  <2> QED BY <2>1, Joined
<1> HIDE DEF u
<1>9. Len(u) = m + n /\ Len(u) \in Nat /\ p + Len(u) = t + n /\ t + n \in Nat
  BY <1>1, <1>6, <1>8 DEF m
<1>10. ASSUME NEW j \in 1..Len(u)
       PROVE  u[j] = Stream[p + j]
  <2>1. CASE j <= m
    <3>1. j \in 1..m
      BY <1>1, <2>1
    <3> QED BY <1>1, <1>8, <3>1 DEF m
  <2>2. CASE ~(j <= m)
    <3> DEFINE i == j - m
    <3>1. i \in 1..n /\ m + i = j /\ t + i = p + j
      BY <1>1, <1>9, <2>2
    <3> HIDE DEF i
    <3>2. u[m + i] = s[i]
      BY <1>6, <1>8, <3>1 DEF m
    <3> QED BY <1>7, <3>1, <3>2
  <2> QED BY <2>1, <2>2
<1>11. PartOf(u, p)
  BY <1>9, <1>10 DEF PartOf
<1> QED BY <1>1, <1>8, <1>9, <1>11 DEF Buffered, u, s, left, M

-----------------------------------------------------------------------------
(* The stage of the request line.                                           *)

(* What ParseURI has found when it sets no error. *)
LEMMA URIMoves ==
  ASSUME NEW c, HasFields(c), ParseURI(c).error # TRUE
  PROVE  LET r     == RequestLine(c.buf)
             m     == MethodOf(r.line)
             slash == Find(r.line, "/", Find(r.line, m, 1))
             space == Find(r.line, Blank, slash)
             d     == ParseURI(c)
         IN  /\ m # "none" /\ slash # 0 /\ space # 0
             /\ HasFields(d) /\ d.state = "HEADERS" /\ d.buf = r.rest /\ d.method = m
             /\ d.file = FileName(r.line, slash, space)
             /\ d.hState = c.hState /\ d.sent = c.sent /\ d.out = c.out
             /\ d.conn = c.conn /\ d.error = c.error
<1> DEFINE r     == RequestLine(c.buf)
           m     == MethodOf(r.line)
           slash == Find(r.line, "/", Find(r.line, m, 1))
           space == Find(r.line, Blank, slash)
           file  == FileName(r.line, slash, space)
           e     == [c EXCEPT !.state = "HEADERS", !.buf = r.rest, !.method = m, !.file = file]
           b     == [c EXCEPT !.buf = <<>>]
<1>1. HasFields(b)
  BY DEF HasFields, Fields
<1> HIDE DEF b
<1>2. HandleError(b, BadRequest).error = TRUE
  BY <1>1, HandleErrorKeeps
<1>3. \/ m # "none" /\ slash # 0 /\ space # 0 /\ ParseURI(c) = e
      \/ ParseURI(c) = HandleError(b, BadRequest)
  BY Zenon DEF ParseURI, b
<1>4. m # "none" /\ slash # 0 /\ space # 0 /\ ParseURI(c) = e
  BY Zenon, <1>2, <1>3
<1> HIDE DEF file, space, slash, m, r
<1>5. /\ HasFields(e) /\ e.state = "HEADERS" /\ e.buf = r.rest /\ e.method = m /\ e.file = file
      /\ e.hState = c.hState /\ e.sent = c.sent /\ e.out = c.out
      /\ e.conn = c.conn /\ e.error = c.error
  BY DEF HasFields, Fields
<1> HIDE DEF e
<1> QED BY Zenon, <1>4, <1>5 DEF file, space, slash, m, r

(* The line ParseURI works on, and what it leaves. *)
LEMMA LineCut ==
  ASSUME NEW b, NEW p, NEW t, Buffered(b, p, t)
  PROVE  LET r == RequestLine(b)
         IN  /\ OneLine(r.line, p) /\ Len(r.line) \in Nat /\ p + Len(r.line) <= t
             /\ \/ /\ r.line = b /\ r.rest = b
                \/ \E cr \in 1..Len(b) :
                     /\ Len(r.line) = cr - 1 /\ Stream[p + cr] = "CR"
                     /\ Buffered(r.rest, p + cr, t)
<1> DEFINE n == Len(b)
           cr == Find(b, "CR", 1)
           line == SubSeq(b, 1, cr - 1)
           rest == SubSeq(b, cr + 1, n)
<1>1. /\ p \in Nat /\ t \in Nat /\ p + n = t /\ n \in Nat
      /\ \A j \in 1..n : b[j] = Stream[p + j]
  BY DEF Buffered, PartOf
<1>2. RequestLine(b) = IF cr = 0 THEN [line |-> b, rest |-> b] ELSE [line |-> line, rest |-> rest]
  BY Zenon DEF RequestLine
<1>3. \/ cr = 0 /\ \A i \in 1..n : b[i] # "CR"
      \/ cr \in 1..n /\ b[cr] = "CR" /\ \A i \in 1..cr - 1 : b[i] # "CR"
  <2>1. 1 \in Nat \ {0}
    OBVIOUS
  <2> QED BY <1>1, <2>1, FindFirst
<1> HIDE DEF cr
<1>4. CASE cr = 0
  <2>1. RequestLine(b).line = b /\ RequestLine(b).rest = b
    BY <1>2, <1>4
  <2>2. \A i \in 1..n : b[i] # "CR"
    BY <1>3, <1>4
  <2>3. OneLine(b, p)
    BY <1>1, <2>2 DEF OneLine, PartOf
  <2> QED BY <1>1, <2>1, <2>3
<1>5. CASE cr # 0
  <2>1. cr \in 1..n /\ b[cr] = "CR" /\ \A i \in 1..cr - 1 : b[i] # "CR"
    BY <1>3, <1>5
  <2>2. RequestLine(b).line = line /\ RequestLine(b).rest = rest
    <3> HIDE DEF line, rest
    <3>1. RequestLine(b) = [line |-> line, rest |-> rest]
      BY <1>2, <1>5 DEF line, rest
    <3> QED BY <3>1
  <2>3. /\ Len(line) = IF 1 <= cr - 1 THEN (cr - 1) - 1 + 1 ELSE 0
        /\ \A i \in 1..Len(line) : line[i] = b[1 + i - 1]
    <3>1. cr - 1 \in Nat /\ 1 \in Nat
      BY <1>1, <2>1
    <3> QED BY <3>1, SubSequence
  <2>4. Buffered(rest, p + ((cr + 1) - 1), t)
    <3>1. cr + 1 \in Nat \ {0} /\ cr + 1 <= Len(b) + 1
      BY <1>1, <2>1
    <3> QED BY <3>1, BufferedTail
  <2> HIDE DEF line, rest, n
  <2>5. Len(line) = cr - 1 /\ (cr + 1) - 1 = cr
    BY <1>1, <2>1, <2>3
  <2>6. ASSUME NEW i \in 1..Len(line)
        PROVE  line[i] = Stream[p + i] /\ line[i] # "CR"
    <3>1. 1 + i - 1 = i /\ i \in 1..n /\ i \in 1..cr - 1
      BY <1>1, <2>1, <2>5
    <3> QED BY <1>1, <2>1, <2>3, <3>1
  <2>7. OneLine(line, p) /\ Len(line) \in Nat /\ p + Len(line) <= t
    <3>1. Len(line) \in Nat /\ p + Len(line) <= t
      BY <1>1, <2>1, <2>5
    <3> QED BY <2>6, <3>1 DEF OneLine, PartOf
  <2>8. Stream[p + cr] = "CR"
    BY <1>1, <2>1
  <2> QED BY <2>1, <2>2, <2>4, <2>5, <2>7, <2>8 DEF n
<1> QED BY <1>4, <1>5

(* The request line in the stream. *)
LEMMA LineInside ==
  ASSUME Marks, NEW k \in 1..Len(requests)
  PROVE  /\ Stream[Start(k) + 1] \in Methods /\ Stream[Shut(k)] = "CR"
         /\ \A x \in Start(k) + 1..Shut(k) :
              Stream[x] # ":" /\ (Stream[x] = "CR" => x = Shut(k))
<1>1. /\ Start(k) \in Nat /\ Shut(k) \in Nat /\ requests[k] \in Requests
      /\ \A j \in 1..Len(Line(requests[k])) : Stream[Start(k) + j] = Line(requests[k])[j]
  BY DEF Marks
<1> DEFINE L == Line(requests[k])
<1>2. PICK w : TextForm(requests[k], w)
  BY <1>1, TextHasForm
<1>3. /\ LineForm(requests[k], w) /\ w \in Nat /\ Len(L) = w + 7
      /\ L[1] = requests[k].method /\ L[w + 6] = "CR"
  BY <1>2 DEF TextForm, LineForm
<1>4. Shut(k) = Start(k) + (w + 6)
  BY <1>1, <1>3 DEF Shut
<1>5. requests[k].method \in Methods
  BY <1>1, RequestFields DEF Methods
<1> HIDE DEF L
<1>6. Stream[Start(k) + 1] \in Methods
  <2>1. 1 \in 1..Len(L)
    BY <1>3
  <2> QED BY <1>1, <1>3, <1>5, <2>1 DEF L
<1>7. Stream[Shut(k)] = "CR"
  <2>1. w + 6 \in 1..Len(L)
    BY <1>3
  <2> QED BY <1>1, <1>3, <1>4, <2>1 DEF L
<1>8. ASSUME NEW x \in Start(k) + 1..Shut(k)
      PROVE  Stream[x] # ":" /\ (Stream[x] = "CR" => x = Shut(k))
  <2> DEFINE j == x - Start(k)
  <2>1. j \in 1..w + 7 /\ Start(k) + j = x
    BY <1>1, <1>3, <1>4
  <2> HIDE DEF j
  <2>2. Stream[x] = L[j]
    BY <1>1, <1>3, <2>1 DEF L
  <2>3. L[j] # ":" /\ (L[j] = "CR" => j = w + 6)
    <3> DEFINE r == requests[k]
    <3>1. r \in Requests /\ LineForm(r, w)
      BY <1>1, <1>3
    <3>2. L = Line(r)
      BY DEF L
    <3> HIDE DEF r
    <3>3. Line(r)[j] # ":" /\ (Line(r)[j] = "CR" => j = w + 6)
      BY <2>1, <3>1, LineTokens
    <3> QED BY <3>2, <3>3
  <2> QED BY <1>4, <2>1, <2>2, <2>3
<1> QED BY <1>6, <1>7, <1>8

(* A request that ParseURI has taken: its line is over, or it has been cut, *)
(* so that its rest will be taken for a header.                             *)
Taken(k, p, t, b, d) ==
  \/ Buffered(d.buf, Shut(k), t)
  \/ /\ d.buf = b /\ p <= Start(k) /\ Start(k) + 1 <= t /\ t < Shut(k) /\ NoColon(p, Shut(k))

(* ParseURI takes the next request, or fails. *)
LEMMA URIStage ==
  ASSUME Marks, NEW c, HasFields(c), NEW p, NEW t, Buffered(c.buf, p, t),
         ParseURI(c).error # TRUE
  PROVE  LET d == ParseURI(c)
         IN  \E k \in 1..Len(requests) :
               /\ p <= Start(k) /\ <<d.method, d.file>> = Answer(requests[k])
               /\ Taken(k, p, t, c.buf, d)
<1> DEFINE r     == RequestLine(c.buf)
           m     == MethodOf(r.line)
           slash == Find(r.line, "/", Find(r.line, m, 1))
           space == Find(r.line, Blank, slash)
           d     == ParseURI(c)
<1>1. /\ m # "none" /\ slash # 0 /\ space # 0
      /\ d.buf = r.rest /\ d.method = m /\ d.file = FileName(r.line, slash, space)
  BY URIMoves
<1>2. /\ OneLine(r.line, p) /\ Len(r.line) \in Nat /\ p + Len(r.line) <= t
      /\ \/ /\ r.line = c.buf /\ r.rest = c.buf
         \/ \E cr \in 1..Len(c.buf) :
              /\ Len(r.line) = cr - 1 /\ Stream[p + cr] = "CR"
              /\ Buffered(r.rest, p + cr, t)
  BY LineCut
<1>3. /\ p \in Nat /\ t \in Nat /\ p + Len(c.buf) = t /\ t <= Len(Stream) /\ Len(c.buf) \in Nat
      /\ Len(Stream) \in Nat
  BY DEF Buffered, PartOf, Marks
<1>4. Promised(p, p + Len(r.line), d.method, d.file)
  <2>1. p + Len(r.line) <= Len(Stream)
    BY <1>2, <1>3
  <2>2. Promised(p, p + Len(r.line), m, FileName(r.line, slash, space))
    BY <1>1, <1>2, <1>3, <2>1, LineAnswer
  <2> QED BY <1>1, <2>2
<1> HIDE DEF d, space, slash, m, r
<1>5. PICK k \in 1..Len(requests) :
        /\ p <= Start(k) /\ Start(k) + 1 <= p + Len(r.line) /\ p + Len(r.line) < Shut(k)
        /\ <<d.method, d.file>> = Answer(requests[k])
  BY <1>4 DEF Promised
<1>6. Start(k) \in Nat /\ Shut(k) \in Nat /\ Shut(k) <= Len(Stream)
  BY DEF Marks
<1>7. /\ Stream[Shut(k)] = "CR"
      /\ \A x \in Start(k) + 1..Shut(k) : Stream[x] # ":" /\ (Stream[x] = "CR" => x = Shut(k))
  BY LineInside
<1>8. Taken(k, p, t, c.buf, d)
  <2>1. CASE \E cr \in 1..Len(c.buf) :
               /\ Len(r.line) = cr - 1 /\ Stream[p + cr] = "CR"
               /\ Buffered(r.rest, p + cr, t)
    <3>1. PICK cr \in 1..Len(c.buf) :
               /\ Len(r.line) = cr - 1 /\ Stream[p + cr] = "CR"
               /\ Buffered(r.rest, p + cr, t)
      BY <2>1
    <3>2. p + cr \in Start(k) + 1..Shut(k)
      <4> DEFINE e == p + cr
                 f == p + Len(r.line)
      <4>1. e \in Int /\ f = e - 1
        BY <1>3, <3>1
      <4>2. Start(k) + 1 <= f /\ f < Shut(k)
        BY <1>5
      <4> HIDE DEF e, f
      <4>3. e \in Start(k) + 1..Shut(k)
        BY <1>6, <4>1, <4>2
      <4> QED BY <4>3 DEF e
    <3>3. p + cr = Shut(k)
      BY <1>7, <3>1, <3>2
    <3> QED BY <1>1, <3>1, <3>3 DEF Taken
  <2>2. CASE r.line = c.buf /\ r.rest = c.buf
    <3>1. p + Len(r.line) = t
      BY <1>3, <2>2
    <3>2. Start(k) + 1 <= t /\ t < Shut(k)
      BY <1>5, <3>1
    <3>3. ASSUME NEW i \in p + 1..Shut(k) - 1
          PROVE  Stream[i] # ":"
      <4>1. CASE i <= Start(k)
        <5> SUFFICES ASSUME Stream[i] = ":" PROVE FALSE
          OBVIOUS
        <5>1. i \in 1..Start(k)
          BY <1>3, <1>6, <4>1
        <5>2. PICK j \in i + 1..Start(k) : Stream[j] = "CR"
          BY <5>1 DEF Marks
        <5>3. j - p \in 1..Len(r.line) /\ p + (j - p) = j
          <6>1. j \in Int /\ p < j /\ j <= Start(k)
            BY <1>3, <1>6
          <6>2. Len(r.line) \in Nat /\ Start(k) + 1 <= p + Len(r.line)
            BY <1>2, <1>5
          <6> QED BY <1>3, <1>6, <6>1, <6>2
        <5>4. r.line[j - p] = Stream[p + (j - p)] /\ r.line[j - p] # "CR"
          BY <1>2, <5>3 DEF OneLine, PartOf
        <5> QED BY <5>2, <5>3, <5>4
      <4>2. CASE ~(i <= Start(k))
        <5>1. i \in Start(k) + 1..Shut(k)
          BY <1>3, <1>6, <4>2
        <5> QED BY <1>7, <5>1
      <4> QED BY <4>1, <4>2
    <3>4. p < Shut(k)
      BY <1>3, <1>5, <1>6
    <3>5. NoColon(p, Shut(k))
      BY <1>6, <1>7, <3>3, <3>4 DEF NoColon
    <3> QED BY <1>1, <1>5, <2>2, <3>2, <3>5 DEF Taken
  <2> QED BY <1>2, <2>1, <2>2
<1> QED BY <1>5, <1>8 DEF d

-----------------------------------------------------------------------------
(* The stage of the headers.                                                *)

(* The fields and states of a scan. *)
ScanFields == {"hState", "keyStart", "keyEnd", "valueStart", "valueEnd", "lineBegin", "status",
               "headers"}
HStates == {"START", "KEY", "COLON", "SPACES", "VALUE", "CR", "LF", "END_CR", "END_LF"}

(* A scan after i tokens: the line it is in began among them. *)
ScanShape(p, i) ==
  /\ DOMAIN p = ScanFields /\ p.hState \in HStates /\ p.status \in {"more", "error", "done"}
  /\ p.lineBegin \in 1..i \/ p.lineBegin = 1
  /\ p.status = "done" => p.hState = "END_LF" /\ p.lineBegin \in 1..i

(* Each way a turn can end keeps the shape. *)
LEMMA FailedShape ==
  ASSUME NEW i \in Nat, NEW p, ScanShape(p, i)
  PROVE  ScanShape(Failed(p), i)
BY DEF ScanShape, Failed, ScanFields

(* A change of state keeps the shape of the scan. *)
LEMMA GoShape ==
  ASSUME NEW i \in Nat, NEW p, ScanShape(p, i), p.status = "more", NEW h \in HStates, NEW test
  PROVE  ScanShape(GoTo(p, h), i) /\ ScanShape(GoIf(p, test, h), i)
<1>1. ScanShape(GoTo(p, h), i)
  BY DEF ScanShape, GoTo, ScanFields
<1> QED BY <1>1, FailedShape DEF GoIf

(* A scan whose other positions are set. *)
LEMMA PlaceShape ==
  ASSUME NEW i \in Nat, NEW p, ScanShape(p, i), p.status = "more", NEW x
  PROVE  /\ ScanShape([p EXCEPT !.keyEnd = x], i) /\ [p EXCEPT !.keyEnd = x].status = "more"
         /\ ScanShape([p EXCEPT !.valueEnd = x], i) /\ [p EXCEPT !.valueEnd = x].status = "more"
BY DEF ScanShape, ScanFields

(* One turn of the loop keeps the shape. *)
LEMMA TokenShape ==
  ASSUME NEW i \in Nat \ {0}, NEW p, ScanShape(p, i), p.status = "more", NEW s
  PROVE  ScanShape(ScanToken(p, s, i), i)
<1> DEFINE t == s[i]
<1>1. CASE p.hState = "START"
  <2>1. ScanToken(p, s, i) = IF t \in NewLine THEN p
                             ELSE [p EXCEPT !.hState = "KEY", !.keyStart = i, !.lineBegin = i]
    BY <1>1 DEF ScanToken
  <2>2. ScanShape([p EXCEPT !.hState = "KEY", !.keyStart = i, !.lineBegin = i], i)
    BY DEF ScanShape, ScanFields, HStates
  <2> QED BY <2>1, <2>2
<1>2. CASE p.hState = "KEY"
  <2>1. ScanToken(p, s, i) = InKey(p, i, t)
    BY <1>2 DEF ScanToken
  <2> DEFINE k == [p EXCEPT !.keyEnd = i]
  <2>2. ScanShape(k, i) /\ k.status = "more"
    BY PlaceShape
  <2>3. InKey(p, i, t) \in {GoIf(k, i > p.keyStart, "COLON"), Failed(p), p}
    BY DEF InKey
  <2> HIDE DEF k
  <2>4. ScanShape(GoIf(k, i > p.keyStart, "COLON"), i)
    BY <2>2, GoShape DEF HStates
  <2> QED BY <2>1, <2>3, <2>4, FailedShape
<1>3. CASE p.hState = "COLON"
  <2>1. ScanToken(p, s, i) = GoIf(p, t = Blank, "SPACES")
    BY <1>3 DEF ScanToken
  <2> QED BY <2>1, GoShape DEF HStates
<1>4. CASE p.hState = "SPACES"
  <2>1. ScanToken(p, s, i) = [p EXCEPT !.hState = "VALUE", !.valueStart = i]
    BY <1>4 DEF ScanToken
  <2>2. ScanShape([p EXCEPT !.hState = "VALUE", !.valueStart = i], i)
    BY DEF ScanShape, ScanFields, HStates
  <2> QED BY <2>1, <2>2
<1>5. CASE p.hState = "VALUE"
  <2>1. ScanToken(p, s, i) = InValue(p, i, t)
    BY <1>5 DEF ScanToken
  <2> DEFINE k == [p EXCEPT !.valueEnd = i]
  <2>2. ScanShape(k, i) /\ k.status = "more"
    BY PlaceShape
  <2>3. InValue(p, i, t) \in {GoIf(k, i > p.valueStart, "CR"), Failed(p), p}
    BY DEF InValue
  <2> HIDE DEF k
  <2>4. ScanShape(GoIf(k, i > p.valueStart, "CR"), i)
    BY <2>2, GoShape DEF HStates
  <2> QED BY <2>1, <2>3, <2>4, FailedShape
<1>6. CASE p.hState = "CR"
  <2>1. ScanToken(p, s, i) = IF t = "LF" THEN EndLine(p, s, i) ELSE Failed(p)
    BY <1>6 DEF ScanToken
  <2>2. ScanShape(EndLine(p, s, i), i)
    <3> DEFINE h == (Slice(s, p.keyStart, p.keyEnd) :> Slice(s, p.valueStart, p.valueEnd)) @@ p.headers
               e == [p EXCEPT !.hState = "LF", !.headers = h, !.lineBegin = i]
    <3>1. EndLine(p, s, i) = e
      BY DEF EndLine
    <3> HIDE DEF h
    <3>2. ScanShape(e, i)
      BY DEF ScanShape, ScanFields, HStates
    <3> HIDE DEF e
    <3> QED BY <3>1, <3>2
  <2> QED BY <2>1, <2>2, FailedShape
<1>7. CASE p.hState = "LF"
  <2>1. ScanToken(p, s, i) = IF t = "CR" THEN GoTo(p, "END_CR")
                             ELSE [p EXCEPT !.hState = "KEY", !.keyStart = i]
    BY <1>7 DEF ScanToken
  <2>2. ScanShape([p EXCEPT !.hState = "KEY", !.keyStart = i], i)
    BY DEF ScanShape, ScanFields, HStates
  <2>3. ScanShape(GoTo(p, "END_CR"), i)
    BY GoShape DEF HStates
  <2> QED BY <2>1, <2>2, <2>3
<1>8. CASE p.hState = "END_CR"
  <2>1. ScanToken(p, s, i) = GoIf(p, t = "LF", "END_LF")
    BY <1>8 DEF ScanToken
  <2> QED BY <2>1, GoShape DEF HStates
<1>9. CASE p.hState = "END_LF"
  <2>1. ScanToken(p, s, i) = [p EXCEPT !.status = "done", !.lineBegin = i]
    BY <1>9 DEF ScanToken
  <2>2. ScanShape([p EXCEPT !.status = "done", !.lineBegin = i], i)
    BY <1>9 DEF ScanShape, ScanFields
  <2> QED BY <2>1, <2>2
<1>10. p.hState \in HStates
  BY DEF ScanShape
<1> QED BY <1>1, <1>2, <1>3, <1>4, <1>5, <1>6, <1>7, <1>8, <1>9, <1>10 DEF HStates

(* The whole scan keeps it, by induction on the tokens. *)
LEMMA ScannedShape ==
  ASSUME NEW c, Len(c.buf) \in Nat, c.hState \in HStates
  PROVE  ScanShape(Scanned(c), Len(c.buf))
<1> DEFINE n == Len(c.buf)
<1>1. PICK scan : /\ scan[0] = Scan(c)
                  /\ \A i \in 1..n : scan[i] = Turn(c, scan[i - 1], i)
                  /\ Scanned(c) = scan[n]
  BY ScanSteps
<1> DEFINE T == {i \in Nat : ScanShape(scan[i], i)}
<1>2. 0 \in T
  <2>1. ScanShape(Scan(c), 0)
    BY DEF Scan, ScanShape, ScanFields
  <2> QED BY <1>1, <2>1
<1>3. ASSUME NEW i \in 0..n - 1, i \in T
      PROVE  i + 1 \in T
  <2>1. i \in Nat /\ i + 1 \in 1..n /\ (i + 1) - 1 = i /\ i + 1 \in Nat \ {0}
    OBVIOUS
  <2>2. scan[i + 1] = Turn(c, scan[i], i + 1)
    BY <1>1, <2>1
  <2>3. ScanShape(scan[i], i + 1)
    BY <1>3, <2>1 DEF ScanShape
  <2> HIDE DEF n
  <2>4. ScanShape(Turn(c, scan[i], i + 1), i + 1)
    BY <2>1, <2>3, TokenShape DEF Turn
  <2> QED BY <2>1, <2>2, <2>4
<1> HIDE DEF T
<1>4. n \in T
  <2>1. n \in Nat
    OBVIOUS
  <2> HIDE DEF n
  <2>2. \A i \in 0..n : i \in T
    BY <1>2, <1>3, <2>1, Induction
  <2>3. n \in 0..n
    BY <2>1
  <2> QED BY <2>2, <2>3
<1> QED BY <1>1, <1>4 DEF T

-----------------------------------------------------------------------------
(* A buffer in which a line ends at r before any colon. *)
Hopeless(b, r) ==
  \A j \in 1..Len(b) : (j < r => b[j] # ":") /\ (j = r => b[j] = "CR")

(* A turn in the key: a CR before the colon is an error. *)
LEMMA KeyToken ==
  ASSUME NEW i, NEW p, p.hState = "KEY", NEW s, s[i] # ":"
  PROVE  ScanToken(p, s, i) = IF s[i] \in NewLine THEN Failed(p) ELSE p
<1>1. ScanToken(p, s, i) = InKey(p, i, s[i])
  BY DEF ScanToken
<1> QED BY <1>1 DEF InKey

(* A turn at the start: the first token that ends no line begins a key. *)
LEMMA StartToken ==
  ASSUME NEW i, NEW p, p.hState = "START", NEW s
  PROVE  ScanToken(p, s, i) = IF s[i] \in NewLine THEN p
                              ELSE [p EXCEPT !.hState = "KEY", !.keyStart = i, !.lineBegin = i]
BY DEF ScanToken

(* A failed scan has the status of one. *)
LEMMA FailedStatus ==
  ASSUME NEW p, DOMAIN p = ScanFields
  PROVE  Failed(p).status = "error"
BY DEF Failed, ScanFields

(* The scan of such a buffer fails, or it waits for more in the key.        *)
LEMMA ScanHopeless ==
  ASSUME NEW c, Len(c.buf) \in Nat, NEW r \in Nat \ {0}, Hopeless(c.buf, r),
         \/ c.hState = "KEY"
         \/ /\ c.hState = "START" /\ r > Len(c.buf)
            /\ \E j \in 1..Len(c.buf) : c.buf[j] \notin NewLine
  PROVE  \/ Scanned(c).status = "error"
         \/ Scanned(c).status = "more" /\ Scanned(c).hState = "KEY" /\ Len(c.buf) < r
<1> DEFINE n == Len(c.buf)
           b == c.buf
           Good(p, i) == /\ i < r /\ p.status = "more"
                         /\ \/ p.hState = "KEY"
                            \/ /\ p.hState = "START" /\ c.hState = "START"
                               /\ \A j \in 1..i : b[j] \in NewLine
           Holds(p, i) == DOMAIN p = ScanFields /\ (p.status = "error" \/ Good(p, i))
<1>1. PICK scan : /\ scan[0] = Scan(c)
                  /\ \A i \in 1..n : scan[i] = Turn(c, scan[i - 1], i)
                  /\ Scanned(c) = scan[n]
  BY ScanSteps
<1> DEFINE T == {i \in Nat : Holds(scan[i], i)}
<1>2. 0 \in T
  <2>1. DOMAIN Scan(c) = ScanFields /\ Scan(c).status = "more" /\ Scan(c).hState = c.hState
    BY DEF Scan, ScanFields
  <2>2. Holds(Scan(c), 0)
    BY <2>1
  <2> HIDE DEF Holds
  <2> QED BY <1>1, <2>2
<1>3. ASSUME NEW i \in 0..n - 1, i \in T
      PROVE  i + 1 \in T
  <2> DEFINE p == scan[i]
             q == Turn(c, p, i + 1)
  <2>1. i \in Nat /\ i + 1 \in 1..n /\ (i + 1) - 1 = i /\ i + 1 \in Nat
    OBVIOUS
  <2>2. scan[i + 1] = q
    BY <1>1, <2>1
  <2>3. Holds(p, i)
    BY <1>3
  <2>4. /\ i + 1 < r => b[i + 1] # ":"
        /\ i + 1 = r => b[i + 1] = "CR"
    BY <2>1 DEF Hopeless
  <2>5. /\ q = IF p.status = "more" THEN ScanToken(p, b, i + 1) ELSE p
    BY DEF Turn
  <2> HIDE DEF p, q
  <2>6. CASE p.status = "error"
    <3>1. q = p
      BY <2>5, <2>6
    <3> QED BY <2>1, <2>2, <2>3, <2>6, <3>1
  <2>7. CASE Good(p, i) /\ p.hState = "KEY"
    <3>1. b[i + 1] # ":" /\ i + 1 <= r /\ (i + 1 = r => b[i + 1] \in NewLine)
      BY <2>1, <2>4, <2>7 DEF NewLine
    <3>2. q = IF b[i + 1] \in NewLine THEN Failed(p) ELSE p
      BY <2>5, <2>7, <3>1, KeyToken
    <3>3. CASE b[i + 1] \in NewLine
      <4>1. q.status = "error" /\ DOMAIN q = ScanFields
        BY <2>3, <3>2, <3>3, FailedStatus DEF Failed
      <4> QED BY <2>1, <2>2, <4>1
    <3>4. CASE b[i + 1] \notin NewLine
      <4>1. q = p /\ i + 1 < r
        BY <2>1, <3>1, <3>2, <3>4
      <4>2. Holds(q, i + 1)
        BY <2>3, <2>7, <4>1
      <4> HIDE DEF Holds
      <4> QED BY <2>1, <2>2, <4>2
    <3> QED BY <3>3, <3>4
  <2>8. CASE Good(p, i) /\ p.hState = "START"
    <3>1. /\ c.hState = "START" /\ p.status = "more" /\ DOMAIN p = ScanFields
          /\ \A j \in 1..i : b[j] \in NewLine
      BY <2>3, <2>8
    <3>2. i + 1 < r
      <4>1. c.hState # "KEY"
        BY <3>1
      <4> QED BY <2>1, <4>1
    <3>3. q = IF b[i + 1] \in NewLine THEN p
              ELSE [p EXCEPT !.hState = "KEY", !.keyStart = i + 1, !.lineBegin = i + 1]
      BY <2>5, <2>8, <3>1, StartToken
    <3>4. CASE b[i + 1] \in NewLine
      <4>1. \A j \in 1..i + 1 : b[j] \in NewLine
        <5>1. \A j \in 1..i + 1 : j \in 1..i \/ j = i + 1
          BY <2>1
        <5> QED BY <3>1, <3>4, <5>1
      <4>2. q = p
        BY <3>3, <3>4
      <4>3. Holds(q, i + 1)
        BY <2>8, <3>1, <3>2, <4>1, <4>2
      <4> HIDE DEF Holds
      <4> QED BY <2>1, <2>2, <4>3
    <3>5. CASE b[i + 1] \notin NewLine
      <4>1. DOMAIN q = ScanFields /\ q.hState = "KEY" /\ q.status = "more"
        BY <3>1, <3>3, <3>5 DEF ScanFields
      <4>2. Holds(q, i + 1)
        BY <3>2, <4>1
      <4> HIDE DEF Holds
      <4> QED BY <2>1, <2>2, <4>2
    <3> QED BY <3>4, <3>5
  <2>9. p.status = "error" \/ (Good(p, i) /\ (p.hState = "KEY" \/ p.hState = "START"))
    BY <2>3
  <2> QED BY <2>6, <2>7, <2>8, <2>9
<1> HIDE DEF T
<1>4. n \in T /\ n \in Nat
  <2>1. n \in Nat
    OBVIOUS
  <2> HIDE DEF n
  <2>2. \A i \in 0..n : i \in T
    BY <1>2, <1>3, <2>1, Induction
  <2>3. n \in 0..n
    BY <2>1
  <2> QED BY <2>1, <2>2, <2>3
<1>5. Holds(Scanned(c), n)
  <2> HIDE DEF Holds, n
  <2> QED BY <1>1, <1>4 DEF T
<1>6. ~(c.hState = "START" /\ \A j \in 1..n : b[j] \in NewLine)
  BY DEF NewLine
<1> QED BY <1>5, <1>6

(* What ParseHeaders makes of a scan without error. *)
LEMMA HeadersMove ==
  ASSUME NEW c, HasFields(c), ParseHeaders(c).error # TRUE
  PROVE  LET s == Scanned(c)
             d == ParseHeaders(c)
         IN  /\ s.status # "error"
             /\ HasFields(d) /\ d.hState = s.hState /\ d.method = c.method /\ d.file = c.file
             /\ d.sent = c.sent /\ d.out = c.out /\ d.conn = c.conn /\ d.error = c.error
             /\ \/ /\ s.hState = "END_LF" /\ d.state \in {"BODY", "ANALYSIS"}
                   /\ d.buf = IF s.status = "done"
                              THEN SubSeq(c.buf, s.lineBegin + 1, Len(c.buf)) ELSE <<>>
                \/ /\ s.hState # "END_LF" /\ d.state = c.state
                   /\ d.buf = SubSeq(c.buf, s.lineBegin, Len(c.buf))
<1> DEFINE s == Scanned(c)
           e == [c EXCEPT !.hState = s.hState, !.headers = s.headers]
           end == IF s.status = "done"
                  THEN SubSeq(c.buf, s.lineBegin + 1, Len(c.buf)) ELSE <<>>
           rest == SubSeq(c.buf, s.lineBegin, Len(c.buf))
<1>1. /\ HasFields(e) /\ e.hState = s.hState /\ e.method = c.method /\ e.file = c.file
      /\ e.sent = c.sent /\ e.out = c.out /\ e.conn = c.conn /\ e.error = c.error
      /\ e.state = c.state
  <2> HIDE DEF s
  <2> QED BY DEF HasFields, Fields
<1>2. ParseHeaders(c) = IF s.status = "error" THEN HandleError(e, BadRequest)
                        ELSE IF s.hState = "END_LF"
                        THEN [e EXCEPT !.state = IF c.method = "POST" THEN "BODY" ELSE "ANALYSIS",
                                       !.buf = end]
                        ELSE [e EXCEPT !.buf = rest]
  BY Zenon DEF ParseHeaders
<1> HIDE DEF s, e, end, rest
<1>3. s.status # "error"
  <2>1. HandleError(e, BadRequest).error = TRUE
    BY <1>1, HandleErrorKeeps
  <2> QED BY <1>2, <2>1
<1>4. CASE s.hState = "END_LF"
  <2> DEFINE x == IF c.method = "POST" THEN "BODY" ELSE "ANALYSIS"
             d == [e EXCEPT !.state = x, !.buf = end]
  <2>1. ParseHeaders(c) = d
    BY <1>2, <1>3, <1>4
  <2>2. x \in {"BODY", "ANALYSIS"}
    OBVIOUS
  <2> HIDE DEF x
  <2>3. /\ HasFields(d) /\ d.hState = s.hState /\ d.method = c.method /\ d.file = c.file
        /\ d.sent = c.sent /\ d.out = c.out /\ d.conn = c.conn /\ d.error = c.error
        /\ d.state = x /\ d.buf = end
    BY <1>1 DEF HasFields, Fields
  <2> HIDE DEF d
  <2> QED BY <1>3, <1>4, <2>1, <2>2, <2>3 DEF s, end
<1>5. CASE s.hState # "END_LF"
  <2> DEFINE d == [e EXCEPT !.buf = rest]
  <2>1. ParseHeaders(c) = d
    BY <1>2, <1>3, <1>5
  <2>2. /\ HasFields(d) /\ d.hState = s.hState /\ d.method = c.method /\ d.file = c.file
        /\ d.sent = c.sent /\ d.out = c.out /\ d.conn = c.conn /\ d.error = c.error
        /\ d.state = c.state /\ d.buf = rest
    BY <1>1 DEF HasFields, Fields
  <2> HIDE DEF d
  <2> QED BY <1>3, <1>5, <2>1, <2>2 DEF s, rest
<1> QED BY <1>4, <1>5

(* The scan has been in a key since before a line that was cut. *)
Lost(c, p) == c.hState = "KEY" /\ \E q : NoColon(p, q)

(* ParseURI has just left such a line to the scan. *)
Cut(c, p, t) ==
  c.hState = "START" /\ \E q : NoColon(p, q) /\ t < q /\ \E x \in p + 1..t : Stream[x] \notin NewLine

(* The scan never gets past a line that was cut: it fails or stays in the   *)
(* key.                                                                     *)
LEMMA HeadersStage ==
  ASSUME NEW c, HasFields(c), c.state = "HEADERS", c.hState \in HStates,
         NEW p, NEW t, Buffered(c.buf, p, t), ParseHeaders(c).error # TRUE
  PROVE  LET d == ParseHeaders(c)
         IN  /\ d.hState \in HStates /\ d.state \in {"HEADERS", "BODY", "ANALYSIS"}
             /\ \E x \in Nat : /\ p <= x /\ Buffered(d.buf, x, t)
                               /\ Lost(c, p) \/ Cut(c, p, t) => d.state = "HEADERS" /\ Lost(d, x)
<1> DEFINE s == Scanned(c)
           d == ParseHeaders(c)
           b == c.buf
           n == Len(b)
<1>1. /\ s.status # "error" /\ d.hState = s.hState
      /\ \/ /\ s.hState = "END_LF" /\ d.state \in {"BODY", "ANALYSIS"}
            /\ d.buf = IF s.status = "done" THEN SubSeq(b, s.lineBegin + 1, n) ELSE <<>>
         \/ /\ s.hState # "END_LF" /\ d.state = c.state /\ d.buf = SubSeq(b, s.lineBegin, n)
  BY HeadersMove
<1>2. p \in Nat /\ t \in Nat /\ p + n = t /\ n \in Nat /\ t <= Len(Stream)
  BY DEF Buffered, PartOf
<1>B. \A i \in 1..n : b[i] = Stream[p + i]
  BY DEF Buffered, PartOf
<1>3. ScanShape(s, n)
  BY <1>2, ScannedShape
<1> HIDE DEF s, d
<1>4. /\ s.hState \in HStates /\ s.lineBegin \in Nat \ {0} /\ s.lineBegin <= n + 1
      /\ s.status = "done" => s.lineBegin \in 1..n
  BY <1>2, <1>3 DEF ScanShape
<1>5. \E x \in Nat : p <= x /\ Buffered(d.buf, x, t)
  <2>1. ASSUME NEW i \in Nat \ {0}, i <= n + 1
        PROVE  \E x \in Nat : p <= x /\ Buffered(SubSeq(b, i, n), x, t)
    <3>1. Buffered(SubSeq(b, i, n), p + (i - 1), t)
      BY <2>1, BufferedTail
    <3>2. p + (i - 1) \in Nat /\ p <= p + (i - 1)
      BY <1>2
    <3> QED BY <3>1, <3>2
  <2>2. CASE s.hState # "END_LF"
    <3>1. d.buf = SubSeq(b, s.lineBegin, n)
      BY <1>1, <2>2
    <3> QED BY <1>4, <2>1, <3>1
  <2>3. CASE s.hState = "END_LF" /\ s.status = "done"
    <3>1. d.buf = SubSeq(b, s.lineBegin + 1, n)
      BY <1>1, <2>3
    <3>2. s.lineBegin + 1 \in Nat \ {0} /\ s.lineBegin + 1 <= n + 1
      BY <1>2, <1>4, <2>3
    <3> QED BY <2>1, <3>1, <3>2
  <2>4. CASE s.hState = "END_LF" /\ s.status # "done"
    <3>1. d.buf = <<>>
      BY <1>1, <2>4
    <3>2. IsSequence(<<>>) /\ Len(<<>>) = 0
      BY EmptySeq DEF IsSequence
    <3>3. PartOf(<<>>, t)
      BY <3>2 DEF PartOf
    <3>4. Buffered(<<>>, t, t)
      BY <1>2, <3>2, <3>3 DEF Buffered
    <3>5. p <= t
      BY <1>2
    <3> QED BY <1>2, <3>1, <3>4, <3>5
  <2> QED BY <2>2, <2>3, <2>4
<1>6. d.hState \in HStates /\ d.state \in {"HEADERS", "BODY", "ANALYSIS"}
  BY <1>1, <1>4
<1>7. ASSUME Lost(c, p) \/ Cut(c, p, t)
      PROVE  d.state = "HEADERS" /\ d.hState = "KEY" /\ \E q : NoColon(p, q) /\ t < q
  <2>1. PICK q : /\ NoColon(p, q)
                 /\ \/ c.hState = "KEY"
                    \/ c.hState = "START" /\ t < q /\ \E x \in p + 1..t : Stream[x] \notin NewLine
    BY <1>7 DEF Lost, Cut
  <2> DEFINE r == q - p
  <2>2. /\ q \in Nat /\ p < q /\ Stream[q] = "CR"
        /\ \A i \in p + 1..q - 1 : Stream[i] # ":"
    BY <2>1 DEF NoColon
  <2>3. r \in Nat \ {0} /\ p + r = q
    BY <1>2, <2>2
  <2>4. Hopeless(b, r)
    <3>1. ASSUME NEW j \in 1..n, j < r
          PROVE  b[j] # ":"
      <4>1. p + j \in p + 1..q - 1
        BY <1>2, <2>2, <2>3, <3>1
      <4> QED BY <1>B, <2>2, <4>1
    <3>2. ASSUME NEW j \in 1..n, j = r
          PROVE  b[j] = "CR"
      BY <1>B, <2>2, <2>3, <3>2
    <3> HIDE DEF r
    <3> QED BY <3>1, <3>2 DEF Hopeless
  <2>5. \/ c.hState = "KEY"
        \/ c.hState = "START" /\ r > n /\ \E j \in 1..n : b[j] \notin NewLine
    <3>1. CASE c.hState = "KEY"
      BY <3>1
    <3>2. CASE c.hState = "START" /\ t < q /\ \E x \in p + 1..t : Stream[x] \notin NewLine
      <4>1. PICK x \in p + 1..t : Stream[x] \notin NewLine
        BY <3>2
      <4>2. x - p \in 1..n /\ p + (x - p) = x /\ r > n
        BY <1>2, <2>2, <3>2
      <4>3. b[x - p] \notin NewLine
        BY <1>B, <4>1, <4>2
      <4> HIDE DEF r
      <4> QED BY <3>2, <4>2, <4>3
    <3> QED BY <2>1, <3>1, <3>2
  <2> HIDE DEF r
  <2>6. s.status = "more" /\ s.hState = "KEY" /\ n < r
    BY <1>1, <1>2, <2>3, <2>4, <2>5, ScanHopeless DEF s
  <2>7. t < q
    BY <1>2, <2>2, <2>3, <2>6
  <2> QED BY <1>1, <2>1, <2>6, <2>7
<1>8. PICK x \in Nat : p <= x /\ Buffered(d.buf, x, t)
  BY <1>5
<1>9. ASSUME NEW q, NoColon(p, q), t < q
      PROVE  NoColon(x, q)
  <2>1. /\ q \in Nat /\ p < q /\ q <= Len(Stream) /\ Stream[q] = "CR"
        /\ \A i \in p + 1..q - 1 : Stream[i] # ":"
    BY <1>9 DEF NoColon
  <2>2. x <= t
    BY <1>8 DEF Buffered, PartOf
  <2>3. x < q
    BY <1>2, <1>8, <1>9, <2>1, <2>2
  <2>4. \A i \in x + 1..q - 1 : Stream[i] # ":"
    <3>1. \A i \in x + 1..q - 1 : i \in p + 1..q - 1
      BY <1>2, <1>8, <2>1
    <3> QED BY <2>1, <3>1
  <2> QED BY <2>1, <2>3, <2>4 DEF NoColon
<1>10. Lost(c, p) \/ Cut(c, p, t) => d.state = "HEADERS" /\ Lost(d, x)
  BY <1>7, <1>9 DEF Lost
<1> QED BY <1>6, <1>8, <1>10 DEF d

-----------------------------------------------------------------------------
(* Answers in the order of the requests.                                    *)

(* The answers in a sequence go to the first n requests, in their order.    *)
Answers(s) == {i \in DOMAIN s : Len(s[i]) = 2}

(* f says which request each answer of s is to. *)
Matches(f, s) ==
  /\ \A i \in Answers(s) : requests[f[i]].method # "POST" /\ s[i] = Answer(requests[f[i]])
  /\ \A i, j \in Answers(s) : i < j => f[i] < f[j]

InOrder(s, n) == \E f \in [Answers(s) -> 1..n] : Matches(f, s)

(* Answers to the first n requests are answers to the first m, if n <= m. *)
LEMMA OrderMore ==
  ASSUME NEW s, NEW n \in Nat, NEW m \in Nat, n <= m, InOrder(s, n)
  PROVE  InOrder(s, m)
<1>1. PICK f \in [Answers(s) -> 1..n] : Matches(f, s)
  BY DEF InOrder
<1>2. f \in [Answers(s) -> 1..m]
  <2>1. 1..n \subseteq 1..m
    OBVIOUS
  <2> QED BY <2>1
<1> QED BY <1>1, <1>2 DEF InOrder

(* s is the beginning of t. *)
Begins(s, t) ==
  /\ IsSequence(s) /\ IsSequence(t) /\ Len(s) <= Len(t)
  /\ \A i \in 1..Len(s) : t[i] = s[i]

(* What begins a sequence in order is in order. *)
LEMMA OrderBegins ==
  ASSUME NEW s, NEW t, Begins(s, t), NEW n \in Nat, InOrder(t, n)
  PROVE  InOrder(s, n)
<1>1. /\ Len(s) \in Nat /\ DOMAIN s = 1..Len(s) /\ Len(t) \in Nat /\ DOMAIN t = 1..Len(t)
      /\ Len(s) <= Len(t) /\ \A i \in 1..Len(s) : t[i] = s[i]
  BY SequenceLen DEF Begins
<1>2. PICK f \in [Answers(t) -> 1..n] : Matches(f, t)
  BY DEF InOrder
<1>3. \A i \in Answers(s) : i \in Answers(t) /\ t[i] = s[i] /\ i \in Nat
  <2>1. \A i \in DOMAIN s : i \in DOMAIN t /\ t[i] = s[i] /\ i \in Nat
    BY <1>1
  <2> QED BY <2>1 DEF Answers
<1> DEFINE g == [i \in Answers(s) |-> f[i]]
<1>4. g \in [Answers(s) -> 1..n] /\ \A i \in Answers(s) : g[i] = f[i]
  BY <1>3
<1> HIDE DEF g
<1>5. Matches(g, s)
  <2>1. /\ \A i \in Answers(t) : requests[f[i]].method # "POST" /\ t[i] = Answer(requests[f[i]])
        /\ \A i, j \in Answers(t) : i < j => f[i] < f[j]
    BY <1>2 DEF Matches
  <2>2. \A i \in Answers(s) : requests[g[i]].method # "POST" /\ s[i] = Answer(requests[g[i]])
    BY <1>3, <1>4, <2>1
  <2>3. \A i, j \in Answers(s) : i < j => g[i] < g[j]
    BY <1>3, <1>4, <2>1
  <2> QED BY <2>2, <2>3 DEF Matches
<1> QED BY <1>4, <1>5 DEF InOrder

(* t is s and one element more. *)
LEMMA OneMore ==
  ASSUME NEW s, NEW t, Begins(s, t), Len(t) = Len(s) + 1
  PROVE  /\ Len(t) \in Nat /\ \A i \in Answers(s) : i \in Nat /\ i < Len(t) /\ t[i] = s[i]
         /\ Answers(t) = IF Len(t[Len(t)]) = 2 THEN Answers(s) \cup {Len(t)} ELSE Answers(s)
<1>1. /\ Len(s) \in Nat /\ DOMAIN s = 1..Len(s) /\ Len(t) \in Nat /\ DOMAIN t = 1..Len(t)
      /\ \A i \in 1..Len(s) : t[i] = s[i]
  BY SequenceLen DEF Begins
<1> DEFINE m == Len(s)
           k == Len(t)
<1>2. k = m + 1 /\ m \in Nat /\ DOMAIN s = 1..m /\ DOMAIN t = 1..k /\ \A i \in 1..m : t[i] = s[i]
  BY <1>1
<1> HIDE DEF m, k
<1>3. DOMAIN t = (1..m) \cup {k} /\ k \notin 1..m /\ \A i \in 1..m : i \in Nat /\ i < k
  BY <1>2
<1>4. Answers(t) = {i \in 1..m : Len(s[i]) = 2} \cup {i \in {k} : Len(t[i]) = 2}
  BY <1>2, <1>3 DEF Answers
<1>5. Answers(s) = {i \in 1..m : Len(s[i]) = 2}
  BY <1>2 DEF Answers
<1>6. Answers(t) = IF Len(t[k]) = 2 THEN Answers(s) \cup {k} ELSE Answers(s)
  BY <1>4, <1>5
<1>7. \A i \in Answers(s) : i \in Nat /\ i < k /\ t[i] = s[i]
  BY <1>2, <1>3, <1>5
<1> QED BY <1>1, <1>6, <1>7 DEF k

(* A report of an error after answers in order. *)
LEMMA OrderReport ==
  ASSUME NEW s, NEW t, Begins(s, t), Len(t) = Len(s) + 1, Len(t[Len(t)]) # 2,
         NEW n \in Nat, InOrder(s, n)
  PROVE  InOrder(t, n)
<1>1. Answers(t) = Answers(s) /\ \A i \in Answers(s) : t[i] = s[i]
  BY OneMore
<1>2. PICK f \in [Answers(s) -> 1..n] : Matches(f, s)
  BY DEF InOrder
<1>3. Matches(f, t)
  BY <1>1, <1>2 DEF Matches
<1> QED BY <1>1, <1>2, <1>3 DEF InOrder

(* The answer to a later request after answers in order. *)
LEMMA OrderAnswer ==
  ASSUME NEW s, NEW t, Begins(s, t), Len(t) = Len(s) + 1, NEW n \in Nat, InOrder(s, n),
         NEW k \in Nat, n < k, t[Len(t)] = Answer(requests[k]), requests[k].method # "POST"
  PROVE  InOrder(t, k)
<1>1. PICK f \in [Answers(s) -> 1..n] : Matches(f, s)
  BY DEF InOrder
<1> DEFINE m == Len(t)
           g == [i \in Answers(t) |-> IF i = m THEN k ELSE f[i]]
<1>2. /\ m \in Nat /\ \A i \in Answers(s) : i \in Nat /\ i < m /\ t[i] = s[i]
      /\ Answers(t) = IF Len(t[m]) = 2 THEN Answers(s) \cup {m} ELSE Answers(s)
  BY OneMore
<1>3. t[m] = Answer(requests[k])
  OBVIOUS
<1> HIDE DEF m
<1>4. \A i \in Answers(t) : i = m \/ (i \in Answers(s) /\ i # m)
  BY <1>2
<1>5. \A i \in Answers(s) : f[i] \in 1..k /\ f[i] < k
  <2>1. \A i \in Answers(s) : f[i] \in 1..n
    BY <1>1
  <2> QED BY <2>1
<1>6. /\ \A i \in Answers(t) : i = m => g[i] = k
      /\ \A i \in Answers(t) : i # m => g[i] = f[i]
      /\ g = [i \in Answers(t) |-> g[i]]
  OBVIOUS
<1> HIDE DEF g
<1>7. g \in [Answers(t) -> 1..k]
  <2>1. k \in 1..k
    OBVIOUS
  <2>2. \A i \in Answers(t) : g[i] \in 1..k
    BY <1>4, <1>5, <1>6, <2>1
  <2> QED BY <1>6, <2>2
<1>8. /\ \A i \in Answers(s) : requests[f[i]].method # "POST" /\ s[i] = Answer(requests[f[i]])
      /\ \A i, j \in Answers(s) : i < j => f[i] < f[j]
  BY <1>1 DEF Matches
<1>9. \A i \in Answers(t) : requests[g[i]].method # "POST" /\ t[i] = Answer(requests[g[i]])
  BY <1>2, <1>3, <1>4, <1>6, <1>8
<1>10. ASSUME NEW i \in Answers(t), NEW j \in Answers(t), i < j
       PROVE  g[i] < g[j]
  <2>1. CASE i = m
    <3>1. ~(m < j)
      BY <1>2, <1>4
    <3> QED BY <1>10, <2>1, <3>1
  <2>2. CASE i # m /\ j = m
    BY <1>4, <1>5, <1>6, <2>2
  <2>3. CASE i # m /\ j # m
    BY <1>4, <1>6, <1>8, <1>10, <2>3
  <2> QED BY <2>1, <2>2, <2>3
<1>11. Matches(g, t)
  BY <1>9, <1>10 DEF Matches
<1> QED BY <1>7, <1>11 DEF InOrder

-----------------------------------------------------------------------------
(* What Append returns. *)
LEMMA Appended ==
  ASSUME NEW s, IsSequence(s), NEW e
  PROVE  LET t == Append(s, e)
         IN  Begins(s, t) /\ Len(t) = Len(s) + 1 /\ t[Len(t)] = e
<1> DEFINE t == Append(s, e)
<1>1. PICK S : s \in Seq(S)
  BY DEF IsSequence
<1> DEFINE U == S \cup {e}
<1>2. s \in Seq(U) /\ e \in U
  BY <1>1, SeqMonotonic
<1> HIDE DEF U
<1>3. /\ t \in Seq(U) /\ Len(t) = Len(s) + 1 /\ t[Len(s) + 1] = e
      /\ \A i \in 1..Len(s) : t[i] = s[i]
  BY <1>2, AppendProperties
<1>4. Len(s) \in Nat
  BY SequenceLen
<1> HIDE DEF t
<1>5. IsSequence(t) /\ Len(s) <= Len(t)
  BY <1>3, <1>4 DEF IsSequence
<1>6. t[Len(t)] = e
  BY <1>3
<1> QED BY <1>3, <1>5, <1>6 DEF Begins, t

(* What was sent begins what is sent and pending. *)
LEMMA JoinBegins ==
  ASSUME NEW s, IsSequence(s), NEW t, IsSequence(t)
  PROVE  Begins(s, s \o t)
<1> DEFINE u == s \o t
<1>1. IsSequence(u) /\ Len(u) = Len(s) + Len(t) /\ \A i \in 1..Len(s) : u[i] = s[i]
  BY Joined
<1>2. Len(s) \in Nat /\ Len(t) \in Nat
  BY SequenceLen
<1> HIDE DEF u
<1>3. Len(s) <= Len(u)
  BY <1>1, <1>2
<1>4. Begins(s, u)
  BY <1>1, <1>3 DEF Begins
<1> QED BY <1>4 DEF u

(* An answer at the end of what is pending. *)
LEMMA JoinAppend ==
  ASSUME NEW s, IsSequence(s), NEW t, IsSequence(t), NEW e
  PROVE  s \o Append(t, e) = Append(s \o t, e)
<1>1. PICK S, T : s \in Seq(S) /\ t \in Seq(T)
  BY DEF IsSequence
<1> DEFINE U == S \cup T \cup {e}
<1>2. S \subseteq U /\ T \subseteq U /\ e \in U
  OBVIOUS
<1> HIDE DEF U
<1>3. s \in Seq(U) /\ t \in Seq(U)
  BY <1>1, <1>2, SeqMonotonic
<1>4. s \o t \in Seq(U)
  BY <1>3, ConcatProperties
<1>5. Append(t, e) = t \o <<e>> /\ Append(s \o t, e) = (s \o t) \o <<e>>
  BY <1>2, <1>3, <1>4, AppendIsConcat
<1>6. <<e>> \in Seq(U)
  BY <1>2
<1>7. (s \o t) \o <<e>> = s \o (t \o <<e>>)
  BY <1>3, <1>6, ConcatAssociative
<1> QED BY <1>5, <1>7

(* What is on record is in order, whatever became of the connection.        *)
Fine(c) == HasFields(c) /\ IsSequence(c.sent) /\ InOrder(c.sent, Len(requests))

(* The request that is being taken in, after the n that have been dealt     *)
(* with: its line has been parsed.                                          *)
Pending(c, n, p) ==
  \E k \in n + 1..Len(requests) : LineEnd(k) <= p /\ <<c.method, c.file>> = Answer(requests[k])

(* Headers or a body are awaited, or the parser is lost. *)
Awaits(c, n, p, t, cut) ==
  /\ c.state = "URI" => c.hState = "START"
  /\ c.state \in {"HEADERS", "BODY", "ANALYSIS"} =>
       \/ Pending(c, n, p)
       \/ c.state = "HEADERS" /\ (Lost(c, p) \/ (cut /\ Cut(c, p, t)))

(* A parser without error, whose buffer starts after p and whose reads have *)
(* reached t: what it has sent and what it has yet to send are in order.    *)
(* cut: ParseURI may just have left a line to the scan.                     *)
Stage(c, p, t, cut) ==
  /\ HasFields(c) /\ IsSequence(c.sent) /\ c.hState \in HStates /\ Buffered(c.buf, p, t)
  /\ \E n \in 0..Len(requests) : /\ InOrder(c.sent \o c.out, n) /\ LineEnd(n) <= p
                                 /\ Awaits(c, n, p, t, cut)

(* A failure keeps the record. *)
LEMMA ReportFine ==
  ASSUME NEW c, Fine(c), Len(requests) \in Nat, NEW answer, Len(answer) # 2
  PROVE  Fine(HandleError(c, answer))
<1> DEFINE t == Append(c.sent, answer)
           d == HandleError(c, answer)
<1>1. Begins(c.sent, t) /\ Len(t) = Len(c.sent) + 1 /\ t[Len(t)] = answer
  BY Appended DEF Fine
<1>2. d.sent = t /\ HasFields(d)
  BY DEF Fine, HandleError, HasFields, Fields
<1> HIDE DEF t, d
<1>3. InOrder(t, Len(requests))
  BY <1>1, OrderReport DEF Fine
<1>4. Fine(d)
  BY <1>1, <1>2, <1>3 DEF Fine, Begins
<1> QED BY <1>4 DEF d

(* A report of an error is no answer. *)
LEMMA Reports == Len(BadRequest) # 2 /\ Len(NotFound) # 2
<1>1. \A x : Len(<<x>>) = 1
  BY Single
<1> QED BY <1>1 DEF BadRequest, NotFound

(* The positions of two lines. *)
LEMMA LineOrder ==
  ASSUME Marks, NEW n \in 0..Len(requests), NEW k \in 1..Len(requests), LineEnd(n) <= Start(k)
  PROVE  n < k /\ k \in n + 1..Len(requests)
<1>1. Len(requests) \in Nat
  BY DEF Marks
<1>2. Start(k) \in Nat /\ Shut(k) \in Nat /\ Start(k) + 1 < Shut(k)
  BY DEF Marks
<1>3. CASE n = 0
  BY <1>1, <1>3
<1>4. CASE n # 0
  <2>1. n \in 1..Len(requests)
    BY <1>1, <1>4
  <2>2. /\ Start(n) \in Nat /\ Shut(n) \in Nat /\ Start(n) + 1 < Shut(n)
        /\ \A j \in 1..n - 1 : Shut(j) < Start(n)
    BY <2>1 DEF Marks
  <2>3. Shut(n) <= Start(k)
    BY <1>4 DEF LineEnd
  <2>4. n # k
    BY <1>2, <2>3
  <2>5. ~(k < n)
    <3> SUFFICES ASSUME k < n PROVE FALSE
      OBVIOUS
    <3>1. k \in 1..n - 1
      BY <1>1, <2>1
    <3> QED BY <1>2, <2>2, <2>3, <3>1
  <2> QED BY <1>1, <2>1, <2>4, <2>5
<1> QED BY <1>3, <1>4

-----------------------------------------------------------------------------
(* The four stages of Parse.                                                *)

(* ParseURI: the request it takes comes after those dealt with. *)
LEMMA URIOrder ==
  ASSUME Marks, NEW c, NEW p, NEW t, Stage(c, p, t, FALSE), c.state = "URI", ParseURI(c).error # TRUE
  PROVE  \E x : Stage(ParseURI(c), x, t, TRUE)
<1> DEFINE d == ParseURI(c)
<1>1. HasFields(c) /\ IsSequence(c.sent) /\ c.hState \in HStates /\ Buffered(c.buf, p, t)
  BY DEF Stage
<1>2. PICK n \in 0..Len(requests) : /\ InOrder(c.sent \o c.out, n) /\ LineEnd(n) <= p
                                    /\ Awaits(c, n, p, t, FALSE)
  BY DEF Stage
<1>3. /\ HasFields(d) /\ d.state = "HEADERS" /\ d.hState = c.hState
      /\ d.sent = c.sent /\ d.out = c.out
  BY <1>1, URIMoves
<1>4. PICK k \in 1..Len(requests) :
        /\ p <= Start(k) /\ <<d.method, d.file>> = Answer(requests[k])
        /\ Taken(k, p, t, c.buf, d)
  BY <1>1, URIStage
<1> HIDE DEF d
<1>5. c.hState = "START"
  BY <1>2 DEF Awaits
<1>6. p \in Nat /\ t \in Nat
  BY <1>1 DEF Buffered
<1>7. Start(k) \in Nat /\ Shut(k) \in Nat /\ Start(k) + 1 < Shut(k) /\ Len(requests) \in Nat
  BY DEF Marks
<1>N. LineEnd(n) \in Nat
  <2>1. n # 0 => Shut(n) \in Nat
    <3> SUFFICES ASSUME n # 0 PROVE Shut(n) \in Nat
      OBVIOUS
    <3>1. n \in 1..Len(requests)
      BY <1>7
    <3> QED BY <3>1 DEF Marks
  <2> QED BY <2>1 DEF LineEnd
<1>8. k \in n + 1..Len(requests)
  <2>1. LineEnd(n) <= Start(k)
    BY <1>2, <1>4, <1>6, <1>7, <1>N
  <2> QED BY <2>1, LineOrder
<1>9. CASE Buffered(d.buf, Shut(k), t)
  <2>1. LineEnd(k) = Shut(k) /\ LineEnd(n) <= Shut(k)
    <3>1. k # 0
      BY <1>7
    <3>2. LineEnd(n) <= Shut(k)
      BY <1>2, <1>4, <1>6, <1>7, <1>N
    <3> QED BY <3>1, <3>2 DEF LineEnd
  <2>2. Pending(d, n, Shut(k))
    <3>1. LineEnd(k) <= Shut(k)
      BY <1>7, <2>1
    <3> QED BY <1>4, <1>8, <3>1 DEF Pending
  <2>3. Awaits(d, n, Shut(k), t, TRUE)
    BY <1>3, <2>2 DEF Awaits
  <2>4. Stage(d, Shut(k), t, TRUE)
    BY <1>1, <1>2, <1>3, <1>9, <2>1, <2>3 DEF Stage
  <2> QED BY <2>4 DEF d
<1>10. CASE d.buf = c.buf /\ p <= Start(k) /\ Start(k) + 1 <= t /\ t < Shut(k) /\ NoColon(p, Shut(k))
  <2>1. Stream[Start(k) + 1] \in Methods
    BY LineInside
  <2>2. Stream[Start(k) + 1] \notin NewLine
    BY <2>1 DEF Methods, NewLine
  <2>3. Start(k) + 1 \in p + 1..t
    BY <1>6, <1>7, <1>10
  <2>4. Cut(d, p, t)
    BY <1>3, <1>5, <1>10, <2>2, <2>3 DEF Cut
  <2>5. Awaits(d, n, p, t, TRUE)
    BY <1>3, <2>4 DEF Awaits
  <2>6. Stage(d, p, t, TRUE)
    BY <1>1, <1>2, <1>3, <1>10, <2>5 DEF Stage
  <2> QED BY <2>6 DEF d
<1> QED BY <1>4, <1>9, <1>10 DEF Taken

(* ParseHeaders: the request stays pending until its headers end. *)
LEMMA HeadersOrder ==
  ASSUME Marks, NEW c, NEW p, NEW t, Stage(c, p, t, TRUE), c.state = "HEADERS",
         ParseHeaders(c).error # TRUE
  PROVE  \E x : Stage(ParseHeaders(c), x, t, FALSE)
<1> DEFINE d == ParseHeaders(c)
<1>1. HasFields(c) /\ IsSequence(c.sent) /\ c.hState \in HStates /\ Buffered(c.buf, p, t)
  BY DEF Stage
<1>2. PICK n \in 0..Len(requests) : /\ InOrder(c.sent \o c.out, n) /\ LineEnd(n) <= p
                                    /\ Awaits(c, n, p, t, TRUE)
  BY DEF Stage
<1>3. /\ HasFields(d) /\ d.method = c.method /\ d.file = c.file
      /\ d.sent = c.sent /\ d.out = c.out
  BY <1>1, HeadersMove
<1>4. /\ d.hState \in HStates /\ d.state \in {"HEADERS", "BODY", "ANALYSIS"}
      /\ \E x \in Nat : /\ p <= x /\ Buffered(d.buf, x, t)
                        /\ Lost(c, p) \/ Cut(c, p, t) => d.state = "HEADERS" /\ Lost(d, x)
  BY <1>1, HeadersStage
<1> HIDE DEF d
<1>5. PICK x \in Nat : /\ p <= x /\ Buffered(d.buf, x, t)
                       /\ Lost(c, p) \/ Cut(c, p, t) => d.state = "HEADERS" /\ Lost(d, x)
  BY <1>4
<1>6. p \in Nat /\ Len(requests) \in Nat
  BY <1>1 DEF Buffered, Marks
<1>7. \A k \in 0..Len(requests) : LineEnd(k) \in Nat
  <2>1. \A k \in 0..Len(requests) : k # 0 => k \in 1..Len(requests)
    BY <1>6
  <2>2. \A k \in 1..Len(requests) : Shut(k) \in Nat
    BY DEF Marks
  <2> QED BY <2>1, <2>2 DEF LineEnd
<1>8. LineEnd(n) <= x
  BY <1>2, <1>5, <1>6, <1>7
<1>9. Pending(c, n, p) => Pending(d, n, x)
  <2> SUFFICES ASSUME Pending(c, n, p) PROVE Pending(d, n, x)
    OBVIOUS
  <2>1. PICK k \in n + 1..Len(requests) :
          LineEnd(k) <= p /\ <<c.method, c.file>> = Answer(requests[k])
    BY DEF Pending
  <2>2. k \in 0..Len(requests)
    BY <1>6
  <2>3. LineEnd(k) <= x
    BY <1>5, <1>6, <1>7, <2>1, <2>2
  <2> QED BY <1>3, <2>1, <2>3 DEF Pending
<1>10. Pending(c, n, p) \/ Lost(c, p) \/ Cut(c, p, t)
  BY <1>2 DEF Awaits
<1>11. Awaits(d, n, x, t, FALSE)
  BY <1>4, <1>5, <1>9, <1>10 DEF Awaits
<1>12. Stage(d, x, t, FALSE)
  BY <1>1, <1>2, <1>3, <1>4, <1>5, <1>8, <1>11 DEF Stage
<1> QED BY <1>12 DEF d

(* ReceiveBody: likewise until the body has come. *)
LEMMA BodyOrder ==
  ASSUME NEW c, NEW p, NEW t, Stage(c, p, t, FALSE), c.state = "BODY", ReceiveBody(c).error # TRUE
  PROVE  Stage(ReceiveBody(c), p, t, FALSE)
<1> DEFINE d == [c EXCEPT !.state = "ANALYSIS"]
<1>1. HasFields(c)
  BY DEF Stage
<1>2. HandleError(c, BadRequest).error = TRUE
  BY <1>1, HandleErrorKeeps
<1>3. ReceiveBody(c) = c \/ ReceiveBody(c) = d
  BY <1>2 DEF ReceiveBody
<1>4. /\ HasFields(d) /\ d.state = "ANALYSIS" /\ d.hState = c.hState /\ d.buf = c.buf
      /\ d.method = c.method /\ d.file = c.file /\ d.sent = c.sent /\ d.out = c.out
  BY <1>1 DEF HasFields, Fields
<1> HIDE DEF d
<1>5. Stage(d, p, t, FALSE)
  <2>1. IsSequence(c.sent) /\ c.hState \in HStates /\ Buffered(c.buf, p, t)
    BY DEF Stage
  <2>2. PICK n \in 0..Len(requests) : /\ InOrder(c.sent \o c.out, n) /\ LineEnd(n) <= p
                                      /\ Awaits(c, n, p, t, FALSE)
    BY DEF Stage
  <2>3. Pending(c, n, p)
    BY <2>2 DEF Awaits
  <2>4. Pending(d, n, p)
    BY <1>4, <2>3 DEF Pending
  <2>5. Awaits(d, n, p, t, FALSE)
    BY <1>4, <2>4 DEF Awaits
  <2> QED BY <1>4, <2>1, <2>2, <2>5 DEF Stage
<1> QED BY <1>3, <1>5

(* AnalysisRequest: the pending request gets its answer, behind the others. *)
LEMMA AnalysisOrder ==
  ASSUME Marks, NEW c, NEW p, NEW t, Stage(c, p, t, FALSE), c.state = "ANALYSIS",
         NEW d \in AnalysisRequest(c), d.error # TRUE
  PROVE  Stage(d, p, t, FALSE) /\ d.state = "FINISH"
<1> DEFINE answer == <<c.method, c.file>>
           success == [c EXCEPT !.state = "FINISH"]
           empty == [c EXCEPT !.out = <<>>]
           N == Len(requests)
<1>1. HasFields(c) /\ IsSequence(c.sent) /\ IsSequence(c.out) /\ c.hState \in HStates /\ Buffered(c.buf, p, t)
  BY DEF Stage, HasFields
<1>2. PICK n \in 0..N : /\ InOrder(c.sent \o c.out, n) /\ LineEnd(n) <= p
                        /\ Awaits(c, n, p, t, FALSE)
  BY DEF Stage
<1>3. PICK k \in n + 1..N : LineEnd(k) <= p /\ answer = Answer(requests[k])
  <2>1. Pending(c, n, p)
    BY <1>2 DEF Awaits
  <2> QED BY <2>1 DEF Pending
<1>4. HandleError(c, NotFound).error = TRUE /\ HandleError(empty, NotFound).error = TRUE
  <2>1. IsSequence(<<>>)
    BY EmptySeq DEF IsSequence
  <2>2. HasFields(empty)
    BY <1>1, <2>1 DEF HasFields, Fields
  <2> HIDE DEF empty
  <2> QED BY <1>1, <2>2, HandleErrorKeeps
<1>5. \/ d = success
      \/ c.method # "POST" /\ d = [success EXCEPT !.out = <<answer>>]
      \/ c.method # "POST" /\ d = [success EXCEPT !.out = Append(c.out, answer)]
  <2>1. success.out = c.out
    BY <1>1 DEF HasFields, Fields
  <2>2. \/ d = success
        \/ c.method # "POST" /\ d = [success EXCEPT !.out = <<answer>>]
        \/ c.method # "POST" /\ d = [success EXCEPT !.out = Append(success.out, answer)]
        \/ d = HandleError(c, NotFound) \/ d = HandleError(empty, NotFound)
    BY DEF AnalysisRequest
  <2> HIDE DEF success, empty, answer
  <2> QED BY <1>4, <2>1, <2>2
<1>6. N \in Nat /\ n \in Nat /\ k \in Nat /\ n < k /\ k \in 0..N
  BY DEF Marks
<1>7. ASSUME NEW x, IsSequence(x), NEW m \in 0..N, LineEnd(m) <= p, InOrder(c.sent \o x, m),
             d = [success EXCEPT !.out = x]
      PROVE  Stage(d, p, t, FALSE) /\ d.state = "FINISH"
  <2>1. /\ HasFields(d) /\ d.state = "FINISH" /\ d.hState = c.hState /\ d.buf = c.buf
        /\ d.sent = c.sent /\ d.out = x
    BY <1>1, <1>7 DEF HasFields, Fields
  <2>2. Awaits(d, m, p, t, FALSE)
    BY <2>1 DEF Awaits
  <2> QED BY <1>1, <1>7, <2>1, <2>2 DEF Stage
<1>8. c.method = requests[k].method
  <2> DEFINE r == requests[k]
             file == IF r.special = "query" THEN <<"f">>
                     ELSE IF r.path = Root THEN <<"index.html">> ELSE <<r.path>>
  <2>1. <<c.method, c.file>> = <<r.method, file>>
    BY Zenon, <1>3 DEF Answer
  <2> HIDE DEF file
  <2> QED BY <2>1
<1> DEFINE out == c.out
           sent == c.sent
<1>9. IsSequence(sent \o out) /\ Begins(sent, sent \o out)
  BY <1>1, JoinBegins DEF Begins
<1>10. CASE d = success
  <2>1. d = [success EXCEPT !.out = c.out]
    BY <1>1, <1>10 DEF HasFields, Fields
  <2> QED BY <1>1, <1>2, <1>7, <2>1
<1>11. CASE c.method # "POST" /\ d = [success EXCEPT !.out = <<answer>>]
  <2>1. InOrder(sent, n)
    BY <1>2, <1>6, <1>9, OrderBegins
  <2>2. IsSequence(<<answer>>)
    BY Single
  <2> DEFINE u == Append(sent, answer)
  <2>3. Begins(sent, u) /\ Len(u) = Len(sent) + 1 /\ u[Len(u)] = answer
    BY <1>1, Appended
  <2>4. sent \o <<answer>> = u
    <3>1. IsSequence(sent)
      BY <1>1
    <3> HIDE DEF answer, sent
    <3> QED BY <3>1, AppendIsConcat DEF IsSequence
  <2> HIDE DEF u, answer, sent, success
  <2>5. InOrder(u, k)
    BY <1>3, <1>6, <1>8, <1>11, <2>1, <2>3, OrderAnswer
  <2> QED BY <1>3, <1>6, <1>7, <1>11, <2>2, <2>4, <2>5 DEF sent
<1>12. CASE c.method # "POST" /\ d = [success EXCEPT !.out = Append(c.out, answer)]
  <2> DEFINE s == sent \o out
             u == Append(s, answer)
  <2>1. Begins(s, u) /\ Len(u) = Len(s) + 1 /\ u[Len(u)] = answer
    BY <1>9, Appended
  <2>2. sent \o Append(out, answer) = u
    <3>1. IsSequence(sent) /\ IsSequence(out)
      BY <1>1
    <3> HIDE DEF answer, out, sent
    <3> QED BY <3>1, JoinAppend
  <2>3. IsSequence(Append(out, answer))
    <3>1. IsSequence(out)
      BY <1>1
    <3> HIDE DEF answer, out
    <3> QED BY <3>1, Appended DEF Begins
  <2>4. InOrder(s, n)
    BY <1>2
  <2> HIDE DEF u, s, answer, success
  <2>5. InOrder(u, k)
    BY <1>3, <1>6, <1>8, <1>12, <2>1, <2>4, OrderAnswer
  <2> QED BY <1>3, <1>6, <1>7, <1>12, <2>2, <2>3, <2>5
<1> QED BY <1>5, <1>10, <1>11, <1>12

(* What every stage keeps: the record in order, and without an error the    *)
(* stage of the parser.                                                     *)
Good(c, t, cut) == Fine(c) /\ (c.error # TRUE => \E p : Stage(c, p, t, cut))

(* The record depends on what was sent only. *)
LEMMA SameFine ==
  ASSUME NEW c, Fine(c), NEW d, HasFields(d), d.sent = c.sent
  PROVE  Fine(d)
BY DEF Fine

(* Each stage keeps both, an error included. *)
LEMMA URIGood ==
  ASSUME Marks, NEW c, NEW t, Good(c, t, FALSE), c.state = "URI"
  PROVE  Good(ParseURI(c), t, TRUE)
<1> DEFINE d == ParseURI(c)
           e == [c EXCEPT !.buf = <<>>]
<1>1. Fine(c) /\ HasFields(c) /\ Len(requests) \in Nat
  BY DEF Good, Fine, Marks
<1>2. Keeps(c, d)
  BY <1>1, ParseURIKeeps
<1>3. Fine(d)
  <2>1. HasFields(e) /\ e.sent = c.sent
    BY <1>1 DEF HasFields, Fields
  <2> HIDE DEF e
  <2>2. Fine(HandleError(e, BadRequest))
    BY <1>1, <2>1, SameFine, ReportFine, Reports
  <2>3. d = HandleError(e, BadRequest) \/ d.error # TRUE \/ d.sent = c.sent
    <3> DEFINE r     == RequestLine(c.buf)
               m     == MethodOf(r.line)
               slash == Find(r.line, "/", Find(r.line, m, 1))
               space == Find(r.line, Blank, slash)
               file  == FileName(r.line, slash, space)
               g == [c EXCEPT !.state = "HEADERS", !.buf = r.rest, !.method = m, !.file = file]
    <3>1. d = g \/ d = HandleError(e, BadRequest)
      BY Zenon DEF ParseURI, e
    <3> HIDE DEF d, file, m, r
    <3>2. g.sent = c.sent
      BY <1>1 DEF HasFields, Fields
    <3> QED BY <3>1, <3>2
  <2>4. d.error # TRUE => d.sent = c.sent
    BY <1>1, URIMoves
  <2> QED BY <1>1, <1>2, <2>2, <2>3, <2>4, SameFine DEF Keeps
<1>4. ASSUME d.error # TRUE
      PROVE  \E x : Stage(d, x, t, TRUE)
  <2>1. c.error # TRUE
    BY <1>2, <1>4 DEF Keeps
  <2>2. PICK p : Stage(c, p, t, FALSE)
    BY <2>1 DEF Good
  <2> QED BY <1>4, <2>2, URIOrder
<1> HIDE DEF d
<1>5. Good(d, t, TRUE)
  BY <1>3, <1>4 DEF Good
<1> QED BY <1>5 DEF d

(* The stage of the headers, ...                                            *)
LEMMA HeadersGood ==
  ASSUME Marks, NEW c, NEW t, Good(c, t, TRUE), c.state = "HEADERS"
  PROVE  Good(ParseHeaders(c), t, FALSE)
<1> DEFINE d == ParseHeaders(c)
           s == Scanned(c)
           e == [c EXCEPT !.hState = s.hState, !.headers = s.headers]
<1>1. Fine(c) /\ HasFields(c) /\ Len(requests) \in Nat
  BY DEF Good, Fine, Marks
<1>2. Keeps(c, d)
  BY <1>1, ParseHeadersKeeps
<1>3. Fine(d)
  <2>1. HasFields(e) /\ e.sent = c.sent
    <3> HIDE DEF s
    <3> QED BY <1>1 DEF HasFields, Fields
  <2>2. s.status = "error" => d = HandleError(e, BadRequest)
    BY DEF ParseHeaders
  <2> HIDE DEF e
  <2>3. Fine(HandleError(e, BadRequest))
    BY <1>1, <2>1, SameFine, ReportFine, Reports
  <2>4. s.status # "error" => d.sent = c.sent
    <3> DEFINE x == IF c.method = "POST" THEN "BODY" ELSE "ANALYSIS"
               end == IF s.status = "done"
                      THEN SubSeq(c.buf, s.lineBegin + 1, Len(c.buf)) ELSE <<>>
               rest == SubSeq(c.buf, s.lineBegin, Len(c.buf))
               g == [e EXCEPT !.state = x, !.buf = end]
               h == [e EXCEPT !.buf = rest]
    <3>1. s.status # "error" => d = g \/ d = h
      BY Zenon DEF ParseHeaders, e
    <3> HIDE DEF d, s, x, end, rest
    <3>2. g.sent = e.sent /\ h.sent = e.sent
      BY <2>1 DEF HasFields, Fields
    <3> QED BY <2>1, <3>1, <3>2
  <2> HIDE DEF d
  <2> QED BY <1>1, <1>2, <2>2, <2>3, <2>4, SameFine DEF Keeps
<1>4. ASSUME d.error # TRUE
      PROVE  \E x : Stage(d, x, t, FALSE)
  <2>1. c.error # TRUE
    BY <1>2, <1>4 DEF Keeps
  <2>2. PICK p : Stage(c, p, t, TRUE)
    BY <2>1 DEF Good
  <2> QED BY <1>4, <2>2, HeadersOrder
<1> HIDE DEF d
<1>5. Good(d, t, FALSE)
  BY <1>3, <1>4 DEF Good
<1> QED BY <1>5 DEF d

(* ... that of the body ...                                                 *)
LEMMA BodyGood ==
  ASSUME Marks, NEW c, NEW t, Good(c, t, FALSE), c.state = "BODY"
  PROVE  Good(ReceiveBody(c), t, FALSE)
<1> DEFINE d == ReceiveBody(c)
           e == [c EXCEPT !.state = "ANALYSIS"]
<1>1. Fine(c) /\ HasFields(c) /\ Len(requests) \in Nat
  BY DEF Good, Fine, Marks
<1>2. Keeps(c, d)
  BY <1>1, ReceiveBodyKeeps
<1>3. Fine(d)
  <2>1. HasFields(e) /\ e.sent = c.sent
    BY <1>1 DEF HasFields, Fields
  <2>2. d = HandleError(c, BadRequest) \/ d = c \/ d = e
    BY DEF ReceiveBody
  <2>3. Fine(HandleError(c, BadRequest))
    BY <1>1, ReportFine, Reports
  <2> HIDE DEF d, e
  <2> QED BY <1>1, <2>1, <2>2, <2>3, SameFine
<1>4. ASSUME d.error # TRUE
      PROVE  \E x : Stage(d, x, t, FALSE)
  <2>1. c.error # TRUE
    BY <1>2, <1>4 DEF Keeps
  <2>2. PICK p : Stage(c, p, t, FALSE)
    BY <2>1 DEF Good
  <2> QED BY <1>4, <2>2, BodyOrder
<1> HIDE DEF d
<1>5. Good(d, t, FALSE)
  BY <1>3, <1>4 DEF Good
<1> QED BY <1>5 DEF d

(* ... and that of the analysis.                                            *)
LEMMA AnalysisGood ==
  ASSUME Marks, NEW c, NEW t, Good(c, t, FALSE), c.state = "ANALYSIS", NEW d \in AnalysisRequest(c)
  PROVE  Good(d, t, FALSE)
<1> DEFINE answer == <<c.method, c.file>>
           success == [c EXCEPT !.state = "FINISH"]
           empty == [c EXCEPT !.out = <<>>]
<1>1. Fine(c) /\ HasFields(c) /\ Len(requests) \in Nat
  BY DEF Good, Fine, Marks
<1>2. HasFields(d) /\ (d.error = TRUE \/ d.error = c.error)
  BY <1>1, AnalysisOutcome
<1>3. Fine(d)
  <2>1. HasFields(empty) /\ empty.sent = c.sent /\ HasFields(success) /\ success.sent = c.sent
    <3>1. IsSequence(<<>>)
      BY EmptySeq DEF IsSequence
    <3> QED BY <1>1, <3>1 DEF HasFields, Fields
  <2>2. d \in {success, [success EXCEPT !.out = <<answer>>],
               [success EXCEPT !.out = Append(@, answer)],
               HandleError(c, NotFound), HandleError(empty, NotFound)}
    BY DEF AnalysisRequest
  <2> HIDE DEF success, empty, answer
  <2>3. \A x : [success EXCEPT !.out = x].sent = success.sent
    BY <2>1 DEF HasFields, Fields
  <2>4. Fine(HandleError(c, NotFound)) /\ Fine(HandleError(empty, NotFound))
    BY <1>1, <2>1, SameFine, ReportFine, Reports
  <2>5. \/ d.sent = c.sent
        \/ d = HandleError(c, NotFound) \/ d = HandleError(empty, NotFound)
    BY <2>1, <2>2, <2>3
  <2> QED BY <1>1, <1>2, <2>4, <2>5, SameFine
<1>4. ASSUME d.error # TRUE
      PROVE  \E x : Stage(d, x, t, FALSE)
  <2>1. c.error # TRUE
    BY <1>2, <1>4
  <2>2. PICK p : Stage(c, p, t, FALSE)
    BY <2>1 DEF Good
  <2> QED BY <1>4, <2>2, AnalysisOrder
<1> QED BY <1>3, <1>4 DEF Good

(* Where nothing has just been cut, the flag makes no difference. *)
LEMMA CutOnly ==
  ASSUME NEW c, NEW t
  PROVE  /\ Good(c, t, FALSE) => Good(c, t, TRUE)
         /\ Good(c, t, TRUE) /\ c.state # "HEADERS" => Good(c, t, FALSE)
<1>1. ASSUME NEW n, NEW p
      PROVE  /\ Awaits(c, n, p, t, FALSE) => Awaits(c, n, p, t, TRUE)
             /\ Awaits(c, n, p, t, TRUE) /\ c.state # "HEADERS" => Awaits(c, n, p, t, FALSE)
  BY DEF Awaits
<1>2. ASSUME NEW p
      PROVE  /\ Stage(c, p, t, FALSE) => Stage(c, p, t, TRUE)
             /\ Stage(c, p, t, TRUE) /\ c.state # "HEADERS" => Stage(c, p, t, FALSE)
  BY <1>1 DEF Stage
<1> QED BY <1>2 DEF Good

(* The stages one after the other. *)
LEMMA ParseGood ==
  ASSUME Marks, NEW c, NEW t, Good(c, t, FALSE), NEW d \in Parse(c)
  PROVE  Good(d, t, FALSE)
<1> DEFINE line    == IF c.state = "URI" THEN ParseURI(c) ELSE c
           headers == IF line.state = "HEADERS" THEN ParseHeaders(line) ELSE line
           body    == IF headers.state = "BODY" THEN ReceiveBody(headers) ELSE headers
<1>1. d \in IF body.state = "ANALYSIS" THEN AnalysisRequest(body) ELSE {body}
  BY Zenon DEF Parse
<1>2. Good(line, t, TRUE)
  BY URIGood, CutOnly
<1> HIDE DEF line
<1>3. Good(headers, t, FALSE)
  BY <1>2, HeadersGood, CutOnly
<1> HIDE DEF headers
<1>4. Good(body, t, FALSE)
  BY <1>3, BodyGood
<1> HIDE DEF body
<1> QED BY <1>1, <1>4, AnalysisGood

-----------------------------------------------------------------------------
(* The connection between two passes.                                       *)

(* The connection between two passes: the record in order, and without an   *)
(* error what is pending too; the parser counts only while it still reads.  *)
Base(c) == \E n \in 0..Len(requests) : InOrder(c.sent \o c.out, n)

(* What is kept of a connection whose reads have reached t. *)
Kept(c, t) ==
  /\ Fine(c)
  /\ c.error # TRUE => /\ Base(c)
                       /\ c.conn = "CONNECTED" => \E p : Stage(c, p, t, FALSE)

OrderInv ==
  /\ requests \in Seq(Requests) /\ taken \in Nat /\ taken <= Len(Stream)
  /\ Kept(http, taken)

(* A pass, a close, a reset and a write keep it. *)
LEMMA GoodKept ==
  ASSUME NEW c, NEW t, Good(c, t, FALSE)
  PROVE  Kept(c, t)
<1>1. ASSUME NEW p, Stage(c, p, t, FALSE)
      PROVE  Base(c)
  BY <1>1 DEF Stage, Base
<1> QED BY <1>1 DEF Good, Kept

(* A step that leaves the parser and the order of the answers alone. *)
LEMMA StageMoved ==
  ASSUME NEW c, NEW d, HasFields(d), IsSequence(d.sent), d.sent \o d.out = c.sent \o c.out,
         d.buf = c.buf, d.state = c.state, d.hState = c.hState, d.method = c.method,
         d.file = c.file, NEW p, NEW t, Stage(c, p, t, FALSE)
  PROVE  Stage(d, p, t, FALSE)
<1>1. c.hState \in HStates /\ Buffered(c.buf, p, t)
  BY DEF Stage
<1>2. PICK n \in 0..Len(requests) : /\ InOrder(c.sent \o c.out, n) /\ LineEnd(n) <= p
                                    /\ Awaits(c, n, p, t, FALSE)
  BY DEF Stage
<1>3. (Pending(c, n, p) => Pending(d, n, p)) /\ (Lost(c, p) => Lost(d, p))
  BY DEF Pending, Lost
<1>4. Awaits(d, n, p, t, FALSE)
  BY <1>2, <1>3 DEF Awaits
<1> QED BY <1>1, <1>2, <1>4 DEF Stage

(* A closed connection keeps its record. *)
LEMMA ClosedKept ==
  ASSUME NEW c, Fine(c), NEW t
  PROVE  Kept(Closed(c), t)
<1> DEFINE d == Closed(c)
<1>1. HasFields(d) /\ d.sent = c.sent /\ d.error = TRUE
  <2>1. IsSequence(<<>>)
    BY EmptySeq DEF IsSequence
  <2> QED BY <2>1 DEF Closed, InitHttp, HasFields, Fields
<1> HIDE DEF d
<1>2. Kept(d, t)
  BY <1>1, SameFine DEF Kept
<1> QED BY <1>2 DEF d

(* A reset starts over with a line. *)
LEMMA ResetKept ==
  ASSUME NEW c, HasFields(c), NEW t, Kept(c, t)
  PROVE  Kept(Reset(c), t)
<1> DEFINE d == Reset(c)
<1>1. /\ HasFields(d) /\ d.sent = c.sent /\ d.out = c.out /\ d.error = c.error /\ d.conn = c.conn
      /\ d.buf = c.buf /\ d.state = "URI" /\ d.hState = "START"
  BY DEF Reset, HasFields, Fields
<1> HIDE DEF d
<1>2. Fine(d)
  BY <1>1, SameFine DEF Kept
<1>3. Base(c) => Base(d)
  BY <1>1 DEF Base
<1>4. ASSUME NEW p, Stage(c, p, t, FALSE)
      PROVE  Stage(d, p, t, FALSE)
  <2>1. IsSequence(c.sent) /\ Buffered(c.buf, p, t)
    BY <1>4 DEF Stage
  <2>2. PICK n \in 0..Len(requests) : InOrder(c.sent \o c.out, n) /\ LineEnd(n) <= p
    BY <1>4 DEF Stage
  <2>3. Awaits(d, n, p, t, FALSE)
    BY <1>1 DEF Awaits
  <2>4. "START" \in HStates
    BY DEF HStates
  <2> QED BY <1>1, <2>1, <2>2, <2>3, <2>4 DEF Stage
<1>5. Kept(d, t)
  BY <1>1, <1>2, <1>3, <1>4 DEF Kept
<1> QED BY <1>5 DEF d

(* A sequence is its first k elements and the rest. *)
LEMMA SplitJoined ==
  ASSUME NEW s, IsSequence(s), NEW k \in 0..Len(s)
  PROVE  /\ IsSequence(SubSeq(s, 1, k)) /\ IsSequence(SubSeq(s, k + 1, Len(s)))
         /\ SubSeq(s, 1, k) \o SubSeq(s, k + 1, Len(s)) = s
<1> DEFINE n == Len(s)
           a == SubSeq(s, 1, k)
           b == SubSeq(s, k + 1, n)
           u == a \o b
<1>1. n \in Nat /\ k \in Nat /\ k <= n
  BY SequenceLen
<1>2. /\ IsSequence(a) /\ Len(a) = IF 1 <= k THEN k - 1 + 1 ELSE 0
      /\ \A i \in 1..Len(a) : a[i] = s[1 + i - 1]
  <2>1. 1 \in Nat
    OBVIOUS
  <2> QED BY <1>1, <2>1, SubSequence
<1>3. /\ IsSequence(b) /\ Len(b) = IF k + 1 <= n THEN n - (k + 1) + 1 ELSE 0
      /\ \A i \in 1..Len(b) : b[i] = s[(k + 1) + i - 1]
  <2>1. k + 1 \in Nat
    BY <1>1
  <2> HIDE DEF n
  <2> QED BY <1>1, <2>1, SubSequence
<1> HIDE DEF a, b
<1>4. /\ IsSequence(u) /\ Len(u) = Len(a) + Len(b)
      /\ \A i \in 1..Len(a) : u[i] = a[i]
      /\ \A i \in 1..Len(b) : u[Len(a) + i] = b[i]
  <2>1. IsSequence(a) /\ IsSequence(b)
    BY <1>2, <1>3
  <2> QED BY <2>1, Joined
<1> HIDE DEF u, n
<1>5. Len(a) = k /\ Len(b) = n - k /\ Len(u) = n
  BY <1>1, <1>2, <1>3, <1>4
<1>6. ASSUME NEW i \in 1..n
      PROVE  u[i] = s[i]
  <2>1. CASE i <= k
    <3>1. i \in 1..Len(a) /\ 1 + i - 1 = i
      BY <1>1, <1>5, <2>1
    <3> QED BY <1>2, <1>4, <3>1
  <2>2. CASE ~(i <= k)
    <3> DEFINE j == i - k
    <3>1. j \in 1..Len(b) /\ k + j = i /\ (k + 1) + j - 1 = i
      BY <1>1, <1>5, <2>2
    <3> HIDE DEF j
    <3>2. u[k + j] = b[j]
      BY <1>4, <1>5, <3>1
    <3> QED BY <1>3, <3>1, <3>2
  <2> QED BY <2>1, <2>2
<1>7. u = s
  <2>1. Len(u) = Len(s) /\ \A i \in 1..Len(u) : u[i] = s[i]
    BY <1>5, <1>6 DEF n
  <2> QED BY <1>4, <2>1, SameSequence
<1> QED BY <1>2, <1>3, <1>7 DEF u, a, b, n

(* A write moves answers from what is pending to what is sent. *)
LEMMA WritesOrder ==
  ASSUME Len(requests) \in Nat, NEW c, NEW t, Kept(c, t), c.error # TRUE, NEW d \in Writes(c)
  PROVE  Kept(d, t)
<1>1. HasFields(c) /\ IsSequence(c.sent) /\ IsSequence(c.out) /\ Fine(c)
  BY DEF Kept, Fine, HasFields
<1>2. CASE d = [c EXCEPT !.error = TRUE]
  <2>1. HasFields(d) /\ d.sent = c.sent /\ d.error = TRUE
    BY <1>1, <1>2 DEF HasFields, Fields
  <2> QED BY <1>1, <2>1, SameFine DEF Kept
<1>3. ASSUME NEW k \in 0..Len(c.out),
             d = [c EXCEPT !.sent = @ \o SubSeq(c.out, 1, k), !.out = SubSeq(@, k + 1, Len(@))]
      PROVE  Kept(d, t)
  <2> DEFINE a == SubSeq(c.out, 1, k)
             b == SubSeq(c.out, k + 1, Len(c.out))
  <2>1. IsSequence(a) /\ IsSequence(b) /\ a \o b = c.out
    BY <1>1, SplitJoined
  <2>2. d = [c EXCEPT !.sent = c.sent \o a, !.out = b]
    <3>1. [c EXCEPT !.sent = c.sent \o a].out = c.out
      BY <1>1 DEF HasFields, Fields
    <3>2. d = [c EXCEPT !.sent = c.sent \o a,
                        !.out = SubSeq([c EXCEPT !.sent = c.sent \o a].out, k + 1,
                                       Len([c EXCEPT !.sent = c.sent \o a].out))]
      BY <1>3
    <3> QED BY <3>1, <3>2
  <2> HIDE DEF a, b
  <2>3. IsSequence(c.sent \o a)
    BY <1>1, <2>1, Joined
  <2>4. (c.sent \o a) \o b = c.sent \o c.out
    <3>1. (c.sent \o a) \o b = c.sent \o (a \o b)
      <4> DEFINE s == c.sent
      <4>1. IsSequence(s) /\ IsSequence(a) /\ IsSequence(b)
        BY <1>1, <2>1
      <4> HIDE DEF s
      <4>2. Associates(s, a, b)
        BY <4>1, JoinAssociative
      <4> QED BY <4>2 DEF s, Associates
    <3> QED BY <2>1, <3>1
  <2>5. /\ HasFields(d) /\ d.sent = c.sent \o a /\ d.out = b /\ d.error = c.error /\ d.conn = c.conn
        /\ d.buf = c.buf /\ d.state = c.state /\ d.hState = c.hState /\ d.method = c.method
        /\ d.file = c.file
    BY <1>1, <2>1, <2>2 DEF HasFields, Fields
  <2>6. d.sent \o d.out = c.sent \o c.out /\ IsSequence(d.sent)
    BY <2>3, <2>4, <2>5
  <2>7. PICK n \in 0..Len(requests) : InOrder(c.sent \o c.out, n)
    BY DEF Kept, Base
  <2>8. Base(d)
    BY <2>6, <2>7 DEF Base
  <2>9. InOrder(d.sent, Len(requests))
    <3>1. Begins(d.sent, d.sent \o d.out)
      BY <2>1, <2>5, <2>6, JoinBegins
    <3>2. InOrder(d.sent, n)
      BY <2>6, <2>7, <3>1, OrderBegins
    <3> QED BY <2>7, <3>2, OrderMore
  <2>10. Fine(d)
    BY <2>5, <2>6, <2>9 DEF Fine
  <2>11. ASSUME NEW p, Stage(c, p, t, FALSE)
         PROVE  Stage(d, p, t, FALSE)
    BY <2>5, <2>6, <2>11, StageMoved
  <2> QED BY <2>5, <2>8, <2>10, <2>11 DEF Kept
<1> QED BY <1>2, <1>3 DEF Writes

(* The text of a read: the next n tokens of the stream. *)
Arriving(t, n) == SubSeq(SubSeq(Stream, t + 1, Len(Stream)), 1, n)

(* A read and the pass over what it brought. *)
LEMMA ReadOrder ==
  ASSUME Marks, NEW c, AtRest(c), c.error = FALSE, NEW t \in Nat, Kept(c, t),
         NEW n \in Nat, t + n <= Len(Stream), NEW end \in Ends,
         NEW d \in ReadAndParse(c, Arriving(t, n), end)
  PROVE  Kept(d, t + n)
<1> DEFINE text == Arriving(t, n)
           e == [c EXCEPT !.buf = @ \o text]
           u == t + n
<1>1. HasFields(c) /\ Fine(c) /\ Len(requests) \in Nat /\ IsSequence(Stream) /\ Base(c)
  BY DEF Kept, Fine, Marks
<1>2. /\ HasFields(e) /\ e.sent = c.sent /\ e.out = c.out /\ e.error = FALSE /\ e.conn = c.conn
      /\ e.buf = c.buf \o text /\ e.state = c.state /\ e.hState = c.hState
      /\ e.method = c.method /\ e.file = c.file
  BY <1>1 DEF HasFields, Fields
<1>3. d \in IF c.conn = "DISCONNECTING" THEN {[e EXCEPT !.buf = <<>>]}
            ELSE CASE end = "EAGAIN" -> Parse(e)
                   [] end = "error"  -> Parse(HandleError(e, BadRequest))
                   [] end = "eof"    -> IF text = <<>> THEN {[e EXCEPT !.conn = "DISCONNECTING"]}
                                        ELSE Parse([e EXCEPT !.conn = "DISCONNECTING"])
  BY DEF ReadAndParse
<1> HIDE DEF e
<1>4. Fine(e) /\ Base(e)
  BY <1>1, <1>2, SameFine DEF Base
<1>5. ASSUME NEW p, Stage(c, p, t, FALSE)
      PROVE  Stage(e, p, u, FALSE)
  <2>1. IsSequence(c.sent) /\ c.hState \in HStates /\ Buffered(c.buf, p, t)
    BY <1>5 DEF Stage
  <2>2. PICK m \in 0..Len(requests) : /\ InOrder(c.sent \o c.out, m) /\ LineEnd(m) <= p
                                      /\ Awaits(c, m, p, t, FALSE)
    BY <1>5 DEF Stage
  <2>3. Buffered(e.buf, p, u)
    BY <1>1, <1>2, <2>1, BufferedMore DEF Arriving
  <2>4. (Pending(c, m, p) => Pending(e, m, p)) /\ (Lost(c, p) => Lost(e, p))
    BY <1>2 DEF Pending, Lost
  <2>5. Awaits(e, m, p, u, FALSE)
    BY <1>2, <2>2, <2>4 DEF Awaits
  <2> HIDE DEF u
  <2> QED BY <1>2, <2>1, <2>2, <2>3, <2>5 DEF Stage
<1> HIDE DEF text, u
<1>6. CASE c.conn = "DISCONNECTING"
  <2>1. d = [e EXCEPT !.buf = <<>>]
    BY <1>3, <1>6
  <2>2. HasFields(d) /\ d.sent = e.sent /\ d.out = e.out /\ d.conn = e.conn
    BY <1>2, <2>1 DEF HasFields, Fields
  <2>3. Fine(d) /\ Base(d)
    BY <1>4, <2>2, SameFine DEF Base
  <2>4. d.conn # "CONNECTED"
    BY <1>2, <1>6, <2>2
  <2>5. Kept(d, u)
    BY <2>3, <2>4 DEF Kept
  <2> QED BY <2>5 DEF u
<1>7. CASE c.conn # "DISCONNECTING"
  <2>1. PICK p : Stage(c, p, t, FALSE)
    <3>1. c.conn = "CONNECTED"
      BY <1>7 DEF AtRest
    <3> QED BY <3>1 DEF Kept
  <2>2. Stage(e, p, u, FALSE)
    BY <1>5, <2>1
  <2>3. Good(e, u, FALSE)
    BY <1>4, <2>2 DEF Good
  <2> DEFINE h == [e EXCEPT !.conn = "DISCONNECTING"]
  <2>4. /\ HasFields(h) /\ h.sent = e.sent /\ h.out = e.out /\ h.error = e.error
        /\ h.buf = e.buf /\ h.state = e.state /\ h.hState = e.hState /\ h.method = e.method
        /\ h.file = e.file /\ h.conn = "DISCONNECTING"
    BY <1>2 DEF HasFields, Fields
  <2> HIDE DEF h
  <2>5. Good(h, u, FALSE)
    <3>1. Fine(h)
      BY <1>4, <2>4, SameFine
    <3>2. IsSequence(h.sent)
      BY <3>1 DEF Fine
    <3>3. Stage(h, p, u, FALSE)
      BY <2>2, <2>4, <3>2, StageMoved
    <3> QED BY <3>1, <3>3 DEF Good
  <2>6. CASE end = "EAGAIN"
    <3>1. d \in Parse(e)
      BY <1>3, <1>7, <2>6
    <3>2. Kept(d, u)
      BY <2>3, <3>1, ParseGood, GoodKept
    <3> QED BY <3>2 DEF u
  <2>7. CASE end = "error"
    <3>1. d \in Parse(HandleError(e, BadRequest))
      BY <1>3, <1>7, <2>7
    <3>2. Fine(HandleError(e, BadRequest))
      BY <1>1, <1>4, ReportFine, Reports
    <3>3. HandleError(e, BadRequest).error = TRUE
      BY <1>2, HandleErrorKeeps
    <3>4. Good(HandleError(e, BadRequest), u, FALSE)
      BY <3>2, <3>3 DEF Good
    <3>5. Kept(d, u)
      BY <3>1, <3>4, ParseGood, GoodKept
    <3> QED BY <3>5 DEF u
  <2>8. CASE end = "eof"
    <3>1. d = h \/ d \in Parse(h)
      BY <1>3, <1>7, <2>8 DEF h
    <3>2. Kept(d, u)
      BY <2>5, <3>1, ParseGood, GoodKept
    <3> QED BY <3>2 DEF u
  <2> QED BY <2>6, <2>7, <2>8 DEF Ends
<1> QED BY <1>6, <1>7

-----------------------------------------------------------------------------
(* The order holds at first and is kept by every step. *)
LEMMA InitOrder == Init => OrderInv
<1> SUFFICES ASSUME Init PROVE OrderInv
  OBVIOUS
<1>1. requests \in Seq(Requests)
  BY DEF Init, BoundedSeq, SeqOf, Requests
<1>2. Marks
  BY <1>1, StreamMarks
<1>3. Len(requests) \in Nat /\ Len(Stream) \in Nat /\ taken = 0
  BY <1>2 DEF Marks, Init
<1>4. IsSequence(<<>>) /\ Len(<<>>) = 0 /\ <<>> \o <<>> = <<>> /\ DOMAIN <<>> = {}
  <2>1. IsSequence(<<>>) /\ Len(<<>>) = 0
    BY EmptySeq DEF IsSequence
  <2>2. <<>> \o <<>> = <<>>
    OBVIOUS
  <2> QED BY <2>1, <2>2
<1>5. /\ HasFields(http) /\ http.sent = <<>> /\ http.out = <<>> /\ http.buf = <<>>
      /\ http.state = "URI" /\ http.hState = "START"
  BY <1>4 DEF Init, InitHttp, HasFields, Fields
<1>6. \A n : InOrder(<<>>, n)
  <2>1. ASSUME NEW n
        PROVE  InOrder(<<>>, n)
    <3>1. Answers(<<>>) = {}
      BY <1>4 DEF Answers
    <3> DEFINE f == [i \in {} |-> 1]
    <3>2. f \in [{} -> 1..n]
      OBVIOUS
    <3> HIDE DEF f
    <3>3. Matches(f, <<>>)
      BY <3>1 DEF Matches
    <3> QED BY <3>1, <3>2, <3>3 DEF InOrder
  <2> QED BY <2>1
<1>7. Fine(http)
  BY <1>4, <1>5, <1>6 DEF Fine
<1>8. Stage(http, 0, 0, FALSE)
  <2>1. PartOf(<<>>, 0)
    BY <1>4 DEF PartOf
  <2>2. Buffered(<<>>, 0, 0)
    <3>1. 0 + Len(<<>>) = 0 /\ 0 <= Len(Stream)
      BY <1>3, <1>4
    <3> QED BY <1>4, <2>1, <3>1 DEF Buffered
  <2>3. LineEnd(0) <= 0
    BY DEF LineEnd
  <2>4. Awaits(http, 0, 0, 0, FALSE)
    BY <1>5 DEF Awaits
  <2>5. 0 \in 0..Len(requests)
    BY <1>3
  <2> QED BY <1>4, <1>5, <1>6, <2>2, <2>3, <2>4, <2>5 DEF Stage, HStates
<1>9. Good(http, 0, FALSE)
  BY <1>7, <1>8 DEF Good
<1>10. Kept(http, 0)
  BY <1>9, GoodKept
<1> QED BY <1>1, <1>3, <1>10 DEF OrderInv

(* The stream does not change. *)
LEMMA SameStream ==
  ASSUME UNCHANGED requests
  PROVE  /\ Stream' = Stream
         /\ \A c, t : Kept(c, t)' <=> Kept(c, t)
<1>1. Stream' = Stream
  BY DEF Stream
<1>2. \A k : (Start(k)' = Start(k)) /\ (Shut(k)' = Shut(k)) /\ (LineEnd(k)' = LineEnd(k))
  <2>1. \A k : Start(k)' = Start(k)
    BY DEF Start
  <2>2. \A k : Shut(k)' = Shut(k)
    BY <2>1 DEF Shut
  <2> QED BY <2>1, <2>2 DEF LineEnd
<1>3. \A s, n : InOrder(s, n)' <=> InOrder(s, n)
  <2>1. \A f, s : Matches(f, s)' <=> Matches(f, s)
    BY DEF Matches
  <2> QED BY <2>1 DEF InOrder
<1>4. \A b, p, t : Buffered(b, p, t)' <=> Buffered(b, p, t)
  BY <1>1 DEF Buffered, PartOf
<1>5. \A p, q : NoColon(p, q)' <=> NoColon(p, q)
  BY <1>1 DEF NoColon
<1>6. \A c, n, p, t : Awaits(c, n, p, t, FALSE)' <=> Awaits(c, n, p, t, FALSE)
  <2>1. \A c, n, p : Pending(c, n, p)' <=> Pending(c, n, p)
    BY <1>2 DEF Pending
  <2>2. \A c, p : Lost(c, p)' <=> Lost(c, p)
    BY <1>5 DEF Lost
  <2> QED BY <2>1, <2>2 DEF Awaits
<1>7. \A c, p, t : Stage(c, p, t, FALSE)' <=> Stage(c, p, t, FALSE)
  BY <1>2, <1>3, <1>4, <1>6 DEF Stage
<1>8. \A c : (Fine(c)' <=> Fine(c)) /\ (Base(c)' <=> Base(c))
  BY <1>3 DEF Fine, Base
<1>9. \A c, t : Kept(c, t)' <=> Kept(c, t)
  BY <1>7, <1>8 DEF Kept
<1> QED BY <1>1, <1>9

(* The next value of the connection after a pass. *)
LEMMA PassOrder ==
  ASSUME NEW d, HasFields(d), d.error \in BOOLEAN, NEW t, Kept(d, t)
  PROVE  Kept(IF d.error THEN Closed(d)
              ELSE IF ~d.error /\ d.state = "FINISH" THEN Reset(d) ELSE d, t)
<1>1. Kept(Closed(d), t) /\ Kept(Reset(d), t)
  BY ClosedKept, ResetKept DEF Kept
<1> QED BY <1>1

(* A pass of handleRead keeps the order, ...                                *)
LEMMA ReadStepOrder ==
  ASSUME RestInv, OrderInv, NEW n \in Nat, taken + n <= Len(Stream), NEW end \in Ends,
         HandleRead(n, Arriving(taken, n), end)
  PROVE  OrderInv'
<1> DEFINE text == Arriving(taken, n)
<1>1. Marks /\ Len(requests) \in Nat
  BY StreamMarks DEF OrderInv, Marks
<1>2. AtRest(http) /\ http.error = FALSE
  BY DEF RestInv, HandleRead
<1>3. taken \in Nat /\ Kept(http, taken)
  BY DEF OrderInv
<1>4. UNCHANGED requests /\ taken' = taken + n
  BY DEF HandleRead
<1>5. PICK c \in ReadAndParse(http, text, end) :
      \E d \in IF c.error \/ c.out = <<>> THEN {c} ELSE Writes(c) :
        http' = IF d.error THEN Closed(d) ELSE IF ~d.error /\ d.state = "FINISH" THEN Reset(d) ELSE d
  BY DEF HandleRead
<1>6. PICK d \in IF c.error \/ c.out = <<>> THEN {c} ELSE Writes(c) :
        http' = IF d.error THEN Closed(d) ELSE IF ~d.error /\ d.state = "FINISH" THEN Reset(d) ELSE d
  BY <1>5
<1>7. HasFields(c) /\ c.error \in BOOLEAN
  BY <1>2, ReadKeeps
<1>8. Kept(c, taken + n)
  BY <1>1, <1>2, <1>3, ReadOrder
<1> HIDE DEF text
<1>9. HasFields(d) /\ d.error \in BOOLEAN /\ Kept(d, taken + n)
  <2>1. CASE d = c
    BY <1>7, <1>8, <2>1
  <2>2. CASE d \in Writes(c) /\ ~c.error
    <3>1. HasFields(d) /\ d.error \in BOOLEAN
      BY <1>7, <2>2, WritesKeep
    <3>2. c.error # TRUE
      BY <1>7, <2>2
    <3> QED BY <1>1, <1>8, <2>2, <3>1, <3>2, WritesOrder
  <2> QED BY <1>6, <2>1, <2>2
<1>10. Kept(http', taken + n)
  BY <1>6, <1>9, PassOrder
<1>11. Stream' = Stream /\ Kept(http, taken)'
  BY <1>4, <1>10, SameStream
<1> QED BY <1>3, <1>4, <1>11 DEF OrderInv

(* ... and so does handleWrite.                                             *)
LEMMA WriteStepOrder == RestInv /\ OrderInv /\ HandleWrite => OrderInv'
<1> SUFFICES ASSUME RestInv, OrderInv, HandleWrite PROVE OrderInv'
  OBVIOUS
<1>1. Marks /\ Len(requests) \in Nat
  BY StreamMarks DEF OrderInv, Marks
<1>2. AtRest(http) /\ http.error = FALSE
  BY DEF RestInv, HandleWrite
<1>3. taken \in Nat /\ Kept(http, taken)
  BY DEF OrderInv
<1>4. UNCHANGED requests /\ taken' = taken
  BY DEF HandleWrite
<1>5. PICK c \in Writes(http) : http' = IF c.error THEN Closed(c) ELSE c
  BY DEF HandleWrite
<1>6. Kept(c, taken)
  BY <1>1, <1>2, <1>3, <1>5, WritesOrder
<1>7. Kept(http', taken)
  BY <1>5, <1>6, ClosedKept DEF Kept
<1>8. Stream' = Stream /\ Kept(http, taken)'
  BY <1>4, <1>7, SameStream
<1> QED BY <1>3, <1>4, <1>8 DEF OrderInv

(* OrderInv is an invariant. *)
LEMMA StaysInOrder == Spec => []OrderInv
<1>1. RestInv /\ OrderInv /\ [Next]_vars => OrderInv'
  <2> SUFFICES ASSUME RestInv, OrderInv, [Next]_vars PROVE OrderInv'
    OBVIOUS
  <2> DEFINE left == SubSeq(Stream, taken + 1, Len(Stream))
  <2>1. ASSUME NEW n \in 0..Len(left), NEW end \in Ends, HandleRead(n, SubSeq(left, 1, n), end)
        PROVE  OrderInv'
    <3>1. taken \in Nat /\ taken <= Len(Stream) /\ Len(Stream) \in Nat
      BY StreamMarks DEF OrderInv, Marks
    <3>2. Len(left) = IF taken + 1 <= Len(Stream) THEN Len(Stream) - (taken + 1) + 1 ELSE 0
      <4>1. taken + 1 \in Nat
        BY <3>1
      <4> QED BY <3>1, <4>1, SubSequence
    <3>3. HandleRead(n, Arriving(taken, n), end)
      BY <2>1 DEF Arriving
    <3> HIDE DEF left
    <3>4. n \in Nat /\ taken + n <= Len(Stream)
      BY <3>1, <3>2
    <3> QED BY <3>3, <3>4, ReadStepOrder
  <2>2. CASE HandleWrite
    BY <2>2, WriteStepOrder
  <2>3. CASE UNCHANGED vars
    <3>1. UNCHANGED requests /\ taken' = taken /\ http' = http
      BY <2>3 DEF vars
    <3>2. Stream' = Stream /\ Kept(http, taken)'
      BY <3>1, SameStream DEF OrderInv
    <3> QED BY <3>1, <3>2 DEF OrderInv
  <2>4. Next => \/ \E n \in 0..Len(left), end \in Ends : HandleRead(n, SubSeq(left, 1, n), end)
                \/ HandleWrite
    BY DEF Next, Ends
  <2> HIDE DEF left
  <2> QED BY <2>1, <2>2, <2>3, <2>4
<1> QED BY InitOrder, <1>1, StaysAtRest, PTL DEF Spec

(* However the stream is cut, resumed and retried, and whatever the parser  *)
(* makes of a line it has seen only a part of, the answers it sends are to  *)
(* the client's requests, in their order and none twice                     *)
(* (HttpData.cpp:167-279).                                                  *)
THEOREM AnswersStayInOrder == Spec => []AnswersInOrder
<1>1. OrderInv => AnswersInOrder
  <2> SUFFICES ASSUME OrderInv PROVE AnswersInOrder
    OBVIOUS
  <2>1. InOrder(http.sent, Len(requests))
    BY DEF OrderInv, Kept, Fine
  <2>2. DOMAIN requests = 1..Len(requests)
    BY StreamMarks DEF OrderInv, Marks
  <2>3. Answers(http.sent) = Found
    BY DEF Answers, Found
  <2>4. PICK f \in [Found -> DOMAIN requests] : Matches(f, http.sent)
    BY <2>1, <2>2, <2>3 DEF InOrder
  <2>5. /\ \A i \in Found : requests[f[i]].method # "POST" /\ http.sent[i] = Answer(requests[f[i]])
        /\ \A i, j \in Found : i < j => f[i] < f[j]
    BY <2>3, <2>4 DEF Matches
  <2> QED BY <2>5 DEF AnswersInOrder
<1> QED BY StaysInOrder, <1>1, PTL

-----------------------------------------------------------------------------
(* Plain requests: where their text lies, and its form.                     *)

(* The text of request k lies in the stream from Start(k) on. *)
LEMMA StreamText ==
  ASSUME requests \in Seq(Requests), NEW k \in 1..Len(requests)
  PROVE  LET X == Text(requests[k])
         IN  /\ Start(k) \in Nat /\ Len(X) \in Nat /\ Start(k + 1) = Start(k) + Len(X)
             /\ Start(k + 1) <= Len(Stream)
             /\ \A i \in 1..Len(X) : Stream[Start(k) + i] = X[i]
<1> DEFINE N == Len(requests)
           X == Text(requests[k])
<1>1. N \in Nat /\ k \in 1..N /\ k - 1 \in Nat /\ k - 1 \in 0..N /\ k \in 0..N /\ N \in 0..N
      /\ (k - 1) + 1 = k /\ (k + 1) - 1 = k /\ k - 1 \in 0..k
  BY LenProperties
<1>2. LaidOut(N) /\ LaidOut(k) /\ LaidOut(k - 1)
  BY <1>1, Layout
<1>3. Stream = Before(N)
  <2>1. DOMAIN requests = 1..N
    BY LenProperties
  <2> QED BY <2>1 DEF Stream, Before, Texts
<1>4. Start(k) = Off(k - 1) /\ Start(k + 1) = Off(k)
  BY <1>1 DEF Start, Off, Before, Texts
<1>5. requests[k] \in Requests
  BY <1>1, ElementOfSeq
<1>6. Len(X) \in Nat
  BY <1>5, TextHasForm DEF TextForm
<1>7. /\ Off((k - 1) + 1) = Off(k - 1) + Len(Text(requests[(k - 1) + 1]))
      /\ \A i \in 1..Len(Text(requests[(k - 1) + 1])) :
           Before((k - 1) + 1)[Off(k - 1) + i] = Text(requests[(k - 1) + 1])[i]
  <2>1. IsSequence(Before(k - 1))
    BY <1>2 DEF LaidOut
  <2>2. (k - 1) + 1 \in 1..Len(requests)
    BY <1>1
  <2> QED BY <1>1, <2>1, <2>2, BeforeNext
<1>8. Off(k) = Off(k - 1) + Len(X) /\ \A i \in 1..Len(X) : Before(k)[Off(k - 1) + i] = X[i]
  BY <1>1, <1>7
<1>9. /\ Off(k) \in 0..Off(N) /\ Off(k - 1) \in Nat /\ Off(N) \in Nat
      /\ \A i \in 1..Off(k) : Stream[i] = Before(k)[i]
  BY <1>1, <1>2, <1>3 DEF LaidOut
<1>10. Off(N) = Len(Stream)
  BY <1>3 DEF Off
<1> HIDE DEF N, X
<1>11. ASSUME NEW i \in 1..Len(X)
       PROVE  Stream[Off(k - 1) + i] = X[i]
  <2>1. Off(k - 1) + i \in 1..Off(k)
    BY <1>6, <1>8, <1>9
  <2> QED BY <1>8, <1>9, <2>1
<1>12. Off(k) <= Len(Stream)
  BY <1>9, <1>10
<1> QED BY <1>4, <1>6, <1>8, <1>9, <1>11, <1>12 DEF X

(* A plain request is its line, one or two headers, and an empty line. *)
HeaderAt(s, n) ==
  s[n + 2] = ":" /\ s[n + 3] = Blank /\ s[n + 4] = "v" /\ s[n + 5] = "CR" /\ s[n + 6] = "LF"

(* The headers of a plain request, one or two of them. *)
LEMMA PlainHeaders ==
  ASSUME NEW r \in Requests, Plain(r)
  PROVE  LET H == Headers(r)
         IN  /\ IsSequence(H) /\ Body(r) = <<>>
             /\ \/ Len(H) = 6
                \/ Len(H) = 12 /\ H[7] = "Accept" /\ HeaderAt(H, 6)
             /\ H[1] = "Host" /\ HeaderAt(H, 0)
<1>1. r.special \notin DOMAIN Number /\ r.special \notin {"no header", "long"}
  <2>1. DOMAIN Number = {"0", "1"}
    BY DEF Number
  <2> QED BY <2>1 DEF Plain, Requests, Get, Odd, Post
<1>2. Body(r) = <<>>
  BY <1>1 DEF Body
<1> DEFINE host == Header("Host", <<"v">>)
           accept == Header("Accept", <<"v">>)
<1>3. ASSUME NEW key
      PROVE  LET h == Header(key, <<"v">>)
             IN  IsSequence(h) /\ Len(h) = 6 /\ h[1] = key /\ HeaderAt(h, 0)
  <2> DEFINE a == <<key, ":", Blank>>
             v == <<"v">>
             e == <<"CR", "LF">>
             h == (a \o v) \o e
  <2>1. a \in Seq({key, ":", Blank}) /\ v \in Seq({"v"}) /\ e \in Seq({"CR", "LF"})
    OBVIOUS
  <2>2. /\ IsSequence(a) /\ Len(a) = 3 /\ a[1] = key /\ a[2] = ":" /\ a[3] = Blank
        /\ IsSequence(v) /\ Len(v) = 1 /\ v[1] = "v"
        /\ IsSequence(e) /\ Len(e) = 2 /\ e[1] = "CR" /\ e[2] = "LF"
    BY <2>1 DEF IsSequence
  <2> HIDE DEF a, v, e
  <2>9. IsSequence(a) /\ IsSequence(v)
    BY <2>2
  <2> DEFINE av == a \o v
  <2>3. /\ IsSequence(av) /\ Len(av) = Len(a) + Len(v)
        /\ \A i \in 1..Len(a) : av[i] = a[i]
        /\ \A i \in 1..Len(v) : av[Len(a) + i] = v[i]
    BY <2>9, Joined
  <2> HIDE DEF av
  <2>4. Len(av) = 4 /\ av[1] = key /\ av[2] = ":" /\ av[3] = Blank /\ av[3 + 1] = "v"
    BY <2>2, <2>3
  <2>10. IsSequence(av) /\ IsSequence(e)
    BY <2>2, <2>3
  <2>5. /\ IsSequence(av \o e) /\ Len(av \o e) = Len(av) + Len(e)
        /\ \A i \in 1..Len(av) : (av \o e)[i] = av[i]
        /\ \A i \in 1..Len(e) : (av \o e)[Len(av) + i] = e[i]
    BY <2>10, Joined
  <2> DEFINE g == av \o e
  <2> HIDE DEF g
  <2>6. /\ IsSequence(g) /\ Len(g) = 6 /\ \A i \in 1..4 : g[i] = av[i]
        /\ g[4 + 1] = "CR" /\ g[4 + 2] = "LF"
    BY <2>2, <2>4, <2>5 DEF g
  <2>7. g[1] = key /\ g[2] = ":" /\ g[3] = Blank /\ g[4] = "v" /\ g[5] = "CR" /\ g[6] = "LF"
    BY <2>4, <2>6
  <2>8. g = Header(key, <<"v">>)
    BY DEF g, av, a, v, e, Header
  <2> QED BY <2>6, <2>7, <2>8 DEF HeaderAt
<1>4. /\ IsSequence(host) /\ Len(host) = 6 /\ host[1] = "Host" /\ HeaderAt(host, 0)
      /\ IsSequence(accept) /\ Len(accept) = 6 /\ accept[1] = "Accept" /\ HeaderAt(accept, 0)
  BY <1>3
<1> HIDE DEF host, accept
<1>5. CASE r.special = "two headers"
  <2>1. Headers(r) = host \o accept
    BY <1>1, <1>5 DEF Headers, host, accept
  <2>6. IsSequence(host) /\ IsSequence(accept)
    BY <1>4
  <2> DEFINE H == host \o accept
  <2>2. /\ IsSequence(H) /\ Len(H) = Len(host) + Len(accept)
        /\ \A i \in 1..Len(host) : H[i] = host[i]
        /\ \A i \in 1..Len(accept) : H[Len(host) + i] = accept[i]
    BY <2>6, Joined
  <2> HIDE DEF H
  <2>3. /\ Len(H) = 12 /\ \A i \in 1..6 : H[i] = host[i]
        /\ \A i \in 1..6 : H[6 + i] = accept[i]
    BY <1>4, <2>2
  <2>4. H[1] = "Host" /\ HeaderAt(H, 0)
    BY <1>4, <2>3 DEF HeaderAt
  <2>5. H[7] = "Accept" /\ HeaderAt(H, 6)
    <3>1. /\ H[6 + 1] = accept[1] /\ H[6 + 2] = accept[2] /\ H[6 + 3] = accept[3]
          /\ H[6 + 4] = accept[4] /\ H[6 + 5] = accept[5] /\ H[6 + 6] = accept[6]
      BY <2>3
    <3> QED BY <1>4, <3>1 DEF HeaderAt
  <2> QED BY <1>2, <2>1, <2>2, <2>3, <2>4, <2>5 DEF H
<1>6. CASE r.special # "two headers"
  <2>1. Headers(r) = host
    BY <1>1, <1>6 DEF Headers, host
  <2> QED BY <1>2, <1>4, <2>1
<1> QED BY <1>5, <1>6

-----------------------------------------------------------------------------
(* A request line that has arrived whole is accepted.                       *)

(* What Find returns where the place of the token is known. *)
LEMMA FindsAt ==
  ASSUME NEW s, Len(s) \in Nat, NEW t, NEW from \in Nat \ {0}, NEW n \in from..Len(s), s[n] = t,
         \A i \in from..n - 1 : s[i] # t
  PROVE  Find(s, t, from) = n
<1> DEFINE m == Find(s, t, from)
<1>1. \/ m = 0 /\ \A i \in from..Len(s) : s[i] # t
      \/ m \in from..Len(s) /\ s[m] = t /\ \A i \in from..m - 1 : s[i] # t
  BY FindFirst
<1> HIDE DEF m
<1>2. m \in from..Len(s) /\ s[m] = t /\ ~(n < m)
  <2>1. m \in from..Len(s) /\ s[m] = t /\ \A i \in from..m - 1 : s[i] # t
    BY <1>1
  <2> QED BY <2>1
<1>3. ~(m < n)
  BY <1>2
<1> QED BY <1>2, <1>3 DEF m

(* ParseURI cuts the line of request k from a buffer that starts with it.   *)
LEMMA LineTaken ==
  ASSUME Marks, NEW k \in 1..Len(requests), NEW b, NEW t, Buffered(b, Start(k), t), Shut(k) <= t
  PROVE  LET r == RequestLine(b)
         IN  /\ \E w : AtRequest(r.line, Start(k), k, 0, w) /\ Len(r.line) = w + 5
             /\ Buffered(r.rest, Shut(k), t)
<1> DEFINE L == Line(requests[k])
           n == Len(b)
           cr == Find(b, "CR", 1)
           line == SubSeq(b, 1, cr - 1)
           rest == SubSeq(b, cr + 1, n)
           S == Start(k)
<1>1. requests[k] \in Requests /\ S \in Nat /\ Shut(k) \in Nat
      /\ \A i \in 1..Len(L) : Stream[S + i] = L[i]
  BY DEF Marks
<1>2. PICK w : LineForm(requests[k], w)
  BY <1>1, LineHasForm
<1>3. w \in Nat /\ Len(L) = w + 7
  BY <1>2 DEF LineForm
<1>4. Shut(k) = S + (w + 6)
  BY <1>1, <1>3 DEF Shut
<1>5. n \in Nat /\ t \in Nat /\ S + n = t /\ \A i \in 1..n : b[i] = Stream[S + i]
  BY DEF Buffered, PartOf
<1>6. L[w + 6] = "CR" /\ \A i \in 1..w + 5 : L[i] # "CR"
  <2>1. L[w + 6] = "CR"
    BY <1>2 DEF LineForm
  <2>2. ASSUME NEW i \in 1..w + 5
        PROVE  L[i] # "CR"
    <3>1. i \in 1..w + 7 /\ i # w + 6
      BY <1>3
    <3> QED BY <1>1, <1>2, <3>1, LineTokens
  <2> QED BY <2>1, <2>2
<1> HIDE DEF L, n, S
<1>7. w + 6 <= n
  BY <1>1, <1>3, <1>4, <1>5
<1>8. \A i \in 1..w + 6 : b[i] = L[i]
  BY <1>1, <1>3, <1>5, <1>7
<1>9. cr = w + 6
  <2> DEFINE e == w + 6
  <2>1. e \in 1..n /\ b[e] = "CR"
    BY <1>3, <1>6, <1>7, <1>8
  <2>2. ASSUME NEW i \in 1..e - 1
        PROVE  b[i] # "CR"
    BY <1>3, <1>6, <1>8
  <2> HIDE DEF e, cr
  <2>3. Len(b) \in Nat /\ e \in 1..Len(b)
    BY <1>5, <2>1 DEF n
  <2> QED BY <2>1, <2>2, <2>3, FindsAt DEF e, cr
<1>10. RequestLine(b).line = line /\ RequestLine(b).rest = rest
  <2>1. cr # 0
    BY <1>3, <1>9
  <2> QED BY <2>1 DEF RequestLine, n
<1>11. Buffered(rest, Shut(k), t)
  <2> DEFINE i == w + 7
  <2>1. i \in Nat \ {0} /\ i <= n + 1 /\ S + (i - 1) = Shut(k) /\ cr + 1 = i
    BY <1>1, <1>3, <1>4, <1>5, <1>7, <1>9
  <2> HIDE DEF i, cr
  <2>2. i <= Len(b) + 1
    BY <2>1 DEF n
  <2>3. Buffered(SubSeq(b, i, Len(b)), Start(k) + (i - 1), t)
    BY <2>1, <2>2, BufferedTail
  <2> QED BY <2>1, <2>3 DEF n, S
<1>12. Len(line) = w + 5 /\ \A i \in 1..w + 5 : line[i] = L[i]
  <2> DEFINE e == w + 5
  <2>1. e \in Nat /\ 1 <= e /\ e <= w + 6
    BY <1>3
  <2>2. cr - 1 = e
    BY <1>3, <1>9
  <2> HIDE DEF e, cr
  <2>3. /\ Len(SubSeq(b, 1, e)) = IF 1 <= e THEN e - 1 + 1 ELSE 0
        /\ \A i \in 1..Len(SubSeq(b, 1, e)) : SubSeq(b, 1, e)[i] = b[1 + i - 1]
    BY <2>1, SubSequence
  <2>4. /\ Len(SubSeq(b, 1, e)) = e /\ \A i \in 1..e : SubSeq(b, 1, e)[i] = b[i]
    BY <2>1, <2>3
  <2>5. \A i \in 1..e : b[i] = L[i]
    BY <1>3, <1>8, <2>1
  <2> QED BY <2>2, <2>4, <2>5 DEF e
<1> HIDE DEF line, rest, cr
<1>13. AtRequest(line, S, k, 0, w)
  <2>1. ASSUME NEW j \in Nat \ {0}, 0 + j <= Len(line)
        PROVE  j <= w + 5 /\ line[0 + j] = L[j]
    BY <1>3, <1>12, <2>1
  <2>2. S + 0 = S /\ 0 + 1 <= Len(line) /\ S + Len(line) < Shut(k) /\ Len(line) \in Nat
    BY <1>1, <1>3, <1>4, <1>12
  <2> QED BY <1>1, <1>2, <1>3, <2>1, <2>2 DEF AtRequest, L, S
<1> QED BY <1>10, <1>11, <1>12, <1>13 DEF S

(* In the whole line of a request ParseURI finds all it looks for.          *)
LEMMA LineAccepted ==
  ASSUME NEW p, NEW k, NEW w, NEW line, AtRequest(line, p, k, 0, w), Len(line) = w + 5
  PROVE  LET m     == MethodOf(line)
             slash == Find(line, "/", Find(line, m, 1))
             space == Find(line, Blank, slash)
             v     == Find(line, "/", space)
         IN  /\ m = requests[k].method /\ slash = 2 /\ space = w + 3
             /\ v = w + 4 /\ line[v + 1] = "1.1"
<1> DEFINE L == Line(requests[k])
           r == requests[k]
<1>1. r \in Requests /\ LineForm(r, w) /\ w \in Nat /\ w \in {0, 1, 3}
      /\ \A j \in Nat \ {0} : 0 + j <= Len(line) => line[0 + j] = L[j]
  BY DEF AtRequest, LineForm
<1>2. ASSUME NEW j \in 1..w + 5
      PROVE  /\ line[j] = L[j]
             /\ line[j] \in Methods => j = 1
             /\ line[j] = Blank => j = w + 3
  <2>1. 0 + j = j /\ j \in Nat \ {0} /\ j <= Len(line) /\ j \in 1..w + 7
    BY <1>1
  <2>2. line[j] = L[j]
    BY <1>1, <2>1
  <2> QED BY <1>1, <2>1, <2>2, LineTokens
<1>3. /\ L[1] = r.method /\ L[2] = "/" /\ L[w + 3] = Blank /\ L[w + 4] = "/" /\ L[w + 5] = "1.1"
      /\ r.method \in Methods /\ "/" \notin Methods
  BY <1>1, RequestFields DEF LineForm, Methods
<1>4. "/" # Blank
  BY BlankToken
<1> HIDE DEF L, r
<1>5. /\ line[1] = r.method /\ line[2] = "/" /\ line[w + 3] = Blank /\ line[w + 4] = "/"
      /\ line[w + 5] = "1.1"
  BY <1>1, <1>2, <1>3
<1>6. MethodOf(line) = r.method
  <2>1. ASSUME NEW i \in 1..Len(line), line[i] \in Methods
        PROVE  line[i] = r.method
    BY <1>2, <1>5, <2>1
  <2>2. 1 \in 1..Len(line)
    BY <1>1
  <2>3. ASSUME NEW m \in Methods
        PROVE  Contains(line, m) <=> m = r.method
    BY <1>5, <2>1, <2>2 DEF Contains
  <2> QED BY <1>3, <2>3 DEF MethodOf, Methods
<1>7. Find(line, r.method, 1) = 1
  <2>1. 1 \in 1..Len(line) /\ Len(line) \in Nat /\ \A i \in 1..1 - 1 : line[i] # r.method
    BY <1>1
  <2> QED BY <1>5, <2>1, FindsAt
<1>8. Find(line, "/", 1) = 2
  <2>1. 2 \in 1..Len(line) /\ Len(line) \in Nat
    BY <1>1
  <2>2. \A i \in 1..2 - 1 : line[i] # "/"
    BY <1>3, <1>5
  <2> QED BY <1>5, <2>1, <2>2, FindsAt
<1>9. Find(line, Blank, 2) = w + 3
  <2> DEFINE e == w + 3
  <2>1. e \in 2..Len(line) /\ Len(line) \in Nat /\ line[e] = Blank
    BY <1>1, <1>5
  <2>2. ASSUME NEW i \in 2..e - 1
        PROVE  line[i] # Blank
    BY <1>1, <1>2
  <2> HIDE DEF e
  <2>3. Find(line, Blank, 2) = e
    BY <2>1, <2>2, FindsAt
  <2> QED BY <2>3 DEF e
<1>10. Find(line, "/", w + 3) = w + 4
  <2> DEFINE f == w + 3
             e == w + 4
  <2>1. f \in Nat \ {0} /\ e \in f..Len(line) /\ Len(line) \in Nat /\ line[e] = "/"
    BY <1>1, <1>5
  <2>2. ASSUME NEW i \in f..e - 1
        PROVE  line[i] # "/"
    <3>1. i = w + 3
      BY <1>1
    <3> QED BY <1>4, <1>5, <3>1
  <2> HIDE DEF e, f
  <2>3. Find(line, "/", f) = e
    BY <2>1, <2>2, FindsAt
  <2> QED BY <2>3 DEF e, f
<1>11. line[(w + 4) + 1] = "1.1"
  BY <1>1, <1>5
<1> QED BY <1>6, <1>7, <1>8, <1>9, <1>10, <1>11 DEF r

(* ParseURI takes a request whose line is there up to its CR.               *)
LEMMA URIAccepts ==
  ASSUME Marks, NEW k \in 1..Len(requests), NEW c, HasFields(c), NEW t,
         Buffered(c.buf, Start(k), t), Shut(k) <= t
  PROVE  \E b : /\ Buffered(b, Shut(k), t)
                /\ ParseURI(c) = [c EXCEPT !.state = "HEADERS", !.buf = b,
                                           !.method = requests[k].method,
                                           !.file = Answer(requests[k])[2]]
<1> DEFINE r     == RequestLine(c.buf)
           m     == MethodOf(r.line)
           slash == Find(r.line, "/", Find(r.line, m, 1))
           space == Find(r.line, Blank, slash)
           v     == Find(r.line, "/", space)
           name  == SubSeq(r.line, slash + 1, space - 1)
<1>1. PICK w : AtRequest(r.line, Start(k), k, 0, w) /\ Len(r.line) = w + 5
  BY LineTaken
<1>2. Buffered(r.rest, Shut(k), t)
  BY LineTaken
<1>3. /\ m = requests[k].method /\ slash = 2 /\ space = w + 3
      /\ v = w + 4 /\ r.line[v + 1] = "1.1"
  BY <1>1, LineAccepted
<1>4. w \in Nat /\ requests[k] \in Requests /\ Start(k) \in Nat
  BY <1>1 DEF AtRequest
<1>5. m # "none"
  BY <1>3, <1>4, RequestFields
<1>6. FileName(r.line, slash, space) = Answer(requests[k])[2]
  <2> HIDE DEF r, m, slash, space
  <2>1. slash = 0 + 2 /\ space = 0 + (w + 3) /\ space <= Len(r.line)
    BY <1>1, <1>3, <1>4
  <2>2. NameForm(name, requests[k], w)
    BY <1>1, <1>4, <2>1, NameFound
  <2> HIDE DEF name
  <2>3. (IF name = <<>> THEN <<"index.html">>
         ELSE IF Find(name, "?", 1) = 0 THEN name ELSE SubSeq(name, 1, Find(name, "?", 1) - 1))
        = IF requests[k].special = "query" THEN <<"f">>
          ELSE IF requests[k].path = Root THEN <<"index.html">> ELSE <<requests[k].path>>
    BY <1>4, <2>2, NameIsAnswer
  <2>4. Answer(requests[k])[2] = IF requests[k].special = "query" THEN <<"f">>
          ELSE IF requests[k].path = Root THEN <<"index.html">> ELSE <<requests[k].path>>
    BY DEF Answer
  <2> QED BY <2>3, <2>4 DEF FileName, name
<1>7. slash # 0 /\ space # 0 /\ v # 0 /\ v < Len(r.line) /\ r.line[v + 1] \in {"1.0", "1.1"}
  BY <1>1, <1>3, <1>4
<1>8. ParseURI(c) = [c EXCEPT !.state = "HEADERS", !.buf = r.rest, !.method = m,
                              !.file = FileName(r.line, slash, space)]
  BY <1>5, <1>7 DEF ParseURI
<1> HIDE DEF r, m, slash, space, v
<1> QED BY <1>2, <1>3, <1>6, <1>8

-----------------------------------------------------------------------------
(* The scan of the headers of a plain request.                              *)

(* A scan that goes on, in state h. *)
At(p, h) == DOMAIN p = ScanFields /\ p.status = "more" /\ p.hState = h

(* The turns that a well-formed header takes. *)
LEMMA TurnToken ==
  ASSUME NEW c, NEW p, NEW h, At(p, h), NEW i
  PROVE  Turn(c, p, i) = ScanToken(p, c.buf, i)
BY DEF Turn, At

(* A key begins after the line or after a header, ...                       *)
LEMMA KeyBegins ==
  ASSUME NEW c, NEW p, At(p, "START") \/ At(p, "LF"), NEW i, c.buf[i] \notin NewLine
  PROVE  At(Turn(c, p, i), "KEY") /\ Turn(c, p, i).keyStart = i
<1> DEFINE q == Turn(c, p, i)
<1>1. CASE At(p, "START")
  <2>1. q = ScanToken(p, c.buf, i)
    BY <1>1, TurnToken
  <2>2. ScanToken(p, c.buf, i) = [p EXCEPT !.hState = "KEY", !.keyStart = i, !.lineBegin = i]
    BY <1>1, StartToken DEF At
  <2> QED BY <1>1, <2>1, <2>2 DEF At, ScanFields
<1>2. CASE At(p, "LF")
  <2>1. q = ScanToken(p, c.buf, i)
    BY <1>2, TurnToken
  <2>2. ScanToken(p, c.buf, i) = IF c.buf[i] = "CR" THEN GoTo(p, "END_CR")
                                 ELSE [p EXCEPT !.hState = "KEY", !.keyStart = i]
    BY <1>2 DEF ScanToken, At
  <2>3. q = [p EXCEPT !.hState = "KEY", !.keyStart = i]
    BY <2>1, <2>2 DEF NewLine
  <2> QED BY <1>2, <2>3 DEF At, ScanFields
<1> QED BY <1>1, <1>2

(* ... and ends with a colon, ...                                           *)
LEMMA KeyEnds ==
  ASSUME NEW c, NEW p, At(p, "KEY"), NEW i \in Nat, c.buf[i] = ":", i > p.keyStart
  PROVE  At(Turn(c, p, i), "COLON")
<1>1. Turn(c, p, i) = ScanToken(p, c.buf, i)
  BY TurnToken
<1>2. ScanToken(p, c.buf, i) = InKey(p, i, c.buf[i])
  BY DEF ScanToken, At
<1> DEFINE k == [p EXCEPT !.keyEnd = i]
<1>3. InKey(p, i, c.buf[i]) = GoIf(k, i > p.keyStart, "COLON")
  BY DEF InKey
<1>4. At(k, p.hState)
  BY DEF At, ScanFields
<1> HIDE DEF k
<1>5. GoIf(k, i > p.keyStart, "COLON") = [k EXCEPT !.hState = "COLON"]
  BY DEF GoIf, GoTo
<1> QED BY <1>1, <1>2, <1>3, <1>4, <1>5 DEF At, ScanFields

(* ... which a blank follows; ...                                           *)
LEMMA ColonEnds ==
  ASSUME NEW c, NEW p, At(p, "COLON"), NEW i, c.buf[i] = Blank
  PROVE  At(Turn(c, p, i), "SPACES")
<1>1. Turn(c, p, i) = ScanToken(p, c.buf, i)
  BY TurnToken
<1>2. ScanToken(p, c.buf, i) = GoIf(p, c.buf[i] = Blank, "SPACES")
  BY DEF ScanToken, At
<1>3. GoIf(p, c.buf[i] = Blank, "SPACES") = [p EXCEPT !.hState = "SPACES"]
  BY DEF GoIf, GoTo
<1> QED BY <1>1, <1>2, <1>3 DEF At, ScanFields

(* ... then comes the value, ...                                            *)
LEMMA ValueBegins ==
  ASSUME NEW c, NEW p, At(p, "SPACES"), NEW i
  PROVE  At(Turn(c, p, i), "VALUE") /\ Turn(c, p, i).valueStart = i
<1>1. Turn(c, p, i) = ScanToken(p, c.buf, i)
  BY TurnToken
<1>2. ScanToken(p, c.buf, i) = [p EXCEPT !.hState = "VALUE", !.valueStart = i]
  BY DEF ScanToken, At
<1> QED BY <1>1, <1>2 DEF At, ScanFields

(* ... up to a CR ...                                                       *)
LEMMA ValueEnds ==
  ASSUME NEW c, NEW p, At(p, "VALUE"), NEW i \in Nat, c.buf[i] = "CR", i > p.valueStart
  PROVE  At(Turn(c, p, i), "CR")
<1>1. Turn(c, p, i) = ScanToken(p, c.buf, i)
  BY TurnToken
<1>2. ScanToken(p, c.buf, i) = InValue(p, i, c.buf[i])
  BY DEF ScanToken, At
<1> DEFINE k == [p EXCEPT !.valueEnd = i]
<1>3. InValue(p, i, c.buf[i]) = GoIf(k, i > p.valueStart, "CR")
  BY DEF InValue
<1>4. At(k, p.hState)
  BY DEF At, ScanFields
<1> HIDE DEF k
<1>5. GoIf(k, i > p.valueStart, "CR") = [k EXCEPT !.hState = "CR"]
  BY DEF GoIf, GoTo
<1> QED BY <1>1, <1>2, <1>3, <1>4, <1>5 DEF At, ScanFields

(* ... and its LF.                                                          *)
LEMMA HeaderEnds ==
  ASSUME NEW c, NEW p, At(p, "CR"), NEW i, c.buf[i] = "LF"
  PROVE  At(Turn(c, p, i), "LF")
<1>1. Turn(c, p, i) = ScanToken(p, c.buf, i)
  BY TurnToken
<1>2. ScanToken(p, c.buf, i) = EndLine(p, c.buf, i)
  BY DEF ScanToken, At
<1>3. \E h : EndLine(p, c.buf, i) = [p EXCEPT !.hState = "LF", !.headers = h, !.lineBegin = i]
  BY DEF EndLine
<1> QED BY <1>1, <1>2, <1>3 DEF At, ScanFields

(* A CR and an LF in place of a header end them. *)
LEMMA BlockEnds ==
  ASSUME NEW c, NEW p, NEW i
  PROVE  /\ At(p, "LF") /\ c.buf[i] = "CR" => At(Turn(c, p, i), "END_CR")
         /\ At(p, "END_CR") /\ c.buf[i] = "LF" => At(Turn(c, p, i), "END_LF")
<1>1. ASSUME At(p, "LF"), c.buf[i] = "CR"
      PROVE  At(Turn(c, p, i), "END_CR")
  <2>1. Turn(c, p, i) = ScanToken(p, c.buf, i)
    BY <1>1, TurnToken
  <2>2. ScanToken(p, c.buf, i) = IF c.buf[i] = "CR" THEN GoTo(p, "END_CR")
                                 ELSE [p EXCEPT !.hState = "KEY", !.keyStart = i]
    BY <1>1 DEF ScanToken, At
  <2>3. Turn(c, p, i) = [p EXCEPT !.hState = "END_CR"]
    BY <1>1, <2>1, <2>2 DEF GoTo
  <2> QED BY <1>1, <2>3 DEF At, ScanFields
<1>2. ASSUME At(p, "END_CR"), c.buf[i] = "LF"
      PROVE  At(Turn(c, p, i), "END_LF")
  <2>1. Turn(c, p, i) = ScanToken(p, c.buf, i)
    BY <1>2, TurnToken
  <2>2. ScanToken(p, c.buf, i) = GoIf(p, c.buf[i] = "LF", "END_LF")
    BY <1>2 DEF ScanToken, At
  <2>3. Turn(c, p, i) = [p EXCEPT !.hState = "END_LF"]
    BY <1>2, <2>1, <2>2 DEF GoIf, GoTo
  <2> QED BY <1>2, <2>3 DEF At, ScanFields
<1> QED BY <1>1, <1>2

(* A header, read from its first token to its last. *)
LEMMA HeaderScanned ==
  ASSUME NEW c, NEW scan, NEW n \in Nat,
         \A j \in n + 1..n + 6 : scan[j] = Turn(c, scan[j - 1], j),
         At(scan[n], "START") \/ At(scan[n], "LF"),
         c.buf[n + 1] \notin NewLine, HeaderAt(c.buf, n)
  PROVE  At(scan[n + 6], "LF")
<1>1. /\ scan[n + 1] = Turn(c, scan[n], n + 1) /\ scan[n + 2] = Turn(c, scan[n + 1], n + 2)
      /\ scan[n + 3] = Turn(c, scan[n + 2], n + 3) /\ scan[n + 4] = Turn(c, scan[n + 3], n + 4)
      /\ scan[n + 5] = Turn(c, scan[n + 4], n + 5) /\ scan[n + 6] = Turn(c, scan[n + 5], n + 6)
  <2>1. ASSUME NEW x \in 1..6
        PROVE  scan[n + x] = Turn(c, scan[(n + x) - 1], n + x)
    <3>1. n + x \in n + 1..n + 6
      OBVIOUS
    <3> QED BY <3>1
  <2>2. /\ (n + 1) - 1 = n /\ (n + 2) - 1 = n + 1 /\ (n + 3) - 1 = n + 2
        /\ (n + 4) - 1 = n + 3 /\ (n + 5) - 1 = n + 4 /\ (n + 6) - 1 = n + 5
    OBVIOUS
  <2>3. 1 \in 1..6 /\ 2 \in 1..6 /\ 3 \in 1..6 /\ 4 \in 1..6 /\ 5 \in 1..6 /\ 6 \in 1..6
    OBVIOUS
  <2> QED BY <2>1, <2>2, <2>3
<1>2. At(scan[n + 1], "KEY") /\ scan[n + 1].keyStart = n + 1
  BY <1>1, KeyBegins
<1>3. At(scan[n + 2], "COLON")
  <2>1. n + 2 \in Nat /\ n + 2 > scan[n + 1].keyStart
    BY <1>2
  <2> QED BY <1>1, <1>2, <2>1, KeyEnds DEF HeaderAt
<1>4. At(scan[n + 3], "SPACES")
  BY <1>1, <1>3, ColonEnds DEF HeaderAt
<1>5. At(scan[n + 4], "VALUE") /\ scan[n + 4].valueStart = n + 4
  BY <1>1, <1>4, ValueBegins
<1>6. At(scan[n + 5], "CR")
  <2>1. n + 5 \in Nat /\ n + 5 > scan[n + 4].valueStart
    BY <1>5
  <2> QED BY <1>1, <1>5, <2>1, ValueEnds DEF HeaderAt
<1> QED BY <1>1, <1>6, HeaderEnds DEF HeaderAt

(* What follows the CR of its line, up to the end of the request.           *)
BlockForm(b, h) ==
  /\ h \in {6, 12} /\ Len(b) = h + 3 /\ b[1] = "LF"
  /\ b[2] = "Host" /\ HeaderAt(b, 1)
  /\ h = 12 => b[8] = "Accept" /\ HeaderAt(b, 7)
  /\ b[h + 2] = "CR" /\ b[h + 3] = "LF"

(* The text of a plain request after its line: its headers and an empty line.*)
LEMMA PlainText ==
  ASSUME NEW r \in Requests, Plain(r), NEW w, LineForm(r, w), w \in Nat
  PROVE  LET h == Len(Headers(r))
         IN  /\ h \in Nat /\ Len(Text(r)) = (w + 7) + (h + 2)
             /\ Text(r)[w + 7] = "LF"
             /\ \A j \in 1..h : Text(r)[(w + 7) + j] = Headers(r)[j]
             /\ Text(r)[(w + 7) + (h + 1)] = "CR" /\ Text(r)[(w + 7) + (h + 2)] = "LF"
<1> DEFINE L == Line(r)
           H == Headers(r)
           e == <<"CR", "LF">>
           a == L \o H
           b == a \o e
           n == w + 7
           h == Len(H)
<1>1. IsSequence(L) /\ Len(L) = n /\ L[n] = "LF" /\ n \in Nat /\ 1 <= n
  BY DEF LineForm
<1>2. IsSequence(H) /\ Body(r) = <<>> /\ h \in Nat
  BY PlainHeaders
<1>3. IsSequence(e) /\ Len(e) = 2 /\ e[1] = "CR" /\ e[2] = "LF"
  <2>1. e \in Seq({"CR", "LF"})
    OBVIOUS
  <2> QED BY <2>1 DEF IsSequence
<1>4. IsSequence(<<>>) /\ Len(<<>>) = 0
  BY EmptySeq DEF IsSequence
<1>5. Text(r) = b \o <<>>
  BY <1>2 DEF Text
<1> HIDE DEF L, H, e, a, b, n, h
<1>6. IsSequence(L) /\ IsSequence(H)
  BY <1>1, <1>2
<1>7. /\ IsSequence(a) /\ Len(a) = Len(L) + Len(H)
      /\ \A i \in 1..Len(L) : a[i] = L[i]
      /\ \A i \in 1..Len(H) : a[Len(L) + i] = H[i]
  BY <1>6, Joined DEF a
<1>8. IsSequence(a) /\ IsSequence(e)
  BY <1>3, <1>7
<1>9. /\ IsSequence(b) /\ Len(b) = Len(a) + Len(e)
      /\ \A i \in 1..Len(a) : b[i] = a[i]
      /\ \A i \in 1..Len(e) : b[Len(a) + i] = e[i]
  BY <1>8, Joined DEF b
<1>10. IsSequence(b) /\ IsSequence(<<>>)
  BY <1>4, <1>9
<1>11. /\ Len(b \o <<>>) = Len(b) + Len(<<>>)
       /\ \A i \in 1..Len(b) : (b \o <<>>)[i] = b[i]
  BY <1>10, Joined
<1>12. Len(a) = n + h /\ Len(b) = (n + h) + 2
  BY <1>1, <1>2, <1>3, <1>7, <1>9 DEF h
<1>13. Len(Text(r)) = n + (h + 2) /\ \A i \in 1..n + (h + 2) : Text(r)[i] = b[i]
  <2>1. Len(b) = n + (h + 2) /\ Len(b) \in Nat
    BY <1>1, <1>2, <1>12
  <2> QED BY <1>4, <1>5, <1>11, <2>1
<1>14. \A i \in 1..n + h : Text(r)[i] = a[i]
  <2>1. \A i \in 1..n + h : b[i] = a[i]
    BY <1>9, <1>12
  <2>2. \A i \in 1..n + h : i \in 1..n + (h + 2)
    BY <1>1, <1>2
  <2> QED BY <1>13, <2>1, <2>2
<1>15. Text(r)[n] = "LF"
  <2>1. n \in 1..n + h /\ n \in 1..Len(L)
    BY <1>1, <1>2
  <2> QED BY <1>1, <1>7, <1>14, <2>1
<1>16. ASSUME NEW j \in 1..h
       PROVE  Text(r)[n + j] = H[j]
  <2>1. n + j \in 1..n + h /\ j \in 1..Len(H)
    BY <1>1, <1>2 DEF h
  <2> QED BY <1>1, <1>7, <1>14, <2>1
<1>17. Text(r)[n + (h + 1)] = "CR" /\ Text(r)[n + (h + 2)] = "LF"
  <2>1. 1 \in 1..Len(e) /\ 2 \in 1..Len(e) /\ (n + h) + 1 = n + (h + 1) /\ (n + h) + 2 = n + (h + 2)
        /\ n + (h + 1) \in 1..n + (h + 2) /\ n + (h + 2) \in 1..n + (h + 2)
    BY <1>1, <1>2, <1>3
  <2>2. b[(n + h) + 1] = "CR" /\ b[(n + h) + 2] = "LF"
    BY <1>3, <1>9, <1>12, <2>1
  <2> QED BY <1>13, <2>1, <2>2
<1> QED BY <1>2, <1>13, <1>15, <1>16, <1>17 DEF n, h, H

(* What is buffered of it once the request has arrived whole. *)
LEMMA BlockHasForm ==
  ASSUME requests \in Seq(Requests), NEW k \in 1..Len(requests), Plain(requests[k]),
         NEW b, Buffered(b, Shut(k), Start(k + 1))
  PROVE  \E h : BlockForm(b, h)
<1> DEFINE r == requests[k]
           X == Text(r)
           H == Headers(r)
           h == Len(H)
           S == Start(k)
<1>1. r \in Requests
  BY ElementOfSeq
<1>2. PICK w : LineForm(r, w)
  BY <1>1, LineHasForm
<1>3. w \in Nat /\ Len(Line(r)) = w + 7
  BY <1>2 DEF LineForm
<1>4. /\ S \in Nat /\ Start(k + 1) = S + Len(X)
      /\ \A i \in 1..Len(X) : Stream[S + i] = X[i]
  BY StreamText
<1>5. Shut(k) = S + (w + 6)
  BY <1>3, <1>4 DEF Shut
<1>6. /\ h \in Nat /\ Len(X) = (w + 7) + (h + 2)
      /\ X[w + 7] = "LF"
      /\ \A j \in 1..h : X[(w + 7) + j] = H[j]
      /\ X[(w + 7) + (h + 1)] = "CR" /\ X[(w + 7) + (h + 2)] = "LF"
  BY <1>1, <1>2, <1>3, PlainText
<1>7. /\ \/ h = 6
         \/ h = 12 /\ H[7] = "Accept" /\ HeaderAt(H, 6)
      /\ H[1] = "Host" /\ HeaderAt(H, 0)
  BY <1>1, PlainHeaders
<1>8. /\ Len(b) \in Nat /\ Shut(k) + Len(b) = Start(k + 1)
      /\ \A i \in 1..Len(b) : b[i] = Stream[Shut(k) + i]
  BY DEF Buffered, PartOf
<1> HIDE DEF r, X, H, h, S
<1>9. Len(b) = h + 3
  BY <1>3, <1>4, <1>5, <1>6, <1>8
<1>10. ASSUME NEW i \in 1..h + 3
       PROVE  b[i] = X[(w + 6) + i]
  <2>1. (w + 6) + i \in 1..Len(X) /\ Shut(k) + i = S + ((w + 6) + i)
    BY <1>3, <1>4, <1>5, <1>6
  <2> QED BY <1>4, <1>8, <1>9, <2>1
<1>11. b[1] = "LF" /\ b[h + 2] = "CR" /\ b[h + 3] = "LF"
  <2>1. /\ 1 \in 1..h + 3 /\ h + 2 \in 1..h + 3 /\ h + 3 \in 1..h + 3 /\ (w + 6) + 1 = w + 7
        /\ (w + 6) + (h + 2) = (w + 7) + (h + 1) /\ (w + 6) + (h + 3) = (w + 7) + (h + 2)
    BY <1>3, <1>6
  <2> QED BY <1>6, <1>10, <2>1
<1>12. ASSUME NEW j \in 1..h
       PROVE  b[1 + j] = H[j]
  <2>1. 1 + j \in 1..h + 3 /\ (w + 6) + (1 + j) = (w + 7) + j
    BY <1>3, <1>6
  <2> QED BY <1>6, <1>10, <2>1
<1>13. /\ b[2] = H[1] /\ b[3] = H[2] /\ b[4] = H[3] /\ b[5] = H[4] /\ b[6] = H[5] /\ b[7] = H[6]
  <2>1. /\ 1 \in 1..h /\ 2 \in 1..h /\ 3 \in 1..h /\ 4 \in 1..h /\ 5 \in 1..h /\ 6 \in 1..h
        /\ 1 + 1 = 2 /\ 1 + 2 = 3 /\ 1 + 3 = 4 /\ 1 + 4 = 5 /\ 1 + 5 = 6 /\ 1 + 6 = 7
    BY <1>7
  <2> QED BY <1>12, <2>1
<1>14. ASSUME h = 12
       PROVE  /\ b[8] = H[7] /\ b[9] = H[8] /\ b[10] = H[9] /\ b[11] = H[10] /\ b[12] = H[11]
              /\ b[13] = H[12]
  <2>1. /\ 7 \in 1..h /\ 8 \in 1..h /\ 9 \in 1..h /\ 10 \in 1..h /\ 11 \in 1..h /\ 12 \in 1..h
        /\ 1 + 7 = 8 /\ 1 + 8 = 9 /\ 1 + 9 = 10 /\ 1 + 10 = 11 /\ 1 + 11 = 12 /\ 1 + 12 = 13
    BY <1>14
  <2> QED BY <1>12, <2>1
<1>15. b[2] = "Host" /\ HeaderAt(b, 1)
  <2>1. /\ 0 + 2 = 2 /\ 0 + 3 = 3 /\ 0 + 4 = 4 /\ 0 + 5 = 5 /\ 0 + 6 = 6
        /\ 1 + 2 = 3 /\ 1 + 3 = 4 /\ 1 + 4 = 5 /\ 1 + 5 = 6 /\ 1 + 6 = 7
    OBVIOUS
  <2> QED BY <1>7, <1>13, <2>1 DEF HeaderAt
<1>16. h = 12 => b[8] = "Accept" /\ HeaderAt(b, 7)
  <2>1. /\ 6 + 2 = 8 /\ 6 + 3 = 9 /\ 6 + 4 = 10 /\ 6 + 5 = 11 /\ 6 + 6 = 12
        /\ 7 + 2 = 9 /\ 7 + 3 = 10 /\ 7 + 4 = 11 /\ 7 + 5 = 12 /\ 7 + 6 = 13
    OBVIOUS
  <2> QED BY <1>7, <1>14, <2>1 DEF HeaderAt
<1>17. BlockForm(b, h)
  BY <1>7, <1>9, <1>11, <1>15, <1>16 DEF BlockForm
<1> QED BY <1>17

(* The LF of the request line is skipped. *)
LEMMA StartSkips ==
  ASSUME NEW c, NEW p, At(p, "START"), NEW i, c.buf[i] = "LF"
  PROVE  Turn(c, p, i) = p
<1>1. Turn(c, p, i) = ScanToken(p, c.buf, i)
  BY TurnToken
<1>2. p.hState = "START" /\ c.buf[i] \in NewLine
  BY DEF At, NewLine
<1> QED BY <1>1, <1>2, StartToken

(* A scan starts at the first token. *)
LEMMA ScanStarts ==
  ASSUME NEW c, c.hState = "START"
  PROVE  At(Scan(c), "START") /\ Scan(c).lineBegin = 1
BY DEF At, Scan, ScanFields

(* The scan of such a block comes to its end. *)
LEMMA BlockScanned ==
  ASSUME NEW c, NEW h, BlockForm(c.buf, h), c.hState = "START"
  PROVE  At(Scanned(c), "END_LF")
<1> DEFINE b == c.buf
           n == h + 3
<1>1. /\ h \in {6, 12} /\ Len(b) = n /\ b[1] = "LF" /\ b[2] = "Host" /\ HeaderAt(b, 1)
      /\ h = 12 => b[8] = "Accept" /\ HeaderAt(b, 7)
      /\ b[h + 2] = "CR" /\ b[h + 3] = "LF"
  BY DEF BlockForm
<1>2. n \in Nat /\ 9 <= n
  BY <1>1
<1>3. Len(c.buf) \in Nat
  BY <1>1, <1>2
<1>4. PICK scan : /\ scan[0] = Scan(c)
                  /\ \A i \in 1..Len(c.buf) : scan[i] = Turn(c, scan[i - 1], i)
                  /\ Scanned(c) = scan[Len(c.buf)]
  BY <1>3, ScanSteps
<1>5. \A i \in 1..n : scan[i] = Turn(c, scan[i - 1], i)
  BY <1>1, <1>4
<1>6. Scanned(c) = scan[n]
  BY <1>1, <1>4
<1>7. "Host" \notin NewLine /\ "Accept" \notin NewLine
  BY DEF NewLine
<1> HIDE DEF n
<1>8. At(scan[1], "START")
  <2>1. 1 \in 1..n /\ 1 - 1 = 0
    BY <1>2
  <2>2. scan[1] = Turn(c, scan[0], 1)
    BY <1>5, <2>1
  <2>3. At(scan[0], "START") /\ c.buf[1] = "LF"
    BY <1>1, <1>4, ScanStarts
  <2>4. Turn(c, scan[0], 1) = scan[0]
    BY <2>3, StartSkips
  <2> QED BY <2>2, <2>3, <2>4
<1>9. At(scan[7], "LF")
  <2> DEFINE m == 1
  <2>1. m \in Nat /\ m + 1 = 2 /\ m + 6 = 7 /\ \A j \in m + 1..m + 6 : j \in 1..n
    BY <1>2
  <2> HIDE DEF m
  <2>2. \A j \in m + 1..m + 6 : scan[j] = Turn(c, scan[j - 1], j)
    BY <1>5, <2>1
  <2>3. At(scan[m], "START") /\ HeaderAt(c.buf, m) /\ c.buf[m + 1] \notin NewLine
    BY <1>1, <1>7, <1>8, <2>1 DEF m
  <2>4. At(scan[m + 6], "LF")
    BY <2>1, <2>2, <2>3, HeaderScanned
  <2> QED BY <2>1, <2>4
<1>10. ASSUME h = 12
       PROVE  At(scan[13], "LF")
  <2> DEFINE m == 7
  <2>1. m \in Nat /\ m + 1 = 8 /\ m + 6 = 13 /\ \A j \in m + 1..m + 6 : j \in 1..n
    BY <1>10 DEF n
  <2> HIDE DEF m
  <2>2. \A j \in m + 1..m + 6 : scan[j] = Turn(c, scan[j - 1], j)
    BY <1>5, <2>1
  <2>3. At(scan[m], "LF") /\ HeaderAt(c.buf, m) /\ c.buf[m + 1] \notin NewLine
    BY <1>1, <1>7, <1>9, <1>10, <2>1 DEF m
  <2>4. At(scan[m + 6], "LF")
    BY <2>1, <2>2, <2>3, HeaderScanned
  <2> QED BY <2>1, <2>4
<1>11. At(scan[h + 1], "LF")
  <2>1. h = 6 => h + 1 = 7
    OBVIOUS
  <2>2. h = 12 => h + 1 = 13
    OBVIOUS
  <2> QED BY <1>1, <1>9, <1>10, <2>1, <2>2
<1>12. /\ scan[h + 2] = Turn(c, scan[h + 1], h + 2) /\ scan[h + 3] = Turn(c, scan[h + 2], h + 3)
  <2>1. h \in Nat
    BY <1>1
  <2>2. h + 2 \in 1..n /\ (h + 2) - 1 = h + 1 /\ h + 3 \in 1..n /\ (h + 3) - 1 = h + 2
    BY <2>1 DEF n
  <2> QED BY <1>5, <2>2
<1>13. At(scan[h + 2], "END_CR")
  BY <1>1, <1>11, <1>12, BlockEnds
<1>14. At(scan[h + 3], "END_LF")
  BY <1>1, <1>12, <1>13, BlockEnds
<1> QED BY <1>6, <1>14 DEF n

(* ParseHeaders where the headers have come to their end, ... *)
LEMMA HeadersPass ==
  ASSUME NEW c, HasFields(c), NEW h, BlockForm(c.buf, h), c.hState = "START", c.method # "POST"
  PROVE  LET d == ParseHeaders(c)
         IN  /\ HasFields(d) /\ d.state = "ANALYSIS" /\ d.buf = <<>> /\ d.error = c.error
             /\ d.method = c.method /\ d.file = c.file
             /\ d.sent = c.sent /\ d.out = c.out /\ d.conn = c.conn
<1> DEFINE p == Scanned(c)
           d == [c EXCEPT !.hState = p.hState, !.headers = p.headers]
<1>1. p.status = "more" /\ p.hState = "END_LF"
  BY BlockScanned DEF At
<1> HIDE DEF p
<1>2. ParseHeaders(c) = [d EXCEPT !.state = IF c.method = "POST" THEN "BODY" ELSE "ANALYSIS",
                                  !.buf = <<>>]
  BY <1>1 DEF ParseHeaders, p
<1>3. HasFields(d) /\ d.error = c.error /\ d.method = c.method /\ d.file = c.file
      /\ d.sent = c.sent /\ d.out = c.out /\ d.conn = c.conn
  BY DEF HasFields, Fields
<1> HIDE DEF d
<1> QED BY <1>2, <1>3 DEF HasFields, Fields

(* ... and where no more than the LF of the request line is there.          *)
LEMMA HeadersWait ==
  ASSUME NEW c, HasFields(c), NEW p, NEW t, Buffered(c.buf, p, t), c.hState = "START",
         Len(c.buf) \in {0, 1}, Len(c.buf) = 1 => c.buf[1] = "LF"
  PROVE  LET d == ParseHeaders(c)
         IN  /\ HasFields(d) /\ d.state = c.state /\ Buffered(d.buf, p, t) /\ d.error = c.error
             /\ d.method = c.method /\ d.file = c.file /\ d.hState = "START"
             /\ d.sent = c.sent /\ d.out = c.out /\ d.conn = c.conn
<1> DEFINE s == Scanned(c)
           d == [c EXCEPT !.hState = s.hState, !.headers = s.headers]
           n == Len(c.buf)
           rest == SubSeq(c.buf, 1, n)
<1>1. PICK scan : /\ scan[0] = Scan(c)
                  /\ \A i \in 1..n : scan[i] = Turn(c, scan[i - 1], i)
                  /\ s = scan[n]
  BY ScanSteps
<1>2. At(scan[0], "START") /\ scan[0].lineBegin = 1
  BY <1>1, ScanStarts
<1>3. n = 1 => scan[1] = scan[0]
  <2>1. n = 1 => 1 \in 1..n /\ 1 - 1 = 0
    OBVIOUS
  <2>2. n = 1 => scan[1] = Turn(c, scan[0], 1)
    BY <1>1, <2>1
  <2> QED BY <1>2, <2>2, StartSkips
<1>4. s.status = "more" /\ s.hState = "START" /\ s.lineBegin = 1
  BY <1>1, <1>2, <1>3 DEF At
<1> HIDE DEF s
<1>5. ParseHeaders(c) = [d EXCEPT !.buf = rest]
  BY <1>4 DEF ParseHeaders, s
<1>6. Buffered(rest, p, t)
  <2>1. 1 \in Nat \ {0} /\ 1 <= n + 1 /\ p + (1 - 1) = p
    BY DEF Buffered
  <2> QED BY <2>1, BufferedTail
<1>7. HasFields(d) /\ d.error = c.error /\ d.method = c.method /\ d.file = c.file
      /\ d.sent = c.sent /\ d.out = c.out /\ d.conn = c.conn /\ d.state = c.state
      /\ d.hState = s.hState
  BY DEF HasFields, Fields
<1> HIDE DEF d, rest
<1>8. HasFields([d EXCEPT !.buf = rest]) /\ [d EXCEPT !.buf = rest].buf = rest
  BY <1>7 DEF HasFields, Fields
<1> QED BY <1>4, <1>5, <1>6, <1>7, <1>8 DEF HasFields, Fields

-----------------------------------------------------------------------------
(* The parse of a plain request between harmless cuts.                      *)

(* Where the parse of request k can stand between harmless cuts: before its *)
(* line, or after it with the beginning of its headers.                     *)
AtLine(c, k, t) == c.state = "URI" /\ c.hState = "START" /\ Buffered(c.buf, Start(k), t)

AtBlock(c, k, t) ==
  /\ c.state = "HEADERS" /\ c.hState = "START" /\ <<c.method, c.file>> = Answer(requests[k])
  /\ Buffered(c.buf, Shut(k), t)

(* The part of a connection that a stage of the parse leaves alone. *)
Same(c, d) ==
  HasFields(d) /\ d.sent = c.sent /\ d.out = c.out /\ d.conn = c.conn /\ d.error = c.error

(* The line passes, ... *)
LEMMA LinePass ==
  ASSUME Marks, NEW k \in 1..Len(requests), NEW c, HasFields(c), NEW t, AtLine(c, k, t),
         Shut(k) <= t
  PROVE  Same(c, ParseURI(c)) /\ AtBlock(ParseURI(c), k, t)
<1> DEFINE m == requests[k].method
           f == Answer(requests[k])[2]
<1>1. PICK b : /\ Buffered(b, Shut(k), t)
               /\ ParseURI(c) = [c EXCEPT !.state = "HEADERS", !.buf = b, !.method = m, !.file = f]
  <2>1. Buffered(c.buf, Start(k), t)
    BY DEF AtLine
  <2> QED BY <2>1, URIAccepts
<1>2. <<m, f>> = Answer(requests[k])
  BY DEF Answer
<1> HIDE DEF m, f
<1>3. c.hState = "START"
  BY DEF AtLine
<1> QED BY <1>1, <1>2, <1>3 DEF Same, AtBlock, HasFields, Fields

(* ... and so do the headers once they are whole; ... *)
LEMMA BlockPass ==
  ASSUME requests \in Seq(Requests), NEW k \in 1..Len(requests), Plain(requests[k]),
         NEW c, HasFields(c), AtBlock(c, k, Start(k + 1))
  PROVE  LET d == ParseHeaders(c)
         IN  /\ Same(c, d) /\ d.state = "ANALYSIS" /\ d.buf = <<>> /\ d.method # "POST"
             /\ <<d.method, d.file>> = Answer(requests[k])
<1>1. PICK h : BlockForm(c.buf, h)
  BY BlockHasForm DEF AtBlock
<1>2. c.hState = "START" /\ <<c.method, c.file>> = Answer(requests[k])
  BY DEF AtBlock
<1>3. c.method = requests[k].method
  BY <1>2 DEF Answer
<1>4. c.method # "POST"
  BY <1>3 DEF Plain
<1> QED BY <1>1, <1>2, <1>4, HeadersPass DEF Same

(* ... where they are cut off, the parse waits.                             *)
LEMMA BlockWait ==
  ASSUME Marks, NEW k \in 1..Len(requests), NEW c, HasFields(c), NEW t, AtBlock(c, k, t),
         t \in {Shut(k), Shut(k) + 1}
  PROVE  Same(c, ParseHeaders(c)) /\ AtBlock(ParseHeaders(c), k, t)
<1> DEFINE p == Shut(k)
           b == c.buf
<1>1. /\ c.state = "HEADERS" /\ c.hState = "START" /\ <<c.method, c.file>> = Answer(requests[k])
      /\ Buffered(b, p, t)
  BY DEF AtBlock
<1>2. p \in Nat /\ Len(b) \in Nat /\ p + Len(b) = t /\ \A i \in 1..Len(b) : b[i] = Stream[p + i]
  BY <1>1, SequenceLen DEF Buffered, PartOf
<1>3. Stream[p + 1] = "LF"
  <2>1. PICK w : LineForm(requests[k], w)
    BY LineHasForm DEF Marks
  <2>2. /\ Start(k) \in Nat /\ w \in Nat /\ Len(Line(requests[k])) = w + 7
        /\ Line(requests[k])[w + 7] = "LF"
    BY <2>1 DEF Marks, LineForm
  <2>3. w + 7 \in 1..Len(Line(requests[k])) /\ p + 1 = Start(k) + (w + 7)
    BY <2>2 DEF Shut
  <2>4. Stream[Start(k) + (w + 7)] = Line(requests[k])[w + 7]
    BY <2>3 DEF Marks
  <2> QED BY <2>2, <2>3, <2>4
<1> HIDE DEF p
<1>4. t = p \/ t = p + 1
  BY DEF p
<1>5. Len(b) \in {0, 1} /\ (Len(b) = 1 => b[1] = "LF")
  <2>1. Len(b) \in {0, 1}
    <3> DEFINE n == Len(b)
    <3>1. n \in Nat /\ p \in Nat /\ (p + n = p \/ p + n = p + 1)
      BY <1>2, <1>4
    <3> HIDE DEF n
    <3>2. n \in {0, 1}
      BY <3>1
    <3> QED BY <3>2 DEF n
  <2> QED BY <1>2, <1>3, <2>1
<1> HIDE DEF b
<1>6. LET d == ParseHeaders(c)
      IN  /\ HasFields(d) /\ d.state = c.state /\ Buffered(d.buf, p, t) /\ d.error = c.error
          /\ d.method = c.method /\ d.file = c.file /\ d.hState = "START"
          /\ d.sent = c.sent /\ d.out = c.out /\ d.conn = c.conn
  BY <1>1, <1>5, HeadersWait DEF b
<1> QED BY <1>1, <1>6 DEF Same, AtBlock, p

(* The answer to a request whose headers have come to their end: a file may *)
(* be missing.                                                              *)
LEMMA AnalysisAnswers ==
  ASSUME NEW c, HasFields(c), c.out = <<>>, c.method # "POST", NEW d \in AnalysisRequest(c)
  PROVE  /\ HasFields(d) /\ d.conn = c.conn
         /\ \/ d.error = TRUE /\ d.sent = Append(c.sent, NotFound)
            \/ /\ d.error = c.error /\ d.state = "FINISH" /\ d.buf = c.buf /\ d.sent = c.sent
               /\ d.out = <<<<c.method, c.file>>>>
<1> DEFINE answer == <<c.method, c.file>>
           success == [c EXCEPT !.state = "FINISH"]
           done == [success EXCEPT !.out = <<answer>>]
           empty == [c EXCEPT !.out = <<>>]
<1>1. IsSequence(<<answer>>) /\ Append(<<>>, answer) = <<answer>>
  BY Single
<1>2. HasFields(empty) /\ empty.conn = c.conn /\ empty.sent = c.sent
  BY EmptySeq DEF HasFields, Fields, IsSequence
<1>3. /\ HasFields(success) /\ success.conn = c.conn /\ success.error = c.error
      /\ success.state = "FINISH" /\ success.out = <<>> /\ success.buf = c.buf /\ success.sent = c.sent
  BY DEF HasFields, Fields
<1>4. d \in {[success EXCEPT !.out = <<answer>>], [success EXCEPT !.out = Append(@, answer)],
             HandleError(c, NotFound), HandleError(empty, NotFound)}
  BY DEF AnalysisRequest
<1>5. [success EXCEPT !.out = Append(@, answer)] = [success EXCEPT !.out = Append(success.out, answer)]
  BY <1>3
<1>6. d = done \/ \E e \in {c, empty} : d = HandleError(e, NotFound)
  BY <1>1, <1>3, <1>4, <1>5
<1> HIDE DEF success, empty
<1>7. /\ HasFields(done) /\ done.conn = c.conn /\ done.error = c.error
      /\ done.state = "FINISH" /\ done.out = <<answer>> /\ done.buf = c.buf /\ done.sent = c.sent
  BY <1>1, <1>3 DEF HasFields, Fields
<1>8. ASSUME NEW x \in {c, empty}
      PROVE  LET e == HandleError(x, NotFound)
             IN  HasFields(e) /\ e.conn = c.conn /\ e.error = TRUE /\ e.sent = Append(c.sent, NotFound)
  BY <1>2, <1>8 DEF HandleError, HasFields, Fields
<1> HIDE DEF done
<1> QED BY <1>6, <1>7, <1>8

Inside(c, k, t) == AtBlock(c, k, t) /\ t \in {Shut(k), Shut(k) + 1}

(* The harmless cuts of a request, none of them within its line. *)
LEMMA Cuts ==
  ASSUME requests \in Seq(Requests), NEW k \in 1..Len(requests), NEW t \in SafeCuts(k)
  PROVE  /\ t = Start(k + 1) \/ t \in {Shut(k), Shut(k) + 1}
         /\ t \in Nat /\ Shut(k) <= t
<1>1. PICK w : TextForm(requests[k], w)
  <2>1. requests[k] \in Requests
    OBVIOUS
  <2> QED BY <2>1, TextHasForm
<1> DEFINE n == Len(Line(requests[k]))
           m == Len(Text(requests[k]))
           s == Start(k)
           u == Start(k + 1)
<1>2. n = w + 7 /\ w \in Nat /\ m \in Nat /\ w + 7 <= m
  BY <1>1 DEF TextForm, LineForm
<1>3. s \in Nat /\ u = s + m
  BY StreamText
<1>4. (t = s + n - 1 \/ t = s + n \/ t = u) /\ Shut(k) = s + n - 1
  <2>1. t \in {(s + n) - 1, s + n, u}
    BY Zenon DEF SafeCuts
  <2>2. Shut(k) = s + n - 1
    BY Zenon DEF Shut
  <2> HIDE DEF n, s, u
  <2> QED BY <1>2, <1>3, <2>1, <2>2
<1> HIDE DEF n, m, s, u
<1>5. /\ t = u \/ t \in {s + n - 1, (s + n - 1) + 1}
      /\ t \in Nat /\ s + n - 1 <= t
  <2>1. s \in Nat /\ n \in Nat \ {0} /\ u \in Nat /\ s + n <= u
    BY <1>2, <1>3
  <2> QED BY <1>4, <2>1
<1> QED BY <1>4, <1>5 DEF u

(* The parse of a plain request that is cut, if at all, where a cut does no *)
(* harm.                                                                    *)
LEMMA PlainParse ==
  ASSUME requests \in Seq(Requests), NEW k \in 1..Len(requests), Plain(requests[k]),
         NEW c, HasFields(c), c.error = FALSE, c.out = <<>>, NEW t \in SafeCuts(k),
         AtLine(c, k, t) \/ AtBlock(c, k, t), NEW d \in Parse(c)
  PROVE  /\ HasFields(d) /\ d.conn = c.conn
         /\ \/ d.error = TRUE /\ d.sent = Append(c.sent, NotFound)
            \/ /\ d.error = FALSE /\ d.sent = c.sent
               /\ \/ /\ t = Start(k + 1) /\ d.state = "FINISH" /\ d.buf = <<>>
                     /\ d.out = <<Answer(requests[k])>>
                  \/ t # Start(k + 1) /\ d.out = <<>> /\ Inside(d, k, t)
<1> DEFINE line    == IF c.state = "URI" THEN ParseURI(c) ELSE c
           headers == IF line.state = "HEADERS" THEN ParseHeaders(line) ELSE line
           body    == IF headers.state = "BODY" THEN ReceiveBody(headers) ELSE headers
<1>1. d \in IF body.state = "ANALYSIS" THEN AnalysisRequest(body) ELSE {body}
  BY Zenon DEF Parse
<1>2. Marks
  BY StreamMarks
<1>3. Same(c, line) /\ AtBlock(line, k, t)
  <2>1. Shut(k) <= t
    BY Cuts
  <2>2. CASE c.state = "URI"
    <3>1. AtLine(c, k, t)
      BY <2>2 DEF AtBlock
    <3>2. Same(c, ParseURI(c)) /\ AtBlock(ParseURI(c), k, t)
      BY <1>2, <2>1, <3>1, LinePass
    <3> QED BY <2>2, <3>2
  <2>3. CASE c.state # "URI"
    <3>1. AtBlock(c, k, t)
      BY <2>3 DEF AtLine
    <3> QED BY <2>3, <3>1 DEF Same
  <2> QED BY <2>2, <2>3
<1>4. line.state = "HEADERS"
  BY <1>3 DEF AtBlock
<1> HIDE DEF line
<1>5. headers = ParseHeaders(line) /\ HasFields(line)
  BY <1>3, <1>4 DEF Same
<1> HIDE DEF headers
<1>6. CASE t = Start(k + 1)
  <2>1. /\ Same(line, headers) /\ headers.state = "ANALYSIS" /\ headers.buf = <<>>
        /\ headers.method # "POST" /\ <<headers.method, headers.file>> = Answer(requests[k])
    BY <1>3, <1>5, <1>6, BlockPass
  <2>2. d \in AnalysisRequest(headers)
    BY <1>1, <2>1
  <2>3. HasFields(headers) /\ headers.out = <<>> /\ headers.error = FALSE
        /\ headers.sent = c.sent /\ headers.conn = c.conn
    BY <1>3, <2>1 DEF Same
  <2>4. /\ HasFields(d) /\ d.conn = headers.conn
        /\ \/ d.error = TRUE /\ d.sent = Append(headers.sent, NotFound)
           \/ /\ d.error = headers.error /\ d.state = "FINISH" /\ d.buf = headers.buf
              /\ d.sent = headers.sent /\ d.out = <<<<headers.method, headers.file>>>>
    BY <2>1, <2>2, <2>3, AnalysisAnswers
  <2> QED BY <1>6, <2>1, <2>3, <2>4
<1>7. CASE t # Start(k + 1)
  <2>1. t \in {Shut(k), Shut(k) + 1}
    BY <1>7, Cuts
  <2>2. Same(line, headers) /\ AtBlock(headers, k, t)
    BY <1>2, <1>3, <1>5, <2>1, BlockWait
  <2>3. headers.state = "HEADERS"
    BY <2>2 DEF AtBlock
  <2>4. d = headers
    BY <1>1, <2>3
  <2> QED BY <1>3, <1>7, <2>1, <2>2, <2>4 DEF Same, Inside
<1> QED BY <1>6, <1>7

(* What is sent and pending while nothing but answers is.                   *)
Twos(s) == IsSequence(s) /\ \A i \in 1..Len(s) : Len(s[i]) = 2

(* No answers, ...                                                          *)
LEMMA TwosNone == Twos(<<>>) /\ Len(<<>>) = 0
BY EmptySeq DEF Twos, IsSequence

(* ... one, ...                                                             *)
LEMMA TwosOne ==
  ASSUME NEW x, Len(x) = 2
  PROVE  Twos(<<x>>) /\ Len(<<x>>) = 1
<1>1. IsSequence(<<x>>) /\ Len(<<x>>) = 1 /\ <<x>>[1] = x
  BY Single
<1> QED BY <1>1 DEF Twos

(* ... those of two sequences, ...                                          *)
LEMMA TwosJoin ==
  ASSUME NEW s, Twos(s), NEW t, Twos(t)
  PROVE  Twos(s \o t) /\ Len(s \o t) = Len(s) + Len(t)
<1> DEFINE u == s \o t
           m == Len(s)
           n == Len(t)
<1>1. /\ IsSequence(u) /\ Len(u) = m + n
      /\ \A i \in 1..m : u[i] = s[i]
      /\ \A i \in 1..n : u[m + i] = t[i]
  BY Joined DEF Twos
<1>2. /\ m \in Nat /\ n \in Nat /\ \A i \in 1..m : Len(s[i]) = 2
      /\ \A i \in 1..n : Len(t[i]) = 2
  BY SequenceLen DEF Twos
<1> HIDE DEF u, m, n
<1>3. ASSUME NEW i \in 1..Len(u)
      PROVE  Len(u[i]) = 2
  <2>1. CASE i \in 1..m
    BY <1>1, <1>2, <2>1
  <2>2. CASE i \notin 1..m
    <3>1. PICK j \in 1..n : i = m + j
      <4>1. i \in Nat /\ 1 <= i /\ i <= m + n /\ m < i
        BY <1>1, <1>2, <2>2
      <4>2. i - m \in 1..n /\ i = m + (i - m)
        BY <1>2, <4>1
      <4> QED BY <4>2
    <3> QED BY <1>1, <1>2, <3>1
  <2> QED BY <2>1, <2>2
<1> QED BY <1>1, <1>3 DEF Twos, u, m, n

(* ... and those of a part of one.                                          *)
LEMMA TwosPart ==
  ASSUME NEW s, Twos(s), NEW m \in Nat \ {0}, NEW n \in Nat, n <= Len(s)
  PROVE  /\ Twos(SubSeq(s, m, n))
         /\ Len(SubSeq(s, m, n)) = IF m <= n THEN n - m + 1 ELSE 0
<1> DEFINE u == SubSeq(s, m, n)
           l == Len(s)
<1>1. /\ IsSequence(u) /\ Len(u) = IF m <= n THEN n - m + 1 ELSE 0
      /\ \A i \in 1..Len(u) : u[i] = s[m + i - 1]
  BY SubSequence
<1>2. l \in Nat /\ \A i \in 1..l : Len(s[i]) = 2
  BY SequenceLen DEF Twos
<1> HIDE DEF u
<1>3. ASSUME NEW i \in 1..Len(u)
      PROVE  Len(u[i]) = 2
  <2>1. m + i - 1 \in 1..l
    <3> HIDE DEF l
    <3>1. n <= l
      BY DEF l
    <3> QED BY <1>1, <1>2, <3>1
  <2> QED BY <1>1, <1>2, <2>1
<1> QED BY <1>1, <1>3 DEF Twos, u

(* There is no report among answers. *)
LEMMA TwosKept ==
  ASSUME NEW s, Twos(s), NEW x, Len(x) = 1
  PROVE  x \notin ToSet(s)
<1>1. DOMAIN s = 1..Len(s)
  BY SequenceLen DEF Twos
<1> QED BY <1>1 DEF Twos, ToSet

-----------------------------------------------------------------------------
(* The connection while every cut is harmless.                              *)

(* The connection after the answers to w requests, its reads having reached *)
(* t: it is before request w + 1 or in it.                                  *)
Between(c, k, t) ==
  \/ t = Start(k) /\ AtLine(c, k, t)
  \/ k <= Len(requests) /\ Plain(requests[k]) /\ Inside(c, k, t)

Answered(c, w, t) ==
  /\ BadRequest \notin ToSet(c.sent)
  /\ c.error # TRUE =>
       /\ Twos(c.sent) /\ Twos(c.out)
       /\ c.conn = "CONNECTED" => Len(c.sent) + Len(c.out) = w /\ Between(c, w + 1, t)

(* The same before the pass that has finished request w resets the parser.  *)
Passed(c, w, t) ==
  /\ BadRequest \notin ToSet(c.sent)
  /\ c.error # TRUE =>
       /\ Twos(c.sent) /\ Twos(c.out)
       /\ c.conn # "DISCONNECTING" /\ c.state = "FINISH" => c.buf = <<>>
       /\ c.conn = "CONNECTED" =>
            /\ Len(c.sent) + Len(c.out) = w
            /\ IF c.state = "FINISH" THEN w <= Len(requests) /\ t = Start(w + 1)
               ELSE Between(c, w + 1, t)

(* A write takes answers from what is pending to what is sent. *)
LEMMA WritesTwos ==
  ASSUME NEW c, HasFields(c), Twos(c.sent), Twos(c.out), NEW d \in Writes(c)
  PROVE  /\ HasFields(d) /\ d.conn = c.conn
         /\ \/ d.error = TRUE /\ d.sent = c.sent
            \/ /\ d.error = c.error /\ Twos(d.sent) /\ Twos(d.out)
               /\ Len(d.sent) + Len(d.out) = Len(c.sent) + Len(c.out)
               /\ d.buf = c.buf /\ d.state = c.state /\ d.hState = c.hState
               /\ d.method = c.method /\ d.file = c.file
<1> DEFINE n == Len(c.out)
           Wrote(k) == [c EXCEPT !.sent = @ \o SubSeq(c.out, 1, k), !.out = SubSeq(@, k + 1, Len(@))]
<1>1. n \in Nat
  BY SequenceLen DEF Twos
<1>2. CASE d = [c EXCEPT !.error = TRUE]
  <2>1. HasFields(d) /\ d.conn = c.conn /\ d.error = TRUE /\ d.sent = c.sent
    BY <1>2 DEF HasFields, Fields
  <2> QED BY <2>1
<1>3. ASSUME NEW k \in 0..n, d = Wrote(k)
      PROVE  /\ HasFields(d) /\ d.conn = c.conn
             /\ d.error = c.error /\ Twos(d.sent) /\ Twos(d.out)
             /\ Len(d.sent) + Len(d.out) = Len(c.sent) + Len(c.out)
             /\ d.buf = c.buf /\ d.state = c.state /\ d.hState = c.hState
             /\ d.method = c.method /\ d.file = c.file
  <2> DEFINE s == c.sent \o SubSeq(c.out, 1, k)
             u == SubSeq(c.out, k + 1, n)
  <2>1. k \in Nat /\ k + 1 \in Nat \ {0} /\ k <= n
    BY <1>1
  <2>2. Twos(SubSeq(c.out, 1, k)) /\ Len(SubSeq(c.out, 1, k)) = k
    <3>1. /\ Twos(SubSeq(c.out, 1, k))
          /\ Len(SubSeq(c.out, 1, k)) = IF 1 <= k THEN k - 1 + 1 ELSE 0
      BY <2>1, TwosPart
    <3> QED BY <2>1, <3>1
  <2>3. Twos(s) /\ Len(s) = Len(c.sent) + k
    BY <2>2, TwosJoin
  <2>4. Twos(u) /\ Len(u) = n - k
    <3>1. Twos(u) /\ Len(u) = IF k + 1 <= n THEN n - (k + 1) + 1 ELSE 0
      BY <1>1, <2>1, TwosPart
    <3>2. (IF k + 1 <= n THEN n - (k + 1) + 1 ELSE 0) = n - k
      BY <1>1, <2>1
    <3> QED BY <3>1, <3>2
  <2>5. d = [c EXCEPT !.sent = s, !.out = u]
    BY <1>3
  <2>6. IsSequence(u)
    BY <2>4 DEF Twos
  <2>7. Len(s) + Len(u) = Len(c.sent) + n
    <3>1. Len(c.sent) \in Nat
      BY SequenceLen DEF Twos
    <3> HIDE DEF s, u, n
    <3> QED BY <1>1, <2>1, <2>3, <2>4, <3>1
  <2> HIDE DEF s, u
  <2>8. /\ HasFields(d) /\ d.conn = c.conn /\ d.error = c.error /\ d.sent = s /\ d.out = u
        /\ d.buf = c.buf /\ d.state = c.state /\ d.hState = c.hState
        /\ d.method = c.method /\ d.file = c.file
    BY <2>5, <2>6 DEF HasFields, Fields
  <2> QED BY <2>3, <2>4, <2>7, <2>8
<1>4. d = [c EXCEPT !.error = TRUE] \/ \E k \in 0..n : d = Wrote(k)
  BY DEF Writes
<1> QED BY <1>2, <1>3, <1>4

(* Where the parse stands does not depend on what is sent. *)
LEMMA BetweenMoved ==
  ASSUME NEW c, NEW d, d.buf = c.buf, d.state = c.state, d.hState = c.hState,
         d.method = c.method, d.file = c.file, NEW k, NEW t, Between(c, k, t)
  PROVE  Between(d, k, t)
BY DEF Between, Inside, AtLine, AtBlock

(* A write within the pass changes nothing in this. *)
LEMMA WritesPassed ==
  ASSUME NEW c, HasFields(c), NEW w, NEW t, Passed(c, w, t), c.error # TRUE, NEW d \in Writes(c)
  PROVE  Passed(d, w, t) /\ HasFields(d) /\ d.conn = c.conn
<1>1. Twos(c.sent) /\ Twos(c.out)
  BY DEF Passed
<1>2. /\ HasFields(d) /\ d.conn = c.conn
      /\ \/ d.error = TRUE /\ d.sent = c.sent
         \/ /\ d.error = c.error /\ Twos(d.sent) /\ Twos(d.out)
            /\ Len(d.sent) + Len(d.out) = Len(c.sent) + Len(c.out)
            /\ d.buf = c.buf /\ d.state = c.state /\ d.hState = c.hState
            /\ d.method = c.method /\ d.file = c.file
  BY <1>1, WritesTwos
<1>3. CASE d.error = TRUE /\ d.sent = c.sent
  BY <1>2, <1>3 DEF Passed
<1>4. CASE /\ d.error = c.error /\ Twos(d.sent) /\ Twos(d.out)
           /\ Len(d.sent) + Len(d.out) = Len(c.sent) + Len(c.out)
           /\ d.buf = c.buf /\ d.state = c.state /\ d.hState = c.hState
           /\ d.method = c.method /\ d.file = c.file
  <2>1. BadRequest \notin ToSet(d.sent)
    BY <1>4, TwosKept DEF BadRequest
  <2>2. Between(c, w + 1, t) => Between(d, w + 1, t)
    BY <1>4, BetweenMoved
  <2> QED BY <1>2, <1>4, <2>1, <2>2 DEF Passed
<1> QED BY <1>2, <1>3, <1>4

(* An event after the last of the stream, or on a connection whose client   *)
(* has shut down.                                                           *)
LEMMA QuietPass ==
  ASSUME NEW c, AtRest(c), c.error = FALSE, NEW w, NEW t, Answered(c, w, t),
         NEW text, NEW end, c.conn = "DISCONNECTING" \/ (text = <<>> /\ end = "eof"),
         NEW d \in ReadAndParse(c, text, end)
  PROVE  HasFields(d) /\ d.error = FALSE /\ d.conn = "DISCONNECTING" /\ Passed(d, w, t)
<1> DEFINE e == [c EXCEPT !.buf = @ \o text]
<1>1. \/ d = [e EXCEPT !.buf = <<>>] /\ c.conn = "DISCONNECTING"
      \/ d = [e EXCEPT !.conn = "DISCONNECTING"]
  BY DEF ReadAndParse
<1>2. HasFields(e) /\ e.error = FALSE /\ e.sent = c.sent /\ e.out = c.out /\ e.conn = c.conn
  BY DEF AtRest, HasFields, Fields
<1> HIDE DEF e
<1>3. HasFields(d) /\ d.error = FALSE /\ d.sent = c.sent /\ d.out = c.out /\ d.conn = "DISCONNECTING"
  BY <1>1, <1>2 DEF HasFields, Fields
<1> QED BY <1>3 DEF Answered, Passed

(* A missing file is not a bad request. *)
LEMMA NotFoundAppended ==
  ASSUME NEW s, Twos(s)
  PROVE  BadRequest \notin ToSet(Append(s, NotFound))
<1> DEFINE t == Append(s, NotFound)
           n == Len(s)
<1>1. n \in Nat /\ DOMAIN s = 1..n /\ \A i \in 1..n : Len(s[i]) = 2
  BY SequenceLen DEF Twos
<1>2. IsSequence(t) /\ Len(t) = n + 1 /\ t[Len(t)] = NotFound /\ \A i \in 1..n : t[i] = s[i]
  BY Appended DEF Begins, Twos
<1>3. DOMAIN t = 1..n + 1 /\ t[n + 1] = NotFound
  BY <1>2, SequenceLen
<1>4. BadRequest # NotFound /\ Len(BadRequest) # 2
  BY DEF BadRequest, NotFound
<1> HIDE DEF t, n
<1>5. \A i \in 1..n + 1 : i \in 1..n \/ i = n + 1
  BY <1>1
<1>6. \A i \in 1..n + 1 : t[i] # BadRequest
  BY <1>1, <1>2, <1>3, <1>4, <1>5
<1> QED BY <1>3, <1>6 DEF ToSet, t

(* A pass over a harmless cut of a plain request. *)
LEMMA PlainPass ==
  ASSUME requests \in Seq(Requests), NEW c, AtRest(c), c.error = FALSE, c.conn = "CONNECTED",
         c.out = <<>>, NEW w \in Nat, w + 1 \in 1..Len(requests), Plain(requests[w + 1]),
         NEW t, Answered(c, w, t), NEW n \in Nat \ {0}, t + n <= Len(Stream),
         t + n \in SafeCuts(w + 1), NEW end \in {"EAGAIN", "eof"},
         NEW d \in ReadAndParse(c, Arriving(t, n), end)
  PROVE  /\ HasFields(d) /\ d.error \in BOOLEAN
         /\ Passed(d, IF t + n = Start(w + 2) THEN w + 1 ELSE w, t + n)
<1> DEFINE text == Arriving(t, n)
           e == [c EXCEPT !.buf = @ \o text]
           h == [e EXCEPT !.conn = "DISCONNECTING"]
           k == w + 1
           u == t + n
<1>1. Twos(c.sent) /\ Len(c.sent) \in Nat /\ Len(c.sent) = w /\ Between(c, k, t)
  <2>1. Twos(c.sent) /\ Len(c.sent) + Len(c.out) = w /\ Between(c, k, t)
    BY DEF Answered
  <2>2. Len(c.sent) \in Nat /\ Len(c.out) = 0
    BY <2>1, TwosNone, SequenceLen DEF Twos
  <2>3. Len(c.sent) = w
    <3> DEFINE m == Len(c.sent)
               o == Len(c.out)
    <3>1. m \in Nat /\ o = 0 /\ m + o = w
      BY <2>1, <2>2
    <3> HIDE DEF m, o
    <3>2. m = w
      BY <3>1
    <3> QED BY <3>2 DEF m
  <2> QED BY <2>1, <2>2, <2>3
<1>2. k \in 1..Len(requests) /\ w + 2 = k + 1
  OBVIOUS
<1>3. Marks /\ IsSequence(Stream)
  BY StreamMarks DEF Marks
<1>4. t \in Nat
  BY <1>1 DEF Between, Inside, AtLine, AtBlock, Buffered
<1>5. \A p : Buffered(c.buf, p, t) => Buffered(c.buf \o text, p, u)
  BY <1>3, BufferedMore DEF Arriving
<1>6. text # <<>>
  <2> DEFINE M == Len(Stream)
             left == SubSeq(Stream, t + 1, M)
  <2>1. Len(SubSeq(left, 1, n)) = IF 1 <= n THEN n - 1 + 1 ELSE 0
    BY SubSequence
  <2>2. Len(SubSeq(left, 1, n)) # 0
    BY <2>1
  <2> QED BY <2>2, TwosNone DEF Arriving
<1>7. d \in Parse(e) \/ d \in Parse(h)
  BY <1>6 DEF ReadAndParse
<1>8. /\ e.buf = c.buf \o text /\ HasFields(e) /\ e.error = FALSE /\ e.sent = c.sent
      /\ e.out = <<>> /\ e.state = c.state /\ e.hState = c.hState /\ e.method = c.method
      /\ e.file = c.file
  BY DEF AtRest, HasFields, Fields
<1> HIDE DEF e, text
<1>9. /\ h.buf = e.buf /\ HasFields(h) /\ h.error = FALSE /\ h.sent = c.sent
      /\ h.out = <<>> /\ h.state = c.state /\ h.hState = c.hState /\ h.method = c.method
      /\ h.file = c.file
  BY <1>8 DEF HasFields, Fields
<1> HIDE DEF h, k, u
<1>10. ASSUME NEW x \in {e, h}
       PROVE  AtLine(x, k, u) \/ AtBlock(x, k, u)
  <2>1. /\ x.buf = c.buf \o text /\ x.state = c.state /\ x.hState = c.hState
        /\ x.method = c.method /\ x.file = c.file
    BY <1>8, <1>9, <1>10
  <2>2. AtLine(c, k, t) => AtLine(x, k, u)
    BY <1>5, <2>1 DEF AtLine
  <2>3. AtBlock(c, k, t) => AtBlock(x, k, u)
    BY <1>5, <2>1 DEF AtBlock
  <2> QED BY <1>1, <2>2, <2>3 DEF Between, Inside
<1>11. PICK x \in {e, h} : d \in Parse(x)
  BY <1>7
<1>12. /\ HasFields(x) /\ x.error = FALSE /\ x.out = <<>> /\ x.sent = c.sent
       /\ AtLine(x, k, u) \/ AtBlock(x, k, u)
  BY <1>8, <1>9, <1>10, <1>11
<1>13. u \in SafeCuts(k) /\ Plain(requests[k])
  BY DEF k, u
<1>14. /\ HasFields(d)
       /\ \/ d.error = TRUE /\ d.sent = Append(x.sent, NotFound)
          \/ /\ d.error = FALSE /\ d.sent = x.sent
             /\ \/ /\ u = Start(k + 1) /\ d.state = "FINISH" /\ d.buf = <<>>
                   /\ d.out = <<Answer(requests[k])>>
                \/ u # Start(k + 1) /\ d.out = <<>> /\ Inside(d, k, u)
  BY <1>2, <1>11, <1>12, <1>13, PlainParse
<1> DEFINE v == IF u = Start(k + 1) THEN w + 1 ELSE w
<1>15. Passed(d, v, u)
  <2>1. CASE d.error = TRUE /\ d.sent = Append(c.sent, NotFound)
    BY <1>1, <2>1, NotFoundAppended DEF Passed
  <2>2. BadRequest \notin ToSet(c.sent)
    BY <1>1, TwosKept DEF BadRequest
  <2>3. CASE /\ d.error = FALSE /\ d.sent = c.sent
             /\ u = Start(k + 1) /\ d.state = "FINISH" /\ d.buf = <<>>
             /\ d.out = <<Answer(requests[k])>>
    <3>1. Len(Answer(requests[k])) = 2
      BY DEF Answer
    <3>2. Twos(d.out) /\ Len(d.out) = 1
      BY <2>3, <3>1, TwosOne
    <3>3. Len(d.sent) + Len(d.out) = w + 1 /\ v = w + 1
      BY <1>1, <2>3, <3>2
    <3>4. w + 1 <= Len(requests) /\ k + 1 = (w + 1) + 1
      BY <1>3 DEF k, Marks
    <3> QED BY <1>1, <2>2, <2>3, <3>2, <3>3, <3>4 DEF Passed
  <2>4. CASE /\ d.error = FALSE /\ d.sent = c.sent
             /\ u # Start(k + 1) /\ d.out = <<>> /\ Inside(d, k, u)
    <3>1. Len(d.sent) + Len(d.out) = w /\ v = w
      <4>1. Len(d.sent) = w /\ Len(d.out) = 0
        BY <1>1, <2>4, TwosNone
      <4> QED BY <2>4, <4>1
    <3>2. d.state # "FINISH"
      BY <2>4 DEF Inside, AtBlock
    <3>3. k <= Len(requests)
      BY <1>3 DEF k, Marks
    <3>4. Between(d, w + 1, u)
      BY <1>13, <2>4, <3>3 DEF Between, k
    <3> QED BY <1>1, <2>2, <2>4, <3>1, <3>2, <3>4, TwosNone DEF Passed
  <2> QED BY <1>12, <1>14, <2>1, <2>3, <2>4
<1>16. v = IF t + n = Start(w + 2) THEN w + 1 ELSE w
  BY <1>2 DEF u, k
<1>17. d.error \in BOOLEAN
  BY <1>14
<1> QED BY <1>14, <1>15, <1>16, <1>17 DEF u

(* The connection after the pass: closed, reset or left as it is. *)
LEMMA PassAnswered ==
  ASSUME requests \in Seq(Requests), NEW d, HasFields(d), d.error \in BOOLEAN,
         NEW w \in Nat, w <= Len(requests), NEW t, Passed(d, w, t),
         t \in Nat, t <= Len(Stream)
  PROVE  Answered(IF d.error THEN Closed(d)
                  ELSE IF ~d.error /\ d.state = "FINISH" THEN Reset(d) ELSE d, w, t)
<1> DEFINE x == Closed(d)
           r == Reset(d)
<1>1. CASE d.error
  <2>1. x.error = TRUE /\ x.sent = d.sent
    BY DEF Closed, InitHttp
  <2> HIDE DEF x
  <2>2. Answered(x, w, t)
    BY <2>1 DEF Passed, Answered
  <2> QED BY <1>1, <2>2 DEF x
<1>2. CASE ~d.error /\ d.state = "FINISH"
  <2>1. /\ r.error = d.error /\ r.sent = d.sent /\ r.out = d.out /\ r.conn = d.conn
        /\ r.buf = d.buf /\ r.state = "URI" /\ r.hState = "START"
    BY DEF Reset, HasFields, Fields
  <2> HIDE DEF r
  <2>2. ASSUME d.conn = "CONNECTED"
        PROVE  Len(r.sent) + Len(r.out) = w /\ Between(r, w + 1, t)
    <3>1. d.buf = <<>> /\ t = Start(w + 1) /\ Len(d.sent) + Len(d.out) = w
      BY <1>2, <2>2 DEF Passed
    <3>2. Buffered(<<>>, t, t)
      <4>1. IsSequence(<<>>) /\ Len(<<>>) = 0
        BY TwosNone DEF Twos
      <4>2. PartOf(<<>>, t)
        BY <4>1 DEF PartOf
      <4> QED BY <4>1, <4>2 DEF Buffered
    <3>3. AtLine(r, w + 1, t)
      BY <2>1, <3>1, <3>2 DEF AtLine
    <3> QED BY <2>1, <3>1, <3>3 DEF Between
  <2>3. Answered(r, w, t)
    BY <1>2, <2>1, <2>2 DEF Passed, Answered
  <2> QED BY <1>2, <2>3 DEF r
<1>3. CASE ~d.error /\ d.state # "FINISH"
  <2>1. Answered(d, w, t)
    BY <1>3 DEF Passed, Answered
  <2> QED BY <1>3, <2>1
<1> QED BY <1>1, <1>2, <1>3

-----------------------------------------------------------------------------
(* It holds at first and is kept by every step.                             *)

(* The account while every cut is harmless; no more requests than MaxRequests. *)
WholeInv ==
  /\ Len(requests) <= MaxRequests
  /\ whole # None => whole \in 0..Len(requests) /\ ~again /\ Answered(http, whole, taken)

(* The requests do not change, and so neither does what is said of them.    *)
LEMMA SameAnswered ==
  ASSUME UNCHANGED requests
  PROVE  \A c, w, t : Answered(c, w, t)' <=> Answered(c, w, t)
<1>1. Stream' = Stream
  BY DEF Stream
<1>2. \A k : (Start(k)' = Start(k)) /\ (Shut(k)' = Shut(k))
  <2>1. \A k : Start(k)' = Start(k)
    BY DEF Start
  <2> QED BY <2>1 DEF Shut
<1>3. \A b, p, t : Buffered(b, p, t)' <=> Buffered(b, p, t)
  BY <1>1 DEF Buffered, PartOf
<1>4. \A c, k, t : (AtLine(c, k, t)' <=> AtLine(c, k, t)) /\ (AtBlock(c, k, t)' <=> AtBlock(c, k, t))
  BY <1>2, <1>3 DEF AtLine, AtBlock
<1>5. \A c, k, t : Inside(c, k, t)' <=> Inside(c, k, t)
  BY <1>2, <1>4 DEF Inside
<1>6. \A c, k, t : Between(c, k, t)' <=> Between(c, k, t)
  BY <1>2, <1>4, <1>5 DEF Between
<1> QED BY <1>6 DEF Answered

(* A fresh connection has answered nothing and is before the first request. *)
LEMMA InitWhole == Init => WholeInv
<1> SUFFICES ASSUME Init PROVE WholeInv
  OBVIOUS
<1>1. OrderInv
  BY InitOrder
<1>2. Marks
  BY <1>1, StreamMarks DEF OrderInv
<1>3. Len(requests) \in Nat /\ Len(Stream) \in Nat
  BY <1>2 DEF Marks
<1>4. Len(requests) <= MaxRequests
  BY ParserAssumption DEF Init, BoundedSeq, SeqOf
<1>5. Start(1) = 0
  <2>1. Start(1) = Off(1 - 1)
    BY DEF Start, Off, Before, Texts
  <2> QED BY <2>1, BeforeFirst DEF Off
<1>6. whole = 0 /\ taken = 0 /\ again = FALSE
  BY DEF Init
<1>7. /\ http.sent = <<>> /\ http.out = <<>> /\ http.buf = <<>>
      /\ http.state = "URI" /\ http.hState = "START"
  BY DEF Init, InitHttp
<1>8. AtLine(http, 1, 0)
  <2>1. IsSequence(<<>>) /\ Len(<<>>) = 0
    BY TwosNone DEF Twos
  <2>2. PartOf(<<>>, 0)
    BY <2>1 DEF PartOf
  <2>3. Buffered(<<>>, 0, 0)
    BY <1>3, <2>1, <2>2 DEF Buffered
  <2> QED BY <1>5, <1>7, <2>3 DEF AtLine
<1>9. BadRequest \notin ToSet(<<>>)
  BY TwosNone, TwosKept DEF BadRequest
<1>10. Answered(http, 0, 0)
  <2>1. Between(http, 0 + 1, 0)
    BY <1>5, <1>8 DEF Between
  <2>2. Len(http.sent) + Len(http.out) = 0
    BY <1>7, TwosNone
  <2> QED BY <1>7, <1>9, <2>1, <2>2, TwosNone DEF Answered
<1> QED BY <1>3, <1>4, <1>6, <1>10 DEF WholeInv

(* What Counted counts. *)
LEMMA CountedCases ==
  ASSUME Len(requests) \in Nat, WholeInv, NEW n \in Nat, NEW end, Counted(n, end) # None
  PROVE  /\ whole # None /\ end # "error"
         /\ \/ n = 0 /\ Counted(n, end) = whole
            \/ /\ n > 0 /\ whole + 1 \in 1..Len(requests)
               /\ Plain(requests[whole + 1]) /\ taken + n \in SafeCuts(whole + 1)
               /\ Counted(n, end) = IF taken + n = Start(whole + 2) THEN whole + 1 ELSE whole
<1>1. whole \in 0..(Len(requests) - 1) => whole # None /\ whole + 1 \in 1..Len(requests)
  BY ParserAssumption DEF WholeInv, None
<1>2. CASE n = 0 /\ end # "error"
  BY <1>2 DEF Counted
<1>3. CASE ~(n = 0 /\ end # "error")
  <2>1. /\ whole \in 0..(Len(requests) - 1) /\ Plain(requests[whole + 1])
        /\ taken + n \in SafeCuts(whole + 1) /\ end # "error"
        /\ Counted(n, end) = IF taken + n = Start(whole + 2) THEN whole + 1 ELSE whole
    BY <1>3, Zenon DEF Counted
  <2>2. n > 0
    BY <1>3, <2>1
  <2> QED BY <1>1, <2>1, <2>2
<1> QED BY <1>2, <1>3

(* A pass of handleRead keeps the account, ...                              *)
LEMMA ReadStepWhole ==
  ASSUME RestInv, OrderInv, WholeInv, NEW n \in Nat, taken + n <= Len(Stream), NEW end \in Ends,
         HandleRead(n, Arriving(taken, n), end)
  PROVE  WholeInv'
<1> DEFINE text == Arriving(taken, n)
           v == Counted(n, end)
           u == taken + n
<1>1. UNCHANGED requests /\ taken' = u /\ whole' = v
  BY DEF HandleRead
<1>2. Len(requests)' <= MaxRequests' /\ None' = None
  BY <1>1 DEF WholeInv, None
<1> SUFFICES ASSUME v # None
             PROVE  v \in 0..Len(requests) /\ ~again' /\ Answered(http', v, u)
  <2> HIDE DEF v, u
  <2>1. \A c, w, t : Answered(c, w, t)' <=> Answered(c, w, t)
    BY <1>1, SameAnswered
  <2>2. Answered(http, whole, taken)' <=> Answered(http', v, u)
    BY <1>1, <2>1
  <2> QED BY <1>1, <1>2, <2>2 DEF WholeInv
<1>3. requests \in Seq(Requests) /\ Len(requests) \in Nat /\ taken \in Nat /\ Len(Stream) \in Nat
  BY StreamMarks DEF OrderInv, Marks
<1>4. /\ whole # None /\ end # "error"
      /\ \/ n = 0 /\ v = whole
         \/ /\ n > 0 /\ whole + 1 \in 1..Len(requests)
            /\ Plain(requests[whole + 1]) /\ u \in SafeCuts(whole + 1)
            /\ v = IF u = Start(whole + 2) THEN whole + 1 ELSE whole
  BY <1>3, CountedCases
<1>5. whole \in 0..Len(requests) /\ ~again /\ Answered(http, whole, taken)
  BY <1>4 DEF WholeInv
<1>6. AtRest(http) /\ http.error = FALSE
  BY DEF RestInv, HandleRead
<1>7. /\ n > 0 \/ end # "EAGAIN"
      /\ http.conn = "DISCONNECTING" => n = 0
      /\ http.conn = "CONNECTED" => http.out = <<>>
  BY <1>5, <1>6 DEF HandleRead, Reading
<1> DEFINE Result(d) ==
             /\ http' = IF d.error THEN Closed(d)
                        ELSE IF ~d.error /\ d.state = "FINISH" THEN Reset(d) ELSE d
             /\ again' = ((~d.error /\ d.state = "FINISH") /\ d.buf # <<>> /\ d.conn # "DISCONNECTING")
<1>8. PICK c \in ReadAndParse(http, text, end) :
        \E d \in IF c.error \/ c.out = <<>> THEN {c} ELSE Writes(c) : Result(d)
  BY DEF HandleRead
<1>9. PICK d \in IF c.error \/ c.out = <<>> THEN {c} ELSE Writes(c) : Result(d)
  BY <1>8
<1> HIDE DEF v
<1>10. /\ HasFields(c) /\ c.error \in BOOLEAN /\ Passed(c, v, u)
       /\ v \in 0..Len(requests)
  <2>1. CASE n = 0 /\ v = whole
    <3>1. text = <<>>
      <4> DEFINE left == SubSeq(Stream, taken + 1, Len(Stream))
      <4>1. Len(SubSeq(left, 1, n)) = IF 1 <= n THEN n - 1 + 1 ELSE 0
        BY SubSequence
      <4>2. SubSeq(left, 1, n) = <<>>
        BY <2>1, TextEmpty
      <4> QED BY <4>2 DEF Arriving
    <3> HIDE DEF text
    <3>2. end = "eof"
      BY <1>4, <1>7, <2>1 DEF Ends
    <3>3. HasFields(c) /\ c.error = FALSE /\ Passed(c, whole, taken)
      BY <1>5, <1>6, <1>8, <3>1, <3>2, QuietPass
    <3>4. u = taken
      BY <1>3, <2>1
    <3> QED BY <1>5, <2>1, <3>3, <3>4
  <2>2. CASE /\ n > 0 /\ whole + 1 \in 1..Len(requests)
             /\ Plain(requests[whole + 1]) /\ u \in SafeCuts(whole + 1)
             /\ v = IF u = Start(whole + 2) THEN whole + 1 ELSE whole
    <3>1. http.conn = "CONNECTED" /\ http.out = <<>>
      BY <1>6, <1>7, <2>2 DEF AtRest
    <3>2. end \in {"EAGAIN", "eof"} /\ n \in Nat \ {0} /\ whole \in Nat
      BY <1>4, <1>5, <2>2 DEF Ends
    <3>3. HasFields(c) /\ c.error \in BOOLEAN
          /\ Passed(c, IF u = Start(whole + 2) THEN whole + 1 ELSE whole, u)
      BY <1>3, <1>5, <1>6, <1>8, <2>2, <3>1, <3>2, PlainPass
    <3>4. v \in 0..Len(requests)
      BY <1>3, <1>5, <2>2
    <3> QED BY <2>2, <3>3, <3>4
  <2> QED BY <1>4, <2>1, <2>2
<1> HIDE DEF text
<1>11. HasFields(d) /\ d.error \in BOOLEAN /\ Passed(d, v, u)
  <2>1. CASE d = c
    BY <1>10, <2>1
  <2>2. CASE d \in Writes(c) /\ ~c.error
    BY <1>10, <2>2, WritesKeep, WritesPassed
  <2> QED BY <1>9, <2>1, <2>2
<1>12. ~again'
  BY <1>9, <1>11 DEF Passed
<1>13. Answered(http', v, u)
  <2>1. v \in Nat /\ v <= Len(requests) /\ u \in Nat /\ u <= Len(Stream)
    BY <1>3, <1>10
  <2>2. Answered(IF d.error THEN Closed(d)
                 ELSE IF ~d.error /\ d.state = "FINISH" THEN Reset(d) ELSE d, v, u)
    <3> HIDE DEF u
    <3> QED BY <1>3, <1>11, <2>1, PassAnswered
  <2> QED BY <1>9, <2>2
<1> QED BY <1>10, <1>12, <1>13

(* ... and so does handleWrite.                                             *)
LEMMA WriteStepWhole == RestInv /\ OrderInv /\ WholeInv /\ HandleWrite => WholeInv'
<1> SUFFICES ASSUME RestInv, OrderInv, WholeInv, HandleWrite PROVE WholeInv'
  OBVIOUS
<1>1. UNCHANGED <<requests, taken, again, whole>>
  BY DEF HandleWrite
<1>2. \A c, w, t : Answered(c, w, t)' <=> Answered(c, w, t)
  BY <1>1, SameAnswered
<1>3. None' = None /\ MaxRequests' = MaxRequests
  BY DEF None
<1> SUFFICES ASSUME whole # None
             PROVE  Answered(http', whole, taken)
  BY <1>1, <1>2, <1>3 DEF WholeInv
<1>4. whole \in 0..Len(requests) /\ Answered(http, whole, taken)
  BY DEF WholeInv
<1>5. AtRest(http) /\ http.error = FALSE
  BY DEF RestInv, HandleWrite
<1>6. HasFields(http) /\ Twos(http.sent) /\ Twos(http.out)
  BY <1>4, <1>5 DEF AtRest, Answered
<1>7. PICK d \in Writes(http) : http' = IF d.error THEN Closed(d) ELSE d
  BY DEF HandleWrite
<1>8. /\ d.conn = http.conn
      /\ \/ d.error = TRUE /\ d.sent = http.sent
         \/ /\ d.error = http.error /\ Twos(d.sent) /\ Twos(d.out)
            /\ Len(d.sent) + Len(d.out) = Len(http.sent) + Len(http.out)
            /\ d.buf = http.buf /\ d.state = http.state /\ d.hState = http.hState
            /\ d.method = http.method /\ d.file = http.file
  BY <1>6, <1>7, WritesTwos
<1>9. CASE d.error = TRUE /\ d.sent = http.sent
  <2>1. http'.error = TRUE /\ http'.sent = http.sent
    BY <1>7, <1>9 DEF Closed, InitHttp
  <2> QED BY <1>4, <2>1 DEF Answered
<1>10. CASE /\ d.error = http.error /\ Twos(d.sent) /\ Twos(d.out)
            /\ Len(d.sent) + Len(d.out) = Len(http.sent) + Len(http.out)
            /\ d.buf = http.buf /\ d.state = http.state /\ d.hState = http.hState
            /\ d.method = http.method /\ d.file = http.file
  <2>1. http' = d
    BY <1>5, <1>7, <1>10
  <2>2. BadRequest \notin ToSet(d.sent)
    BY <1>10, TwosKept DEF BadRequest
  <2>3. Between(http, whole + 1, taken) => Between(d, whole + 1, taken)
    BY <1>10, BetweenMoved
  <2>4. Answered(d, whole, taken)
    BY <1>4, <1>5, <1>8, <1>10, <2>2, <2>3 DEF Answered
  <2> QED BY <2>1, <2>4
<1> QED BY <1>8, <1>9, <1>10

(* WholeInv is an invariant. *)
LEMMA StaysWhole == Spec => []WholeInv
<1>1. RestInv /\ OrderInv /\ WholeInv /\ [Next]_vars => WholeInv'
  <2> SUFFICES ASSUME RestInv, OrderInv, WholeInv, [Next]_vars PROVE WholeInv'
    OBVIOUS
  <2> DEFINE left == SubSeq(Stream, taken + 1, Len(Stream))
  <2>1. ASSUME NEW n \in 0..Len(left), NEW end \in Ends, HandleRead(n, SubSeq(left, 1, n), end)
        PROVE  WholeInv'
    <3>1. taken \in Nat /\ taken <= Len(Stream) /\ Len(Stream) \in Nat
      BY StreamMarks DEF OrderInv, Marks
    <3>2. Len(left) = IF taken + 1 <= Len(Stream) THEN Len(Stream) - (taken + 1) + 1 ELSE 0
      <4>1. taken + 1 \in Nat
        BY <3>1
      <4> QED BY <3>1, <4>1, SubSequence
    <3>3. HandleRead(n, Arriving(taken, n), end)
      BY <2>1 DEF Arriving
    <3> HIDE DEF left
    <3>4. n \in Nat /\ taken + n <= Len(Stream)
      BY <3>1, <3>2
    <3> QED BY <3>3, <3>4, ReadStepWhole
  <2>2. CASE HandleWrite
    BY <2>2, WriteStepWhole
  <2>3. CASE UNCHANGED vars
    <3>1. UNCHANGED <<requests, taken, http, again, whole>>
      BY <2>3 DEF vars
    <3>2. \A c, w, t : Answered(c, w, t)' <=> Answered(c, w, t)
      BY <3>1, SameAnswered
    <3>3. None' = None /\ MaxRequests' = MaxRequests
      BY DEF None
    <3> QED BY <3>1, <3>2, <3>3 DEF WholeInv
  <2>4. Next => \/ \E n \in 0..Len(left), end \in Ends : HandleRead(n, SubSeq(left, 1, n), end)
                \/ HandleWrite
    BY DEF Next, Ends
  <2> HIDE DEF left
  <2> QED BY <2>1, <2>2, <2>3, <2>4
<1> QED BY InitWhole, <1>1, StaysAtRest, StaysInOrder, PTL DEF Spec

(* While the reads end only where they do no harm, no plain request is      *)
(* rejected, and each has been answered once the connection is idle: the    *)
(* parser starts over for each as for the first (HttpData.cpp:144-156).     *)
THEOREM WholeRequestsAnswered == Spec => []WholeAnswered
<1>1. WholeInv => WholeAnswered
  <2> SUFFICES ASSUME WholeInv, whole # None
               PROVE  /\ BadRequest \notin ToSet(http.sent)
                      /\ ~http.error /\ http.out = <<>> /\ http.conn = "CONNECTED" =>
                           Cardinality(Found) = whole
    BY DEF WholeAnswered
  <2>1. Answered(http, whole, taken)
    BY DEF WholeInv
  <2>2. BadRequest \notin ToSet(http.sent)
    BY <2>1 DEF Answered
  <2>3. ASSUME ~http.error, http.out = <<>>, http.conn = "CONNECTED"
        PROVE  Cardinality(Found) = whole
    <3> DEFINE n == Len(http.sent)
    <3>1. Twos(http.sent) /\ Len(http.sent) + Len(http.out) = whole
      BY <2>1, <2>3 DEF Answered
    <3>2. n \in Nat /\ DOMAIN http.sent = 1..n
      BY <3>1, SequenceLen DEF Twos
    <3>3. Found = 1..n
      BY <3>1, <3>2 DEF Found, Twos
    <3>4. n = whole
      <4>1. Len(http.sent) + 0 = whole
        BY <2>3, <3>1, TwosNone
      <4> HIDE DEF n
      <4>2. n + 0 = whole
        BY <4>1 DEF n
      <4> QED BY <3>2, <4>2
    <3> HIDE DEF n
    <3>5. Cardinality(1..n) = n
      BY <3>2, FS_Interval
    <3> QED BY <3>3, <3>4, <3>5
  <2> QED BY <2>2, <2>3
<1> QED BY StaysWhole, <1>1, PTL
=============================================================================
