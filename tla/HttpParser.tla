----------------------------- MODULE HttpParser -----------------------------
(***************************************************************************)
(* The parser of one connection (HttpData::handleRead and what it calls)   *)
(* over the byte stream of its client, which TCP delivers in pieces cut    *)
(* anywhere.  Reactor leaves the outcome of a parse open; this module says *)
(* what it is.                                                             *)
(*                                                                         *)
(* The stream is a sequence of tokens, the units the parser can tell       *)
(* apart: a method, a name, "1.1", a header key, or one separator each.    *)
(* The parser treats a cut inside a token like one at an end of it.  A     *)
(* position of the C++ text is one less than here, so that 0 stands for    *)
(* the -1 of an unset position and for npos.  One step is one pass of      *)
(* handleRead, recursion being a step of its own, or one handleWrite, with *)
(* the close of handleConn after error_.  keepAlive_, which only chooses   *)
(* a timeout, and HTTPVersion_, which nothing reads, are left out.         *)
(***************************************************************************)
EXTENDS Naturals, Sequences, SequencesExt, FiniteSets, ReadOutcome

CONSTANTS
  Names,        (* paths the clients ask for; "hello" is answered specially *)
  MaxRequests,  (* bound: requests in a stream                              *)
  MaxValue      (* longest header value (255 in the code), in tokens        *)

(* The path of the root, the slash alone, and the space. *)
Root  == ""
Blank == " "

(* A path that contains one of these is not among the Names: the parser     *)
(* looks for methods and separators anywhere in a line.                     *)
Delimiters == {"GET", "POST", "HEAD", "/", "?", Blank, ":", "CR", "LF"}

ASSUME ParserAssumption ==
  /\ MaxRequests \in Nat \ {0} /\ MaxValue \in Nat \ {0}
  /\ Names \cap (Delimiters \cup {"index.html"}) = {}

-----------------------------------------------------------------------------
(* What clients send: plain requests, requests with something special, and  *)
(* requests with Content-length and as many body tokens as it says; the     *)
(* length is always a number.                                               *)

Number == [n \in {"0", "1"} |-> IF n = "0" THEN 0 ELSE 1]

Get  == [method : {"GET", "HEAD"}, path : Names \cup {Root}, special : {"plain"}]
Odd  == [method : {"GET"}, path : {Root}, special : {"query", "no header", "two headers", "long"}]
Post == [method : {"POST"}, path : {Root}, special : {"plain"} \cup DOMAIN Number]

Line(r) ==
  <<r.method, "/">>
    \o (IF r.path = Root THEN <<>> ELSE <<r.path>>)
    \o (IF r.special = "query" THEN <<"f", "?", "q">> ELSE <<>>)
    \o <<Blank, "/", "1.1", "CR", "LF">>

Header(key, value) == <<key, ":", Blank>> \o value \o <<"CR", "LF">>

Headers(r) ==
  LET host == Header("Host", <<"v">>)
  IN  CASE r.special = "no header" -> <<>>
        [] r.special = "two headers" -> host \o Header("Accept", <<"v">>)
        [] r.special = "long" -> Header("Host", [i \in 1..(MaxValue + 2) |-> "v"])
        [] r.special \in DOMAIN Number -> Header("Content-length", <<r.special>>)
        [] OTHER -> host

Body(r) == IF r.special \in DOMAIN Number THEN [i \in 1..Number[r.special] |-> "b"] ELSE <<>>

Text(r) == Line(r) \o Headers(r) \o <<"CR", "LF">> \o Body(r)

-----------------------------------------------------------------------------
VARIABLES
  requests,  (* what the client sends over the life of the connection     *)
  taken,     (* tokens of the stream that have been read from the socket  *)
  http,      (* the HttpData, see InitHttp                                *)
  again,     (* handleRead is about to call itself                        *)
  whole      (* requests read so far while every cut was harmless; None   *)
             (* after one that was not                                    *)

vars == <<requests, taken, http, again, whole>>

None == MaxRequests + 1

(* out: answers in outBuffer_.  sent: answers handed to the socket.         *)
InitHttp ==
  [buf |-> <<>>, state |-> "URI", hState |-> "START", method |-> "GET", file |-> <<>>,
   headers |-> <<>>, out |-> <<>>, sent |-> <<>>, conn |-> "CONNECTED", error |-> FALSE]

Stream == FlattenSeq([k \in DOMAIN requests |-> Text(requests[k])])

(* The position in the stream before request k. *)
Start(k) == Len(FlattenSeq([j \in 1..(k - 1) |-> Text(requests[j])]))

Init ==
  /\ requests \in BoundedSeq(Get \cup Odd \cup Post, MaxRequests)
  /\ taken = 0 /\ http = InitHttp /\ again = FALSE /\ whole = 0

-----------------------------------------------------------------------------
(* HttpData::parseURI.  pos is unsigned, so that "pos < 0" holds never: a   *)
(* line without CR is taken for a whole one, and stays in inBuffer_.        *)

Find(s, t, from) == SelectInSubSeq(s, from, Len(s), LAMBDA u : u = t)

RequestLine(b) ==
  LET cr == Find(b, "CR", 1)
  IN  IF cr = 0 THEN [line |-> b, rest |-> b]
      ELSE [line |-> SubSeq(b, 1, cr - 1), rest |-> SubSeq(b, cr + 1, Len(b))]

MethodOf(line) ==
  IF Contains(line, "GET") THEN "GET"
  ELSE IF Contains(line, "POST") THEN "POST"
  ELSE IF Contains(line, "HEAD") THEN "HEAD" ELSE "none"

(* The name between the slash and the space, up to a question mark. *)
FileName(line, slash, space) ==
  LET name == SubSeq(line, slash + 1, space - 1)
      mark == Find(name, "?", 1)
  IN  IF name = <<>> THEN <<"index.html">>
      ELSE IF mark = 0 THEN name ELSE SubSeq(name, 1, mark - 1)

(* Mutant: error_ is not set. *)
HandleErrorSoftly(c, answer) == [c EXCEPT !.sent = Append(@, answer)]

HandleError(c, answer) == [c EXCEPT !.error = TRUE, !.sent = Append(@, answer)]
BadRequest == <<"400">>
NotFound   == <<"404">>

(* A line that lacks its slash or its space fails at the version. *)
ParseURI(c) ==
  LET r     == RequestLine(c.buf)
      m     == MethodOf(r.line)
      slash == Find(r.line, "/", Find(r.line, m, 1))
      space == Find(r.line, Blank, slash)
      v     == Find(r.line, "/", space)
      good  == /\ m # "none" /\ slash # 0 /\ space # 0 /\ v # 0
               /\ v < Len(r.line) /\ r.line[v + 1] \in {"1.0", "1.1"}
  IN  IF good
      THEN [c EXCEPT !.state = "HEADERS", !.buf = r.rest, !.method = m,
                     !.file = FileName(r.line, slash, space)]
      ELSE HandleError([c EXCEPT !.buf = <<>>], BadRequest)

-----------------------------------------------------------------------------
(* HttpData::parseHeaders: a scan of inBuffer_ from its start in the state  *)
(* hState_ that the previous read left, with the positions unset again.     *)

Scan(c) ==
  [hState |-> c.hState, keyStart |-> 0, keyEnd |-> 0, valueStart |-> 0, valueEnd |-> 0,
   lineBegin |-> 1, status |-> "more", headers |-> c.headers]

(* The text between two positions; at an unset one it starts with the byte  *)
(* before the buffer, whatever that is.                                     *)
Slice(s, from, to) == SubSeq(<<"junk">> \o s, from + 1, to)

NewLine == {"CR", "LF"}
Failed(p) == [p EXCEPT !.status = "error"]
GoTo(p, h) == [p EXCEPT !.hState = h]
GoIf(p, test, h) == IF test THEN GoTo(p, h) ELSE Failed(p)

InKey(p, i, t) ==
  IF t = ":" THEN GoIf([p EXCEPT !.keyEnd = i], i > p.keyStart, "COLON")
  ELSE IF t \in NewLine THEN Failed(p) ELSE p

InValue(p, i, t) ==
  IF t = "CR" THEN GoIf([p EXCEPT !.valueEnd = i], i > p.valueStart, "CR")
  ELSE IF i - p.valueStart > MaxValue THEN Failed(p) ELSE p

EndLine(p, s, i) ==
  LET key   == Slice(s, p.keyStart, p.keyEnd)
      value == Slice(s, p.valueStart, p.valueEnd)
  IN  [p EXCEPT !.hState = "LF", !.headers = (key :> value) @@ @, !.lineBegin = i]

(* One turn of the loop.  A token after the end is taken along with it. *)
ScanToken(p, s, i) ==
  LET t == s[i]
  IN  CASE p.hState = "START"  -> IF t \in NewLine THEN p
                                  ELSE [p EXCEPT !.hState = "KEY", !.keyStart = i, !.lineBegin = i]
        [] p.hState = "KEY"    -> InKey(p, i, t)
        [] p.hState = "COLON"  -> GoIf(p, t = Blank, "SPACES")
        [] p.hState = "SPACES" -> [p EXCEPT !.hState = "VALUE", !.valueStart = i]
        [] p.hState = "VALUE"  -> InValue(p, i, t)
        [] p.hState = "CR"     -> IF t = "LF" THEN EndLine(p, s, i) ELSE Failed(p)
        [] p.hState = "LF"     -> IF t = "CR" THEN GoTo(p, "END_CR")
                                  ELSE [p EXCEPT !.hState = "KEY", !.keyStart = i]
        [] p.hState = "END_CR" -> GoIf(p, t = "LF", "END_LF")
        [] p.hState = "END_LF" -> [p EXCEPT !.status = "done", !.lineBegin = i]

Turn(c, p, i) == IF p.status = "more" THEN ScanToken(p, c.buf, i) ELSE p

Scanned(c) ==
  LET scan[i \in 0..Len(c.buf)] == IF i = 0 THEN Scan(c) ELSE Turn(c, scan[i - 1], i)
  IN  scan[Len(c.buf)]

ParseHeaders(c) ==
  LET p    == Scanned(c)
      d    == [c EXCEPT !.hState = p.hState, !.headers = p.headers]
      From(i) == SubSeq(c.buf, i, Len(c.buf))
  IN  IF p.status = "error" THEN HandleError(d, BadRequest)
      ELSE IF p.hState = "END_LF"
      THEN [d EXCEPT !.state = IF c.method = "POST" THEN "BODY" ELSE "ANALYSIS",
                     !.buf = IF p.status = "done" THEN From(p.lineBegin + 1) ELSE <<>>]
      ELSE [d EXCEPT !.buf = From(p.lineBegin)]

-----------------------------------------------------------------------------
(* The rest of the do block of handleRead.                                  *)

Length == <<"Content-length">>

ReceiveBody(c) ==
  IF Length \notin DOMAIN c.headers THEN HandleError(c, BadRequest)
  ELSE IF Len(c.buf) < Number[c.headers[Length][1]] THEN c
  ELSE [c EXCEPT !.state = "ANALYSIS"]

(* HttpData::analysisRequest: a POST succeeds without an answer, hello      *)
(* replaces what was in outBuffer_, and a file may be missing (stat), or    *)
(* fail to open or to map, which also clears outBuffer_.                    *)
AnalysisRequest(c) ==
  LET answer  == <<c.method, c.file>>
      success == [c EXCEPT !.state = "FINISH"]
  IN  IF c.method = "POST" THEN {success}
      ELSE IF c.file = <<"hello">> THEN {[success EXCEPT !.out = <<answer>>]}
      ELSE {[success EXCEPT !.out = Append(@, answer)], HandleError(c, NotFound)}
           \cup (IF c.method = "GET" THEN {HandleError([c EXCEPT !.out = <<>>], NotFound)} ELSE {})

(* The stages, each entered in its state; a break leaves the state behind. *)
Parse(c) ==
  LET AtURI(d)      == IF d.state = "URI" THEN ParseURI(d) ELSE d
      AtHeaders(d)  == IF d.state = "HEADERS" THEN ParseHeaders(d) ELSE d
      AtBody(d)     == IF d.state = "BODY" THEN ReceiveBody(d) ELSE d
      AtAnalysis(d) == IF d.state = "ANALYSIS" THEN AnalysisRequest(d) ELSE {d}
  IN  AtAnalysis(AtBody(AtHeaders(AtURI(c))))

(* readn has appended text and ended with EAGAIN, at the end of the stream  *)
(* or with an error; the error is answered, and the parse goes on.          *)
ReadAndParse(c, text, end) ==
  LET d == [c EXCEPT !.buf = @ \o text]
  IN  IF c.conn = "DISCONNECTING" THEN {[d EXCEPT !.buf = <<>>]}
      ELSE CASE end = "EAGAIN" -> Parse(d)
             [] end = "error"  -> Parse(HandleError(d, BadRequest))
             [] end = "eof"    -> IF text = <<>> THEN {[d EXCEPT !.conn = "DISCONNECTING"]}
                                  ELSE Parse([d EXCEPT !.conn = "DISCONNECTING"])

(* HttpData::handleWrite with writen: all, a part, or an error.             *)
(* Mutant: what has been written stays in the buffer. *)
WritesKept(c) ==
  {[c EXCEPT !.error = TRUE]}
    \cup {[c EXCEPT !.sent = @ \o SubSeq(c.out, 1, k)] : k \in 0..Len(c.out)}

Writes(c) ==
  {[c EXCEPT !.error = TRUE]}
    \cup {[c EXCEPT !.sent = @ \o SubSeq(c.out, 1, k), !.out = SubSeq(@, k + 1, Len(@))] :
            k \in 0..Len(c.out)}

(* Mutant: the state of the header scan survives. *)
ResetKeepsScan(c) == [c EXCEPT !.file = <<>>, !.state = "URI", !.headers = <<>>]

Reset(c) == [c EXCEPT !.file = <<>>, !.state = "URI", !.hState = "START", !.headers = <<>>]

(* handleConn follows and closes a connection with error_ set; only what it *)
(* has sent is kept on record.                                              *)
Closed(c) == [InitHttp EXCEPT !.error = TRUE, !.sent = c.sent]

-----------------------------------------------------------------------------
(* Where a cut between two reads does no harm: between requests, and around *)
(* the LF of the request line.                                              *)
SafeCuts(k) == LET n == Start(k) + Len(Line(requests[k])) IN {n - 1, n, Start(k + 1)}

(* The requests the parser is made for: with a header, and without a body. *)
Plain(r) == r.method # "POST" /\ r.special \notin {"no header", "long"}

Counted(n, end) ==
  IF n = 0 /\ end # "error" THEN whole
  ELSE IF whole \in 0..(Len(requests) - 1) /\ Plain(requests[whole + 1])
          /\ taken + n \in SafeCuts(whole + 1) /\ end # "error"
  THEN IF taken + n = Start(whole + 2) THEN whole + 1 ELSE whole
  ELSE None

(* An event on the socket, or the call of handleRead by itself.  While      *)
(* output is pending the mask is EPOLLOUT alone (handleConn), save for a    *)
(* client that has shut down, whose old mask stays.                         *)
Reading(c) ==
  \/ again
  \/ c.conn = "CONNECTED" /\ c.out = <<>>
  \/ c.conn = "DISCONNECTING" /\ c.out # <<>>

HandleRead(n, text, end) ==
  /\ ~http.error /\ Reading(http)
  /\ n > 0 \/ end # "EAGAIN" \/ again
  /\ http.conn = "DISCONNECTING" => n = 0 /\ end # "EAGAIN"
  /\ \E c \in ReadAndParse(http, text, end) :
     \E d \in IF c.error \/ c.out = <<>> THEN {c} ELSE Writes(c) :
       LET finish == ~d.error /\ d.state = "FINISH"
       IN  /\ http' = IF d.error THEN Closed(d) ELSE IF finish THEN Reset(d) ELSE d
           /\ again' = (finish /\ d.buf # <<>> /\ d.conn # "DISCONNECTING")
  /\ taken' = taken + n
  /\ whole' = Counted(n, end)
  /\ UNCHANGED requests

HandleWrite ==
  /\ ~http.error /\ ~again /\ http.conn = "CONNECTED" /\ http.out # <<>>
  /\ \E c \in Writes(http) : http' = IF c.error THEN Closed(c) ELSE c
  /\ UNCHANGED <<requests, taken, again, whole>>

Next ==
  \/ LET left == SubSeq(Stream, taken + 1, Len(Stream))
     IN  \E n \in 0..Len(left), end \in {"EAGAIN", "eof", "error"} :
           HandleRead(n, SubSeq(left, 1, n), end)
  \/ HandleWrite

Spec == Init /\ [][Next]_vars

-----------------------------------------------------------------------------
(* The answer a request is to get; a POST gets none. *)
Answer(r) == <<r.method, IF r.special = "query" THEN <<"f">>
                         ELSE IF r.path = Root THEN <<"index.html">> ELSE <<r.path>> >>

(* The places of what was sent that hold an answer to a request.  The rest  *)
(* are reports of an error.                                                 *)
Found == {i \in DOMAIN http.sent : Len(http.sent[i]) = 2}

(* However the stream is cut, resumed and retried, the answers that are     *)
(* sent are to requests the client made, in their order, and none is sent   *)
(* twice (HttpData.cpp:167-279).  Some may be missing.                      *)
AnswersInOrder ==
  \E f \in [Found -> DOMAIN requests] :
    /\ \A i \in Found : requests[f[i]].method # "POST" /\ http.sent[i] = Answer(requests[f[i]])
    /\ \A i, j \in Found : i < j => f[i] < f[j]

(* While the reads end only where they do no harm, no plain request is      *)
(* rejected, and each has been answered once the connection is idle: the    *)
(* parser starts over for each as for the first (HttpData.cpp:144-156).     *)
WholeAnswered ==
  whole # None =>
    /\ BadRequest \notin ToSet(http.sent)
    /\ ~http.error /\ http.out = <<>> /\ http.conn = "CONNECTED" => Cardinality(Found) = whole

(* The fields of a connection that Reactor knows. *)
Seen(c) == [connectionState |-> c.conn, error |-> c.error, finish |-> c.state = "FINISH",
            more |-> c.state = "FINISH" /\ c.buf # <<>>, out |-> c.out # <<>>]

(* Reactor's account of the parser is complete: from every state, however   *)
(* much has arrived and whatever has become of the socket, handleRead does  *)
(* one of the things ReadOutcomes lists, and when it has set error_ the     *)
(* connection is closed, so that its buffers no longer count                *)
(* (HttpData.cpp:167-279).                                                  *)
OutcomesForeseen ==
  ~http.error /\ Reading(http) =>
    LET left == SubSeq(Stream, taken + 1, Len(Stream))
    IN  \A n \in 0..Len(left), end \in {"EAGAIN", "eof", "error"} :
          LET k == [inq |-> n > 0, fin |-> end = "eof", rst |-> end = "error"]
          IN  \A c \in ReadAndParse(http, SubSeq(left, 1, n), end) :
                \E e \in ReadOutcomes(Seen(http), k) :
                  IF c.error THEN e.error /\ e.connectionState = c.conn ELSE Seen(c) = e

(* "读到完整的请求行再开始解析请求" (HttpData.cpp:338): a request line is accepted   *)
(* only when its CR is among the tokens not yet parsed.                     *)
LineComplete ==
  [][http.state = "URI" /\ http'.state = "HEADERS" /\ ~http'.error
       => \E i \in (taken - Len(http.buf) + 1)..taken' : Stream[i] = "CR"]_vars
=============================================================================
