--------------------------- MODULE SocketIOProofs ---------------------------
(***************************************************************************)
(* Reactor may take readn and writen for atomic: SocketIO implements it,   *)
(* for any number of loops, descriptors and connections and any sizes of   *)
(* the buffers.  The loops of Util.cpp are invisible until their last      *)
(* system call, where the state they leave is one that Reactor allows.     *)
(* The bytes they move keep the promise of ByteStream in both directions.  *)
(***************************************************************************)
EXTENDS SocketIO, ReactorProofs, SequenceTheorems

IORecords == [sent: Nat, unread: Seq(Nat), inBuffer: Seq(Nat), readSum: Nat,
              made: Nat, outBuffer: Seq(Nat), writeSum: Nat, wire: Seq(Nat), room: Nat]

(* The flags of a socket k and of its HttpData c tell what is in the queues *)
(* and buffers b.                                                           *)
Agree(c, k, b) ==
  /\ b \in IORecords
  /\ b.readSum > 0 => k.inq
  /\ b.unread # <<>> /\ ~k.rst => k.inq
  /\ b.room > 0 => k.space
  /\ c.out <=> b.outBuffer # <<>>
  /\ b.writeSum = 0 \/ b.writeSum < Len(b.outBuffer)
  /\ c.life = "none" => b = NewIO

Agreed == /\ io \in [Https -> IORecords]
          /\ \A h \in Https : Agree(http[h], sock[h], io[h])

IOInv == IInv /\ Agreed
-----------------------------------------------------------------------------
(* Sequences of bytes. *)

LEMMA BytesType == ASSUME NEW a \in Nat, NEW n \in Nat PROVE Bytes(a, n) \in Seq(Nat)
<1>1. Bytes(a, n) \in [1..n -> Nat]
  BY DEF Bytes
<1> QED BY <1>1, SeqDef

(* The rest of a buffer after its first k bytes. *)
LEMMA Rest ==
  ASSUME NEW s \in Seq(Nat), NEW k \in Nat, k <= Len(s)
  PROVE  /\ SubSeq(s, k + 1, Len(s)) \in Seq(Nat)
         /\ Len(SubSeq(s, k + 1, Len(s))) = Len(s) - k
<1>1. Len(s) \in Nat /\ \A i \in k + 1..Len(s) : i \in 1..Len(s) /\ s[i] \in Nat
  BY LenProperties, ElementOfSeq
<1>2. /\ SubSeq(s, k + 1, Len(s)) \in Seq(Nat)
      /\ Len(SubSeq(s, k + 1, Len(s)))
           = (IF k + 1 <= Len(s) THEN Len(s) - (k + 1) + 1 ELSE 0)
  BY <1>1, SubSeqProperties
<1>3. (IF k + 1 <= Len(s) THEN Len(s) - (k + 1) + 1 ELSE 0) = Len(s) - k
  BY <1>1
<1> QED BY <1>2, <1>3

LEMMA Start ==
  ASSUME NEW s \in Seq(Nat), NEW k \in Nat, k <= Len(s)
  PROVE  SubSeq(s, 1, k) \in Seq(Nat)
<1>1. Len(s) \in Nat /\ \A i \in 1..k : i \in 1..Len(s) /\ s[i] \in Nat
  BY LenProperties, ElementOfSeq
<1> QED BY <1>1, SubSeqProperties

LEMMA Blank == NewIO \in IORecords
BY SocketIOAssumption DEF NewIO, IORecords
-----------------------------------------------------------------------------
(* What keeps Agree. *)

Kept(c, d) == d.out = c.out /\ (d.life = "none" => c.life = "none")
Grown(j, k) == (j.inq => k.inq) /\ (j.rst => k.rst) /\ (j.space => k.space)

LEMMA AgreeKept ==
  ASSUME NEW c, NEW d, NEW j, NEW k, NEW b, Agree(c, j, b), Kept(c, d), Grown(j, k)
  PROVE  Agree(d, k, b)
BY Zenon DEF Agree, Kept, Grown

LEMMA AgreeNew ==
  ASSUME NEW c, NEW k, ~c.out, k.space
  PROVE  Agree(c, k, NewIO)
BY Blank DEF Agree, NewIO

LEMMA SameAgree ==
  ASSUME Agreed, UNCHANGED io,
         \A h \in Https : Kept(http[h], http'[h]) /\ Grown(sock[h], sock'[h])
  PROVE  Agreed'
BY AgreeKept DEF Agreed

(* After a step that may destroy connections. *)
LEMMA ClearedAgree ==
  ASSUME Agreed, Cleared,
         \A h \in Https :
           \/ Kept(http[h], http'[h]) /\ Grown(sock[h], sock'[h])
           \/ http'[h].life = "none" /\ ~http'[h].out /\ sock'[h].space
  PROVE  Agreed'
<1>1. io' \in [Https -> IORecords]
  BY Blank DEF Agreed, Cleared
<1>2. ASSUME NEW h \in Https PROVE Agree(http'[h], sock'[h], io'[h])
  <2>1. CASE http'[h].life = "none"
    <3>1. io'[h] = NewIO
      BY <2>1 DEF Cleared
    <3>2. ~http'[h].out /\ sock'[h].space
      <4>1. ASSUME Kept(http[h], http'[h]), Grown(sock[h], sock'[h])
            PROVE  ~http'[h].out /\ sock'[h].space
        <5>1. Agree(http[h], sock[h], io[h]) /\ http[h].life = "none"
          BY <2>1, <4>1 DEF Agreed, Kept
        <5>2. io[h].outBuffer = <<>> /\ io[h].room > 0
          BY <5>1, SocketIOAssumption DEF Agree, NewIO
        <5> QED BY <4>1, <5>1, <5>2 DEF Agree, Kept, Grown
      <4> QED BY <4>1
    <3> QED BY <3>1, <3>2, AgreeNew
  <2>2. CASE http'[h].life # "none"
    <3>1. io'[h] = io[h]
      BY <2>2 DEF Cleared
    <3> QED BY <2>2, <3>1, AgreeKept DEF Agreed
  <2> QED BY <2>1, <2>2
<1> QED BY <1>1, <1>2 DEF Agreed

(* A step of one handler. *)
LEMMA OneAgree ==
  ASSUME IOInv, NEW h \in Https, NEW c, NEW k, NEW b, Agree(c, k, b),
         http' = [http EXCEPT ![h] = c], sock' = [sock EXCEPT ![h] = k],
         io' = [io EXCEPT ![h] = b]
  PROVE  Agreed'
<1>1. /\ http \in [Https -> HttpDatas] /\ sock \in [Https -> Socks]
      /\ io \in [Https -> IORecords] /\ b \in IORecords
  BY DEF IOInv, IInv, TypeOK, Agreed, Agree
<1>2. io' \in [Https -> IORecords]
  BY <1>1
<1>3. ASSUME NEW g \in Https PROVE Agree(http'[g], sock'[g], io'[g])
  <2>1. CASE g = h
    <3>1. http'[g] = c /\ sock'[g] = k /\ io'[g] = b
      BY <1>1, <2>1
    <3> QED BY <3>1
  <2>2. CASE g # h
    <3>1. http'[g] = http[g] /\ sock'[g] = sock[g] /\ io'[g] = io[g]
      BY <1>1, <2>2
    <3> QED BY <3>1 DEF IOInv, Agreed
  <2> QED BY <2>1, <2>2
<1> QED BY <1>2, <1>3 DEF Agreed
-----------------------------------------------------------------------------
(* The client. *)

LEMMA NotifyKeeps ==
  ASSUME NEW k \in Socks, NEW e
  PROVE  LET j == Notify(k, e) IN
         j.inq = k.inq /\ j.rst = k.rst /\ j.space = k.space
BY DEF Notify, Socks

LEMMA SendBytesStep ==
  ASSUME IOInv, NEW h \in Https, NEW n \in 1..MaxSent, SendBytes(h, n)
  PROVE  Next /\ Agreed'
<1>1. Next
  BY DEF SendBytes, Next, Client
<1> DEFINE k == Notify([sock[h] EXCEPT !.inq = TRUE], "IN")
           b == [io[h] EXCEPT !.sent = @ + n, !.unread = @ \o Bytes(io[h].sent, n)]
<1>2. /\ http \in [Https -> HttpDatas] /\ sock[h] \in Socks /\ io[h] \in IORecords
      /\ Agree(http[h], sock[h], io[h])
  BY DEF IOInv, IInv, TypeOK, Agreed
<1>3. /\ http[h].life # "none" /\ http' = http
      /\ sock' = [sock EXCEPT ![h] = k] /\ io' = [io EXCEPT ![h] = b]
  BY DEF SendBytes, Send, ClientStep, Open
<1>4. k.inq /\ k.rst = sock[h].rst /\ k.space = sock[h].space
  <2>1. [sock[h] EXCEPT !.inq = TRUE] \in Socks
    BY <1>2 DEF Socks
  <2> QED BY <1>2, <2>1, NotifyKeeps DEF Socks
<1>5. n \in Nat /\ Bytes(io[h].sent, n) \in Seq(Nat)
  <2>1. n \in Nat /\ io[h].sent \in Nat
    BY <1>2, SocketIOAssumption DEF IORecords
  <2> QED BY <2>1, BytesType
<1>6. b \in IORecords
  <2>1. io[h].unread \o Bytes(io[h].sent, n) \in Seq(Nat)
    BY <1>2, <1>5, ConcatProperties DEF IORecords
  <2>2. io[h].sent + n \in Nat
    BY <1>2, <1>5, SMTT(40) DEF IORecords
  <2> HIDE DEF k
  <2> QED BY <1>2, <2>1, <2>2 DEF IORecords
<1>7. /\ b.readSum = io[h].readSum /\ b.room = io[h].room
      /\ b.outBuffer = io[h].outBuffer /\ b.writeSum = io[h].writeSum
  BY <1>2 DEF IORecords
<1> HIDE DEF k, b
<1>8. Agree(http[h], k, b)
  BY <1>2, <1>3, <1>4, <1>6, <1>7 DEF Agree
<1>9. http' = [http EXCEPT ![h] = http[h]]
  BY <1>2, <1>3
<1> QED BY <1>1, <1>3, <1>8, <1>9, OneAgree

LEMMA ReadBytesStep ==
  ASSUME IOInv, NEW h \in Https, NEW n \in 1..SendBuffer, ReadBytes(h, n)
  PROVE  (Next \/ UNCHANGED vars) /\ Agreed'
<1>1. Next \/ UNCHANGED vars
  BY DEF ReadBytes, Next, Client
<1> DEFINE b == [io[h] EXCEPT !.room = @ + n]
<1>2. /\ http \in [Https -> HttpDatas] /\ sock \in [Https -> Socks] /\ sock[h] \in Socks
      /\ io[h] \in IORecords /\ Agree(http[h], sock[h], io[h])
  BY DEF IOInv, IInv, TypeOK, Agreed
<1>3. http[h].life # "none" /\ http' = http /\ io' = [io EXCEPT ![h] = b]
  BY DEF ReadBytes, Drain, ClientStep, Open, vars
<1>4. PICK k : /\ sock' = [sock EXCEPT ![h] = k] /\ k.space
               /\ k.inq = sock[h].inq /\ k.rst = sock[h].rst
  <2>1. CASE Drain(h)
    <3> DEFINE j == [sock[h] EXCEPT !.space = TRUE]
    <3>1. j \in Socks /\ j.space /\ j.inq = sock[h].inq /\ j.rst = sock[h].rst
      BY <1>2 DEF Socks
    <3>2. sock' = [sock EXCEPT ![h] = Notify(j, "OUT")]
      BY <2>1 DEF Drain, ClientStep
    <3> HIDE DEF j
    <3>3. LET k == Notify(j, "OUT")
          IN  k.space /\ k.inq = sock[h].inq /\ k.rst = sock[h].rst
      BY <3>1, NotifyKeeps
    <3> QED BY <3>2, <3>3
  <2>2. CASE sock[h].space /\ UNCHANGED vars
    <3>1. sock' = [sock EXCEPT ![h] = sock[h]]
      BY <1>2, <2>2 DEF vars
    <3> QED BY <2>2, <3>1
  <2> QED BY <2>1, <2>2 DEF ReadBytes
<1>5. b \in IORecords
  <2>1. io[h].room + n \in Nat
    BY <1>2, SocketIOAssumption DEF IORecords
  <2> QED BY <1>2, <2>1 DEF IORecords
<1>6. /\ b.readSum = io[h].readSum /\ b.unread = io[h].unread
      /\ b.outBuffer = io[h].outBuffer /\ b.writeSum = io[h].writeSum
  BY <1>2 DEF IORecords
<1> HIDE DEF b
<1>7. Agree(http[h], k, b)
  BY <1>2, <1>3, <1>4, <1>5, <1>6 DEF Agree
<1>8. http' = [http EXCEPT ![h] = http[h]]
  BY <1>2, <1>3
<1> QED BY <1>1, <1>3, <1>4, <1>7, <1>8, OneAgree

LEMMA HangupStep ==
  ASSUME IOInv, NEW h \in Https, Hangup(h)
  PROVE  Next /\ Agreed'
<1>1. Next
  BY DEF Hangup, Next, Client
<1>2. sock \in [Https -> Socks] /\ http' = http /\ io' = io
  BY DEF IOInv, IInv, TypeOK, Hangup, ShutdownWrite, Reset, ClientStep
<1>3. PICK j, e :
        /\ j \in Socks /\ sock' = [sock EXCEPT ![h] = Notify(j, e)]
        /\ j.inq = sock[h].inq /\ j.space = sock[h].space /\ (sock[h].rst => j.rst)
  <2>1. CASE ShutdownWrite(h)
    <3> DEFINE j == [sock[h] EXCEPT !.fin = TRUE]
    <3>1. /\ j \in Socks /\ j.inq = sock[h].inq /\ j.space = sock[h].space
          /\ j.rst = sock[h].rst
      BY <1>2 DEF Socks
    <3>2. sock' = [sock EXCEPT ![h] = Notify(j, "IN")]
      BY <2>1 DEF ShutdownWrite, ClientStep
    <3> HIDE DEF j
    <3> QED BY <3>1, <3>2
  <2>2. CASE Reset(h)
    <3> DEFINE j == [sock[h] EXCEPT !.rst = TRUE]
    <3>1. j \in Socks /\ j.inq = sock[h].inq /\ j.space = sock[h].space /\ j.rst
      BY <1>2 DEF Socks
    <3>2. sock' = [sock EXCEPT ![h] = Notify(j, "ERR")]
      BY <2>2 DEF Reset, ClientStep
    <3> HIDE DEF j
    <3> QED BY <3>1, <3>2
  <2> QED BY <2>1, <2>2 DEF Hangup
<1>4. ASSUME NEW g \in Https PROVE Grown(sock[g], sock'[g])
  <2>1. CASE g = h
    <3>1. sock'[g] = Notify(j, e)
      BY <1>2, <1>3, <2>1
    <3> QED BY <1>3, <2>1, <3>1, NotifyKeeps DEF Grown
  <2>2. CASE g # h
    BY <1>2, <1>3, <2>2 DEF Grown
  <2> QED BY <2>1, <2>2
<1> QED BY <1>1, <1>2, <1>4, SameAgree DEF IOInv, Kept
-----------------------------------------------------------------------------
(* readn. *)

LEMMA ReadSomeStep ==
  ASSUME IOInv, NEW l \in Loops, NEW h \in Https, ReadSome(l, h)
  PROVE  UNCHANGED vars /\ Agreed'
<1> DEFINE nread == Least(MAX_BUFF, Len(io[h].unread))
           b == [io[h] EXCEPT !.unread = SubSeq(@, nread + 1, Len(@)),
                              !.inBuffer = @ \o SubSeq(io[h].unread, 1, nread),
                              !.readSum = @ + nread]
<1>1. /\ http \in [Https -> HttpDatas] /\ sock \in [Https -> Socks]
      /\ io[h] \in IORecords /\ Agree(http[h], sock[h], io[h])
  BY DEF IOInv, IInv, TypeOK, Agreed
<1>2. /\ cur[l] = h /\ ~sock[h].rst /\ io[h].unread # <<>>
      /\ io' = [io EXCEPT ![h] = b] /\ UNCHANGED vars
  BY DEF ReadSome, Reading
<1>3. nread \in Nat /\ nread <= Len(io[h].unread)
  <2>1. Len(io[h].unread) \in Nat
    BY <1>1, LenProperties DEF IORecords
  <2> QED BY <2>1, SocketIOAssumption DEF Least
<1> HIDE DEF nread
<1>4. b \in IORecords
  <2>1. /\ SubSeq(io[h].unread, nread + 1, Len(io[h].unread)) \in Seq(Nat)
        /\ SubSeq(io[h].unread, 1, nread) \in Seq(Nat)
    BY <1>1, <1>3, Rest, Start DEF IORecords
  <2>2. io[h].inBuffer \o SubSeq(io[h].unread, 1, nread) \in Seq(Nat)
    BY <1>1, <2>1, ConcatProperties DEF IORecords
  <2>3. io[h].readSum + nread \in Nat
    BY <1>1, <1>3 DEF IORecords
  <2> QED BY <1>1, <2>1, <2>2, <2>3 DEF IORecords
<1>5. /\ b.room = io[h].room /\ b.outBuffer = io[h].outBuffer
      /\ b.writeSum = io[h].writeSum
  BY <1>1 DEF IORecords
<1>6. sock[h].inq /\ http[h].life # "none"
  BY <1>1, <1>2, InHand DEF Agree, IOInv
<1> HIDE DEF b
<1>7. Agree(http[h], sock[h], b)
  BY <1>1, <1>4, <1>5, <1>6 DEF Agree
<1>8. http' = [http EXCEPT ![h] = http[h]] /\ sock' = [sock EXCEPT ![h] = sock[h]]
  BY <1>1, <1>2 DEF vars
<1> QED BY <1>2, <1>7, <1>8, OneAgree

(* What the buffers look like after a pass. *)
LEMMA AnsweredType ==
  ASSUME NEW h \in Https, NEW keep \in BOOLEAN, NEW n \in 0 .. MaxMade - io[h].made,
         io[h] \in IORecords
  PROVE  LET b == Answered(h, keep, n) IN
         /\ b \in IORecords /\ b.readSum = 0 /\ b.writeSum = 0
         /\ b.unread = io[h].unread /\ b.room = io[h].room
<1> DEFINE new == (IF keep THEN io[h].outBuffer ELSE <<>>) \o Bytes(io[h].made, n)
<1>0. io[h].made \in Nat /\ MaxMade \in Nat
  BY SocketIOAssumption DEF IORecords
<1>1. n \in Nat /\ io[h].made \in Nat /\ io[h].made + n \in Nat
  <2> HIDE DEF new
  <2> DEFINE m == io[h].made
  <2>1. m \in Nat /\ n \in 0 .. MaxMade - m
    BY <1>0
  <2> HIDE DEF m
  <2>2. n \in Nat /\ m + n \in Nat
    BY <2>1, <1>0
  <2> QED BY <2>1, <2>2 DEF m
<1>2. new \in Seq(Nat)
  <2>1. Bytes(io[h].made, n) \in Seq(Nat)
    BY <1>1, BytesType
  <2>2. (IF keep THEN io[h].outBuffer ELSE <<>>) \in Seq(Nat)
    BY EmptySeq DEF IORecords
  <2> QED BY <2>1, <2>2, ConcatProperties
<1> DEFINE b == [io[h] EXCEPT !.readSum = 0, !.writeSum = 0, !.made = @ + n, !.outBuffer = new]
<1>3. Answered(h, keep, n) = b
  BY DEF Answered
<1> HIDE DEF new
<1>4. b \in IORecords
  BY <1>1, <1>2 DEF IORecords
<1>5. b.readSum = 0 /\ b.writeSum = 0 /\ b.unread = io[h].unread /\ b.room = io[h].room
  BY DEF IORecords
<1> HIDE DEF b
<1> QED BY <1>3, <1>4, <1>5

LEMMA NotedType ==
  ASSUME NEW h \in Https, NEW b \in IORecords, NEW p \in Noted(h, b)
  PROVE  /\ p \in IORecords /\ p.outBuffer = b.outBuffer
         /\ p.readSum = b.readSum /\ p.writeSum = b.writeSum
         /\ p.unread = b.unread /\ (p.room > 0 => b.room > 0)
<1>1. CASE p = b
  BY <1>1
<1>2. CASE p # b
  <2>1. b.room # 0 /\ p = [b EXCEPT !.wire = Append(@, Page), !.room = @ - 1]
    BY <1>2 DEF Noted
  <2>2. b.room \in Nat /\ b.room - 1 \in Nat /\ b.room > 0
    BY <2>1 DEF IORecords
  <2>3. Append(b.wire, Page) \in Seq(Nat)
    BY AppendProperties DEF IORecords, Page
  <2> QED BY <2>1, <2>2, <2>3 DEF IORecords
<1> QED BY <1>1, <1>2

(* The bytes read are what the handler finds in the socket. *)
LEMMA SameOutcomes ==
  ASSUME NEW k \in Socks, NEW c, NEW q \in BOOLEAN, q => k.inq
  PROVE  ReadOutcomes(c, [Drained(k) EXCEPT !.inq = q]) \subseteq ReadOutcomes(c, k)
<1> DEFINE j == [Drained(k) EXCEPT !.inq = q]
<1>1. j.inq = q /\ j.fin = k.fin /\ j.rst = k.rst
  BY DEF Drained, Socks
<1> HIDE DEF j
<1>2. ReadOutcomes(c, j) \subseteq ReadOutcomes(c, k)
  BY <1>1 DEF ReadOutcomes, ParseAgain
<1> QED BY <1>2 DEF j

LEMMA ReadEndStep ==
  ASSUME IOInv, NEW l \in Loops, NEW h \in Https, ReadEnd(l, h)
  PROVE  HandleRead(l, h) /\ Agreed'
<1> DEFINE k == [sock[h] EXCEPT !.inq = ~sock[h].rst /\ io[h].unread # <<>>]
           q == io[h].readSum > 0
<1>1. /\ cur[l] = h /\ (sock[h].rst \/ io[h].unread = <<>>) /\ Parsed(l, h, k)
  BY DEF ReadEnd, Reading
<1>2. /\ http[h] \in HttpDatas /\ sock[h] \in Socks /\ http[h].life = "live"
      /\ http[h].connectionState # "DISCONNECTED" /\ Linked(http[h])
  BY <1>1, InHand DEF IOInv
<1>3. io[h] \in IORecords /\ Agree(http[h], sock[h], io[h])
  BY DEF IOInv, Agreed
<1>4. k = Drained(sock[h])
  BY <1>1, <1>2 DEF Drained
<1>5. k.inq = FALSE /\ k.rst = sock[h].rst /\ k.space = sock[h].space
  BY <1>2, <1>4 DEF Drained, Socks
<1> HIDE DEF k
<1>6. PICK c \in ReadOutcomes(http[h], [k EXCEPT !.inq = q]) :
        /\ HandleReadTo(l, h, c, k)
        /\ \E keep \in BOOLEAN, n \in 0 .. MaxMade - io[h].made :
           LET b == Answered(h, keep, n)
           IN  /\ Answers(h, c, b)
               /\ \E p \in IF c.error THEN Noted(h, b) ELSE {b} : io' = [io EXCEPT ![h] = p]
  BY <1>1 DEF Parsed
<1>7. PICK keep \in BOOLEAN, n \in 0 .. MaxMade - io[h].made :
        LET b == Answered(h, keep, n)
        IN  /\ Answers(h, c, b)
            /\ \E p \in IF c.error THEN Noted(h, b) ELSE {b} : io' = [io EXCEPT ![h] = p]
  BY <1>6
<1> DEFINE b == Answered(h, keep, n)
<1>7a. PICK p \in IF c.error THEN Noted(h, b) ELSE {b} : io' = [io EXCEPT ![h] = p]
  BY <1>7
<1>8. c \in ReadOutcomes(http[h], sock[h])
  <2>1. q \in BOOLEAN /\ (q => sock[h].inq)
    BY <1>3 DEF Agree
  <2> HIDE DEF q
  <2>2. ReadOutcomes(http[h], [Drained(sock[h]) EXCEPT !.inq = q])
          \subseteq ReadOutcomes(http[h], sock[h])
    BY <1>2, <2>1, SameOutcomes
  <2> QED BY <1>4, <2>2
<1>9. HandleRead(l, h)
  BY <1>4, <1>6, <1>8 DEF HandleRead
<1>10. c.life = "live"
  BY <1>2, <1>8, ReadType DEF Continues
<1>11. /\ b \in IORecords /\ (c.out <=> b.outBuffer # <<>>)
       /\ b.readSum = 0 /\ b.writeSum = 0
       /\ b.unread = io[h].unread /\ b.room = io[h].room
  BY <1>3, <1>7, AnsweredType DEF Answers
<1> HIDE DEF b
<1>12. /\ p \in IORecords /\ p.outBuffer = b.outBuffer
       /\ p.readSum = b.readSum /\ p.writeSum = b.writeSum
       /\ p.unread = b.unread /\ (p.room > 0 => b.room > 0)
  BY <1>11, <1>7a, NotedType
<1>13. Agree(c, k, p)
  BY <1>1, <1>3, <1>5, <1>10, <1>11, <1>12 DEF Agree
<1>14. http' = [http EXCEPT ![h] = c] /\ sock' = [sock EXCEPT ![h] = k]
  BY <1>6 DEF HandleReadTo
<1> QED BY <1>9, <1>13, <1>14, <1>7a, OneAgree
-----------------------------------------------------------------------------
(* writen. *)

LEMMA SeparatedOut ==
  ASSUME NEW c \in HttpDatas
  PROVE  SeperateTimer(c).out = c.out
BY DEF SeperateTimer, HttpDatas

(* What the end of handleRead or a handleWrite leaves of a connection.      *)
LEMMA WriteEnd ==
  ASSUME IInv, NEW l \in Loops, NEW h \in Https, NEW w \in Writes,
         FinishReadWith(l, h, w) \/ HandleWriteWith(l, h, w)
  PROVE  \E c, k :
           /\ http' = [http EXCEPT ![h] = c] /\ sock' = [sock EXCEPT ![h] = k]
           /\ c.life # "none"
           /\ k.inq = sock[h].inq /\ k.rst = sock[h].rst
           /\ IF Writing(l, h) THEN c.out = w.out /\ k.space = w.space
              ELSE c.out = http[h].out /\ k.space \in {sock[h].space, w.space}
<1>1. /\ http \in [Https -> HttpDatas] /\ sock \in [Https -> Socks] /\ cur[l] = h
      /\ http[h] \in HttpDatas /\ sock[h] \in Socks
      /\ http[h].life = "live" /\ Linked(http[h])
  <2>1. cur[l] = h
    BY DEF FinishReadWith, HandleWriteWith
  <2> QED BY <2>1, InHand DEF IInv, TypeOK
<1> DEFINE d == WriteTo(http[h], w)
           full == [sock[h] EXCEPT !.space = w.space]
<1>2. /\ d \in HttpDatas /\ d.life = "live" /\ Linked(d)
      /\ d.out = IF Skips(http[h]) THEN http[h].out ELSE w.out
  <2>1. d \in HttpDatas /\ d.life = "live" /\ Linked(d)
    BY <1>1, WriteType DEF Linked
  <2>2. d.out = IF Skips(http[h]) THEN http[h].out ELSE w.out
    BY <1>1 DEF WriteTo, HttpDatas
  <2> QED BY <2>1, <2>2
<1>3. full.inq = sock[h].inq /\ full.rst = sock[h].rst /\ full.space = w.space
  BY <1>1 DEF Socks
<1>4. sock = [sock EXCEPT ![h] = sock[h]]
  BY <1>1
<1>5. [sock EXCEPT ![h].space = w.space] = [sock EXCEPT ![h] = full]
  BY <1>1
<1> HIDE DEF d, full
<1>6. CASE FinishReadWith(l, h, w)
  <2> DEFINE c == IF http[h].out THEN d ELSE http[h]
             e == IF c.error THEN c
                  ELSE IF c.finish THEN ResetHttp(c)
                  ELSE IF c.connectionState # "DISCONNECTED"
                       THEN [c EXCEPT !.events = @ \cup {"IN"}] ELSE c
             k == IF http[h].out THEN full ELSE sock[h]
  <2>1. /\ phase[l] = "tail" /\ http' = [http EXCEPT ![h] = e]
        /\ sock' = IF http[h].out THEN [sock EXCEPT ![h].space = w.space] ELSE sock
    BY <1>6 DEF FinishReadWith, d
  <2>2. sock' = [sock EXCEPT ![h] = k]
    BY <1>4, <1>5, <2>1
  <2>3. c \in HttpDatas /\ c.life = "live" /\ Linked(c)
    BY <1>1, <1>2
  <2>4. c.out = IF http[h].out /\ ~Skips(http[h]) THEN w.out ELSE http[h].out
    BY <1>2
  <2> HIDE DEF c
  <2>5. e.life = "live" /\ e.out = c.out
    <3>1. ResetHttp(c).life = "live" /\ ResetHttp(c).out = c.out
      <4> DEFINE r == [c EXCEPT !.finish = FALSE]
      <4>1. r \in HttpDatas /\ Linked(r) /\ r.life = "live" /\ r.out = c.out
        BY <2>3 DEF HttpDatas, Linked
      <4> HIDE DEF r
      <4>2. SeperateTimer(r).life = "live" /\ SeperateTimer(r).out = c.out
        BY <4>1, Separated, SeparatedOut
      <4> QED BY <4>2 DEF ResetHttp, r
    <3>2. LET x == [c EXCEPT !.events = @ \cup {"IN"}] IN x.life = "live" /\ x.out = c.out
      BY <2>3 DEF HttpDatas
    <3> QED BY <2>3, <3>1, <3>2
  <2> HIDE DEF e
  <2>6. Writing(l, h) <=> ~Skips(http[h]) /\ http[h].out
    BY <1>1, <2>1 DEF Writing
  <2>7. /\ k.inq = sock[h].inq /\ k.rst = sock[h].rst
        /\ k.space = IF http[h].out THEN w.space ELSE sock[h].space
    BY <1>3
  <2> HIDE DEF k
  <2>8. IF Writing(l, h) THEN e.out = w.out /\ k.space = w.space
        ELSE e.out = http[h].out /\ k.space \in {sock[h].space, w.space}
    BY <2>4, <2>5, <2>6, <2>7
  <2>9. http' = [http EXCEPT ![h] = e] /\ e.life # "none"
    BY <2>1, <2>5
  <2> QED BY <2>2, <2>7, <2>8, <2>9
<1>7. CASE HandleWriteWith(l, h, w)
  <2> DEFINE k == IF Skips(http[h]) THEN sock[h] ELSE full
  <2>1. /\ phase[l] = "write" /\ http' = [http EXCEPT ![h] = d]
        /\ sock' = IF Skips(http[h]) THEN sock ELSE [sock EXCEPT ![h].space = w.space]
    BY <1>7 DEF HandleWriteWith, d
  <2>2. sock' = [sock EXCEPT ![h] = k]
    BY <1>4, <1>5, <2>1
  <2>3. Writing(l, h) <=> ~Skips(http[h])
    BY <1>1, <2>1 DEF Writing
  <2>4. /\ k.inq = sock[h].inq /\ k.rst = sock[h].rst
        /\ k.space = IF Skips(http[h]) THEN sock[h].space ELSE w.space
    BY <1>3
  <2> HIDE DEF k
  <2> QED BY <1>2, <2>1, <2>2, <2>3, <2>4
<1> QED BY <1>6, <1>7

LEMMA ReturnAgree ==
  ASSUME IOInv, NEW l \in Loops, NEW h \in Https, NEW w \in Writes, NEW b \in IORecords,
         Return(l, h, b, w),
         b.readSum = io[h].readSum, b.unread = io[h].unread,
         b.room > 0 => sock[h].space /\ w.space,
         IF Writing(l, h) THEN w.out <=> b.outBuffer # <<>>
                          ELSE b.outBuffer = io[h].outBuffer,
         b.writeSum = 0 \/ b.writeSum < Len(b.outBuffer)
  PROVE  Agreed'
<1>1. Agree(http[h], sock[h], io[h])
  BY DEF IOInv, Agreed
<1>2. /\ FinishReadWith(l, h, w) \/ HandleWriteWith(l, h, w)
      /\ io' = [io EXCEPT ![h] = b] /\ IInv
  BY DEF Return, IOInv
<1>3. PICK c, k :
        /\ http' = [http EXCEPT ![h] = c] /\ sock' = [sock EXCEPT ![h] = k]
        /\ c.life # "none"
        /\ k.inq = sock[h].inq /\ k.rst = sock[h].rst
        /\ IF Writing(l, h) THEN c.out = w.out /\ k.space = w.space
           ELSE c.out = http[h].out /\ k.space \in {sock[h].space, w.space}
  BY <1>2, WriteEnd
<1>4. b.room > 0 => k.space
  BY <1>3
<1>5. c.out <=> b.outBuffer # <<>>
  BY <1>1, <1>3 DEF Agree
<1>6. Agree(c, k, b)
  BY <1>1, <1>3, <1>4, <1>5 DEF Agree
<1> QED BY <1>2, <1>3, <1>6, OneAgree

(* A return that writen allows is a step of Reactor. *)
LEMMA ReturnNext ==
  ASSUME NEW l \in Loops, NEW h \in Https, NEW w \in Writen(sock[h], http[h].out), NEW b,
         Return(l, h, b, w)
  PROVE  Next
BY DEF Return, Next, LoopStep, FinishRead, HandleWrite

LEMMA TakenType ==
  ASSUME NEW h \in Https, io[h] \in IORecords, io[h].writeSum <= Len(io[h].outBuffer),
         NEW n \in Nat, n <= Len(Left(h)), n <= io[h].room
  PROVE  /\ Taken(h, n) \in IORecords
         /\ Taken(h, n).outBuffer = io[h].outBuffer
         /\ Taken(h, n).writeSum = io[h].writeSum + n
         /\ Taken(h, n).room = io[h].room - n
         /\ Taken(h, n).readSum = io[h].readSum /\ Taken(h, n).unread = io[h].unread
<1>1. Left(h) \in Seq(Nat)
  BY Rest DEF Left, IORecords
<1>2. io[h].wire \o SubSeq(Left(h), 1, n) \in Seq(Nat)
  <2>1. SubSeq(Left(h), 1, n) \in Seq(Nat)
    BY <1>1, Start
  <2> QED BY <2>1, ConcatProperties DEF IORecords
<1>3. io[h].writeSum + n \in Nat /\ io[h].room - n \in Nat
  BY SMTT(40) DEF IORecords
<1> QED BY <1>2, <1>3 DEF Taken, IORecords

LEMMA TrimType ==
  ASSUME NEW b \in IORecords, b.writeSum <= Len(b.outBuffer)
  PROVE  /\ Trim(b) \in IORecords /\ Trim(b).writeSum = 0
         /\ Trim(b).outBuffer = <<>> <=> b.writeSum = Len(b.outBuffer)
         /\ Trim(b).room = b.room
         /\ Trim(b).readSum = b.readSum /\ Trim(b).unread = b.unread
<1> DEFINE left == SubSeq(b.outBuffer, b.writeSum + 1, Len(b.outBuffer))
<1>1. left \in Seq(Nat) /\ Len(left) = Len(b.outBuffer) - b.writeSum
  BY Rest DEF IORecords
<1>2. left = <<>> <=> Len(left) = 0
  BY <1>1, EmptySeq
<1>3. Len(b.outBuffer) \in Nat /\ b.writeSum \in Nat
  BY LenProperties DEF IORecords
<1>4. left = <<>> <=> b.writeSum = Len(b.outBuffer)
  BY <1>1, <1>2, <1>3
<1>5. Trim(b) = [b EXCEPT !.outBuffer = left, !.writeSum = 0]
  BY DEF Trim
<1> HIDE DEF left
<1>6. Trim(b) \in IORecords
  <2>1. left \in Seq(Nat) /\ 0 \in Nat
    BY <1>1
  <2>2. [b EXCEPT !.outBuffer = left, !.writeSum = 0] \in IORecords
    BY <2>1 DEF IORecords
  <2> QED BY <1>5, <2>2
<1>7. /\ Trim(b).outBuffer = left /\ Trim(b).writeSum = 0 /\ Trim(b).room = b.room
      /\ Trim(b).readSum = b.readSum /\ Trim(b).unread = b.unread
  BY <1>5 DEF IORecords
<1> QED BY <1>4, <1>6, <1>7

(* An outcome that Writen allows when the socket takes bytes. *)
LEMMA Allowed ==
  ASSUME NEW k \in Socks, NEW o \in BOOLEAN, NEW s \in BOOLEAN,
         ~k.rst, IF k.space THEN o => ~s ELSE o /\ ~s
  PROVE  /\ [out |-> o, error |-> FALSE, space |-> s] \in Writes
         /\ [out |-> o, error |-> FALSE, space |-> s] \in Writen(k, TRUE)
<1> DEFINE w == [out |-> o, error |-> FALSE, space |-> s]
<1>1. w \in Writes
  BY DEF Writes
<1>2. w.out = o /\ w.space = s /\ w.error = FALSE
  OBVIOUS
<1> HIDE DEF w
<1>3. w \in Writen(k, TRUE)
  BY <1>1, <1>2 DEF Writen
<1> QED BY <1>1, <1>3 DEF w

LEMMA AllowedOutcome ==
  ASSUME NEW k \in Socks, NEW b, ~k.rst,
         IF k.space THEN b.outBuffer # <<>> => ~(b.room > 0)
                    ELSE b.outBuffer # <<>> /\ ~(b.room > 0)
  PROVE  /\ Outcome(b) \in Writes /\ Outcome(b) \in Writen(k, TRUE)
         /\ Outcome(b).out <=> b.outBuffer # <<>>
         /\ Outcome(b).space <=> b.room > 0
<1> DEFINE o == b.outBuffer # <<>>
           s == b.room > 0
           w == [out |-> o, error |-> FALSE, space |-> s]
<1>1. o \in BOOLEAN /\ s \in BOOLEAN
  <2>1. s \in BOOLEAN
    BY SMT
  <2> HIDE DEF s, w
  <2>2. o \in BOOLEAN
    BY Zenon
  <2> QED BY <2>1, <2>2
<1>5. IF k.space THEN o => ~s ELSE o /\ ~s
  OBVIOUS
<1>2. Outcome(b) = w
  BY DEF Outcome
<1>3. (w.out <=> o) /\ (w.space <=> s)
  BY Zenon
<1> HIDE DEF o, s
<1>4. w \in Writes /\ w \in Writen(k, TRUE)
  BY <1>1, <1>5, Allowed
<1> HIDE DEF w
<1> QED BY <1>2, <1>3, <1>4 DEF o, s

(* What writen finds. *)
LEMMA BeforeWrite ==
  ASSUME IOInv, NEW l \in Loops, NEW h \in Https, cur[l] = h
  PROVE  /\ io[h] \in IORecords /\ sock[h] \in Socks
         /\ http[h].life = "live" /\ http[h].out \in BOOLEAN
         /\ io[h].room > 0 => sock[h].space
         /\ io[h].room \in Nat /\ io[h].writeSum \in Nat /\ Len(io[h].outBuffer) \in Nat
         /\ io[h].writeSum <= Len(io[h].outBuffer)
         /\ io[h].writeSum = 0 \/ io[h].writeSum < Len(io[h].outBuffer)
         /\ Len(Left(h)) = Len(io[h].outBuffer) - io[h].writeSum
         /\ Left(h) = <<>> <=> Len(Left(h)) = 0
         /\ io[h].outBuffer = <<>> <=> Len(io[h].outBuffer) = 0
         /\ http[h].out <=> io[h].outBuffer # <<>>
<1>1. /\ http[h] \in HttpDatas /\ sock[h] \in Socks /\ http[h].life = "live"
      /\ io[h] \in IORecords /\ Agree(http[h], sock[h], io[h])
  BY InHand DEF IOInv, Agreed
<1>2. /\ io[h].room \in Nat /\ io[h].writeSum \in Nat /\ io[h].outBuffer \in Seq(Nat)
      /\ Len(io[h].outBuffer) \in Nat
  BY <1>1, LenProperties DEF IORecords
<1>3. io[h].writeSum <= Len(io[h].outBuffer)
  BY <1>1, <1>2 DEF Agree
<1>4. Left(h) \in Seq(Nat) /\ Len(Left(h)) = Len(io[h].outBuffer) - io[h].writeSum
  BY <1>2, <1>3, Rest DEF Left
<1>5. /\ Left(h) = <<>> <=> Len(Left(h)) = 0
      /\ io[h].outBuffer = <<>> <=> Len(io[h].outBuffer) = 0
  BY <1>2, <1>4, EmptySeq
<1>6. http[h].out \in BOOLEAN
  BY <1>1 DEF HttpDatas
<1> QED BY <1>1, <1>2, <1>3, <1>4, <1>5, <1>6 DEF Agree

LEMMA WriteSomeStep ==
  ASSUME IOInv, NEW l \in Loops, NEW h \in Https, WriteSome(l, h)
  PROVE  UNCHANGED vars /\ Agreed'
<1>1. /\ cur[l] = h /\ UNCHANGED vars
      /\ \E n \in 1 .. Least(io[h].room, Len(Left(h)) - 1) : io' = [io EXCEPT ![h] = Taken(h, n)]
  BY DEF WriteSome, Writing
<1>2. PICK n \in 1 .. Least(io[h].room, Len(Left(h)) - 1) : io' = [io EXCEPT ![h] = Taken(h, n)]
  BY <1>1
<1>3. n \in Nat /\ n <= io[h].room /\ n < Len(Left(h)) /\ n <= Len(Left(h))
  BY <1>1, BeforeWrite DEF Least
<1>4. /\ Taken(h, n) \in IORecords
      /\ Taken(h, n).outBuffer = io[h].outBuffer
      /\ Taken(h, n).writeSum = io[h].writeSum + n
      /\ Taken(h, n).room = io[h].room - n
      /\ Taken(h, n).readSum = io[h].readSum /\ Taken(h, n).unread = io[h].unread
  BY <1>1, <1>3, BeforeWrite, TakenType
<1>5. Taken(h, n).writeSum < Len(io[h].outBuffer) /\ (Taken(h, n).room > 0 => sock[h].space)
  BY <1>1, <1>3, <1>4, BeforeWrite, SMTT(40)
<1>6. Agree(http[h], sock[h], io[h]) /\ http[h].life # "none"
  BY <1>1, BeforeWrite DEF IOInv, Agreed
<1>7. Agree(http[h], sock[h], Taken(h, n))
  BY <1>4, <1>5, <1>6 DEF Agree
<1>8. http' = [http EXCEPT ![h] = http[h]] /\ sock' = [sock EXCEPT ![h] = sock[h]]
  BY <1>1 DEF vars, IOInv, IInv, TypeOK
<1> QED BY <1>1, <1>2, <1>7, <1>8, OneAgree

LEMMA WriteRestStep ==
  ASSUME IOInv, NEW l \in Loops, NEW h \in Https, WriteRest(l, h)
  PROVE  Next /\ Agreed'
<1> DEFINE t == Taken(h, Len(Left(h)))
           b == Trim(t)
<1>1. /\ cur[l] = h /\ Writing(l, h) /\ ~sock[h].rst
      /\ Len(Left(h)) \in 1 .. io[h].room /\ Return(l, h, b, Outcome(b))
  BY DEF WriteRest, Writing
<1>2. /\ t \in IORecords /\ t.outBuffer = io[h].outBuffer
      /\ t.writeSum = io[h].writeSum + Len(Left(h)) /\ t.room = io[h].room - Len(Left(h))
      /\ t.readSum = io[h].readSum /\ t.unread = io[h].unread
  BY <1>1, BeforeWrite, TakenType
<1> HIDE DEF t
<1>3. t.writeSum = Len(t.outBuffer)
  BY <1>1, <1>2, BeforeWrite
<1>4. /\ b \in IORecords /\ b.writeSum = 0 /\ b.outBuffer = <<>> /\ b.room = t.room
      /\ b.readSum = t.readSum /\ b.unread = t.unread
  BY <1>2, <1>3, BeforeWrite, <1>1, TrimType
<1> HIDE DEF b
<1>5. http[h].out /\ sock[h].space
  BY <1>1, BeforeWrite
<1>6. http[h].out = TRUE /\ sock[h] \in Socks
  BY <1>1, <1>5, BeforeWrite
<1>7. /\ Outcome(b) \in Writes /\ Outcome(b) \in Writen(sock[h], http[h].out)
      /\ Outcome(b).out <=> b.outBuffer # <<>>
      /\ Outcome(b).space <=> b.room > 0
  BY <1>1, <1>4, <1>5, <1>6, AllowedOutcome
<1>8. Next
  BY <1>1, <1>7, ReturnNext
<1>9. Agreed'
  BY <1>1, <1>2, <1>4, <1>5, <1>6, <1>7, ReturnAgree
<1> QED BY <1>8, <1>9

LEMMA WriteFullStep ==
  ASSUME IOInv, NEW l \in Loops, NEW h \in Https, WriteFull(l, h)
  PROVE  Next /\ Agreed'
<1> DEFINE b == Trim(io[h])
<1>1. /\ cur[l] = h /\ Writing(l, h) /\ ~sock[h].rst
      /\ Left(h) # <<>> /\ io[h].room = 0 /\ Return(l, h, b, Outcome(b))
  BY DEF WriteFull, Writing
<1>2. /\ b \in IORecords /\ b.writeSum = 0 /\ b.room = 0
      /\ b.outBuffer = <<>> <=> io[h].writeSum = Len(io[h].outBuffer)
      /\ b.readSum = io[h].readSum /\ b.unread = io[h].unread
  BY <1>1, BeforeWrite, TrimType
<1> HIDE DEF b
<1>3. http[h].out /\ b.outBuffer # <<>>
  BY <1>1, <1>2, BeforeWrite
<1>4. http[h].out = TRUE /\ sock[h] \in Socks /\ ~(b.room > 0)
  BY <1>1, <1>2, <1>3, BeforeWrite
<1>5. /\ Outcome(b) \in Writes /\ Outcome(b) \in Writen(sock[h], http[h].out)
      /\ Outcome(b).out <=> b.outBuffer # <<>>
  BY <1>1, <1>3, <1>4, AllowedOutcome
<1>6. Next
  BY <1>1, <1>5, ReturnNext
<1>7. Agreed'
  BY <1>1, <1>2, <1>3, <1>4, <1>5, ReturnAgree
<1> QED BY <1>6, <1>7

LEMMA WriteFailsStep ==
  ASSUME IOInv, NEW l \in Loops, NEW h \in Https, WriteFails(l, h)
  PROVE  Next /\ Agreed'
<1> DEFINE b == [io[h] EXCEPT !.writeSum = 0]
           w == [out |-> TRUE, error |-> TRUE, space |-> sock[h].space]
<1>1. /\ cur[l] = h /\ Writing(l, h) /\ sock[h].rst
      /\ Left(h) # <<>> /\ Return(l, h, b, w)
  BY DEF WriteFails, Writing
<1>2. /\ b \in IORecords /\ b.writeSum = 0 /\ b.room = io[h].room
      /\ b.outBuffer = io[h].outBuffer
      /\ b.readSum = io[h].readSum /\ b.unread = io[h].unread
  BY <1>1, BeforeWrite DEF IORecords
<1>3. http[h].out /\ io[h].outBuffer # <<>>
  BY <1>1, BeforeWrite
<1>4. w \in Writes /\ w \in Writen(sock[h], http[h].out)
  BY <1>1, <1>3, BeforeWrite DEF Writen, Writes, Socks
<1>5. b.room > 0 => sock[h].space /\ w.space
  BY <1>1, <1>2, BeforeWrite
<1>6. w.out = TRUE
  OBVIOUS
<1> HIDE DEF b, w
<1>7. Next
  BY <1>1, <1>4, ReturnNext
<1>8. Agreed'
  BY <1>1, <1>2, <1>3, <1>4, <1>5, <1>6, ReturnAgree
<1> QED BY <1>7, <1>8

LEMMA WriteNothingStep ==
  ASSUME IOInv, NEW l \in Loops, NEW h \in Https, WriteNothing(l, h)
  PROVE  Next /\ Agreed'
<1> DEFINE w == [out |-> FALSE, error |-> FALSE, space |-> sock[h].space]
<1>1. /\ cur[l] = h /\ (~Writing(l, h) \/ Left(h) = <<>>) /\ Return(l, h, io[h], w)
      /\ FinishReadWith(l, h, w) \/ HandleWriteWith(l, h, w)
  BY DEF WriteNothing, Return, FinishReadWith, HandleWriteWith
<1>2. w \in Writes /\ w.out = FALSE /\ w.space = sock[h].space
  BY <1>1, BeforeWrite DEF Writes, Socks
<1>3. ASSUME Writing(l, h) PROVE ~http[h].out /\ io[h].outBuffer = <<>> /\ phase[l] = "write"
  <2>1. io[h].outBuffer = <<>> /\ ~http[h].out
    BY <1>1, <1>3, BeforeWrite
  <2> QED BY <1>3, <2>1 DEF Writing
<1>4. Agreed'
  <2>1. IF Writing(l, h) THEN w.out <=> io[h].outBuffer # <<>>
                         ELSE io[h].outBuffer = io[h].outBuffer
    BY <1>2, <1>3
  <2>2. /\ io[h] \in IORecords
        /\ io[h].room > 0 => sock[h].space /\ w.space
        /\ io[h].writeSum = 0 \/ io[h].writeSum < Len(io[h].outBuffer)
    BY <1>1, <1>2, BeforeWrite
  <2> HIDE DEF w
  <2> QED BY <1>1, <1>2, <2>1, <2>2, ReturnAgree
<1>5. Next
  <2>1. CASE ~http[h].out
    <3>1. http[h].out = FALSE /\ w.error = FALSE
      BY <1>1, <2>1, BeforeWrite
    <3> HIDE DEF w
    <3>2. w \in Writen(sock[h], http[h].out)
      BY <1>2, <3>1 DEF Writen
    <3> QED BY <1>1, <3>2, ReturnNext
  <2>2. CASE http[h].out
    <3>1. Skips(http[h])
      BY <1>1, <1>3, <2>2 DEF Writing, FinishReadWith, HandleWriteWith
    <3> DEFINE v == [out |-> sock[h].rst \/ ~sock[h].space, error |-> sock[h].rst,
                     space |-> sock[h].space]
    <3>2. v \in Writen(sock[h], http[h].out) /\ v.space = w.space
      BY <1>1, <2>2, BeforeWrite DEF Writen, Writes, Socks
    <3> HIDE DEF v, w
    <3>3. FinishReadWith(l, h, v) \/ HandleWriteWith(l, h, v)
      BY <1>1, <3>1, <3>2 DEF FinishReadWith, HandleWriteWith, WriteTo
    <3> QED BY <3>2, <3>3 DEF Next, LoopStep, FinishRead, HandleWrite
  <2> QED BY <2>1, <2>2
<1> QED BY <1>4, <1>5
-----------------------------------------------------------------------------
(* The rest of a pass. *)

LEMMA PollerKeeps ==
  ASSUME NEW k \in Socks, NEW ev
  PROVE  /\ EpollCtl(k, ev).inq = k.inq /\ EpollCtl(k, ev).rst = k.rst
         /\ EpollCtl(k, ev).space = k.space
         /\ EpollWait(k).inq = k.inq /\ EpollWait(k).rst = k.rst
         /\ EpollWait(k).space = k.space
<1>1. /\ EpollCtl(k, ev).inq = k.inq /\ EpollCtl(k, ev).rst = k.rst
      /\ EpollCtl(k, ev).space = k.space
  BY DEF EpollCtl, Socks
<1>2. /\ EpollWait(k).inq = k.inq /\ EpollWait(k).rst = k.rst
      /\ EpollWait(k).space = k.space
  BY DEF EpollWait, Socks
<1> QED BY <1>1, <1>2

(* A step keeps the agreement of the flags of h, or destroys h. *)
Agreeable(h) ==
  \/ Kept(http[h], http'[h]) /\ Grown(sock[h], sock'[h])
  \/ http'[h].life = "none" /\ ~http'[h].out /\ sock'[h].space

LEMMA CloseAgreeable ==
  ASSUME IInv, NEW l \in Loops, NEW D \in SUBSET Https, NEW left, CloseAll(l, D, left),
         NEW h \in Https
  PROVE  Agreeable(h)
<1>1. /\ http'[h] = IF h \notin D THEN http[h]
                    ELSE IF left[h] = 0 THEN NewHttp
                    ELSE [http[h] EXCEPT !.connectionState = "DISCONNECTED",
                                         !.timers = left[h], !.linked = FALSE]
      /\ sock'[h] = IF h \notin D THEN sock[h]
                    ELSE IF left[h] = 0 THEN NewSock
                    ELSE [sock[h] EXCEPT !.reg = "none", !.mask = {}, !.listed = FALSE]
  BY DEF CloseAll
<1>2. http[h] \in HttpDatas /\ sock[h] \in Socks
  BY DEF IInv, TypeOK
<1>3. CASE h \notin D
  BY <1>1, <1>3 DEF Agreeable, Kept, Grown
<1>4. CASE h \in D /\ left[h] = 0
  BY <1>1, <1>4 DEF Agreeable, NewHttp, NewSock
<1>5. CASE h \in D /\ left[h] # 0
  <2>1. http'[h].out = http[h].out /\ http'[h].life = http[h].life
    BY <1>1, <1>2, <1>5 DEF HttpDatas
  <2>2. /\ sock'[h].inq = sock[h].inq /\ sock'[h].rst = sock[h].rst
        /\ sock'[h].space = sock[h].space
    BY <1>1, <1>2, <1>5 DEF Socks
  <2> QED BY <2>1, <2>2 DEF Agreeable, Kept, Grown
<1> QED BY <1>3, <1>4, <1>5

LEMMA PollAgreeable ==
  ASSUME IInv, NEW l \in Loops, Poll(l), NEW h \in Https
  PROVE  Agreeable(h)
<1>1. http[h] \in HttpDatas /\ sock[h] \in Socks
  BY DEF IInv, TypeOK
<1>2. http'[h].life = http[h].life /\ http'[h].out = http[h].out
  <2>1. \A r : LET c == [http[h] EXCEPT !.events = {}, !.revents = r]
               IN  c.life = http[h].life /\ c.out = http[h].out
    BY <1>1 DEF HttpDatas
  <2>2. \/ http'[h] = http[h]
        \/ \E r : http'[h] = [http[h] EXCEPT !.events = {}, !.revents = r]
    BY Zenon DEF Poll
  <2> QED BY <2>1, <2>2
<1>3. sock'[h] \in {sock[h], EpollWait(sock[h])}
  BY DEF Poll
<1> QED BY <1>1, <1>2, <1>3, PollerKeeps DEF Agreeable, Kept, Grown

(* The steps that change one HttpData, and one socket through epoll_ctl. *)
LEMMA OneAgreeable ==
  ASSUME IInv, NEW g \in Https, NEW c, c.out = http[g].out, c.life # "none",
         http' = [http EXCEPT ![g] = c],
         sock' = sock \/ \E ev : sock' = [sock EXCEPT ![g] = EpollCtl(@, ev)],
         NEW h \in Https
  PROVE  Agreeable(h)
<1>1. http \in [Https -> HttpDatas] /\ sock \in [Https -> Socks] /\ sock[g] \in Socks
  BY DEF IInv, TypeOK
<1>2. Kept(http[h], http'[h])
  BY <1>1 DEF Kept
<1>3. Grown(sock[h], sock'[h])
  <2>1. CASE sock' = sock
    BY <2>1 DEF Grown
  <2>2. ASSUME NEW ev, sock' = [sock EXCEPT ![g] = EpollCtl(@, ev)]
        PROVE  Grown(sock[h], sock'[h])
    <3>1. sock'[h] = IF h = g THEN EpollCtl(sock[g], ev) ELSE sock[h]
      BY <1>1, <2>2
    <3> QED BY <1>1, <3>1, PollerKeeps DEF Grown
  <2> QED BY <2>1, <2>2
<1> QED BY <1>2, <1>3 DEF Agreeable

LEMMA DispatchAgreeable ==
  ASSUME IInv, NEW l \in Loops, NEW g \in Https, Dispatch(l, g), NEW h \in Https
  PROVE  Agreeable(h)
<1>1. /\ g \in batch[l] /\ sock' = sock
      /\ \/ http' = [http EXCEPT ![g] = [@ EXCEPT !.events = {}, !.revents = {}]]
         \/ http' = [http EXCEPT ![g] = [@ EXCEPT !.events = {}]]
  BY DEF Dispatch, IInv, TypeOK
<1>2. http[g] \in HttpDatas /\ http[g].life = "live"
  BY <1>1 DEF IInv, TypeOK, LoopInv, Live
<1>3. LET a == [http[g] EXCEPT !.events = {}, !.revents = {}]
          b == [http[g] EXCEPT !.events = {}]
      IN  a.out = http[g].out /\ a.life = "live" /\ b.out = http[g].out /\ b.life = "live"
  BY <1>2 DEF HttpDatas
<1> QED BY <1>1, <1>3, OneAgreeable

LEMMA HandleConnAgreeable ==
  ASSUME IInv, NEW l \in Loops, NEW g \in Https, HandleConn(l, g), NEW h \in Https
  PROVE  Agreeable(h)
<1> DEFINE c == SeperateTimer(http[g])
<1>1. http[g] \in HttpDatas /\ http[g].life = "live" /\ Linked(http[g])
  BY InHand DEF HandleConn
<1>2. c \in HttpDatas /\ c.life = "live" /\ c.out = http[g].out
  BY <1>1, Separated, SeparatedOut
<1>3. CASE Rearm(l, g)
  <2> DEFINE ev == Interest(c.events)
             d == [AddTimer(Done(c)) EXCEPT !.events = ev, !.lastEvents = ev]
  <2>1. /\ http' = [http EXCEPT ![g] = d]
        /\ sock' = sock \/ sock' = [sock EXCEPT ![g] = EpollCtl(@, ev)]
    BY <1>3 DEF Rearm
  <2> HIDE DEF c, ev
  <2>2. d.out = http[g].out /\ d.life = "live"
    BY <1>2 DEF AddTimer, Done, HttpDatas
  <2> HIDE DEF d
  <2> QED BY <2>1, <2>2, OneAgreeable
<1>4. CASE Linger(l, g)
  <2> DEFINE d == [Done(c) EXCEPT !.events = {"OUT"}]
  <2>1. http' = [http EXCEPT ![g] = d] /\ sock' = sock
    BY <1>4 DEF Linger
  <2> HIDE DEF c
  <2>2. d.out = http[g].out /\ d.life = "live"
    BY <1>2 DEF Done, HttpDatas
  <2> HIDE DEF d
  <2> QED BY <2>1, <2>2, OneAgreeable
<1>5. CASE CloseConn(l, g)
  BY <1>5, CloseAgreeable DEF CloseConn
<1> QED BY <1>3, <1>4, <1>5 DEF HandleConn

LEMMA SwapFunctorsAgreeable ==
  ASSUME IInv, NEW l \in Loops, SwapFunctors(l), NEW h \in Https
  PROVE  Agreeable(h)
<1>1. http[h] \in HttpDatas /\ sock' = sock
  BY DEF IInv, TypeOK, SwapFunctors
<1>2. \/ http'[h] = http[h]
      \/ http[h].life = "queued" /\ http'[h] = [http[h] EXCEPT !.life = "running"]
  BY DEF SwapFunctors
<1>3. LET c == [http[h] EXCEPT !.life = "running"] IN c.life = "running" /\ c.out = http[h].out
  BY <1>1 DEF HttpDatas
<1> QED BY <1>1, <1>2, <1>3 DEF Agreeable, Kept, Grown

LEMMA NewEventAgreeable ==
  ASSUME IInv, NEW l \in Loops, NEW g \in Https, NewEvent(l, g), NEW h \in Https
  PROVE  Agreeable(h)
<1> DEFINE ev == {"IN", "ONESHOT"}
           d == [AddTimer(http[g]) EXCEPT !.life = "live", !.events = ev, !.lastEvents = ev]
<1>1. /\ http[g] \in HttpDatas /\ http' = [http EXCEPT ![g] = d]
      /\ sock' = sock \/ sock' = [sock EXCEPT ![g] = EpollCtl(@, ev)]
  BY DEF IInv, TypeOK, NewEvent
<1> HIDE DEF ev
<1>2. d.out = http[g].out /\ d.life = "live"
  BY <1>1 DEF AddTimer, HttpDatas
<1> HIDE DEF d
<1> QED BY <1>1, <1>2, OneAgreeable

LEMMA OtherStepKeeps ==
  ASSUME IOInv, NEW l \in Loops, OtherStep(l)
  PROVE  Next /\ Agreed'
<1>1. Next
  BY DEF OtherStep, Next, LoopStep
<1>2. IInv /\ Agreed /\ Cleared
  BY DEF IOInv, OtherStep
<1>3. ASSUME NEW h \in Https PROVE Agreeable(h)
  <2>1. CASE Poll(l)
    BY <1>2, <2>1, PollAgreeable
  <2>2. ASSUME NEW g \in Https, Dispatch(l, g) PROVE Agreeable(h)
    BY <1>2, <2>2, DispatchAgreeable
  <2>3. ASSUME NEW g \in Https, HandleConn(l, g) PROVE Agreeable(h)
    BY <1>2, <2>3, HandleConnAgreeable
  <2>4. CASE SwapFunctors(l)
    BY <1>2, <2>4, SwapFunctorsAgreeable
  <2>5. ASSUME NEW g \in Https, NewEvent(l, g) PROVE Agreeable(h)
    BY <1>2, <2>5, NewEventAgreeable
  <2>6. CASE FunctorsDone(l)
    BY <2>6 DEF FunctorsDone, Agreeable, Kept, Grown
  <2>7. ASSUME NEW D \in SUBSET Https, HandleExpired(l, D) PROVE Agreeable(h)
    BY <1>2, <2>7, CloseAgreeable DEF HandleExpired
  <2> QED BY <2>1, <2>2, <2>3, <2>4, <2>5, <2>6, <2>7 DEF OtherStep
<1> QED BY <1>1, <1>2, <1>3, ClearedAgree DEF Agreeable

LEMMA AcceptedStep ==
  ASSUME IOInv, NEW h \in Https, NEW f \in Fds, NEW l \in Loops, Accepted(h, f, l)
  PROVE  Next /\ Agreed'
<1> DEFINE c == [NewHttp EXCEPT !.life = "queued", !.loop = l, !.fd = f]
<1>1. Next
  BY DEF Accepted, Next
<1>2. /\ http[h].life = "none" /\ io' = io
      /\ http' = [http EXCEPT ![h] = c] /\ sock' = [sock EXCEPT ![h] = NewSock]
  BY DEF Accepted, HandNewConn, Open
<1>3. io[h] = NewIO /\ io \in [Https -> IORecords]
  BY <1>2 DEF IOInv, Agreed, Agree
<1>4. c.out = FALSE /\ NewSock.space
  BY DEF NewHttp, NewSock
<1> HIDE DEF c
<1>5. Agree(c, NewSock, NewIO)
  BY <1>4, AgreeNew
<1>6. io' = [io EXCEPT ![h] = NewIO]
  BY <1>2, <1>3
<1> QED BY <1>1, <1>2, <1>5, <1>6, OneAgree
-----------------------------------------------------------------------------
(* The refinement. *)

LEMMA IOInitInv == IOInit => IOInv
<1> SUFFICES ASSUME IOInit PROVE IOInv
  OBVIOUS
<1>1. IInv
  BY InitInv DEF IOInit
<1>2. io = [h \in Https |-> NewIO] /\ \A h \in Https : ~http[h].out /\ sock[h].space
  BY DEF IOInit, Init, NewHttp, NewSock
<1> QED BY <1>1, <1>2, Blank, AgreeNew DEF IOInv, Agreed

LEMMA IOStepInv == IOInv /\ [IONext]_ioVars => [Next]_vars /\ IOInv'
<1> SUFFICES ASSUME IOInv, [IONext]_ioVars PROVE [Next]_vars /\ IOInv'
  OBVIOUS
<1>1. ASSUME NEW h \in Https, IOClient(h) PROVE (Next \/ UNCHANGED vars) /\ Agreed'
  BY <1>1, SendBytesStep, ReadBytesStep, HangupStep DEF IOClient, ClientReads
<1>2. ASSUME NEW h \in Https, NEW f \in Fds, NEW l \in Loops, Accepted(h, f, l)
      PROVE  (Next \/ UNCHANGED vars) /\ Agreed'
  BY <1>2, AcceptedStep
<1>3. ASSUME NEW l \in Loops, Readn(l) PROVE (Next \/ UNCHANGED vars) /\ Agreed'
  <2>1. ASSUME NEW h \in Https, HandleRead(l, h) PROVE Next
    BY <2>1 DEF Next, LoopStep
  <2> QED BY <1>3, <2>1, ReadSomeStep, ReadEndStep DEF Readn
<1>4. ASSUME NEW l \in Loops, WritenLoop(l) PROVE (Next \/ UNCHANGED vars) /\ Agreed'
  BY <1>4, WriteSomeStep, WriteRestStep, WriteFullStep, WriteFailsStep, WriteNothingStep
     DEF WritenLoop
<1>5. ASSUME NEW l \in Loops, OtherStep(l) PROVE (Next \/ UNCHANGED vars) /\ Agreed'
  BY <1>5, OtherStepKeeps
<1>6. ASSUME UNCHANGED ioVars PROVE UNCHANGED vars /\ Agreed'
  <2>1. UNCHANGED <<http, sock, io, vars>>
    BY <1>6 DEF ioVars, vars
  <2> QED BY <2>1 DEF IOInv, Agreed
<1>7. (Next \/ UNCHANGED vars) /\ Agreed'
  BY <1>1, <1>2, <1>3, <1>4, <1>5, <1>6 DEF IONext, IOStep, ioVars
<1>8. IInv'
  BY <1>7, StepInv DEF IOInv
<1> QED BY <1>7, <1>8 DEF IOInv

(* readn and writen may be taken for atomic: with its loops of system calls *)
(* laid open, the server does nothing that Reactor does not allow, so what  *)
(* is proved of Reactor holds of it (Util.cpp:54-78, 139-166).              *)
THEOREM ImplementsReactor == IOSpec => Spec
<1>1. IOInit => Init
  BY DEF IOInit
<1> QED BY <1>1, IOInitInv, IOStepInv, PTL DEF IOSpec, Spec

(* The flags by which the handlers and epoll go always tell what is in the  *)
(* queues and buffers: outBuffer_ is empty when they say so, and nothing    *)
(* waits in the kernel unseen.                                              *)
THEOREM FlagsTell == IOSpec => []IOInv
BY IOInitInv, IOStepInv, PTL DEF IOSpec
-----------------------------------------------------------------------------
(* The promise of ByteStream.  It takes what a pass has done to a           *)
(* connection: an error is made on the way to handleConn, a finished        *)
(* request is there only until handleRead is through with it, and writen is *)
(* in the middle of outBuffer_ only while it runs.                          *)

InPhase(h, P) == \E l \in Loops : cur[l] = h /\ phase[l] \in P

Passes(h) ==
  /\ http[h].error => InPhase(h, {"write", "conn"})
  /\ http[h].finish => http[h].error \/ InPhase(h, {"tail"})
  /\ io[h].writeSum > 0 => ~http[h].error /\ InPhase(h, {"tail", "write"})

PassInv == \A h \in Https : Passes(h)

StreamStep(h) == \A w \in {"request", "response"} : Way!Step(<<h, w>>) \/ Way!Rest(<<h, w>>)

Calm(h) == ~http[h].error /\ ~http[h].finish /\ io[h].writeSum = 0

(* A step that changes nothing of h that the streams or Passes depend on. *)
Unmoved(h) == \A l \in Loops : cur[l] = h => cur'[l] = h /\ phase'[l] = phase[l]

SameRequest(h) == io'[h].sent = io[h].sent /\ io'[h].unread = io[h].unread
                  /\ io'[h].inBuffer = io[h].inBuffer

SameResponse(h) == /\ http'[h].error = http[h].error /\ io'[h].made = io[h].made
                   /\ io'[h].outBuffer = io[h].outBuffer /\ io'[h].writeSum = io[h].writeSum
                   /\ io'[h].wire = io[h].wire

Quiet(h) == /\ SameRequest(h) /\ SameResponse(h) /\ http'[h].finish = http[h].finish
            /\ Calm(h) \/ Unmoved(h)

Renewed(h) == http'[h] = NewHttp /\ io'[h] = NewIO

LEMMA RequestRests ==
  ASSUME NEW h \in Https, SameRequest(h)
  PROVE  Way!Rest(<<h, "request">>)
BY DEF SameRequest, Way!Rest, Ways

LEMMA ResponseRests ==
  ASSUME NEW h \in Https, SameResponse(h)
  PROVE  Way!Rest(<<h, "response">>)
BY DEF SameResponse, Way!Rest, Ways, Left

(* The ends of a pass, h being in the hands of loop l only. *)
LEMMA Here ==
  ASSUME IInv, NEW l \in Loops, NEW h \in Https, cur[l] = h, NEW P
  PROVE  InPhase(h, P) <=> phase[l] \in P
<1>1. \A m \in Loops : cur[m] = h => m = l
  BY DEF IInv, LoopInv
<1> QED BY <1>1 DEF InPhase

LEMMA CalmPasses ==
  ASSUME NEW h \in Https, ~http'[h].error, ~http'[h].finish, io'[h].writeSum = 0
  PROVE  Passes(h)'
BY DEF Passes

LEMMA QuietKeeps ==
  ASSUME NEW h \in Https, Passes(h), Quiet(h)
  PROVE  Passes(h)' /\ StreamStep(h)
<1>1. StreamStep(h)
  BY RequestRests, ResponseRests DEF Quiet, StreamStep
<1>2. CASE Calm(h)
  BY <1>1, <1>2, CalmPasses DEF Calm, Quiet, SameResponse
<1>3. CASE Unmoved(h)
  <2>1. \A P : InPhase(h, P) => InPhase(h, P)'
    BY <1>3 DEF InPhase, Unmoved
  <2>2. /\ http'[h].error = http[h].error /\ http'[h].finish = http[h].finish
        /\ io'[h].writeSum = io[h].writeSum
    BY DEF Quiet, SameResponse
  <2> QED BY <1>1, <2>1, <2>2 DEF Passes
<1> QED BY <1>2, <1>3 DEF Quiet

LEMMA RenewedStep ==
  ASSUME NEW h \in Https, Renewed(h)
  PROVE  Passes(h)' /\ StreamStep(h)
<1>1. ~http'[h].error /\ ~http'[h].finish /\ io'[h].writeSum = 0
  BY DEF Renewed, NewHttp, NewIO
<1>2. /\ io'[h].sent = 0 /\ io'[h].unread = <<>> /\ io'[h].inBuffer = <<>>
      /\ io'[h].made = 0 /\ io'[h].outBuffer = <<>> /\ io'[h].wire = <<>>
  BY DEF Renewed, NewIO
<1>3. Left(h)' = <<>>
  <2>1. SubSeq(<<>>, 0 + 1, Len(<<>>)) = <<>>
    OBVIOUS
  <2> QED BY <1>1, <1>2, <2>1 DEF Left
<1>5. Way!Reopen(<<h, "request">>)
  BY <1>2 DEF Way!Reopen, Way!Fresh, Ways
<1>6. Way!Reopen(<<h, "response">>)
  BY <1>1, <1>2, <1>3 DEF Way!Reopen, Way!Fresh, Ways
<1> QED BY <1>1, <1>5, <1>6, CalmPasses DEF StreamStep, Way!Step

(* What io and http must do for a step of a stream. *)
LEMMA ResponsePull ==
  ASSUME NEW h \in Https, ~http[h].error, ~http'[h].error, io'[h].made = io[h].made,
         NEW n \in 1 .. Len(Left(h)),
         Left(h)' = SubSeq(Left(h), n + 1, Len(Left(h))),
         io'[h].wire = io[h].wire \o SubSeq(Left(h), 1, n)
  PROVE  Way!Pull(<<h, "response">>)
BY DEF Way!Pull, Ways

LEMMA RequestPull ==
  ASSUME NEW h \in Https, io'[h].sent = io[h].sent,
         NEW n \in 1 .. Len(io[h].unread),
         io'[h].unread = SubSeq(io[h].unread, n + 1, Len(io[h].unread)),
         io'[h].inBuffer = io[h].inBuffer \o SubSeq(io[h].unread, 1, n)
  PROVE  Way!Pull(<<h, "request">>)
BY DEF Way!Pull, Ways

LEMMA RequestPush ==
  ASSUME NEW h \in Https, NEW n \in Nat \ {0}, io[h].sent \in Nat,
         io'[h].sent = io[h].sent + n, io'[h].inBuffer = io[h].inBuffer,
         io'[h].unread = io[h].unread \o Bytes(io[h].sent, n)
  PROVE  Way!Push(<<h, "request">>)
<1>1. io'[h].sent - io[h].sent = n /\ io'[h].sent > io[h].sent
  OBVIOUS
<1>2. Way!New(<<h, "request">>) = Bytes(io[h].sent, n)
  BY <1>1, Zenon DEF Way!New, Ways, Bytes
<1> QED BY <1>1, <1>2 DEF Way!Push, Ways

LEMMA ResponseMade ==
  ASSUME NEW h \in Https, ~http[h].error, ~http'[h].error,
         NEW n \in Nat \ {0}, io[h].made \in Nat,
         io'[h].made = io[h].made + n, io'[h].wire = io[h].wire,
         NEW keep \in BOOLEAN,
         Left(h)' = (IF keep THEN Left(h) ELSE <<>>) \o Bytes(io[h].made, n),
         Bytes(io[h].made, n) \in Seq(Nat)
  PROVE  Way!Step(<<h, "response">>)
<1>1. io'[h].made - io[h].made = n /\ io'[h].made > io[h].made
  OBVIOUS
<1>2. Way!New(<<h, "response">>) = Bytes(io[h].made, n)
  BY <1>1 DEF Way!New, Ways, Bytes
<1>3. CASE keep
  <2>1. Left(h)' = Left(h) \o Bytes(io[h].made, n)
    BY <1>3
  <2>2. Way!Push(<<h, "response">>)
    BY <1>1, <1>2, <2>1 DEF Way!Push, Ways
  <2> QED BY <2>2 DEF Way!Step
<1>4. CASE ~keep
  <2>1. Left(h)' = Bytes(io[h].made, n)
    BY <1>4, ConcatEmptySeq
  <2>2. Way!Overwrite(<<h, "response">>)
    BY <1>1, <1>2, <2>1 DEF Way!Overwrite, Ways
  <2> QED BY <2>2 DEF Way!Step
<1> QED BY <1>3, <1>4

LEMMA ResponseEnds ==
  ASSUME NEW h \in Https, ~http[h].error, http'[h].error, io'[h].made = io[h].made,
         io'[h].wire \in {io[h].wire, Append(io[h].wire, Page)}
  PROVE  Way!End(<<h, "response">>)
BY DEF Way!End, Way!Notice, Ways, Page

-----------------------------------------------------------------------------
(* The client, and the rest of a pass. *)

(* A step of the handlers of h, or of its client. *)
LEMMA OthersQuiet ==
  ASSUME IOInv, NEW l \in Loops, NEW h \in Https, cur[l] = h, NEW c, NEW b, NEW p,
         http' = [http EXCEPT ![h] = c], io' = [io EXCEPT ![h] = b],
         phase' = [phase EXCEPT ![l] = p], cur' = cur,
         NEW g \in Https \ {h}
  PROVE  Quiet(g)
<1>1. /\ http \in [Https -> HttpDatas] /\ io \in [Https -> IORecords]
      /\ phase \in [Loops -> Phases]
  BY DEF IOInv, IInv, TypeOK, Agreed
<1> QED BY <1>1 DEF Quiet, SameRequest, SameResponse, Unmoved

LEMMA ClientStreams ==
  ASSUME IOInv, PassInv, NEW h \in Https, IOClient(h), NEW g \in Https
  PROVE  Passes(g)' /\ StreamStep(g)
<1>1. /\ http \in [Https -> HttpDatas] /\ io \in [Https -> IORecords] /\ Passes(g)
  BY DEF IOInv, IInv, TypeOK, Agreed, PassInv
<1>2. UNCHANGED <<http, phase, cur>>
  BY DEF IOClient, SendBytes, ClientReads, ReadBytes, Hangup, Send, Drain, ShutdownWrite,
         Reset, ClientStep, vars
<1>3. ASSUME NEW n \in 1..MaxSent, SendBytes(h, n)
      PROVE  Passes(g)' /\ StreamStep(g)
  <2> DEFINE b == [io[h] EXCEPT !.sent = @ + n, !.unread = @ \o Bytes(io[h].sent, n)]
  <2>1. io' = [io EXCEPT ![h] = b]
    BY <1>3 DEF SendBytes
  <2>2. CASE g # h
    BY <1>1, <1>2, <2>1, <2>2, QuietKeeps DEF Quiet, SameRequest, SameResponse, Unmoved
  <2>3. CASE g = h
    <3>0. n \in Nat \ {0}
      BY SocketIOAssumption
    <3>1. io[h] \in IORecords /\ io[h].sent \in Nat
      BY <1>1 DEF IORecords
    <3>2. io'[h] = b
      BY <1>1, <2>1
    <3>3. /\ b.sent = io[h].sent + n /\ b.unread = io[h].unread \o Bytes(io[h].sent, n)
          /\ b.inBuffer = io[h].inBuffer /\ b.made = io[h].made
          /\ b.outBuffer = io[h].outBuffer /\ b.writeSum = io[h].writeSum
          /\ b.wire = io[h].wire
      BY <3>1 DEF IORecords
    <3> HIDE DEF b
    <3>4. Way!Push(<<h, "request">>)
      BY <3>0, <3>1, <3>2, <3>3, RequestPush
    <3>5. Way!Rest(<<h, "response">>)
      BY <1>2, <3>2, <3>3, ResponseRests DEF SameResponse
    <3>6. Passes(h)'
      BY <1>1, <1>2, <2>3, <3>2, <3>3 DEF Passes, InPhase
    <3> QED BY <2>3, <3>4, <3>5, <3>6 DEF StreamStep, Way!Step
  <2> QED BY <2>2, <2>3
<1>4. ASSUME NEW n \in 1..SendBuffer, ReadBytes(h, n)
      PROVE  Quiet(g)
  <2>1. io' = [io EXCEPT ![h] = [io[h] EXCEPT !.room = @ + n]]
    BY <1>4 DEF ReadBytes
  <2>2. CASE g # h
    BY <1>1, <1>2, <2>1, <2>2 DEF Quiet, SameRequest, SameResponse, Unmoved
  <2>3. CASE g = h
    BY <1>1, <1>2, <2>1, <2>3 DEF Quiet, SameRequest, SameResponse, Unmoved, IORecords
  <2> QED BY <2>2, <2>3
<1>5. ASSUME Hangup(h) PROVE Quiet(g)
  BY <1>2, <1>5 DEF Hangup, Quiet, SameRequest, SameResponse, Unmoved
<1> QED BY <1>1, <1>3, <1>4, <1>5, QuietKeeps DEF IOClient, ClientReads

LEMMA AcceptedStreams ==
  ASSUME IOInv, PassInv, NEW h \in Https, NEW f \in Fds, NEW l \in Loops, Accepted(h, f, l),
         NEW g \in Https
  PROVE  Passes(g)' /\ StreamStep(g)
<1>1. http \in [Https -> HttpDatas] /\ Passes(g)
  BY DEF IOInv, IInv, TypeOK, PassInv
<1>2. /\ http' = [http EXCEPT ![h] = [NewHttp EXCEPT !.life = "queued", !.loop = l, !.fd = f]]
      /\ http[h] = NewHttp /\ UNCHANGED <<io, phase, cur>>
  BY DEF Accepted, HandNewConn, Open, IOInv, IInv, ObjectInv
<1>3. http'[g].error = http[g].error /\ http'[g].finish = http[g].finish
  BY <1>1, <1>2 DEF NewHttp
<1>4. Quiet(g)
  BY <1>2, <1>3 DEF Quiet, SameRequest, SameResponse, Unmoved
<1> QED BY <1>1, <1>4, QuietKeeps

(* What the rest of a pass does not touch. *)
LEMMA StillQuiet ==
  ASSUME IOInv, Cleared, NEW h \in Https,
         http'[h].life = "none" => http[h].life = "none",
         http'[h].error = http[h].error, http'[h].finish = http[h].finish,
         Calm(h) \/ Unmoved(h)
  PROVE  Quiet(h)
<1>1. io'[h] = IF http'[h].life = "none" THEN NewIO ELSE io[h]
  BY DEF Cleared
<1>2. http[h].life = "none" => io[h] = NewIO
  BY DEF IOInv, Agreed, Agree
<1>3. io'[h] = io[h]
  BY <1>1, <1>2
<1> QED BY <1>3 DEF Quiet, SameRequest, SameResponse

(* Loop l is not in a handler, and does not get into that of h. *)
LEMMA OffHands ==
  ASSUME IInv, NEW l \in Loops, phase[l] \notin Busy, NEW h \in Https,
         \A m \in Loops \ {l} : cur'[m] = cur[m] /\ phase'[m] = phase[m]
  PROVE  Unmoved(h)
<1>1. cur[l] # h
  BY ReactorAssumption DEF IInv, LoopInv
<1> QED BY <1>1 DEF Unmoved

LEMMA ClosedRenewed ==
  ASSUME IOInv, Cleared, NEW l \in Loops, NEW D \in SUBSET Https, NEW left,
         CloseAll(l, D, left), NEW h \in D, left[h] = 0
  PROVE  Renewed(h)
<1>1. http'[h] = NewHttp
  BY DEF CloseAll
<1>2. io'[h] = NewIO
  BY <1>1 DEF Cleared, NewHttp
<1> QED BY <1>1, <1>2 DEF Renewed

LEMMA CalmInConn ==
  ASSUME IInv, NEW l \in Loops, NEW h \in Https, Passes(h), cur[l] = h, phase[l] = "conn",
         ~http[h].error, io[h].writeSum \in Nat
  PROVE  Calm(h)
<1>1. ~InPhase(h, {"tail"}) /\ ~InPhase(h, {"tail", "write"})
  BY Here
<1> QED BY <1>1 DEF Passes, Calm

LEMMA HandleConnStreams ==
  ASSUME IOInv, PassInv, NEW l \in Loops, NEW g \in Https, HandleConn(l, g), Cleared,
         NEW h \in Https
  PROVE  Quiet(h) \/ Renewed(h)
<1>1. /\ http \in [Https -> HttpDatas] /\ cur \in [Loops -> Https \cup {None}]
      /\ phase \in [Loops -> Phases] /\ IInv /\ Passes(h) /\ io[h].writeSum \in Nat
  BY DEF IOInv, IInv, TypeOK, PassInv, Agreed, IORecords
<1>2. /\ cur[l] = g /\ phase[l] = "conn"
      /\ Rearm(l, g) \/ Linger(l, g) \/ CloseConn(l, g)
      /\ cur' = [cur EXCEPT ![l] = None] /\ phase' = [phase EXCEPT ![l] = "dispatch"]
  BY DEF HandleConn
<1>3. http[g] \in HttpDatas /\ http[g].life = "live" /\ Linked(http[g])
  BY <1>1, <1>2, InHand
<1> DEFINE c == SeperateTimer(http[g])
<1>4. /\ c \in HttpDatas /\ c.life = "live" /\ c.error = http[g].error /\ c.timers = 0
      /\ c.finish = http[g].finish
  <2>1. c.finish = http[g].finish
    BY <1>3 DEF SeperateTimer, HttpDatas
  <2> QED BY <1>3, <2>1, Separated
<1>5. CASE h # g
  <2>1. http'[h] = http[h]
    BY <1>1, <1>2, <1>5 DEF Rearm, Linger, CloseConn, CloseAll
  <2>2. Unmoved(h)
    BY <1>1, <1>2, <1>5 DEF Unmoved
  <2> QED BY <2>1, <2>2, StillQuiet
<1> HIDE DEF c
<1>6. ASSUME NEW d, http' = [http EXCEPT ![g] = d], h = g, d.life = "live",
             d.error = c.error, d.finish = c.finish, ~c.error
      PROVE  Quiet(h)
  <2>1. http'[h] = d
    BY <1>1, <1>6
  <2>2. Calm(h)
    BY <1>1, <1>2, <1>4, <1>6, CalmInConn
  <2> QED BY <1>4, <1>6, <2>1, <2>2, StillQuiet
<1>7. CASE h = g /\ Rearm(l, g)
  <2> DEFINE ev == Interest(c.events)
             d == [AddTimer(Done(c)) EXCEPT !.events = ev, !.lastEvents = ev]
  <2>1. ~c.error /\ http' = [http EXCEPT ![g] = d]
    BY <1>7 DEF Rearm, c
  <2> HIDE DEF ev
  <2>2. d.life = "live" /\ d.error = c.error /\ d.finish = c.finish
    BY <1>4 DEF AddTimer, Done, HttpDatas
  <2> HIDE DEF d
  <2> QED BY <1>6, <1>7, <2>1, <2>2
<1>8. CASE h = g /\ Linger(l, g)
  <2> DEFINE d == [Done(c) EXCEPT !.events = {"OUT"}]
  <2>1. ~c.error /\ http' = [http EXCEPT ![g] = d]
    BY <1>8 DEF Linger, c
  <2>2. d.life = "live" /\ d.error = c.error /\ d.finish = c.finish
    BY <1>4 DEF Done, HttpDatas
  <2> HIDE DEF d
  <2> QED BY <1>6, <1>8, <2>1, <2>2
<1>9. CASE h = g /\ CloseConn(l, g)
  <2>1. CloseAll(l, {g}, [x \in Https |-> c.timers])
    BY <1>9 DEF CloseConn, c
  <2> QED BY <1>4, <1>9, <2>1, ClosedRenewed
<1> QED BY <1>2, <1>5, <1>7, <1>8, <1>9

LEMMA OtherStreams ==
  ASSUME IOInv, PassInv, NEW l \in Loops, OtherStep(l), NEW h \in Https
  PROVE  Passes(h)' /\ StreamStep(h)
<1>1. /\ http \in [Https -> HttpDatas] /\ cur \in [Loops -> Https \cup {None}]
      /\ phase \in [Loops -> Phases] /\ IInv /\ Passes(h) /\ Cleared
  BY DEF IOInv, IInv, TypeOK, PassInv, OtherStep
<1>2. ASSUME phase[l] \notin Busy, http'[h].life = "none" => http[h].life = "none",
             http'[h].error = http[h].error, http'[h].finish = http[h].finish,
             \A m \in Loops \ {l} : cur'[m] = cur[m] /\ phase'[m] = phase[m]
      PROVE  Quiet(h)
  BY <1>1, <1>2, OffHands, StillQuiet
<1>3. http[h] \in HttpDatas
  BY <1>1
<1>4. CASE Poll(l)
  <2>1. \/ http'[h] = http[h]
        \/ \E r : http'[h] = [http[h] EXCEPT !.events = {}, !.revents = r]
    BY <1>4, Zenon DEF Poll
  <2>2. /\ http'[h].life = http[h].life /\ http'[h].error = http[h].error
        /\ http'[h].finish = http[h].finish
    BY <1>3, <2>1 DEF HttpDatas
  <2>3. Quiet(h)
    BY <1>1, <1>2, <1>4, <2>2 DEF Poll, Busy
  <2> QED BY <1>1, <2>3, QuietKeeps
<1>5. ASSUME NEW g \in Https, Dispatch(l, g) PROVE Passes(h)' /\ StreamStep(h)
  <2>1. \/ http'[h] = http[h]
        \/ http'[h] = [http[h] EXCEPT !.events = {}, !.revents = {}]
        \/ http'[h] = [http[h] EXCEPT !.events = {}]
    BY <1>1, <1>5 DEF Dispatch
  <2>2. /\ http'[h].life = http[h].life /\ http'[h].error = http[h].error
        /\ http'[h].finish = http[h].finish
    BY <1>3, <2>1 DEF HttpDatas
  <2>3. Quiet(h)
    BY <1>1, <1>2, <1>5, <2>2 DEF Dispatch, Busy
  <2> QED BY <1>1, <2>3, QuietKeeps
<1>6. ASSUME NEW g \in Https, HandleConn(l, g) PROVE Passes(h)' /\ StreamStep(h)
  BY <1>1, <1>6, HandleConnStreams, QuietKeeps, RenewedStep
<1>7. CASE SwapFunctors(l)
  <2>1. \/ http'[h] = http[h]
        \/ http[h].life = "queued" /\ http'[h] = [http[h] EXCEPT !.life = "running"]
    BY <1>7 DEF SwapFunctors
  <2>2. /\ http'[h].life = "none" => http[h].life = "none"
        /\ http'[h].error = http[h].error /\ http'[h].finish = http[h].finish
    BY <1>3, <2>1 DEF HttpDatas
  <2>3. Quiet(h)
    BY <1>1, <1>2, <1>7, <2>2 DEF SwapFunctors, Busy
  <2> QED BY <1>1, <2>3, QuietKeeps
<1>8. ASSUME NEW g \in Https, NewEvent(l, g) PROVE Passes(h)' /\ StreamStep(h)
  <2> DEFINE ev == {"IN", "ONESHOT"}
             d == [AddTimer(http[g]) EXCEPT !.life = "live", !.events = ev, !.lastEvents = ev]
  <2>1. http' = [http EXCEPT ![g] = d]
    BY <1>8 DEF NewEvent
  <2> HIDE DEF ev
  <2>2. d.life = "live" /\ d.error = http[g].error /\ d.finish = http[g].finish
    BY <1>1 DEF AddTimer, HttpDatas
  <2> HIDE DEF d
  <2>3. /\ http'[h].life = "none" => http[h].life = "none"
        /\ http'[h].error = http[h].error /\ http'[h].finish = http[h].finish
    BY <1>1, <2>1, <2>2
  <2>4. Quiet(h)
    BY <1>1, <1>2, <1>8, <2>3 DEF NewEvent, Busy
  <2> QED BY <1>1, <2>4, QuietKeeps
<1>9. CASE FunctorsDone(l)
  <2>1. Quiet(h)
    BY <1>1, <1>2, <1>9 DEF FunctorsDone, Busy
  <2> QED BY <1>1, <2>1, QuietKeeps
<1>10. ASSUME NEW D \in SUBSET Https, HandleExpired(l, D) PROVE Passes(h)' /\ StreamStep(h)
  <2>1. CASE h \in D
    <3> DEFINE left == [x \in Https |-> http[x].timers - 1]
    <3>1. http[h].timers <= 1 /\ http[h].timers > 0 /\ http[h].timers \in Nat
      BY <1>1, <1>3, <1>10, <2>1 DEF HandleExpired, IInv, OneTimer, HttpDatas
    <3>2. CloseAll(l, D, left) /\ left[h] = 0
      BY <1>10, <3>1 DEF HandleExpired
    <3> HIDE DEF left
    <3>3. Renewed(h)
      BY <1>1, <2>1, <3>2, ClosedRenewed
    <3> QED BY <3>3, RenewedStep
  <2>2. CASE h \notin D
    <3>1. http'[h] = http[h]
      BY <1>10, <2>2 DEF HandleExpired, CloseAll
    <3>2. Quiet(h)
      BY <1>1, <1>2, <1>10, <3>1 DEF HandleExpired, Busy
    <3> QED BY <1>1, <3>2, QuietKeeps
  <2> QED BY <2>1, <2>2
<1> QED BY <1>4, <1>5, <1>6, <1>7, <1>8, <1>9, <1>10 DEF OtherStep

-----------------------------------------------------------------------------
(* readn. *)

LEMMA ReadSomeStreams ==
  ASSUME IOInv, PassInv, NEW l \in Loops, NEW h \in Https, ReadSome(l, h), NEW g \in Https
  PROVE  Passes(g)' /\ StreamStep(g)
<1> DEFINE nread == Least(MAX_BUFF, Len(io[h].unread))
           b == [io[h] EXCEPT !.unread = SubSeq(@, nread + 1, Len(@)),
                              !.inBuffer = @ \o SubSeq(io[h].unread, 1, nread),
                              !.readSum = @ + nread]
<1>1. /\ io \in [Https -> IORecords] /\ io[h] \in IORecords /\ Passes(g)
      /\ UNCHANGED <<http, phase, cur>> /\ io[h].unread # <<>>
      /\ io' = [io EXCEPT ![h] = b]
  BY DEF IOInv, Agreed, PassInv, ReadSome, vars
<1>2. nread \in 1 .. Len(io[h].unread)
  <2>1. Len(io[h].unread) \in Nat \ {0}
    BY <1>1, LenProperties, EmptySeq DEF IORecords
  <2> QED BY <2>1, SocketIOAssumption DEF Least
<1> HIDE DEF nread
<1>3. CASE g # h
  BY <1>1, <1>3, QuietKeeps DEF Quiet, SameRequest, SameResponse, Unmoved
<1>4. CASE g = h
  <2>1. io'[h] = b
    BY <1>1
  <2>2. /\ b.sent = io[h].sent /\ b.unread = SubSeq(io[h].unread, nread + 1, Len(io[h].unread))
        /\ b.inBuffer = io[h].inBuffer \o SubSeq(io[h].unread, 1, nread)
        /\ b.made = io[h].made /\ b.outBuffer = io[h].outBuffer
        /\ b.writeSum = io[h].writeSum /\ b.wire = io[h].wire
    BY <1>1 DEF IORecords
  <2> HIDE DEF b
  <2>3. Way!Pull(<<h, "request">>)
    BY <1>2, <2>1, <2>2, RequestPull
  <2>4. Way!Rest(<<h, "response">>)
    BY <1>1, <2>1, <2>2, ResponseRests DEF SameResponse
  <2>5. Passes(h)'
    BY <1>1, <1>4, <2>1, <2>2 DEF Passes, InPhase
  <2> QED BY <1>4, <2>3, <2>4, <2>5 DEF StreamStep, Way!Step
<1> QED BY <1>3, <1>4

(* The parser rejects a request or finishes it. *)
LEMMA NotBoth ==
  ASSUME NEW c \in HttpDatas, NEW k, ~c.error, ~c.finish, NEW d \in ReadOutcomes(c, k)
  PROVE  d.error \in BOOLEAN /\ (d.error => ~d.finish)
<1> DEFINE c1 == [c EXCEPT !.more = FALSE]
           c2 == [c1 EXCEPT !.connectionState = IF k.fin THEN "DISCONNECTING" ELSE @]
<1>1. c1 \in HttpDatas /\ ~c1.error /\ ~c1.finish
  BY DEF HttpDatas
<1>2. c2 \in HttpDatas /\ ~c2.error /\ ~c2.finish
  <2> HIDE DEF c1
  <2> QED BY <1>1 DEF HttpDatas, Conns
<1>3. ReadOutcomes(c, k) =
        IF c.connectionState = "DISCONNECTING" THEN {c1}
        ELSE IF k.rst THEN {[c1 EXCEPT !.error = TRUE]}
        ELSE IF k.fin /\ ~k.inq THEN {c2}
        ELSE ParseAgain(c2) \cup ParseBad(c2) \cup ParseFinish(c2)
  BY Zenon DEF ReadOutcomes
<1> HIDE DEF c1, c2
<1>4. \/ d \in {c1, c2} \/ d = [c1 EXCEPT !.error = TRUE] \/ d = [c2 EXCEPT !.error = TRUE]
      \/ \E m, o : d = Finished(c2, m, o)
  <2>1. d \in ParseFinish(c2) => \E m, o : d = Finished(c2, m, o)
    BY DEF ParseFinish
  <2>2. d \in ParseBad(c2) => d = [c2 EXCEPT !.error = TRUE]
    BY DEF ParseBad
  <2>3. d \in ParseAgain(c2) => d = c2
    BY DEF ParseAgain
  <2> QED BY <1>3, <2>1, <2>2, <2>3, Zenon
<1>5. ASSUME NEW x \in HttpDatas, ~x.error, ~x.finish, NEW y,
             \/ y = x \/ y = [x EXCEPT !.error = TRUE] \/ \E m, o : y = Finished(x, m, o)
      PROVE  y.error \in BOOLEAN /\ (y.error => ~y.finish)
  <2>1. CASE y = x
    BY <1>5, <2>1 DEF HttpDatas
  <2>2. CASE y = [x EXCEPT !.error = TRUE]
    BY <1>5, <2>2 DEF HttpDatas
  <2>3. ASSUME NEW m, NEW o, y = Finished(x, m, o)
        PROVE  y.error \in BOOLEAN /\ (y.error => ~y.finish)
    BY <1>5, <2>3 DEF Finished, HttpDatas
  <2> QED BY <1>5, <2>1, <2>2, <2>3
<1>6. CASE d \in {c1} \/ d = [c1 EXCEPT !.error = TRUE]
  BY <1>1, <1>5, <1>6, Zenon
<1>7. CASE \/ d = c2 \/ d = [c2 EXCEPT !.error = TRUE]
           \/ \E m, o : d = Finished(c2, m, o)
  BY <1>2, <1>5, <1>7, Zenon
<1> QED BY <1>4, <1>6, <1>7, Zenon

LEMMA ReadEndStreams ==
  ASSUME IOInv, PassInv, NEW l \in Loops, NEW h \in Https, ReadEnd(l, h), NEW g \in Https
  PROVE  Passes(g)' /\ StreamStep(g)
<1> DEFINE k == [sock[h] EXCEPT !.inq = ~sock[h].rst /\ io[h].unread # <<>>]
           q == io[h].readSum > 0
<1>1. /\ http \in [Https -> HttpDatas] /\ io \in [Https -> IORecords] /\ io[h] \in IORecords
      /\ phase \in [Loops -> Phases] /\ IInv /\ Passes(g) /\ Passes(h)
      /\ cur[l] = h /\ phase[l] = "read" /\ Parsed(l, h, k)
  BY DEF IOInv, IInv, TypeOK, Agreed, PassInv, ReadEnd, Reading
<1>2. Calm(h)
  <2>1. /\ ~InPhase(h, {"write", "conn"}) /\ ~InPhase(h, {"tail"})
        /\ ~InPhase(h, {"tail", "write"})
    BY <1>1, Here
  <2>2. io[h].writeSum \in Nat
    BY <1>1 DEF IORecords
  <2> QED BY <1>1, <2>1, <2>2 DEF Passes, Calm
<1> HIDE DEF k
<1>3. PICK c \in ReadOutcomes(http[h], [k EXCEPT !.inq = q]) :
        /\ HandleReadTo(l, h, c, k)
        /\ \E keep \in BOOLEAN, n \in 0 .. MaxMade - io[h].made :
           LET b == Answered(h, keep, n)
           IN  /\ Answers(h, c, b)
               /\ \E p \in IF c.error THEN Noted(h, b) ELSE {b} : io' = [io EXCEPT ![h] = p]
  BY <1>1 DEF Parsed
<1>4. PICK keep \in BOOLEAN, n \in 0 .. MaxMade - io[h].made :
        LET b == Answered(h, keep, n)
        IN  /\ Answers(h, c, b)
            /\ \E p \in IF c.error THEN Noted(h, b) ELSE {b} : io' = [io EXCEPT ![h] = p]
  BY <1>3
<1> DEFINE b == Answered(h, keep, n)
<1>5. PICK p \in IF c.error THEN Noted(h, b) ELSE {b} : io' = [io EXCEPT ![h] = p]
  BY <1>4
<1>6. /\ http' = [http EXCEPT ![h] = c] /\ cur' = cur
      /\ phase' = [phase EXCEPT ![l] = IF c.error THEN AfterRead(c) ELSE "tail"]
  BY <1>3 DEF HandleReadTo
<1>7. CASE g # h
  BY <1>1, <1>5, <1>6, <1>7, OthersQuiet, QuietKeeps
<1>8. CASE g = h
  <2>1. /\ http'[h] = c /\ io'[h] = p
        /\ phase'[l] = IF c.error THEN AfterRead(c) ELSE "tail"
    BY <1>1, <1>5, <1>6
  <2>2. c.error \in BOOLEAN /\ (c.error => ~c.finish)
    BY <1>1, <1>2, <1>3, NotBoth DEF Calm
  <2>3. io[h].made \in Nat /\ n \in Nat
    <3>1. io[h].made \in Nat
      BY <1>1 DEF IORecords
    <3> DEFINE m == io[h].made
    <3>2. m \in Nat /\ n \in 0 .. MaxMade - m
      BY <3>1
    <3> HIDE DEF m
    <3>3. n \in Nat
      BY <3>2, SocketIOAssumption
    <3> QED BY <3>1, <3>3
  <2>4. /\ b \in IORecords /\ b.writeSum = 0 /\ b.unread = io[h].unread
        /\ b.sent = io[h].sent /\ b.inBuffer = io[h].inBuffer /\ b.wire = io[h].wire
        /\ b.made = io[h].made + n
        /\ b.outBuffer = (IF keep THEN io[h].outBuffer ELSE <<>>) \o Bytes(io[h].made, n)
    <3>1. b \in IORecords /\ b.writeSum = 0 /\ b.unread = io[h].unread
      BY <1>1, AnsweredType
    <3> QED BY <1>1, <3>1 DEF Answered, IORecords
  <2>5. /\ n > 0 => c.finish
        /\ n = 0 => b.outBuffer = io[h].outBuffer
    <3>1. Answers(h, c, b)
      BY <1>4
    <3> HIDE DEF b
    <3>2. (b.made > io[h].made => c.finish) /\ (b.made = io[h].made => b.outBuffer = io[h].outBuffer)
      BY <3>1 DEF Answers
    <3>3. ASSUME NEW made \in Nat, NEW m \in Nat
          PROVE  (m > 0 => made + m > made) /\ (m = 0 => made + m = made)
      OBVIOUS
    <3>4. (n > 0 => b.made > io[h].made) /\ (n = 0 => b.made = io[h].made)
      BY <2>3, <2>4, <3>3, Zenon
    <3> QED BY <3>2, <3>4, Zenon
  <2> HIDE DEF b
  <2>6. /\ p.writeSum = 0 /\ p.unread = b.unread /\ p.outBuffer = b.outBuffer
        /\ p.sent = b.sent /\ p.inBuffer = b.inBuffer /\ p.made = b.made
        /\ p.wire = b.wire \/ (c.error /\ p.wire = Append(b.wire, Page))
    <3>1. p = b \/ (c.error /\ p = [b EXCEPT !.wire = Append(@, Page), !.room = @ - 1])
      BY <1>5 DEF Noted
    <3> QED BY <2>4, <3>1 DEF IORecords
  <2>7. Way!Rest(<<h, "request">>)
    BY <2>1, <2>4, <2>6, RequestRests DEF SameRequest
  <2>8. ~http[h].error /\ io[h].writeSum = 0
    BY <1>2 DEF Calm
  <2>9. CASE c.error
    <3>1. n = 0
      BY <2>2, <2>3, <2>5, <2>9
    <3>2. http'[h].error /\ io'[h].made = io[h].made
      BY <2>1, <2>3, <2>4, <2>6, <2>9, <3>1
    <3>3. io'[h].wire \in {io[h].wire, Append(io[h].wire, Page)}
      BY <2>1, <2>4, <2>6
    <3>4. Way!End(<<h, "response">>)
      BY <2>8, <3>2, <3>3, ResponseEnds
    <3>5. Passes(h)'
      <4>1. phase'[l] \in {"write", "conn"} /\ cur'[l] = h
        BY <1>1, <1>6, <2>1, <2>9 DEF AfterRead
      <4> QED BY <2>1, <2>2, <2>6, <2>9, <4>1 DEF Passes, InPhase
    <3> QED BY <1>8, <2>7, <3>4, <3>5 DEF StreamStep, Way!Step
  <2>10. CASE ~c.error
    <3>1. Passes(h)'
      <4>1. phase'[l] = "tail" /\ cur'[l] = h
        BY <1>1, <1>6, <2>1, <2>10
      <4> QED BY <2>1, <2>6, <2>10, <4>1 DEF Passes, InPhase
    <3>2. io[h].outBuffer \in Seq(Nat) /\ b.outBuffer \in Seq(Nat)
      BY <1>1, <2>4 DEF IORecords
    <3>3. Left(h) = io[h].outBuffer /\ Left(h)' = b.outBuffer
      <4>1. Left(h) = SubSeq(io[h].outBuffer, 1, Len(io[h].outBuffer))
        BY <2>8 DEF Left
      <4>2. Left(h)' = SubSeq(b.outBuffer, 1, Len(b.outBuffer))
        BY <2>1, <2>6 DEF Left
      <4> QED BY <3>2, <4>1, <4>2, SubSeqFull
    <3>4. /\ io'[h].made = io[h].made + n /\ ~http'[h].error
          /\ io'[h].wire = io[h].wire
      BY <2>1, <2>4, <2>6, <2>10
    <3>5. CASE n = 0
      <4>1. http[h].error = FALSE /\ http'[h].error = FALSE
        BY <1>1, <2>1, <2>2, <2>8, <2>10 DEF HttpDatas
      <4>2. io'[h].made = io[h].made
        BY <2>3, <3>4, <3>5
      <4>3. io'[h].outBuffer = io[h].outBuffer /\ io'[h].writeSum = io[h].writeSum
        BY <2>1, <2>5, <2>6, <2>8, <3>5
      <4> QED BY <1>8, <2>7, <3>1, <3>4, <4>1, <4>2, <4>3, ResponseRests DEF StreamStep, SameResponse
    <3>6. CASE n # 0
      <4>1. Bytes(io[h].made, n) \in Seq(Nat)
        BY <2>3, BytesType
      <4>2. Left(h)' = (IF keep THEN Left(h) ELSE <<>>) \o Bytes(io[h].made, n)
        BY <2>4, <3>3
      <4>3. Way!Step(<<h, "response">>)
        BY <2>3, <2>8, <3>4, <3>6, <4>1, <4>2, ResponseMade
      <4> QED BY <1>8, <2>7, <3>1, <4>3 DEF StreamStep
    <3> QED BY <3>5, <3>6
  <2> QED BY <2>9, <2>10
<1> QED BY <1>7, <1>8

-----------------------------------------------------------------------------
(* writen. *)

(* The rest of outBuffer_ after n more bytes. *)
LEMMA RestOfRest ==
  ASSUME NEW s \in Seq(Nat), NEW k \in Nat, NEW n \in Nat, k + n <= Len(s)
  PROVE  LET left == SubSeq(s, k + 1, Len(s))
         IN  SubSeq(left, n + 1, Len(left)) = SubSeq(s, k + n + 1, Len(s))
<1> DEFINE left == SubSeq(s, k + 1, Len(s))
<1>1. Len(s) \in Nat /\ k <= Len(s)
  BY LenProperties
<1>2. Len(left) = Len(s) - k
  BY <1>1, Rest
<1>3. CASE k + n = Len(s)
  <2>1. n + 1 \in Int /\ Len(left) \in Int /\ Len(left) < n + 1
    BY <1>1, <1>2, <1>3
  <2>2. k + n + 1 \in Int /\ Len(s) \in Int /\ Len(s) < k + n + 1
    BY <1>1, <1>3
  <2> HIDE DEF left
  <2>3. SubSeq(left, n + 1, Len(left)) = <<>> /\ SubSeq(s, k + n + 1, Len(s)) = <<>>
    BY <2>1, <2>2, SubSeqEmpty
  <2> QED BY <2>3 DEF left
<1>4. CASE k + n < Len(s)
  <2>1. ASSUME NEW j \in Nat, k + n < j
        PROVE  /\ k + 1 \in 1 .. j /\ j \in 1 .. j
               /\ n + 1 \in 1 .. j - (k + 1) + 1 /\ j - k \in 1 .. j - (k + 1) + 1
               /\ (k + 1) + (n + 1) - 1 = k + n + 1 /\ (k + 1) + (j - k) - 1 = j
    BY <2>1
  <2> DEFINE j == Len(s)
  <2>2. j \in Nat /\ k + n < j
    BY <1>1, <1>4
  <2>3. SubSeq(SubSeq(s, k + 1, Len(s)), n + 1, j - k)
          = SubSeq(s, (k + 1) + (n + 1) - 1, (k + 1) + (j - k) - 1)
    BY <2>1, <2>2, SubSeqOfSubSeq
  <2>4. /\ (k + 1) + (n + 1) - 1 = k + n + 1 /\ (k + 1) + (j - k) - 1 = j
    BY <2>1, <2>2
  <2> HIDE DEF left
  <2>5. SubSeq(left, n + 1, Len(left)) = SubSeq(s, k + n + 1, Len(s))
    BY <1>2, <2>3, <2>4 DEF left
  <2> QED BY <2>5 DEF left
<1> QED BY <1>1, <1>3, <1>4

(* What the end of handleRead or a handleWrite leaves of a pass. *)
LEMMA WriteEnded ==
  ASSUME IOInv, NEW l \in Loops, NEW h \in Https, Passes(h), NEW w \in Writes,
         FinishReadWith(l, h, w) \/ HandleWriteWith(l, h, w)
  PROVE  \E c, p :
           /\ http' = [http EXCEPT ![h] = c] /\ phase' = [phase EXCEPT ![l] = p] /\ cur' = cur
           /\ c.error = IF Writing(l, h) THEN w.error ELSE http[h].error
           /\ ~c.error => ~c.finish
           /\ c.error => p \in {"write", "conn"}
<1>1. /\ cur[l] = h /\ phase[l] \in {"tail", "write"} /\ cur' = cur /\ IInv
  BY DEF FinishReadWith, HandleWriteWith, IOInv
<1>2. http[h] \in HttpDatas /\ http[h].connectionState # "DISCONNECTED"
  BY <1>1, InHand
<1>3. /\ phase[l] = "tail" => ~http[h].error
      /\ phase[l] = "write" /\ ~http[h].error => ~http[h].finish
  <2>1. phase[l] = "tail" => ~InPhase(h, {"write", "conn"})
    BY <1>1, Here
  <2>2. phase[l] = "write" => ~InPhase(h, {"tail"})
    BY <1>1, Here
  <2> QED BY <2>1, <2>2 DEF Passes
<1> DEFINE d == WriteTo(http[h], w)
<1>4. /\ Skips(http[h]) <=> http[h].error
      /\ d.finish = http[h].finish /\ d \in HttpDatas
      /\ d.error = IF http[h].error THEN http[h].error ELSE w.error
  <2>1. Skips(http[h]) <=> http[h].error
    BY <1>2 DEF Skips
  <2>2. d \in HttpDatas
    BY <1>2, WriteType
  <2>3. d.finish = http[h].finish /\ d.error = IF http[h].error THEN http[h].error ELSE w.error
    BY <1>2, <2>1 DEF WriteTo, HttpDatas
  <2> QED BY <2>1, <2>2, <2>3
<1> HIDE DEF d
<1>5. CASE FinishReadWith(l, h, w)
  <2> DEFINE c == IF http[h].out THEN d ELSE http[h]
             again == ~c.error /\ c.finish /\ c.more /\ c.connectionState # "DISCONNECTING"
             e == IF c.error THEN c
                  ELSE IF c.finish THEN ResetHttp(c)
                  ELSE IF c.connectionState # "DISCONNECTED"
                       THEN [c EXCEPT !.events = @ \cup {"IN"}] ELSE c
             p == IF again THEN "read" ELSE AfterRead(c)
  <2>1. /\ phase[l] = "tail" /\ http' = [http EXCEPT ![h] = e]
        /\ phase' = [phase EXCEPT ![l] = p]
    BY <1>5 DEF FinishReadWith, d
  <2>2. Writing(l, h) <=> http[h].out
    BY <1>1, <1>3, <1>4, <2>1 DEF Writing
  <2>3. c \in HttpDatas /\ c.error = IF Writing(l, h) THEN w.error ELSE http[h].error
    BY <1>2, <1>3, <1>4, <2>1, <2>2
  <2> HIDE DEF c
  <2>4. e.error = c.error /\ (~e.error => ~e.finish)
    <3>1. ResetHttp(c).error = c.error /\ ~ResetHttp(c).finish
      BY <2>3 DEF ResetHttp, SeperateTimer, HttpDatas
    <3>2. LET x == [c EXCEPT !.events = @ \cup {"IN"}]
          IN  x.error = c.error /\ x.finish = c.finish
      BY <2>3 DEF HttpDatas
    <3> QED BY <3>1, <3>2
  <2>5. c.error => p \in {"write", "conn"}
    BY DEF AfterRead
  <2> HIDE DEF e, p
  <2> QED BY <1>1, <2>1, <2>3, <2>4, <2>5
<1>6. CASE HandleWriteWith(l, h, w)
  <2>1. /\ phase[l] = "write" /\ http' = [http EXCEPT ![h] = d]
        /\ phase' = [phase EXCEPT ![l] = "conn"]
    BY <1>6 DEF HandleWriteWith, d
  <2>2. Writing(l, h) <=> ~http[h].error
    BY <1>1, <1>4, <2>1 DEF Writing
  <2>3. d.error = IF Writing(l, h) THEN w.error ELSE http[h].error
    BY <1>4, <2>2
  <2>4. ~d.error => ~d.finish
    BY <1>3, <1>4, <2>1
  <2> QED BY <1>1, <2>1, <2>3, <2>4
<1> QED BY <1>5, <1>6

(* It is enough to look at the responses of h when writen returns. *)
LEMMA ReturnStreams ==
  ASSUME IOInv, PassInv, NEW l \in Loops, NEW h \in Https, NEW w \in Writes, NEW b,
         Return(l, h, b, w), b.sent = io[h].sent, b.unread = io[h].unread,
         b.inBuffer = io[h].inBuffer, b.writeSum = 0,
         http'[h].error = (IF Writing(l, h) THEN w.error ELSE http[h].error) /\ io'[h] = b
           => Way!Step(<<h, "response">>) \/ Way!Rest(<<h, "response">>),
         NEW g \in Https
  PROVE  Passes(g)' /\ StreamStep(g)
<1>1. /\ http \in [Https -> HttpDatas] /\ io \in [Https -> IORecords]
      /\ phase \in [Loops -> Phases] /\ Passes(g) /\ Passes(h)
  BY DEF IOInv, IInv, TypeOK, Agreed, PassInv
<1>2. /\ FinishReadWith(l, h, w) \/ HandleWriteWith(l, h, w)
      /\ io' = [io EXCEPT ![h] = b] /\ cur[l] = h
  BY DEF Return, FinishReadWith, HandleWriteWith
<1>3. PICK c, p :
        /\ http' = [http EXCEPT ![h] = c] /\ phase' = [phase EXCEPT ![l] = p] /\ cur' = cur
        /\ c.error = IF Writing(l, h) THEN w.error ELSE http[h].error
        /\ ~c.error => ~c.finish
        /\ c.error => p \in {"write", "conn"}
  BY <1>1, <1>2, WriteEnded
<1>4. CASE g # h
  BY <1>1, <1>2, <1>3, <1>4, OthersQuiet, QuietKeeps
<1>5. CASE g = h
  <2>1. http'[h] = c /\ io'[h] = b /\ phase'[l] = p /\ cur'[l] = h
    BY <1>1, <1>2, <1>3
  <2>2. Way!Rest(<<h, "request">>)
    BY <2>1, RequestRests DEF SameRequest
  <2>3. Way!Step(<<h, "response">>) \/ Way!Rest(<<h, "response">>)
    BY <1>3, <2>1
  <2>4. Passes(h)'
    BY <1>3, <2>1 DEF Passes, InPhase
  <2> QED BY <1>5, <2>2, <2>3, <2>4 DEF StreamStep
<1> QED BY <1>4, <1>5

(* writen is where Passes says, and outBuffer_ holds what is left. *)
LEMMA WriteHere ==
  ASSUME IOInv, NEW l \in Loops, NEW h \in Https, Passes(h), cur[l] = h
  PROVE  /\ Writing(l, h) => ~http[h].error /\ phase[l] \in {"tail", "write"}
         /\ ~Writing(l, h) \/ Left(h) = <<>> => io[h].writeSum = 0
<1>1. IInv /\ io[h].writeSum \in Nat
  BY DEF IOInv, Agreed, IORecords
<1>2. Writing(l, h) => ~http[h].error /\ phase[l] \in {"tail", "write"}
  BY DEF Writing, Skips
<1>3. ASSUME io[h].writeSum > 0 PROVE Writing(l, h) /\ Left(h) # <<>>
  <2>1. /\ io[h].writeSum < Len(io[h].outBuffer) /\ Len(Left(h)) # 0
        /\ Left(h) # <<>> /\ http[h].out
    BY <1>1, <1>3, BeforeWrite
  <2>2. ~http[h].error /\ phase[l] \in {"tail", "write"}
    BY <1>1, <1>3, Here DEF Passes
  <2>3. http[h].connectionState # "DISCONNECTED"
    BY <1>1, InHand
  <2> QED BY <2>1, <2>2, <2>3 DEF Writing, Skips
<1> QED BY <1>1, <1>2, <1>3

LEMMA WriteSomeStreams ==
  ASSUME IOInv, PassInv, NEW l \in Loops, NEW h \in Https, WriteSome(l, h), NEW g \in Https
  PROVE  Passes(g)' /\ StreamStep(g)
<1>1. /\ io \in [Https -> IORecords] /\ io[h] \in IORecords /\ Passes(g) /\ Passes(h)
      /\ UNCHANGED <<http, phase, cur>> /\ cur[l] = h /\ Writing(l, h)
  BY DEF IOInv, Agreed, PassInv, WriteSome, Writing, vars
<1>2. PICK n \in 1 .. Least(io[h].room, Len(Left(h)) - 1) : io' = [io EXCEPT ![h] = Taken(h, n)]
  BY DEF WriteSome
<1> DEFINE b == Taken(h, n)
<1>3. CASE g # h
  <2>1. io'[g] = io[g]
    BY <1>1, <1>2, <1>3
  <2> QED BY <1>1, <2>1, QuietKeeps DEF Quiet, SameRequest, SameResponse, Unmoved
<1>4. CASE g = h
  <2>1. /\ n \in Nat /\ n <= io[h].room /\ n < Len(Left(h)) /\ n <= Len(Left(h))
        /\ n \in 1 .. Len(Left(h))
    BY <1>1, <1>2, BeforeWrite DEF Least
  <2>2. io[h].writeSum \in Nat /\ io[h].writeSum + n <= Len(io[h].outBuffer)
    BY <1>1, <2>1, BeforeWrite
  <2>3. /\ b.sent = io[h].sent /\ b.unread = io[h].unread /\ b.inBuffer = io[h].inBuffer
        /\ b.made = io[h].made /\ b.outBuffer = io[h].outBuffer
        /\ b.writeSum = io[h].writeSum + n
        /\ b.wire = io[h].wire \o SubSeq(Left(h), 1, n)
    BY <1>1 DEF Taken, IORecords
  <2>4. io'[h] = b
    BY <1>1, <1>2
  <2> HIDE DEF b
  <2>5. Left(h)' = SubSeq(Left(h), n + 1, Len(Left(h)))
    <3>1. Left(h)' = SubSeq(io[h].outBuffer, io[h].writeSum + n + 1, Len(io[h].outBuffer))
      BY <2>3, <2>4 DEF Left
    <3>2. io[h].outBuffer \in Seq(Nat)
      BY <1>1 DEF IORecords
    <3> QED BY <2>1, <2>2, <3>1, <3>2, RestOfRest DEF Left
  <2>6. ~http[h].error /\ phase[l] \in {"tail", "write"}
    BY <1>1, WriteHere
  <2>7. Way!Pull(<<h, "response">>)
    BY <1>1, <2>1, <2>3, <2>4, <2>5, <2>6, ResponsePull
  <2>8. Way!Rest(<<h, "request">>)
    BY <2>3, <2>4, RequestRests DEF SameRequest
  <2>9. Passes(h)'
    BY <1>1, <2>6 DEF Passes, InPhase
  <2> QED BY <1>4, <2>7, <2>8, <2>9 DEF StreamStep, Way!Step
<1> QED BY <1>3, <1>4

LEMMA WriteRestStreams ==
  ASSUME IOInv, PassInv, NEW l \in Loops, NEW h \in Https, WriteRest(l, h), NEW g \in Https
  PROVE  Passes(g)' /\ StreamStep(g)
<1> DEFINE n == Len(Left(h))
           t == Taken(h, n)
           b == Trim(t)
<1>1. /\ io[h] \in IORecords /\ Passes(h) /\ cur[l] = h /\ Writing(l, h)
      /\ n \in 1 .. io[h].room /\ Return(l, h, b, Outcome(b))
  BY DEF IOInv, Agreed, PassInv, WriteRest, Writing
<1>2. /\ n \in Nat /\ n <= io[h].room /\ n \in 1 .. n
      /\ io[h].writeSum + n = Len(io[h].outBuffer)
      /\ io[h].writeSum <= Len(io[h].outBuffer)
  <2>1. /\ io[h].room \in Nat /\ io[h].writeSum \in Nat /\ Len(io[h].outBuffer) \in Nat
        /\ n = Len(io[h].outBuffer) - io[h].writeSum
        /\ io[h].writeSum <= Len(io[h].outBuffer)
    BY <1>1, BeforeWrite
  <2> HIDE DEF n
  <2> QED BY <1>1, <2>1
<1>3. /\ t \in IORecords /\ t.outBuffer = io[h].outBuffer
      /\ t.writeSum = Len(t.outBuffer)
  BY <1>1, <1>2, TakenType
<1>4. /\ t.sent = io[h].sent /\ t.unread = io[h].unread /\ t.inBuffer = io[h].inBuffer
      /\ t.made = io[h].made /\ t.wire = io[h].wire \o SubSeq(Left(h), 1, n)
  BY <1>1 DEF Taken, IORecords
<1> HIDE DEF t
<1>5. /\ b.sent = t.sent /\ b.unread = t.unread /\ b.inBuffer = t.inBuffer
      /\ b.made = t.made /\ b.wire = t.wire /\ b.writeSum = 0
  BY <1>3 DEF Trim, IORecords
<1>6. b.outBuffer = <<>>
  <2>1. t.writeSum <= Len(t.outBuffer)
    BY <1>2, <1>3
  <2> QED BY <1>3, <2>1, TrimType
<1> HIDE DEF b
<1>7. ~http[h].error /\ sock[h] \in Socks /\ sock[h].space /\ ~sock[h].rst
  BY <1>1, <1>2, WriteHere, BeforeWrite DEF WriteRest
<1>8. Outcome(b) \in Writes /\ Outcome(b).error = FALSE
  BY <1>6, <1>7, AllowedOutcome DEF Outcome
<1>9. ASSUME http'[h].error = FALSE, io'[h] = b PROVE Way!Pull(<<h, "response">>)
  <2>1. Left(h)' = <<>>
    <3>1. SubSeq(<<>>, 0 + 1, Len(<<>>)) = <<>>
      OBVIOUS
    <3> QED BY <1>5, <1>6, <1>9, <3>1 DEF Left
  <2>2. SubSeq(Left(h), n + 1, Len(Left(h))) = <<>>
    <3>1. n + 1 \in Int /\ n \in Int /\ n < n + 1
      BY <1>2
    <3> QED BY <3>1, SubSeqEmpty
  <2> QED BY <1>2, <1>4, <1>5, <1>7, <1>9, <2>1, <2>2, ResponsePull
<1>10. http'[h].error = (IF Writing(l, h) THEN Outcome(b).error ELSE http[h].error) /\ io'[h] = b
         => Way!Step(<<h, "response">>) \/ Way!Rest(<<h, "response">>)
  BY <1>1, <1>8, <1>9 DEF Way!Step
<1> QED BY <1>1, <1>4, <1>5, <1>8, <1>10, ReturnStreams

LEMMA WriteFullStreams ==
  ASSUME IOInv, PassInv, NEW l \in Loops, NEW h \in Https, WriteFull(l, h), NEW g \in Https
  PROVE  Passes(g)' /\ StreamStep(g)
<1> DEFINE b == Trim(io[h])
<1>1. /\ io[h] \in IORecords /\ Passes(h) /\ cur[l] = h /\ Writing(l, h) /\ ~sock[h].rst
      /\ Left(h) # <<>> /\ io[h].room = 0 /\ Return(l, h, b, Outcome(b))
  BY DEF IOInv, Agreed, PassInv, WriteFull, Writing
<1>2. /\ b.sent = io[h].sent /\ b.unread = io[h].unread /\ b.inBuffer = io[h].inBuffer
      /\ b.made = io[h].made /\ b.wire = io[h].wire /\ b.writeSum = 0 /\ b.room = 0
      /\ b.outBuffer = Left(h)
  BY <1>1 DEF Trim, Left, IORecords
<1> HIDE DEF b
<1>3. http[h].error = FALSE /\ sock[h] \in Socks
  <2>1. http[h] \in HttpDatas /\ ~http[h].error /\ sock[h] \in Socks
    BY <1>1, WriteHere, BeforeWrite DEF IOInv, IInv, TypeOK
  <2> QED BY <2>1 DEF HttpDatas
<1>4. Outcome(b) \in Writes /\ Outcome(b).error = FALSE
  <2>1. b.outBuffer # <<>> /\ ~(b.room > 0)
    BY <1>1, <1>2
  <2> QED BY <1>1, <1>3, <2>1, AllowedOutcome DEF Outcome
<1>5. ASSUME http'[h].error = FALSE, io'[h] = b PROVE Way!Rest(<<h, "response">>)
  <2>1. Left(h) \in Seq(Nat)
    BY <1>1, BeforeWrite, Rest DEF Left, IORecords
  <2>2. Left(h)' = Left(h)
    <3>1. Left(h)' = SubSeq(Left(h), 0 + 1, Len(Left(h)))
      BY <1>2, <1>5 DEF Left
    <3> QED BY <2>1, <3>1, SubSeqFull
  <2> QED BY <1>2, <1>3, <1>5, <2>2 DEF Way!Rest, Ways
<1>6. http'[h].error = (IF Writing(l, h) THEN Outcome(b).error ELSE http[h].error) /\ io'[h] = b
        => Way!Step(<<h, "response">>) \/ Way!Rest(<<h, "response">>)
  BY <1>1, <1>4, <1>5
<1> QED BY <1>1, <1>2, <1>4, <1>6, ReturnStreams

LEMMA WriteFailsStreams ==
  ASSUME IOInv, PassInv, NEW l \in Loops, NEW h \in Https, WriteFails(l, h), NEW g \in Https
  PROVE  Passes(g)' /\ StreamStep(g)
<1> DEFINE b == [io[h] EXCEPT !.writeSum = 0]
           w == [out |-> TRUE, error |-> TRUE, space |-> sock[h].space]
<1>1. /\ io[h] \in IORecords /\ Passes(h) /\ cur[l] = h /\ Writing(l, h)
      /\ Return(l, h, b, w)
  BY DEF IOInv, Agreed, PassInv, WriteFails, Writing
<1>2. /\ b.sent = io[h].sent /\ b.unread = io[h].unread /\ b.inBuffer = io[h].inBuffer
      /\ b.made = io[h].made /\ b.wire = io[h].wire /\ b.writeSum = 0
  BY <1>1 DEF IORecords
<1> HIDE DEF b
<1>3. ~http[h].error
  BY <1>1, WriteHere
<1>4. w \in Writes /\ w.error = TRUE
  BY <1>1, BeforeWrite DEF Writes, Socks
<1> HIDE DEF w
<1>5. ASSUME http'[h].error = TRUE, io'[h] = b PROVE Way!End(<<h, "response">>)
  BY <1>2, <1>3, <1>5, ResponseEnds
<1>6. http'[h].error = (IF Writing(l, h) THEN w.error ELSE http[h].error) /\ io'[h] = b
        => Way!Step(<<h, "response">>) \/ Way!Rest(<<h, "response">>)
  BY <1>1, <1>4, <1>5 DEF Way!Step
<1> QED BY <1>1, <1>2, <1>4, <1>6, ReturnStreams

LEMMA WriteNothingStreams ==
  ASSUME IOInv, PassInv, NEW l \in Loops, NEW h \in Https, WriteNothing(l, h), NEW g \in Https
  PROVE  Passes(g)' /\ StreamStep(g)
<1> DEFINE w == [out |-> FALSE, error |-> FALSE, space |-> sock[h].space]
<1>1. /\ io[h] \in IORecords /\ Passes(h) /\ cur[l] = h /\ (~Writing(l, h) \/ Left(h) = <<>>)
      /\ Return(l, h, io[h], w)
  BY DEF IOInv, Agreed, PassInv, WriteNothing, Return, FinishReadWith, HandleWriteWith
<1>2. w \in Writes /\ w.error = FALSE
  BY <1>1, BeforeWrite DEF Writes, Socks
<1> HIDE DEF w
<1>3. io[h].writeSum = 0
  BY <1>1, WriteHere
<1>4. Writing(l, h) => http[h].error = FALSE
  <2>1. http[h] \in HttpDatas
    BY DEF IOInv, IInv, TypeOK
  <2> QED BY <1>1, <2>1, WriteHere DEF HttpDatas
<1>5. http'[h].error = (IF Writing(l, h) THEN w.error ELSE http[h].error) /\ io'[h] = io[h]
        => Way!Step(<<h, "response">>) \/ Way!Rest(<<h, "response">>)
  BY <1>2, <1>4, ResponseRests DEF SameResponse
<1> QED BY <1>1, <1>2, <1>3, <1>5, ReturnStreams
-----------------------------------------------------------------------------
LEMMA StreamsStep ==
  IOInv /\ PassInv /\ [IONext]_ioVars => PassInv' /\ \A h \in Https : StreamStep(h)
<1> SUFFICES ASSUME IOInv, PassInv, [IONext]_ioVars, NEW h \in Https
             PROVE  Passes(h)' /\ StreamStep(h)
  BY DEF PassInv
<1>1. ASSUME NEW g \in Https, IOClient(g) PROVE Passes(h)' /\ StreamStep(h)
  BY <1>1, ClientStreams
<1>2. ASSUME NEW g \in Https, NEW f \in Fds, NEW l \in Loops, Accepted(g, f, l)
      PROVE  Passes(h)' /\ StreamStep(h)
  BY <1>2, AcceptedStreams
<1>3. ASSUME NEW l \in Loops, Readn(l) PROVE Passes(h)' /\ StreamStep(h)
  BY <1>3, ReadSomeStreams, ReadEndStreams DEF Readn
<1>4. ASSUME NEW l \in Loops, WritenLoop(l) PROVE Passes(h)' /\ StreamStep(h)
  BY <1>4, WriteSomeStreams, WriteRestStreams, WriteFullStreams, WriteFailsStreams,
     WriteNothingStreams DEF WritenLoop
<1>5. ASSUME NEW l \in Loops, OtherStep(l) PROVE Passes(h)' /\ StreamStep(h)
  BY <1>5, OtherStreams
<1>6. CASE UNCHANGED ioVars
  <2>1. UNCHANGED <<http, phase, cur, io>>
    BY <1>6 DEF ioVars, vars
  <2>2. Passes(h) /\ Quiet(h)
    BY <2>1 DEF PassInv, Quiet, SameRequest, SameResponse, Unmoved
  <2> QED BY <2>2, QuietKeeps
<1> QED BY <1>1, <1>2, <1>3, <1>4, <1>5, <1>6 DEF IONext, IOStep

(* Both directions of every connection keep the promise of ByteStream: no   *)
(* short, interrupted or failed call in readn or writen loses, repeats or   *)
(* reorders a byte, and nothing follows a page of handleError or a failed   *)
(* write (Util.cpp:54-78, 139-166, HttpData.cpp:281-295).                   *)
THEOREM ImplementsByteStream == IOSpec => Streams
<1>1. IOInit => PassInv /\ Way!Init
  <2> SUFFICES ASSUME IOInit PROVE PassInv /\ Way!Init
    OBVIOUS
  <2>1. \A h \in Https : http[h] = NewHttp /\ io[h] = NewIO
    BY DEF IOInit, Init
  <2>2. ASSUME NEW h \in Https
        PROVE  /\ Passes(h) /\ Way!Fresh(<<h, "request">>) /\ Way!Fresh(<<h, "response">>)
    <3>1. ~http[h].error /\ ~http[h].finish /\ io[h].writeSum = 0
      BY <2>1 DEF NewHttp, NewIO
    <3>2. /\ io[h].sent = 0 /\ io[h].unread = <<>> /\ io[h].inBuffer = <<>>
          /\ io[h].made = 0 /\ io[h].outBuffer = <<>> /\ io[h].wire = <<>>
      BY <2>1 DEF NewIO
    <3>3. Left(h) = <<>>
      <4>1. SubSeq(<<>>, 0 + 1, Len(<<>>)) = <<>>
        OBVIOUS
      <4> QED BY <3>1, <3>2, <4>1 DEF Left
    <3>4. Way!Fresh(<<h, "request">>)
      BY <3>2 DEF Way!Fresh, Ways
    <3>5. Way!Fresh(<<h, "response">>)
      BY <3>1, <3>2, <3>3 DEF Way!Fresh, Ways
    <3> QED BY <3>1, <3>4, <3>5 DEF Passes
  <2>3. ASSUME NEW s \in Ways PROVE Way!Fresh(s)
    <3>1. PICK h \in Https : s = <<h, "request">> \/ s = <<h, "response">>
      BY DEF Ways
    <3> QED BY <2>2, <3>1
  <2> QED BY <2>2, <2>3 DEF PassInv, Way!Init
<1>2. IOInv /\ PassInv /\ [IONext]_ioVars => PassInv' /\ Way!Next
  <2> SUFFICES ASSUME IOInv, PassInv, [IONext]_ioVars PROVE PassInv' /\ Way!Next
    OBVIOUS
  <2>1. PassInv' /\ \A h \in Https : StreamStep(h)
    BY StreamsStep
  <2>2. ASSUME NEW s \in Ways PROVE Way!Step(s) \/ Way!Rest(s)
    <3>1. PICK h \in Https : s = <<h, "request">> \/ s = <<h, "response">>
      BY DEF Ways
    <3> QED BY <2>1, <3>1 DEF StreamStep
  <2> QED BY <2>1, <2>2 DEF Way!Next
<1>3. IOSpec => []IOInv
  BY FlagsTell
<1> QED BY <1>1, <1>2, <1>3, PTL DEF IOSpec, Streams, Way!Spec
=============================================================================
