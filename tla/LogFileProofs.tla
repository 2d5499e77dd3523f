---------------------------- MODULE LogFileProofs ----------------------------
(***************************************************************************)
(* Proofs about LogFile: it leaves AsyncLogging as it is, so that what is  *)
(* proved there holds here, a killed process loses only lines that were    *)
(* appended since the last round of the logging thread began, and what is  *)
(* on disk is in the order in which it was appended.                       *)
(***************************************************************************)
EXTENDS LogFile, AsyncLoggingProofs

(* Every step of LogFile is one of AsyncLogging or leaves it alone.         *)
LEMMA StepMaps == [LogNext]_logVars => [Next]_vars
BY DEF LogNext, LogThread, Write, WriteAll, WriteShort, WriteRest, GiveUp, WriteAgain,
       LastWrite, EndRound, EndLoop, SwapNoted, Other, logVars, Next, Logger

(* LogFile implements AsyncLogging. *)
THEOREM ImplementsAsyncLogging == LogSpec => Spec
<1>1. LogInit => Init
  BY DEF LogInit
<1> QED BY <1>1, StepMaps, PTL DEF LogSpec, Spec

-----------------------------------------------------------------------------
(* The buffers append still fills have only lines that came after the swap. *)
Recent ==
  /\ swapped \in 0..lines
  /\ \A b \in {current} \cup Elems(buffers) : \A k \in Elems(content[b]) : k > swapped

(* What was handed over is on disk or in the stdio buffer. *)
Accepted == ~faulty => /\ ~repeating
                    /\ stdio \in Seq(Nat) /\ disk \in Seq(Nat)
                    /\ Elems(file) \subseteq Elems(disk) \cup Elems(stdio)

LInv == Recent /\ Accepted /\ Flushed

LEMMA Remaining ==
  ASSUME NEW m \in Nat, NEW k \in Nat, k <= m, k # m
  PROVE  k + 1 <= m /\ m - (k + 1) + 1 = m - k
<1>1. k + 1 <= m
  OBVIOUS
<1>2. m - (k + 1) + 1 = m - k
  OBVIOUS
<1> QED BY <1>1, <1>2

LEMMA ElemsSplit ==
  ASSUME NEW s \in Seq(Nat), NEW k \in 0..Len(s)
  PROVE  LET a == SubSeq(s, 1, k)
             b == SubSeq(s, k + 1, Len(s))
         IN  a \in Seq(Nat) /\ b \in Seq(Nat) /\ Elems(s) \subseteq Elems(a) \cup Elems(b)
<1> DEFINE a == SubSeq(s, 1, k)
           b == SubSeq(s, k + 1, Len(s))
<1>1. Len(s) \in Nat /\ DOMAIN s = 1..Len(s) /\ \A i \in 1..Len(s) : s[i] \in Nat
  BY LenProperties
<1>2. k \in Nat /\ k <= Len(s) /\ \A i \in 1..k : i \in 1..Len(s)
  BY <1>1
<1>3. a \in Seq(Nat) /\ Len(a) = k /\ \A i \in 1..k : a[i] = s[i]
  <2>1. /\ a \in Seq(Nat) /\ Len(a) = (IF 1 <= k THEN k - 1 + 1 ELSE 0)
        /\ \A i \in 1..k - 1 + 1 : a[i] = s[1 + i - 1]
    BY <1>1, <1>2, SubSeqProperties
  <2>2. k - 1 + 1 = k /\ \A i \in 1..k : 1 + i - 1 = i
    BY <1>2
  <2> QED BY <1>2, <2>1, <2>2
<1>4. /\ b \in Seq(Nat) /\ Len(b) = Len(s) - k
      /\ \A i \in k + 1..Len(s) : i - k \in 1..Len(b) /\ b[i - k] = s[i]
  <2>1. \A i \in k + 1..Len(s) : i \in 1..Len(s)
    BY <1>1, <1>2
  <2>2. /\ b \in Seq(Nat) /\ Len(b) = (IF k + 1 <= Len(s) THEN Len(s) - (k + 1) + 1 ELSE 0)
        /\ \A i \in 1..Len(s) - (k + 1) + 1 : b[i] = s[(k + 1) + i - 1]
    BY <1>1, <1>2, <2>1, SubSeqProperties
  <2>3. Len(b) = Len(s) - k
    <3>1. CASE k = Len(s)
      <4>1. ~(k + 1 <= Len(s)) /\ Len(s) - k = 0
        BY <1>1, <3>1
      <4>2. Len(b) = 0
        BY <2>2, <4>1, Zenon
      <4> QED BY <4>1, <4>2, Zenon
    <3>2. CASE k # Len(s)
      <4>1. k + 1 <= Len(s) /\ Len(s) - (k + 1) + 1 = Len(s) - k
        BY <1>1, <1>2, <3>2, Remaining, Zenon
      <4> QED BY <2>2, <4>1
    <3> QED BY <3>1, <3>2
  <2>4. \A i \in k + 1..Len(s) : /\ i - k \in 1..Len(s) - (k + 1) + 1 /\ i - k \in 1..Len(s) - k
                                 /\ (k + 1) + (i - k) - 1 = i
    BY <1>1, <1>2
  <2> QED BY <2>2, <2>3, <2>4
<1>5. DOMAIN a = 1..k /\ DOMAIN b = 1..Len(b)
  BY <1>3, <1>4, LenProperties
<1>6. \A i \in 1..Len(s) : i \in 1..k \/ i \in k + 1..Len(s)
  BY <1>1, <1>2
<1>7. \A i \in 1..Len(s) : s[i] \in Elems(a) \cup Elems(b)
  BY <1>3, <1>4, <1>5, <1>6 DEF Elems
<1> QED BY <1>1, <1>3, <1>4, <1>7 DEF Elems

(* fwrite keeps in the buffer what it does not put on disk. *)
LEMMA AcceptKeeps ==
  ASSUME stdio \in Seq(Nat), disk \in Seq(Nat), NEW s \in Seq(Nat), Accept(s)
  PROVE  /\ stdio' \in Seq(Nat) /\ disk' \in Seq(Nat)
         /\ Elems(disk) \subseteq Elems(disk')
         /\ Elems(stdio) \cup Elems(s) \subseteq Elems(disk') \cup Elems(stdio')
<1> DEFINE all == stdio \o s
<1>1. all \in Seq(Nat) /\ Elems(stdio) \cup Elems(s) \subseteq Elems(all)
  BY ElemsConcat, ConcatProperties
<1>2. PICK k \in 0..Len(all) : /\ disk' = disk \o SubSeq(all, 1, k)
                               /\ stdio' = SubSeq(all, k + 1, Len(all))
  BY DEF Accept
<1>3. /\ SubSeq(all, 1, k) \in Seq(Nat) /\ stdio' \in Seq(Nat)
      /\ Elems(all) \subseteq Elems(SubSeq(all, 1, k)) \cup Elems(stdio')
  BY <1>1, <1>2, ElemsSplit
<1>4. disk' \in Seq(Nat) /\ Elems(disk) \cup Elems(SubSeq(all, 1, k)) \subseteq Elems(disk')
  BY <1>2, <1>3, ElemsConcat, ConcatProperties
<1> QED BY <1>1, <1>3, <1>4

(* After a flush that does not fail everything is on disk. *)
LEMMA FlushWrites ==
  ASSUME stdio \in Seq(Nat), disk \in Seq(Nat), NEW s \in Seq(Nat), Flush(s), ~faulty'
  PROVE  /\ stdio' = <<>> /\ disk' \in Seq(Nat)
         /\ Elems(disk) \cup Elems(stdio) \cup Elems(s) \subseteq Elems(disk')
<1>1. disk' = disk \o stdio \o s /\ stdio' = <<>>
  BY DEF Flush
<1>2. /\ disk \o stdio \in Seq(Nat) /\ disk \o stdio \o s \in Seq(Nat)
      /\ Elems(disk) \cup Elems(stdio) \subseteq Elems(disk \o stdio)
      /\ Elems(disk \o stdio) \cup Elems(s) \subseteq Elems(disk \o stdio \o s)
  BY ElemsConcat, ConcatProperties
<1> QED BY <1>1, <1>2

-----------------------------------------------------------------------------
LEMMA QueueElems ==
  ASSUME IInv
  PROVE  /\ Elems(Append(buffers, current)) = Elems(buffers) \cup {current}
         /\ Elems(buffers) \cup {current} \subseteq Buffers
<1>1. buffers \in Seq(Buffers) /\ current \in Buffers
  BY DEF IInv, TypeOK
<1> QED BY <1>1, ElemsAppend, ElemsIn

(* Appending: the line is put into the buffer that is being filled, or into *)
(* an empty one after that was queued.                                      *)
LEMMA Appends ==
  ASSUME IInv, AppendLine
  PROVE  \E b \in Buffers :
           /\ Put(b) /\ current' = b /\ b \notin Elems(toWrite) \cup Elems(buffers)
           /\ \/ b = current /\ buffers' = buffers
              \/ b # current /\ content[b] = <<>> /\ buffers' = Append(buffers, current)
<1>1. current \in Buffers /\ current \notin Elems(toWrite) \cup Elems(buffers)
  BY DEF IInv, TypeOK, NoSharing
<1>2. CASE AppendFits
  BY <1>1, <1>2 DEF AppendFits
<1>3. CASE AppendNext
  <2>1. /\ next \in Buffers /\ next # current /\ next \notin Elems(toWrite) \cup Elems(buffers)
        /\ content[next] = <<>>
    BY <1>3 DEF AppendNext, IInv, TypeOK, NoSharing, Clean
  <2> QED BY <1>3, <2>1 DEF AppendNext
<1>4. CASE AppendNew
  <2>1. PICK b \in Buffers \ Held : Put(b) /\ current' = b
    BY <1>4 DEF AppendNew
  <2>2. content[b] = <<>> /\ b # current /\ b \notin Elems(toWrite) \cup Elems(buffers)
    BY <2>1 DEF Held, IInv, Clean
  <2> QED BY <1>4, <2>1, <2>2 DEF AppendNew
<1> QED BY <1>2, <1>3, <1>4 DEF AppendLine

LEMMA Untouched == UNCHANGED <<current, buffers, content, lines, swapped>> /\ Recent => Recent'
BY DEF Recent

LEMMA RecentStep ==
  ASSUME IInv, Recent, [LogNext]_logVars
  PROVE  Recent'
<1>1. lines \in Nat /\ swapped \in Nat /\ swapped <= lines
  BY AsyncLoggingAssumption DEF IInv, TypeOK, Recent
<1>2. CASE AppendLine /\ UNCHANGED logFile
  <2>1. PICK b \in Buffers :
           /\ Put(b) /\ current' = b /\ b \notin Elems(toWrite) \cup Elems(buffers)
           /\ \/ b = current /\ buffers' = buffers
              \/ b # current /\ content[b] = <<>> /\ buffers' = Append(buffers, current)
    BY <1>2, Appends
  <2>2. swapped' = swapped /\ lines' = lines + 1
    BY <1>2, <2>1 DEF logFile, Put
  <2>3. Elems(content'[b]) = Elems(content[b]) \cup {lines + 1}
    BY <2>1, PutThere DEF IInv
  <2>4. \A c \in Buffers \ {b} : content'[c] = content[c]
    BY <2>1 DEF Put, IInv, TypeOK
  <2>5. Elems(buffers') \subseteq Elems(buffers) \cup {current} /\ Elems(buffers) \cup {current} \subseteq Buffers
    BY <2>1, QueueElems
  <2>6. \A k \in Elems(content'[b]) : k > swapped
    BY <1>1, <2>1, <2>3, EmptyElems DEF Recent
  <2>7. \A c \in {current'} \cup Elems(buffers') : \A k \in Elems(content'[c]) : k > swapped
    BY <2>1, <2>4, <2>5, <2>6 DEF Recent
  <2> QED BY <1>1, <2>2, <2>7 DEF Recent
<1>3. CASE Stop /\ UNCHANGED logFile
  BY <1>3, Untouched DEF Stop, logFile
<1>4. CASE Write
  BY <1>4, Untouched DEF Write, WriteAll, WriteShort, WriteRest, GiveUp, WriteAgain, LastWrite,
                         WriteBuffer, vars
<1>5. CASE EndRound
  <2>1. UNCHANGED <<current, buffers, lines, swapped>>
    BY <1>5 DEF EndRound, Recycle
  <2>2. content' = [b \in Buffers |-> IF b \in Elems(toWrite) THEN <<>> ELSE content[b]]
    BY <1>5 DEF EndRound, Recycle
  <2>3. \A b \in {current} \cup Elems(buffers) : content'[b] = content[b]
    BY <2>2, ElemsIn DEF IInv, NoSharing, TypeOK
  <2> QED BY <2>1, <2>3 DEF Recent
<1>6. CASE EndLoop
  BY <1>6, Untouched DEF EndLoop, TestRunning
<1>7. CASE SwapNoted
  <2>1. swapped' = lines /\ UNCHANGED <<content, lines>> /\ current' = new1
    BY <1>7 DEF SwapNoted, Swap
  <2>2. buffers' = <<>> /\ content[new1] = <<>>
    BY <1>7 DEF SwapNoted, Swap, IInv, Places, Clean
  <2> QED BY <1>1, <2>1, <2>2, EmptyElems DEF Recent
<1>8. CASE Other
  <2>1. CASE Drop
    <3>1. UNCHANGED <<current, buffers, lines, swapped>>
      BY <1>8, <2>1 DEF Drop, Other, logFile
    <3>2. content' = [b \in Buffers |-> IF b \in Elems(toWrite) \ Elems(toWrite') THEN <<>> ELSE content[b]]
      BY <2>1, DropKeeps DEF IInv
    <3>3. \A b \in {current} \cup Elems(buffers) : content'[b] = content[b]
      BY <3>2, ElemsIn DEF IInv, NoSharing, TypeOK
    <3> QED BY <3>1, <3>3 DEF Recent
  <2>2. CASE TestRunning \/ Wait
    BY <1>8, <2>2, Untouched DEF TestRunning, Wait, Other, logFile
  <2> QED BY <1>8, <2>1, <2>2 DEF Other
<1>9. CASE UNCHANGED logVars
  BY <1>9, Untouched DEF logVars, vars, logFile
<1> QED BY <1>2, <1>3, <1>4, <1>5, <1>6, <1>7, <1>8, <1>9 DEF LogNext, LogThread

(* What a buffer that is being written holds is a sequence of lines.        *)
LEMMA LoglineLines ==
  ASSUME IInv, pc = "write", written < Len(toWrite)
  PROVE  Logline \in Seq(Nat) /\ file \in Seq(Nat)
<1>1. lines \in Nat /\ 1..lines \subseteq Nat
  BY AsyncLoggingAssumption DEF IInv, TypeOK
<1>2. DOMAIN toWrite = 1..Len(toWrite) /\ Len(toWrite) \in Nat /\ written \in Nat
  BY LenProperties DEF IInv, TypeOK
<1>3. toWrite[written + 1] \in Buffers
  BY <1>2, ElementOfSeq DEF IInv, TypeOK
<1>4. content[toWrite[written + 1]] \in Seq(1..lines) /\ file \in Seq(1..lines)
  BY <1>3 DEF IInv, TypeOK
<1> QED BY <1>1, <1>4, SeqMonotonic DEF Logline

LEMMA ConcatElems ==
  ASSUME NEW s \in Seq(Nat), NEW t \in Seq(Nat)
  PROVE  Elems(s \o t) \subseteq Elems(s) \cup Elems(t)
<1>1. /\ Len(s \o t) = Len(s) + Len(t) /\ s \o t \in Seq(Nat)
      /\ \A i \in 1..Len(s) + Len(t) : (s \o t)[i] = IF i <= Len(s) THEN s[i] ELSE t[i - Len(s)]
  BY ConcatProperties
<1>2. /\ Len(s) \in Nat /\ DOMAIN s = 1..Len(s) /\ Len(t) \in Nat /\ DOMAIN t = 1..Len(t)
      /\ DOMAIN (s \o t) = 1..Len(s) + Len(t)
  BY <1>1, LenProperties
<1>3. \A i \in 1..Len(s) + Len(t) : i \in 1..Len(s) \/ (~(i <= Len(s)) /\ i - Len(s) \in 1..Len(t))
  BY <1>2
<1>4. \A i \in 1..Len(s) + Len(t) : (s \o t)[i] \in Elems(s) \cup Elems(t)
  <2>1. SUFFICES ASSUME NEW i \in 1..Len(s) + Len(t)
                 PROVE  (s \o t)[i] \in Elems(s) \cup Elems(t)
    OBVIOUS
  <2>2. CASE i \in 1..Len(s)
    BY <1>1, <1>2, <2>2 DEF Elems
  <2>3. CASE ~(i <= Len(s)) /\ i - Len(s) \in 1..Len(t)
    <3>1. (s \o t)[i] = t[i - Len(s)]
      BY <1>1, <2>3
    <3> QED BY <1>2, <2>3, <3>1, Zenon DEF Elems
  <2> QED BY <1>3, <2>2, <2>3
<1> QED BY <1>2, <1>4 DEF Elems

LEMMA AcceptedStep ==
  ASSUME IInv, NothingLost, LInv, [LogNext]_logVars
  PROVE  Accepted' /\ Flushed'
<1> SUFFICES ASSUME ~faulty'
             PROVE  /\ ~repeating' /\ stdio' \in Seq(Nat) /\ disk' \in Seq(Nat)
                    /\ Elems(file') \subseteq Elems(disk') \cup Elems(stdio')
                    /\ 1..safe' \subseteq Elems(disk') \cup dropped'
  BY DEF Accepted, Flushed
<1>1. ~faulty
  BY DEF LogNext, LogThread, Write, WriteAll, WriteShort, WriteRest, GiveUp, WriteAgain, LastWrite,
         Flush, EndRound, EndLoop, SwapNoted, Other, logFile, logVars
<1>2. /\ ~repeating /\ stdio \in Seq(Nat) /\ disk \in Seq(Nat)
      /\ Elems(file) \subseteq Elems(disk) \cup Elems(stdio)
      /\ 1..safe \subseteq Elems(disk) \cup dropped
  BY <1>1 DEF LInv, Accepted, Flushed
<1>3. <<>> \in Seq(Nat) /\ Elems(<<>>) = {}
  BY EmptySeq, EmptyElems
<1>4. CASE AppendLine /\ UNCHANGED logFile
  BY <1>2, <1>4 DEF AppendLine, AppendFits, AppendNext, AppendNew, logger, logFile, stream
<1>5. CASE Stop /\ UNCHANGED logFile
  BY <1>2, <1>5 DEF Stop, logger, logFile, stream
<1>6. CASE Write
  <2>1. WriteAll
    BY <1>2, <1>6 DEF Write, WriteShort, WriteRest, GiveUp
  <2>2. /\ file' = file \o Logline /\ UNCHANGED <<dropped, safe>> /\ ~repeating'
        /\ pc = "write" /\ written < Len(toWrite)
    BY <2>1 DEF WriteAll, LastWrite, WriteBuffer, Logline
  <2>3. Logline \in Seq(Nat) /\ file \in Seq(Nat)
    BY <2>2, LoglineLines
  <2>4. Elems(file') \subseteq Elems(file) \cup Elems(Logline)
    BY <2>2, <2>3, ConcatElems
  <2>5. Flush(Logline) \/ Accept(Logline)
    BY <2>1 DEF WriteAll, LastWrite
  <2>6. /\ stdio' \in Seq(Nat) /\ disk' \in Seq(Nat)
        /\ Elems(disk) \subseteq Elems(disk')
        /\ Elems(stdio) \cup Elems(Logline) \subseteq Elems(disk') \cup Elems(stdio')
    BY <1>2, <1>3, <2>3, <2>5, AcceptKeeps, FlushWrites
  <2> QED BY <1>2, <2>2, <2>4, <2>6
<1>7. CASE EndRound
  <2>1. /\ safe' = swapped /\ UNCHANGED <<repeating, file, dropped>> /\ Flush(<<>>)
        /\ written = Len(toWrite)
    BY <1>7 DEF EndRound, Recycle
  <2>2. stdio' = <<>> /\ disk' \in Seq(Nat) /\ Elems(disk) \cup Elems(stdio) \subseteq Elems(disk')
    BY <1>2, <1>3, <2>1, FlushWrites
  <2>3. swapped \in 0..lines /\ lines \in Nat
    BY AsyncLoggingAssumption DEF LInv, Recent, IInv, TypeOK
  <2>4. written + 1..Len(toWrite) = {}
    BY <2>1, LenProperties DEF IInv, TypeOK
  <2>5. \A k \in OnItsWay : k > swapped
    BY <2>4, OnItsWayIs DEF LInv, Recent
  <2>6. 1..swapped \subseteq Elems(file) \cup dropped
    <3>1. \A k \in 1..swapped : k \in 1..lines /\ ~(k > swapped)
      BY <2>3
    <3> QED BY <2>5, <3>1 DEF NothingLost
  <2> QED BY <1>2, <1>3, <2>1, <2>2, <2>6
<1>8. CASE EndLoop
  <2>1. UNCHANGED <<repeating, file, dropped, safe>> /\ Flush(<<>>)
    BY <1>8 DEF EndLoop, TestRunning
  <2>2. stdio' = <<>> /\ disk' \in Seq(Nat) /\ Elems(disk) \cup Elems(stdio) \subseteq Elems(disk')
    BY <1>2, <1>3, <2>1, FlushWrites
  <2> QED BY <1>2, <1>3, <2>1, <2>2
<1>9. CASE SwapNoted
  BY <1>2, <1>9 DEF SwapNoted, Swap, stream
<1>10. CASE Other
  <2>1. UNCHANGED <<repeating, stdio, disk, safe, file>> /\ dropped \subseteq dropped'
    BY <1>10 DEF Other, TestRunning, Wait, Drop, logFile, stream
  <2> QED BY <1>2, <2>1
<1>11. CASE UNCHANGED logVars
  BY <1>2, <1>11 DEF logVars, vars, logger, logFile, stream
<1> QED BY <1>4, <1>5, <1>6, <1>7, <1>8, <1>9, <1>10, <1>11 DEF LogNext, LogThread

(* A killed process leaves on disk every line that was appended before the  *)
(* last complete round of the logging thread began, dropped buffers and     *)
(* failing writes apart.                                                    *)
THEOREM KilledLosesLittle == LogSpec => []Flushed
<1>1. LogInit => LInv
  <2>1. <<>> \in Seq(Nat) /\ Elems(<<>>) = {}
    BY EmptySeq, EmptyElems
  <2>2. LogInit => Recent
    BY <2>1, AsyncLoggingAssumption DEF LogInit, Init, Recent, Buffers
  <2> QED BY <2>1, <2>2 DEF LogInit, Init, LInv, Accepted, Flushed
<1>2. IInv /\ NothingLost /\ LInv /\ [LogNext]_logVars => LInv'
  BY RecentStep, AcceptedStep DEF LInv
<1>3. LInv => Flushed
  BY DEF LInv
<1>4. LogSpec => [](IInv /\ NothingLost)
  BY ImplementsAsyncLogging, Inductive, NoLineLost, PTL
<1> QED BY <1>1, <1>2, <1>3, <1>4, PTL DEF LogSpec
-----------------------------------------------------------------------------
(* The order of the lines: within a buffer, along the places a buffer goes  *)
(* through, and in what has been written so far.                            *)

Ordered(s) == \A i, j \in DOMAIN s : i < j /\ s[i] # Junk /\ s[j] # Junk => s[i] < s[j]

(* Every line in buffer b was appended before every one in c. *)
Below(b, c) == \A x \in Elems(content[b]), y \in Elems(content[c]) : x < y

(* The buffers that append has filled or is filling. *)
Filling == Elems(buffers) \cup {current}

OrderInv ==
  /\ \A b \in Buffers : Ordered(content[b])
  /\ \A i, j \in DOMAIN toWrite : i < j => Below(toWrite[i], toWrite[j])
  /\ \A b \in Elems(toWrite), c \in Filling : Below(b, c)
  /\ \A i, j \in DOMAIN buffers : i < j => Below(buffers[i], buffers[j])
  /\ \A b \in Elems(buffers) : Below(b, current)

(* All lines that are still to be written come after x: those of the buffer *)
(* that is being written from n_ on, later buffers, and what append fills.  *)
AllAfter(x) ==
  /\ \A b \in Filling : \A y \in Elems(content[b]) : x < y
  /\ \A i \in written + 1..Len(toWrite) : \A j \in DOMAIN content[toWrite[i]] :
       (i = written + 1 => j > n) => x < content[toWrite[i]][j]

Repeats ==
  /\ n \in Nat /\ (~repeating => n = 0)
  /\ repeating => pc = "write" /\ written < Len(toWrite)

StreamInv ==
  /\ stdio \in Seq(Nat) /\ disk \in Seq(Nat)
  /\ Ordered(disk \o stdio)
  /\ \A x \in Elems(disk \o stdio) : x <= lines /\ AllAfter(x)

DInv == OrderInv /\ Repeats /\ StreamInv

LEMMA ConcatIs ==
  ASSUME NEW s \in Seq(Nat), NEW t \in Seq(Nat)
  PROVE  /\ s \o t \in Seq(Nat)
         /\ Len(s) \in Nat /\ DOMAIN s = 1..Len(s) /\ Len(t) \in Nat /\ DOMAIN t = 1..Len(t)
         /\ DOMAIN (s \o t) = 1..Len(s) + Len(t)
         /\ \A i \in 1..Len(s) : i \in 1..Len(s) + Len(t) /\ (s \o t)[i] = s[i]
         /\ \A i \in 1..Len(s) + Len(t) : i > Len(s) => i - Len(s) \in 1..Len(t) /\ (s \o t)[i] = t[i - Len(s)]
<1>1. /\ Len(s \o t) = Len(s) + Len(t) /\ s \o t \in Seq(Nat)
      /\ \A i \in 1..Len(s) + Len(t) : (s \o t)[i] = IF i <= Len(s) THEN s[i] ELSE t[i - Len(s)]
  BY ConcatProperties
<1>2. /\ Len(s) \in Nat /\ DOMAIN s = 1..Len(s) /\ Len(t) \in Nat /\ DOMAIN t = 1..Len(t)
      /\ DOMAIN (s \o t) = 1..Len(s) + Len(t)
  BY <1>1, LenProperties
<1>3. \A i \in 1..Len(s) : i \in 1..Len(s) + Len(t) /\ i <= Len(s)
  BY <1>2
<1>4. \A i \in 1..Len(s) + Len(t) : i > Len(s) => i - Len(s) \in 1..Len(t) /\ ~(i <= Len(s))
  BY <1>2
<1>5. \A i \in 1..Len(s) : (s \o t)[i] = s[i]
  BY <1>1, <1>3, Zenon
<1>6. \A i \in 1..Len(s) + Len(t) : i > Len(s) => (s \o t)[i] = t[i - Len(s)]
  BY <1>1, <1>4, Zenon
<1> QED BY <1>1, <1>2, <1>3, <1>4, <1>5, <1>6, Zenon

LEMMA OrderedConcat ==
  ASSUME NEW s \in Seq(Nat), NEW t \in Seq(Nat), Ordered(s), Ordered(t),
         \A x \in Elems(s), y \in Elems(t) : y # Junk => x < y
  PROVE  Ordered(s \o t)
<1> DEFINE u == s \o t
           m == Len(s)
           k == Len(t)
<1>1. /\ m \in Nat /\ DOMAIN s = 1..m /\ k \in Nat /\ DOMAIN t = 1..k /\ DOMAIN u = 1..m + k
      /\ \A i \in 1..m : i \in 1..m + k /\ u[i] = s[i]
      /\ \A i \in 1..m + k : i > m => i - m \in 1..k /\ u[i] = t[i - m]
  BY ConcatIs
<1>2. /\ \A i, j \in 1..m : i < j /\ s[i] # Junk /\ s[j] # Junk => s[i] < s[j]
      /\ \A i, j \in 1..k : i < j /\ t[i] # Junk /\ t[j] # Junk => t[i] < t[j]
      /\ \A i \in 1..m, j \in 1..k : t[j] # Junk => s[i] < t[j]
  BY <1>1 DEF Ordered, Elems
<1> HIDE DEF u, m, k
<1>3. SUFFICES ASSUME NEW i \in 1..m + k, NEW j \in 1..m + k, i < j, u[i] # Junk, u[j] # Junk
               PROVE  u[i] < u[j]
  BY <1>1 DEF Ordered, u
<1>4. CASE j <= m
  <2>1. i \in 1..m /\ j \in 1..m
    BY <1>1, <1>3, <1>4
  <2> QED BY <1>1, <1>2, <1>3, <2>1
<1>5. CASE i <= m /\ j > m
  <2>1. i \in 1..m
    BY <1>1, <1>3, <1>5
  <2>2. u[i] = s[i] /\ j - m \in 1..k /\ u[j] = t[j - m]
    BY <1>1, <1>3, <1>5, <2>1
  <2> QED BY <1>2, <1>3, <2>1, <2>2
<1>6. CASE i > m
  <2>1. j > m
    BY <1>1, <1>3, <1>6
  <2>2. /\ i - m \in 1..k /\ u[i] = t[i - m] /\ j - m \in 1..k /\ u[j] = t[j - m]
        /\ i - m < j - m
    BY <1>1, <1>3, <1>6, <2>1
  <2> QED BY <1>2, <1>3, <2>2
<1> QED BY <1>1, <1>4, <1>5, <1>6

LEMMA Associative ==
  ASSUME NEW s \in Seq(Nat), NEW t \in Seq(Nat), NEW u \in Seq(Nat)
  PROVE  (s \o t) \o u = s \o (t \o u)
BY ConcatAssociative, SMTT(30)

(* Whatever fwrite and fflush make of s, it comes after what was there. *)
LEMMA StreamAdds ==
  ASSUME stdio \in Seq(Nat), disk \in Seq(Nat), NEW s \in Seq(Nat), Accept(s) \/ Flush(s)
  PROVE  /\ stdio' \in Seq(Nat) /\ disk' \in Seq(Nat)
         /\ disk' \o stdio' = (disk \o stdio) \o s
<1>1. CASE Accept(s)
  <2> DEFINE all == stdio \o s
  <2>1. all \in Seq(Nat) /\ Len(all) \in Nat
    BY ConcatProperties, LenProperties
  <2>2. PICK k \in 0..Len(all) : /\ disk' = disk \o SubSeq(all, 1, k)
                                 /\ stdio' = SubSeq(all, k + 1, Len(all))
    BY <1>1 DEF Accept
  <2>3. SubSeq(all, 1, k) \in Seq(Nat) /\ stdio' \in Seq(Nat)
    BY <2>1, <2>2, ElemsSplit
  <2>4. SubSeq(all, 1, k) \o stdio' = all
    <3>1. 1 \in 1..Len(all) + 1 /\ k \in 1 - 1..Len(all) /\ Len(all) \in k..Len(all)
      BY <2>1
    <3>2. SubSeq(all, 1, k) \o SubSeq(all, k + 1, Len(all)) = SubSeq(all, 1, Len(all))
      BY <2>1, <3>1, ConcatAdjacentSubSeq
    <3> QED BY <2>1, <2>2, <3>2, SubSeqFull
  <2>5. disk' \in Seq(Nat) /\ disk' \o stdio' = disk \o all
    <3> DEFINE a == SubSeq(all, 1, k)
               b == SubSeq(all, k + 1, Len(all))
    <3>1. disk' = disk \o a /\ stdio' = b /\ a \in Seq(Nat) /\ b \in Seq(Nat) /\ a \o b = all
      BY <2>2, <2>3, <2>4
    <3> HIDE DEF all, a, b
    <3>2. disk \o a \in Seq(Nat)
      BY <3>1, ConcatProperties
    <3>3. (disk \o a) \o b = disk \o (a \o b)
      BY <3>1, Associative
    <3> QED BY <3>1, <3>2, <3>3
  <2>6. disk \o all = (disk \o stdio) \o s
    BY Associative
  <2> QED BY <2>3, <2>5, <2>6
<1>2. CASE disk' = disk \o stdio \o s /\ stdio' = <<>>
  <2>1. (disk \o stdio) \o s \in Seq(Nat) /\ stdio' \in Seq(Nat)
    BY <1>2, ConcatProperties, EmptySeq
  <2> QED BY <1>2, <2>1, ConcatEmptySeq
<1> QED BY <1>1, <1>2 DEF Flush

LEMMA ContentLines ==
  ASSUME IInv
  PROVE  /\ lines \in Nat
         /\ \A b \in Buffers : content[b] \in Seq(Nat) /\ Elems(content[b]) \subseteq 1..lines
<1>1. lines \in Nat /\ 1..lines \subseteq Nat
  BY AsyncLoggingAssumption DEF IInv, TypeOK
<1>2. \A b \in Buffers : content[b] \in Seq(1..lines)
  BY DEF IInv, TypeOK
<1> QED BY <1>1, <1>2, ElemsIn, SeqMonotonic

(* What a line put into b changes: it is later than all others. *)
LEMMA PutLater ==
  ASSUME IInv, OrderInv, NEW b \in Buffers, Put(b)
  PROVE  /\ lines \in Nat /\ lines' = lines + 1
         /\ \A c \in Buffers \ {b} : content'[c] = content[c]
         /\ \A y \in Elems(content'[b]) : y \in Elems(content[b]) \/ y = lines + 1
         /\ \A c \in Buffers : \A y \in Elems(content[c]) : y \in Nat /\ y < lines + 1
         /\ \A c \in Buffers : Ordered(content'[c])
<1>1. lines \in Nat /\ lines' = lines + 1
  BY ContentLines DEF Put
<1>2. \A c \in Buffers \ {b} : content'[c] = content[c]
  BY PutElsewhere DEF IInv
<1>3. Elems(content'[b]) = Elems(content[b]) \cup {lines + 1}
  BY PutThere DEF IInv
<1>4. \A c \in Buffers : \A y \in Elems(content[c]) : y \in Nat /\ y < lines + 1
  <2>1. \A y \in 1..lines : y \in Nat /\ y < lines + 1
    BY <1>1
  <2> QED BY <2>1, ContentLines
<1>5. Ordered(content'[b])
  <2>1. content[b] \in Seq(Nat) /\ lines + 1 \in Nat
    BY <1>1, ContentLines
  <2>2. content'[b] = Append(content[b], lines + 1)
    BY DEF Put, IInv, TypeOK
  <2>3. content'[b] = content[b] \o <<lines + 1>>
    BY <2>1, <2>2, AppendIsConcat
  <2>4. <<lines + 1>> \in Seq(Nat) /\ Elems(<<lines + 1>>) = {lines + 1} /\ Ordered(<<lines + 1>>)
    BY <2>1 DEF Elems, Ordered
  <2>5. Ordered(content[b])
    BY DEF OrderInv
  <2>6. \A x \in Elems(content[b]), y \in Elems(<<lines + 1>>) : y # Junk => x < y
    BY <1>4, <2>4
  <2> QED BY <2>1, <2>3, <2>4, <2>5, <2>6, OrderedConcat
<1>6. \A c \in Buffers : Ordered(content'[c])
  BY <1>2, <1>5 DEF OrderInv
<1> QED BY <1>1, <1>2, <1>3, <1>4, <1>6

(* What lines there are, and where, is the same for the writing. *)
LEMMA SameStream ==
  ASSUME DInv, UNCHANGED <<stdio, disk, n, repeating, written, toWrite>>, UNCHANGED pc \/ ~repeating,
         lines \in Nat, lines' \in Nat, lines <= lines',
         \A i \in written + 1..Len(toWrite) : content'[toWrite[i]] = content[toWrite[i]],
         \A b \in Filling' : \A y \in Elems(content'[b]) :
            (\E c \in Filling : y \in Elems(content[c])) \/ y > lines
  PROVE  Repeats' /\ StreamInv'
<1>1. Repeats'
  BY DEF DInv, Repeats
<1>2. /\ stdio \in Seq(Nat) /\ disk \in Seq(Nat) /\ Ordered(disk \o stdio)
      /\ \A x \in Elems(disk \o stdio) : x <= lines /\ AllAfter(x)
  BY DEF DInv, StreamInv
<1>3. disk' = disk /\ stdio' = stdio
  OBVIOUS
<1>4. SUFFICES ASSUME NEW x \in Elems(disk \o stdio)
               PROVE  x <= lines' /\ AllAfter(x)'
  BY <1>1, <1>2, <1>3 DEF StreamInv
<1>5. x \in Nat
  BY <1>2, <1>4, ConcatProperties, ElemsIn
<1>6. x <= lines /\ AllAfter(x)
  BY <1>2, <1>4
<1>7. \A b \in Filling' : \A y \in Elems(content'[b]) : x < y
  <2>1. SUFFICES ASSUME NEW b \in Filling', NEW y \in Elems(content'[b])
                 PROVE  x < y
    OBVIOUS
  <2>2. CASE \E c \in Filling : y \in Elems(content[c])
    BY <1>6, <2>2 DEF AllAfter
  <2>3. CASE y > lines
    BY <1>5, <1>6, <2>3
  <2> QED BY <2>1, <2>2, <2>3
<1>8. \A i \in written + 1..Len(toWrite) : \A j \in DOMAIN content'[toWrite[i]] :
        (i = written + 1 => j > n) => x < content'[toWrite[i]][j]
  BY <1>6 DEF AllAfter
<1>9. AllAfter(x)'
  BY <1>7, <1>8 DEF AllAfter
<1> QED BY <1>5, <1>6, <1>9

LEMMA AppendOrder ==
  ASSUME IInv, DInv, AppendLine, UNCHANGED logFile
  PROVE  DInv'
<1>1. PICK b \in Buffers :
           /\ Put(b) /\ current' = b /\ b \notin Elems(toWrite) \cup Elems(buffers)
           /\ \/ b = current /\ buffers' = buffers
              \/ b # current /\ content[b] = <<>> /\ buffers' = Append(buffers, current)
  BY Appends
<1>2. /\ lines \in Nat /\ lines' = lines + 1
      /\ \A c \in Buffers \ {b} : content'[c] = content[c]
      /\ \A y \in Elems(content'[b]) : y \in Elems(content[b]) \/ y = lines + 1
      /\ \A c \in Buffers : \A y \in Elems(content[c]) : y \in Nat /\ y < lines + 1
      /\ \A c \in Buffers : Ordered(content'[c])
  BY <1>1, PutLater DEF DInv
<1>3. UNCHANGED <<toWrite, written, pc, stdio, disk, n, repeating>>
  BY DEF AppendLine, AppendFits, AppendNext, AppendNew, logger, logFile, stream
<1>4. /\ buffers \in Seq(Buffers) /\ toWrite \in Seq(Buffers) /\ current \in Buffers
      /\ Elems(buffers) \subseteq Buffers /\ Elems(toWrite) \subseteq Buffers
      /\ current \notin Elems(buffers)
  BY ElemsIn DEF IInv, TypeOK, NoSharing
<1>5. /\ Len(buffers) \in Nat /\ DOMAIN buffers = 1..Len(buffers)
      /\ Len(toWrite) \in Nat /\ DOMAIN toWrite = 1..Len(toWrite)
  BY <1>4, LenProperties
<1>6. \A i \in DOMAIN buffers : buffers[i] \in Elems(buffers) /\ buffers[i] # b /\ buffers[i] \in Buffers
  BY <1>1, <1>4 DEF Elems
<1>7. \A i \in DOMAIN toWrite : toWrite[i] \in Elems(toWrite) /\ toWrite[i] # b /\ toWrite[i] \in Buffers
  BY <1>1, <1>4 DEF Elems
<1>8. Elems(buffers') = Elems(buffers) \cup (IF b = current THEN {} ELSE {current})
  BY <1>1, QueueElems
<1>9. ASSUME NEW c \in Buffers, NEW d \in Buffers, c # b,
             d # b => Below(c, d), d = b /\ b = current => Below(c, d)
      PROVE  Below(c, d)'
  <2>1. CASE d # b
    BY <1>2, <1>9, <2>1 DEF Below
  <2>2. CASE d = b
    <3>1. SUFFICES ASSUME NEW x \in Elems(content[c]), NEW y \in Elems(content'[b])
                   PROVE  x < y
      BY <1>2, <1>9, <2>2 DEF Below
    <3>2. CASE y = lines + 1
      BY <1>2, <3>1, <3>2
    <3>3. CASE y \in Elems(content[b])
      <4>1. b = current
        BY <1>1, <3>3, EmptyElems
      <4> QED BY <1>9, <2>2, <3>1, <3>3, <4>1 DEF Below
    <3> QED BY <1>2, <3>1, <3>2, <3>3
  <2> QED BY <2>1, <2>2
<1>10. OrderInv'
  <2>1. (\A i, j \in DOMAIN toWrite : i < j => Below(toWrite[i], toWrite[j]))'
    BY <1>3, <1>7, <1>9 DEF DInv, OrderInv
  <2>2. \A c \in Elems(toWrite'), d \in Filling' : Below(c, d)'
    <3>1. SUFFICES ASSUME NEW c \in Elems(toWrite), NEW d \in Filling'
                   PROVE  Below(c, d)'
      BY <1>3
    <3>2. c \in Buffers /\ c # b /\ d \in Buffers
      BY <1>1, <1>4, <1>8, <3>1 DEF Filling
    <3>3. d # b => d \in Filling
      BY <1>1, <1>8, <3>1 DEF Filling
    <3>4. d = b /\ b = current => d \in Filling
      BY DEF Filling
    <3> QED BY <1>9, <3>2, <3>3, <3>4 DEF DInv, OrderInv
  <2>3. \A c \in Elems(buffers) : Below(c, b)'
    BY <1>1, <1>4, <1>9 DEF DInv, OrderInv
  <2>4. \A c : c = current /\ c # b => Below(c, b)'
    BY <1>4, <1>9
  <2>5. (\A c \in Elems(buffers) : Below(c, current))'
    BY <1>1, <1>8, <2>3, <2>4
  <2>6. (\A i, j \in DOMAIN buffers : i < j => Below(buffers[i], buffers[j]))'
    <3>1. \A i, j \in DOMAIN buffers : \A c, d : c = buffers[i] /\ d = buffers[j] /\ i < j => Below(c, d)'
      BY <1>6, <1>9 DEF DInv, OrderInv
    <3>2. CASE b = current
      BY <1>1, <3>1, <3>2
    <3>3. CASE b # current
      <4>1. /\ DOMAIN buffers' = 1..Len(buffers) + 1 /\ buffers'[Len(buffers) + 1] = current
            /\ \A i \in 1..Len(buffers) : buffers'[i] = buffers[i]
        BY <1>1, <1>4, <3>3, AppendProperties, LenProperties
      <4>2. \A i \in DOMAIN buffers : \A c, d : c = buffers[i] /\ d = current => Below(c, d)'
        BY <1>4, <1>6, <1>9, <3>3 DEF DInv, OrderInv
      <4>3. SUFFICES ASSUME NEW i \in 1..Len(buffers) + 1, NEW j \in 1..Len(buffers) + 1, i < j,
                            NEW c, NEW d, c = buffers'[i], d = buffers'[j]
                     PROVE  Below(c, d)'
        BY <4>1
      <4>4. i \in 1..Len(buffers) /\ (j \in 1..Len(buffers) \/ j = Len(buffers) + 1)
        BY <1>5, <4>3
      <4> QED BY <1>5, <3>1, <4>1, <4>2, <4>3, <4>4
    <3> QED BY <3>2, <3>3
  <2> QED BY <1>2, <2>1, <2>2, <2>5, <2>6 DEF OrderInv
<1>11. \A i \in written + 1..Len(toWrite) : content'[toWrite[i]] = content[toWrite[i]]
  <2>1. \A i \in written + 1..Len(toWrite) : i \in DOMAIN toWrite
    BY <1>5 DEF IInv, TypeOK
  <2> QED BY <1>2, <1>7, <2>1
<1>12. \A d \in Filling' : \A y \in Elems(content'[d]) :
         (\E c \in Filling : y \in Elems(content[c])) \/ y > lines
  <2>1. SUFFICES ASSUME NEW d \in Filling', NEW y \in Elems(content'[d])
                 PROVE  (\E c \in Filling : y \in Elems(content[c])) \/ y > lines
    OBVIOUS
  <2>2. d \in Buffers /\ (d # b => d \in Filling)
    BY <1>1, <1>4, <1>8, <2>1 DEF Filling
  <2>3. CASE d # b
    BY <1>2, <2>1, <2>2, <2>3
  <2>4. CASE d = b /\ y = lines + 1
    BY <1>2, <2>4
  <2>5. CASE d = b /\ y \in Elems(content[b])
    <3>1. b = current
      BY <1>1, <2>5, EmptyElems
    <3> QED BY <2>5, <3>1 DEF Filling
  <2> QED BY <1>2, <2>1, <2>3, <2>4, <2>5
<1>13. Repeats' /\ StreamInv'
  <2>1. lines' \in Nat /\ lines <= lines'
    BY <1>2
  <2> QED BY <1>2, <1>3, <1>11, <1>12, <2>1, SameStream
<1> QED BY <1>10, <1>13 DEF DInv

-----------------------------------------------------------------------------
(* Writing: what goes to the stream comes from the buffer that is written.  *)

LEMMA BytesOf ==
  ASSUME IInv, OrderInv, pc = "write", written < Len(toWrite), NEW from \in Nat, NEW x \in Nat
  PROVE  /\ Bytes(from, x) \in Seq(Nat) /\ Ordered(Bytes(from, x))
         /\ \A y \in Elems(Bytes(from, x)) :
              \/ y = Junk
              \/ \E j \in DOMAIN Logline : from < j /\ j <= from + x /\ y = Logline[j]
<1> DEFINE s == Bytes(from, x)
           k == Len(Logline)
<1>1. Logline \in Seq(Nat)
  BY LoglineLines
<1>2. k \in Nat /\ DOMAIN Logline = 1..k /\ \A j \in 1..k : Logline[j] \in Nat
  BY <1>1, LenProperties
<1>3. DOMAIN s = 1..x /\ \A i \in 1..x : s[i] = IF from + i <= k THEN Logline[from + i] ELSE Junk
  BY DEF Bytes
<1>4. \A i \in 1..x : from + i <= k => from + i \in 1..k
  BY <1>2
<1>5. s \in Seq(Nat)
  <2>1. s \in [1..x -> Nat]
    BY <1>2, <1>4 DEF Bytes, Junk
  <2> HIDE DEF s
  <2> QED BY <2>1, SeqDef
<1>6. \A i \in 1..x : s[i] = Junk \/ (from + i \in 1..k /\ s[i] = Logline[from + i])
  BY <1>3, <1>4
<1>7. Ordered(Logline)
  <2>1. toWrite[written + 1] \in Buffers
    BY LenProperties DEF IInv, TypeOK
  <2> QED BY <2>1 DEF OrderInv, Logline
<1> HIDE DEF s, k
<1>8. Ordered(s)
  <2>1. SUFFICES ASSUME NEW i \in 1..x, NEW j \in 1..x, i < j, s[i] # Junk, s[j] # Junk
                 PROVE  s[i] < s[j]
    BY <1>3 DEF Ordered
  <2>2. /\ from + i \in 1..k /\ s[i] = Logline[from + i]
        /\ from + j \in 1..k /\ s[j] = Logline[from + j] /\ from + i < from + j
    BY <1>6, <2>1
  <2> QED BY <1>2, <1>7, <2>1, <2>2 DEF Ordered
<1>9. \A y \in Elems(s) : y = Junk \/ \E j \in DOMAIN Logline : from < j /\ j <= from + x /\ y = Logline[j]
  <2>1. SUFFICES ASSUME NEW i \in 1..x, s[i] # Junk
                 PROVE  \E j \in DOMAIN Logline : from < j /\ j <= from + x /\ s[i] = Logline[j]
    BY <1>3 DEF Elems
  <2>2. from + i \in DOMAIN Logline /\ s[i] = Logline[from + i] /\ from < from + i /\ from + i <= from + x
    BY <1>2, <1>6, <2>1
  <2> QED BY <2>2
<1> QED BY <1>5, <1>8, <1>9 DEF s

LEMMA AllOfIt ==
  ASSUME IInv, pc = "write", written < Len(toWrite)
  PROVE  Logline = Bytes(0, Len(Logline)) /\ Len(Logline) \in Nat
<1>1. Logline \in Seq(Nat)
  BY LoglineLines
<1>2. Len(Logline) \in Nat /\ Logline = [i \in 1..Len(Logline) |-> Logline[i]]
  BY <1>1, LenProperties
<1>3. \A i \in 1..Len(Logline) : 0 + i = i /\ i <= Len(Logline)
  BY <1>2
<1>4. Bytes(0, Len(Logline)) = [i \in 1..Len(Logline) |-> Logline[i]]
  BY <1>3 DEF Bytes
<1> QED BY <1>2, <1>4

(* After x bytes from n_ on, the stream is in order; its lines come before  *)
(* those of all later buffers, and those of this one from n_ + x on.        *)
LEMMA WriteKeeps ==
  ASSUME IInv, DInv, pc = "write", written < Len(toWrite), NEW x \in Nat,
         Accept(Bytes(n, x)) \/ Flush(Bytes(n, x))
  PROVE  /\ stdio' \in Seq(Nat) /\ disk' \in Seq(Nat)
         /\ Ordered(disk' \o stdio')
         /\ \A y \in Elems(disk' \o stdio') :
              /\ y \in Nat /\ y <= lines
              /\ \A b \in Filling : \A z \in Elems(content[b]) : y < z
              /\ \A i \in written + 2..Len(toWrite) : \A j \in DOMAIN content[toWrite[i]] :
                   y < content[toWrite[i]][j]
              /\ \A j \in DOMAIN Logline : j > n + x => y < Logline[j]
<1> DEFINE s == Bytes(n, x)
           t == disk \o stdio
<1>1. n \in Nat /\ OrderInv /\ stdio \in Seq(Nat) /\ disk \in Seq(Nat) /\ Ordered(t)
  BY DEF DInv, Repeats, StreamInv
<1>2. s \in Seq(Nat) /\ Ordered(s)
  BY <1>1, BytesOf
<1>3. /\ stdio' \in Seq(Nat) /\ disk' \in Seq(Nat) /\ disk' \o stdio' = t \o s
      /\ t \in Seq(Nat) /\ t \o s \in Seq(Nat)
  <2> HIDE DEF s
  <2> QED BY <1>1, <1>2, StreamAdds, ConcatProperties DEF s
<1>4. written \in Nat /\ Len(toWrite) \in Nat /\ DOMAIN toWrite = 1..Len(toWrite) /\ written + 1 \in DOMAIN toWrite
  BY LenProperties DEF IInv, TypeOK
<1>5. toWrite[written + 1] \in Buffers /\ toWrite[written + 1] \in Elems(toWrite)
  BY <1>4, ElemsIn DEF IInv, TypeOK, Elems
<1>6. /\ Logline \in Seq(Nat) /\ Len(Logline) \in Nat /\ DOMAIN Logline = 1..Len(Logline)
      /\ Ordered(Logline) /\ lines \in Nat
      /\ \A j \in DOMAIN Logline : Logline[j] \in 1..lines /\ Logline[j] \in Elems(Logline)
  BY <1>1, <1>5, ContentLines, LenProperties DEF Logline, OrderInv, Elems
<1>7. \A y \in Elems(t) : y \in Nat /\ y <= lines /\ AllAfter(y)
  BY <1>3, ElemsIn DEF DInv, StreamInv
<1>8. \A y \in Elems(s) :
        \/ y = Junk
        \/ \E j \in DOMAIN Logline : n < j /\ j <= n + x /\ y = Logline[j]
  BY <1>1, BytesOf
<1>9. \A y \in Elems(t) : \A j \in DOMAIN Logline : j > n => y < Logline[j]
  <2>1. \A y \in Elems(t) : \A i \in written + 1..Len(toWrite) : \A j \in DOMAIN content[toWrite[i]] :
          (i = written + 1 => j > n) => y < content[toWrite[i]][j]
    BY <1>7 DEF AllAfter
  <2>2. written + 1 \in written + 1..Len(toWrite)
    BY <1>4
  <2> QED BY <2>1, <2>2 DEF Logline
<1>10. Ordered(t \o s)
  <2>1. \A y \in Elems(t), z \in Elems(s) : z # Junk => y < z
    BY <1>8, <1>9
  <2> HIDE DEF s, t
  <2> QED BY <1>1, <1>2, <1>3, <2>1, OrderedConcat
<1>11. Elems(t \o s) \subseteq Elems(t) \cup Elems(s)
  <2> HIDE DEF s, t
  <2> QED BY <1>2, <1>3, ConcatElems
<1>12. ASSUME NEW b \in Buffers, NEW z \in Elems(content[b])
       PROVE  z \in 1..lines
  BY <1>12, ContentLines
<1>13. \A y \in Elems(t \o s) : \A b \in Filling : \A z \in Elems(content[b]) : y < z
  <2>1. SUFFICES ASSUME NEW y \in Elems(t \o s), NEW b \in Filling, NEW z \in Elems(content[b])
                 PROVE  y < z
    OBVIOUS
  <2>2. b \in Buffers
    BY <2>1, ElemsIn DEF Filling, IInv, TypeOK
  <2>3. z \in 1..lines
    BY <1>12, <2>1, <2>2
  <2>4. CASE y \in Elems(t)
    BY <1>7, <2>1, <2>4 DEF AllAfter
  <2>5. CASE y = Junk
    BY <1>6, <2>3, <2>5 DEF Junk
  <2>6. ASSUME NEW j \in DOMAIN Logline, y = Logline[j]
        PROVE  y < z
    <3>1. Below(toWrite[written + 1], b)
      BY <1>1, <1>5, <2>1 DEF OrderInv
    <3> QED BY <1>6, <2>1, <2>6, <3>1 DEF Below, Logline
  <2> QED BY <1>8, <1>11, <2>1, <2>4, <2>5, <2>6
<1>14. \A y \in Elems(t \o s) : \A i \in written + 2..Len(toWrite) : \A j \in DOMAIN content[toWrite[i]] :
         y < content[toWrite[i]][j]
  <2>1. SUFFICES ASSUME NEW y \in Elems(t \o s), NEW i \in written + 2..Len(toWrite),
                        NEW j \in DOMAIN content[toWrite[i]]
                 PROVE  y < content[toWrite[i]][j]
    OBVIOUS
  <2>2. i \in written + 1..Len(toWrite) /\ i \in DOMAIN toWrite /\ i # written + 1 /\ written + 1 < i
    BY <1>4, <2>1
  <2>3. toWrite[i] \in Buffers /\ content[toWrite[i]][j] \in Elems(content[toWrite[i]])
    BY <2>1, <2>2, LenProperties DEF IInv, TypeOK, Elems
  <2>4. content[toWrite[i]][j] \in 1..lines
    BY <1>12, <2>3
  <2>5. CASE y \in Elems(t)
    BY <1>7, <2>1, <2>2, <2>5 DEF AllAfter
  <2>6. CASE y = Junk
    BY <1>6, <2>4, <2>6 DEF Junk
  <2>7. ASSUME NEW k \in DOMAIN Logline, y = Logline[k]
        PROVE  y < content[toWrite[i]][j]
    <3>1. Below(toWrite[written + 1], toWrite[i])
      BY <1>1, <1>4, <2>2 DEF OrderInv
    <3> QED BY <1>6, <2>3, <2>7, <3>1 DEF Below, Logline
  <2> QED BY <1>8, <1>11, <2>1, <2>5, <2>6, <2>7
<1>15. \A y \in Elems(t \o s) : \A j \in DOMAIN Logline : j > n + x => y < Logline[j]
  <2>1. SUFFICES ASSUME NEW y \in Elems(t \o s), NEW j \in DOMAIN Logline, j > n + x
                 PROVE  y < Logline[j]
    OBVIOUS
  <2>2. CASE y \in Elems(t)
    <3>1. j > n
      BY <1>1, <1>6, <2>1
    <3> QED BY <1>9, <2>1, <2>2, <3>1
  <2>3. CASE y = Junk
    BY <1>6, <2>1, <2>3 DEF Junk
  <2>4. ASSUME NEW k \in DOMAIN Logline, k <= n + x, y = Logline[k]
        PROVE  y < Logline[j]
    <3>1. k < j
      BY <1>1, <1>6, <2>1, <2>4
    <3>2. \A i \in DOMAIN Logline : Logline[i] # Junk
      BY <1>6 DEF Junk
    <3> QED BY <1>6, <2>1, <2>4, <3>1, <3>2 DEF Ordered
  <2> QED BY <1>8, <1>11, <2>1, <2>2, <2>3, <2>4
<1>16. \A y \in Elems(t \o s) : y \in Nat /\ y <= lines
  <2>1. SUFFICES ASSUME NEW y \in Elems(t \o s)
                 PROVE  y \in Nat /\ y <= lines
    OBVIOUS
  <2> QED BY <1>6, <1>7, <1>8, <1>11, <2>1 DEF Junk
<1> QED BY <1>3, <1>10, <1>13, <1>14, <1>15, <1>16

(* A write that leaves n_ at n + x in the same buffer. *)
LEMMA WriteMoreOrder ==
  ASSUME IInv, DInv, pc = "write", written < Len(toWrite), NEW x \in Nat,
         Accept(Bytes(n, x)), n' = n + x, repeating', UNCHANGED vars
  PROVE  DInv'
<1>1. /\ stdio' \in Seq(Nat) /\ disk' \in Seq(Nat)
      /\ Ordered(disk' \o stdio')
      /\ \A y \in Elems(disk' \o stdio') :
           /\ y \in Nat /\ y <= lines
           /\ \A b \in Filling : \A z \in Elems(content[b]) : y < z
           /\ \A i \in written + 2..Len(toWrite) : \A j \in DOMAIN content[toWrite[i]] :
                y < content[toWrite[i]][j]
           /\ \A j \in DOMAIN Logline : j > n + x => y < Logline[j]
  BY WriteKeeps
<1>2. UNCHANGED <<pc, written, toWrite, content, buffers, current, lines>>
  BY DEF vars, logger
<1>3. OrderInv'
  BY <1>2 DEF DInv, OrderInv, Below, Filling
<1>4. Repeats'
  BY <1>2 DEF DInv, Repeats
<1>5. written \in Nat /\ Len(toWrite) \in Nat
  BY LenProperties DEF IInv, TypeOK
<1>6. \A y \in Elems(disk' \o stdio') : AllAfter(y)'
  <2>1. SUFFICES ASSUME NEW y \in Elems(disk' \o stdio'),
                        NEW i \in written + 1..Len(toWrite), NEW j \in DOMAIN content[toWrite[i]],
                        i = written + 1 => j > n + x
                 PROVE  y < content[toWrite[i]][j]
    BY <1>1, <1>2 DEF AllAfter, Filling
  <2>2. CASE i = written + 1
    BY <1>1, <2>1, <2>2 DEF Logline
  <2>3. CASE i # written + 1
    <3>1. i \in written + 2..Len(toWrite)
      BY <1>5, <2>1, <2>3
    <3> QED BY <1>1, <2>1, <3>1
  <2> QED BY <2>2, <2>3
<1>7. StreamInv'
  BY <1>1, <1>2, <1>6 DEF StreamInv
<1> QED BY <1>3, <1>4, <1>7 DEF DInv

(* The last write of a buffer. *)
LEMMA LastWriteOrder ==
  ASSUME IInv, DInv, NEW x \in Nat, LastWrite(Bytes(n, x))
  PROVE  DInv'
<1>1. pc = "write" /\ written < Len(toWrite) /\ written' = written + 1
  BY DEF LastWrite, WriteBuffer
<1>2. Accept(Bytes(n, x)) \/ Flush(Bytes(n, x))
  BY DEF LastWrite
<1>3. /\ stdio' \in Seq(Nat) /\ disk' \in Seq(Nat)
      /\ Ordered(disk' \o stdio')
      /\ \A y \in Elems(disk' \o stdio') :
           /\ y \in Nat /\ y <= lines
           /\ \A b \in Filling : \A z \in Elems(content[b]) : y < z
           /\ \A i \in written + 2..Len(toWrite) : \A j \in DOMAIN content[toWrite[i]] :
                y < content[toWrite[i]][j]
  BY <1>1, <1>2, WriteKeeps
<1>4. /\ UNCHANGED <<toWrite, content, buffers, current, lines>>
      /\ n' = 0 /\ ~repeating'
  BY DEF LastWrite, WriteBuffer
<1>5. OrderInv'
  BY <1>4 DEF DInv, OrderInv, Below, Filling
<1>6. Repeats'
  BY <1>4 DEF Repeats
<1>7. \A y \in Elems(disk' \o stdio') : AllAfter(y)'
  <2>1. written' + 1 = written + 2
    BY <1>1 DEF IInv, TypeOK
  <2> QED BY <1>3, <1>4, <2>1 DEF AllAfter, Filling
<1>8. StreamInv'
  BY <1>3, <1>4, <1>7 DEF StreamInv
<1> QED BY <1>5, <1>6, <1>8 DEF DInv

LEMMA WriteOrder ==
  ASSUME IInv, DInv, Write
  PROVE  DInv'
<1>1. n \in Nat /\ (~repeating => n = 0) /\ (repeating => pc = "write" /\ written < Len(toWrite))
  BY DEF DInv, Repeats
<1>2. CASE WriteAll
  <2>1. n = 0 /\ LastWrite(Logline) /\ pc = "write" /\ written < Len(toWrite)
    BY <1>1, <1>2 DEF WriteAll, LastWrite, WriteBuffer
  <2>2. Logline = Bytes(0, Len(Logline)) /\ Len(Logline) \in Nat
    BY <2>1, AllOfIt
  <2>3. \A x : Logline = Bytes(0, x) => LastWrite(Bytes(n, x))
    BY <2>1
  <2> QED BY <2>2, <2>3, LastWriteOrder
<1>3. CASE WriteShort
  <2>1. PICK x \in 0..Len(Logline) - 1 : Accept(Bytes(0, x)) /\ n' = x
    BY <1>3 DEF WriteShort
  <2>2. /\ n = 0 /\ pc = "write" /\ written < Len(toWrite) /\ repeating' /\ UNCHANGED vars
    BY <1>1, <1>3 DEF WriteShort
  <2>3. x \in Nat /\ Accept(Bytes(n, x)) /\ n' = n + x
    <3>1. Len(Logline) \in Nat
      BY <2>2, AllOfIt
    <3> QED BY <2>1, <2>2, <3>1
  <2> QED BY <2>2, <2>3, WriteMoreOrder
<1>4. CASE WriteRest
  <2>1. pc = "write" /\ written < Len(toWrite)
    BY <1>1, <1>4 DEF WriteRest
  <2>2. Len(Logline) - n \in Nat
    <3>1. Len(Logline) \in Nat
      BY <2>1, AllOfIt
    <3> QED BY <1>1, <1>4, <3>1 DEF WriteRest
  <2> QED BY <1>4, <2>2, LastWriteOrder DEF WriteRest
<1>5. CASE GiveUp
  <2>1. Bytes(n, 0) = <<>>
    BY DEF Bytes
  <2> QED BY <1>5, <2>1, LastWriteOrder DEF GiveUp
<1>6. CASE repeating /\ \E x \in 1..Len(Logline) : WriteAgain(x)
  <2>1. PICK x \in 1..Len(Logline) : WriteAgain(x)
    BY <1>6
  <2>2. /\ x \in Nat /\ Accept(Bytes(n, x)) /\ n' = n + x /\ repeating' /\ UNCHANGED vars
    BY <1>6, <2>1 DEF WriteAgain
  <2> QED BY <1>1, <1>6, <2>2, WriteMoreOrder
<1> QED BY <1>2, <1>3, <1>4, <1>5, <1>6 DEF Write

-----------------------------------------------------------------------------
(* The other steps. *)

(* A flush, or nothing, leaves what is in the stream. *)
LEMMA FlushedOrder ==
  ASSUME Repeats, StreamInv, Flush(<<>>)
  PROVE  stdio' \in Seq(Nat) /\ disk' \in Seq(Nat) /\ disk' \o stdio' = disk \o stdio
<1>1. <<>> \in Seq(Nat) /\ stdio \in Seq(Nat) /\ disk \in Seq(Nat)
  BY EmptySeq DEF StreamInv
<1>2. /\ stdio' \in Seq(Nat) /\ disk' \in Seq(Nat)
      /\ disk' \o stdio' = (disk \o stdio) \o <<>>
  BY <1>1, StreamAdds
<1> QED BY <1>1, <1>2, ConcatProperties, ConcatEmptySeq

LEMMA EndRoundOrder ==
  ASSUME IInv, DInv, EndRound
  PROVE  DInv'
<1>1. /\ content' = [b \in Buffers |-> IF b \in Elems(toWrite) THEN <<>> ELSE content[b]]
      /\ toWrite' = <<>> /\ written' = 0
      /\ UNCHANGED <<current, buffers, lines, repeating, n>> /\ Flush(<<>>)
      /\ written = Len(toWrite)
  BY DEF EndRound, Recycle
<1>2. current \in Buffers /\ Elems(buffers) \subseteq Buffers /\ Filling \cap Elems(toWrite) = {}
  BY ElemsIn DEF IInv, TypeOK, NoSharing, Filling
<1>3. \A b \in Filling : content'[b] = content[b]
  BY <1>1, <1>2 DEF Filling
<1>4. Len(toWrite') = 0 /\ DOMAIN toWrite' = {} /\ Elems(toWrite') = {}
  BY <1>1, EmptySeq, EmptyElems, LenProperties
<1>5. OrderInv'
  <2>1. Ordered(<<>>)
    BY DEF Ordered
  <2>2. \A b \in Buffers : Ordered(content'[b])
    BY <1>1, <2>1 DEF DInv, OrderInv
  <2>3. (\A b \in Elems(buffers) : Below(b, current))'
    BY <1>1, <1>3 DEF DInv, OrderInv, Below, Filling
  <2>4. (\A i, j \in DOMAIN buffers : i < j => Below(buffers[i], buffers[j]))'
    <3>1. \A i \in DOMAIN buffers : buffers[i] \in Filling
      BY DEF Elems, Filling
    <3> QED BY <1>1, <1>3, <3>1 DEF DInv, OrderInv, Below
  <2> QED BY <1>1, <1>4, <2>2, <2>3, <2>4 DEF OrderInv
<1>6. ~repeating
  <2>1. Len(toWrite) \in Nat
    BY LenProperties DEF IInv, TypeOK
  <2> QED BY <1>1, <2>1 DEF DInv, Repeats
<1>7. Repeats'
  BY <1>1, <1>6 DEF DInv, Repeats
<1>8. stdio' \in Seq(Nat) /\ disk' \in Seq(Nat) /\ disk' \o stdio' = disk \o stdio
  BY <1>1, FlushedOrder DEF DInv
<1>9. \A x \in Elems(disk \o stdio) : x <= lines /\ AllAfter(x)'
  <2>1. SUFFICES ASSUME NEW x \in Elems(disk \o stdio) PROVE x <= lines /\ AllAfter(x)'
    OBVIOUS
  <2>2. x <= lines /\ \A b \in Filling : \A y \in Elems(content[b]) : x < y
    BY <2>1 DEF DInv, StreamInv, AllAfter
  <2>3. Filling' = Filling
    BY <1>1 DEF Filling
  <2>4. \A b \in Filling' : \A y \in Elems(content'[b]) : x < y
    BY <1>3, <2>2, <2>3
  <2>5. written' + 1..Len(toWrite') = {}
    BY <1>1, <1>4
  <2> QED BY <2>2, <2>4, <2>5 DEF AllAfter
<1>10. StreamInv'
  BY <1>1, <1>8, <1>9 DEF DInv, StreamInv
<1> QED BY <1>5, <1>7, <1>10 DEF DInv

LEMMA SwapOrder ==
  ASSUME IInv, DInv, SwapNoted
  PROVE  DInv'
<1>1. /\ toWrite' = Append(buffers, current) /\ buffers' = toWrite /\ current' = new1
      /\ UNCHANGED <<content, lines, written, stdio, disk, n, repeating>>
      /\ pc \in {"lock", "wait"}
  BY DEF SwapNoted, Swap, stream
<1>2. toWrite = <<>> /\ content[new1] = <<>> /\ new1 \in Buffers /\ written = 0
  BY <1>1 DEF IInv, Places, Clean, TypeOK
<1>3. buffers \in Seq(Buffers) /\ current \in Buffers
  BY DEF IInv, TypeOK
<1>4. /\ Len(buffers) \in Nat /\ DOMAIN buffers = 1..Len(buffers)
      /\ Len(toWrite') = Len(buffers) + 1 /\ DOMAIN toWrite' = 1..Len(buffers) + 1
      /\ toWrite'[Len(buffers) + 1] = current
      /\ \A i \in 1..Len(buffers) : toWrite'[i] = buffers[i] /\ buffers[i] \in Elems(buffers)
      /\ \A i \in 1..Len(buffers) + 1 : i \in 1..Len(buffers) \/ i = Len(buffers) + 1
  <2>1. Len(buffers) \in Nat /\ DOMAIN buffers = 1..Len(buffers)
    BY <1>3, LenProperties
  <2>2. \A i \in 1..Len(buffers) + 1 : i \in 1..Len(buffers) \/ i = Len(buffers) + 1
    BY <2>1
  <2> QED BY <1>1, <1>3, <2>1, <2>2, AppendProperties, LenProperties DEF Elems
<1>5. Elems(buffers') = {} /\ DOMAIN buffers' = {} /\ Filling' = {new1}
  BY <1>1, <1>2, EmptyElems DEF Filling, Elems
<1>6. Elems(content[new1]) = {}
  BY <1>2, EmptyElems
<1>7. OrderInv'
  <2>1. (\A i, j \in DOMAIN toWrite : i < j => Below(toWrite[i], toWrite[j]))'
    <3>1. SUFFICES ASSUME NEW i \in 1..Len(buffers) + 1, NEW j \in 1..Len(buffers) + 1, i < j,
                          NEW c, NEW d, c = toWrite'[i], d = toWrite'[j]
                   PROVE  Below(c, d)
      BY <1>1, <1>4 DEF Below
    <3>2. i \in 1..Len(buffers)
      BY <1>4, <3>1
    <3> QED BY <1>4, <3>1, <3>2 DEF DInv, OrderInv
  <2>2. \A b : Below(b, new1)
    BY <1>6 DEF Below
  <2> QED BY <1>1, <1>5, <2>1, <2>2 DEF DInv, OrderInv, Below
<1>8. ~repeating
  BY <1>1 DEF DInv, Repeats
<1>9. Repeats'
  BY <1>1, <1>8 DEF DInv, Repeats
<1>10. \A x \in Elems(disk \o stdio) : x <= lines /\ AllAfter(x)'
  <2>1. SUFFICES ASSUME NEW x \in Elems(disk \o stdio) PROVE x <= lines /\ AllAfter(x)'
    OBVIOUS
  <2>2. x <= lines /\ \A b \in Filling : \A y \in Elems(content[b]) : x < y
    BY <2>1 DEF DInv, StreamInv, AllAfter
  <2>3. \A b \in Filling' : \A y \in Elems(content'[b]) : x < y
    BY <1>1, <1>5, <1>6
  <2>4. ASSUME NEW i \in written' + 1..Len(toWrite'), NEW j \in DOMAIN content'[toWrite'[i]]
        PROVE  x < content'[toWrite'[i]][j]
    <3>1. i \in 1..Len(buffers) + 1
      BY <1>1, <1>2, <1>4, <2>4
    <3>2. toWrite'[i] \in Filling
      BY <1>4, <3>1 DEF Filling
    <3> QED BY <1>1, <2>2, <2>4, <3>2 DEF Elems
  <2> QED BY <2>2, <2>3, <2>4 DEF AllAfter
<1>11. StreamInv'
  BY <1>1, <1>10 DEF DInv, StreamInv
<1> QED BY <1>7, <1>9, <1>11 DEF DInv

LEMMA DropOrder ==
  ASSUME IInv, DInv, Drop, UNCHANGED logFile
  PROVE  DInv'
<1>1. UNCHANGED <<current, buffers, lines, written, stdio, disk, n, repeating>> /\ pc = "drop"
  BY DEF Drop, logFile, stream
<1>2. /\ Elems(toWrite') \subseteq Elems(toWrite)
      /\ content' = [b \in Buffers |-> IF b \in Elems(toWrite) \ Elems(toWrite') THEN <<>> ELSE content[b]]
  BY DropKeeps
<1>3. /\ current \in Buffers /\ Elems(buffers) \subseteq Buffers /\ Elems(toWrite) \subseteq Buffers
      /\ Filling \cap Elems(toWrite) = {} /\ toWrite \in Seq(Buffers)
  BY ElemsIn DEF IInv, TypeOK, NoSharing, Filling
<1>4. \A b \in Filling \cup Elems(toWrite') : content'[b] = content[b]
  BY <1>2, <1>3 DEF Filling
<1>5. Len(toWrite) \in Nat /\ DOMAIN toWrite = 1..Len(toWrite) /\ written = 0
  BY <1>1, <1>3, LenProperties DEF IInv, Places
<1>6. /\ Len(toWrite') \in Nat /\ DOMAIN toWrite' = 1..Len(toWrite')
      /\ \A i \in 1..Len(toWrite') : i \in 1..Len(toWrite) /\ toWrite'[i] = toWrite[i]
  <2>1. CASE Len(toWrite) > Limit
    <3>1. Len(toWrite) > 2 /\ toWrite' = SubSeq(toWrite, 1, 2)
      BY <1>5, <2>1, AsyncLoggingAssumption DEF Drop
    <3>2. /\ toWrite' \in Seq(Buffers) /\ Len(toWrite') = 2
          /\ toWrite'[1] = toWrite[1] /\ toWrite'[2] = toWrite[2]
      BY <1>3, <3>1, FirstTwo
    <3> QED BY <1>5, <3>1, <3>2, LenProperties
  <2>2. CASE ~(Len(toWrite) > Limit)
    BY <1>5, <2>2 DEF Drop
  <2> QED BY <2>1, <2>2
<1>7. \A i \in 1..Len(toWrite') : toWrite'[i] \in Elems(toWrite')
  BY <1>6 DEF Elems
<1>8. Filling' = Filling
  BY <1>1 DEF Filling
<1>9. OrderInv'
  <2>1. \A b \in Buffers : Ordered(content'[b])
    <3>1. Ordered(<<>>)
      BY DEF Ordered
    <3> QED BY <1>2, <3>1 DEF DInv, OrderInv
  <2>2. (\A i, j \in DOMAIN toWrite : i < j => Below(toWrite[i], toWrite[j]))'
    <3>1. SUFFICES ASSUME NEW i \in 1..Len(toWrite'), NEW j \in 1..Len(toWrite'), i < j,
                          NEW c, NEW d, c = toWrite'[i], d = toWrite'[j]
                   PROVE  Below(c, d)'
      BY <1>6
    <3>2. Below(c, d)
      BY <1>5, <1>6, <3>1 DEF DInv, OrderInv
    <3> QED BY <1>4, <1>7, <3>1, <3>2 DEF Below
  <2>3. (\A b \in Elems(toWrite), c \in Filling : Below(b, c))'
    BY <1>2, <1>4, <1>8 DEF DInv, OrderInv, Below
  <2>4. (\A b \in Elems(buffers) : Below(b, current))'
    BY <1>1, <1>4 DEF DInv, OrderInv, Below, Filling
  <2>5. (\A i, j \in DOMAIN buffers : i < j => Below(buffers[i], buffers[j]))'
    <3>1. \A i \in DOMAIN buffers : buffers[i] \in Filling
      BY DEF Elems, Filling
    <3> QED BY <1>1, <1>4, <3>1 DEF DInv, OrderInv, Below
  <2> QED BY <2>1, <2>2, <2>3, <2>4, <2>5 DEF OrderInv
<1>10. ~repeating
  BY <1>1 DEF DInv, Repeats
<1>11. Repeats'
  BY <1>1, <1>10 DEF DInv, Repeats
<1>12. \A x \in Elems(disk \o stdio) : AllAfter(x)'
  <2>1. SUFFICES ASSUME NEW x \in Elems(disk \o stdio) PROVE AllAfter(x)'
    OBVIOUS
  <2>2. AllAfter(x)
    BY <2>1 DEF DInv, StreamInv
  <2>3. \A b \in Filling' : \A y \in Elems(content'[b]) : x < y
    BY <1>4, <1>8, <2>2 DEF AllAfter
  <2>4. \A i \in written' + 1..Len(toWrite') : \A j \in DOMAIN content'[toWrite'[i]] :
          (i = written' + 1 => j > n') => x < content'[toWrite'[i]][j]
    <3>1. SUFFICES ASSUME NEW i \in 1..Len(toWrite'), NEW j \in DOMAIN content[toWrite[i]],
                          i = 1 => j > n
                   PROVE  x < content[toWrite[i]][j]
      BY <1>1, <1>4, <1>5, <1>6, <1>7
    <3>2. i \in written + 1..Len(toWrite) /\ (i = written + 1 => j > n)
      BY <1>5, <1>6, <3>1
    <3> QED BY <2>2, <3>1, <3>2 DEF AllAfter
  <2> QED BY <2>3, <2>4 DEF AllAfter
<1>13. StreamInv'
  BY <1>1, <1>12 DEF DInv, StreamInv
<1> QED BY <1>9, <1>11, <1>13 DEF DInv

(* Steps that leave the lines and the stream as they are. *)
LEMMA SameOrder ==
  ASSUME DInv, UNCHANGED <<content, current, buffers, toWrite, written, lines, n, repeating>>,
         stdio' \in Seq(Nat), disk' \in Seq(Nat), disk' \o stdio' = disk \o stdio,
         UNCHANGED pc \/ pc # "write"
  PROVE  DInv'
<1>1. OrderInv'
  BY DEF DInv, OrderInv, Below, Filling
<1>2. Repeats'
  BY DEF DInv, Repeats
<1>3. StreamInv'
  BY DEF DInv, StreamInv, AllAfter, Filling
<1> QED BY <1>1, <1>2, <1>3 DEF DInv

LEMMA DInvStep ==
  ASSUME IInv, DInv, [LogNext]_logVars
  PROVE  DInv'
<1>1. CASE AppendLine /\ UNCHANGED logFile
  BY <1>1, AppendOrder
<1>2. CASE Write
  BY <1>2, WriteOrder
<1>3. CASE EndRound
  BY <1>3, EndRoundOrder
<1>4. CASE SwapNoted
  BY <1>4, SwapOrder
<1>5. CASE EndLoop
  <2>1. /\ UNCHANGED <<content, current, buffers, toWrite, written, lines, n, repeating>>
        /\ pc # "write" /\ Flush(<<>>)
    BY <1>5 DEF EndLoop, TestRunning
  <2> QED BY <2>1, FlushedOrder, SameOrder DEF DInv
<1>6. CASE Drop /\ UNCHANGED logFile
  BY <1>6, DropOrder
<1>7. CASE ((Stop \/ TestRunning \/ Wait) /\ UNCHANGED logFile) \/ UNCHANGED logVars
  <2>1. /\ UNCHANGED <<content, current, buffers, toWrite, written, lines, n, repeating, stdio, disk>>
        /\ UNCHANGED pc \/ pc # "write"
    BY <1>7 DEF Stop, TestRunning, Wait, logVars, vars, logger, logFile, stream
  <2>2. stdio \in Seq(Nat) /\ disk \in Seq(Nat)
    BY DEF DInv, StreamInv
  <2> QED BY <2>1, <2>2, SameOrder
<1> QED BY <1>1, <1>2, <1>3, <1>4, <1>5, <1>6, <1>7 DEF LogNext, LogThread, Other

(* The log on disk has the lines in the order in which they were appended,  *)
(* none twice, whatever the buffers go through, however often a write is    *)
(* short or a flush fails.                                                  *)
THEOREM WrittenInOrder == LogSpec => []DiskInOrder
<1>1. LogInit => DInv
  <2> SUFFICES ASSUME LogInit PROVE DInv
    OBVIOUS
  <2>1. <<>> \in Seq(Nat) /\ Len(<<>>) = 0 /\ Elems(<<>>) = {} /\ DOMAIN <<>> = {} /\ <<>> \o <<>> = <<>>
    BY EmptySeq, EmptyElems, LenProperties, ConcatEmptySeq
  <2>2. Ordered(<<>>)
    BY <2>1 DEF Ordered
  <2>3. /\ \A b \in Buffers : content[b] = <<>>
        /\ buffers = <<>> /\ toWrite = <<>> /\ n = 0 /\ ~repeating /\ stdio = <<>> /\ disk = <<>>
    BY DEF LogInit, Init
  <2>4. OrderInv /\ Repeats /\ StreamInv
    BY <2>1, <2>2, <2>3 DEF OrderInv, Repeats, StreamInv
  <2> QED BY <2>4 DEF DInv
<1>2. IInv /\ DInv /\ [LogNext]_logVars => DInv'
  BY DInvStep
<1>3. DInv => DiskInOrder
  BY DEF DInv, StreamInv, Ordered, DiskInOrder
<1>4. LogSpec => []IInv
  BY ImplementsAsyncLogging, Inductive, PTL
<1> QED BY <1>1, <1>2, <1>3, <1>4, PTL DEF LogSpec
==============================================================================
