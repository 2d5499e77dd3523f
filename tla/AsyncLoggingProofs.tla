------------------------- MODULE AsyncLoggingProofs -------------------------
(***************************************************************************)
(* Proofs about AsyncLogging for every number of buffers and lines, every  *)
(* capacity and every limit: the assertions of the logging thread hold, a  *)
(* buffer has one place, and no line is lost without being dropped.        *)
(***************************************************************************)
EXTENDS AsyncLogging, SequenceTheorems, TLAPS

(* A buffer that is free or spare is empty. *)
Clean ==
  /\ \A b \in Buffers \ Held : content[b] = <<>>
  /\ \A b \in {next, new1, new2} \ {None} : content[b] = <<>>

(* What the logging thread has at its places: its two spare buffers, or     *)
(* buffers to write from which it makes them again.                         *)
Places ==
  /\ pc # "write" => written = 0
  /\ pc \in {"test", "lock", "wait", "done"} =>
       new1 # None /\ new2 # None /\ toWrite = <<>>
  /\ pc \in {"drop", "write"} =>
       new1 = None /\ toWrite # <<>> /\ (new2 = None => Len(toWrite) >= 2)

(* nextBuffer_ has been taken only when a full buffer has been queued, so   *)
(* that the swap which has to replace it gets two buffers.                  *)
NextUsed == next = None => buffers # <<>>

IInv == TypeOK /\ NoSharing /\ Clean /\ Places /\ NextUsed

-----------------------------------------------------------------------------
(* Sequences. *)

LEMMA ElemsAppend ==
  ASSUME NEW S, NEW s \in Seq(S), NEW x \in S
  PROVE  Elems(Append(s, x)) = Elems(s) \cup {x}
<1>1. /\ Len(Append(s, x)) = Len(s) + 1 /\ Append(s, x)[Len(s) + 1] = x
      /\ \A i \in 1..Len(s) : Append(s, x)[i] = s[i]
      /\ DOMAIN Append(s, x) = 1..Len(s) + 1 /\ DOMAIN s = 1..Len(s) /\ Len(s) \in Nat
  BY AppendProperties, LenProperties
<1>2. 1..Len(s) + 1 = 1..Len(s) \cup {Len(s) + 1}
  BY <1>1
<1>3. Elems(Append(s, x)) = {Append(s, x)[i] : i \in 1..Len(s)} \cup {x}
  BY <1>1, <1>2 DEF Elems
<1>4. {Append(s, x)[i] : i \in 1..Len(s)} = {s[i] : i \in 1..Len(s)}
  BY <1>1
<1> QED BY <1>1, <1>3, <1>4 DEF Elems

LEMMA AppendNotEmpty ==
  ASSUME NEW S, NEW s \in Seq(S), NEW x \in S
  PROVE  Append(s, x) # <<>>
<1>1. Len(Append(s, x)) = Len(s) + 1 /\ Len(s) \in Nat
  BY AppendProperties, LenProperties
<1>2. Len(<<>>) = 0
  BY EmptySeq
<1> QED BY <1>1, <1>2

LEMMA InjectiveAppend ==
  ASSUME NEW S, NEW s \in Seq(S), NEW x \in S, Injective(s), x \notin Elems(s)
  PROVE  Injective(Append(s, x))
<1>1. /\ Append(s, x)[Len(s) + 1] = x
      /\ \A i \in 1..Len(s) : Append(s, x)[i] = s[i]
      /\ DOMAIN Append(s, x) = 1..Len(s) + 1 /\ DOMAIN s = 1..Len(s) /\ Len(s) \in Nat
  BY AppendProperties, LenProperties
<1>2. \A i \in 1..Len(s) : s[i] # x
  BY <1>1 DEF Elems
<1>3. \A i, j \in 1..Len(s) : s[i] = s[j] => i = j
  BY <1>1 DEF Injective
<1>4. \A i \in 1..Len(s) + 1 : i \in 1..Len(s) \/ i = Len(s) + 1
  BY <1>1
<1>5. SUFFICES ASSUME NEW i \in 1..Len(s) + 1, NEW j \in 1..Len(s) + 1,
                      Append(s, x)[i] = Append(s, x)[j]
               PROVE  i = j
  BY <1>1, Zenon DEF Injective
<1> QED BY <1>1, <1>2, <1>3, <1>4, <1>5, Zenon

LEMMA ElemsIn ==
  ASSUME NEW S, NEW s \in Seq(S)
  PROVE  Elems(s) \subseteq S
<1>1. Len(s) \in Nat /\ DOMAIN s = 1..Len(s) /\ s \in [1..Len(s) -> S]
  BY LenProperties
<1> QED BY <1>1 DEF Elems

LEMMA EmptyElems == Elems(<<>>) = {} /\ Injective(<<>>)
<1>1. DOMAIN <<>> = {}
  BY EmptySeq, LenProperties
<1> QED BY <1>1, Zenon DEF Elems, Injective

(* The lines that have been appended stay lines. *)
LEMMA SeqGrows ==
  ASSUME NEW n \in Nat
  PROVE  Seq(1..n) \subseteq Seq(1..n + 1)
<1>1. 1..n \subseteq 1..n + 1
  OBVIOUS
<1> QED BY <1>1, SeqMonotonic

-----------------------------------------------------------------------------
(* Types. *)

(* A line that fits leaves the types of the lines as they are. *)
LEMMA PutTypes ==
  ASSUME TypeOK, NEW b \in Buffers, Put(b), Len(content[b]) + 1 < Capacity
  PROVE  /\ lines' \in 0..MaxLines
         /\ content' \in [Buffers -> Seq(1..lines')]
         /\ \A c \in Buffers : Len(content'[c]) < Capacity
         /\ file \in Seq(1..lines') /\ dropped \in SUBSET (1..lines')
<1> USE AsyncLoggingAssumption
<1>1. lines' = lines + 1 /\ lines' \in 0..MaxLines /\ lines \in Nat
  BY DEF TypeOK, Put
<1>2. Seq(1..lines) \subseteq Seq(1..lines') /\ 1..lines \subseteq 1..lines' /\ lines' \in 1..lines'
  BY <1>1, SeqGrows
<1>3. content \in [Buffers -> Seq(1..lines')]
  BY <1>2 DEF TypeOK
<1>4. content' = [content EXCEPT ![b] = Append(content[b], lines')]
  BY <1>1 DEF Put
<1>5. Append(content[b], lines') \in Seq(1..lines') /\ Len(Append(content[b], lines')) = Len(content[b]) + 1
  BY <1>2, <1>3, AppendProperties
<1>6. content' \in [Buffers -> Seq(1..lines')]
  BY <1>3, <1>4, <1>5
<1>7. \A c \in Buffers : content'[c] = IF c = b THEN Append(content[b], lines') ELSE content[c]
  BY <1>3, <1>4
<1>8. \A c \in Buffers : Len(content'[c]) < Capacity
  BY <1>5, <1>7 DEF TypeOK
<1> QED BY <1>1, <1>2, <1>6, <1>8 DEF TypeOK

LEMMA EmptyContent == <<>> \in Seq(1..lines) /\ Len(<<>>) = 0
  BY EmptySeq

LEMMA Emptied ==
  ASSUME TypeOK, NEW S
  PROVE  LET c == [b \in Buffers |-> IF b \in S THEN <<>> ELSE content[b]]
         IN  c \in [Buffers -> Seq(1..lines)] /\ \A b \in Buffers : Len(c[b]) < Capacity
<1>1. content \in [Buffers -> Seq(1..lines)] /\ \A b \in Buffers : Len(content[b]) < Capacity
  BY DEF TypeOK
<1>2. 0 < Capacity
  BY AsyncLoggingAssumption
<1> QED BY <1>1, <1>2, EmptyContent

LEMMA FirstTwo ==
  ASSUME NEW S, NEW s \in Seq(S), Len(s) > 2
  PROVE  /\ SubSeq(s, 1, 2) \in Seq(S) /\ Len(SubSeq(s, 1, 2)) = 2
         /\ SubSeq(s, 1, 2)[1] = s[1] /\ SubSeq(s, 1, 2)[2] = s[2]
<1>1. \A i \in 1..2 : s[i] \in S
  BY LenProperties
<1> QED BY <1>1, SubSeqProperties

LEMMA TypeStep ==
  ASSUME IInv, [Next]_vars
  PROVE  TypeOK'
<1> USE AsyncLoggingAssumption
<1>1. CASE AppendFits
  <2>1. current \in Buffers /\ Len(content[current]) \in Nat
    BY LenProperties DEF IInv, TypeOK
  <2>2. Len(content[current]) + 1 < Capacity /\ Put(current)
    BY <1>1, <2>1 DEF AppendFits, Fits
  <2> QED BY <1>1, <2>1, <2>2, PutTypes DEF IInv, TypeOK, AppendFits, logger
<1>2. CASE AppendNext
  <2>1. next \in Buffers /\ content[next] = <<>>
    BY <1>2 DEF IInv, TypeOK, Clean, AppendNext
  <2>2. Len(content[next]) + 1 < Capacity /\ Put(next)
    BY <1>2, <2>1, EmptyContent DEF AppendNext
  <2>3. buffers' \in Seq(Buffers)
    BY <1>2, AppendProperties DEF IInv, TypeOK, AppendNext
  <2> QED BY <1>2, <2>1, <2>2, <2>3, PutTypes DEF IInv, TypeOK, AppendNext, logger
<1>3. CASE AppendNew
  <2>1. PICK b \in Buffers \ Held : Put(b) /\ current' = b
    BY <1>3 DEF AppendNew
  <2>2. Len(content[b]) + 1 < Capacity
    BY <2>1, EmptyContent DEF IInv, Clean
  <2>3. buffers' \in Seq(Buffers)
    BY <1>3, AppendProperties DEF IInv, TypeOK, AppendNew
  <2> QED BY <1>3, <2>1, <2>2, <2>3, PutTypes DEF IInv, TypeOK, AppendNew, logger
<1>4. CASE Stop
  BY <1>4 DEF IInv, TypeOK, Stop, logger
<1>5. CASE TestRunning
  BY <1>5 DEF IInv, TypeOK, TestRunning
<1>6. CASE Wait
  BY <1>6 DEF IInv, TypeOK, Wait
<1>7. CASE Swap
  <2>1. toWrite' \in Seq(Buffers)
    BY <1>7, AppendProperties DEF IInv, TypeOK, Swap
  <2>2. new1 \in Buffers /\ written = 0
    BY <1>7 DEF IInv, TypeOK, Places, Swap
  <2>3. 0 \in 0..Len(toWrite')
    BY <2>1, LenProperties
  <2> QED BY <1>7, <2>1, <2>2, <2>3 DEF IInv, TypeOK, Swap
<1>8. CASE Drop
  <2>1. CASE Len(toWrite) > Limit
    <3>1. toWrite' \in Seq(Buffers) /\ Len(toWrite') = 2 /\ written = 0
      <4>1. toWrite \in Seq(Buffers) /\ Len(toWrite) \in Nat /\ written = 0 /\ Limit \in Nat
        BY <1>8, LenProperties DEF IInv, TypeOK, Places, Drop
      <4>2. Len(toWrite) > 2 /\ toWrite' = SubSeq(toWrite, 1, 2)
        BY <1>8, <2>1, <4>1 DEF Drop
      <4> QED BY <4>1, <4>2, FirstTwo
    <3>2. content' \in [Buffers -> Seq(1..lines)] /\ \A b \in Buffers : Len(content'[b]) < Capacity
      <4>1. content' = [b \in Buffers |-> IF b \in Excess THEN <<>> ELSE content[b]]
        BY <1>8, <2>1 DEF Drop
      <4> QED BY <4>1, Emptied DEF IInv
    <3>3. Excess \subseteq Buffers
      BY DEF IInv, TypeOK, Excess
    <3>4. \A b \in Buffers : Elems(content[b]) \subseteq 1..lines
      <4>1. \A b \in Buffers : content[b] \in Seq(1..lines)
        BY DEF IInv, TypeOK
      <4> QED BY <4>1, ElemsIn
    <3>5. dropped' \in SUBSET (1..lines)
      <4>1. dropped' = dropped \cup UNION {Elems(content[b]) : b \in Excess}
        BY <1>8, <2>1 DEF Drop
      <4>2. dropped \subseteq 1..lines
        BY DEF IInv, TypeOK
      <4> QED BY <3>3, <3>4, <4>1, <4>2
    <3>6. /\ pc' = "write" /\ written' = 0 /\ 0 \in 0..Len(toWrite')
          /\ UNCHANGED <<current, next, buffers, running, lines, new1, new2, file>>
      BY <1>8, <3>1 DEF Drop
    <3> QED BY <3>1, <3>2, <3>5, <3>6 DEF IInv, TypeOK
  <2>2. CASE ~(Len(toWrite) > Limit)
    <3>1. UNCHANGED <<content, current, next, buffers, running, lines, new1, new2, toWrite, written, file, dropped>>
      BY <1>8, <2>2 DEF Drop
    <3>2. pc' = "write"
      BY <1>8 DEF Drop
    <3> QED BY <3>1, <3>2 DEF IInv, TypeOK
  <2> QED BY <2>1, <2>2
<1>9. CASE WriteBuffer
  <2>1. toWrite[written + 1] \in Buffers /\ written + 1 \in 0..Len(toWrite)
    BY <1>9, LenProperties DEF IInv, TypeOK, WriteBuffer
  <2>2. file' \in Seq(1..lines)
    BY <1>9, <2>1, ConcatProperties DEF IInv, TypeOK, WriteBuffer
  <2> QED BY <1>9, <2>1, <2>2 DEF IInv, TypeOK, WriteBuffer
<1>10. CASE Recycle
  <2>1. \A k : Back(k) \in Buffers \cup {None}
    BY LenProperties DEF IInv, TypeOK, Back
  <2>2. content' \in [Buffers -> Seq(1..lines)] /\ \A b \in Buffers : Len(content'[b]) < Capacity
    <3>1. content' = [b \in Buffers |-> IF b \in Elems(toWrite) THEN <<>> ELSE content[b]]
      BY <1>10 DEF Recycle
    <3> QED BY <3>1, Emptied DEF IInv
  <2>3. toWrite' \in Seq(Buffers) /\ written' \in 0..Len(toWrite')
    BY <1>10, EmptySeq DEF Recycle
  <2> QED BY <1>10, <2>1, <2>2, <2>3 DEF IInv, TypeOK, Recycle
<1>11. CASE UNCHANGED vars
  BY <1>11 DEF IInv, TypeOK, vars, logger
<1> QED BY <1>1, <1>2, <1>3, <1>4, <1>5, <1>6, <1>7, <1>8, <1>9, <1>10, <1>11
        DEF Next, AppendLine, Logger

-----------------------------------------------------------------------------
(* What the dropping and the recycling do to buffersToWrite. *)

LEMMA DropLeaves ==
  ASSUME IInv, Drop
  PROVE  toWrite' # <<>> /\ (new2' = None => Len(toWrite') >= 2)
<1> USE AsyncLoggingAssumption
<1>1. toWrite \in Seq(Buffers) /\ Len(toWrite) \in Nat /\ toWrite # <<>> /\ new2' = new2
  BY LenProperties DEF IInv, TypeOK, Places, Drop
<1>2. new2 = None => Len(toWrite) >= 2
  BY DEF IInv, Places, Drop
<1>3. CASE Len(toWrite) > Limit
  <2>1. Len(toWrite) > 2 /\ toWrite' = SubSeq(toWrite, 1, 2)
    BY <1>1, <1>3 DEF Drop
  <2>2. toWrite' \in Seq(Buffers) /\ Len(toWrite') = 2
    BY <1>1, <2>1, FirstTwo
  <2> QED BY <2>2, EmptySeq
<1>4. CASE ~(Len(toWrite) > Limit)
  BY <1>1, <1>2, <1>4 DEF Drop
<1> QED BY <1>3, <1>4

LEMMA DropKeeps ==
  ASSUME IInv, Drop
  PROVE  /\ Elems(toWrite') \subseteq Elems(toWrite)
         /\ Injective(toWrite')
         /\ Elems(toWrite) \ Elems(toWrite') \subseteq Excess
         /\ content' = [b \in Buffers |-> IF b \in Elems(toWrite) \ Elems(toWrite') THEN <<>> ELSE content[b]]
<1> USE AsyncLoggingAssumption
<1>1. toWrite \in Seq(Buffers) /\ Len(toWrite) \in Nat /\ DOMAIN toWrite = 1..Len(toWrite) /\ Injective(toWrite)
  BY LenProperties DEF IInv, TypeOK, NoSharing
<1>2. CASE Len(toWrite) > Limit
  <2>1. Len(toWrite) > 2 /\ toWrite' = SubSeq(toWrite, 1, 2)
    BY <1>1, <1>2 DEF Drop
  <2>2. toWrite' \in Seq(Buffers) /\ Len(toWrite') = 2 /\ toWrite'[1] = toWrite[1] /\ toWrite'[2] = toWrite[2]
    BY <1>1, <2>1, FirstTwo
  <2>3. DOMAIN toWrite' = {1, 2}
    BY <2>2, LenProperties
  <2>4. Elems(toWrite') = {toWrite[1], toWrite[2]}
    BY <2>2, <2>3 DEF Elems
  <2>5. 1 \in DOMAIN toWrite /\ 2 \in DOMAIN toWrite /\ DOMAIN toWrite = {1, 2} \cup 3..Len(toWrite)
    BY <1>1, <2>1
  <2>6. Elems(toWrite) = {toWrite[1], toWrite[2]} \cup Excess
    BY <2>5 DEF Elems, Excess
  <2>7. Injective(toWrite')
    BY <1>1, <2>2, <2>3, <2>5 DEF Injective
  <2>8. toWrite[1] \notin Excess /\ toWrite[2] \notin Excess
    BY <1>1, <2>1 DEF Injective, Excess
  <2>9. Excess = Elems(toWrite) \ Elems(toWrite')
    BY <2>4, <2>6, <2>8
  <2>10. content' = [b \in Buffers |-> IF b \in Excess THEN <<>> ELSE content[b]]
    BY <1>2 DEF Drop
  <2> QED BY <2>4, <2>6, <2>7, <2>9, <2>10
<1>3. CASE ~(Len(toWrite) > Limit)
  <2>1. toWrite' = toWrite /\ content' = content
    BY <1>3 DEF Drop
  <2>2. content = [b \in Buffers |-> content[b]]
    BY DEF IInv, TypeOK
  <2> QED BY <1>1, <2>1, <2>2
<1> QED BY <1>2, <1>3

LEMMA RecycleTakes ==
  ASSUME IInv, Recycle
  PROVE  /\ new1' \in Elems(toWrite)
         /\ new1' # new2'
         /\ new2 # None => new2' = new2
         /\ new2 = None => new2' \in Elems(toWrite)
<1>1. toWrite \in Seq(Buffers) /\ Len(toWrite) \in Nat /\ DOMAIN toWrite = 1..Len(toWrite) /\ Injective(toWrite)
  BY LenProperties DEF IInv, TypeOK, NoSharing
<1>2. new1 = None /\ Len(toWrite) # 0 /\ (new2 = None => Len(toWrite) >= 2)
  BY <1>1, EmptySeq DEF IInv, Places, Recycle
<1>3. Kept \in DOMAIN toWrite /\ Kept \in {1, 2} /\ (Kept = 1 => Len(toWrite) = 1)
  BY <1>1, <1>2 DEF Kept
<1>4. new1' = toWrite[Kept] /\ new1' \in Elems(toWrite)
  BY <1>2, <1>3 DEF Recycle, Back, Elems
<1>5. CASE new2 = None
  <2>1. Kept = 2 /\ 1 \in DOMAIN toWrite /\ 2 \in DOMAIN toWrite
    BY <1>1, <1>2, <1>3, <1>5
  <2>2. new2' = toWrite[1]
    BY <1>5, <2>1 DEF Recycle, Back
  <2>3. toWrite[1] # toWrite[2]
    BY <1>1, <2>1 DEF Injective
  <2> QED BY <1>4, <1>5, <2>1, <2>2, <2>3 DEF Elems
<1>6. CASE new2 # None
  <2>1. new2' = new2 /\ new2 \notin Elems(toWrite)
    BY <1>6 DEF Recycle, IInv, NoSharing
  <2> QED BY <1>4, <1>6, <2>1
<1> QED BY <1>5, <1>6

-----------------------------------------------------------------------------
(* Places. *)

LEMMA NoneApart ==
  ASSUME TypeOK
  PROVE  None \notin Elems(buffers) /\ None \notin Elems(toWrite) /\ current # None
<1>1. None \notin Buffers
  BY AsyncLoggingAssumption DEF None, Buffers
<1>2. buffers \in Seq(Buffers) /\ toWrite \in Seq(Buffers) /\ current \in Buffers
  BY DEF TypeOK
<1> QED BY <1>1, <1>2, ElemsIn

LEMMA SharingStep ==
  ASSUME IInv, [Next]_vars
  PROVE  NoSharing'
<1> USE DEF IInv
<1>1. CASE AppendFits
  BY <1>1 DEF AppendFits, NoSharing, logger
<1>2. CASE AppendNext
  <2>1. Elems(buffers') = Elems(buffers) \cup {current} /\ Injective(buffers')
    BY <1>2, ElemsAppend, InjectiveAppend DEF TypeOK, NoSharing, AppendNext
  <2>2. /\ current' = next /\ next # None /\ next' = None
        /\ UNCHANGED <<new1, new2, toWrite>>
    BY <1>2 DEF AppendNext, logger
  <2>3. CASE new1 = None
    BY <2>1, <2>2, <2>3, NoneApart DEF NoSharing
  <2>4. CASE new1 # None
    BY <2>1, <2>2, <2>4, NoneApart DEF NoSharing
  <2> QED BY <2>3, <2>4
<1>3. CASE AppendNew
  <2>1. Elems(buffers') = Elems(buffers) \cup {current} /\ Injective(buffers')
    BY <1>3, ElemsAppend, InjectiveAppend DEF TypeOK, NoSharing, AppendNew
  <2>2. current' \notin Held /\ current' \in Buffers
    BY <1>3 DEF AppendNew
  <2> QED BY <1>3, <2>1, <2>2 DEF AppendNew, NoSharing, Held, logger, None, Buffers
<1>4. CASE Stop
  BY <1>4 DEF Stop, NoSharing, logger
<1>5. CASE TestRunning
  BY <1>5 DEF TestRunning, NoSharing
<1>6. CASE Wait
  BY <1>6 DEF Wait, NoSharing
<1>7. CASE Swap
  <2>1. Elems(toWrite') = Elems(buffers) \cup {current} /\ Injective(toWrite')
    BY <1>7, ElemsAppend, InjectiveAppend DEF TypeOK, NoSharing, Swap
  <2>2. buffers' = <<>> /\ Elems(buffers') = {} /\ Injective(buffers')
    BY <1>7, EmptyElems DEF Swap, Places
  <2>3. current' = new1 /\ new1' = None /\ new1 \in Buffers /\ new2 \in Buffers
    BY <1>7 DEF Swap, Places, TypeOK
  <2>4. next' = (IF next = None THEN new2 ELSE next) /\ new2' = (IF next = None THEN None ELSE new2)
    BY <1>7 DEF Swap
  <2>5. None \notin Elems(buffers) /\ current # None
    BY NoneApart
  <2> QED BY <2>1, <2>2, <2>3, <2>4, <2>5 DEF NoSharing, None, Buffers
<1>8. CASE Drop
  <2>1. Elems(toWrite') \subseteq Elems(toWrite) /\ Injective(toWrite')
    BY <1>8, DropKeeps DEF NoSharing
  <2> QED BY <1>8, <2>1 DEF Drop, NoSharing
<1>9. CASE WriteBuffer
  BY <1>9 DEF WriteBuffer, NoSharing
<1>10. CASE Recycle
  <2>1. /\ Elems(toWrite') = {} /\ Injective(toWrite')
        /\ new1' \in Elems(toWrite) /\ new1' # new2'
        /\ new2' = new2 \/ new2' \in Elems(toWrite)
    BY <1>10, RecycleTakes, EmptyElems DEF Recycle
  <2>2. None \notin Elems(toWrite)
    BY NoneApart
  <2>3. UNCHANGED <<current, next, buffers>>
    BY <1>10 DEF Recycle
  <2> QED BY <2>1, <2>2, <2>3 DEF NoSharing
<1>11. CASE UNCHANGED vars
  BY <1>11 DEF vars, logger, NoSharing
<1> QED BY <1>1, <1>2, <1>3, <1>4, <1>5, <1>6, <1>7, <1>8, <1>9, <1>10, <1>11
        DEF Next, AppendLine, Logger

LEMMA PlacesStep ==
  ASSUME IInv, [Next]_vars
  PROVE  Places' /\ NextUsed'
<1> USE DEF IInv
<1>1. CASE AppendFits
  BY <1>1 DEF AppendFits, Places, NextUsed, logger
<1>2. CASE AppendNext
  <2>1. buffers' # <<>>
    BY <1>2, AppendNotEmpty DEF AppendNext, TypeOK
  <2> QED BY <1>2, <2>1 DEF AppendNext, Places, NextUsed, logger
<1>3. CASE AppendNew
  <2>1. buffers' # <<>>
    BY <1>3, AppendNotEmpty DEF AppendNew, TypeOK
  <2> QED BY <1>3, <2>1 DEF AppendNew, Places, NextUsed, logger
<1>4. CASE Stop
  BY <1>4 DEF Stop, Places, NextUsed, logger
<1>5. CASE TestRunning
  BY <1>5 DEF TestRunning, Places, NextUsed
<1>6. CASE Wait
  BY <1>6 DEF Wait, Places, NextUsed
<1>7. CASE Swap
  <2>1. toWrite' # <<>> /\ (next = None => Len(toWrite') >= 2)
    <3>1. buffers \in Seq(Buffers) /\ current \in Buffers /\ toWrite' = Append(buffers, current)
      BY <1>7 DEF Swap, TypeOK
    <3>2. toWrite' # <<>> /\ Len(toWrite') = Len(buffers) + 1 /\ Len(buffers) \in Nat
      BY <3>1, AppendProperties, LenProperties
    <3>3. next = None => Len(buffers) # 0
      BY <3>1, EmptySeq DEF NextUsed
    <3> QED BY <3>2, <3>3
  <2>2. pc' = "drop" /\ new1' = None /\ written' = 0 /\ new2 # None
    BY <1>7 DEF Swap, Places
  <2>3. next' # None /\ (new2' = None => next = None)
    BY <1>7, <2>2 DEF Swap
  <2> QED BY <2>1, <2>2, <2>3 DEF Places, NextUsed
<1>8. CASE Drop
  <2>1. toWrite' # <<>> /\ (new2' = None => Len(toWrite') >= 2)
    BY <1>8, DropLeaves DEF Drop
  <2> QED BY <1>8, <2>1 DEF Drop, Places, NextUsed
<1>9. CASE WriteBuffer
  BY <1>9 DEF WriteBuffer, Places, NextUsed
<1>10. CASE Recycle
  <2>1. new1' # None /\ new2' # None
    <3>1. None \notin Elems(toWrite)
      BY NoneApart
    <3> QED BY <1>10, <3>1, RecycleTakes
  <2> QED BY <1>10, <2>1 DEF Recycle, Places, NextUsed
<1>11. CASE UNCHANGED vars
  BY <1>11 DEF vars, logger, Places, NextUsed
<1> QED BY <1>1, <1>2, <1>3, <1>4, <1>5, <1>6, <1>7, <1>8, <1>9, <1>10, <1>11
        DEF Next, AppendLine, Logger

-----------------------------------------------------------------------------
(* Free and spare buffers are empty. *)

Spare == {next, new1, new2} \ {None}

(* The line changes the content of no buffer but the one it goes into. *)
LEMMA PutElsewhere ==
  ASSUME TypeOK, NEW b \in Buffers, Put(b)
  PROVE  \A c \in Buffers \ {b} : content'[c] = content[c]
  BY DEF TypeOK, Put

LEMMA CleanStep ==
  ASSUME IInv, [Next]_vars
  PROVE  Clean'
<1> USE DEF IInv
<1>1. Spare \subseteq Buffers \ {current}
  BY DEF Spare, TypeOK, NoSharing
<1>2. /\ Clean <=> /\ \A b \in Buffers \ Held : content[b] = <<>>
                   /\ \A b \in Spare : content[b] = <<>>
      /\ Clean' <=> /\ \A b \in Buffers \ Held' : content'[b] = <<>>
                    /\ \A b \in Spare' : content'[b] = <<>>
  BY DEF Clean, Spare
<1>3. CASE AppendFits
  <2>1. current \in Buffers /\ current \in Held /\ Put(current)
    BY <1>3 DEF AppendFits, TypeOK, Held
  <2>2. Held' = Held /\ Spare' = Spare
    BY <1>3 DEF AppendFits, Held, Spare, logger
  <2> QED BY <1>1, <1>2, <2>1, <2>2, PutElsewhere
<1>4. CASE AppendNext
  <2>1. next \in Spare /\ Put(next) /\ next \in Held
    BY <1>4 DEF AppendNext, Spare, Held
  <2>2. Elems(buffers') = Elems(buffers) \cup {current}
    BY <1>4, ElemsAppend DEF AppendNext, TypeOK
  <2>3. Held' = Held \cup {None}
    BY <1>4, <2>2 DEF AppendNext, Held, logger
  <2>4. Spare' = Spare \ {next}
    BY <1>4 DEF AppendNext, Spare, NoSharing, logger
  <2> QED BY <1>1, <1>2, <2>1, <2>3, <2>4, PutElsewhere
<1>5. CASE AppendNew
  <2>1. PICK b \in Buffers \ Held : Put(b) /\ current' = b
    BY <1>5 DEF AppendNew
  <2>2. Elems(buffers') = Elems(buffers) \cup {current}
    BY <1>5, ElemsAppend DEF AppendNew, TypeOK
  <2>3. Held' = Held \cup {b} /\ Spare' = Spare /\ b \notin Spare
    BY <1>5, <2>1, <2>2 DEF AppendNew, Held, Spare, logger
  <2> QED BY <1>1, <1>2, <2>1, <2>3, PutElsewhere
<1>6. CASE Stop
  BY <1>2, <1>6 DEF Stop, Held, Spare, logger
<1>7. CASE TestRunning
  BY <1>2, <1>7 DEF TestRunning, Held, Spare
<1>8. CASE Wait
  BY <1>2, <1>8 DEF Wait, Held, Spare
<1>9. CASE Swap
  <2>1. Elems(toWrite') = Elems(buffers) \cup {current}
    BY <1>9, ElemsAppend DEF TypeOK, Swap
  <2>2. buffers' = <<>> /\ Elems(buffers') = {} /\ Elems(toWrite) = {}
    BY <1>9, EmptyElems DEF Swap, Places
  <2>3. /\ current' = new1 /\ new1' = None /\ content' = content
        /\ {next', new2'} \cup {None} = {next, new2} \cup {None}
    BY <1>9 DEF Swap
  <2>4. Spare' \subseteq Spare /\ Held \subseteq Held' \cup {None}
    BY <2>1, <2>2, <2>3 DEF Spare, Held
  <2>5. None \notin Buffers
    BY AsyncLoggingAssumption DEF None, Buffers
  <2> QED BY <1>2, <2>3, <2>4, <2>5
<1>10. CASE Drop
  <2>1. content' = [b \in Buffers |-> IF b \in Elems(toWrite) \ Elems(toWrite') THEN <<>> ELSE content[b]]
    BY <1>10, DropKeeps
  <2>2. Held \subseteq Held' \cup (Elems(toWrite) \ Elems(toWrite')) /\ Spare' = Spare
    BY <1>10 DEF Drop, Held, Spare
  <2> QED BY <1>1, <1>2, <2>1, <2>2
<1>11. CASE WriteBuffer
  BY <1>2, <1>11 DEF WriteBuffer, Held, Spare
<1>12. CASE Recycle
  <2>1. content' = [b \in Buffers |-> IF b \in Elems(toWrite) THEN <<>> ELSE content[b]]
    BY <1>12 DEF Recycle
  <2>2. Spare' \subseteq Spare \cup Elems(toWrite) /\ Held \subseteq Held' \cup Elems(toWrite) \cup {None}
    BY <1>12, RecycleTakes DEF Recycle, Places, Held, Spare
  <2>3. None \notin Buffers /\ Elems(toWrite) \subseteq Buffers
    BY AsyncLoggingAssumption, ElemsIn DEF None, Buffers, TypeOK
  <2> QED BY <1>1, <1>2, <2>1, <2>2, <2>3
<1>13. CASE UNCHANGED vars
  BY <1>2, <1>13 DEF vars, logger, Held, Spare
<1> QED BY <1>3, <1>4, <1>5, <1>6, <1>7, <1>8, <1>9, <1>10, <1>11, <1>12, <1>13
        DEF Next, AppendLine, Logger

-----------------------------------------------------------------------------
(* The theorems. *)

LEMMA Initially == Init => IInv
<1> SUFFICES ASSUME Init PROVE IInv
  OBVIOUS
<1> USE AsyncLoggingAssumption DEF Init, Buffers, None
<1>1. TypeOK
  <2>1. <<>> \in Seq(1..lines) /\ <<>> \in Seq(Buffers) /\ Len(<<>>) = 0
    BY EmptySeq
  <2>2. content \in [Buffers -> Seq(1..lines)] /\ \A b \in Buffers : Len(content[b]) < Capacity
    BY <2>1
  <2> QED BY <2>1, <2>2 DEF TypeOK
<1>2. NoSharing
  BY EmptyElems DEF NoSharing
<1>3. Clean /\ Places /\ NextUsed
  BY DEF Clean, Places, NextUsed
<1> QED BY <1>1, <1>2, <1>3 DEF IInv

LEMMA Inductive == Spec => []IInv
<1>1. IInv /\ [Next]_vars => IInv'
  BY TypeStep, SharingStep, PlacesStep, CleanStep DEF IInv
<1> QED BY Initially, <1>1, PTL DEF Spec

(* The state of the log has the types stated for it: no buffer overflows. *)
THEOREM TypeCorrect == Spec => []TypeOK
<1>1. IInv => TypeOK
  BY DEF IInv
<1> QED BY Inductive, <1>1, PTL

(* No buffer is in two places: what the thread writes without mutex_, no   *)
(* append can reach (AsyncLogging.cpp:98).                                 *)
THEOREM OnePlace == Spec => []NoSharing
<1>1. IInv => NoSharing
  BY DEF IInv
<1> QED BY Inductive, <1>1, PTL

(* The assertions of threadFunc hold (AsyncLogging.cpp:64-66, 84, 110, 117). *)
THEOREM AssertionsHold == Spec => []AssertsHold
<1>1. IInv => AssertsHold
  <2> SUFFICES ASSUME IInv PROVE AssertsHold
    OBVIOUS
  <2>1. pc \in {"lock", "wait"} =>
          new1 # None /\ new2 # None /\ toWrite = <<>>
    BY DEF IInv, Places
  <2>2. pc \in {"drop", "write"} =>
          toWrite # <<>> /\ (new2 = None => Len(toWrite) >= 2)
    BY DEF IInv, Places
  <2>3. \A b \in {next, new1, new2} \ {None} : content[b] = <<>>
    BY DEF IInv, Clean
  <2> QED BY <2>1, <2>2, <2>3 DEF AssertsHold
<1> QED BY Inductive, <1>1, PTL

-----------------------------------------------------------------------------
(* No line is lost. *)

LEMMA OnItsWayIs ==
  \A k : k \in OnItsWay <=>
    \/ k \in Elems(content[current])
    \/ \E b \in Elems(buffers) : k \in Elems(content[b])
    \/ \E i \in written + 1..Len(toWrite) : k \in Elems(content[toWrite[i]])
  BY DEF OnItsWay

LEMMA PutThere ==
  ASSUME TypeOK, NEW b \in Buffers, Put(b)
  PROVE  /\ Elems(content'[b]) = Elems(content[b]) \cup {lines + 1}
         /\ 1..lines' = 1..lines \cup {lines + 1}
<1>1. lines \in Nat /\ lines' = lines + 1
  BY AsyncLoggingAssumption DEF TypeOK, Put
<1>2. content'[b] = Append(content[b], lines + 1) /\ content[b] \in Seq(Nat)
  <2>1. content[b] \in Seq(1..lines) /\ 1..lines \subseteq Nat
    BY <1>1 DEF TypeOK
  <2> QED BY <2>1, SeqMonotonic DEF TypeOK, Put
<1>3. Elems(content'[b]) = Elems(content[b]) \cup {lines + 1}
  BY <1>1, <1>2, ElemsAppend
<1> QED BY <1>1, <1>3

LEMMA ElemsConcat ==
  ASSUME NEW S, NEW s \in Seq(S), NEW t \in Seq(S)
  PROVE  Elems(s) \cup Elems(t) \subseteq Elems(s \o t)
<1>1. /\ Len(s \o t) = Len(s) + Len(t) /\ s \o t \in Seq(S)
      /\ \A i \in 1..Len(s) + Len(t) : (s \o t)[i] = IF i <= Len(s) THEN s[i] ELSE t[i - Len(s)]
  BY ConcatProperties
<1>2. /\ Len(s) \in Nat /\ DOMAIN s = 1..Len(s) /\ Len(t) \in Nat /\ DOMAIN t = 1..Len(t)
      /\ DOMAIN (s \o t) = 1..Len(s) + Len(t)
  BY <1>1, LenProperties
<1>3. \A i \in 1..Len(s) : i \in 1..Len(s) + Len(t) /\ (s \o t)[i] = s[i]
  BY <1>1, <1>2
<1>4. \A i \in 1..Len(t) : i + Len(s) \in 1..Len(s) + Len(t) /\ (s \o t)[i + Len(s)] = t[i]
  <2>1. SUFFICES ASSUME NEW i \in 1..Len(t)
                 PROVE  i + Len(s) \in 1..Len(s) + Len(t) /\ (s \o t)[i + Len(s)] = t[i]
    OBVIOUS
  <2>2. i + Len(s) \in 1..Len(s) + Len(t) /\ ~(i + Len(s) <= Len(s)) /\ i + Len(s) - Len(s) = i
    BY <1>2
  <2> QED BY <1>1, <2>2
<1> QED BY <1>2, <1>3, <1>4 DEF Elems

LEMMA NothingLostStep ==
  ASSUME IInv, NothingLost, [Next]_vars
  PROVE  NothingLost'
<1> USE DEF IInv
<1>1. SUFFICES ASSUME NEW k \in 1..lines'
               PROVE  k \in Elems(file') \cup dropped' \/ k \in OnItsWay'
  BY DEF NothingLost
<1>2. k \in 1..lines => k \in Elems(file) \cup dropped \/ k \in OnItsWay
  BY DEF NothingLost
<1>3. k \in OnItsWay' <=>
        \/ k \in Elems(content'[current'])
        \/ \E b \in Elems(buffers') : k \in Elems(content'[b])
        \/ \E i \in written' + 1..Len(toWrite') : k \in Elems(content'[toWrite'[i]])
  BY DEF OnItsWay
<1>4. \A i \in written + 1..Len(toWrite) : toWrite[i] \in Elems(toWrite) /\ toWrite[i] \in Buffers
  <2>1. toWrite \in Seq(Buffers) /\ DOMAIN toWrite = 1..Len(toWrite) /\ Len(toWrite) \in Nat /\ written \in Nat
    BY LenProperties DEF TypeOK
  <2> QED BY <2>1, ElementOfSeq DEF Elems
<1>5. Elems(buffers) \subseteq Buffers /\ current \in Buffers
  BY ElemsIn DEF TypeOK
<1>6. CASE AppendFits
  <2>1. Put(current) /\ UNCHANGED <<current, buffers, toWrite, written, file, dropped>>
    BY <1>6 DEF AppendFits, logger
  <2>2. \A b \in Buffers : Elems(content[b]) \subseteq Elems(content'[b])
    BY <1>5, <2>1, PutThere, PutElsewhere
  <2> QED BY <1>2, <1>3, <1>4, <1>5, <2>1, <2>2, PutThere, OnItsWayIs
<1>7. CASE AppendNext
  <2>1. /\ Put(next) /\ next \in Buffers /\ current' = next
        /\ UNCHANGED <<toWrite, written, file, dropped>>
    BY <1>7 DEF AppendNext, TypeOK, logger
  <2>2. Elems(buffers') = Elems(buffers) \cup {current}
    BY <1>7, ElemsAppend DEF AppendNext, TypeOK
  <2>3. \A b \in Buffers : Elems(content[b]) \subseteq Elems(content'[b])
    BY <2>1, PutThere, PutElsewhere
  <2> QED BY <1>2, <1>3, <1>4, <1>5, <2>1, <2>2, <2>3, PutThere, OnItsWayIs
<1>8. CASE AppendNew
  <2>1. PICK n \in Buffers : Put(n) /\ current' = n
    BY <1>8 DEF AppendNew
  <2>2. Elems(buffers') = Elems(buffers) \cup {current}
    BY <1>8, ElemsAppend DEF AppendNew, TypeOK
  <2>3. \A b \in Buffers : Elems(content[b]) \subseteq Elems(content'[b])
    BY <2>1, PutThere, PutElsewhere
  <2>4. UNCHANGED <<toWrite, written, file, dropped>>
    BY <1>8 DEF AppendNew, logger
  <2> QED BY <1>2, <1>3, <1>4, <1>5, <2>1, <2>2, <2>3, <2>4, PutThere, OnItsWayIs
<1>9. CASE Stop
  BY <1>2, <1>3, <1>9, OnItsWayIs DEF Stop, logger
<1>10. CASE TestRunning
  BY <1>2, <1>3, <1>10, OnItsWayIs DEF TestRunning
<1>11. CASE Wait
  BY <1>2, <1>3, <1>11, OnItsWayIs DEF Wait
<1>12. CASE Swap
  <2>1. /\ toWrite' = Append(buffers, current) /\ written' = 0 /\ toWrite = <<>>
        /\ UNCHANGED <<content, lines, file, dropped>>
    BY <1>12 DEF Swap, Places
  <2>2. Elems(toWrite') = Elems(buffers) \cup {current} /\ toWrite' \in Seq(Buffers)
    BY <2>1, ElemsAppend, AppendProperties DEF TypeOK
  <2>3. DOMAIN toWrite' = 1..Len(toWrite')
    BY <2>2, LenProperties
  <2>4. \A b \in Elems(buffers) \cup {current} :
          \E i \in written' + 1..Len(toWrite') : toWrite'[i] = b
    BY <2>1, <2>2, <2>3 DEF Elems
  <2>5. written + 1..Len(toWrite) = {}
    BY <1>12, <2>1, EmptySeq DEF Swap, Places
  <2> QED BY <1>2, <1>3, <2>1, <2>4, <2>5, OnItsWayIs
<1>13. CASE Drop
  <2>1. written = 0 /\ UNCHANGED <<current, buffers, lines, written, file>>
    BY <1>13 DEF Drop, Places
  <2>2. content' = [b \in Buffers |-> IF b \in Elems(toWrite) \ Elems(toWrite') THEN <<>> ELSE content[b]]
    BY <1>13, DropKeeps
  <2>3. content'[current] = content[current] /\ \A b \in Elems(buffers) : content'[b] = content[b]
    BY <1>5, <2>2 DEF NoSharing
  <2>4. ASSUME NEW i \in 1..Len(toWrite), k \in Elems(content[toWrite[i]])
        PROVE  k \in dropped' \/ \E j \in 1..Len(toWrite') : k \in Elems(content'[toWrite'[j]])
    <3>1. CASE toWrite[i] \in Elems(toWrite')
      <4>1. DOMAIN toWrite' = 1..Len(toWrite')
        <5>1. toWrite' \in Seq(Buffers)
          BY TypeStep DEF TypeOK
        <5> QED BY <5>1, LenProperties
      <4>2. PICK j \in 1..Len(toWrite') : toWrite'[j] = toWrite[i]
        BY <3>1, <4>1 DEF Elems
      <4>3. content'[toWrite'[j]] = content[toWrite[i]]
        BY <1>4, <2>1, <2>2, <3>1, <4>2
      <4> QED BY <2>4, <4>2, <4>3
    <3>2. CASE toWrite[i] \notin Elems(toWrite')
      <4>1. toWrite[i] \in Excess
        BY <1>4, <1>13, <2>1, <3>2, DropKeeps
      <4>2. dropped' = dropped \cup UNION {Elems(content[b]) : b \in Excess}
        BY <1>4, <1>13, <2>1, <3>2 DEF Drop
      <4> QED BY <2>4, <4>1, <4>2
    <3> QED BY <3>1, <3>2
  <2>5. dropped \subseteq dropped'
    BY <1>13 DEF Drop
  <2> QED BY <1>2, <1>3, <2>1, <2>3, <2>4, <2>5, OnItsWayIs
<1>14. CASE WriteBuffer
  <2>1. /\ file' = file \o content[toWrite[written + 1]] /\ written' = written + 1
        /\ written < Len(toWrite)
        /\ UNCHANGED <<content, current, buffers, lines, toWrite, dropped>>
    BY <1>14 DEF WriteBuffer
  <2>2. written \in Nat /\ Len(toWrite) \in Nat
    BY LenProperties DEF TypeOK
  <2>3. /\ written + 1 \in written + 1..Len(toWrite)
        /\ written + 1..Len(toWrite) = {written + 1} \cup (written' + 1..Len(toWrite))
    BY <2>1, <2>2
  <2>4. Elems(file) \cup Elems(content[toWrite[written + 1]]) \subseteq Elems(file')
    BY <1>4, <2>1, <2>3, ElemsConcat DEF TypeOK
  <2> QED BY <1>2, <1>3, <2>1, <2>3, <2>4, OnItsWayIs
<1>15. CASE Recycle
  <2>1. /\ written = Len(toWrite) /\ UNCHANGED <<current, buffers, lines, file, dropped>>
        /\ content' = [b \in Buffers |-> IF b \in Elems(toWrite) THEN <<>> ELSE content[b]]
    BY <1>15 DEF Recycle
  <2>2. written + 1..Len(toWrite) = {}
    BY <2>1, LenProperties DEF TypeOK
  <2>3. content'[current] = content[current] /\ \A b \in Elems(buffers) : content'[b] = content[b]
    BY <1>5, <2>1 DEF NoSharing
  <2> QED BY <1>2, <1>3, <2>1, <2>2, <2>3, OnItsWayIs
<1>16. CASE UNCHANGED vars
  BY <1>2, <1>3, <1>16, OnItsWayIs DEF vars, logger
<1> QED BY <1>6, <1>7, <1>8, <1>9, <1>10, <1>11, <1>12, <1>13, <1>14, <1>15, <1>16
        DEF Next, AppendLine, Logger

(* A line that was appended is in the file, was dropped with its buffer,    *)
(* or is in a buffer that append or the logging thread still holds.         *)
THEOREM NoLineLost == Spec => []NothingLost
<1>1. Init => NothingLost
  BY DEF Init, NothingLost
<1>2. IInv /\ NothingLost /\ [Next]_vars => NothingLost'
  BY NothingLostStep
<1> QED BY Inductive, <1>1, <1>2, PTL DEF Spec
==============================================================================
