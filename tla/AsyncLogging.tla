---------------------------- MODULE AsyncLogging ----------------------------
(***************************************************************************)
(* The double-buffered log (AsyncLogging.cpp): threads append lines to     *)
(* currentBuffer_ under mutex_, the logging thread swaps the full buffers  *)
(* out under the same mutex and writes them to the file without it.        *)
(*                                                                         *)
(* The k-th line appended is the number k, and every line has length one.  *)
(* A buffer is an identity with a content, so that it can be seen who      *)
(* else holds it; one that is freed is empty when its identity is used     *)
(* again for a new buffer.  Each step of the logging thread is the code    *)
(* between two points where other threads can be noticed: the test of      *)
(* running_, the critical section, the wait in it, and the writing.        *)
(***************************************************************************)
EXTENDS Naturals, Sequences

CONSTANTS NBuffers,  (* bounds the FixedBuffers alive at a time          *)
          Capacity,  (* kLargeBuffer, in lines                           *)
          Limit,     (* 25, the number of buffers above which some go    *)
          MaxLines   (* bounds the lines appended                        *)

ASSUME AsyncLoggingAssumption ==
  /\ NBuffers \in Nat /\ NBuffers >= 4
  /\ Capacity \in Nat /\ Capacity > 1
  /\ Limit \in Nat /\ Limit >= 2
  /\ MaxLines \in Nat

Buffers == 1..NBuffers  (* identities of FixedBuffers *)
None == 0               (* a null BufferPtr           *)

VARIABLES
  content,  (* the lines in each buffer                                 *)
  current,  (* currentBuffer_                                           *)
  next,     (* nextBuffer_                                              *)
  buffers,  (* buffers_                                                 *)
  running,  (* running_                                                 *)
  pc,       (* where the logging thread is                              *)
  new1,     (* newBuffer1                                               *)
  new2,     (* newBuffer2                                               *)
  toWrite,  (* buffersToWrite                                           *)
  written,  (* how many of them have been handed to the LogFile         *)
  file,     (* the lines handed to the LogFile                          *)
  lines,    (* how many lines have been appended                        *)
  dropped   (* history: the lines in buffers that were dropped          *)

logger == <<pc, new1, new2, toWrite, written, file, dropped>>
vars == <<content, current, next, buffers, running, lines, logger>>

Elems(s) == {s[i] : i \in DOMAIN s}

TypeOK ==
  /\ lines \in 0..MaxLines
  /\ content \in [Buffers -> Seq(1..lines)]
  /\ \A b \in Buffers : Len(content[b]) < Capacity
  /\ current \in Buffers
  /\ next \in Buffers \cup {None}
  /\ buffers \in Seq(Buffers)
  /\ running \in BOOLEAN
  /\ pc \in {"test", "lock", "wait", "drop", "write", "done"}
  /\ new1 \in Buffers \cup {None} /\ new2 \in Buffers \cup {None}
  /\ toWrite \in Seq(Buffers)
  /\ written \in 0..Len(toWrite)
  /\ file \in Seq(1..lines)
  /\ dropped \in SUBSET (1..lines)

(* start() has returned: running_ is set and the thread is at its loop. *)
Init ==
  /\ content = [b \in Buffers |-> <<>>]
  /\ current = 1 /\ next = 2 /\ new1 = 3 /\ new2 = 4
  /\ buffers = <<>> /\ toWrite = <<>> /\ written = 0
  /\ running = TRUE /\ pc = "test"
  /\ file = <<>> /\ lines = 0 /\ dropped = {}

-----------------------------------------------------------------------------
(* AsyncLogging::append, one critical section. *)

Held == {current, next, new1, new2} \cup Elems(buffers) \cup Elems(toWrite)

Fits == Capacity - Len(content[current]) > 1

(* The line goes into buffer b. *)
Put(b) ==
  /\ lines < MaxLines /\ lines' = lines + 1
  /\ content' = [content EXCEPT ![b] = Append(@, lines + 1)]

AppendFits ==
  /\ Fits /\ Put(current)
  /\ UNCHANGED <<current, next, buffers, running, logger>>

(* Mutant: the full buffer is not kept. *)
AppendNextLosing ==
  /\ ~Fits /\ next # None /\ Put(next)
  /\ current' = next /\ next' = None
  /\ UNCHANGED <<buffers, running, logger>>

AppendNext ==
  /\ ~Fits /\ next # None /\ Put(next)
  /\ buffers' = Append(buffers, current)
  /\ current' = next /\ next' = None
  /\ UNCHANGED <<running, logger>>

(* A new buffer; which identity it gets makes no difference. *)
AppendNew ==
  /\ ~Fits /\ next = None
  /\ \E b \in Buffers \ Held :
       /\ \A c \in Buffers \ Held : b <= c
       /\ Put(b) /\ current' = b
  /\ buffers' = Append(buffers, current)
  /\ UNCHANGED <<next, running, logger>>

AppendLine == AppendFits \/ AppendNext \/ AppendNew

(* AsyncLogging::stop, up to its join. *)
Stop ==
  /\ running /\ running' = FALSE
  /\ UNCHANGED <<content, current, next, buffers, lines, logger>>

-----------------------------------------------------------------------------
(* AsyncLogging::threadFunc. *)

TestRunning ==
  /\ pc = "test" /\ pc' = IF running THEN "lock" ELSE "done"
  /\ UNCHANGED <<content, current, next, buffers, running, lines,
                 new1, new2, toWrite, written, file, dropped>>

Wait ==
  /\ pc = "lock" /\ buffers = <<>> /\ pc' = "wait"
  /\ UNCHANGED <<content, current, next, buffers, running, lines,
                 new1, new2, toWrite, written, file, dropped>>

(* The critical section; a wait ends by a notify, by its time-out or        *)
(* spuriously, so it can end at any time.                                   *)
(* Mutants: the wait has no time-out; currentBuffer_ is not replaced.       *)
SwapUntimed ==
  /\ pc \in {"lock", "wait"} /\ buffers # <<>> /\ pc' = "drop"
  /\ toWrite' = Append(buffers, current) /\ buffers' = toWrite
  /\ current' = new1 /\ new1' = None
  /\ IF next = None THEN next' = new2 /\ new2' = None ELSE UNCHANGED <<next, new2>>
  /\ UNCHANGED <<content, running, lines, written, file, dropped>>

SwapSharing ==
  /\ (pc = "lock" /\ buffers # <<>>) \/ pc = "wait"
  /\ pc' = "drop"
  /\ toWrite' = Append(buffers, current) /\ buffers' = toWrite
  /\ IF next = None THEN next' = new2 /\ new2' = None ELSE UNCHANGED <<next, new2>>
  /\ UNCHANGED <<content, current, new1, running, lines, written, file, dropped>>

Swap ==
  /\ (pc = "lock" /\ buffers # <<>>) \/ pc = "wait"
  /\ pc' = "drop"
  /\ toWrite' = Append(buffers, current) /\ buffers' = toWrite
  /\ current' = new1 /\ new1' = None
  /\ IF next = None THEN next' = new2 /\ new2' = None ELSE UNCHANGED <<next, new2>>
  /\ UNCHANGED <<content, running, lines, written, file, dropped>>

(* More than Limit buffers: all but the first two are dropped, and freed.  *)
Excess == {toWrite[i] : i \in 3..Len(toWrite)}

Drop ==
  /\ pc = "drop" /\ pc' = "write"
  /\ IF Len(toWrite) > Limit
     THEN /\ toWrite' = SubSeq(toWrite, 1, 2)
          /\ dropped' = dropped \cup UNION {Elems(content[b]) : b \in Excess}
          /\ content' = [b \in Buffers |-> IF b \in Excess THEN <<>> ELSE content[b]]
     ELSE UNCHANGED <<toWrite, dropped, content>>
  /\ UNCHANGED <<current, next, buffers, running, lines, new1, new2, written, file>>

WriteBuffer ==
  /\ pc = "write" /\ written < Len(toWrite)
  /\ written' = written + 1
  /\ file' = file \o content[toWrite[written + 1]]
  /\ UNCHANGED <<content, current, next, buffers, running, lines, pc, new1, new2, toWrite, dropped>>

(* After the writing, buffersToWrite is cut to two and its last buffers are *)
(* taken, reset, for newBuffer1 and newBuffer2 where these are missing; the *)
(* others are freed.                                                        *)
Kept == IF Len(toWrite) > 2 THEN 2 ELSE Len(toWrite)
Back(k) == IF k \in DOMAIN toWrite THEN toWrite[k] ELSE None

(* Mutant: the two that are taken are not reset. *)
RecycleStale ==
  /\ pc = "write" /\ written = Len(toWrite) /\ pc' = "test"
  /\ new1' = IF new1 = None THEN Back(Kept) ELSE new1
  /\ new2' = IF new2 = None THEN Back(Kept - 1) ELSE new2
  /\ toWrite' = <<>> /\ written' = 0
  /\ content' = [b \in Buffers |->
       IF b \in Elems(toWrite) \ {new1', new2'} THEN <<>> ELSE content[b]]
  /\ UNCHANGED <<current, next, buffers, running, lines, file, dropped>>

Recycle ==
  /\ pc = "write" /\ written = Len(toWrite) /\ pc' = "test"
  /\ new1' = IF new1 = None THEN Back(Kept) ELSE new1
  /\ new2' = IF new2 = None THEN Back(Kept - 1) ELSE new2
  /\ content' = [b \in Buffers |-> IF b \in Elems(toWrite) THEN <<>> ELSE content[b]]
  /\ toWrite' = <<>> /\ written' = 0
  /\ UNCHANGED <<current, next, buffers, running, lines, file, dropped>>

Logger == TestRunning \/ Wait \/ Swap \/ Drop \/ WriteBuffer \/ Recycle

Next == AppendLine \/ Stop \/ Logger

Spec == Init /\ [][Next]_vars

-----------------------------------------------------------------------------
(* Properties. *)

(* The assertions of the thread's loop (AsyncLogging.cpp:64-66, 84, 110,    *)
(* 117): two empty spare buffers at its start, something to write after the *)
(* swap, and enough of it to have two spare buffers again.                  *)
AssertsHold ==
  /\ pc \in {"lock", "wait"} =>
       /\ new1 # None /\ content[new1] = <<>>
       /\ new2 # None /\ content[new2] = <<>>
       /\ toWrite = <<>>
  /\ pc \in {"drop", "write"} =>
       /\ toWrite # <<>>
       /\ new2 = None => Len(toWrite) >= 2

Injective(s) == \A i, j \in DOMAIN s : s[i] = s[j] => i = j

(* A buffer has one place: the logging thread writes its own buffers        *)
(* without the mutex while others are appended to (AsyncLogging.cpp:98).    *)
NoSharing ==
  /\ current \notin {next, new1, new2}
  /\ next # None => next \notin {new1, new2}
  /\ new1 # None => new1 # new2
  /\ {current, next, new1, new2} \cap (Elems(buffers) \cup Elems(toWrite)) = {}
  /\ Elems(buffers) \cap Elems(toWrite) = {}
  /\ Injective(buffers) /\ Injective(toWrite)

(* The lines in the buffers that are still to be written. *)
OnItsWay ==
  Elems(content[current])
    \cup (UNION {Elems(content[b]) : b \in Elems(buffers)})
    \cup (UNION {Elems(content[toWrite[i]]) : i \in written + 1..Len(toWrite)})

(* A line that was appended has gone to the file, or was dropped with its   *)
(* buffer because more than Limit were waiting, or is still on its way in a *)
(* buffer, whichever hands that has gone through (AsyncLogging.cpp:39-48,   *)
(* 69-121).                                                                 *)
NothingLost == 1..lines \subseteq Elems(file) \cup dropped \cup OnItsWay
=============================================================================
