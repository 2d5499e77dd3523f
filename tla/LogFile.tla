------------------------------- MODULE LogFile -------------------------------
(***************************************************************************)
(* What becomes of the lines that AsyncLogging hands over: LogFile         *)
(* (LogFile.cpp) counts the writes and flushes, AppendFile (FileUtil.cpp)  *)
(* writes to a stdio stream with a buffer of its own and repeats a short   *)
(* write.  The variable file of AsyncLogging has the lines handed over;    *)
(* here are those in the stdio buffer and those on disk.  A process that   *)
(* is killed leaves the latter, and that is how the server ends: nothing   *)
(* in it stops the log.                                                    *)
(***************************************************************************)
EXTENDS AsyncLogging

CONSTANTS FlushEveryN,  (* flushEveryN_                           *)
          MaxAhead      (* bounds n_, which may run past the line *)

ASSUME LogFileAssumption == FlushEveryN \in Nat \ {0} /\ MaxAhead \in Nat

VARIABLES
  stdio,     (* accepted by fwrite, still in buffer_                      *)
  disk,      (* in the file                                               *)
  count,     (* count_                                                    *)
  repeating, (* AppendFile::append is in its while loop                   *)
  n,         (* n_ there                                                  *)
  faulty,    (* history: a write to the file has failed                   *)
  swapped,   (* history: lines appended before the last swap              *)
  safe       (* history: lines appended before the last swap whose round  *)
             (* of the logging thread is complete                         *)

stream == <<stdio, disk>>
logFile == <<stream, count, repeating, n, faulty, swapped, safe>>
logVars == <<vars, logFile>>

LogInit ==
  /\ Init
  /\ stdio = <<>> /\ disk = <<>> /\ count = 0
  /\ repeating = FALSE /\ n = 0
  /\ faulty = FALSE /\ swapped = 0 /\ safe = 0

-----------------------------------------------------------------------------
(* The stdio stream accepts s: in order, some of what it has goes to disk.  *)
Accept(s) ==
  LET all == stdio \o s
  IN  \E k \in 0..Len(all) : /\ disk' = disk \o SubSeq(all, 1, k)
                             /\ stdio' = SubSeq(all, k + 1, Len(all))

(* It accepts s and is flushed; nobody looks at the result of fflush.       *)
(* Mutant: it is not flushed. *)
FlushNot(s) == Accept(s) /\ UNCHANGED faulty

Flush(s) ==
  \/ disk' = disk \o stdio \o s /\ stdio' = <<>> /\ UNCHANGED faulty
  \/ Accept(s) /\ faulty' = TRUE

-----------------------------------------------------------------------------
(* AppendFile::append, called through LogFile::append for each buffer.      *)

Logline == content[toWrite[written + 1]]
(* What lies beyond a line: in the code possibly stale lines of an earlier  *)
(* use of the buffer, since FixedBuffer::reset only moves cur_.             *)
Junk == 0

(* x bytes from logline + from: beyond the end, whatever is there. *)
Bytes(from, x) ==
  [i \in 1..x |-> IF from + i <= Len(Logline) THEN Logline[from + i] ELSE Junk]

(* The last fwrite accepts s, and LogFile::append_unlocked counts.          *)
LastWrite(s) ==
  /\ WriteBuffer
  /\ IF count + 1 >= FlushEveryN
     THEN count' = 0 /\ Flush(s)
     ELSE count' = count + 1 /\ Accept(s) /\ UNCHANGED faulty
  /\ repeating' = FALSE /\ n' = 0
  /\ UNCHANGED <<swapped, safe>>

WriteAll == ~repeating /\ LastWrite(Logline)

WriteShort ==
  /\ pc = "write" /\ written < Len(toWrite) /\ ~repeating
  /\ \E x \in 0 .. Len(Logline) - 1 : Accept(Bytes(0, x)) /\ n' = x
  /\ repeating' = TRUE /\ faulty' = TRUE
  /\ UNCHANGED <<vars, count, swapped, safe>>

(* The loop writes len bytes from logline + n_, not the rest of the line,   *)
(* and ends when n_ is len or nothing is accepted.                          *)
(* Mutant: from logline. *)
WriteAgainFromStart(x) ==
  /\ repeating /\ n + x # Len(Logline) /\ n + x <= MaxAhead
  /\ Accept(Bytes(0, x)) /\ n' = n + x
  /\ UNCHANGED <<vars, count, repeating, faulty, swapped, safe>>

WriteAgain(x) ==
  /\ repeating /\ n + x # Len(Logline) /\ n + x <= MaxAhead
  /\ Accept(Bytes(n, x)) /\ n' = n + x
  /\ UNCHANGED <<vars, count, repeating, faulty, swapped, safe>>

WriteRest == repeating /\ n < Len(Logline) /\ LastWrite(Bytes(n, Len(Logline) - n))

GiveUp == repeating /\ LastWrite(<<>>)

Write == \/ WriteAll \/ WriteShort \/ WriteRest \/ GiveUp
         \/ repeating /\ \E x \in 1..Len(Logline) : WriteAgain(x)

-----------------------------------------------------------------------------
(* The logging thread: output.flush() at the end of a round and of the      *)
(* loop.  Between these steps and Write nobody else looks at the file.      *)

EndRound ==
  /\ Recycle /\ Flush(<<>>)
  /\ safe' = swapped
  /\ UNCHANGED <<count, repeating, n, swapped>>

EndLoop ==
  /\ TestRunning /\ ~running /\ Flush(<<>>)
  /\ UNCHANGED <<count, repeating, n, swapped, safe>>

SwapNoted ==
  /\ Swap /\ swapped' = lines
  /\ UNCHANGED <<stream, count, repeating, n, faulty, safe>>

Other == /\ (TestRunning /\ running) \/ Wait \/ Drop
         /\ UNCHANGED logFile

LogThread == Write \/ EndRound \/ EndLoop \/ SwapNoted \/ Other

LogNext ==
  \/ LogThread
  \/ (AppendLine \/ Stop) /\ UNCHANGED logFile

LogSpec == LogInit /\ [][LogNext]_logVars

(* The logging thread runs, and its wait times out. *)
FairLog == LogSpec /\ WF_logVars(LogThread)

-----------------------------------------------------------------------------
(* Properties; besides those of AsyncLogging. *)

(* The lines on disk and in the stdio buffer are in the order in which they *)
(* were appended, none twice: buffers change hands and are reused, a short  *)
(* write is resumed, and a flush may fail (AsyncLogging.cpp:98-102,         *)
(* FileUtil.cpp:38-46).  What a repeated write reads past the end of its    *)
(* line (Junk, be it stale lines) is left out of account: nothing is said   *)
(* of what gets between the lines.                                          *)
DiskInOrder ==
  LET s == disk \o stdio
  IN  \A i, j \in DOMAIN s : i < j /\ s[i] # Junk /\ s[j] # Junk => s[i] < s[j]

(* A process that is killed loses only what was appended since the last     *)
(* round of the logging thread began: all lines before that are on disk, or *)
(* were dropped, unless a write failed (AsyncLogging.cpp:123-124).          *)
Flushed == ~faulty => 1..safe \subseteq Elems(disk) \cup dropped

(* While the log is not stopped and no write fails, an appended line gets   *)
(* to the disk or is dropped, even if no other line follows it.             *)
OnDisk ==
  \A k \in 1..MaxLines :
    lines >= k ~> (k \in Elems(disk) \/ k \in dropped \/ ~running \/ faulty)
=============================================================================
