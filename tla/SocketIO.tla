------------------------------ MODULE SocketIO ------------------------------
(***************************************************************************)
(* The loops of readn and writen (Util.cpp) under the handlers of Reactor, *)
(* one system call per step: the client sends, reads, shuts down or resets *)
(* between two calls of one loop.  Reactor takes readn and writen for      *)
(* atomic and the buffers for empty or not; here they hold bytes, the      *)
(* kernel's queue and its send buffer included, and Reactor's Spec is a    *)
(* property.  The flags of sock are those the handlers and epoll see, and  *)
(* are brought up to date by the last call of a loop.                      *)
(***************************************************************************)
EXTENDS Reactor, Sequences

CONSTANTS MAX_BUFF,   (* bytes one read takes                              *)
          SendBuffer, (* the kernel's send buffer                          *)
          MaxSent,    (* bounds the bytes a client sends                   *)
          MaxMade     (* bounds the bytes of the answers on a connection   *)

ASSUME SocketIOAssumption ==
  MAX_BUFF \in Nat \ {0} /\ SendBuffer \in Nat \ {0} /\ MaxSent \in Nat /\ MaxMade \in Nat

VARIABLE io  (* per HttpData: its socket's queues, its buffers, its loops *)

ioVars == <<vars, io>>

(* sent: bytes the client has sent; unread: those the kernel still has;     *)
(* inBuffer: those appended to inBuffer_ so far; readSum: in this readn.    *)
(* made: bytes assigned or appended to outBuffer_ so far; writeSum: bytes   *)
(* of it this writen has passed to the kernel; wire: all that went to the   *)
(* kernel; room: free in the send buffer.                                   *)
NewIO == [sent |-> 0, unread |-> <<>>, inBuffer |-> <<>>, readSum |-> 0,
          made |-> 0, outBuffer |-> <<>>, writeSum |-> 0, wire |-> <<>>,
          room |-> SendBuffer]

IOInit == Init /\ io = [h \in Https |-> NewIO]

Bytes(first, n) == [i \in 1..n |-> first + i]
Least(a, b) == IF a < b THEN a ELSE b

-----------------------------------------------------------------------------
(* The client. *)

SendBytes(h, n) ==
  /\ io[h].sent + n <= MaxSent
  /\ Send(h)
  /\ io' = [io EXCEPT ![h].sent = @ + n, ![h].unread = @ \o Bytes(io[h].sent, n)]

(* The client reads n bytes.  The socket becomes writable once more when a  *)
(* write has found it full.                                                 *)
ReadBytes(h, n) ==
  /\ Open(h) /\ ~sock[h].rst
  /\ io[h].room + n <= SendBuffer
  /\ Drain(h) \/ (sock[h].space /\ UNCHANGED vars)
  /\ io' = [io EXCEPT ![h].room = @ + n]

Hangup(h) == (ShutdownWrite(h) \/ Reset(h)) /\ UNCHANGED io

ClientReads(h) == \E n \in 1..SendBuffer : ReadBytes(h, n)

IOClient(h) == \/ \E n \in 1..MaxSent : SendBytes(h, n)
               \/ ClientReads(h)
               \/ Hangup(h)

-----------------------------------------------------------------------------
(* readn, called by HttpData::handleRead. *)

Reading(l, h) == phase[l] = "read" /\ cur[l] = h

(* A read that returns bytes. *)
ReadSome(l, h) ==
  /\ Reading(l, h) /\ ~sock[h].rst /\ io[h].unread # <<>>
  /\ LET nread == Least(MAX_BUFF, Len(io[h].unread))
     IN  io' = [io EXCEPT ![h].unread = SubSeq(@, nread + 1, Len(@)),
                          ![h].inBuffer = @ \o SubSeq(io[h].unread, 1, nread),
                          ![h].readSum = @ + nread]
  /\ UNCHANGED vars

(* The buffers after a pass that adds n bytes to outBuffer_, appended or    *)
(* (keep = FALSE) assigned.                                                 *)
Answered(h, keep, n) ==
  [io[h] EXCEPT !.readSum = 0, !.writeSum = 0, !.made = @ + n,
                !.outBuffer = (IF keep THEN @ ELSE <<>>) \o Bytes(io[h].made, n)]

(* With the outcome c: only a finished request is answered, and a POST is   *)
(* not.                                                                     *)
Answers(h, c, b) == /\ b.made > io[h].made => c.finish
                    /\ b.made = io[h].made => b.outBuffer = io[h].outBuffer
                    /\ c.out <=> b.outBuffer # <<>>

(* HttpData::handleError writes its page past outBuffer_, which may still   *)
(* hold a part of an earlier answer, and ignores how much was taken.        *)
Page == 0

Noted(h, b) ==
  IF b.room = 0 \/ sock[h].rst THEN {b}
  ELSE {b, [b EXCEPT !.wire = Append(@, Page), !.room = @ - 1]}

(* The last read of readn has failed, found the end, or found nothing       *)
(* (EAGAIN); the parser runs.                                               *)
Parsed(l, h, k) ==
  \E c \in ReadOutcomes(http[h], [k EXCEPT !.inq = io[h].readSum > 0]) :
    /\ HandleReadTo(l, h, c, k)
    /\ \E keep \in BOOLEAN, n \in 0 .. MaxMade - io[h].made :
       LET b == Answered(h, keep, n)
       IN  /\ Answers(h, c, b)
           /\ \E p \in IF c.error THEN Noted(h, b) ELSE {b} : io' = [io EXCEPT ![h] = p]

(* Mutant: one read is taken for all there is. *)
ReadEndEarly(l, h) ==
  /\ Reading(l, h)
  /\ sock[h].rst \/ io[h].unread = <<>> \/ io[h].readSum > 0
  /\ Parsed(l, h, [sock[h] EXCEPT !.inq = ~sock[h].rst /\ io[h].unread # <<>>])

ReadEnd(l, h) ==
  /\ Reading(l, h)
  /\ sock[h].rst \/ io[h].unread = <<>>
  /\ Parsed(l, h, [sock[h] EXCEPT !.inq = ~sock[h].rst /\ io[h].unread # <<>>])

-----------------------------------------------------------------------------
(* writen, called by HttpData::handleWrite from handleRead and on EPOLLOUT. *)

Writing(l, h) ==
  /\ cur[l] = h /\ ~Skips(http[h])
  /\ (phase[l] = "tail" /\ http[h].out) \/ phase[l] = "write"

Left(h) == SubSeq(io[h].outBuffer, io[h].writeSum + 1, Len(io[h].outBuffer))

(* The kernel takes n bytes from ptr. *)
Taken(h, n) ==
  [io[h] EXCEPT !.wire = @ \o SubSeq(Left(h), 1, n), !.writeSum = @ + n, !.room = @ - n]

WriteSome(l, h) ==
  /\ Writing(l, h) /\ ~sock[h].rst
  /\ \E n \in 1 .. Least(io[h].room, Len(Left(h)) - 1) : io' = [io EXCEPT ![h] = Taken(h, n)]
  /\ UNCHANGED vars

(* sbuff.clear() or sbuff.substr(writeSum).  Mutant: the buffer is left. *)
TrimNothing(b) == [b EXCEPT !.writeSum = 0]

Trim(b) == [b EXCEPT !.outBuffer = SubSeq(@, b.writeSum + 1, Len(@)), !.writeSum = 0]

(* writen is done, with the buffers b, and so is its caller. *)
Return(l, h, b, w) ==
  /\ FinishReadWith(l, h, w) \/ HandleWriteWith(l, h, w)
  /\ io' = [io EXCEPT ![h] = b]

Outcome(b) == [out |-> b.outBuffer # <<>>, error |-> FALSE, space |-> b.room > 0]

(* The last write takes the rest of the buffer. *)
WriteRest(l, h) ==
  /\ Writing(l, h) /\ ~sock[h].rst
  /\ Len(Left(h)) \in 1 .. io[h].room
  /\ LET b == Trim(Taken(h, Len(Left(h)))) IN Return(l, h, b, Outcome(b))

(* It finds no room (EAGAIN). *)
WriteFull(l, h) ==
  /\ Writing(l, h) /\ ~sock[h].rst
  /\ Left(h) # <<>> /\ io[h].room = 0
  /\ LET b == Trim(io[h]) IN Return(l, h, b, Outcome(b))

(* It fails: -1 is returned, and the buffer keeps what has been written.    *)
WriteFails(l, h) ==
  /\ Writing(l, h) /\ sock[h].rst
  /\ Left(h) # <<>>
  /\ Return(l, h, [io[h] EXCEPT !.writeSum = 0],
            [out |-> TRUE, error |-> TRUE, space |-> sock[h].space])

(* There is nothing to write, or the handler does not get to writen. *)
WriteNothing(l, h) ==
  /\ ~Writing(l, h) \/ Left(h) = <<>>
  /\ Return(l, h, io[h], [out |-> FALSE, error |-> FALSE, space |-> sock[h].space])

-----------------------------------------------------------------------------
(* The rest of a pass.  An HttpData that is destroyed takes its buffers     *)
(* with it, and its descriptor the queues of the socket.                    *)

Cleared == io' = [h \in Https |-> IF http'[h].life = "none" THEN NewIO ELSE io[h]]

OtherStep(l) ==
  /\ \/ Poll(l)
     \/ \E h \in Https : Dispatch(l, h)
     \/ \E h \in Https : HandleConn(l, h)
     \/ SwapFunctors(l)
     \/ \E h \in Https : NewEvent(l, h)
     \/ FunctorsDone(l)
     \/ \E D \in SUBSET Https : HandleExpired(l, D)
  /\ Cleared

Readn(l) == \E h \in Https : ReadSome(l, h) \/ ReadEnd(l, h)

WritenLoop(l) ==
  \E h \in Https : WriteSome(l, h) \/ WriteRest(l, h) \/ WriteFull(l, h)
                   \/ WriteFails(l, h) \/ WriteNothing(l, h)

IOStep(l) == Readn(l) \/ WritenLoop(l) \/ OtherStep(l)

Accepted(h, f, l) == HandNewConn(h, f, l) /\ UNCHANGED io

IONext ==
  \/ \E h \in Https : IOClient(h)
  \/ \E h \in Https, f \in Fds, l \in Loops : Accepted(h, f, l)
  \/ \E l \in Loops : IOStep(l)

IOSpec == IOInit /\ [][IONext]_ioVars

(* As in Reactor: loops keep running, clients keep reading. *)
FairIO == /\ IOSpec
          /\ \A l \in Loops : WF_ioVars(IOStep(l))
          /\ \A h \in Https : WF_ioVars(ClientReads(h))

-----------------------------------------------------------------------------
(* Properties; besides Reactor's Spec, which says that readn and writen may *)
(* be taken for atomic whatever the client does between two of their calls  *)
(* (Util.cpp:54-78, 139-166).                                               *)

Ways == Https \X {"request", "response"}

Way == INSTANCE ByteStream WITH
  Streams <- Ways,
  pushed <- [s \in Ways |-> IF s[2] = "request" THEN io[s[1]].sent ELSE io[s[1]].made],
  queue  <- [s \in Ways |-> IF s[2] = "request" THEN io[s[1]].unread
                            ELSE IF http[s[1]].error THEN <<>> ELSE Left(s[1])],
  out    <- [s \in Ways |-> IF s[2] = "request" THEN io[s[1]].inBuffer ELSE io[s[1]].wire],
  ended  <- [s \in Ways |-> s[2] = "response" /\ http[s[1]].error]

(* Both directions keep the promise of ByteStream: nothing is lost or sent  *)
(* twice by a short, interrupted or failed read or write, and after a page  *)
(* of handleError or a failed write nothing more is sent (Util.cpp:139-166, *)
(* HttpData.cpp:281-295).  Only "hello" drops what is still waiting         *)
(* (HttpData.cpp:550).                                                      *)
Streams == Way!Spec

(* What is put into outBuffer_ is all written in the end, piece by piece as *)
(* the client makes room, unless the connection ends first.                 *)
AllWritten ==
  \A h \in Https :
    (Live(h) /\ fd2chan[http[h].loop][http[h].fd] = h /\ io[h].outBuffer # <<>>)
      ~> (Ended(h) \/ http[h].error \/ io[h].outBuffer = <<>>)
=============================================================================
