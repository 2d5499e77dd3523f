------------------------------ MODULE Reactor -------------------------------
(***************************************************************************)
(* The life of the connections served by the sub-loops: HttpData           *)
(* (HttpData.cpp), the Channel that dispatches its events (Channel.hpp),   *)
(* the tables and timers of the poller (Epoll.cpp, Timer.cpp) and one pass *)
(* of EventLoop::loop.  The main thread hands connections over and the     *)
(* clients and the kernel act between any two steps of a loop.             *)
(*                                                                         *)
(* Objects and file descriptors are kept apart: an HttpData is destroyed,  *)
(* and its descriptor closed, when its last shared_ptr goes, and the       *)
(* descriptor may then be handed to a new object on another loop.  The     *)
(* shared_ptrs are the queued newEvent task (life), the entry fd2http_     *)
(* and the timer nodes that have not been cleared (timers).                *)
(***************************************************************************)
EXTENDS Naturals, FiniteSets, Poller, ReadOutcome

CONSTANTS Loops,   (* the event loops of the pool        *)
          Fds,     (* descriptors accept can return      *)
          Https,   (* identities of HttpData objects     *)
          None     (* a null shared_ptr                  *)

ASSUME ReactorAssumption == None \notin Https /\ None \notin Fds /\ None \notin Loops

VARIABLES
  fd2chan,  (* [Loops -> [Fds -> channel or None]], named by its HttpData *)
  fd2http,  (* [Loops -> [Fds -> HttpData or None]]                       *)
  http,     (* the HttpData objects with their channels                   *)
  sock,     (* the sockets, with their registration in the loop's epoll   *)
  phase,    (* where each loop is in EventLoop::loop                      *)
  batch,    (* channels poll() returned that are still to be handled      *)
  cur,      (* the channel being handled                                  *)
  wake      (* the loop's eventfd is readable                             *)

vars == <<fd2chan, fd2http, http, sock, phase, batch, cur, wake>>

Lives  == {"none", "queued", "running", "live"}
Conns  == {"CONNECTED", "DISCONNECTING", "DISCONNECTED"}
Phases == {"poll", "dispatch", "read", "tail", "write", "conn", "pending", "expire"}

(* life: not allocated; newEvent in pendingFunctors_; newEvent in the       *)
(* swapped-out vector; newEvent done.  finish: state_ = STATE_FINISH.       *)
(* more: inBuffer_ holds bytes beyond the request just parsed.  out:        *)
(* outBuffer_ is not empty.  timers: uncleared nodes; linked: timer_ locks. *)
HttpDatas == [life: Lives, loop: Loops \cup {None}, fd: Fds \cup {None},
              connectionState: Conns, error: BOOLEAN, finish: BOOLEAN,
              more: BOOLEAN, out: BOOLEAN, events: Masks, lastEvents: Masks,
              revents: Reports, timers: Nat, linked: BOOLEAN]

NewHttp == [life |-> "none", loop |-> None, fd |-> None,
            connectionState |-> "CONNECTED", error |-> FALSE, finish |-> FALSE,
            more |-> FALSE, out |-> FALSE, events |-> {}, lastEvents |-> {},
            revents |-> {}, timers |-> 0, linked |-> FALSE]

TypeOK ==
  /\ fd2chan \in [Loops -> [Fds -> Https \cup {None}]]
  /\ fd2http \in [Loops -> [Fds -> Https \cup {None}]]
  /\ http \in [Https -> HttpDatas]
  /\ sock \in [Https -> Socks]
  /\ phase \in [Loops -> Phases]
  /\ batch \in [Loops -> SUBSET Https]
  /\ cur \in [Loops -> Https \cup {None}]
  /\ wake \in [Loops -> BOOLEAN]

Init ==
  /\ fd2chan = [l \in Loops |-> [f \in Fds |-> None]]
  /\ fd2http = [l \in Loops |-> [f \in Fds |-> None]]
  /\ http = [h \in Https |-> NewHttp]
  /\ sock = [h \in Https |-> NewSock]
  /\ phase = [l \in Loops |-> "poll"]
  /\ batch = [l \in Loops |-> {}]
  /\ cur = [l \in Loops |-> None]
  /\ wake = [l \in Loops |-> FALSE]

-----------------------------------------------------------------------------
(* The client and the network. *)

Open(h) == http[h].life # "none"

ClientStep(h, k) ==
  /\ sock' = [sock EXCEPT ![h] = k]
  /\ UNCHANGED <<fd2chan, fd2http, http, phase, batch, cur, wake>>

Send(h) ==
  /\ Open(h) /\ ~sock[h].fin /\ ~sock[h].rst
  /\ ClientStep(h, Notify([sock[h] EXCEPT !.inq = TRUE], "IN"))

ShutdownWrite(h) ==
  /\ Open(h) /\ ~sock[h].fin /\ ~sock[h].rst
  /\ ClientStep(h, Notify([sock[h] EXCEPT !.fin = TRUE], "IN"))

Reset(h) ==
  /\ Open(h) /\ ~sock[h].rst
  /\ ClientStep(h, Notify([sock[h] EXCEPT !.rst = TRUE], "ERR"))

Drain(h) ==
  /\ Open(h) /\ ~sock[h].space /\ ~sock[h].rst
  /\ ClientStep(h, Notify([sock[h] EXCEPT !.space = TRUE], "OUT"))

Client(h) == Send(h) \/ ShutdownWrite(h) \/ Reset(h) \/ Drain(h)

-----------------------------------------------------------------------------
(* The main thread: Server::handNewConn builds the HttpData on a            *)
(* descriptor nobody has open and queues newEvent on a loop of the pool.    *)

HandNewConn(h, f, l) ==
  /\ ~Open(h)
  /\ \A g \in Https : Open(g) => http[g].fd # f
  /\ http' = [http EXCEPT ![h] = [NewHttp EXCEPT !.life = "queued", !.loop = l, !.fd = f]]
  /\ sock' = [sock EXCEPT ![h] = NewSock]
  /\ wake' = [wake EXCEPT ![l] = TRUE]
  /\ UNCHANGED <<fd2chan, fd2http, phase, batch, cur>>

-----------------------------------------------------------------------------
(* TimerNode and HttpData's link to it. *)

(* Mutant: not cleared. *)
SeperateTimerForgotten(c) == c

SeperateTimer(c) ==
  IF c.linked THEN [c EXCEPT !.timers = @ - 1, !.linked = FALSE] ELSE c

(* Mutant: epoll_mod without add_timer. *)
AddTimerForgotten(c) == c

AddTimer(c) == [c EXCEPT !.timers = @ + 1, !.linked = TRUE]

(* Epoll::epoll_del drops the entries of the descriptors in gone. *)
(* Mutant: the entry stays. *)
ForgetNothing(tab, gone) == tab

Forget(tab, gone) == [f \in Fds |-> IF f \in gone THEN None ELSE tab[f]]

(* HttpData::handleClose of the objects D of loop l, then the destruction   *)
(* of those that no timer node holds any more (left[h] nodes remain): the   *)
(* destructor closes the descriptor.                                        *)
CloseAll(l, D, left) ==
  LET gone == {http[h].fd : h \in D}
  IN  /\ fd2chan' = [fd2chan EXCEPT ![l] = Forget(@, gone)]
      /\ fd2http' = [fd2http EXCEPT ![l] = Forget(@, gone)]
      /\ http' = [h \in Https |->
                    IF h \notin D THEN http[h]
                    ELSE IF left[h] = 0 THEN NewHttp
                    ELSE [http[h] EXCEPT !.connectionState = "DISCONNECTED",
                                         !.timers = left[h], !.linked = FALSE]]
      /\ sock' = [h \in Https |->
                    IF h \notin D THEN sock[h]
                    ELSE IF left[h] = 0 THEN NewSock
                    ELSE [sock[h] EXCEPT !.reg = "none", !.mask = {}, !.listed = FALSE]]

-----------------------------------------------------------------------------
(* EventLoop::loop, one pass: poll, handle the batch, run the tasks, expire. *)

OnLoop(l) == {h \in Https : http[h].loop = l}

(* epoll_wait and Epoll::getEventsRequest: the channel is looked up by fd.  *)
Polled(l) == {h \in OnLoop(l) : sock[h].listed /\ Reported(sock[h]) # {}}
Channels(l) == {fd2chan[l][http[h].fd] : h \in Polled(l)} \ {None}

Poll(l) ==
  /\ phase[l] = "poll"
  /\ wake[l] \/ Channels(l) # {}
  /\ wake' = [wake EXCEPT ![l] = FALSE]
  /\ batch' = [batch EXCEPT ![l] = Channels(l)]
  /\ sock' = [h \in Https |-> IF http[h].loop = l THEN EpollWait(sock[h]) ELSE sock[h]]
  /\ http' = [g \in Https |->
                IF g \in Channels(l)
                THEN [http[g] EXCEPT
                        !.events = {},
                        !.revents = UNION {Reported(sock[h]) :
                                     h \in {p \in Polled(l) : fd2chan[l][http[p].fd] = g}}]
                ELSE http[g]]
  /\ phase' = [phase EXCEPT ![l] = "dispatch"]
  /\ UNCHANGED <<fd2chan, fd2http, cur>>

(* Channel::handleEvents: a hang-up without input and an error end the      *)
(* handling at once (no errorHandler_ is ever set).                         *)
Dropped(r) == ("HUP" \in r /\ "IN" \notin r) \/ "ERR" \in r

Dispatch(l, h) ==
  /\ phase[l] = "dispatch" /\ h \in batch[l]
  /\ batch' = [batch EXCEPT ![l] = @ \ {h}]
  /\ LET r == http[h].revents
     IN IF Dropped(r)
        THEN /\ http' = [http EXCEPT ![h].events = {}, ![h].revents = {}]
             /\ UNCHANGED <<phase, cur>>
        ELSE /\ http' = [http EXCEPT ![h].events = {}]
             /\ cur' = [cur EXCEPT ![l] = h]
             /\ phase' = [phase EXCEPT ![l] = IF "IN" \in r THEN "read" ELSE "write"]
  /\ UNCHANGED <<fd2chan, fd2http, sock, wake>>

AfterRead(c) == IF "OUT" \in c.revents THEN "write" ELSE "conn"

(* One pass of HttpData::handleRead up to the end of its do block: readn    *)
(* takes everything out of the socket, then the parser runs on inBuffer_.   *)
(* Mutant: it takes one buffer.                                             *)
DrainedOnce(k) == k

Drained(k) == [k EXCEPT !.inq = FALSE]

(* With the outcome c, and k left of the socket. *)
HandleReadTo(l, h, c, k) ==
  /\ phase[l] = "read" /\ cur[l] = h
  /\ http' = [http EXCEPT ![h] = c]
  /\ phase' = [phase EXCEPT ![l] = IF c.error THEN AfterRead(c) ELSE "tail"]
  /\ sock' = [sock EXCEPT ![h] = k]
  /\ UNCHANGED <<fd2chan, fd2http, batch, cur, wake>>

HandleRead(l, h) ==
  \E c \in ReadOutcomes(http[h], sock[h]) : HandleReadTo(l, h, c, Drained(sock[h]))

(* HttpData::handleWrite with the outcome w of writen. *)
Skips(c) == c.error \/ c.connectionState = "DISCONNECTED"

(* Mutant: EPOLLOUT is not set for what is left. *)
WriteToUnwatched(c, w) ==
  IF Skips(c) THEN c
  ELSE [c EXCEPT !.out = w.out, !.error = w.error, !.events = IF w.error THEN {} ELSE @]

WriteTo(c, w) ==
  IF Skips(c) THEN c
  ELSE [c EXCEPT !.out = w.out, !.error = w.error,
                 !.events = (IF w.error THEN {} ELSE @) \cup (IF w.out THEN {"OUT"} ELSE {})]

(* HttpData::reset, which also clears the timer. *)
ResetHttp(c) == SeperateTimer([c EXCEPT !.finish = FALSE])

(* The rest of handleRead: write what there is, then start over on a        *)
(* finished request (recursing when bytes are left) or keep reading.        *)
FinishReadWith(l, h, w) ==
  /\ phase[l] = "tail" /\ cur[l] = h
  /\ LET c == IF http[h].out THEN WriteTo(http[h], w) ELSE http[h]
         again == ~c.error /\ c.finish /\ c.more /\ c.connectionState # "DISCONNECTING"
     IN  /\ http' = [http EXCEPT ![h] =
                       IF c.error THEN c
                       ELSE IF c.finish THEN ResetHttp(c)
                       ELSE IF c.connectionState # "DISCONNECTED"
                            THEN [c EXCEPT !.events = @ \cup {"IN"}] ELSE c]
         /\ sock' = IF http[h].out THEN [sock EXCEPT ![h].space = w.space] ELSE sock
         /\ phase' = [phase EXCEPT ![l] = IF again THEN "read" ELSE AfterRead(c)]
  /\ UNCHANGED <<fd2chan, fd2http, batch, cur, wake>>

FinishRead(l, h) ==
  \E w \in Writen(sock[h], http[h].out) : FinishReadWith(l, h, w)

(* Channel::handleEvents calling HttpData::handleWrite on EPOLLOUT. *)
HandleWriteWith(l, h, w) ==
  /\ phase[l] = "write" /\ cur[l] = h
  /\ http' = [http EXCEPT ![h] = WriteTo(http[h], w)]
  /\ sock' = IF Skips(http[h]) THEN sock ELSE [sock EXCEPT ![h].space = w.space]
  /\ phase' = [phase EXCEPT ![l] = "conn"]
  /\ UNCHANGED <<fd2chan, fd2http, batch, cur, wake>>

HandleWrite(l, h) ==
  \E w \in Writen(sock[h], http[h].out) : HandleWriteWith(l, h, w)

(* The mask handleConn asks for: what the handlers left in events_, EPOLLOUT *)
(* alone when they left both, EPOLLIN when they left nothing.                *)
(* Mutant: EPOLLIN wins. *)
InterestInput(ev) == IF ev = {} \/ "IN" \in ev THEN {"IN"} ELSE ev

Interest(ev) == IF ev = {} THEN {"IN"}
                ELSE IF {"IN", "OUT"} \subseteq ev THEN {"OUT"} ELSE ev

Done(c) == [c EXCEPT !.revents = {}, !.more = FALSE]

(* HttpData::handleConn, first branch: Epoll::epoll_mod with a new timer,   *)
(* and the system call only when the mask differs from lastEvents_; when    *)
(* EPOLL_CTL_MOD fails the channel is dropped from the table.               *)
Rearm(l, h) ==
  LET c == SeperateTimer(http[h])
      ev == Interest(c.events)
  IN  /\ ~c.error /\ c.connectionState = "CONNECTED"
      /\ http' = [http EXCEPT ![h] =
                    [AddTimer(Done(c)) EXCEPT !.events = ev, !.lastEvents = ev]]
      /\ \/ /\ sock' = IF ev = c.lastEvents THEN sock
                       ELSE [sock EXCEPT ![h] = EpollCtl(@, ev)]
            /\ UNCHANGED fd2chan
         \/ /\ ev # c.lastEvents
            /\ fd2chan' = [fd2chan EXCEPT ![l][c.fd] = None]
            /\ UNCHANGED sock
      /\ UNCHANGED fd2http

(* Second branch: the peer has shut down and output is pending.  events_    *)
(* is set but the poller is not told.                                       *)
Linger(l, h) ==
  LET c == SeperateTimer(http[h])
  IN  /\ ~c.error /\ c.connectionState = "DISCONNECTING" /\ "OUT" \in c.events
      /\ http' = [http EXCEPT ![h] = [Done(c) EXCEPT !.events = {"OUT"}]]
      /\ UNCHANGED <<fd2chan, fd2http, sock>>

(* Third branch: handleClose in the loop thread. *)
CloseConn(l, h) ==
  LET c == SeperateTimer(http[h])
  IN  /\ c.error \/ ~(\/ c.connectionState = "CONNECTED"
                      \/ c.connectionState = "DISCONNECTING" /\ "OUT" \in c.events)
      /\ CloseAll(l, {h}, [g \in Https |-> c.timers])

HandleConn(l, h) ==
  /\ phase[l] = "conn" /\ cur[l] = h
  /\ Rearm(l, h) \/ Linger(l, h) \/ CloseConn(l, h)
  /\ cur' = [cur EXCEPT ![l] = None]
  /\ phase' = [phase EXCEPT ![l] = "dispatch"]
  /\ UNCHANGED <<batch, wake>>

(* The batch is done: doPendingFunctors swaps the task vector out. *)
SwapFunctors(l) ==
  /\ phase[l] = "dispatch" /\ batch[l] = {}
  /\ phase' = [phase EXCEPT ![l] = "pending"]
  /\ http' = [h \in Https |-> IF http[h].loop = l /\ http[h].life = "queued"
                              THEN [http[h] EXCEPT !.life = "running"] ELSE http[h]]
  /\ UNCHANGED <<fd2chan, fd2http, sock, batch, cur, wake>>

(* HttpData::newEvent and Epoll::epoll_add; EPOLL_CTL_ADD can fail.         *)
NewEvent(l, h) ==
  LET f == http[h].fd
      ev == {"IN", "ONESHOT"}
  IN  /\ phase[l] = "pending" /\ http[h].loop = l /\ http[h].life = "running"
      /\ http' = [http EXCEPT ![h] =
                    [AddTimer(@) EXCEPT !.life = "live", !.events = ev, !.lastEvents = ev]]
      /\ fd2http' = [fd2http EXCEPT ![l][f] = h]
      /\ \/ /\ fd2chan' = [fd2chan EXCEPT ![l][f] = h]
            /\ sock' = [sock EXCEPT ![h] = EpollCtl(@, ev)]
         \/ /\ fd2chan' = [fd2chan EXCEPT ![l][f] = None]
            /\ UNCHANGED sock
      /\ UNCHANGED <<phase, batch, cur, wake>>

FunctorsDone(l) ==
  /\ phase[l] = "pending"
  /\ \A h \in OnLoop(l) : http[h].life # "running"
  /\ phase' = [phase EXCEPT ![l] = "expire"]
  /\ UNCHANGED <<fd2chan, fd2http, http, sock, batch, cur, wake>>

(* TimerManager::handleExpiredEvent: the nodes whose time has come are      *)
(* popped and ~TimerNode closes what they hold.  Time is abstract here: any *)
(* set of connections may be due (TimerQueue has the clock and the heap).   *)
(* Mutant: expiry also runs while events of the batch are not yet handled. *)
HandleExpiredEarly(l, D) ==
  /\ phase[l] \in {"dispatch", "expire"}
  /\ \A h \in D : http[h].loop = l /\ http[h].timers > 0
  /\ CloseAll(l, D, [h \in Https |-> http[h].timers - 1])
  /\ phase' = [phase EXCEPT ![l] = IF @ = "expire" THEN "poll" ELSE @]
  /\ UNCHANGED <<batch, cur, wake>>

HandleExpired(l, D) ==
  /\ phase[l] = "expire"
  /\ \A h \in D : http[h].loop = l /\ http[h].timers > 0
  /\ CloseAll(l, D, [h \in Https |-> http[h].timers - 1])
  /\ phase' = [phase EXCEPT ![l] = "poll"]
  /\ UNCHANGED <<batch, cur, wake>>

LoopStep(l) ==
  \/ Poll(l)
  \/ \E h \in Https : Dispatch(l, h)
  \/ \E h \in Https : HandleRead(l, h)
  \/ \E h \in Https : FinishRead(l, h)
  \/ \E h \in Https : HandleWrite(l, h)
  \/ \E h \in Https : HandleConn(l, h)
  \/ SwapFunctors(l)
  \/ \E h \in Https : NewEvent(l, h)
  \/ FunctorsDone(l)
  \/ \E D \in SUBSET Https : HandleExpired(l, D)

Next ==
  \/ \E h \in Https : Client(h)
  \/ \E h \in Https, f \in Fds, l \in Loops : HandNewConn(h, f, l)
  \/ \E l \in Loops : LoopStep(l)

Spec == Init /\ [][Next]_vars

(* A loop thread keeps running, and a client that keeps its connection      *)
(* open keeps reading what it is sent.                                      *)
Fairness == /\ \A l \in Loops : WF_vars(LoopStep(l))
            /\ \A h \in Https : WF_vars(Drain(h))

FairSpec == Spec /\ Fairness

-----------------------------------------------------------------------------
(* Properties. *)

Live(h) == http[h].life = "live"
Holds(l, h) == fd2http[l][http[h].fd] = h /\ http[h].loop = l
Handled(h) == \E l \in Loops : h \in batch[l] \/ cur[l] = h

(* The tables of a loop name only objects that are alive, on that loop and  *)
(* with that descriptor: when accept returns a descriptor number again, no  *)
(* loop still has an entry that would deliver its events or its close to    *)
(* the wrong connection (Epoll.cpp:79-80, HttpData.hpp:75).                 *)
TablesOwned ==
  \A l \in Loops, f \in Fds :
    /\ fd2chan[l][f] \in {None, fd2http[l][f]}
    /\ fd2http[l][f] # None =>
         LET c == http[fd2http[l][f]]
         IN  c.life = "live" /\ c.loop = l /\ c.fd = f
             /\ c.connectionState # "DISCONNECTED"

(* The Channel callbacks are bound to a raw this (HttpData.cpp:139-141): as *)
(* long as a channel waits in the vector poll() returned, or is being       *)
(* handled, fd2http_ keeps its HttpData alive.                              *)
HandlerAlive ==
  \A l \in Loops, h \in Https :
    (h \in batch[l] \/ cur[l] = h) => Live(h) /\ Holds(l, h)

(* handleConn and reset clear the old timer node before a new one is made   *)
(* (HttpData.cpp:171, 298): an HttpData is held by at most one node, and    *)
(* timer_ locks to that node, so the next clearing will reach it.           *)
OneTimer ==
  \A h \in Https : /\ http[h].timers <= 1
                   /\ http[h].linked <=> http[h].timers = 1

(* A connected client that no handler is running for has a timer node, even *)
(* when epoll_ctl failed or the event was dropped by Channel::handleEvents  *)
(* (Epoll.cpp:48, Channel.hpp:87-95): its descriptor is closed in the end.  *)
TimerGuard ==
  \A h \in Https :
    Live(h) /\ ~Handled(h) /\ http[h].connectionState = "CONNECTED"
      => http[h].timers = 1

(* A connection that the loop has left and that its poller still watches.   *)
Idle(l, h) == /\ Live(h) /\ http[h].loop = l /\ ~Handled(h)
              /\ fd2chan[l][http[h].fd] = h /\ ~sock[h].rst

(* The registration of an idle connection is armed and waits for room to    *)
(* write while a response is pending, although epoll_mod skips the system   *)
(* call when lastEvents_ agrees and the first registration is one-shot      *)
(* (Epoll.cpp:60).  With nothing pending it waits for the next request, or  *)
(* for room once more when a partial write earlier in the same pass left    *)
(* EPOLLOUT in events_.                                                     *)
Attended ==
  \A l \in Loops, h \in Https :
    Idle(l, h) /\ http[h].connectionState = "CONNECTED" =>
      /\ sock[h].reg = "armed"
      /\ sock[h].mask \ {"ONESHOT"} \in IF http[h].out THEN {{"OUT"}} ELSE {{"IN"}, {"OUT"}}

(* Edge triggering loses nothing: if an idle connection is ready for what   *)
(* it waits for, epoll has it on the ready list (Util.cpp:54-78, 139-166).  *)
NoLostEdge ==
  \A l \in Loops, h \in Https :
    Idle(l, h) /\ http[h].connectionState = "CONNECTED" /\ Reported(sock[h]) # {}
      => sock[h].listed

(* A response is not cut short by the close at the end of handleConn: a     *)
(* connection that is closed there with bytes left in outBuffer_ is one     *)
(* that failed, also when the peer has shut down (HttpData.cpp:325-329).    *)
NoCutResponse ==
  [][\A l \in Loops, h \in Https :
       phase[l] = "conn" /\ cur[l] = h /\ http[h].out /\ http'[h].life = "none"
         => http[h].error]_vars

(* A descriptor is watched for writing while outBuffer_ has bytes left, as  *)
(* the comment at HttpData.cpp:290-291 says of the mask handleWrite leaves; *)
(* handleConn does not pass that mask on once the peer has shut down.       *)
OutputWatched ==
  \A l \in Loops, h \in Https :
    Idle(l, h) /\ http[h].out => sock[h].reg = "armed" /\ "OUT" \in sock[h].mask

(* Pending output is tried again once the client reads, unless the          *)
(* connection ends first or epoll_ctl fails for it.                         *)
Ended(h) == http[h].life = "none" \/ sock[h].rst \/ sock[h].fin
            \/ fd2chan[http[h].loop][http[h].fd] # h
OutputRetried ==
  \A h \in Https :
    (Live(h) /\ fd2chan[http[h].loop][http[h].fd] = h /\ http[h].out /\ ~Handled(h))
      ~> (Ended(h) \/ \E l \in Loops : phase[l] = "write" /\ cur[l] = h)

(* A request that has arrived is read, unless the connection ends first: no *)
(* interleaving of the client with the loop leaves it unnoticed.            *)
RequestRead ==
  \A h \in Https :
    (Live(h) /\ fd2chan[http[h].loop][http[h].fd] = h /\ sock[h].inq /\ ~http[h].out)
      ~> (Ended(h) \/ \E l \in Loops : phase[l] = "read" /\ cur[l] = h)
=============================================================================
