------------------------------- MODULE Server -------------------------------
(***************************************************************************)
(* The accepting side (Server.cpp) on top of the pool of LoopThread: the   *)
(* edge-triggered listening socket in the main loop's epoll, the accept    *)
(* loop that runs until accept fails, the round robin over the loops, and  *)
(* the descriptors on their way from accept to a loop and to their close.  *)
(*                                                                         *)
(* Each step of the main thread is the code between two system calls, so   *)
(* that clients connect and loops close connections in between.  A pass of *)
(* a loop is one step; queueInLoop is one step as well (EventLoop has the  *)
(* gap between its unlock and its wakeup, Reactor the life of a            *)
(* connection inside a loop).                                              *)
(***************************************************************************)
EXTENDS LoopThread, FiniteSets

CONSTANTS NFds,       (* descriptors the process may have for connections *)
          MAXFDS,     (* connections get descriptors below this one       *)
          MaxBacklog  (* bounds the connections waiting to be accepted    *)

ASSUME ServerAssumption == NFds \in Nat /\ MAXFDS \in Nat /\ MaxBacklog \in Nat

Fds == 1..NFds
NoFd == 0

VARIABLES
  srv,      (* where the main thread is in a pass of its loop             *)
  backlog,  (* connections the kernel has established, not yet accepted   *)
  watch,    (* the listening socket's registration: "none", for EPOLLIN   *)
            (* ("in"), or with an empty mask ("off")                      *)
  listed,   (* its entry is on epoll's ready list                         *)
  asked,    (* events_ of acceptChannel_ is EPOLLIN | EPOLLET, or 0       *)
  hand,     (* accept_fd, between accept and the end of the loop's body   *)
  nextLoop, (* next_ of the pool, counted from one                        *)
  open,     (* descriptors of connections that the process has open       *)
  pending,  (* those of each loop's queued newEvent tasks                 *)
  served,   (* those of the connections in each loop's tables             *)
  stranded  (* history: accept failed with connections waiting, and       *)
            (* nobody has connected since                                 *)

listener == <<srv, backlog, watch, listed, asked, stranded>>
descriptors == <<hand, nextLoop, open, pending, served>>
serverVars == <<vars, listener, descriptors>>

ServerTypeOK ==
  /\ srv \in {"start", "poll", "accept", "hand", "conn"}
  /\ backlog \in 0..MaxBacklog
  /\ watch \in {"none", "in", "off"}
  /\ listed \in BOOLEAN /\ asked \in BOOLEAN /\ stranded \in BOOLEAN
  /\ hand \in Fds \cup {NoFd}
  /\ nextLoop \in Threads
  /\ open \in SUBSET Fds
  /\ pending \in [Threads -> SUBSET Fds]
  /\ served \in [Threads -> SUBSET Fds]

(* The constructor has bound the socket: clients connect before start().    *)
ServerInit ==
  /\ Init
  /\ srv = "start" /\ backlog = 0 /\ watch = "none" /\ listed = FALSE
  /\ asked = FALSE /\ stranded = FALSE
  /\ hand = NoFd /\ nextLoop = 1 /\ open = {}
  /\ pending = [t \in Threads |-> {}]
  /\ served = [t \in Threads |-> {}]

-----------------------------------------------------------------------------
(* The clients. *)

Connect ==
  /\ backlog < MaxBacklog /\ backlog' = backlog + 1
  /\ listed' = (listed \/ watch = "in")
  /\ stranded' = FALSE
  /\ UNCHANGED <<vars, descriptors, srv, watch, asked>>

-----------------------------------------------------------------------------
(* The main thread, once the pool is started. *)

At(place) == main = "serve" /\ srv = place

(* The rest of Server::start.  EPOLL_CTL_ADD looks at the socket at once;   *)
(* when it fails, nobody is told.                                           *)
Listen ==
  /\ At("start") /\ srv' = "poll"
  /\ \/ watch' = "in" /\ listed' = (backlog > 0)
     \/ UNCHANGED <<watch, listed>>
  /\ UNCHANGED <<vars, descriptors, backlog, asked, stranded>>

(* epoll_wait takes the entry off the list, and reports it if there still   *)
(* is somebody to accept; handleEvents has set events_ to 0 then.           *)
PollListener ==
  /\ At("poll") /\ listed /\ listed' = FALSE
  /\ IF watch = "in" /\ backlog > 0 THEN srv' = "accept" /\ asked' = FALSE
     ELSE UNCHANGED <<srv, asked>>
  /\ UNCHANGED <<vars, descriptors, backlog, watch, stranded>>

(* Server::handNewConn.  accept takes the lowest free descriptor.           *)
Accept ==
  /\ At("accept") /\ backlog > 0
  /\ \E f \in Fds \ open :
       /\ \A g \in Fds \ open : f <= g
       /\ hand' = f /\ open' = open \cup {f}
  /\ backlog' = backlog - 1 /\ srv' = "hand"
  /\ UNCHANGED <<vars, watch, listed, asked, stranded, nextLoop, pending, served>>

(* accept fails: nobody is waiting, or another error (such as EMFILE, which *)
(* a process without free descriptors always gets) with somebody waiting.   *)
AcceptFails ==
  /\ At("accept") /\ srv' = "conn" /\ asked' = TRUE
  /\ stranded' = (stranded \/ backlog > 0)
  /\ UNCHANGED <<vars, descriptors, backlog, watch, listed>>

(* getNextLoop comes first, also for a connection that is refused.          *)
Turn == nextLoop' = IF nextLoop = NumThreads THEN 1 ELSE nextLoop + 1

(* Mutant: refused without close. *)
RefuseOpen ==
  /\ At("hand") /\ hand >= MAXFDS /\ Turn
  /\ hand' = NoFd /\ srv' = "accept"
  /\ UNCHANGED <<vars, backlog, watch, listed, asked, stranded, open, pending, served>>

Refuse ==
  /\ At("hand") /\ hand >= MAXFDS /\ Turn
  /\ open' = open \ {hand} /\ hand' = NoFd /\ srv' = "accept"
  /\ UNCHANGED <<vars, backlog, watch, listed, asked, stranded, pending, served>>

(* setSocketNonBlocking fails: return, with the descriptor open and events_ *)
(* still 0.                                                                 *)
NonBlockingFails ==
  /\ At("hand") /\ hand < MAXFDS /\ Turn
  /\ hand' = NoFd /\ srv' = "conn"
  /\ UNCHANGED <<vars, backlog, watch, listed, asked, stranded, open, pending, served>>

(* Mutants: one connection per event; the loop is not woken up.             *)
HandOnce ==
  /\ At("hand") /\ hand < MAXFDS /\ Turn
  /\ pending' = [pending EXCEPT ![nextLoop] = @ \cup {hand}]
  /\ WakeLoop(nextLoop)
  /\ hand' = NoFd /\ srv' = "conn" /\ asked' = TRUE
  /\ UNCHANGED <<backlog, watch, listed, stranded, open, served>>

HandSilently ==
  /\ At("hand") /\ hand < MAXFDS /\ Turn
  /\ pending' = [pending EXCEPT ![nextLoop] = @ \cup {hand}]
  /\ hand' = NoFd /\ srv' = "accept"
  /\ UNCHANGED <<vars, backlog, watch, listed, asked, stranded, open, served>>

Hand ==
  /\ At("hand") /\ hand < MAXFDS /\ Turn
  /\ pending' = [pending EXCEPT ![nextLoop] = @ \cup {hand}]
  /\ WakeLoop(nextLoop)
  /\ hand' = NoFd /\ srv' = "accept"
  /\ UNCHANGED <<backlog, watch, listed, asked, stranded, open, served>>

(* Server::handThisConn and epoll_mod: nothing when the mask is as before;  *)
(* an empty mask otherwise.                                                 *)
HandThisConn ==
  /\ At("conn") /\ srv' = "poll"
  /\ watch' = IF asked THEN watch ELSE "off"
  /\ UNCHANGED <<vars, descriptors, backlog, listed, asked, stranded>>

Serve == \/ Listen \/ PollListener \/ Accept \/ AcceptFails
         \/ Refuse \/ NonBlockingFails \/ Hand \/ HandThisConn

-----------------------------------------------------------------------------
(* The loop threads.  In a pass a loop closes some of its connections and   *)
(* runs the tasks that are queued.                                          *)

Pass(t) ==
  /\ \E D \in SUBSET served[t] :
       /\ open' = open \ D
       /\ served' = [served EXCEPT ![t] = (@ \ D) \cup pending[t]]
  /\ pending' = [pending EXCEPT ![t] = {}]
  /\ UNCHANGED <<listener, hand, nextLoop>>

(* ~EventLoop drops the tasks and the tables, and with them every HttpData. *)
Drop(t) ==
  /\ open' = open \ (pending[t] \cup served[t])
  /\ pending' = [pending EXCEPT ![t] = {}]
  /\ served' = [served EXCEPT ![t] = {}]
  /\ UNCHANGED <<listener, hand, nextLoop>>

Alone == UNCHANGED <<listener, descriptors>>

LoopRuns(t) ==
  \/ CountDown(t) /\ Alone
  \/ EnterFunc(t) /\ Alone
  \/ Publish(t) /\ Alone
  \/ EnterLoop(t) /\ Alone
  \/ TestQuit(t) /\ Alone
  \/ Wake(t) /\ Pass(t)
  \/ Leave(t) /\ Alone
  \/ Exit(t) /\ Drop(t)

OtherPass(t) == OtherEvent(t) /\ Pass(t)

-----------------------------------------------------------------------------
PoolRuns == MainRuns /\ Alone

(* The main loop returns only at the end of a pass. *)
End == srv = "poll" /\ Destroy /\ Alone

ServerNext ==
  \/ Connect \/ Serve \/ PoolRuns \/ End
  \/ Spurious /\ Alone
  \/ \E t \in Threads : LoopRuns(t) \/ OtherPass(t)

ServerSpec == ServerInit /\ [][ServerNext]_serverVars

(* Threads run; clients owe nothing. *)
FairServer == /\ ServerSpec
              /\ WF_serverVars(PoolRuns) /\ WF_serverVars(Serve)
              /\ \A t \in Threads : WF_serverVars(LoopRuns(t))

-----------------------------------------------------------------------------
(* Properties. *)

Held == {f \in Fds : f = hand \/ \E t \in Threads : f \in pending[t] \cup served[t]}
Lost == open \ Held

(* Edge triggering and the accept loop (Server.cpp:49-73): a main loop that *)
(* waits has its listening socket watched, unless a descriptor got lost,    *)
(* and on the ready list when somebody waits to be accepted, unless accept  *)
(* failed on them and nobody came after.                                    *)
BacklogWatched ==
  At("poll") =>
    /\ watch = "off" => Lost # {}
    /\ watch = "in" /\ backlog > 0 /\ ~stranded => listed

(* An open descriptor has one holder, from accept over the task to the      *)
(* loop's tables, and a holder's descriptor is open, while accept returns   *)
(* the numbers again and loops end with tasks queued.  Only the failure of  *)
(* fcntl (Server.cpp:61-64) loses one, and only once: the server accepts    *)
(* nobody after it.                                                         *)
FdHeld ==
  /\ Held \subseteq open
  /\ \A t, u \in Threads :
       /\ pending[t] \cap served[u] = {}
       /\ t # u => pending[t] \cap pending[u] = {} /\ served[t] \cap served[u] = {}
  /\ \A t \in Threads : hand \notin pending[t] \cup served[t]
  /\ \A f, g \in Lost : f = g
  /\ Lost # {} => watch = "off" \/ (srv = "conn" /\ ~asked)

(* A connection that is queued on a loop is served or closed: the loop is   *)
(* woken up for it, or drops it at its end (Server.cpp:71).                 *)
Adopted ==
  \A t \in Threads, f \in Fds :
    f \in pending[t] ~> (f \in served[t] \/ f \notin open)
=============================================================================
