----------------------------- MODULE TimerQueue -----------------------------
(***************************************************************************)
(* TimerManager and TimerNode (Timer.cpp) with their clock: the priority   *)
(* queue of one loop, the nodes that hold connections, and the clock value *)
(* that gettimeofday is reduced to, which starts again from zero after     *)
(* Period.  Reactor has the handlers that rearm, leave and close a         *)
(* connection; here they are choices of the loop thread.                   *)
(***************************************************************************)
EXTENDS Integers

CONSTANTS Period,    (* 10000 s in the unit of the clock                  *)
          Timeouts,  (* the timeouts that are passed to addTimer          *)
          Conns,     (* HttpData objects                                  *)
          Nodes,     (* identities of TimerNodes: bounds the queue length *)
          None       (* a null pointer                                    *)

ASSUME PeriodAssumption == Period \in Nat \ {0}
ASSUME TimeoutAssumption == Timeouts \subseteq Nat \ {0}
ASSUME NoneAssumption == None \notin Conns /\ None \notin Nodes

VARIABLES
  clock,  (* (tv_sec % 10000) * 1000 + tv_usec / 1000                     *)
  queue,  (* the nodes in timerNodeQueue                                  *)
  node,   (* the TimerNodes                                               *)
  timer,  (* timer_ of each connection: the node it locks to, or None     *)
  open,   (* the connections that are not closed                          *)
  phase,  (* the loop: in poll(), in its handlers and tasks, in expiry    *)
  left,   (* history: the time until a node's timeout is really over      *)
  swept   (* history: an expiry pass has ended since the clock moved      *)

vars == <<clock, queue, node, timer, open, phase, left, swept>>

TimerNodes == [exp : Nat, deleted : BOOLEAN, holder : Conns \cup {None}]

Blank == [exp |-> 0, deleted |-> FALSE, holder |-> None]

TypeOK ==
  /\ clock \in 0..Period - 1
  /\ queue \in SUBSET Nodes
  /\ node \in [Nodes -> TimerNodes]
  /\ timer \in [Conns -> Nodes \cup {None}]
  /\ open \in SUBSET Conns
  /\ phase \in {"poll", "work", "expire"}
  /\ left \in [Nodes -> Nat]
  /\ swept \in BOOLEAN

Init ==
  /\ clock \in 0..Period - 1
  /\ queue = {} /\ open = {}
  /\ node = [n \in Nodes |-> Blank]
  /\ timer = [c \in Conns |-> None]
  /\ phase = "poll"
  /\ left = [n \in Nodes |-> 0]
  /\ swept = FALSE

-----------------------------------------------------------------------------
(* Time. *)

Tick ==
  /\ clock' = IF clock + 1 = Period THEN 0 ELSE clock + 1
  /\ left' = [n \in Nodes |-> IF left[n] = 0 THEN 0 ELSE left[n] - 1]
  /\ swept' = FALSE
  /\ UNCHANGED <<queue, node, timer, open, phase>>

-----------------------------------------------------------------------------
(* The handlers and tasks of one pass. *)

(* poll() returns only when some channel has an event. *)
Event ==
  /\ phase = "poll" /\ phase' = "work"
  /\ UNCHANGED <<clock, queue, node, timer, open, left, swept>>

(* HttpData::seperateTimer: clearReq on the node that timer_ locks to.      *)
(* Mutant: the node is only forgotten.                                      *)
ClearedForgotten(c) == node

Cleared(c) ==
  IF timer[c] = None THEN node
  ELSE [node EXCEPT ![timer[c]].deleted = TRUE, ![timer[c]].holder = None]

(* TimerManager::addTimer on top of the nodes ns, with a node n not in use. *)
Push(n, c, t, ns) ==
  /\ n \notin queue /\ queue' = queue \cup {n}
  /\ node' = [ns EXCEPT ![n] = [exp |-> clock + t, deleted |-> FALSE, holder |-> c]]
  /\ timer' = [timer EXCEPT ![c] = n]
  /\ left' = [left EXCEPT ![n] = t]

(* HttpData::newEvent: the connection joins the poller. *)
NewEvent(c, n, t) ==
  /\ phase = "work" /\ c \notin open
  /\ open' = open \cup {c}
  /\ Push(n, c, t, node)
  /\ UNCHANGED <<clock, phase, swept>>

(* HttpData::handleConn: the old node is cleared; then a new one is made,   *)
(* or none (output pending for a peer that has shut down), or the           *)
(* connection is closed.                                                    *)
Rearm(c, n, t) ==
  /\ phase = "work" /\ c \in open
  /\ Push(n, c, t, Cleared(c))
  /\ UNCHANGED <<clock, open, phase, swept>>

Disarm(c) ==
  /\ phase = "work" /\ c \in open
  /\ node' = Cleared(c)
  /\ timer' = [timer EXCEPT ![c] = None]
  /\ UNCHANGED <<clock, queue, phase, left, swept>>

Linger(c) == Disarm(c) /\ open' = open

CloseConn(c) == Disarm(c) /\ open' = open \ {c}

EndWork ==
  /\ phase = "work" /\ phase' = "expire"
  /\ UNCHANGED <<clock, queue, node, timer, open, left, swept>>

-----------------------------------------------------------------------------
(* TimerManager::handleExpiredEvent, one round of its loop per step.        *)

(* timerNodeQueue.top() under TimerCMP.  Mutant: the comparison reversed.   *)
TopReversed(n) == n \in queue /\ \A m \in queue : node[n].exp >= node[m].exp

Top(n) == n \in queue /\ \A m \in queue : node[n].exp <= node[m].exp

(* TimerNode::isValid.  Mutant: off by one. *)
ValidStrict(n) == clock < node[n].exp - 1

Valid(n) == clock < node[n].exp

(* pop and the destructor: a connection the node still holds is closed.     *)
Pop(n) ==
  /\ queue' = queue \ {n}
  /\ node' = [node EXCEPT ![n] = Blank]
  /\ left' = [left EXCEPT ![n] = 0]
  /\ timer' = [c \in Conns |-> IF timer[c] = n THEN None ELSE timer[c]]
  /\ open' = open \ {node[n].holder}
  /\ UNCHANGED <<clock, phase, swept>>

HandleExpired(n) ==
  /\ phase = "expire" /\ Top(n)
  /\ node[n].deleted \/ ~Valid(n)
  /\ Pop(n)

EndExpire ==
  /\ phase = "expire"
  /\ queue = {} \/ \E n \in queue : Top(n) /\ ~node[n].deleted /\ Valid(n)
  /\ phase' = "poll" /\ swept' = TRUE
  /\ UNCHANGED <<clock, queue, node, timer, open, left>>

-----------------------------------------------------------------------------
Handler(c) ==
  \/ \E n \in Nodes, t \in Timeouts : NewEvent(c, n, t) \/ Rearm(c, n, t)
  \/ Linger(c)
  \/ CloseConn(c)

Pass == Event \/ EndWork \/ EndExpire \/ \E n \in Nodes : HandleExpired(n)

Next == Tick \/ Pass \/ \E c \in Conns : Handler(c)

Spec == Init /\ [][Next]_vars

(* A busy loop: some channel has an event all the time, its handlers end,   *)
(* and it completes a pass before the clock moves on again.                 *)
BusyTick == swept /\ Tick

BusyNext == BusyTick \/ Pass \/ \E c \in Conns : Handler(c)

BusySpec == Init /\ [][BusyNext]_vars /\ WF_vars(Pass) /\ WF_vars(BusyTick)

-----------------------------------------------------------------------------
(* Properties. *)

(* A node in the queue still holds a connection just if it is the one its   *)
(* timer_ locks to: what expires later is never a connection that was       *)
(* rearmed or closed meanwhile (Timer.cpp:52-62, HttpData.cpp:158-165).     *)
HoldersLinked ==
  \A n \in queue :
    IF node[n].deleted THEN node[n].holder = None
    ELSE node[n].holder \in open /\ timer[node[n].holder] = n

(* The timeout is a lower bound (the comment at Timer.cpp:73): expiry closes *)
(* a connection only after the timeout of its last rearming has passed,      *)
(* across the wrap of the clock too.                                         *)
NotEarly ==
  [][\A c \in Conns : phase = "expire" /\ c \in open /\ c \notin open'
       => timer[c] # None /\ left[timer[c]] = 0]_vars

(* Looking at the top of the heap alone is enough: when handleExpiredEvent  *)
(* ends, no node whose time has come is left behind a cleared or a valid    *)
(* one (Timer.cpp:76-87).                                                   *)
NothingOverdue ==
  [][phase = "expire" /\ phase' = "poll" => \A n \in queue : clock < node[n].exp]_vars

(* On a busy loop every node that is made more than its timeout before the  *)
(* wrap of the clock leaves the queue.                                      *)
LeavesInTime == \A n \in Nodes : (n \in queue /\ node[n].exp < Period) ~> (n \notin queue)

(* A node that has been marked deleted leaves the queue after the timeout   *)
(* at the latest (the comment at Timer.cpp:67-69), here: at all.            *)
DeletedLeaves == \A n \in Nodes : (n \in queue /\ node[n].deleted) ~> (n \notin queue)
=============================================================================
