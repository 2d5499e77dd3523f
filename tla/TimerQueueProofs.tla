-------------------------- MODULE TimerQueueProofs --------------------------
(***************************************************************************)
(* Proofs about TimerQueue for every period of the clock, all timeouts and *)
(* any number of nodes and connections: no timer acts on a connection that *)
(* was rearmed or closed, none acts early, and an expiry pass misses none. *)
(***************************************************************************)
EXTENDS TimerQueue, TLAPS

(* timer_ locks only to a node in the queue that holds the connection. *)
Links == \A c \in Conns :
           timer[c] # None => timer[c] \in queue /\ node[timer[c]].holder = c

(* While its timeout is not over, the clock has not reached a node's time;  *)
(* a wrap only moves the clock away from it.                                *)
Remaining == \A n \in queue : left[n] > 0 => clock + left[n] <= node[n].exp

IInv == TypeOK /\ HoldersLinked /\ Links /\ Remaining

-----------------------------------------------------------------------------
(* The operators of the model. *)

LEMMA InitInv == Init => IInv
<1> SUFFICES ASSUME Init PROVE IInv
  OBVIOUS
<1>1. Blank \in TimerNodes
  BY DEF Blank, TimerNodes
<1>2. TypeOK
  BY <1>1 DEF Init, TypeOK
<1> QED BY <1>2 DEF Init, IInv, HoldersLinked, Links, Remaining

LEMMA ClearedType == ASSUME NEW c \in Conns, TypeOK PROVE Cleared(c) \in [Nodes -> TimerNodes]
<1>1. CASE timer[c] = None
  BY <1>1 DEF TypeOK, Cleared
<1>2. CASE timer[c] # None
  <2>1. timer[c] \in Nodes
    BY <1>2 DEF TypeOK
  <2>2. [node[timer[c]] EXCEPT !.deleted = TRUE, !.holder = None] \in TimerNodes
    BY <2>1 DEF TypeOK, TimerNodes
  <2>3. Cleared(c) = [node EXCEPT ![timer[c]] =
                        [node[timer[c]] EXCEPT !.deleted = TRUE, !.holder = None]]
    BY <1>2, <2>1 DEF TypeOK, Cleared, TimerNodes
  <2> QED BY <2>1, <2>2, <2>3 DEF TypeOK
<1> QED BY <1>1, <1>2

(* Clearing marks the node of c, if it has one, and changes no other. *)
LEMMA ClearedNodes ==
  ASSUME NEW c \in Conns, NEW n \in Nodes, TypeOK
  PROVE  /\ Cleared(c)[n].exp = node[n].exp
         /\ n = timer[c] => Cleared(c)[n].deleted /\ Cleared(c)[n].holder = None
         /\ n # timer[c] => Cleared(c)[n] = node[n]
<1>1. CASE timer[c] = None
  BY <1>1, NoneAssumption DEF TypeOK, Cleared
<1>2. CASE timer[c] # None
  <2>1. timer[c] \in Nodes
    BY <1>2 DEF TypeOK
  <2>2. node[n] \in TimerNodes
    BY DEF TypeOK
  <2> QED BY <1>2, <2>1, <2>2 DEF TypeOK, Cleared, TimerNodes
<1> QED BY <1>1, <1>2

(* After clearing, no node in the queue holds c. *)
LEMMA ClearedFrees ==
  ASSUME NEW c \in Conns, NEW n \in queue, IInv
  PROVE  /\ n \in Nodes
         /\ IF Cleared(c)[n].deleted THEN Cleared(c)[n].holder = None
            ELSE /\ Cleared(c)[n].holder \in open \ {c}
                 /\ timer[Cleared(c)[n].holder] = n
<1>1. n \in Nodes
  BY DEF IInv, TypeOK
<1>2. CASE n = timer[c]
  BY <1>1, <1>2, ClearedNodes DEF IInv
<1>3. CASE n # timer[c]
  <2>1. Cleared(c)[n] = node[n]
    BY <1>1, <1>3, ClearedNodes DEF IInv
  <2> QED BY <1>1, <1>3, <2>1 DEF IInv, HoldersLinked
<1> QED BY <1>1, <1>2, <1>3

(* A node that is pushed for c on nodes ns in which nothing holds c. *)
LEMMA PushInv ==
  ASSUME NEW c \in Conns, NEW n \in Nodes, NEW t \in Timeouts, NEW ns \in [Nodes -> TimerNodes],
         IInv, Push(n, c, t, ns),
         open' = open \cup {c}, clock' = clock, phase' \in {"poll", "work", "expire"},
         swept' \in BOOLEAN,
         \A m \in queue : /\ ns[m].exp = node[m].exp
                          /\ IF ns[m].deleted THEN ns[m].holder = None
                             ELSE ns[m].holder \in open \ {c} /\ timer[ns[m].holder] = m,
         \A d \in Conns : d # c /\ timer[d] # None => ns[timer[d]].holder = d
  PROVE  IInv'
<1>1. t \in Nat \ {0} /\ clock \in Nat
  BY TimeoutAssumption, PeriodAssumption DEF IInv, TypeOK
<1> DEFINE new == [exp |-> clock + t, deleted |-> FALSE, holder |-> c]
<1>2. new \in TimerNodes
  BY <1>1 DEF TimerNodes
<1>3. /\ node' = [ns EXCEPT ![n] = new] /\ timer' = [timer EXCEPT ![c] = n]
      /\ left' = [left EXCEPT ![n] = t] /\ queue' = queue \cup {n} /\ n \notin queue
  BY DEF Push
<1>4. /\ node'[n] = new /\ timer'[c] = n /\ left'[n] = t
      /\ \A m \in queue : node'[m] = ns[m] /\ left'[m] = left[m]
      /\ \A d \in Conns \ {c} : timer'[d] = timer[d]
  BY <1>3 DEF IInv, TypeOK
<1> HIDE DEF new
<1>5. TypeOK'
  BY <1>1, <1>2, <1>3 DEF IInv, TypeOK
<1>6. HoldersLinked'
  <2> SUFFICES ASSUME NEW m \in queue'
               PROVE  IF node'[m].deleted THEN node'[m].holder = None
                      ELSE node'[m].holder \in open' /\ timer'[node'[m].holder] = m
    BY DEF HoldersLinked
  <2>1. CASE m = n
    BY <1>4, <2>1 DEF new
  <2>2. CASE m \in queue
    <3>1. node'[m] = ns[m]
      BY <1>4, <2>2
    <3>2. CASE ns[m].deleted
      BY <2>2, <3>1, <3>2
    <3>3. CASE ~ns[m].deleted
      <4>1. ns[m].holder \in open \ {c} /\ timer[ns[m].holder] = m
        BY <2>2, <3>3
      <4>2. ns[m].holder \in Conns \ {c}
        BY <4>1 DEF IInv, TypeOK
      <4> QED BY <1>4, <3>1, <3>3, <4>1, <4>2
    <3> QED BY <3>2, <3>3
  <2> QED BY <1>3, <2>1, <2>2
<1>7. Links'
  <2> SUFFICES ASSUME NEW d \in Conns, timer'[d] # None
               PROVE  timer'[d] \in queue' /\ node'[timer'[d]].holder = d
    BY DEF Links
  <2>1. CASE d = c
    BY <1>3, <1>4, <2>1 DEF new
  <2>2. CASE d # c
    <3>1. timer'[d] = timer[d] /\ timer[d] \in queue
      BY <1>4, <2>2 DEF IInv, Links
    <3> QED BY <1>3, <1>4, <2>2, <3>1
  <2> QED BY <2>1, <2>2
<1>8. Remaining'
  <2> SUFFICES ASSUME NEW m \in queue', left'[m] > 0
               PROVE  clock' + left'[m] <= node'[m].exp
    BY DEF Remaining
  <2>1. CASE m = n
    BY <1>1, <1>4, <2>1 DEF new
  <2>2. CASE m \in queue
    BY <1>4, <2>2 DEF IInv, Remaining
  <2> QED BY <1>3, <2>1, <2>2
<1> QED BY <1>5, <1>6, <1>7, <1>8 DEF IInv

-----------------------------------------------------------------------------
(* Every action preserves the invariant. *)

LEMMA NewEventInv ==
  ASSUME NEW c \in Conns, NEW n \in Nodes, NEW t \in Timeouts, IInv, NewEvent(c, n, t) PROVE IInv'
<1>1. \A m \in queue : /\ node[m].exp = node[m].exp
                       /\ IF node[m].deleted THEN node[m].holder = None
                          ELSE node[m].holder \in open \ {c} /\ timer[node[m].holder] = m
  BY DEF IInv, HoldersLinked, NewEvent
<1>2. \A d \in Conns : d # c /\ timer[d] # None => node[timer[d]].holder = d
  BY DEF IInv, Links
<1>3. node \in [Nodes -> TimerNodes] /\ phase \in {"poll", "work", "expire"} /\ swept \in BOOLEAN
  BY DEF IInv, TypeOK
<1>4. /\ Push(n, c, t, node)
      /\ open' = open \cup {c} /\ clock' = clock /\ phase' = phase /\ swept' = swept
  BY DEF NewEvent
<1> QED BY <1>1, <1>2, <1>3, <1>4, PushInv

LEMMA RearmInv ==
  ASSUME NEW c \in Conns, NEW n \in Nodes, NEW t \in Timeouts, IInv, Rearm(c, n, t) PROVE IInv'
<1>1. \A m \in queue : Cleared(c)[m].exp = node[m].exp
  BY ClearedNodes DEF IInv, TypeOK
<1>2. \A m \in queue : IF Cleared(c)[m].deleted THEN Cleared(c)[m].holder = None
                       ELSE /\ Cleared(c)[m].holder \in open \ {c}
                            /\ timer[Cleared(c)[m].holder] = m
  BY ClearedFrees
<1>3. ASSUME NEW d \in Conns, d # c, timer[d] # None PROVE Cleared(c)[timer[d]].holder = d
  <2>1. timer[d] \in Nodes /\ node[timer[d]].holder = d
    BY <1>3 DEF IInv, TypeOK, Links
  <2>2. timer[d] # timer[c]
    BY <1>3, <2>1 DEF IInv, Links
  <2> QED BY <2>1, <2>2, ClearedNodes DEF IInv
<1>4. /\ Cleared(c) \in [Nodes -> TimerNodes]
      /\ phase \in {"poll", "work", "expire"} /\ swept \in BOOLEAN
  BY ClearedType DEF IInv, TypeOK
<1>5. /\ Push(n, c, t, Cleared(c))
      /\ open' = open \cup {c} /\ clock' = clock /\ phase' = phase /\ swept' = swept
  BY DEF Rearm
<1> QED BY <1>1, <1>2, <1>3, <1>4, <1>5, PushInv

(* Lingering and closing: c has no node any more, whether it stays open or not. *)
LEMMA DisarmInv ==
  ASSUME NEW c \in Conns, IInv, Disarm(c), open' \in {open, open \ {c}} PROVE IInv'
<1>1. /\ node' = Cleared(c) /\ timer' = [timer EXCEPT ![c] = None]
      /\ clock' = clock /\ queue' = queue /\ phase' = phase /\ left' = left /\ swept' = swept
  BY DEF Disarm
<1>2. TypeOK'
  BY <1>1, ClearedType DEF IInv, TypeOK
<1>3. timer'[c] = None /\ \A d \in Conns \ {c} : timer'[d] = timer[d]
  BY <1>1 DEF IInv, TypeOK
<1>4. HoldersLinked'
  <2> SUFFICES ASSUME NEW m \in queue
               PROVE  IF node'[m].deleted THEN node'[m].holder = None
                      ELSE node'[m].holder \in open' /\ timer'[node'[m].holder] = m
    BY <1>1 DEF HoldersLinked
  <2>1. IF node'[m].deleted THEN node'[m].holder = None
        ELSE node'[m].holder \in open \ {c} /\ timer[node'[m].holder] = m
    BY <1>1, ClearedFrees
  <2>2. CASE ~node'[m].deleted
    <3>1. node'[m].holder \in Conns \ {c}
      BY <2>1, <2>2 DEF IInv, TypeOK
    <3> QED BY <1>3, <2>1, <2>2, <3>1
  <2> QED BY <2>1, <2>2
<1>5. Links'
  <2> SUFFICES ASSUME NEW d \in Conns, timer'[d] # None
               PROVE  timer'[d] \in queue' /\ node'[timer'[d]].holder = d
    BY DEF Links
  <2>1. d # c /\ timer'[d] = timer[d]
    BY <1>3
  <2>2. timer[d] \in queue /\ timer[d] \in Nodes /\ node[timer[d]].holder = d
    BY <2>1 DEF IInv, TypeOK, Links
  <2>3. timer[d] # timer[c]
    BY <2>1, <2>2 DEF IInv, Links
  <2>4. Cleared(c)[timer[d]] = node[timer[d]]
    BY <2>2, <2>3, ClearedNodes DEF IInv
  <2> QED BY <1>1, <2>1, <2>2, <2>4
<1>6. Remaining'
  <2>1. \A m \in queue : Cleared(c)[m].exp = node[m].exp
    BY ClearedNodes DEF IInv, TypeOK
  <2> QED BY <1>1, <2>1 DEF IInv, Remaining
<1> QED BY <1>2, <1>4, <1>5, <1>6 DEF IInv

(* Time passes: what remains of a timeout shrinks as fast as the clock runs. *)
LEMMA TickInv == ASSUME IInv, Tick PROVE IInv'
<1>1. clock \in Nat /\ clock <= Period - 1 /\ Period \in Nat \ {0}
  BY PeriodAssumption DEF IInv, TypeOK
<1>2. clock' \in 0..Period - 1 /\ clock' <= clock + 1
  BY <1>1 DEF Tick
<1>3. /\ left' \in [Nodes -> Nat]
      /\ \A m \in Nodes : left'[m] > 0 => left'[m] = left[m] - 1
  BY DEF IInv, TypeOK, Tick
<1>4. TypeOK'
  BY <1>2, <1>3 DEF IInv, TypeOK, Tick
<1>5. Remaining'
  <2> SUFFICES ASSUME NEW m \in queue, left'[m] > 0 PROVE clock' + left'[m] <= node[m].exp
    BY DEF Tick, Remaining
  <2>1. m \in Nodes /\ left[m] \in Nat /\ node[m].exp \in Nat /\ left'[m] \in Nat
    BY <1>3 DEF IInv, TypeOK, TimerNodes
  <2>2. left'[m] = left[m] - 1
    BY <1>3, <2>1
  <2>3. clock + left[m] <= node[m].exp
    BY <2>1, <2>2 DEF IInv, Remaining
  <2> QED BY <1>1, <1>2, <2>1, <2>2, <2>3
<1> QED BY <1>4, <1>5 DEF IInv, HoldersLinked, Links, Tick

LEMMA PhaseInv == ASSUME IInv, Event \/ EndWork \/ EndExpire PROVE IInv'
  BY DEF IInv, TypeOK, HoldersLinked, Links, Remaining, Event, EndWork, EndExpire

LEMMA HandleExpiredInv == ASSUME NEW n \in Nodes, IInv, HandleExpired(n) PROVE IInv'
<1>1. /\ n \in queue /\ queue' = queue \ {n}
      /\ node' = [node EXCEPT ![n] = Blank] /\ left' = [left EXCEPT ![n] = 0]
      /\ timer' = [c \in Conns |-> IF timer[c] = n THEN None ELSE timer[c]]
      /\ open' = open \ {node[n].holder}
      /\ clock' = clock /\ phase' = phase /\ swept' = swept
  BY DEF HandleExpired, Top, Pop
<1>2. Blank \in TimerNodes
  BY DEF Blank, TimerNodes
<1>3. TypeOK'
  BY <1>1, <1>2 DEF IInv, TypeOK
<1>4. \A m \in queue' : m \in Nodes /\ m # n /\ node'[m] = node[m] /\ left'[m] = left[m]
  BY <1>1 DEF IInv, TypeOK
<1>5. HoldersLinked'
  <2> SUFFICES ASSUME NEW m \in queue'
               PROVE  IF node'[m].deleted THEN node'[m].holder = None
                      ELSE node'[m].holder \in open' /\ timer'[node'[m].holder] = m
    BY DEF HoldersLinked
  <2>1. m \in queue /\ m # n /\ node'[m] = node[m]
    BY <1>1, <1>4
  <2>2. CASE ~node[m].deleted
    <3> DEFINE d == node[m].holder
    <3>1. d \in open /\ d \in Conns /\ timer[d] = m
      BY <2>1, <2>2 DEF IInv, HoldersLinked, TypeOK
    <3>2. d # node[n].holder
      <4>1. CASE node[n].deleted
        BY <1>1, <3>1, <4>1, NoneAssumption DEF IInv, HoldersLinked
      <4>2. CASE ~node[n].deleted
        BY <1>1, <2>1, <3>1, <4>2 DEF IInv, HoldersLinked
      <4> QED BY <4>1, <4>2
    <3>3. timer'[d] = m
      BY <1>1, <2>1, <3>1
    <3> QED BY <1>1, <2>1, <2>2, <3>1, <3>2, <3>3
  <2> QED BY <2>1, <2>2 DEF IInv, HoldersLinked
<1>6. Links'
  BY <1>1, <1>4, NoneAssumption DEF IInv, Links
<1>7. Remaining'
  BY <1>1, <1>4 DEF IInv, Remaining
<1> QED BY <1>3, <1>5, <1>6, <1>7 DEF IInv

LEMMA StepInv == IInv /\ [Next]_vars => IInv'
<1> SUFFICES ASSUME IInv, [Next]_vars PROVE IInv'
  OBVIOUS
<1>1. CASE Tick
  BY <1>1, TickInv
<1>2. CASE Pass
  BY <1>2, PhaseInv, HandleExpiredInv DEF Pass
<1>3. ASSUME NEW c \in Conns, Handler(c) PROVE IInv'
  <2>1. ASSUME NEW n \in Nodes, NEW t \in Timeouts, NewEvent(c, n, t) \/ Rearm(c, n, t) PROVE IInv'
    BY <2>1, NewEventInv, RearmInv
  <2>2. CASE Linger(c) \/ CloseConn(c)
    BY <2>2, DisarmInv DEF Linger, CloseConn
  <2> QED BY <1>3, <2>1, <2>2 DEF Handler
<1>4. CASE UNCHANGED vars
  BY <1>4 DEF vars, IInv, TypeOK, HoldersLinked, Links, Remaining
<1> QED BY <1>1, <1>2, <1>3, <1>4 DEF Next

LEMMA Invariance == Spec => []IInv
  BY InitInv, StepInv, PTL DEF Spec

-----------------------------------------------------------------------------
(* The properties. *)

(* The state stays within its types: the clock stays below its period. *)
THEOREM TypeCorrect == Spec => []TypeOK
<1>1. IInv => TypeOK
  BY DEF IInv
<1> QED BY <1>1, Invariance, PTL

(* What a node in the queue holds is an open connection that links to it. *)
THEOREM HoldersAlwaysLinked == Spec => []HoldersLinked
<1>1. IInv => HoldersLinked
  BY DEF IInv
<1> QED BY <1>1, Invariance, PTL

(* Expiry closes no connection before its last timeout is over, however the *)
(* clock wraps meanwhile.                                                   *)
THEOREM NeverEarly == Spec => NotEarly
<1> DEFINE Late == \A c \in Conns : phase = "expire" /\ c \in open /\ c \notin open'
                                      => timer[c] # None /\ left[timer[c]] = 0
<1>1. IInv /\ [Next]_vars => [Late]_vars
  <2> SUFFICES ASSUME IInv, Next,
                      NEW c \in Conns, phase = "expire", c \in open, c \notin open'
               PROVE  timer[c] # None /\ left[timer[c]] = 0
    OBVIOUS
  <2>1. PICK n \in Nodes : HandleExpired(n)
    BY DEF Next, Pass, Handler, Tick, Event, EndWork, EndExpire, NewEvent, Rearm, Linger, CloseConn,
           Disarm
  <2>2. n \in queue /\ node[n].holder = c
    BY <2>1 DEF HandleExpired, Top, Pop
  <2>3. ~node[n].deleted /\ timer[c] = n
    BY <2>2, NoneAssumption DEF IInv, HoldersLinked
  <2>4. clock >= node[n].exp
    <3>1. clock \in Int /\ node[n].exp \in Int
      BY PeriodAssumption DEF IInv, TypeOK, TimerNodes
    <3> QED BY <2>1, <2>3, <3>1 DEF HandleExpired, Valid
  <2>5. left[n] = 0
    <3>1. clock \in Int /\ node[n].exp \in Int /\ left[n] \in Nat
      BY PeriodAssumption DEF IInv, TypeOK, TimerNodes
    <3> QED BY <2>2, <2>4, <3>1 DEF IInv, Remaining
  <2> QED BY <2>3, <2>5, NoneAssumption
<1> QED BY <1>1, Invariance, PTL DEF Spec, NotEarly

(* An expiry pass ends only when no node in the queue is overdue. *)
THEOREM ExpiryComplete == Spec => NothingOverdue
<1> DEFINE Swept == phase = "expire" /\ phase' = "poll" => \A n \in queue : clock < node[n].exp
<1>1. IInv /\ [Next]_vars => [Swept]_vars
  <2> SUFFICES ASSUME IInv, Next, phase = "expire", phase' = "poll", NEW m \in queue
               PROVE  clock < node[m].exp
    OBVIOUS
  <2>1. EndExpire
    BY DEF Next, Pass, Handler, Tick, Event, EndWork, HandleExpired, Pop, NewEvent, Rearm, Linger,
           CloseConn, Disarm
  <2>2. PICK n \in queue : Top(n) /\ Valid(n)
    BY <2>1 DEF EndExpire
  <2>3. clock \in Int /\ node[n].exp \in Int /\ node[m].exp \in Int
    BY PeriodAssumption DEF IInv, TypeOK, TimerNodes
  <2> QED BY <2>2, <2>3 DEF Top, Valid
<1> QED BY <1>1, Invariance, PTL DEF Spec, NothingOverdue
==============================================================================
