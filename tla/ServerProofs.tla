---------------------------- MODULE ServerProofs ----------------------------
(***************************************************************************)
(* Proofs about LoopThread and about Server, for every number of loops and *)
(* descriptors.  The pool hands out only loops that exist, and no thread   *)
(* outlives its EventLoopThread; Server behaves towards the pool as        *)
(* LoopThread says, so that both hold of it; it never waits with its       *)
(* listening socket unwatched; and it accounts for every descriptor.       *)
(***************************************************************************)
EXTENDS Server, SequenceTheorems, TLAPS

-----------------------------------------------------------------------------
(* LoopThread.                                                              *)

Published(t) == thr[t] \in {"enter", "loop", "poll", "leave", "exit", "over"}

(* The main thread has told loop t to quit. *)
QuitSent(t) ==
  \/ main = "gone"
  \/ main \in Destroying /\ (t < i \/ (t = i /\ main \in {"wakeup", "join"}))

(* A thread's place says whether its loop exists and is published; only a   *)
(* loop that was told to quit is on its way out.                            *)
ThreadInv ==
  \A t \in Threads :
    /\ pointer[t] <=> thr[t] \in {"enter", "loop", "poll", "leave"}
    /\ alive[t] <=> thr[t] \in {"func", "enter", "loop", "poll", "leave", "exit"}
    /\ quit[t] \/ thr[t] \in {"leave", "exit", "over"} => QuitSent(t)

(* What the main thread has behind it. *)
MainInv ==
  /\ Len(loops) = IF main \in Starting THEN i - 1 ELSE NumThreads
  /\ \A t \in DOMAIN loops : loops[t] = TRUE
  /\ \A t \in Threads :
       main \notin Starting \/ t < i \/ (t = i /\ main = "return") => Published(t)
  /\ \A t \in Threads :
       main \in Starting /\ (t > i \/ (t = i /\ main \in {"create", "failed"})) => thr[t] = "none"
  /\ main \in {"serve", "gone"} => i = NumThreads

PoolInv == TypeOK /\ ThreadInv /\ MainInv /\ ThreadOutlived

USE NumThreadsAssumption DEF Threads, Starting, Destroying

LEMMA PoolInitially == Init => PoolInv
<1> SUFFICES ASSUME Init PROVE PoolInv
  OBVIOUS
<1>1. <<>> \in Seq(BOOLEAN) /\ Len(<<>>) = 0 /\ DOMAIN <<>> = {}
  BY EmptySeq, LenProperties
<1>2. TypeOK
  BY <1>1 DEF Init, TypeOK, Places
<1>3. ThreadInv
  BY DEF Init, ThreadInv
<1>4. MainInv
  BY <1>1 DEF Init, MainInv
<1>5. ThreadOutlived
  BY DEF Init, ThreadOutlived
<1> QED BY <1>2, <1>3, <1>4, <1>5 DEF PoolInv

(* The loop that start() takes from thread i exists. *)
LEMMA ReturnsPointer ==
  ASSUME PoolInv, main = "return"
  PROVE  pointer[i] = TRUE
<1>1. Published(i) /\ ~QuitSent(i) /\ i \in Threads
  BY DEF PoolInv, TypeOK, MainInv, QuitSent
<1>2. pointer[i] \in BOOLEAN
  BY <1>1 DEF PoolInv, TypeOK
<1> QED BY <1>1, <1>2 DEF PoolInv, ThreadInv, Published

LEMMA TypeStep ==
  ASSUME PoolInv, [Next]_vars
  PROVE  TypeOK'
<1> USE DEF PoolInv, TypeOK, Places, loopVars
<1>1. CASE Create
  BY <1>1 DEF Create
<1>2. CASE LatchWait \/ CondWait \/ Spurious
  BY <1>2 DEF LatchWait, CondWait, Spurious, MainStep
<1>3. CASE Return
  <2>1. loops' \in Seq(BOOLEAN)
    BY <1>3, ReturnsPointer, AppendProperties DEF Return
  <2> QED BY <1>3, <2>1 DEF Return
<1>4. CASE Destroy
  BY <1>4 DEF Destroy
<1>5. CASE TestLoop \/ SetQuit \/ Wakeup \/ Join
  <2>1. main' \in Starting \cup Destroying \cup {"serve", "gone"} /\ i' \in Threads
    BY <1>5 DEF TestLoop, SetQuit, Wakeup, Join, NextThread
  <2>2. UNCHANGED <<loops, thr, latch, pointer, alive>>
    BY <1>5 DEF TestLoop, SetQuit, Wakeup, Join
  <2>3. quit' \in [Threads -> BOOLEAN] /\ signal' \in [Threads -> BOOLEAN]
    BY <1>5 DEF TestLoop, SetQuit, Wakeup, Join
  <2> QED BY <2>1, <2>2, <2>3
<1>6. ASSUME NEW t \in Threads, ThreadRuns(t) \/ OtherEvent(t) \/ WakeLoop(t)
      PROVE  TypeOK'
  <2>1. CASE CountDown(t) \/ EnterFunc(t) \/ Publish(t) \/ EnterLoop(t)
    BY <2>1 DEF CountDown, EnterFunc, Publish, EnterLoop, ThreadStep, Notify
  <2>2. CASE TestQuit(t) \/ Wake(t) \/ Leave(t) \/ Exit(t) \/ OtherEvent(t)
    BY <2>2 DEF TestQuit, Wake, Leave, Exit, OtherEvent, ThreadStep
  <2>3. CASE WakeLoop(t)
    BY <2>3 DEF WakeLoop
  <2> QED BY <1>6, <2>1, <2>2, <2>3 DEF ThreadRuns
<1>7. CASE UNCHANGED vars
  BY <1>7 DEF vars
<1> QED BY <1>1, <1>2, <1>3, <1>4, <1>5, <1>6, <1>7 DEF Next, MainRuns

(* A step of one loop thread, or the stutter, leaves the main thread where  *)
(* it is, but for a wait that ends.                                         *)
LEMMA ThreadStepInv ==
  ASSUME PoolInv, NEW t \in Threads, ThreadRuns(t) \/ OtherEvent(t)
  PROVE  ThreadInv' /\ MainInv' /\ ThreadOutlived'
<1> USE DEF PoolInv, TypeOK, Places, loopVars
<1>1. i' = i /\ loops' = loops
  BY DEF ThreadRuns, OtherEvent, CountDown, EnterFunc, Publish, EnterLoop, TestQuit,
         Wake, Leave, Exit, ThreadStep
<1>2. \/ main' = main
      \/ main = "latchwait" /\ main' = "latch"
      \/ main = "condwait" /\ main' = "cond"
  BY DEF ThreadRuns, OtherEvent, CountDown, EnterFunc, Publish, EnterLoop, TestQuit,
         Wake, Leave, Exit, ThreadStep, Notify
<1>3. \A s \in Threads : QuitSent(s)' <=> QuitSent(s)
  BY <1>1, <1>2 DEF QuitSent
<1>4. \A s \in Threads \ {t} : /\ thr'[s] = thr[s] /\ pointer'[s] = pointer[s]
                               /\ alive'[s] = alive[s] /\ quit'[s] = quit[s]
  BY DEF ThreadRuns, OtherEvent, CountDown, EnterFunc, Publish, EnterLoop, TestQuit,
         Wake, Leave, Exit, ThreadStep
<1>5. /\ pointer'[t] <=> thr'[t] \in {"enter", "loop", "poll", "leave"}
      /\ alive'[t] <=> thr'[t] \in {"func", "enter", "loop", "poll", "leave", "exit"}
      /\ quit'[t] => quit[t]
      /\ thr'[t] \in {"leave", "exit", "over"} => quit[t] \/ thr[t] \in {"leave", "exit", "over"}
      /\ Published(t) => Published(t)'
      /\ thr[t] = "over" => thr'[t] = "over"
      /\ thr[t] # "none"
  <2> USE DEF ThreadInv, ThreadStep, Published
  <2>1. CASE CountDown(t)
    BY <2>1 DEF CountDown
  <2>2. CASE EnterFunc(t)
    BY <2>2 DEF EnterFunc
  <2>3. CASE Publish(t)
    BY <2>3 DEF Publish
  <2>4. CASE EnterLoop(t)
    BY <2>4 DEF EnterLoop
  <2>5. CASE TestQuit(t)
    BY <2>5 DEF TestQuit
  <2>6. CASE Wake(t) \/ OtherEvent(t)
    BY <2>6 DEF Wake, OtherEvent
  <2>7. CASE Leave(t)
    BY <2>7 DEF Leave
  <2>8. CASE Exit(t)
    BY <2>8 DEF Exit
  <2> QED BY <2>1, <2>2, <2>3, <2>4, <2>5, <2>6, <2>7, <2>8 DEF ThreadRuns
<1>6. ThreadInv'
  BY <1>3, <1>4, <1>5 DEF ThreadInv
<1>7. MainInv'
  BY <1>1, <1>2, <1>4, <1>5 DEF MainInv, Published
<1>8. ThreadOutlived'
  BY <1>1, <1>2, <1>4, <1>5 DEF ThreadOutlived
<1> QED BY <1>6, <1>7, <1>8

LEMMA MainStepInv ==
  ASSUME PoolInv, MainRuns \/ Spurious \/ Destroy
  PROVE  ThreadInv' /\ MainInv' /\ ThreadOutlived'
<1> USE DEF PoolInv, TypeOK, Places, loopVars
<1>1. CASE Create
  BY <1>1 DEF Create, ThreadInv, MainInv, ThreadOutlived, QuitSent, Published
<1>2. CASE LatchWait \/ CondWait \/ Spurious
  BY <1>2 DEF LatchWait, CondWait, Spurious, MainStep, ThreadInv, MainInv, ThreadOutlived,
              QuitSent, Published
<1>3. CASE Return
  <2>1. /\ Len(loops') = Len(loops) + 1 /\ DOMAIN loops' = 1..Len(loops) + 1
        /\ loops'[Len(loops) + 1] = TRUE /\ \A t \in 1..Len(loops) : loops'[t] = loops[t]
        /\ DOMAIN loops = 1..Len(loops) /\ Len(loops) \in Nat
    <3>1. loops \in Seq(BOOLEAN) /\ TRUE \in BOOLEAN
      OBVIOUS
    <3>2. loops' = Append(loops, TRUE)
      BY <1>3, ReturnsPointer DEF Return
    <3>3. DOMAIN loops = 1..Len(loops) /\ Len(loops) \in Nat
      BY <3>1, LenProperties
    <3> HIDE DEF PoolInv, TypeOK
    <3> QED BY <3>1, <3>2, <3>3, AppendProperties, LenProperties
  <2>2. ThreadInv' /\ ThreadOutlived'
    <3>1. main = "return" /\ main' \in {"create", "serve"} /\ UNCHANGED <<thr, pointer, alive, quit>>
      BY <1>3 DEF Return
    <3>2. \A t \in Threads : ~QuitSent(t) /\ ~QuitSent(t)'
      BY <3>1 DEF QuitSent
    <3> QED BY <3>1, <3>2 DEF ThreadInv, ThreadOutlived
  <2>3. \A t \in DOMAIN loops' : loops'[t] = TRUE
    <3>1. \A t \in DOMAIN loops' : t \in 1..Len(loops) \/ t = Len(loops) + 1
      BY <2>1
    <3>2. \A t \in 1..Len(loops) : loops[t] = TRUE
      BY <2>1 DEF MainInv
    <3> QED BY <2>1, <3>1, <3>2
  <2>4. Len(loops') = i /\ i \in Nat
    BY <1>3, <2>1 DEF Return, MainInv
  <2>5. CASE i = NumThreads
    BY <1>3, <2>2, <2>3, <2>4, <2>5 DEF Return, MainInv, Published
  <2>6. CASE i # NumThreads
    BY <1>3, <2>2, <2>3, <2>4, <2>6 DEF Return, MainInv, Published
  <2> QED BY <2>5, <2>6
<1>4. CASE Destroy
  BY <1>4 DEF Destroy, ThreadInv, MainInv, ThreadOutlived, QuitSent, Published
<1>5. CASE TestLoop
  <2>1. pointer[i]
    BY <1>5 DEF TestLoop, ThreadInv, MainInv, QuitSent, Published
  <2> QED BY <1>5, <2>1 DEF TestLoop, ThreadInv, MainInv, ThreadOutlived, QuitSent, Published
<1>6. CASE SetQuit \/ Wakeup
  BY <1>6 DEF SetQuit, Wakeup, ThreadInv, MainInv, ThreadOutlived, QuitSent, Published
<1>7. CASE Join
  BY <1>7 DEF Join, NextThread, ThreadInv, MainInv, ThreadOutlived, QuitSent, Published
<1> QED BY <1>1, <1>2, <1>3, <1>4, <1>5, <1>6, <1>7 DEF MainRuns

LEMMA PoolInductive == Spec => []PoolInv
<1>1. PoolInv /\ [Next]_vars => PoolInv'
  <2> SUFFICES ASSUME PoolInv, [Next]_vars PROVE PoolInv'
    OBVIOUS
  <2>1. TypeOK'
    BY TypeStep
  <2>2. CASE Next
    <3>1. ASSUME NEW t \in Threads, WakeLoop(t)
          PROVE  PoolInv'
      BY <2>1, <3>1 DEF WakeLoop, PoolInv, ThreadInv, MainInv, ThreadOutlived, QuitSent, Published
    <3> QED BY <2>1, <2>2, <3>1, ThreadStepInv, MainStepInv DEF Next, PoolInv
  <2>3. CASE UNCHANGED vars
    BY <2>1, <2>3 DEF vars, PoolInv, ThreadInv, MainInv, ThreadOutlived, QuitSent, Published
  <2> QED BY <2>2, <2>3
<1> QED BY PoolInitially, <1>1, PTL DEF Spec

(* The state of the pool has the types stated for it. *)
THEOREM PoolTypeCorrect == Spec => []TypeOK
<1>1. PoolInv => TypeOK
  BY DEF PoolInv
<1> QED BY PoolInductive, <1>1, PTL

(* Every loop in the pool exists until it has been told to quit. *)
THEOREM PoolUsable == Spec => []LoopsUsable
<1>1. PoolInv => LoopsUsable
  <2> SUFFICES ASSUME PoolInv, NEW t \in DOMAIN loops
               PROVE  loops[t] /\ (main \in Starting \cup {"serve"} \/ t > i => alive[t])
    BY DEF LoopsUsable
  <2>1. t \in Threads /\ (main \in Starting => t < i)
    BY LenProperties DEF PoolInv, TypeOK, MainInv
  <2>2. Published(t)
    BY <2>1 DEF PoolInv, MainInv
  <2>3. main \in Starting \cup {"serve"} \/ t > i => main = "gone" \/ ~QuitSent(t)
    BY <2>1 DEF PoolInv, TypeOK, QuitSent
  <2>4. main = "gone" => ~(t > i)
    BY <2>1 DEF PoolInv, MainInv
  <2> QED BY <2>1, <2>2, <2>3, <2>4 DEF PoolInv, MainInv, ThreadInv, Published
<1> QED BY PoolInductive, <1>1, PTL

(* No thread outlives the EventLoopThread whose loop_ it writes. *)
THEOREM NoThreadOutlives == Spec => []ThreadOutlived
<1>1. PoolInv => ThreadOutlived
  BY DEF PoolInv
<1> QED BY PoolInductive, <1>1, PTL

HIDE DEF Starting, Destroying

-----------------------------------------------------------------------------
(* Server.                                                                  *)


(* In the accept loop the socket is registered and events_ is 0.            *)
AcceptInv ==
  /\ srv = "hand" <=> hand # NoFd
  /\ srv \in {"accept", "hand"} => ~asked
  /\ srv \in {"accept", "hand", "conn"} => watch = "in"
  /\ srv = "start" => watch = "none"

(* Once the handlers are done with events_ as it was, the ready list has    *)
(* the socket while somebody waits.                                         *)
BacklogInv ==
  /\ watch = "off" => Lost # {}
  /\ srv = "conn" /\ ~asked => Lost # {}
  /\ (srv = "poll" \/ (srv = "conn" /\ asked)) /\ watch = "in" /\ backlog > 0 /\ ~stranded
       => listed

ServerInv == ServerTypeOK /\ AcceptInv /\ BacklogInv /\ FdHeld

USE ServerAssumption DEF Fds, NoFd

-----------------------------------------------------------------------------
LEMMA Initially == ServerInit => ServerInv
<1> SUFFICES ASSUME ServerInit PROVE ServerInv
  OBVIOUS
<1>1. ServerTypeOK
  <2>1. 0 \in 0..MaxBacklog /\ 1 \in Threads
    OBVIOUS
  <2> QED BY <2>1 DEF ServerInit, ServerTypeOK
<1>2. Held = {} /\ Lost = {}
  BY DEF ServerInit, Held, Lost
<1>3. AcceptInv /\ BacklogInv /\ FdHeld
  BY <1>2 DEF ServerInit, AcceptInv, BacklogInv, FdHeld
<1> QED BY <1>1, <1>3 DEF ServerInv

(* The steps that leave the descriptors with their holders.                 *)
LEMMA HoldersKept ==
  ASSUME UNCHANGED <<hand, open, pending, served>>
  PROVE  Held' = Held /\ Lost' = Lost
BY DEF Held, Lost

(* The main thread in its loop, and the clients. *)
LEMMA ListenerStep ==
  ASSUME ServerInv, Connect \/ Listen \/ PollListener \/ AcceptFails \/ HandThisConn
  PROVE  ServerInv'
<1> USE DEF ServerInv, At, listener, descriptors
<1>1. UNCHANGED <<hand, open, pending, served, nextLoop>>
  BY DEF Connect, Listen, PollListener, AcceptFails, HandThisConn
<1>2. Held' = Held /\ Lost' = Lost
  BY <1>1, HoldersKept
<1>3. ServerTypeOK'
  <2>1. backlog' \in 0..MaxBacklog
    BY DEF ServerTypeOK, Connect, Listen, PollListener, AcceptFails, HandThisConn
  <2>2. /\ srv' \in {"start", "poll", "accept", "hand", "conn"}
        /\ watch' \in {"none", "in", "off"}
    BY DEF ServerTypeOK, Connect, Listen, PollListener, AcceptFails, HandThisConn
  <2>3. listed' \in BOOLEAN /\ asked' \in BOOLEAN /\ stranded' \in BOOLEAN
    <3>1. CASE Connect
      <4>1. listed' \in BOOLEAN
        <5>1. listed' = (listed \/ watch = "in")
          BY <3>1 DEF Connect
        <5>2. CASE listed \/ watch = "in"
          BY <5>1, <5>2
        <5>3. CASE ~(listed \/ watch = "in")
          BY <5>1, <5>3
        <5> QED BY <5>2, <5>3
      <4> QED BY <3>1, <4>1 DEF ServerTypeOK, Connect
    <3>2. CASE Listen
      <4>1. listed' \in BOOLEAN
        <5>1. CASE listed' = (backlog > 0)
          <6>1. CASE backlog > 0
            BY <5>1, <6>1
          <6>2. CASE ~(backlog > 0)
            BY <5>1, <6>2
          <6> QED BY <6>1, <6>2
        <5>2. CASE UNCHANGED listed
          BY <5>2 DEF ServerTypeOK
        <5> QED BY <3>2, <5>1, <5>2 DEF Listen
      <4> QED BY <3>2, <4>1 DEF ServerTypeOK, Listen
    <3>3. CASE PollListener
      BY <3>3 DEF ServerTypeOK, PollListener
    <3>4. CASE AcceptFails
      <4>1. stranded' \in BOOLEAN
        <5>1. stranded' = (stranded \/ backlog > 0)
          BY <3>4 DEF AcceptFails
        <5>2. CASE stranded \/ backlog > 0
          BY <5>1, <5>2
        <5>3. CASE ~(stranded \/ backlog > 0)
          BY <5>1, <5>3
        <5> QED BY <5>2, <5>3
      <4> QED BY <3>4, <4>1 DEF ServerTypeOK, AcceptFails
    <3>5. CASE HandThisConn
      BY <3>5 DEF ServerTypeOK, HandThisConn
    <3> QED BY <3>1, <3>2, <3>3, <3>4, <3>5
  <2> QED BY <1>1, <2>1, <2>2, <2>3 DEF ServerTypeOK
<1>4. AcceptInv'
  BY <1>1 DEF ServerTypeOK, AcceptInv, Connect, Listen, PollListener, AcceptFails, HandThisConn
<1>5. BacklogInv'
  BY <1>2 DEF ServerTypeOK, AcceptInv, BacklogInv, Connect, Listen, PollListener, AcceptFails,
              HandThisConn
<1>6. FdHeld'
  BY <1>1, <1>2 DEF AcceptInv, FdHeld, Connect, Listen, PollListener, AcceptFails, HandThisConn
<1> QED BY <1>3, <1>4, <1>5, <1>6

(* accept returns a descriptor nobody has. *)
LEMMA AcceptStep ==
  ASSUME ServerInv, Accept
  PROVE  ServerInv'
<1> USE DEF ServerInv
<1>1. PICK f \in Fds \ open : hand' = f /\ open' = open \cup {f}
  BY DEF Accept
<1>2. /\ srv = "accept" /\ srv' = "hand" /\ hand = NoFd
      /\ backlog > 0 /\ backlog' = backlog - 1
      /\ UNCHANGED <<watch, listed, asked, stranded, nextLoop, pending, served>>
  BY DEF Accept, At, AcceptInv
<1>3. Held' = Held \cup {f} /\ Lost' = Lost /\ Lost = {}
  BY <1>1, <1>2 DEF Held, Lost, FdHeld, AcceptInv
<1>4. ServerTypeOK'
  BY <1>1, <1>2 DEF ServerTypeOK
<1>5. AcceptInv'
  BY <1>1, <1>2 DEF AcceptInv
<1>6. BacklogInv'
  BY <1>2, <1>3 DEF BacklogInv, AcceptInv
<1>7. FdHeld'
  <2>1. f \notin Held
    BY <1>1 DEF FdHeld
  <2>2. \A t \in Threads : f \notin pending[t] \cup served[t]
    BY <2>1 DEF Held
  <2> QED BY <1>1, <1>2, <1>3, <2>2 DEF FdHeld
<1> QED BY <1>4, <1>5, <1>6, <1>7

(* The end of the loop's body, in each of its ways. *)
LEMMA HandStep ==
  ASSUME ServerInv, Refuse \/ NonBlockingFails \/ Hand
  PROVE  ServerInv'
<1> USE DEF ServerInv
<1>1. /\ srv = "hand" /\ hand \in Fds /\ hand' = NoFd /\ srv' \in {"accept", "conn"}
      /\ nextLoop' \in Threads /\ nextLoop \in Threads
      /\ UNCHANGED <<backlog, watch, listed, asked, stranded, served>>
  BY DEF Refuse, NonBlockingFails, Hand, At, Turn, AcceptInv, ServerTypeOK, WakeLoop
<1>2. /\ hand \in Held /\ hand \in open
      /\ \A t \in Threads : hand \notin pending[t] \cup served[t]
  BY <1>1 DEF FdHeld, Held
<1>3. Lost = {} /\ watch = "in" /\ ~asked
  BY <1>1 DEF FdHeld, AcceptInv
<1>4. CASE Refuse
  <2>1. open' = open \ {hand} /\ srv' = "accept" /\ UNCHANGED pending
    BY <1>4 DEF Refuse
  <2>2. Held' = Held \ {hand} /\ Lost' = {}
    BY <1>1, <1>2, <1>3, <2>1 DEF Held, Lost
  <2>3. ServerTypeOK' /\ AcceptInv' /\ BacklogInv'
    BY <1>1, <1>3, <2>1, <2>2 DEF ServerTypeOK, AcceptInv, BacklogInv
  <2>4. FdHeld'
    BY <1>1, <1>2, <2>1, <2>2 DEF FdHeld, ServerTypeOK
  <2> QED BY <2>3, <2>4
<1>5. CASE NonBlockingFails
  <2>1. srv' = "conn" /\ UNCHANGED <<open, pending>>
    BY <1>5 DEF NonBlockingFails
  <2>2. Held' = Held \ {hand} /\ Lost' = {hand}
    BY <1>1, <1>2, <1>3, <2>1 DEF Held, Lost
  <2>3. ServerTypeOK' /\ AcceptInv' /\ BacklogInv'
    BY <1>1, <1>3, <2>1, <2>2 DEF ServerTypeOK, AcceptInv, BacklogInv
  <2>4. FdHeld'
    BY <1>1, <1>2, <1>3, <2>1, <2>2 DEF FdHeld, ServerTypeOK
  <2> QED BY <2>3, <2>4
<1>6. CASE Hand
  <2>1. /\ srv' = "accept" /\ open' = open
        /\ pending' = [pending EXCEPT ![nextLoop] = @ \cup {hand}]
    BY <1>6 DEF Hand
  <2>2. pending \in [Threads -> SUBSET Fds]
    BY DEF ServerTypeOK
  <2>3. /\ pending'[nextLoop] = pending[nextLoop] \cup {hand}
        /\ \A t \in Threads : t # nextLoop => pending'[t] = pending[t]
        /\ pending' \in [Threads -> SUBSET Fds]
    BY <1>1, <2>1, <2>2
  <2>4. Held' = Held
    BY <1>1, <2>3 DEF Held
  <2>5. Held' = Held /\ Lost' = {}
    BY <1>3, <2>1, <2>4 DEF Lost
  <2>6. ServerTypeOK' /\ AcceptInv' /\ BacklogInv'
    BY <1>1, <1>3, <2>1, <2>3, <2>5 DEF ServerTypeOK, AcceptInv, BacklogInv
  <2>7. FdHeld'
    BY <1>1, <1>2, <2>1, <2>3, <2>5 DEF FdHeld, ServerTypeOK
  <2> QED BY <2>6, <2>7
<1> QED BY <1>4, <1>5, <1>6

(* A loop closes what it holds, and takes over what was queued.             *)
LEMMA PassStep ==
  ASSUME ServerInv, NEW t \in Threads, Pass(t) \/ Drop(t)
  PROVE  ServerInv'
<1> USE DEF ServerInv
<1>1. UNCHANGED <<srv, backlog, watch, listed, asked, stranded, hand, nextLoop>>
  BY DEF Pass, Drop, listener
<1>2. /\ pending \in [Threads -> SUBSET Fds] /\ served \in [Threads -> SUBSET Fds]
      /\ open \in SUBSET Fds
  BY DEF ServerTypeOK
<1>3. PICK D \in SUBSET (pending[t] \cup served[t]) :
        /\ open' = open \ D
        /\ pending' = [pending EXCEPT ![t] = {}]
        /\ served' = [served EXCEPT ![t] = (pending[t] \cup served[t]) \ D]
  <2>1. CASE Pass(t)
    <3>1. PICK D \in SUBSET served[t] :
            /\ open' = open \ D
            /\ served' = [served EXCEPT ![t] = (served[t] \ D) \cup pending[t]]
      BY <2>1, <1>2 DEF Pass
    <3>2. (served[t] \ D) \cup pending[t] = (pending[t] \cup served[t]) \ D
      BY <3>1 DEF FdHeld
    <3>3. pending' = [pending EXCEPT ![t] = {}]
      BY <2>1 DEF Pass
    <3> QED BY <3>1, <3>2, <3>3
  <2>2. CASE Drop(t)
    <3>1. (pending[t] \cup served[t]) \ (pending[t] \cup served[t]) = {}
      OBVIOUS
    <3> QED BY <2>2, <3>1 DEF Drop
  <2> QED BY <2>1, <2>2
<1>4. /\ pending'[t] = {} /\ served'[t] = (pending[t] \cup served[t]) \ D
      /\ \A u \in Threads : u # t => pending'[u] = pending[u] /\ served'[u] = served[u]
      /\ pending' \in [Threads -> SUBSET Fds] /\ served' \in [Threads -> SUBSET Fds]
  BY <1>2, <1>3
<1>5. \A u \in Threads : u # t => D \cap (pending[u] \cup served[u]) = {}
  BY <1>3 DEF FdHeld
<1>6. hand \notin D
  BY <1>3 DEF FdHeld
<1>7. \A u \in Threads : pending'[u] \cup served'[u] = (pending[u] \cup served[u]) \ D
  BY <1>4, <1>5
<1>8. Held' = Held \ D
  BY <1>1, <1>6, <1>7 DEF Held
<1>9. D \subseteq Held
  BY <1>2, <1>3 DEF Held
<1>10. Lost' = Lost
  BY <1>3, <1>8, <1>9 DEF Lost
<1>11. ServerTypeOK' /\ AcceptInv' /\ BacklogInv'
  BY <1>1, <1>3, <1>4, <1>10, <1>2 DEF ServerTypeOK, AcceptInv, BacklogInv
<1>12. FdHeld'
  <2>1. Held' \subseteq open'
    BY <1>3, <1>8 DEF FdHeld
  <2>2. \A u, v \in Threads :
          /\ pending'[u] \cap served'[v] = {}
          /\ u # v => pending'[u] \cap pending'[v] = {} /\ served'[u] \cap served'[v] = {}
    <3> SUFFICES ASSUME NEW u \in Threads, NEW v \in Threads
                 PROVE  /\ pending'[u] \cap served'[v] = {}
                        /\ u # v => /\ pending'[u] \cap pending'[v] = {}
                                    /\ served'[u] \cap served'[v] = {}
      OBVIOUS
    <3>1. /\ pending'[u] \subseteq pending[u] /\ (u = t => pending'[u] = {})
          /\ served'[v] \subseteq pending[v] \cup served[v]
          /\ served'[u] \subseteq pending[u] \cup served[u]
      BY <1>4, <1>7
    <3>2. v # t => served'[v] = served[v]
      BY <1>4
    <3>3. pending'[v] \subseteq pending[v]
      BY <1>4
    <3> QED BY <3>1, <3>2, <3>3 DEF FdHeld
  <2>3. \A u \in Threads : hand' \notin pending'[u] \cup served'[u]
    BY <1>1, <1>7 DEF FdHeld
  <2>4. (\A f, g \in Lost' : f = g) /\ (Lost' # {} => watch' = "off" \/ (srv' = "conn" /\ ~asked'))
    BY <1>1, <1>10 DEF FdHeld
  <2> QED BY <2>1, <2>2, <2>3, <2>4 DEF FdHeld
<1> QED BY <1>11, <1>12

LEMMA AloneStep ==
  ASSUME ServerInv, Alone
  PROVE  ServerInv'
<1>1. Held' = Held /\ Lost' = Lost
  BY HoldersKept DEF Alone, descriptors
<1> QED BY <1>1 DEF Alone, listener, descriptors, ServerInv, ServerTypeOK, AcceptInv, BacklogInv,
                    FdHeld

LEMMA Inductive == ServerSpec => []ServerInv
<1>1. ServerInv /\ [ServerNext]_serverVars => ServerInv'
  <2> SUFFICES ASSUME ServerInv, [ServerNext]_serverVars PROVE ServerInv'
    OBVIOUS
  <2>1. CASE Connect
    BY <2>1, ListenerStep
  <2>2. CASE Serve
    BY <2>2, ListenerStep, AcceptStep, HandStep DEF Serve
  <2>3. CASE PoolRuns \/ End \/ (Spurious /\ Alone)
    BY <2>3, AloneStep DEF PoolRuns, End
  <2>4. ASSUME NEW t \in Threads, LoopRuns(t) \/ OtherPass(t)
        PROVE  ServerInv'
    BY <2>4, AloneStep, PassStep DEF LoopRuns, OtherPass
  <2>5. CASE UNCHANGED serverVars
    BY <2>5, AloneStep DEF serverVars, Alone
  <2> QED BY <2>1, <2>2, <2>3, <2>4, <2>5 DEF ServerNext
<1> QED BY Initially, <1>1, PTL DEF ServerSpec

(* Every open descriptor has one holder, or is the one that fcntl lost.     *)
THEOREM DescriptorsHeld == ServerSpec => []FdHeld
<1>1. ServerInv => FdHeld
  BY DEF ServerInv
<1> QED BY Inductive, <1>1, PTL

(* A main loop that waits has the listening socket watched, and listed while *)
(* somebody is to be accepted, but for the two faults named.                *)
THEOREM NobodyForgotten == ServerSpec => []BacklogWatched
<1>1. ServerInv => BacklogWatched
  BY DEF ServerInv, BacklogInv, BacklogWatched, At
<1> QED BY Inductive, <1>1, PTL

(* Towards the pool the server behaves as LoopThread says: it wakes loops   *)
(* up only while it serves, and ends them only after that.                  *)
THEOREM ImplementsLoopThread == ServerSpec => Spec
<1>1. ServerInit => Init
  BY DEF ServerInit
<1>2. ServerInv /\ [ServerNext]_serverVars => [Next]_vars
  <2> SUFFICES ASSUME ServerInv, [ServerNext]_serverVars PROVE [Next]_vars
    OBVIOUS
  <2>1. CASE Connect
    BY <2>1 DEF Connect
  <2>2. CASE Serve
    <3>1. CASE Hand
      BY <3>1 DEF Hand, ServerInv, ServerTypeOK, Next
    <3> QED BY <2>2, <3>1 DEF Serve, Listen, PollListener, Accept, AcceptFails, Refuse,
                              NonBlockingFails, HandThisConn
  <2>3. CASE PoolRuns \/ End \/ (Spurious /\ Alone)
    BY <2>3 DEF PoolRuns, End, Next
  <2>4. ASSUME NEW t \in Threads, LoopRuns(t) \/ OtherPass(t)
        PROVE  Next
    BY <2>4 DEF LoopRuns, OtherPass, ThreadRuns, Next
  <2>5. CASE UNCHANGED serverVars
    BY <2>5 DEF serverVars
  <2> QED BY <2>1, <2>2, <2>3, <2>4, <2>5 DEF ServerNext
<1> QED BY <1>1, <1>2, Inductive, PTL DEF ServerSpec, Spec

(* The loops getNextLoop hands connections to exist while the server is     *)
(* serving: a task queued on one cannot reach a destroyed EventLoop.        *)
THEOREM ServedLoopsUsable == ServerSpec => []LoopsUsable
BY ImplementsLoopThread, PoolUsable, PTL

(* At its end the server destroys no EventLoopThread whose thread still runs. *)
THEOREM ServedThreadsOutlived == ServerSpec => []ThreadOutlived
BY ImplementsLoopThread, NoThreadOutlives, PTL
=============================================================================
