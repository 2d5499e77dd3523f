----------------------------- MODULE LoopThread -----------------------------
(***************************************************************************)
(* The start and the end of the loop threads: EventLoopThreadPool::start   *)
(* on the main thread, EventLoopThread (EventLoopThread.cpp), and the      *)
(* Thread, CDLatch and Condition under it.  A thread's EventLoop lives on  *)
(* that thread's stack and is published through loop_.                     *)
(*                                                                         *)
(* A critical section is one step: the mutexes are held over no wait but   *)
(* that of a condition, which gives them back.  A waiting thread goes on   *)
(* when it is notified, or spuriously.  Of a pass of the loop only the     *)
(* test of qiut_ and the wait in poll() are kept (see EventLoop).          *)
(***************************************************************************)
EXTENDS Naturals, Sequences

CONSTANT NumThreads   (* numThreads_ *)

ASSUME NumThreadsAssumption == NumThreads \in Nat \ {0}

Threads == 1..NumThreads

VARIABLES
  main,     (* where the main thread is, in start() or in a destructor    *)
  i,        (* the thread it is starting or destroying                    *)
  loops,    (* loops_: for each element, whether it is a pointer or null  *)
  thr,      (* where each loop thread is                                  *)
  latch,    (* latch_ of each Thread has been counted down                *)
  pointer,  (* loop_ of each EventLoopThread is not null                  *)
  alive,    (* the EventLoop of each thread exists                        *)
  quit,     (* its qiut_                                                  *)
  signal    (* its eventfd is readable                                    *)

vars == <<main, i, loops, thr, latch, pointer, alive, quit, signal>>

Starting   == {"create", "latch", "latchwait", "failed", "cond", "condwait", "return"}
Destroying == {"test", "quit", "wakeup", "join"}
Places == {"none", "born", "named", "func", "enter", "loop", "poll", "leave", "exit", "over"}

TypeOK ==
  /\ main \in Starting \cup Destroying \cup {"serve", "gone"}
  /\ i \in Threads
  /\ loops \in Seq(BOOLEAN)
  /\ thr \in [Threads -> Places]
  /\ latch \in [Threads -> BOOLEAN]
  /\ pointer \in [Threads -> BOOLEAN]
  /\ alive \in [Threads -> BOOLEAN]
  /\ quit \in [Threads -> BOOLEAN]
  /\ signal \in [Threads -> BOOLEAN]

Init ==
  /\ main = "create" /\ i = 1 /\ loops = <<>>
  /\ thr = [t \in Threads |-> "none"]
  /\ latch = [t \in Threads |-> FALSE]
  /\ pointer = [t \in Threads |-> FALSE]
  /\ alive = [t \in Threads |-> FALSE]
  /\ quit = [t \in Threads |-> FALSE]
  /\ signal = [t \in Threads |-> FALSE]

-----------------------------------------------------------------------------
(* EventLoopThreadPool::start with EventLoopThread::startLoop and           *)
(* Thread::start, on the main thread.                                       *)

loopVars == <<latch, pointer, alive, quit, signal>>

MainStep(from, to) ==
  /\ main = from /\ main' = to
  /\ UNCHANGED <<i, loops, thr, loopVars>>

(* pthread_create succeeds; or it fails, nobody is told, and startLoop goes *)
(* on to wait for a loop_ that no thread will set.                          *)
Create ==
  /\ main = "create"
  /\ \/ main' = "latch" /\ thr' = [thr EXCEPT ![i] = "born"]
     \/ main' = "failed" /\ UNCHANGED thr
  /\ UNCHANGED <<i, loops, loopVars>>

LatchWait == MainStep("latch", IF latch[i] THEN "cond" ELSE "latchwait")

(* Mutant: the loop pointer is tested once. *)
CondWaitOnce ==
  \/ MainStep("cond", IF pointer[i] THEN "return" ELSE "condwait")
  \/ MainStep("condwait", "return")

CondWait == MainStep("cond", IF pointer[i] THEN "return" ELSE "condwait")

Spurious == MainStep("latchwait", "latch") \/ MainStep("condwait", "cond")

(* loop_ is read again, without the mutex, and goes into loops_. *)
Return ==
  /\ main = "return"
  /\ loops' = Append(loops, pointer[i])
  /\ IF i = NumThreads THEN main' = "serve" /\ i' = i
     ELSE main' = "create" /\ i' = i + 1
  /\ UNCHANGED <<thr, loopVars>>

-----------------------------------------------------------------------------
(* The loop thread: startThread, ThreadData::runInThread and threadFunc.    *)

ThreadStep(t, from, to) ==
  /\ thr[t] = from /\ thr' = [thr EXCEPT ![t] = to]
  /\ UNCHANGED <<i, loops>>

(* The main thread, if it waits for this on behalf of thread t, is woken.   *)
Notify(t, waiting, woken) ==
  main' = IF main = waiting /\ i = t THEN woken ELSE main

CountDown(t) ==
  /\ ThreadStep(t, "born", "named")
  /\ latch' = [latch EXCEPT ![t] = TRUE]
  /\ Notify(t, "latchwait", "latch")
  /\ UNCHANGED <<pointer, alive, quit, signal>>

(* func_ is called: the EventLoop is constructed. *)
EnterFunc(t) ==
  /\ ThreadStep(t, "named", "func")
  /\ alive' = [alive EXCEPT ![t] = TRUE]
  /\ UNCHANGED <<main, latch, pointer, quit, signal>>

(* Mutant: nobody is notified. *)
PublishSilently(t) ==
  /\ ThreadStep(t, "func", "enter")
  /\ pointer' = [pointer EXCEPT ![t] = TRUE]
  /\ UNCHANGED <<main, latch, alive, quit, signal>>

Publish(t) ==
  /\ ThreadStep(t, "func", "enter")
  /\ pointer' = [pointer EXCEPT ![t] = TRUE]
  /\ Notify(t, "condwait", "cond")
  /\ UNCHANGED <<latch, alive, quit, signal>>

EnterLoop(t) ==
  /\ ThreadStep(t, "enter", "loop")
  /\ quit' = [quit EXCEPT ![t] = FALSE]
  /\ UNCHANGED <<main, latch, pointer, alive, signal>>

TestQuit(t) ==
  /\ ThreadStep(t, "loop", IF quit[t] THEN "leave" ELSE "poll")
  /\ UNCHANGED <<main, loopVars>>

Wake(t) ==
  /\ signal[t] /\ ThreadStep(t, "poll", "loop")
  /\ signal' = [signal EXCEPT ![t] = FALSE]
  /\ UNCHANGED <<main, latch, pointer, alive, quit>>

OtherEvent(t) == ThreadStep(t, "poll", "loop") /\ UNCHANGED <<main, loopVars>>

(* threadFunc: loop_ = nullptr, then the EventLoop is destroyed. *)
Leave(t) ==
  /\ ThreadStep(t, "leave", "exit")
  /\ pointer' = [pointer EXCEPT ![t] = FALSE]
  /\ UNCHANGED <<main, latch, alive, quit, signal>>

Exit(t) ==
  /\ ThreadStep(t, "exit", "over")
  /\ alive' = [alive EXCEPT ![t] = FALSE]
  /\ UNCHANGED <<main, latch, pointer, quit, signal>>

(* queueInLoop by the main thread while it serves: the loop is woken up for *)
(* the task (see Server for the tasks).                                     *)
WakeLoop(t) ==
  /\ main = "serve" /\ signal' = [signal EXCEPT ![t] = TRUE]
  /\ UNCHANGED <<main, i, loops, thr, latch, pointer, alive, quit>>

-----------------------------------------------------------------------------
(* ~EventLoopThread for each thread of the pool, on the main thread.        *)

Destroy ==
  /\ main = "serve" /\ main' = "test" /\ i' = 1
  /\ UNCHANGED <<loops, thr, loopVars>>

NextThread == IF i = NumThreads THEN main' = "gone" /\ i' = i
              ELSE main' = "test" /\ i' = i + 1

TestLoop ==
  /\ main = "test"
  /\ IF pointer[i] THEN main' = "quit" /\ i' = i ELSE NextThread
  /\ UNCHANGED <<loops, thr, loopVars>>

(* Mutant: the loop is not woken up. *)
SetQuitSilently ==
  /\ main = "quit" /\ main' = "join"
  /\ quit' = [quit EXCEPT ![i] = TRUE]
  /\ UNCHANGED <<i, loops, thr, latch, pointer, alive, signal>>

SetQuit ==
  /\ main = "quit" /\ main' = "wakeup"
  /\ quit' = [quit EXCEPT ![i] = TRUE]
  /\ UNCHANGED <<i, loops, thr, latch, pointer, alive, signal>>

(* The loop may have ended meanwhile; its eventfd is closed then. *)
Wakeup ==
  /\ main = "wakeup" /\ main' = "join"
  /\ signal' = [signal EXCEPT ![i] = alive[i]]
  /\ UNCHANGED <<i, loops, thr, latch, pointer, alive, quit>>

(* Mutant: the thread is left to itself. *)
JoinDetached == main = "join" /\ NextThread /\ UNCHANGED <<loops, thr, loopVars>>

Join ==
  /\ main = "join" /\ thr[i] = "over" /\ NextThread
  /\ UNCHANGED <<loops, thr, loopVars>>

-----------------------------------------------------------------------------
MainRuns == \/ Create \/ LatchWait \/ CondWait \/ Return
            \/ TestLoop \/ SetQuit \/ Wakeup \/ Join

ThreadRuns(t) == \/ CountDown(t) \/ EnterFunc(t) \/ Publish(t) \/ EnterLoop(t)
                 \/ TestQuit(t) \/ Wake(t) \/ Leave(t) \/ Exit(t)

Next == \/ MainRuns \/ Spurious \/ Destroy
        \/ \E t \in Threads : ThreadRuns(t) \/ OtherEvent(t) \/ WakeLoop(t)

Spec == Init /\ [][Next]_vars

-----------------------------------------------------------------------------
(* Properties; the last two under the fairness stated in Server. *)

(* What getNextLoop may return (EventLoopThreadPool.cpp:24, 33) is a loop   *)
(* that exists, although startLoop reads loop_ after it has released the    *)
(* mutex (EventLoopThread.cpp:37) and may have been woken for nothing.      *)
LoopsUsable ==
  \A t \in DOMAIN loops :
    loops[t] /\ (main \in Starting \cup {"serve"} \/ t > i => alive[t])

(* The end of threadFunc writes loop_ (EventLoopThread.cpp:48): the thread  *)
(* is over when its EventLoopThread is gone.                                *)
ThreadOutlived ==
  \A t \in Threads :
    main = "gone" \/ (main \in Destroying /\ t < i) => thr[t] = "over"

(* The pool starts, whichever of the threads is first at each of the two    *)
(* waits, unless a thread cannot be created.                                *)
Started == <>(main \in {"serve", "failed"})

(* A loop that is running when it is told to quit ends, and the destructor  *)
(* gets past its join (EventLoopThread.cpp:24-25).                          *)
QuitTaken ==
  \A t \in Threads :
    (quit[t] /\ thr[t] \in {"loop", "poll"})
      ~> (thr[t] = "over" /\ (main = "gone" \/ i > t))
=============================================================================
