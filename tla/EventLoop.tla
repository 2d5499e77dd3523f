----------------------------- MODULE EventLoop ------------------------------
(***************************************************************************)
(* One EventLoop (EventLoop.cpp) with the threads that call queueInLoop    *)
(* and quit on it: the task vector behind mutex_, the eventfd that wakes   *)
(* the loop and its edge-triggered entry in epoll, the swap of the task    *)
(* vector, and the flag qiut_.  A call from another thread is two steps,   *)
(* since the mutex is released before wakeup; calls from the loop thread   *)
(* itself come from an event handler or from a task.                       *)
(*                                                                         *)
(* Other descriptors can end the wait in poll() at any moment; what their  *)
(* handlers do is the matter of Reactor.                                   *)
(***************************************************************************)
EXTENDS Naturals, Sequences

CONSTANTS Tasks,      (* the functors, each queued at most once  *)
          Callers,    (* the threads other than the loop's own   *)
          MaxCounter  (* the largest value an eventfd can hold   *)

ASSUME EventLoopAssumption == MaxCounter \in Nat \ {0}

VARIABLES
  pc,        (* where the loop thread is                                *)
  pending,   (* pendingFunctors_                                        *)
  functors,  (* the swapped-out vector in doPendingFunctors             *)
  done,      (* the tasks executed so far                               *)
  counter,   (* the eventfd                                             *)
  listed,    (* the eventfd's entry is on epoll's ready list            *)
  woken,     (* poll() has returned pwakeupChannel_, not handled yet    *)
  quit,      (* qiut_                                                   *)
  caller     (* what each calling thread has still to do                *)

vars == <<pc, pending, functors, done, counter, listed, woken, quit, caller>>

Places == {"new", "test", "poll", "events", "run", "done"}

TypeOK ==
  /\ pc \in Places
  /\ pending \in Seq(Tasks) /\ functors \in Seq(Tasks) /\ done \in Seq(Tasks)
  /\ counter \in 0..MaxCounter
  /\ listed \in BOOLEAN /\ woken \in BOOLEAN /\ quit \in BOOLEAN
  /\ caller \in [Callers -> {"idle", "wake"}]

(* The constructor has registered the eventfd; loop() is not called yet. *)
Init ==
  /\ pc = "new"
  /\ pending = <<>> /\ functors = <<>> /\ done = <<>>
  /\ counter = 0 /\ listed = FALSE /\ woken = FALSE /\ quit = FALSE
  /\ caller = [p \in Callers |-> "idle"]

Occurs(t, s) == \E i \in DOMAIN s : s[i] = t
Fresh(t) == ~Occurs(t, pending) /\ ~Occurs(t, functors) /\ ~Occurs(t, done)

-----------------------------------------------------------------------------
(* EventLoop::wakeup: the write adds one and triggers the edge; on a full   *)
(* eventfd it fails with EAGAIN.                                            *)
Wakeup ==
  IF counter < MaxCounter THEN counter' = counter + 1 /\ listed' = TRUE
  ELSE UNCHANGED <<counter, listed>>

(* queueInLoop from another thread, up to the release of the mutex; the     *)
(* wakeup follows.  Mutant: no wakeup.                                      *)
QueueSilently(p, t) ==
  /\ pc # "done" /\ caller[p] = "idle" /\ Fresh(t)
  /\ pending' = Append(pending, t)
  /\ UNCHANGED <<pc, functors, done, counter, listed, woken, quit, caller>>

Queue(p, t) ==
  /\ pc # "done" /\ caller[p] = "idle" /\ Fresh(t)
  /\ pending' = Append(pending, t)
  /\ caller' = [caller EXCEPT ![p] = "wake"]
  /\ UNCHANGED <<pc, functors, done, counter, listed, woken, quit>>

(* quit from another thread: the flag, then the wakeup. *)
(* Mutant: no wakeup.                                   *)
QuitSilently(p) ==
  /\ pc # "done" /\ caller[p] = "idle"
  /\ quit' = TRUE
  /\ UNCHANGED <<pc, pending, functors, done, counter, listed, woken, caller>>

Quit(p) ==
  /\ pc # "done" /\ caller[p] = "idle"
  /\ quit' = TRUE
  /\ caller' = [caller EXCEPT ![p] = "wake"]
  /\ UNCHANGED <<pc, pending, functors, done, counter, listed, woken>>

Wake(p) ==
  /\ caller[p] = "wake"
  /\ caller' = [caller EXCEPT ![p] = "idle"]
  /\ Wakeup
  /\ UNCHANGED <<pc, pending, functors, done, woken, quit>>

-----------------------------------------------------------------------------
(* The loop thread. *)

StartLoop ==
  /\ pc = "new" /\ pc' = "test"
  /\ quit' = FALSE
  /\ UNCHANGED <<pending, functors, done, counter, listed, woken, caller>>

TestQuit ==
  /\ pc = "test"
  /\ pc' = IF quit THEN "done" ELSE "poll"
  /\ UNCHANGED <<pending, functors, done, counter, listed, woken, quit, caller>>

(* epoll_wait takes the eventfd off the ready list and reports it if it can *)
(* be read.                                                                 *)
TakeEntry == listed' = FALSE /\ woken' = (listed /\ counter > 0)

Poll ==
  /\ pc = "poll" /\ listed
  /\ TakeEntry
  /\ pc' = IF counter > 0 THEN "events" ELSE "poll"
  /\ UNCHANGED <<pending, functors, done, counter, quit, caller>>

(* Some other channel is ready, or a wait ends for another reason. *)
OtherEvent ==
  /\ pc = "poll" /\ pc' = "events"
  /\ TakeEntry
  /\ UNCHANGED <<pending, functors, done, counter, quit, caller>>

(* readn of the eight bytes of an eventfd: one read empties it. *)
Readn == counter' = 0

(* pwakeupChannel_: handleRead empties the eventfd; handleConn asks for the *)
(* mask the entry has, so no system call is made.                           *)
ReadWakeup ==
  /\ pc = "events" /\ woken
  /\ woken' = FALSE /\ Readn
  /\ UNCHANGED <<pc, pending, functors, done, listed, quit, caller>>

(* A handler queues a task: the loop thread does not wake itself. *)
HandlerQueues(t) ==
  /\ pc = "events" /\ Fresh(t)
  /\ pending' = Append(pending, t)
  /\ UNCHANGED <<pc, functors, done, counter, listed, woken, quit, caller>>

(* doPendingFunctors swaps the vectors once every handler has run.          *)
(* Mutant: the vector is copied.                                            *)
SwapCopies ==
  /\ pc = "events" /\ ~woken /\ pc' = "run"
  /\ functors' = pending
  /\ UNCHANGED <<pending, done, counter, listed, woken, quit, caller>>

SwapFunctors ==
  /\ pc = "events" /\ ~woken /\ pc' = "run"
  /\ functors' = pending /\ pending' = functors
  /\ UNCHANGED <<done, counter, listed, woken, quit, caller>>

(* The task being executed queues another: callingPendingFunctors_ is set,  *)
(* so the loop wakes itself.  Mutant: the flag is not looked at.            *)
FunctorQueuesSilently(t) ==
  /\ pc = "run" /\ functors # <<>> /\ Fresh(t)
  /\ pending' = Append(pending, t)
  /\ UNCHANGED <<pc, functors, done, counter, listed, woken, quit, caller>>

FunctorQueues(t) ==
  /\ pc = "run" /\ functors # <<>> /\ Fresh(t)
  /\ pending' = Append(pending, t)
  /\ Wakeup
  /\ UNCHANGED <<pc, functors, done, woken, quit, caller>>

RunFunctor ==
  /\ pc = "run" /\ functors # <<>>
  /\ done' = Append(done, Head(functors))
  /\ functors' = Tail(functors)
  /\ UNCHANGED <<pc, pending, counter, listed, woken, quit, caller>>

(* The vector is done; handleExpired follows (Reactor), then the next pass. *)
EndPass ==
  /\ pc = "run" /\ functors = <<>> /\ pc' = "test"
  /\ UNCHANGED <<pending, functors, done, counter, listed, woken, quit, caller>>

LoopStep == StartLoop \/ TestQuit \/ Poll \/ ReadWakeup \/ SwapFunctors \/ RunFunctor \/ EndPass

Next ==
  \/ LoopStep \/ OtherEvent
  \/ \E t \in Tasks : HandlerQueues(t) \/ FunctorQueues(t) \/ \E p \in Callers : Queue(p, t)
  \/ \E p \in Callers : Quit(p) \/ Wake(p)

Spec == Init /\ [][Next]_vars

(* Threads keep running; nobody owes the loop another event.  EndPass and   *)
(* SwapFunctors make the handlers and tasks finish.                         *)
FairSpec == Spec /\ WF_vars(LoopStep) /\ \A p \in Callers : WF_vars(Wake(p))

-----------------------------------------------------------------------------
(* Properties. *)

(* The loop has a wakeup coming: on the ready list, or about to be sent. *)
Signalled == (listed /\ counter > 0) \/ \E p \in Callers : caller[p] = "wake"

(* The loop never waits in poll() on work it has already been given: a task *)
(* queued, or a quit, between the swap and the wait leaves a wakeup behind  *)
(* (EventLoop.cpp:76-87, 108-122).                                          *)
NoLostWakeup == pc = "poll" /\ (pending # <<>> \/ quit) => Signalled

(* An eventfd that can be read is on the ready list or about to be read, so *)
(* the wakeup that a full eventfd refuses is not needed (EventLoop.cpp:49). *)
EdgeKept == counter > 0 => listed \/ (pc = "events" /\ woken)

(* The queue behind the mutex, the swap and the wakeups together are a FIFO *)
(* queue in which nothing is lost, duplicated or overtaken.                 *)
Fifo == INSTANCE TaskQueue WITH queue <- functors \o pending
FifoSpec == Fifo!Spec

(* A queued task is executed, unless the loop is told to quit, although no  *)
(* other event ever comes.                                                  *)
QueuedRuns == \A t \in Tasks : Occurs(t, pending) ~> (Occurs(t, done) \/ quit)

(* A loop that runs and is told to quit ends, although no event ever comes. *)
RunningQuits == (quit /\ pc # "new") ~> (pc = "done")

(* The loop runs until a round finds that it is to quit, and then ends      *)
(* (EventLoop.hpp:10-11).                                                   *)
QuitEnds == quit ~> (pc = "done")
=============================================================================
