--------------------------- MODULE EventLoopProofs ---------------------------
(***************************************************************************)
(* Proofs about EventLoop for every set of tasks and callers and every     *)
(* capacity of the eventfd: no wakeup is lost, and the task vectors        *)
(* implement the FIFO queue of TaskQueue.                                  *)
(***************************************************************************)
EXTENDS EventLoop, SequenceTheorems, TLAPS

(* Work queued since the last swap is signalled, except while the handlers  *)
(* run, whose pass is going to swap it anyway.                              *)
WorkSignalled == pc \in {"new", "run", "test", "poll"} /\ pending # <<>> => Signalled

(* A quit that the test has missed is signalled. *)
QuitSignalled == pc = "poll" /\ quit => Signalled

(* The local vector is non-empty only while its tasks are being executed. *)
LocalVector == functors # <<>> => pc = "run"

IInv == TypeOK /\ EdgeKept /\ WorkSignalled /\ QuitSignalled /\ LocalVector

-----------------------------------------------------------------------------
(* Sequences. *)

LEMMA HeadTailConcat ==
  ASSUME NEW S, NEW s \in Seq(S), NEW t \in Seq(S), s # <<>>
  PROVE  /\ s \o t # <<>>
         /\ Head(s \o t) = Head(s)
         /\ Tail(s \o t) = Tail(s) \o t
<1> DEFINE u == s \o t
<1>1. /\ u \in Seq(S)
        /\ Len(u) = Len(s) + Len(t)
        /\ \A i \in 1..Len(s) + Len(t) : u[i] = IF i <= Len(s) THEN s[i] ELSE t[i - Len(s)]
    BY ConcatProperties
<1>2. Len(s) \in Nat \ {0} /\ Len(t) \in Nat
    BY EmptySeq, LenProperties
<1>3. u # <<>>
    BY ConcatEqualIffEmpty
<1>4. Head(s) = s[1] /\ Head(u) = u[1]
    BY <1>1, <1>2
<1>5. u[1] = s[1]
    BY <1>1, <1>2
<1>6. /\ Tail(s) \in Seq(S)
        /\ Len(Tail(s)) = Len(s) - 1
        /\ \A i \in 1..Len(Tail(s)) : Tail(s)[i] = s[i + 1]
    BY HeadTailProperties
<1>7. /\ Tail(u) \in Seq(S)
        /\ Len(Tail(u)) = Len(u) - 1
        /\ \A i \in 1..Len(Tail(u)) : Tail(u)[i] = u[i + 1]
    BY <1>1, <1>3, HeadTailProperties
<1>8. /\ Tail(s) \o t \in Seq(S)
        /\ Len(Tail(s) \o t) = Len(s) - 1 + Len(t)
        /\ \A i \in 1..Len(s) - 1 + Len(t) :
              (Tail(s) \o t)[i] = IF i <= Len(s) - 1 THEN Tail(s)[i] ELSE t[i - (Len(s) - 1)]
    BY <1>6, ConcatProperties
<1>9. Tail(u) = Tail(s) \o t
    <2>1. Len(Tail(u)) = Len(Tail(s) \o t)
      BY <1>1, <1>2, <1>7, <1>8
    <2>2. ASSUME NEW i \in 1..Len(Tail(u))
          PROVE  Tail(u)[i] = (Tail(s) \o t)[i]
      <3> HIDE DEF u
      <3>1. i \in 1..Len(s) - 1 + Len(t) /\ i + 1 \in 1..Len(s) + Len(t)
        BY <1>1, <1>2, <1>7
      <3>2. Tail(u)[i] = IF i + 1 <= Len(s) THEN s[i + 1] ELSE t[i + 1 - Len(s)]
        BY <1>1, <1>7, <3>1
      <3>3. CASE i <= Len(s) - 1
        BY <1>2, <1>6, <1>8, <3>1, <3>2, <3>3
      <3>4. CASE ~(i <= Len(s) - 1)
        <4>1. i - (Len(s) - 1) = i + 1 - Len(s)
          BY <1>2, <3>1
        <4> QED BY <1>2, <1>8, <3>1, <3>2, <3>4, <4>1
      <3> QED BY <3>3, <3>4
    <2> QED BY <1>7, <1>8, <2>1, <2>2, SeqEqual
<1> QED BY <1>3, <1>4, <1>5, <1>9

LEMMA AppendToConcat ==
  ASSUME NEW S, NEW s \in Seq(S), NEW t \in Seq(S), NEW e \in S
  PROVE  s \o Append(t, e) = Append(s \o t, e)
<1>1. <<e>> \in Seq(S)
    OBVIOUS
<1>2. s \o t \in Seq(S)
    BY ConcatProperties
<1>3. Append(t, e) = t \o <<e>> /\ Append(s \o t, e) = (s \o t) \o <<e>>
    BY <1>2, AppendIsConcat
<1> QED BY <1>1, <1>3, ConcatAssociative

LEMMA OccursInConcat ==
  ASSUME NEW S, NEW s \in Seq(S), NEW t \in Seq(S), NEW e, Occurs(e, s \o t)
  PROVE  Occurs(e, s) \/ Occurs(e, t)
<1>1. /\ s \o t \in Seq(S)
        /\ Len(s \o t) = Len(s) + Len(t)
        /\ \A i \in 1..Len(s) + Len(t) : (s \o t)[i] = IF i <= Len(s) THEN s[i] ELSE t[i - Len(s)]
    BY ConcatProperties
<1>2. /\ Len(s) \in Nat /\ Len(t) \in Nat
        /\ DOMAIN s = 1..Len(s) /\ DOMAIN t = 1..Len(t)
        /\ DOMAIN (s \o t) = 1..Len(s \o t)
    BY <1>1, LenProperties
<1>3. PICK i \in DOMAIN (s \o t) : (s \o t)[i] = e
    BY DEF Occurs
<1>4. i \in 1..Len(s) + Len(t)
    BY <1>1, <1>2, <1>3
<1>5. CASE i <= Len(s)
    <2>1. i \in DOMAIN s /\ s[i] = e
      BY <1>1, <1>2, <1>3, <1>4, <1>5
    <2> QED BY <2>1 DEF Occurs
<1>6. CASE ~(i <= Len(s))
    <2>1. i - Len(s) \in DOMAIN t
      BY <1>2, <1>4, <1>6
    <2>2. t[i - Len(s)] = e
      BY <1>1, <1>3, <1>4, <1>6
    <2> QED BY <2>1, <2>2 DEF Occurs
<1> QED BY <1>5, <1>6

-----------------------------------------------------------------------------
(* The inductive invariant. *)

LEMMA ZeroCounts == 0 \in 0..MaxCounter
  BY EventLoopAssumption

LEMMA InitInv == Init => IInv
<1> SUFFICES ASSUME Init PROVE IInv
  OBVIOUS
<1>1. TypeOK
  <2>1. <<>> \in Seq(Tasks)
    BY EmptySeq
  <2> QED BY <2>1, ZeroCounts DEF Init, TypeOK, Places
<1> QED BY <1>1 DEF Init, IInv, EdgeKept, WorkSignalled, QuitSignalled, LocalVector

(* A call of wakeup leaves the loop signalled, also when the eventfd is     *)
(* full, unless the handlers are running: then the eventfd is about to be   *)
(* read and the vectors to be swapped.                                      *)
LEMMA WakeupSignals ==
  ASSUME IInv, Wakeup, woken' = woken, pc' = pc
  PROVE  /\ counter' \in 0..MaxCounter /\ listed' \in BOOLEAN
         /\ EdgeKept'
         /\ pc # "events" => listed' /\ counter' > 0
<1>1. CASE counter < MaxCounter
  BY <1>1, EventLoopAssumption DEF IInv, TypeOK, Wakeup, EdgeKept
<1>2. CASE ~(counter < MaxCounter)
  BY <1>2, EventLoopAssumption DEF IInv, TypeOK, Wakeup, EdgeKept
<1> QED BY <1>1, <1>2

LEMMA QueueInv == ASSUME NEW p \in Callers, NEW t \in Tasks, IInv, Queue(p, t) PROVE IInv'
<1>1. TypeOK'
  <2>1. Append(pending, t) \in Seq(Tasks)
    BY AppendProperties DEF IInv, TypeOK
  <2> QED BY <2>1 DEF IInv, TypeOK, Queue
<1>2. Signalled'
  BY DEF IInv, TypeOK, Queue, Signalled
<1> QED BY <1>1, <1>2 DEF IInv, Queue, EdgeKept, WorkSignalled, QuitSignalled, LocalVector

LEMMA QuitInv == ASSUME NEW p \in Callers, IInv, Quit(p) PROVE IInv'
<1>1. TypeOK'
  BY DEF IInv, TypeOK, Quit
<1>2. Signalled'
  BY DEF IInv, TypeOK, Quit, Signalled
<1> QED BY <1>1, <1>2 DEF IInv, Quit, EdgeKept, WorkSignalled, QuitSignalled, LocalVector

LEMMA WakeInv == ASSUME NEW p \in Callers, IInv, Wake(p) PROVE IInv'
<1>1. /\ counter' \in 0..MaxCounter /\ listed' \in BOOLEAN
      /\ EdgeKept'
      /\ pc # "events" => listed' /\ counter' > 0
  BY WakeupSignals DEF Wake
<1>2. TypeOK'
  BY <1>1 DEF IInv, TypeOK, Wake
<1>3. pc # "events" => Signalled'
  BY <1>1 DEF Signalled
<1> QED BY <1>1, <1>2, <1>3 DEF IInv, Wake, WorkSignalled, QuitSignalled, LocalVector

LEMMA StartLoopInv == ASSUME IInv, StartLoop PROVE IInv'
  BY DEF IInv, TypeOK, Places, StartLoop, EdgeKept, WorkSignalled, QuitSignalled, LocalVector, Signalled

LEMMA TestQuitInv == ASSUME IInv, TestQuit PROVE IInv'
  BY DEF IInv, TypeOK, Places, TestQuit, EdgeKept, WorkSignalled, QuitSignalled, LocalVector, Signalled

(* The entry leaves the ready list; if the eventfd can be read, poll()      *)
(* returns it.                                                              *)
LEMMA PollInv == ASSUME IInv, Poll PROVE IInv'
  BY DEF IInv, TypeOK, Places, Poll, TakeEntry, EdgeKept, WorkSignalled, QuitSignalled, LocalVector,
         Signalled

LEMMA OtherEventInv == ASSUME IInv, OtherEvent PROVE IInv'
  BY DEF IInv, TypeOK, Places, OtherEvent, TakeEntry, EdgeKept, WorkSignalled, QuitSignalled,
         LocalVector, Signalled

LEMMA ReadWakeupInv == ASSUME IInv, ReadWakeup PROVE IInv'
<1>1. TypeOK'
  BY ZeroCounts DEF IInv, TypeOK, ReadWakeup, Readn
<1>2. EdgeKept'
  BY DEF ReadWakeup, Readn, EdgeKept
<1> QED BY <1>1, <1>2 DEF IInv, ReadWakeup, Readn, WorkSignalled, QuitSignalled, LocalVector

LEMMA HandlerQueuesInv == ASSUME NEW t \in Tasks, IInv, HandlerQueues(t) PROVE IInv'
<1>1. Append(pending, t) \in Seq(Tasks)
  BY AppendProperties DEF IInv, TypeOK
<1> QED BY <1>1 DEF IInv, TypeOK, HandlerQueues, EdgeKept, WorkSignalled, QuitSignalled, LocalVector

(* The vector that the swap leaves behind is the empty one of the last pass. *)
LEMMA SwapFunctorsInv == ASSUME IInv, SwapFunctors PROVE IInv'
<1>1. pending' = <<>>
  BY DEF IInv, SwapFunctors, LocalVector
<1>2. TypeOK'
  BY DEF IInv, TypeOK, Places, SwapFunctors
<1> QED BY <1>1, <1>2 DEF IInv, SwapFunctors, EdgeKept, WorkSignalled, QuitSignalled, LocalVector

LEMMA FunctorQueuesInv == ASSUME NEW t \in Tasks, IInv, FunctorQueues(t) PROVE IInv'
<1>1. /\ counter' \in 0..MaxCounter /\ listed' \in BOOLEAN
      /\ EdgeKept'
      /\ pc # "events" => listed' /\ counter' > 0
  BY WakeupSignals DEF FunctorQueues
<1>2. Append(pending, t) \in Seq(Tasks)
  BY AppendProperties DEF IInv, TypeOK
<1>3. TypeOK'
  BY <1>1, <1>2 DEF IInv, TypeOK, FunctorQueues
<1>4. Signalled'
  BY <1>1 DEF Signalled, FunctorQueues
<1> QED BY <1>1, <1>3, <1>4 DEF IInv, FunctorQueues, WorkSignalled, QuitSignalled, LocalVector

LEMMA RunFunctorInv == ASSUME IInv, RunFunctor PROVE IInv'
<1>1. /\ functors \in Seq(Tasks) /\ done \in Seq(Tasks) /\ functors # <<>>
  BY DEF IInv, TypeOK, RunFunctor
<1>2. Head(functors) \in Tasks /\ Tail(functors) \in Seq(Tasks)
  BY <1>1, HeadTailProperties
<1>3. Append(done, Head(functors)) \in Seq(Tasks)
  BY <1>1, <1>2, AppendProperties
<1>4. TypeOK'
  BY <1>2, <1>3 DEF IInv, TypeOK, RunFunctor
<1> QED BY <1>4 DEF IInv, RunFunctor, EdgeKept, WorkSignalled, QuitSignalled, LocalVector, Signalled

LEMMA EndPassInv == ASSUME IInv, EndPass PROVE IInv'
  BY DEF IInv, TypeOK, Places, EndPass, EdgeKept, WorkSignalled, QuitSignalled, LocalVector, Signalled

LEMMA StepInv == IInv /\ [Next]_vars => IInv'
<1> SUFFICES ASSUME IInv, [Next]_vars PROVE IInv'
  OBVIOUS
<1>1. CASE LoopStep
  BY <1>1, StartLoopInv, TestQuitInv, PollInv, ReadWakeupInv, SwapFunctorsInv, RunFunctorInv, EndPassInv
     DEF LoopStep
<1>2. CASE OtherEvent
  BY <1>2, OtherEventInv
<1>3. ASSUME NEW t \in Tasks, HandlerQueues(t) \/ FunctorQueues(t) PROVE IInv'
  BY <1>3, HandlerQueuesInv, FunctorQueuesInv
<1>4. ASSUME NEW t \in Tasks, NEW p \in Callers, Queue(p, t) PROVE IInv'
  BY <1>4, QueueInv
<1>5. ASSUME NEW p \in Callers, Quit(p) \/ Wake(p) PROVE IInv'
  BY <1>5, QuitInv, WakeInv
<1>6. CASE UNCHANGED vars
  BY <1>6 DEF vars, IInv, TypeOK, EdgeKept, WorkSignalled, QuitSignalled, LocalVector, Signalled
<1> QED BY <1>1, <1>2, <1>3, <1>4, <1>5, <1>6 DEF Next

LEMMA Invariance == Spec => []IInv
  BY InitInv, StepInv, PTL DEF Spec

(* The state stays within its types: the eventfd never exceeds its limit. *)
THEOREM TypeCorrect == Spec => []TypeOK
<1>1. IInv => TypeOK
  BY DEF IInv
<1> QED BY <1>1, Invariance, PTL

(* However small the eventfd is and however many threads write it, one that *)
(* can be read is on the ready list or is about to be read.                 *)
THEOREM EdgeNeverLost == Spec => []EdgeKept
<1>1. IInv => EdgeKept
  BY DEF IInv
<1> QED BY <1>1, Invariance, PTL

(* The loop never goes to sleep on a task or on a quit it was given. *)
THEOREM NoWakeupLost == Spec => []NoLostWakeup
<1>1. IInv => NoLostWakeup
  BY DEF IInv, WorkSignalled, QuitSignalled, NoLostWakeup
<1> QED BY <1>1, Invariance, PTL

-----------------------------------------------------------------------------
(* The refinement of TaskQueue. *)

(* A task not seen before, queued behind pending, joins the abstract queue. *)
LEMMA QueuedSubmits ==
  ASSUME IInv, NEW t \in Tasks, Fresh(t), pending' = Append(pending, t),
         UNCHANGED <<functors, done>>
  PROVE  Fifo!Submit(t)
<1>1. functors \in Seq(Tasks) /\ pending \in Seq(Tasks)
  BY DEF IInv, TypeOK
<1>2. ~Fifo!Known(t)
  <2>1. ~Occurs(t, functors \o pending) /\ ~Occurs(t, done)
    BY <1>1, OccursInConcat DEF Fresh
  <2> QED BY <2>1 DEF Occurs, Fifo!Known
<1>3. functors' \o pending' = Append(functors \o pending, t)
  BY <1>1, AppendToConcat
<1> QED BY <1>2, <1>3 DEF Fifo!Submit

LEMMA RunFunctorExecutes == ASSUME IInv, RunFunctor PROVE Fifo!Execute
<1>1. functors \in Seq(Tasks) /\ pending \in Seq(Tasks) /\ functors # <<>>
  BY DEF IInv, TypeOK, RunFunctor
<1>2. /\ functors \o pending # <<>>
      /\ Head(functors \o pending) = Head(functors)
      /\ Tail(functors \o pending) = Tail(functors) \o pending
  BY <1>1, HeadTailConcat
<1> QED BY <1>2 DEF RunFunctor, Fifo!Execute

(* The swap moves tasks from one vector to the other, and none in the queue. *)
LEMMA SwapFunctorsStutters ==
  ASSUME IInv, SwapFunctors
  PROVE  functors' \o pending' = functors \o pending /\ done' = done
<1>1. functors = <<>> /\ pending \in Seq(Tasks)
  BY DEF IInv, TypeOK, LocalVector, SwapFunctors
<1>2. functors' = pending /\ pending' = <<>>
  BY <1>1 DEF SwapFunctors
<1>3. <<>> \o pending = pending /\ pending \o <<>> = pending
  BY <1>1, ConcatEmptySeq
<1> QED BY <1>1, <1>2, <1>3 DEF SwapFunctors

LEMMA StepRefines == IInv /\ [Next]_vars => [Fifo!Next]_<<functors \o pending, done>>
<1> SUFFICES ASSUME IInv, [Next]_vars
             PROVE  Fifo!Next \/ (functors' \o pending' = functors \o pending /\ done' = done)
  OBVIOUS
<1>1. ASSUME NEW t \in Tasks,
             HandlerQueues(t) \/ FunctorQueues(t) \/ \E p \in Callers : Queue(p, t)
      PROVE  Fifo!Next
  <2>1. Fresh(t) /\ pending' = Append(pending, t) /\ UNCHANGED <<functors, done>>
    BY <1>1 DEF HandlerQueues, FunctorQueues, Queue
  <2> QED BY <2>1, QueuedSubmits DEF Fifo!Next
<1>2. CASE RunFunctor
  BY <1>2, RunFunctorExecutes DEF Fifo!Next
<1>3. CASE SwapFunctors
  BY <1>3, SwapFunctorsStutters
<1>4. CASE StartLoop \/ TestQuit \/ Poll \/ ReadWakeup \/ EndPass \/ OtherEvent
  BY <1>4 DEF StartLoop, TestQuit, Poll, ReadWakeup, Readn, EndPass, OtherEvent
<1>5. ASSUME NEW p \in Callers, Quit(p) \/ Wake(p)
      PROVE  functors' \o pending' = functors \o pending /\ done' = done
  BY <1>5 DEF Quit, Wake
<1>6. CASE UNCHANGED vars
  BY <1>6 DEF vars
<1> QED BY <1>1, <1>2, <1>3, <1>4, <1>5, <1>6 DEF Next, LoopStep

(* The two vectors, the mutex and the swap are a FIFO queue: a task that a  *)
(* thread queues is executed at most once and in the order of the queueing, however *)
(* the threads, the handlers and the tasks themselves interleave.            *)
THEOREM ImplementsFifo == Spec => FifoSpec
<1>1. Init => Fifo!Init
  <2>1. <<>> \o <<>> = <<>>
    BY EmptySeq, ConcatEmptySeq
  <2> QED BY <2>1 DEF Init, Fifo!Init
<1>2. IInv /\ [Next]_vars => [Fifo!Next]_<<functors \o pending, done>>
  BY StepRefines
<1> QED BY <1>1, <1>2, Invariance, PTL DEF Spec, FifoSpec, Fifo!Spec
==============================================================================
