----------------------------- MODULE TaskQueue ------------------------------
(***************************************************************************)
(* What EventLoop::queueInLoop promises: the tasks handed to a loop are    *)
(* executed at most once each, in the order in which they were queued,     *)
(* whichever thread queued them.                                           *)
(***************************************************************************)
EXTENDS Sequences

CONSTANT Tasks

VARIABLES queue,   (* tasks queued and not yet executed, oldest first *)
          done     (* tasks executed, in order                        *)

Init == queue = <<>> /\ done = <<>>

Known(t) == \/ \E i \in DOMAIN queue : queue[i] = t
            \/ \E i \in DOMAIN done : done[i] = t

Submit(t) == ~Known(t) /\ queue' = Append(queue, t) /\ UNCHANGED done

Execute == /\ queue # <<>>
           /\ done' = Append(done, Head(queue))
           /\ queue' = Tail(queue)

Next == Execute \/ \E t \in Tasks : Submit(t)

Spec == Init /\ [][Next]_<<queue, done>>
=============================================================================
