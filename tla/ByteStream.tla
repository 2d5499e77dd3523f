----------------------------- MODULE ByteStream -----------------------------
(***************************************************************************)
(* What the directions of the connections promise: the bytes pushed at one *)
(* end of a stream come out at the other in that order, each at most once, *)
(* and none is skipped.  The bytes of a stream are 1, 2, 3 ...             *)
(*                                                                         *)
(* A producer may put new bytes in place of what is still queued           *)
(* (Overwrite).  End breaks a stream off, if need be with a notice that is *)
(* not part of it.  Reopen is the next connection.                         *)
(***************************************************************************)
EXTENDS Naturals, Sequences

CONSTANT Streams

VARIABLES pushed,  (* [Streams -> number of bytes made so far] *)
          queue,   (* [Streams -> the bytes under way]         *)
          out,     (* [Streams -> the bytes delivered]         *)
          ended    (* [Streams -> whether it was broken off]   *)

Fresh(s) == pushed[s] = 0 /\ queue[s] = <<>> /\ out[s] = <<>> /\ ~ended[s]

Init == \A s \in Streams : Fresh(s)

New(s) == [i \in 1 .. pushed'[s] - pushed[s] |-> pushed[s] + i]

Push(s) == /\ pushed'[s] > pushed[s] /\ queue'[s] = queue[s] \o New(s)
           /\ out'[s] = out[s] /\ ended'[s] = ended[s]

Overwrite(s) == /\ pushed'[s] > pushed[s] /\ queue'[s] = New(s)
                /\ out'[s] = out[s] /\ ended'[s] = ended[s]

Pull(s) == /\ ~ended[s]
           /\ \E n \in 1 .. Len(queue[s]) :
                /\ queue'[s] = SubSeq(queue[s], n + 1, Len(queue[s]))
                /\ out'[s] = out[s] \o SubSeq(queue[s], 1, n)
           /\ pushed'[s] = pushed[s] /\ ended'[s] = ended[s]

Notice == 0

End(s) == /\ ~ended[s] /\ ended'[s] /\ queue'[s] = <<>>
          /\ out'[s] \in {out[s], Append(out[s], Notice)}
          /\ pushed'[s] = pushed[s]

Reopen(s) == Fresh(s)'

Rest(s) == /\ pushed'[s] = pushed[s] /\ queue'[s] = queue[s]
           /\ out'[s] = out[s] /\ ended'[s] = ended[s]

Step(s) == Push(s) \/ Overwrite(s) \/ Pull(s) \/ End(s) \/ Reopen(s)

(* Streams go on independently of one another. *)
Next == \A s \in Streams : Step(s) \/ Rest(s)

Spec == Init /\ [][Next]_<<pushed, queue, out, ended>>
=============================================================================
