----------------------------- MODULE MCReactor ------------------------------
(* Symmetry for the safety runs of Reactor. *)
EXTENDS Reactor, TLC

Symmetry == Permutations(Https) \cup Permutations(Fds) \cup Permutations(Loops)
=============================================================================
