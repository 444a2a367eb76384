------------------------------- MODULE MCRcu -------------------------------
(* Instances of Rcu for TLC.                                               *)
EXTENDS Rcu, TLC

Symmetry == Permutations(Readers) \cup Permutations(Callers)
            \cup Permutations(Timers) \cup Permutations(Heads)
=============================================================================
