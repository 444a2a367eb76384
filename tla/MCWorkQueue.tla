---------------------------- MODULE MCWorkQueue ----------------------------
(* Instances of WorkQueue for TLC.                                         *)
EXTENDS WorkQueue, TLC

Symmetry == Permutations(Drivers) \cup Permutations(Works)
            \cup Permutations(Helpers)
=============================================================================
