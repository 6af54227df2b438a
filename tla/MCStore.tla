------------------------------ MODULE MCStore ------------------------------
(* Instances of Store for TLC. *)
EXTENDS Store, TLC

Symmetry == Permutations(Process) \cup Permutations(Key)
=============================================================================
