------------------------------ MODULE MCRunLock ------------------------------
(* Values of the constants of RunLock for TLC.                             *)
EXTENDS RunLock, TLC

Symmetry == Permutations(Proc) \cup Permutations(Pid)
=============================================================================
