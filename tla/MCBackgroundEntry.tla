-------------------------- MODULE MCBackgroundEntry --------------------------
(* Values of the constants of BackgroundEntry for TLC.                     *)
EXTENDS BackgroundEntry, TLC

CONSTANTS p1, p2

\* Every market resolves at the target date: no multiplier.
FlatSize == [p \in Pair |-> 100]
\* p1 resolves soon (the cap of 2.0), any other pair late (0.5).
ScaledSize == [p \in Pair |-> IF p = p1 THEN 200 ELSE 50]

TaskSymmetry == Permutations(Task)
Symmetry == Permutations(Task) \cup Permutations(Pair)
=============================================================================
