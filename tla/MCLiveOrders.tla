---------------------------- MODULE MCLiveOrders -----------------------------
(* Values of the constants of LiveOrders for TLC.                          *)
EXTENDS LiveOrders, TLC

CONSTANTS x, y

\* A size of 10.4 shares is signed ahead as 10, one of 9.6 as 10 as well; a
\* price of 0.404 is signed ahead as 0.40.
Legs == {[token |-> x, size |-> 104, price |-> 404, cap |-> 1],
         [token |-> y, size |-> 104, price |-> 500, cap |-> 2],
         [token |-> x, size |-> 96, price |-> 400, cap |-> 1]}
Bundles == {B \in SUBSET Legs : B # {} /\ \A l, m \in B : l.size = m.size}

NextTicks == {0, 1}

ThreadSymmetry == Permutations(Thread)
=============================================================================
