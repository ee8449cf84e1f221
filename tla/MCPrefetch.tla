----------------------------- MODULE MCPrefetch ------------------------------
(* Values of the constants of Prefetch for TLC.                            *)
EXTENDS Prefetch

CONSTANTS a, b, c, d, p1, p2, n1, n2

\* Two pairs with a token in common, two specs with two.
MixedLegs == [n \in Name |-> CASE n = p1 -> {a, b} [] n = p2 -> {b, c}
                               [] n = n1 -> {a, b, c} [] n = n2 -> {b, c, d}]
=============================================================================
