--------------------------- MODULE MCKalshiOrders ----------------------------
(* Values of the constants of KalshiOrders for TLC.                        *)
EXTENDS KalshiOrders

CONSTANTS b1, b2, b3

TwoOneOne == [b \in Bundle |-> IF b = b1 THEN {1, 2} ELSE {1}]
=============================================================================
