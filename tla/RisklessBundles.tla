--------------------------- MODULE RisklessBundles ---------------------------
(***************************************************************************)
(* The bundles that the program believes riskless: what the World Cup      *)
(* engine buys, and the N-leg specs that the simulator derives from a      *)
(* watchlist.  The two share nothing but the belief.                       *)
(***************************************************************************)
EXTENDS WorldCup

CONSTANTS Bound,     \* the numbers that labels of ranges and thresholds name
          MaxRanges  \* n_leg_max_ranges

BoundAssumption == Bound \subseteq Nat \ {0} /\ MaxRanges \in Nat
ASSUME BoundAssumption

VARIABLES yes, no, ranges, specs

Chains == INSTANCE RangeSpecs

chainVars == <<yes, no, ranges, specs>>

\* A spec pays its guaranteed payout wherever the price settles, and every chain
\* of ranges between two thresholds is found (SpecsPay of RangeSpecs).
SpecsPay == Chains!SpecsPay
=============================================================================
