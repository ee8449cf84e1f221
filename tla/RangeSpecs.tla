------------------------------ MODULE RangeSpecs ------------------------------
(***************************************************************************)
(* The N-leg specs that a watchlist gives rise to: markets on the price    *)
(* being above a threshold, and markets on its being within a range, all   *)
(* of one pair of events.  A spec buys "above the low end", NO on "above   *)
(* the high end", and NO on each range of a chain between them             *)
(* (_derive_range_threshold_n_leg_specs).  A label is the number in it.    *)
(***************************************************************************)
EXTENDS Naturals, FiniteSets, Sequences

CONSTANTS
  Bound,     \* the numbers that labels name, greater than zero
  MaxRanges  \* n_leg_max_ranges

VARIABLES
  yes, no,  \* threshold_yes, threshold_no: thresholds whose token is known
  ranges,   \* the bounds of the ranges whose NO token is known
  specs     \* n_leg_specs of the plan

vars == <<yes, no, ranges, specs>>

RangeMarket == {r \in Bound \X Bound : r[1] < r[2]}

Init == yes = {} /\ no = {} /\ ranges = {} /\ specs = {}

-----------------------------------------------------------------------------
Before(r, s) == r[1] < s[1] \/ (r[1] = s[1] /\ r[2] < s[2])

\* Mutant: the next range may begin before the last one ends.
WindowsNested(R) ==
  {W \in SUBSET R : /\ W # {} /\ Cardinality(W) <= MaxRanges
                    /\ \A r, s \in W : \A q \in R : Before(r, q) /\ Before(q, s) => q \in W}

\* Runs of ranges in their order, each of which begins where the one before ends.
Windows(R) ==
  {W \in SUBSET R :
     /\ W # {} /\ Cardinality(W) <= MaxRanges
     /\ \A r, s \in W : Before(r, s) =>
          LET between == {q \in R : Before(r, q) /\ Before(q, s)} IN
          between \subseteq W /\ (between = {} => r[2] = s[1])}

Low(W) == CHOOSE n \in Bound : \E r \in W : r[1] = n /\ \A q \in W : n <= q[1]
High(W) == CHOOSE n \in Bound : \E r \in W : r[2] = n /\ \A q \in W : n >= q[2]

Bundle(W) ==
  [legs |-> {<<"above", Low(W), "YES">>, <<"above", High(W), "NO">>}
              \cup {<<"within", r, "NO">> : r \in W},
   payout |-> Cardinality(W) + 1]

Derive(R, Y, N) == {Bundle(W) : W \in {V \in Windows(R) : Low(V) \in Y /\ High(V) \in N}}

(***************************************************************************)
(* A pair of the watchlist is met: a threshold of which one or both tokens *)
(* are known, and a range whose NO token is known.  The specs are derived  *)
(* from all the pairs of the list.                                         *)
(***************************************************************************)
Collect(above, known, within) ==
  /\ yes' = IF "YES" \in known THEN yes \cup {above} ELSE yes
  /\ no' = IF "NO" \in known THEN no \cup {above} ELSE no
  /\ ranges' = ranges \cup {within}
  /\ specs' = Derive(ranges', yes', no')

Next ==
  \E above \in Bound, known \in SUBSET {"YES", "NO"}, within \in RangeMarket :
    Collect(above, known, within)

Spec == Init /\ [][Next]_vars

-----------------------------------------------------------------------------
(* What the markets pay (external): the price settles somewhere.  A price  *)
(* is the largest bound it has reached; a range contains its lower end.    *)

Settlement == {0} \cup Bound

Wins(leg, price) ==
  LET holds == IF leg[1] = "above" THEN price >= leg[2]
               ELSE price >= leg[2][1] /\ price < leg[2][2] IN
  holds = (leg[3] = "YES")

Disjoint == \A r, s \in ranges : r = s \/ r[2] <= s[1] \/ s[2] <= r[1]

(***************************************************************************)
(* A spec pays its guaranteed payout wherever the price settles, also when *)
(* the ranges of the watchlist overlap or leave gaps; and when they do not *)
(* overlap, every chain of at most MaxRanges ranges between two thresholds *)
(* is found (_derive_range_threshold_n_leg_specs).                         *)
(***************************************************************************)
SpecsPay ==
  /\ \A s \in specs, price \in Settlement :
       Cardinality({l \in s.legs : Wins(l, price)}) >= s.payout
  /\ Disjoint =>
       \A chain \in UNION {[1 .. n -> ranges] : n \in 1 .. MaxRanges} :
         /\ \A k \in 2 .. Len(chain) : chain[k][1] = chain[k - 1][2]
         /\ chain[1][1] \in yes /\ chain[Len(chain)][2] \in no
         => Bundle({chain[k] : k \in DOMAIN chain}) \in specs
=============================================================================
