------------------------------- MODULE Sizing -------------------------------
(***************************************************************************)
(* From the asks of a bundle to the number of bundles to buy: the batch    *)
(* classification on best asks, the full observation, and the sizes that   *)
(* the depth optimizers of pairs and of N-leg specs choose.                *)
(*                                                                         *)
(* Prices are ticks, One of them a dollar; sizes are counted in the        *)
(* smallest fraction of a share that is told apart, and money in ticks for *)
(* that fraction.  A size computed by a division is rounded down.  The ask *)
(* side of a book is a function from its prices to their sizes; a level    *)
(* put there by a best_bid_ask event has size zero.  Rational quantities   *)
(* are compared by cross multiplication.                                   *)
(***************************************************************************)
EXTENDS Integers, FiniteSets, Capital

CONSTANTS
  One,             \* ticks in a dollar
  Level, MaxSize,  \* bound: the prices of levels and the largest size of one
  Leg,             \* legs of the N-leg spec; the first two make the pair
  Payout,          \* guaranteed_payout of the N-leg spec, in ticks
  FeeScale,        \* the fee rate of a leg is 1 / FeeScale
  Slippage,        \* slippage and fee buffer, in ticks
  EntryThreshold, NearThreshold, MinEdge,  \* in ticks
  MinTrade,        \* min_trade_size, in ticks
  Limit,           \* bound: the capital limits tried
  Grid             \* sizes of the candidate grid: 50 in the code

\* A price is at most a dollar, and the fee rate at most one.
ASSUME SizingAssumption ==
  /\ {1, 2} \subseteq Leg /\ IsFiniteSet(Leg)
  /\ Level \subseteq 1 .. One
  /\ {One, FeeScale, Grid} \subseteq Nat \ {0}
  /\ {MaxSize, Payout, Slippage, EntryThreshold, NearThreshold, MinEdge, MinTrade} \subseteq Nat
  /\ Limit \subseteq Nat

VARIABLES
  asks,     \* the asks of each leg
  limit,    \* the capital limit
  spread,   \* what the spread check finds
  pairOpen, \* whether the pair is open
  class,    \* the class of the pair's cached observation
  size,     \* the size found for the pair
  nsize     \* the size found for the N-leg spec

sizingVars == <<asks, limit, spread, pairOpen, class, size, nsize>>

AskSides == UNION {[L -> 0 .. MaxSize] : L \in SUBSET Level}
PairLegs == {1, 2}
NoSize == 0

SizingInit ==
  /\ asks \in [Leg -> AskSides] /\ limit \in Limit
  /\ spread = "unseen" /\ pairOpen = FALSE
  /\ class = "none" /\ size = NoSize /\ nsize = NoSize

-----------------------------------------------------------------------------
(* Filling a size from a book.                                             *)

Depth(b) == SumOver(DOMAIN b, b)
Below(b, p) == SumOver({q \in DOMAIN b : q < p}, b)
Cumulative(b) == {Below(b, p) + b[p] : p \in DOMAIN b}
BestAsk(b) == Least(DOMAIN b)

\* _float_avg: the levels in turn, each as far as it goes.
Walk(b, n) ==
  LET took(p) == IF n <= Below(b, p) THEN 0 ELSE Least({b[p], n - Below(b, p)}) IN
  SumOver(DOMAIN b, [p \in DOMAIN b |-> took(p) * p])
Fillable(b, n) == n <= Depth(b)

\* Mutant: the search passes a level the target fills exactly.
SearchedRight(b, n) ==
  LET reached == {p \in DOMAIN b : Below(b, p) + b[p] > n} IN
  IF reached = {} THEN -1
  ELSE LET p == Least(reached) IN
       SumOver({q \in DOMAIN b : q < p}, [q \in DOMAIN b |-> b[q] * q]) + (n - Below(b, p)) * p

\* _batch_vwap: the level at which the cumulative size reaches the target.
Searched(b, n) ==
  LET reached == {p \in DOMAIN b : Below(b, p) + b[p] >= n} IN
  IF reached = {} THEN -1
  ELSE LET p == Least(reached) IN
       SumOver({q \in DOMAIN b : q < p}, [q \in DOMAIN b |-> b[q] * q]) + (n - Below(b, p)) * p

\* The cost of n pairs whose legs cost c and d: net is Net / Scale ticks a pair.
Scale(n) == FeeScale * n * n * One
FeeOn(c, n) == c * (n * One - c)
Net(c, d, n) == FeeScale * n * One * (c + d) + FeeOn(c, n) + FeeOn(d, n) + Slippage * Scale(n)

-----------------------------------------------------------------------------
(* Classification on the best asks.                                        *)

Quoted == \A l \in PairLegs : DOMAIN asks[l] # {}
TopNet == Net(BestAsk(asks[1]), BestAsk(asks[2]), 1)

\* Mutant: the looser threshold is compared first.
BatchNearFirst ==
  IF TopNet <= NearThreshold * Scale(1) THEN "near"
  ELSE IF TopNet < EntryThreshold * Scale(1) THEN "executable" ELSE "rejected"

\* scan_classify_batch
Batch ==
  IF TopNet < EntryThreshold * Scale(1) /\ (One - MinEdge) * Scale(1) >= TopNet THEN "executable"
  ELSE IF TopNet <= NearThreshold * Scale(1) THEN "near" ELSE "rejected"

\* _observe_pair, whose early rejection compares the asks alone.
ObservePair(isOpen, wide) ==
  IF BestAsk(asks[1]) + BestAsk(asks[2]) > NearThreshold /\ ~isOpen THEN "rejected"
  ELSE IF Least({Depth(asks[1]), Depth(asks[2])}) <= 0 THEN "rejected"
  ELSE IF wide THEN "rejected" ELSE Batch

\* _fast_observe_all: what the batch rejects is not looked at again.
ClassifyPair ==
  /\ class = "none"
  /\ pairOpen' \in BOOLEAN /\ spread' \in {"fine", "wide"}
  /\ class' = IF ~Quoted THEN "missing"
              ELSE IF Batch = "rejected" /\ ~pairOpen' THEN "rejected" ELSE ObservePair(pairOpen', spread' = "wide")
  /\ UNCHANGED <<asks, limit, size, nsize>>

-----------------------------------------------------------------------------
(* The size of a pair entry.                                               *)

\* The filters of the optimizers, for legs that cost c and d.
Passes(c, d, n) ==
  LET net == Net(c, d, n) IN
  /\ n * net >= MinTrade * Scale(n)
  /\ n * net <= limit * Scale(n)
  /\ net < EntryThreshold * Scale(n)
  /\ (One - MinEdge) * Scale(n) >= net
  /\ net < One * Scale(n)

\* size * (1 - net) is more for m than for n.
MoreProfit(m, n, cost(_, _)) ==
  LET gain(k) == k * (One * Scale(k) - Net(cost(asks[1], k), cost(asks[2], k), k)) IN
  gain(m) * Scale(n) > gain(n) * Scale(m)

\* The capital limit in shares at the best asks.
CapSize == (limit * Scale(1)) \div TopNet

PairDepth == Least({Depth(asks[1]), Depth(asks[2])})

\* The grid reaches a quarter beyond the cap, or what min_trade_size would be in
\* shares at a dollar.
Upper ==
  LET room == (CapSize * 5) \div 4
      least == MinTrade \div One IN
  Least({PairDepth, IF room > least THEN room ELSE least})

\* Mutant: the grid leaves out its last point.
GridSizesShort(upper) == {(upper * i) \div Grid : i \in 1 .. Grid - 1}

GridSizes(upper) == {(upper * i) \div Grid : i \in 1 .. Grid}

\* The depths of both books, the cap, and the grid.
Candidates ==
  (((UNION {Cumulative(asks[l]) : l \in PairLegs}) \cap (1 .. PairDepth))
     \cup {Least({PairDepth, CapSize})} \cup GridSizes(Upper)) \ {0}

\* Of the sizes that pass, the most profitable, and of equals the smallest.
Best(S, cost(_, _)) ==
  IF S = {} THEN NoSize
  ELSE CHOOSE n \in S : \A m \in S : ~MoreProfit(m, n, cost) /\ (m < n => MoreProfit(n, m, cost))

\* _find_best_size_python; the compiled loop is the same.
BestSize ==
  Best({n \in Candidates : /\ \A l \in PairLegs : Fillable(asks[l], n)
                           /\ Passes(Walk(asks[1], n), Walk(asks[2], n), n)}, Walk)

\* _find_best_size_numpy
BestSizeNumpy ==
  Best({n \in Candidates : /\ \A l \in PairLegs : Searched(asks[l], n) >= 0
                           /\ Passes(Searched(asks[1], n), Searched(asks[2], n), n)}, Searched)

\* _find_best_size on behalf of _try_enter, for an executable candidate.
Enter ==
  /\ class = "executable" /\ size = NoSize
  /\ size' = BestSize /\ size' # NoSize
  /\ UNCHANGED <<asks, limit, spread, pairOpen, class, nsize>>

-----------------------------------------------------------------------------
(* The size of an N-leg entry.                                             *)

Cost(n) == SumOver(Leg, [l \in Leg |-> Walk(asks[l], n)])
LegDepth == Least({Depth(asks[l]) : l \in Leg})
TopCost == SumOver(Leg, [l \in Leg |-> BestAsk(asks[l])])

NLegUpper ==
  LET room == ((limit \div TopCost) * 5) \div 4
      least == MinTrade \div TopCost IN
  Least({LegDepth, IF room > least THEN room ELSE least})

NLegCandidates ==
  ((UNION {Cumulative(asks[l]) : l \in Leg}) \cup GridSizes(NLegUpper)) \cap (1 .. LegDepth)

NLegPasses(n) == Cost(n) <= limit /\ Cost(n) >= MinTrade /\ Cost(n) < n * Payout

Profit(n) == n * Payout - Cost(n)
MoreROI(m, n) == Profit(m) * Cost(n) > Profit(n) * Cost(m)

\* Mutant: the last of the candidates that pass is kept.
BestNLegSizeLast ==
  LET S == {n \in NLegCandidates : NLegPasses(n)} IN
  IF S = {} THEN NoSize ELSE CHOOSE n \in S : \A m \in S : m <= n

\* _find_best_n_leg_size: the best return, then the larger profit.
BestNLegSize ==
  LET S == {n \in NLegCandidates : NLegPasses(n)}
      Beats(m, n) == MoreROI(m, n) \/ (~MoreROI(n, m) /\ Profit(m) > Profit(n)) IN
  IF S = {} THEN NoSize
  ELSE CHOOSE n \in S : \A m \in S : ~Beats(m, n) /\ (m < n => Beats(n, m))

\* _find_n_leg_max_spend_size
MaxSpendSize ==
  LET S == {n \in NLegCandidates : NLegPasses(n)} IN
  IF S = {} THEN NoSize
  ELSE CHOOSE n \in S : \A m \in S : Cost(m) <= Cost(n)

\* _best_n_leg_vectorized: an edge at the best asks, and depth.
Candidate ==
  /\ \A l \in Leg : DOMAIN asks[l] # {}
  /\ LegDepth * Payout >= MinTrade
  /\ TopCost < Payout

EnterNLeg ==
  /\ nsize = NoSize /\ Candidate
  /\ nsize' \in {BestNLegSize, MaxSpendSize} /\ nsize' # NoSize
  /\ UNCHANGED <<asks, limit, spread, pairOpen, class, size>>

SizingNext == ClassifyPair \/ Enter \/ EnterNLeg

SizingSpec == SizingInit /\ [][SizingNext]_sizingVars

-----------------------------------------------------------------------------
(* Properties.                                                             *)

Enterable(n) ==
  /\ \A l \in PairLegs : Fillable(asks[l], n)
  /\ Passes(Walk(asks[1], n), Walk(asks[2], n), n)

(***************************************************************************)
(* Scoring pairs by their best asks loses nothing: a pair of which some    *)
(* number of shares can be entered for less than the threshold is          *)
(* executable to the batch and to the full observation, unless its spread  *)
(* is too wide, whatever levels without size the feed put at the top       *)
(* (_fast_observe_all, _observe_pair).                                     *)
(***************************************************************************)
FilterLosesNothing ==
  class \notin {"none", "executable"} /\ spread = "fine" =>
    \A n \in 1 .. PairDepth : ~Enterable(n)

Found == IF size = NoSize THEN BestSize ELSE size

\* The vectorised optimizer and the loop choose the same size for a pair.
OptimizersAgree == class = "executable" => Found = BestSizeNumpy

\* The sizes from n on, as many as a step of a grid up to upper has.
Stretch(n, upper) == {n} \cup (n .. (n + (upper - 1) \div Grid))

PairSizeNearBest ==
  class = "executable" =>
    \A n \in 1 .. PairDepth :
      (\A m \in Stretch(n, Upper) : Enterable(m)) =>
        /\ Found # NoSize
        /\ \E m \in Stretch(n, Upper) : ~MoreProfit(m, Found, Walk)

NLegSizeNearBest ==
  Candidate =>
    \A n \in 1 .. LegDepth :
      (\A m \in Stretch(n, NLegUpper) : m <= LegDepth /\ NLegPasses(m)) =>
        /\ BestNLegSize # NoSize /\ MaxSpendSize # NoSize
        /\ \E m \in Stretch(n, NLegUpper) : ~MoreROI(m, BestNLegSize)
        /\ \E m \in Stretch(n, NLegUpper) : Cost(m) <= Cost(MaxSpendSize)

(***************************************************************************)
(* The candidates miss at most what lies within a step of the grid: sizes  *)
(* that can be entered all the way over a step are not overlooked, and not *)
(* all of them are more profitable than the size chosen for a pair, return *)
(* more on their cost than the optimized size of an N-leg spec, or cost    *)
(* more than its max-spend size.  (A single size between two points of the *)
(* grid may be better, and may be the only one.)  And the vectorised       *)
(* optimizer chooses the same size for a pair as the loop.                 *)
(* (_find_best_size, _find_best_n_leg_size, _find_n_leg_max_spend_size)    *)
(***************************************************************************)
SizesNearBest == OptimizersAgree /\ PairSizeNearBest /\ NLegSizeNearBest
=============================================================================
