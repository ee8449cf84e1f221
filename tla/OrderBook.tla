------------------------------ MODULE OrderBook ------------------------------
(***************************************************************************)
(* The order book of polymarket/models.py: two sorted maps from price to   *)
(* size and four scalars, the best price and the depth of each side, that  *)
(* every mutation maintains without summing the side again.  Prices are    *)
(* ticks and sizes whole shares.                                           *)
(***************************************************************************)
EXTENDS Integers, FiniteSets, Capital

CONSTANTS
  Ticks,     \* prices are 1 .. Ticks
  MaxSize,   \* bound: the largest size of a level
  MaxDoubled \* bound: what the overwritten entries of a list add up to

ASSUME TicksNat == Ticks \in Nat

VARIABLES
  levels,  \* the keys of _bids_sd and _asks_sd
  size,    \* their values; 0 outside levels
  best,    \* _best_bid and _best_ask
  depth,   \* _bid_depth and _ask_depth
  doubled  \* history: what overwritten entries of the last list have added to the depth

vars == <<levels, size, best, depth, doubled>>

Price == 1 .. Ticks
Side == {"bid", "ask"}
NoPrice == 0

\* A side is walked from its best price: down the bids, up the asks.
Better(side, p, q) == IF side = "bid" THEN p > q ELSE p < q

\* The price a sorted map has first, or none.
Top(side, L) ==
  IF L = {} THEN NoPrice ELSE CHOOSE p \in L : \A q \in L : ~Better(side, q, p)

Init ==
  /\ levels = [s \in Side |-> {}]
  /\ size = [s \in Side |-> [p \in Price |-> 0]]
  /\ best = [s \in Side |-> NoPrice]
  /\ depth = [s \in Side |-> 0]
  /\ doubled = [s \in Side |-> 0]

\* One side is rewritten, its scalars with it; the other is left alone.
Write(side, L, f, b, d) ==
  /\ levels' = [levels EXCEPT ![side] = L]
  /\ size' = [size EXCEPT ![side] = f]
  /\ best' = [best EXCEPT ![side] = b]
  /\ depth' = [depth EXCEPT ![side] = d]

(***************************************************************************)
(* The constructors and the setters: the levels of a REST answer, of a     *)
(* WebSocket book or of the snapshot file.  They take a list; every entry  *)
(* adds to the depth, and the map keeps the last entry of a price.  So a   *)
(* list is its prices, their last entries f and what the others add up to. *)
(***************************************************************************)
Load(side, L, f, others) ==
  LET g == [p \in Price |-> IF p \in L THEN f[p] ELSE 0] IN
  /\ Write(side, L, g, Top(side, L), SumOver(L, g) + others)
  /\ doubled' = [doubled EXCEPT ![side] = others]

\* apply_bid_delta, apply_ask_delta with a positive size.
Put(side, p, n) ==
  LET b == best[side] IN
  /\ n > 0 /\ n # size[side][p]
  /\ Write(side, levels[side] \cup {p}, [size[side] EXCEPT ![p] = n],
           IF b = NoPrice \/ Better(side, p, b) THEN p ELSE b,
           depth[side] + n - size[side][p])
  /\ UNCHANGED doubled

\* ... and with size zero.
Take(side, p) ==
  LET L == levels[side] \ {p} IN
  /\ p \in levels[side]
  /\ Write(side, L, [size[side] EXCEPT ![p] = 0],
           IF p = best[side] THEN Top(side, L) ELSE best[side],
           depth[side] - size[side][p])
  /\ UNCHANGED doubled

\* Mutant: the levels a new best price prunes stay in the depth.
ReplaceBestKeepsDepth(side, p, n) ==
  LET pruned == {q \in levels[side] : Better(side, q, p)} IN
  /\ Write(side, (levels[side] \ pruned) \cup {p},
           [q \in Price |-> IF q \in pruned THEN 0 ELSE IF q = p THEN n ELSE size[side][q]],
           p, depth[side] + n - size[side][p])
  /\ UNCHANGED doubled

\* replace_best_bid, replace_best_ask: the levels better than the new best
\* price are popped, and the new one gets the size n.
ReplaceBest(side, p, n) ==
  LET pruned == {q \in levels[side] : Better(side, q, p)} IN
  /\ Write(side, (levels[side] \ pruned) \cup {p},
           [q \in Price |-> IF q \in pruned THEN 0 ELSE IF q = p THEN n ELSE size[side][q]],
           p, (depth[side] - SumOver(pruned, size[side])) + n - size[side][p])
  /\ UNCHANGED doubled

\* An event without a size keeps what the level has: nothing for a new one.
NewBest(side, p) == ReplaceBest(side, p, size[side][p])

Next ==
  \E side \in Side :
    \/ \E L \in SUBSET Price : \E f \in [L -> 0 .. MaxSize], others \in 0 .. MaxDoubled :
         (L = {} => others = 0) /\ Load(side, L, f, others)
    \/ \E p \in Price :
         \/ \E n \in 0 .. MaxSize : Put(side, p, n) \/ ReplaceBest(side, p, n)
         \/ Take(side, p)
         \/ NewBest(side, p)

Spec == Init /\ [][Next]_vars

-----------------------------------------------------------------------------
TypeOK ==
  /\ levels \in [Side -> SUBSET Price]
  /\ size \in [Side -> [Price -> Nat]]
  /\ best \in [Side -> Price \cup {NoPrice}]
  /\ depth \in [Side -> Int]
  /\ doubled \in [Side -> Nat]

(***************************************************************************)
(* Whatever deltas, replacements and reloads a book has been through, its  *)
(* cached scalars are what walking it would give: the best price is that   *)
(* of its first level and the depth the sum of its sizes, but for entries  *)
(* that the last list of the side had overwritten: they stay in the depth  *)
(* until the next list.  The filters of the scan and the early exits of    *)
(* avg_*_price_for_size read the scalars only.                             *)
(***************************************************************************)
ScalarsAgree ==
  \A s \in Side :
    /\ best[s] = Top(s, levels[s])
    /\ depth[s] = SumOver(levels[s], size[s]) + doubled[s]
=============================================================================
