----------------------------- MODULE FeedsProofs -----------------------------
(***************************************************************************)
(* Theorems about what reaches the bot from outside: the scalars of the    *)
(* order book, the Polymarket feed, the Kalshi feed, the snapshot file and *)
(* the signal bridge, in this order.                                       *)
(***************************************************************************)
EXTENDS Feeds, CapitalLemmas, WellFoundedInduction, SequenceTheorems

-----------------------------------------------------------------------------
(***************************************************************************)
(* The order book.  Every mutation maintains the scalars of its side;      *)
(* Agrees(side, ...) is what it maintains, and there is one lemma per      *)
(* mutation.                                                               *)
(***************************************************************************)

\* The best price of a side, said without CHOOSE: none for no level.
IsTop(side, L, b) ==
  \/ L = {} /\ b = NoPrice
  \/ b \in L /\ \A q \in L : ~Better(side, q, b)

\* What holds of a side between two mutations.
Agrees(side, L, f, b, d) ==
  /\ L \in SUBSET Price
  /\ f \in [Price -> Nat]
  /\ \A p \in Price \ L : f[p] = 0
  /\ IsTop(side, L, b)
  /\ d = SumOver(L, f)

\* The depth of a side without what overwritten entries have added to it.
AllAgree ==
  /\ DOMAIN levels = Side /\ DOMAIN size = Side
  /\ DOMAIN best = Side /\ DOMAIN depth = Side /\ DOMAIN doubled = Side
  /\ \A s \in Side :
       /\ depth[s] \in Int /\ doubled[s] \in Nat
       /\ Agrees(s, levels[s], size[s], best[s], depth[s] - doubled[s])

-----------------------------------------------------------------------------
(* The first level of a side. *)

\* From better to worse the prices of a side are totally ordered.
LEMMA BetterOrders ==
  ASSUME NEW side
  PROVE  /\ \A p \in Price : ~Better(side, p, p)
         /\ \A p, q, r \in Price : Better(side, p, q) /\ Better(side, q, r) => Better(side, p, r)
         /\ \A p, q \in Price : p # q => Better(side, p, q) \/ Better(side, q, p)
         /\ \A p \in Price : p # NoPrice
<1>1. \A p \in Price : p \in Int /\ p > 0
  BY TicksNat DEF Price
<1> QED BY <1>1 DEF Better, NoPrice

\* Of a side's levels some are not bettered: the levels that better one are
\* a finite set, and among such sets one is least.
LEMMA TopExists ==
  ASSUME NEW side \in Side, NEW L \in SUBSET Price, IsFiniteSet(Price), L # {}
  PROVE  \E p \in L : \A q \in L : ~Better(side, q, p)
<1> DEFINE above == [p \in L |-> {q \in L : Better(side, q, p)}]
           T == {above[p] : p \in L}
<1>1. IsWellFoundedOn(StrictSubsetOrdering(Price), FiniteSubsetsOf(Price))
  BY FS_StrictSubsetOrderingWellFounded
<1>2. T \subseteq FiniteSubsetsOf(Price) /\ T # {}
  <2>1. \A p \in L : above[p] \in SUBSET Price
    OBVIOUS
  <2>2. \A p \in L : IsFiniteSet(above[p])
    BY <2>1, FS_Subset
  <2> QED BY <2>1, <2>2 DEF FiniteSubsetsOf
<1> HIDE DEF T
<1>3. PICK x \in T : \A y \in T : ~(<<y, x>> \in StrictSubsetOrdering(Price))
  <2> DEFINE R == StrictSubsetOrdering(Price)
             F == FiniteSubsetsOf(Price)
  <2>1. IsWellFoundedOn(R, F) /\ T \subseteq F /\ T # {}
    BY <1>1, <1>2
  <2> HIDE DEF R, F
  <2>2. \E x \in T : \A y \in T : ~(<<y, x>> \in R)
    BY <2>1, WFMin
  <2> QED BY <2>2 DEF R
<1>4. PICK p \in L : x = above[p]
  BY DEF T
<1>5. ASSUME NEW q \in L, Better(side, q, p) PROVE FALSE
  <2>1. above[q] \subseteq above[p]
    <3> SUFFICES ASSUME NEW r \in L, Better(side, r, q) PROVE Better(side, r, p)
      OBVIOUS
    <3>1. p \in Price /\ q \in Price /\ r \in Price
      OBVIOUS
    <3> QED BY <1>5, <3>1, BetterOrders
  <2>2. q \in above[p] /\ q \notin above[q]
    BY <1>5, BetterOrders
  <2>3. above[q] \in T /\ above[p] \in SUBSET Price /\ above[q] \in SUBSET Price
    BY DEF T
  <2>4. <<above[q], above[p]>> \in StrictSubsetOrdering(Price)
    BY <2>1, <2>2, <2>3 DEF StrictSubsetOrdering
  <2> QED BY <1>3, <1>4, <2>3, <2>4
<1> QED BY <1>5

\* ... and exactly one is not: prices are totally ordered.
LEMMA TopIsTop ==
  ASSUME NEW side \in Side, NEW L \in SUBSET Price, IsFiniteSet(Price)
  PROVE  IsTop(side, L, Top(side, L)) /\ \A b : IsTop(side, L, b) => b = Top(side, L)
<1>1. CASE L = {}
  BY <1>1 DEF IsTop, Top
<1>2. CASE L # {}
  <2>1. Top(side, L) \in L /\ \A q \in L : ~Better(side, q, Top(side, L))
    BY <1>2, TopExists DEF Top
  <2>2. ASSUME NEW b, IsTop(side, L, b) PROVE b = Top(side, L)
    <3>1. b \in L /\ \A q \in L : ~Better(side, q, b)
      BY <1>2, <2>2 DEF IsTop
    <3>2. ~Better(side, b, Top(side, L)) /\ ~Better(side, Top(side, L), b)
      BY <2>1, <3>1
    <3>3. b \in Price /\ Top(side, L) \in Price
      BY <2>1, <3>1
    <3> QED BY <3>2, <3>3, BetterOrders
  <2> QED BY <2>1, <2>2 DEF IsTop
<1> QED BY <1>1, <1>2

\* There are finitely many prices.
LEMMA PricesFinite == IsFiniteSet(Price)
BY TicksNat, FS_Interval DEF Price

-----------------------------------------------------------------------------
(* One lemma per mutation of a side. *)

LEMMA LoadAgrees ==
  ASSUME NEW side \in Side, NEW L \in SUBSET Price, NEW f, \A p \in L : f[p] \in Nat
  PROVE  LET g == [p \in Price |-> IF p \in L THEN f[p] ELSE 0]
         IN  Agrees(side, L, g, Top(side, L), SumOver(L, g))
BY PricesFinite, TopIsTop DEF Agrees

LEMMA PutAgrees ==
  ASSUME NEW side \in Side, NEW L, NEW f, NEW b, NEW d, Agrees(side, L, f, b, d),
         NEW p \in Price, NEW n \in Nat
  PROVE  Agrees(side, L \cup {p}, [f EXCEPT ![p] = n],
                IF b = NoPrice \/ Better(side, p, b) THEN p ELSE b, d + n - f[p])
<1> DEFINE M == L \cup {p}
           g == [f EXCEPT ![p] = n]
           c == IF b = NoPrice \/ Better(side, p, b) THEN p ELSE b
<1>1. M \in SUBSET Price /\ IsFiniteSet(M) /\ IsFiniteSet(L)
  BY PricesFinite, FS_Subset DEF Agrees
<1>2. g \in [Price -> Nat] /\ \A q \in Price \ M : g[q] = 0
  BY DEF Agrees
<1>3. IsTop(side, M, c)
  <2>1. CASE L = {} /\ b = NoPrice
    BY <2>1, BetterOrders DEF IsTop
  <2>2. CASE b \in L /\ \A q \in L : ~Better(side, q, b)
    <3>1. b \in Price /\ b # NoPrice /\ L \subseteq Price
      BY <2>2, BetterOrders DEF Agrees
    <3>2. CASE Better(side, p, b)
      <4>1. \A q \in M : ~Better(side, q, p)
        BY <2>2, <3>1, <3>2, BetterOrders
      <4> QED BY <3>2, <4>1 DEF IsTop
    <3>3. CASE ~Better(side, p, b)
      BY <2>2, <3>1, <3>3 DEF IsTop
    <3> QED BY <3>2, <3>3
  <2> QED BY <2>1, <2>2 DEF Agrees, IsTop
<1>4. d + n - f[p] = SumOver(M, g)
  <2>1. SumOver(M, g) = SumOver(M \ {p}, g) + n
    <3>1. p \in M /\ g[p] = n /\ \A q \in M : g[q] \in Nat
      BY <1>1, <1>2 DEF Agrees
    <3> HIDE DEF M, g
    <3> QED BY <1>1, <3>1, SumWithout
  <2>2. SumOver(M \ {p}, g) = SumOver(M \ {p}, f)
    BY <1>1, SumEqual DEF Agrees
  <2>3. SumOver(L, f) = SumOver(M \ {p}, f) + f[p]
    <3>1. CASE p \in L
      <4>1. M \ {p} = L \ {p} /\ \A q \in L : f[q] \in Nat
        BY DEF Agrees
      <4> QED BY <1>1, <3>1, <4>1, SumWithout
    <3>2. CASE p \notin L
      <4>1. M \ {p} = L /\ f[p] = 0
        BY <3>2 DEF Agrees
      <4>2. SumOver(L, f) \in Nat
        BY <1>1, SumType DEF Agrees
      <4> QED BY <4>1, <4>2
    <3> QED BY <3>1, <3>2
  <2>4. IsFiniteSet(M \ {p}) /\ \A q \in M \ {p} : f[q] \in Nat
    BY <1>1, FS_Subset DEF Agrees
  <2>5. SumOver(M \ {p}, f) \in Nat
    BY <2>4, SumType
  <2>6. d = SumOver(L, f) /\ f[p] \in Nat
    BY DEF Agrees
  <2> QED BY <2>1, <2>2, <2>3, <2>5, <2>6
<1> QED BY <1>1, <1>2, <1>3, <1>4 DEF Agrees

LEMMA TakeAgrees ==
  ASSUME NEW side \in Side, NEW L, NEW f, NEW b, NEW d, Agrees(side, L, f, b, d),
         NEW p \in L
  PROVE  Agrees(side, L \ {p}, [f EXCEPT ![p] = 0],
                IF p = b THEN Top(side, L \ {p}) ELSE b, d - f[p])
<1> DEFINE M == L \ {p}
           g == [f EXCEPT ![p] = 0]
           c == IF p = b THEN Top(side, M) ELSE b
<1>1. M \in SUBSET Price /\ IsFiniteSet(M) /\ IsFiniteSet(L) /\ p \in Price
  BY PricesFinite, FS_Subset DEF Agrees
<1>2. g \in [Price -> Nat] /\ \A q \in Price \ M : g[q] = 0
  BY <1>1 DEF Agrees
<1>3. IsTop(side, M, c)
  <2>1. CASE p = b
    BY <1>1, <2>1, PricesFinite, TopIsTop
  <2>2. CASE p # b
    BY <2>2 DEF Agrees, IsTop
  <2> QED BY <2>1, <2>2
<1>4. d - f[p] = SumOver(M, g)
  <2>1. SumOver(L, f) = SumOver(M, f) + f[p]
    BY <1>1, SumWithout DEF Agrees
  <2>2. SumOver(M, f) = SumOver(M, g)
    BY <1>1, SumEqual DEF Agrees
  <2>3. SumOver(M, g) \in Nat
    BY <1>1, <1>2, SumType
  <2>4. d = SumOver(L, f) /\ f[p] \in Nat
    BY <1>1 DEF Agrees
  <2> QED BY <2>1, <2>2, <2>3, <2>4
<1> QED BY <1>1, <1>2, <1>3, <1>4 DEF Agrees

LEMMA ReplaceBestAgrees ==
  ASSUME NEW side \in Side, NEW L, NEW f, NEW b, NEW d, Agrees(side, L, f, b, d),
         NEW p \in Price, NEW n \in Nat
  PROVE  LET pruned == {q \in L : Better(side, q, p)}
             g == [q \in Price |-> IF q \in pruned THEN 0 ELSE IF q = p THEN n ELSE f[q]]
         IN  Agrees(side, (L \ pruned) \cup {p}, g, p,
                    (d - SumOver(pruned, f)) + n - f[p])
<1> DEFINE pruned == {q \in L : Better(side, q, p)}
           others == L \ pruned
           g == [q \in Price |-> IF q \in pruned THEN 0 ELSE IF q = p THEN n ELSE f[q]]
           M == others \cup {p}
<1>1. /\ p \notin pruned /\ pruned \cap others = {} /\ L = pruned \cup others
      /\ M \in SUBSET Price
  <2>1. L \in SUBSET Price
    BY DEF Agrees
  <2> QED BY <2>1, BetterOrders
<1>2. IsFiniteSet(pruned) /\ IsFiniteSet(others) /\ IsFiniteSet(M) /\ IsFiniteSet(M \ {p})
  BY <1>1, PricesFinite, FS_Subset DEF Agrees
<1>3. g \in [Price -> Nat] /\ \A q \in Price \ M : g[q] = 0
  BY <1>1 DEF Agrees
<1>4. IsTop(side, M, p)
  BY <1>1 DEF IsTop, Better, Price
<1>5. (d - SumOver(pruned, f)) + n - f[p] = SumOver(M, g)
  <2>1. \A q \in L \cup M : f[q] \in Nat
    BY <1>1 DEF Agrees
  <2>2. SumOver(L, f) = SumOver(pruned, f) + SumOver(others, f)
    <3>1. \A q \in pruned \cup others : f[q] \in Nat
      BY <2>1
    <3> HIDE DEF pruned, others
    <3> QED BY <1>1, <1>2, <3>1, SumDisjoint
  <2>3. SumOver(M, g) = SumOver(M \ {p}, g) + n
    <3>1. p \in M /\ g[p] = n /\ \A q \in M : g[q] \in Nat
      BY <1>1, <1>3
    <3> HIDE DEF M, g
    <3> QED BY <1>2, <3>1, SumWithout
  <2>4. SumOver(M \ {p}, g) = SumOver(M \ {p}, f)
    <3>1. \A q \in M \ {p} : g[q] = f[q]
      BY <1>1
    <3> HIDE DEF M, g
    <3> QED BY <3>1, SumEqual
  <2>5. SumOver(others, f) = SumOver(M \ {p}, f) + f[p]
    <3>1. CASE p \in L
      <4>1. p \in others /\ M \ {p} = others \ {p} /\ \A q \in others : f[q] \in Nat
        BY <1>1, <2>1, <3>1
      <4> HIDE DEF M, others
      <4> QED BY <1>2, <4>1, SumWithout
    <3>2. CASE p \notin L
      <4>1. M \ {p} = others /\ f[p] = 0 /\ \A q \in others : f[q] \in Nat
        BY <2>1, <3>2 DEF Agrees
      <4> HIDE DEF M, others
      <4>2. SumOver(others, f) \in Nat
        BY <1>2, <4>1, SumType
      <4> QED BY <4>1, <4>2
    <3> QED BY <3>1, <3>2
  <2>6. SumOver(pruned, f) \in Nat /\ SumOver(M \ {p}, f) \in Nat
    <3>1. (\A q \in pruned : f[q] \in Nat) /\ \A q \in M \ {p} : f[q] \in Nat
      BY <2>1
    <3> HIDE DEF pruned, M
    <3> QED BY <1>2, <3>1, SumType
  <2>7. d = SumOver(L, f) /\ f[p] \in Nat
    BY DEF Agrees
  <2> HIDE DEF M, g, others, pruned
  <2> QED BY <2>2, <2>3, <2>4, <2>5, <2>6, <2>7
<1> QED BY <1>1, <1>3, <1>4, <1>5 DEF Agrees

-----------------------------------------------------------------------------
(* The inductive invariant. *)

\* A mutation of one side keeps the invariant when the side agrees after it.
LEMMA WriteKeeps ==
  ASSUME AllAgree, NEW side \in Side, NEW L, NEW f, NEW b, NEW d \in Int, NEW e \in Nat,
         Agrees(side, L, f, b, d - e), Write(side, L, f, b, d),
         DOMAIN doubled' = Side, doubled'[side] = e,
         \A s \in Side \ {side} : doubled'[s] = doubled[s]
  PROVE  AllAgree'
<1>1. /\ DOMAIN levels' = Side /\ DOMAIN size' = Side
      /\ DOMAIN best' = Side /\ DOMAIN depth' = Side /\ DOMAIN doubled' = Side
  BY DEF AllAgree, Write
<1>2. ASSUME NEW s \in Side
      PROVE  /\ depth'[s] \in Int /\ doubled'[s] \in Nat
             /\ Agrees(s, levels'[s], size'[s], best'[s], depth'[s] - doubled'[s])
  <2>1. CASE s = side
    <3>1. levels'[s] = L /\ size'[s] = f /\ best'[s] = b /\ depth'[s] = d /\ doubled'[s] = e
      BY <2>1 DEF AllAgree, Write
    <3> QED BY <2>1, <3>1
  <2>2. CASE s # side
    <3>1. /\ levels'[s] = levels[s] /\ size'[s] = size[s]
          /\ best'[s] = best[s] /\ depth'[s] = depth[s] /\ doubled'[s] = doubled[s]
      BY <2>2 DEF AllAgree, Write
    <3> QED BY <3>1 DEF AllAgree
  <2> QED BY <2>1, <2>2
<1> QED BY <1>1, <1>2 DEF AllAgree

LEMMA InitAgrees == Init => AllAgree
BY SumOfNone DEF Init, AllAgree, Agrees, IsTop

\* A side is finite, so what it sums up to is a number.
LEMMA SidesSummed ==
  ASSUME AllAgree, NEW side \in Side, NEW M \in SUBSET levels[side]
  PROVE  SumOver(M, size[side]) \in Nat
<1>1. /\ levels[side] \in SUBSET Price /\ size[side] \in [Price -> Nat]
  BY DEF AllAgree, Agrees
<1>2. IsFiniteSet(M) /\ \A p \in M : size[side][p] \in Nat
  BY <1>1, PricesFinite, FS_Subset
<1> QED BY <1>2, SumType

LEMMA NextAgrees == AllAgree /\ [Next]_vars => AllAgree'
<1> SUFFICES ASSUME AllAgree, [Next]_vars PROVE AllAgree'
  OBVIOUS
<1>1. CASE UNCHANGED vars
  BY <1>1 DEF AllAgree, vars
<1>2. ASSUME NEW side \in Side, NEW L \in SUBSET Price, NEW f \in [L -> 0 .. MaxSize],
             NEW others \in Nat, Load(side, L, f, others)
      PROVE  AllAgree'
  <2>1. \A p \in L : f[p] \in Nat
    OBVIOUS
  <2> DEFINE g == [p \in Price |-> IF p \in L THEN f[p] ELSE 0]
  <2>2. Agrees(side, L, g, Top(side, L), SumOver(L, g))
    BY <2>1, LoadAgrees
  <2>3. /\ Write(side, L, g, Top(side, L), SumOver(L, g) + others)
        /\ doubled' = [doubled EXCEPT ![side] = others]
    BY <1>2 DEF Load
  <2>4. SumOver(L, g) \in Nat
    <3>1. IsFiniteSet(L) /\ \A p \in L : g[p] \in Nat
      BY <2>1, PricesFinite, FS_Subset
    <3> HIDE DEF g
    <3> QED BY <3>1, SumType
  <2> HIDE DEF g
  <2>5. SumOver(L, g) + others \in Int /\ (SumOver(L, g) + others) - others = SumOver(L, g)
    BY <2>4
  <2>6. /\ DOMAIN doubled' = Side /\ doubled'[side] = others
        /\ \A s \in Side \ {side} : doubled'[s] = doubled[s]
    BY <2>3 DEF AllAgree
  <2> QED BY <2>2, <2>3, <2>5, <2>6, WriteKeeps
<1> DEFINE net(s) == depth[s] - doubled[s]
<1>3. \A s \in Side : /\ Agrees(s, levels[s], size[s], best[s], net(s))
                      /\ depth[s] \in Int /\ doubled[s] \in Nat /\ size[s] \in [Price -> Nat]
      /\ DOMAIN doubled = Side
  BY DEF AllAgree, Agrees
<1>4. ASSUME NEW side \in Side, NEW p \in Price, NEW n \in 0 .. MaxSize, Put(side, p, n)
      PROVE  AllAgree'
  <2> DEFINE c == IF best[side] = NoPrice \/ Better(side, p, best[side])
                  THEN p ELSE best[side]
             d == depth[side] + n - size[side][p]
  <2>1. Agrees(side, levels[side] \cup {p}, [size[side] EXCEPT ![p] = n], c,
               net(side) + n - size[side][p])
    <3>1. Agrees(side, levels[side], size[side], best[side], net(side)) /\ n \in Nat
      BY <1>3
    <3> QED BY <3>1, PutAgrees
  <2>2. /\ Write(side, levels[side] \cup {p}, [size[side] EXCEPT ![p] = n], c, d)
        /\ UNCHANGED doubled
    BY <1>4 DEF Put
  <2>3. d \in Int /\ d - doubled[side] = net(side) + n - size[side][p]
    BY <1>3
  <2> HIDE DEF c, d, net
  <2>4. Agrees(side, levels[side] \cup {p}, [size[side] EXCEPT ![p] = n], c,
               d - doubled[side])
    BY <2>1, <2>3
  <2> QED BY <1>3, <2>2, <2>3, <2>4, WriteKeeps
<1>5. ASSUME NEW side \in Side, NEW p \in Price, Take(side, p)
      PROVE  AllAgree'
  <2> DEFINE M == levels[side] \ {p}
             c == IF p = best[side] THEN Top(side, M) ELSE best[side]
             d == depth[side] - size[side][p]
  <2>1. Agrees(side, M, [size[side] EXCEPT ![p] = 0], c, net(side) - size[side][p])
    BY <1>3, <1>5, TakeAgrees DEF Take
  <2>2. Write(side, M, [size[side] EXCEPT ![p] = 0], c, d) /\ UNCHANGED doubled
    BY <1>5 DEF Take
  <2>3. d \in Int /\ d - doubled[side] = net(side) - size[side][p]
    BY <1>3
  <2> HIDE DEF c, M, d, net
  <2>4. Agrees(side, M, [size[side] EXCEPT ![p] = 0], c, d - doubled[side])
    BY <2>1, <2>3
  <2> QED BY <1>3, <2>2, <2>3, <2>4, WriteKeeps
<1>6. ASSUME NEW side \in Side, NEW p \in Price, NEW n \in Nat, ReplaceBest(side, p, n)
      PROVE  AllAgree'
  <2> DEFINE pruned == {q \in levels[side] : Better(side, q, p)}
             g == [q \in Price |-> IF q \in pruned THEN 0
                                   ELSE IF q = p THEN n ELSE size[side][q]]
             M == (levels[side] \ pruned) \cup {p}
             gone == SumOver(pruned, size[side])
             d == (depth[side] - gone) + n - size[side][p]
  <2>1. Agrees(side, M, g, p, (net(side) - gone) + n - size[side][p])
    BY <1>3, ReplaceBestAgrees
  <2>2. Write(side, M, g, p, d) /\ UNCHANGED doubled
    BY <1>6 DEF ReplaceBest
  <2>3. gone \in Nat
    BY SidesSummed
  <2> HIDE DEF M, g, gone
  <2>4. d \in Int /\ d - doubled[side] = (net(side) - gone) + n - size[side][p]
    BY <1>3, <2>3
  <2> HIDE DEF d, net
  <2>5. Agrees(side, M, g, p, d - doubled[side])
    BY <2>1, <2>4
  <2> QED BY <1>3, <2>2, <2>4, <2>5, WriteKeeps
<1>7. ASSUME NEW side \in Side, NEW p \in Price, NewBest(side, p)
      PROVE  AllAgree'
  <2>1. size[side][p] \in Nat /\ ReplaceBest(side, p, size[side][p])
    BY <1>3, <1>7 DEF NewBest
  <2> QED BY <1>6, <2>1
<1>8. 0 .. MaxSize \subseteq Nat /\ 0 .. MaxDoubled \subseteq Nat
  OBVIOUS
<1> HIDE DEF net
<1> QED BY <1>1, <1>2, <1>4, <1>5, <1>6, <1>7, <1>8 DEF Next

\* Every side of a book stays in agreement with its scalars, whatever the mutations.
THEOREM SidesAgree == Spec => []AllAgree
BY InitAgrees, NextAgrees, PTL DEF Spec

-----------------------------------------------------------------------------
(***************************************************************************)
(* The scalars that apply_bid_delta, apply_ask_delta, replace_best_bid and *)
(* replace_best_ask maintain are what a walk of the book would give, but   *)
(* for the entries of one price that a loaded list had more than once,     *)
(* after any sequence of them and of reloads, for any number of prices.    *)
(***************************************************************************)
THEOREM ScalarsAlwaysAgree == Spec => []ScalarsAgree
<1>1. AllAgree => ScalarsAgree
  BY PricesFinite, TopIsTop DEF AllAgree, Agrees, ScalarsAgree
<1> QED BY <1>1, SidesAgree, PTL
-----------------------------------------------------------------------------
(***************************************************************************)
(* The Polymarket feed.  Two connections write one book, so what the book  *)
(* lacks must be under way on one of them, and nothing a connection still  *)
(* carries may undo it for good.                                           *)
(***************************************************************************)

\* m decides whether level l of t is there, whatever the book had.
Decides(m, t, l) ==
  \/ m.kind = "book" /\ t \in DOMAIN m.books
  \/ m.kind = "change" /\ m.token = t /\ m.level = l

Says(m, t, l) == IF m.kind = "book" THEN l \in m.books[t] ELSE m.on

\* Applying m leaves level l of t otherwise than it is in E.
Misleads(m, t, l, E) ==
  \/ Decides(m, t, l) /\ ~(Says(m, t, l) <=> l \in E)
  \/ m.kind = "quote" /\ m.token = t /\ l < m.level /\ l \in E
  \/ m.kind = "quote" /\ m.token = t /\ l = m.level /\ l \notin E

Pending(q, t, l) == \E i \in 1 .. Len(q) : Decides(q[i], t, l)

\* What misleads is corrected by what comes after it.
Truthful(q, t, E) ==
  \A i \in 1 .. Len(q), l \in Level :
    Misleads(q[i], t, l, E) => \E j \in i + 1 .. Len(q) : Decides(q[j], t, l)

HasBook(m, t) == m.kind = "book" /\ t \in DOMAIN m.books

Value(t, l) == Polymarket!BookOf(t)[l]
Right(t, l) == IF l \in exch[t] THEN "sized" ELSE "none"

PolymarketTyped ==
  /\ backend \in {"rust", "python"} /\ desired \subseteq Token
  /\ slot \in [Slot -> Polymarket!Loop]
  /\ wire \in [Slot -> Seq(Polymarket!Message)]
  /\ book \in [Token -> {NoBook} \cup [Level -> Polymarket!Sizes]]
  /\ seed \in [Token -> {NoBook} \cup SUBSET Level]
  /\ exch \in [Token -> SUBSET Level]
  /\ drift \in [Token -> SUBSET Level]

WiresTruthful ==
  \A s \in Slot : \A t \in slot[s].sub : Truthful(wire[s], t, exch[t])

BooksComing ==
  \A s \in Slot : \A t \in slot[s].sub :
    book[t] # NoBook \/ \E i \in 1 .. Len(wire[s]) : HasBook(wire[s][i], t)

BooksRight ==
  \A t \in Token : (\A s \in Slot : t \in slot[s].sub) =>
    \A l \in Level \ drift[t] : (\E s \in Slot : Pending(wire[s], t, l)) \/ Value(t, l) = Right(t, l)

PolymarketInv == PolymarketTyped /\ WiresTruthful /\ BooksComing /\ BooksRight

\* Whom a slot will send, or has sent, its subscription to.
Told(s) ==
  LET x == slot[s] IN
  /\ x.at \in {"receiving", "handling"} =>
       x.sub = desired \/ x.resub \/ raising \/ x.missed
  /\ x.at = "greeting" /\ backend = "rust" =>
       x.want = desired \/ x.resub \/ raising \/ x.missed
  /\ x.at = "resending" /\ backend = "rust" =>
       x.want = desired \/ x.resub \/ raising

-----------------------------------------------------------------------------
(* A connection's messages. *)

LEMMA AppendKeeps ==
  ASSUME NEW S, NEW q \in Seq(S), NEW m \in S, NEW i \in 1 .. Len(q)
  PROVE  i \in 1 .. Len(Append(q, m)) /\ Append(q, m)[i] = q[i]
OBVIOUS

LEMMA AppendPending ==
  ASSUME NEW S, NEW q \in Seq(S), NEW m \in S, NEW t, NEW l
  PROVE  /\ Pending(q, t, l) => Pending(Append(q, m), t, l)
         /\ Decides(m, t, l) => Pending(Append(q, m), t, l)
         /\ Pending(Append(q, m), t, l) => Pending(q, t, l) \/ Decides(m, t, l)
<1> DEFINE r == Append(q, m)
<1>1. /\ Len(r) = Len(q) + 1 /\ Len(q) \in Nat /\ r[Len(q) + 1] = m
      /\ \A i \in 1 .. Len(q) : r[i] = q[i]
  OBVIOUS
<1> HIDE DEF r
<1> QED BY <1>1 DEF Pending, r

\* A message that does not mislead may be added ...
LEMMA AppendTruthful ==
  ASSUME NEW S, NEW q \in Seq(S), NEW m \in S, NEW t, NEW E, Truthful(q, t, E),
         \A l \in Level : ~Misleads(m, t, l, E)
  PROVE  Truthful(Append(q, m), t, E)
<1> DEFINE r == Append(q, m)
<1>1. /\ Len(r) = Len(q) + 1 /\ Len(q) \in Nat /\ r[Len(q) + 1] = m
      /\ \A i \in 1 .. Len(q) : r[i] = q[i]
  OBVIOUS
<1> SUFFICES ASSUME NEW i \in 1 .. Len(r), NEW l \in Level, Misleads(r[i], t, l, E)
             PROVE  \E j \in i + 1 .. Len(r) : Decides(r[j], t, l)
  BY DEF Truthful
<1> HIDE DEF r
<1>2. i \in 1 .. Len(q) /\ Misleads(q[i], t, l, E)
  BY <1>1
<1>3. PICK j \in i + 1 .. Len(q) : Decides(q[j], t, l)
  BY <1>2 DEF Truthful
<1> QED BY <1>1, <1>2, <1>3

\* ... and one that decides, truly, a level that has changed.
LEMMA AppendCorrects ==
  ASSUME NEW S, NEW q \in Seq(S), NEW m \in S, NEW t, NEW E, NEW F,
         \A l \in Level : ~Misleads(m, t, l, F),
         \A l \in Level : Decides(m, t, l) \/ (Truthful(q, t, E) /\ (l \in E <=> l \in F))
  PROVE  Truthful(Append(q, m), t, F)
<1> DEFINE r == Append(q, m)
<1>1. /\ Len(r) = Len(q) + 1 /\ Len(q) \in Nat /\ r[Len(q) + 1] = m
      /\ \A i \in 1 .. Len(q) : r[i] = q[i]
  OBVIOUS
<1> SUFFICES ASSUME NEW i \in 1 .. Len(r), NEW l \in Level, Misleads(r[i], t, l, F)
             PROVE  \E j \in i + 1 .. Len(r) : Decides(r[j], t, l)
  BY DEF Truthful
<1> HIDE DEF r
<1>2. i \in 1 .. Len(q) /\ Misleads(q[i], t, l, F)
  BY <1>1
<1>3. CASE Decides(m, t, l)
  <2>1. Len(r) \in i + 1 .. Len(r) /\ r[Len(r)] = m
    BY <1>1, <1>2
  <2> QED BY <1>3, <2>1
<1>4. CASE Truthful(q, t, E) /\ (l \in E <=> l \in F)
  <2>1. Misleads(q[i], t, l, E)
    BY <1>2, <1>4 DEF Misleads
  <2>2. PICK j \in i + 1 .. Len(q) : Decides(q[j], t, l)
    BY <1>2, <1>4, <2>1 DEF Truthful
  <2> QED BY <1>1, <1>2, <2>2
<1> QED BY <1>3, <1>4

\* What the first message misleads about is still to be decided.
LEMMA TailTruthful ==
  ASSUME NEW S, NEW q \in Seq(S), q # <<>>, NEW t, NEW E, Truthful(q, t, E)
  PROVE  /\ Truthful(Tail(q), t, E)
         /\ \A l \in Level : Misleads(Head(q), t, l, E) => Pending(Tail(q), t, l)
         /\ \A l \in Level : Pending(q, t, l) => Pending(Tail(q), t, l) \/ Decides(Head(q), t, l)
<1> DEFINE r == Tail(q)
<1>1. /\ Len(q) \in Nat \ {0} /\ Len(r) = Len(q) - 1 /\ Head(q) = q[1]
      /\ \A i \in 1 .. Len(r) : r[i] = q[i + 1]
  OBVIOUS
<1> HIDE DEF r
<1>2. ASSUME NEW l \in Level, NEW i \in 1 .. Len(q),
             \E j \in i + 1 .. Len(q) : Decides(q[j], t, l)
      PROVE  \E j \in i .. Len(r) : Decides(r[j], t, l)
  <2>1. PICK j \in i + 1 .. Len(q) : Decides(q[j], t, l)
    BY <1>2
  <2>2. j - 1 \in i .. Len(r) /\ r[j - 1] = q[j]
    BY <1>1
  <2> QED BY <2>1, <2>2
<1>3. Truthful(r, t, E)
  <2> SUFFICES ASSUME NEW i \in 1 .. Len(r), NEW l \in Level, Misleads(r[i], t, l, E)
               PROVE  \E j \in i + 1 .. Len(r) : Decides(r[j], t, l)
    BY DEF Truthful
  <2>1. i + 1 \in 1 .. Len(q) /\ Misleads(q[i + 1], t, l, E)
    BY <1>1
  <2>2. \E j \in (i + 1) + 1 .. Len(q) : Decides(q[j], t, l)
    BY <2>1 DEF Truthful
  <2> QED BY <1>2, <2>1, <2>2
<1>4. ASSUME NEW l \in Level, Misleads(q[1], t, l, E) PROVE Pending(r, t, l)
  <2>1. 1 \in 1 .. Len(q)
    BY <1>1
  <2>2. \E j \in 1 + 1 .. Len(q) : Decides(q[j], t, l)
    BY <1>4, <2>1 DEF Truthful
  <2> QED BY <1>2, <2>1, <2>2 DEF Pending
<1>5. ASSUME NEW l \in Level, Pending(q, t, l), ~Decides(q[1], t, l) PROVE Pending(r, t, l)
  <2>1. PICK i \in 1 .. Len(q) : Decides(q[i], t, l)
    BY <1>5 DEF Pending
  <2>2. i # 1
    BY <1>5, <2>1
  <2>3. i - 1 \in 1 .. Len(r) /\ r[i - 1] = q[i]
    BY <1>1, <2>2
  <2> QED BY <2>1, <2>3 DEF Pending
<1> QED BY <1>1, <1>3, <1>4, <1>5 DEF r

-----------------------------------------------------------------------------
(* The steps of the Polymarket feed. *)

LEMMA BookOfType ==
  ASSUME PolymarketTyped, NEW t \in Token
  PROVE  Polymarket!BookOf(t) \in [Level -> Polymarket!Sizes]
BY DEF PolymarketTyped, Polymarket!BookOf, Polymarket!EmptyBook, Polymarket!Sized,
       Polymarket!Sizes

\* What a message does to the book of a token and to each of its levels.
LEMMA MessageApplied ==
  ASSUME PolymarketTyped, NEW s \in Slot, Polymarket!HandleMessage(s),
         NEW m, m = Head(wire[s])
  PROVE  /\ book' \in [Token -> {NoBook} \cup [Level -> Polymarket!Sizes]]
         /\ drift' \in [Token -> SUBSET Level]
         /\ \A t \in Token, l \in Level : l \in drift'[t] <=> l \in drift[t] /\ ~Decides(m, t, l)
         /\ \A t \in Token : book[t] # NoBook \/ HasBook(m, t) => book'[t] # NoBook
         /\ \A t \in Token, l \in Level :
              Value(t, l)' =
                IF Decides(m, t, l) THEN IF Says(m, t, l) THEN "sized" ELSE "none"
                ELSE IF m.kind = "quote" /\ m.token = t /\ l < m.level THEN "none"
                ELSE IF m.kind = "quote" /\ m.token = t /\ l = m.level /\ Value(t, l) = "none"
                THEN "unsized" ELSE Value(t, l)
<1>1. /\ book \in [Token -> {NoBook} \cup [Level -> Polymarket!Sizes]]
      /\ drift \in [Token -> SUBSET Level] /\ wire \in [Slot -> Seq(Polymarket!Message)]
      /\ wire[s] # <<>>
      /\ \A t \in Token : Polymarket!BookOf(t) \in [Level -> Polymarket!Sizes]
      /\ \A b \in [Level -> Polymarket!Sizes] : b # NoBook
  BY BookOfType, FeedsAssumption DEF PolymarketTyped, Polymarket!HandleMessage
<1>2. m \in Polymarket!Message
  BY <1>1
<1>3. CASE /\ m.kind = "book" /\ Polymarket!ApplySnapshot(m.books)
           /\ drift' = [t \in Token |-> IF t \in DOMAIN m.books THEN {} ELSE drift[t]]
  <2>1. \A T : Polymarket!Sized(T) \in [Level -> Polymarket!Sizes]
    BY DEF Polymarket!Sized, Polymarket!Sizes
  <2>2. \A t \in Token : book'[t] = IF HasBook(m, t) THEN Polymarket!Sized(m.books[t]) ELSE book[t]
    BY <1>3 DEF Polymarket!ApplySnapshot, HasBook
  <2>3. book' \in [Token -> {NoBook} \cup [Level -> Polymarket!Sizes]]
    BY <1>1, <1>3, <2>1 DEF Polymarket!ApplySnapshot
  <2>4. ASSUME NEW t \in Token, NEW l \in Level
        PROVE  Value(t, l)' = IF Decides(m, t, l) THEN IF Says(m, t, l) THEN "sized" ELSE "none"
                              ELSE Value(t, l)
    <3>1. CASE HasBook(m, t)
      <4>1. book'[t] # NoBook /\ book'[t][l] = IF l \in m.books[t] THEN "sized" ELSE "none"
        <5>1. book'[t] = Polymarket!Sized(m.books[t])
          BY <2>2, <3>1
        <5>2. Polymarket!Sized(m.books[t]) # NoBook
          BY <1>1, <2>1
        <5> QED BY <5>1, <5>2 DEF Polymarket!Sized
      <4> QED BY <1>3, <3>1, <4>1 DEF Value, Polymarket!BookOf, Decides, Says, HasBook
    <3>2. CASE ~HasBook(m, t)
      BY <1>3, <2>2, <3>2 DEF Value, Polymarket!BookOf, Decides, HasBook, Polymarket!EmptyBook,
                             Polymarket!Sized
    <3> QED BY <3>1, <3>2
  <2>5. /\ drift' \in [Token -> SUBSET Level]
        /\ \A t \in Token, l \in Level : l \in drift'[t] <=> l \in drift[t] /\ ~Decides(m, t, l)
    BY <1>1, <1>3 DEF Decides, HasBook
  <2> QED BY <1>1, <1>3, <2>1, <2>2, <2>3, <2>4, <2>5 DEF HasBook
<1>4. ASSUME NEW f \in [Level -> Polymarket!Sizes], m.kind # "book", m.token \in Token,
             book' = [book EXCEPT ![m.token] = f]
      PROVE  /\ book' \in [Token -> {NoBook} \cup [Level -> Polymarket!Sizes]]
             /\ \A t \in Token : book[t] # NoBook \/ HasBook(m, t) => book'[t] # NoBook
             /\ \A t \in Token, l \in Level :
                  Value(t, l)' = IF t = m.token THEN f[l] ELSE Value(t, l)
  BY <1>1, <1>4 DEF HasBook, Value, Polymarket!BookOf, Polymarket!EmptyBook, Polymarket!Sized
<1>5. CASE /\ m.kind = "change" /\ Polymarket!ApplyDelta(m)
           /\ drift' = [drift EXCEPT ![m.token] = @ \ {m.level}]
  <2> DEFINE f == [Polymarket!BookOf(m.token) EXCEPT ![m.level] = IF m.on THEN "sized" ELSE "none"]
  <2>1. m.token \in Token /\ m.kind # "book"
    BY <1>2, <1>5 DEF Polymarket!Message
  <2>2. f \in [Level -> Polymarket!Sizes]
    BY <1>1, <2>1 DEF Polymarket!Sizes
  <2>3. book' = [book EXCEPT ![m.token] = f]
    BY <1>5 DEF Polymarket!ApplyDelta
  <2>4. \A l \in Level : f[l] = IF l = m.level THEN IF m.on THEN "sized" ELSE "none"
                                ELSE Value(m.token, l)
    BY <1>1, <2>1 DEF Value
  <2> HIDE DEF f
  <2>5. /\ book' \in [Token -> {NoBook} \cup [Level -> Polymarket!Sizes]]
        /\ \A t \in Token : book[t] # NoBook \/ HasBook(m, t) => book'[t] # NoBook
        /\ \A t \in Token, l \in Level :
             Value(t, l)' = IF t = m.token THEN f[l] ELSE Value(t, l)
    BY <1>4, <1>5, <2>1, <2>2, <2>3
  <2>6. ASSUME NEW t \in Token, NEW l \in Level
        PROVE  Value(t, l)' = IF Decides(m, t, l) THEN IF Says(m, t, l) THEN "sized" ELSE "none"
                              ELSE Value(t, l)
    <3>1. Decides(m, t, l) <=> m.token = t /\ m.level = l
      BY <1>5 DEF Decides
    <3>2. Says(m, t, l) <=> m.on
      BY <1>5 DEF Says
    <3> QED BY <2>4, <2>5, <3>1, <3>2
  <2>7. /\ drift' \in [Token -> SUBSET Level]
        /\ \A t \in Token, l \in Level : l \in drift'[t] <=> l \in drift[t] /\ ~Decides(m, t, l)
    BY <1>1, <1>5, <2>1 DEF Decides
  <2> QED BY <1>5, <2>5, <2>6, <2>7
<1>6. CASE m.kind = "quote" /\ Polymarket!ApplyBba(m) /\ UNCHANGED drift
  <2> DEFINE f == [l \in Level |-> IF l < m.level THEN "none"
                     ELSE IF l = m.level /\ Polymarket!BookOf(m.token)[l] = "none" THEN "unsized"
                     ELSE Polymarket!BookOf(m.token)[l]]
  <2>1. m.token \in Token /\ m.kind # "book"
    BY <1>2, <1>6 DEF Polymarket!Message
  <2>2. f \in [Level -> Polymarket!Sizes]
    BY <1>1, <2>1 DEF Polymarket!Sizes
  <2>3. book' = [book EXCEPT ![m.token] = f]
    BY <1>6 DEF Polymarket!ApplyBba
  <2>4. \A l \in Level : f[l] = IF l < m.level THEN "none"
                                ELSE IF l = m.level /\ Value(m.token, l) = "none" THEN "unsized"
                                ELSE Value(m.token, l)
    BY <1>1, <2>1 DEF Value
  <2> HIDE DEF f
  <2>5. /\ book' \in [Token -> {NoBook} \cup [Level -> Polymarket!Sizes]]
        /\ \A t \in Token : book[t] # NoBook \/ HasBook(m, t) => book'[t] # NoBook
        /\ \A t \in Token, l \in Level :
             Value(t, l)' = IF t = m.token THEN f[l] ELSE Value(t, l)
    BY <1>4, <1>6, <2>1, <2>2, <2>3
  <2>6. ASSUME NEW t \in Token, NEW l \in Level
        PROVE  /\ ~Decides(m, t, l)
               /\ Value(t, l)' =
                    IF m.token = t /\ l < m.level THEN "none"
                    ELSE IF m.token = t /\ l = m.level /\ Value(t, l) = "none"
                    THEN "unsized" ELSE Value(t, l)
    <3>1. ~Decides(m, t, l)
      BY <1>6 DEF Decides
    <3> QED BY <2>4, <2>5, <3>1
  <2>7. /\ drift' \in [Token -> SUBSET Level]
        /\ \A t \in Token, l \in Level : l \in drift'[t] <=> l \in drift[t] /\ ~Decides(m, t, l)
    BY <1>1, <1>6, <2>6
  <2> QED BY <1>6, <2>5, <2>6, <2>7
<1> QED BY <1>3, <1>5, <1>6 DEF Polymarket!HandleMessage

\* A true message, or one whose falsehood is corrected later, leaves the level right.
LEMMA HandleMessageInv ==
  ASSUME PolymarketInv, NEW s \in Slot, Polymarket!HandleMessage(s)
  PROVE  PolymarketInv'
<1> DEFINE m == Head(wire[s])
<1>1. /\ PolymarketTyped /\ wire \in [Slot -> Seq(Polymarket!Message)]
      /\ slot \in [Slot -> Polymarket!Loop]
  BY DEF PolymarketInv, PolymarketTyped
<1>2. /\ wire[s] # <<>> /\ wire' = [wire EXCEPT ![s] = Tail(@)]
      /\ slot' = [slot EXCEPT ![s].at = "receiving"]
      /\ UNCHANGED <<backend, desired, raising, seed, exch, left>>
  BY DEF Polymarket!HandleMessage, Polymarket!Goes
<1>3. /\ book' \in [Token -> {NoBook} \cup [Level -> Polymarket!Sizes]]
      /\ drift' \in [Token -> SUBSET Level]
      /\ \A t \in Token, l \in Level : l \in drift'[t] <=> l \in drift[t] /\ ~Decides(m, t, l)
      /\ \A t \in Token : book[t] # NoBook \/ HasBook(m, t) => book'[t] # NoBook
      /\ \A t \in Token, l \in Level :
           Value(t, l)' =
             IF Decides(m, t, l) THEN IF Says(m, t, l) THEN "sized" ELSE "none"
             ELSE IF m.kind = "quote" /\ m.token = t /\ l < m.level THEN "none"
             ELSE IF m.kind = "quote" /\ m.token = t /\ l = m.level /\ Value(t, l) = "none"
             THEN "unsized" ELSE Value(t, l)
  BY <1>1, MessageApplied
<1>4. slot' \in [Slot -> Polymarket!Loop] /\ \A u \in Slot : slot'[u].sub = slot[u].sub
  BY <1>1, <1>2 DEF Polymarket!Loop
<1>5. wire' \in [Slot -> Seq(Polymarket!Message)]
  BY <1>1, <1>2
<1>6. wire'[s] = Tail(wire[s]) /\ \A u \in Slot \ {s} : wire'[u] = wire[u]
  BY <1>1, <1>2
<1>7. \A u \in Slot : slot[u].sub \subseteq Token
  BY <1>1 DEF Polymarket!Loop
<1>8. \A t : Truthful(wire[s], t, exch[t]) =>
        /\ Truthful(Tail(wire[s]), t, exch[t])
        /\ \A l \in Level : Misleads(m, t, l, exch[t]) => Pending(Tail(wire[s]), t, l)
        /\ \A l \in Level : Pending(wire[s], t, l) => Pending(Tail(wire[s]), t, l) \/ Decides(m, t, l)
  <2>1. wire[s] \in Seq(Polymarket!Message) /\ wire[s] # <<>>
    BY <1>1, <1>2
  <2> QED BY <2>1, TailTruthful
<1> HIDE DEF m
<1>9. PolymarketTyped'
  BY <1>1, <1>2, <1>3, <1>4, <1>5 DEF PolymarketTyped
<1>10. WiresTruthful'
  <2> SUFFICES ASSUME NEW u \in Slot, NEW t \in slot[u].sub PROVE Truthful(wire'[u], t, exch[t])
    BY <1>2, <1>4 DEF WiresTruthful
  <2>1. Truthful(wire[u], t, exch[t])
    BY DEF PolymarketInv, WiresTruthful
  <2> QED BY <1>6, <1>8, <2>1
<1>11. BooksComing'
  <2> SUFFICES ASSUME NEW u \in Slot, NEW t \in slot[u].sub, book'[t] = NoBook
               PROVE  \E i \in 1 .. Len(wire'[u]) : HasBook(wire'[u][i], t)
    BY <1>4 DEF BooksComing
  <2>1. t \in Token /\ book[t] = NoBook /\ ~HasBook(m, t)
    BY <1>3, <1>7
  <2>2. PICK i \in 1 .. Len(wire[u]) : HasBook(wire[u][i], t)
    BY <2>1 DEF PolymarketInv, BooksComing
  <2>3. CASE u # s
    BY <1>6, <2>2, <2>3
  <2>4. CASE u = s
    <3>1. /\ i # 1 /\ Len(Tail(wire[s])) = Len(wire[s]) - 1 /\ Len(wire[s]) \in Nat
          /\ Tail(wire[s])[i - 1] = wire[s][i]
      BY <1>1, <1>2, <2>1, <2>2, <2>4 DEF m
    <3>2. i - 1 \in 1 .. Len(wire'[u])
      <4>1. Len(wire'[u]) = Len(wire[s]) - 1 /\ i \in 1 .. Len(wire[s])
        BY <1>6, <2>2, <2>4, <3>1
      <4> QED BY <3>1, <4>1
    <3>3. HasBook(wire'[u][i - 1], t)
      BY <1>6, <2>2, <2>4, <3>1
    <3> QED BY <3>2, <3>3
  <2> QED BY <2>3, <2>4
<1>12. BooksRight'
  <2> SUFFICES ASSUME NEW t \in Token, \A u \in Slot : t \in slot[u].sub,
                      NEW l \in Level \ drift'[t], \A u \in Slot : ~Pending(wire'[u], t, l)
               PROVE  Value(t, l)' = Right(t, l)'
    BY <1>4 DEF BooksRight
  <2>1. /\ Truthful(wire[s], t, exch[t]) /\ ~Pending(Tail(wire[s]), t, l)
        /\ Right(t, l)' = Right(t, l)
    BY <1>2, <1>6 DEF PolymarketInv, WiresTruthful, Right
  <2>2. ~Misleads(m, t, l, exch[t]) /\ (Pending(wire[s], t, l) => Decides(m, t, l))
    BY <1>8, <2>1
  <2>3. CASE Decides(m, t, l)
    <3>1. Value(t, l)' = IF Says(m, t, l) THEN "sized" ELSE "none"
      BY <1>3, <2>3
    <3>2. Says(m, t, l) <=> l \in exch[t]
      BY <2>2, <2>3 DEF Misleads
    <3> QED BY <2>1, <3>1, <3>2 DEF Right
  <2>4. CASE ~Decides(m, t, l)
    <3>1. l \notin drift[t]
      BY <1>3, <2>4
    <3>2. \A u \in Slot : ~Pending(wire[u], t, l)
      BY <1>6, <2>2, <2>4
    <3>3. Value(t, l) = Right(t, l)
      BY <3>1, <3>2 DEF PolymarketInv, BooksRight
    <3>4. Value(t, l)' =
             IF m.kind = "quote" /\ m.token = t /\ l < m.level THEN "none"
             ELSE IF m.kind = "quote" /\ m.token = t /\ l = m.level /\ Value(t, l) = "none"
             THEN "unsized" ELSE Value(t, l)
      BY <1>3, <2>4
    <3> QED BY <2>1, <2>2, <3>3, <3>4 DEF Misleads, Right
  <2> QED BY <2>3, <2>4
<1> QED BY <1>9, <1>10, <1>11, <1>12 DEF PolymarketInv

\* A step that leaves the wires, the subscriptions and the books as they are.
LEMMA OffTheWire ==
  ASSUME PolymarketInv, PolymarketTyped', UNCHANGED <<wire, book, exch, drift>>,
         \A s \in Slot : slot'[s].sub = slot[s].sub
  PROVE  PolymarketInv'
<1>1. WiresTruthful'
  BY DEF PolymarketInv, WiresTruthful
<1>2. BooksComing'
  BY DEF PolymarketInv, BooksComing
<1>3. BooksRight'
  BY DEF PolymarketInv, BooksRight, Value, Right, Polymarket!BookOf
<1> QED BY <1>1, <1>2, <1>3 DEF PolymarketInv

\* The answer to a subscription brings the books of all its tokens.
LEMMA GreetingInv ==
  ASSUME PolymarketInv, NEW s \in Slot, NEW T \in SUBSET Token, Polymarket!Greeting(s, T),
         UNCHANGED <<backend, desired, raising, book, seed, exch, drift, left>>
  PROVE  PolymarketInv'
<1> DEFINE m == [kind |-> "book", books |-> [t \in T |-> exch[t]]]
<1>1. /\ PolymarketTyped /\ wire \in [Slot -> Seq(Polymarket!Message)]
      /\ slot \in [Slot -> Polymarket!Loop] /\ exch \in [Token -> SUBSET Level]
  BY DEF PolymarketInv, PolymarketTyped
<1>2. m \in Polymarket!Message
  <2>1. [t \in T |-> exch[t]] \in [T -> SUBSET Level]
    BY <1>1
  <2>2. [t \in T |-> exch[t]] \in UNION {[U -> SUBSET Level] : U \in SUBSET Token}
    BY <2>1
  <2> QED BY <2>2 DEF Polymarket!Message
<1>3. /\ m.kind = "book" /\ DOMAIN m.books = T /\ \A t \in T : m.books[t] = exch[t]
  OBVIOUS
<1>4. /\ slot' \in [Slot -> Polymarket!Loop] /\ slot'[s].sub = T
      /\ \A u \in Slot \ {s} : slot'[u].sub = slot[u].sub
  <2> DEFINE x == [slot[s] EXCEPT
                     !.at = IF @ = "resending" /\ backend = "python" THEN "handling" ELSE "receiving",
                     !.sub = T, !.missed = @ /\ slot[s].at = "greeting"]
  <2>1. slot' = [slot EXCEPT ![s] = x]
    BY DEF Polymarket!Greeting
  <2>2. x \in Polymarket!Loop /\ x.sub = T
    BY <1>1 DEF Polymarket!Loop
  <2> HIDE DEF x
  <2> QED BY <1>1, <2>1, <2>2
<1>5. wire'[s] = (IF T = {} THEN wire[s] ELSE Append(wire[s], m))
      /\ \A u \in Slot \ {s} : wire'[u] = wire[u]
  BY <1>1 DEF Polymarket!Greeting
<1>6. wire' \in [Slot -> Seq(Polymarket!Message)]
  <2>1. Append(wire[s], m) \in Seq(Polymarket!Message)
    BY <1>1, <1>2
  <2> HIDE DEF m
  <2>2. wire' = [wire EXCEPT ![s] = IF T = {} THEN @ ELSE Append(@, m)]
    BY DEF Polymarket!Greeting, m
  <2> QED BY <1>1, <2>1, <2>2
<1>7. wire[s] \in Seq(Polymarket!Message)
  BY <1>1
<1>8. \A t \in T : \A l : Decides(m, t, l) /\ ~Misleads(m, t, l, exch[t]) /\ HasBook(m, t)
  BY <1>3 DEF Decides, Says, Misleads, HasBook
<1> HIDE DEF m
<1>9. PolymarketTyped'
  BY <1>1, <1>4, <1>6 DEF PolymarketTyped
<1>10. \A t \in T : Truthful(wire'[s], t, exch[t]) /\ \A l \in Level : Pending(wire'[s], t, l)
  <2> SUFFICES ASSUME NEW t \in T
               PROVE  Truthful(wire'[s], t, exch[t]) /\ \A l \in Level : Pending(wire'[s], t, l)
    OBVIOUS
  <2>1. wire'[s] = Append(wire[s], m)
    BY <1>5
  <2>2. Truthful(Append(wire[s], m), t, exch[t])
    BY <1>2, <1>7, <1>8, AppendCorrects
  <2>3. \A l \in Level : Pending(Append(wire[s], m), t, l)
    BY <1>2, <1>7, <1>8, AppendPending
  <2> QED BY <2>1, <2>2, <2>3
<1>11. WiresTruthful'
  BY <1>4, <1>5, <1>10 DEF PolymarketInv, WiresTruthful
<1>12. BooksComing'
  <2> SUFFICES ASSUME NEW u \in Slot, NEW t \in slot'[u].sub
               PROVE  book[t] # NoBook \/ \E i \in 1 .. Len(wire'[u]) : HasBook(wire'[u][i], t)
    BY DEF BooksComing
  <2>1. CASE u = s
    <3>1. wire'[s] = Append(wire[s], m) /\ t \in T
      BY <1>4, <1>5, <2>1
    <3>2. Len(wire'[s]) \in 1 .. Len(wire'[s]) /\ wire'[s][Len(wire'[s])] = m
      BY <1>2, <1>7, <3>1
    <3> QED BY <1>8, <2>1, <3>1, <3>2
  <2>2. CASE u # s
    BY <1>4, <1>5, <2>2 DEF PolymarketInv, BooksComing
  <2> QED BY <2>1, <2>2
<1>13. BooksRight'
  <2> SUFFICES ASSUME NEW t \in Token, \A u \in Slot : t \in slot'[u].sub, NEW l \in Level
               PROVE  \E u \in Slot : Pending(wire'[u], t, l)
    BY DEF BooksRight
  <2> QED BY <1>4, <1>10
<1> QED BY <1>9, <1>11, <1>12, <1>13 DEF PolymarketInv

LEMMA DisconnectInv ==
  ASSUME PolymarketInv, NEW s \in Slot, Polymarket!Disconnect(s)
  PROVE  PolymarketInv'
<1>1. /\ PolymarketTyped /\ wire \in [Slot -> Seq(Polymarket!Message)]
      /\ slot \in [Slot -> Polymarket!Loop]
  BY DEF PolymarketInv, PolymarketTyped
<1>2. /\ slot' \in [Slot -> Polymarket!Loop] /\ slot'[s].sub = {}
      /\ \A u \in Slot \ {s} : slot'[u].sub = slot[u].sub
  <2> DEFINE x == [slot[s] EXCEPT
                     !.at = IF backend = "rust" /\ @ = "greeting" THEN "dead" ELSE "pausing",
                     !.sub = {}, !.missed = FALSE]
  <2>1. slot' = [slot EXCEPT ![s] = x]
    BY DEF Polymarket!Disconnect
  <2>2. x \in Polymarket!Loop /\ x.sub = {}
    BY <1>1 DEF Polymarket!Loop
  <2> HIDE DEF x
  <2> QED BY <1>1, <2>1, <2>2
<1>3. /\ wire' = [wire EXCEPT ![s] = <<>>]
      /\ UNCHANGED <<backend, desired, raising, book, seed, exch, drift>>
  BY DEF Polymarket!Disconnect, Polymarket!feedVars
<1>4. wire' \in [Slot -> Seq(Polymarket!Message)]
  BY <1>1, <1>3
<1>5. PolymarketTyped'
  BY <1>1, <1>2, <1>3, <1>4 DEF PolymarketTyped
<1>6. WiresTruthful' /\ BooksComing'
  BY <1>1, <1>2, <1>3 DEF PolymarketInv, WiresTruthful, BooksComing
<1>7. BooksRight'
  BY <1>2 DEF BooksRight
<1> QED BY <1>5, <1>6, <1>7 DEF PolymarketInv

\* A REST answer replaces the book; the levels it is wrong in are told by drift.
LEMMA SeedBooksInv ==
  ASSUME PolymarketInv, NEW t \in Token, Polymarket!SeedBooks(t)
  PROVE  PolymarketInv'
<1>1. /\ PolymarketTyped /\ seed \in [Token -> {NoBook} \cup SUBSET Level]
      /\ book \in [Token -> {NoBook} \cup [Level -> Polymarket!Sizes]]
      /\ exch \in [Token -> SUBSET Level] /\ drift \in [Token -> SUBSET Level]
  BY DEF PolymarketInv, PolymarketTyped
<1>2. /\ seed[t] # NoBook /\ book' = [book EXCEPT ![t] = Polymarket!Sized(seed[t])]
      /\ drift' = [drift EXCEPT ![t] = (seed[t] \ exch[t]) \cup (exch[t] \ seed[t])]
      /\ seed' = [seed EXCEPT ![t] = NoBook]
      /\ UNCHANGED <<backend, desired, raising, slot, wire, exch, left>>
  BY DEF Polymarket!SeedBooks
<1>3. Polymarket!Sized(seed[t]) \in [Level -> Polymarket!Sizes]
      /\ Polymarket!Sized(seed[t]) # NoBook
  BY FeedsAssumption DEF Polymarket!Sized, Polymarket!Sizes
<1>4. PolymarketTyped'
  BY <1>1, <1>2, <1>3 DEF PolymarketTyped
<1>5. WiresTruthful' /\ BooksComing'
  BY <1>1, <1>2, <1>3 DEF PolymarketInv, WiresTruthful, BooksComing
<1>6. BooksRight'
  <2> SUFFICES ASSUME NEW u \in Token, \A s \in Slot : u \in slot[s].sub,
                      NEW l \in Level \ drift'[u], \A s \in Slot : ~Pending(wire[s], u, l)
               PROVE  Value(u, l)' = Right(u, l)
    BY <1>2 DEF BooksRight, Right
  <2>1. CASE u = t
    <3>1. (l \in seed[t] <=> l \in exch[t]) /\ book'[t] = Polymarket!Sized(seed[t])
      BY <1>1, <1>2, <2>1
    <3> QED BY <1>3, <2>1, <3>1 DEF Value, Right, Polymarket!BookOf, Polymarket!Sized
  <2>2. CASE u # t
    <3>1. l \notin drift[u] /\ book'[u] = book[u]
      BY <1>1, <1>2, <2>2
    <3> QED BY <3>1 DEF PolymarketInv, BooksRight, Value, Right, Polymarket!BookOf
  <2> QED BY <2>1, <2>2
<1> QED BY <1>4, <1>5, <1>6 DEF PolymarketInv

\* The exchange tells every subscribed slot of a change ...
LEMMA BroadcastWires ==
  ASSUME PolymarketTyped, NEW t \in Token, NEW m \in Polymarket!Message, Polymarket!Broadcast(t, m)
  PROVE  /\ wire' \in [Slot -> Seq(Polymarket!Message)]
         /\ \A s \in Slot : wire'[s] = IF t \in slot[s].sub THEN Append(wire[s], m) ELSE wire[s]
<1>1. \A s \in Slot : wire[s] \in Seq(Polymarket!Message)
  BY DEF PolymarketTyped
<1> QED BY <1>1 DEF Polymarket!Broadcast

LEMMA LevelChangesInv ==
  ASSUME PolymarketInv, NEW t \in Token, NEW l \in Level, Polymarket!LevelChanges(t, l)
  PROVE  PolymarketInv'
<1> DEFINE m == [kind |-> "change", token |-> t, level |-> l, on |-> l \notin exch[t]]
<1>1. /\ PolymarketTyped /\ exch \in [Token -> SUBSET Level]
      /\ slot \in [Slot -> Polymarket!Loop] /\ wire \in [Slot -> Seq(Polymarket!Message)]
  BY DEF PolymarketInv, PolymarketTyped
<1>2. /\ exch' = [exch EXCEPT ![t] = IF l \in @ THEN @ \ {l} ELSE @ \cup {l}]
      /\ Polymarket!Broadcast(t, m)
      /\ UNCHANGED <<backend, desired, raising, slot, book, seed, drift>>
  BY DEF Polymarket!LevelChanges
<1>3. m \in Polymarket!Message
  BY DEF Polymarket!Message
<1>4. /\ wire' \in [Slot -> Seq(Polymarket!Message)]
      /\ \A s \in Slot : wire'[s] = IF t \in slot[s].sub THEN Append(wire[s], m) ELSE wire[s]
  BY <1>1, <1>2, <1>3, BroadcastWires
<1>5. /\ \A k : Decides(m, t, k) <=> k = l
      /\ \A k : ~Misleads(m, t, k, exch'[t])
      /\ \A u, k : u # t => ~Decides(m, u, k) /\ \A E : ~Misleads(m, u, k, E)
      /\ \A u : ~HasBook(m, u)
  BY <1>1, <1>2 DEF Decides, Says, Misleads, HasBook
<1> HIDE DEF m
<1>6. /\ exch' \in [Token -> SUBSET Level] /\ \A u \in Token \ {t} : exch'[u] = exch[u]
      /\ \A k \in Level : k # l => (k \in exch'[t] <=> k \in exch[t])
  BY <1>1, <1>2
<1>7. PolymarketTyped'
  BY <1>1, <1>2, <1>4, <1>6 DEF PolymarketTyped
<1>8. \A s \in Slot : wire[s] \in Seq(Polymarket!Message) /\ slot[s].sub \subseteq Token
  BY <1>1 DEF Polymarket!Loop
<1>9. WiresTruthful'
  <2> SUFFICES ASSUME NEW s \in Slot, NEW u \in slot[s].sub PROVE Truthful(wire'[s], u, exch'[u])
    BY <1>2 DEF WiresTruthful
  <2>1. Truthful(wire[s], u, exch[u]) /\ u \in Token
    BY <1>8 DEF PolymarketInv, WiresTruthful
  <2>2. CASE u = t
    <3>1. Truthful(Append(wire[s], m), t, exch'[t])
      <4>1. Truthful(wire[s], t, exch[t])
        BY <2>1, <2>2
      <4>2. \A k \in Level : Decides(m, t, k)
              \/ (Truthful(wire[s], t, exch[t]) /\ (k \in exch[t] <=> k \in exch'[t]))
        BY <1>5, <1>6, <4>1
      <4> QED BY <1>3, <1>5, <1>8, <4>2, AppendCorrects
    <3> QED BY <1>4, <2>2, <3>1
  <2>3. CASE u # t
    <3>1. Truthful(Append(wire[s], m), u, exch[u])
      <4>1. \A k \in Level : ~Misleads(m, u, k, exch[u])
        BY <1>5, <2>3
      <4> QED BY <1>3, <1>8, <2>1, <4>1, AppendTruthful
    <3> QED BY <1>4, <1>6, <2>1, <2>3, <3>1
  <2> QED BY <2>2, <2>3
<1>10. BooksComing'
  <2> SUFFICES ASSUME NEW s \in Slot, NEW u \in slot[s].sub, book[u] = NoBook
               PROVE  \E i \in 1 .. Len(wire'[s]) : HasBook(wire'[s][i], u)
    BY <1>2 DEF BooksComing
  <2>1. PICK i \in 1 .. Len(wire[s]) : HasBook(wire[s][i], u)
    BY DEF PolymarketInv, BooksComing
  <2>2. i \in 1 .. Len(wire'[s]) /\ wire'[s][i] = wire[s][i]
    <3>1. i \in 1 .. Len(Append(wire[s], m)) /\ Append(wire[s], m)[i] = wire[s][i]
      BY <1>3, <1>8, AppendKeeps
    <3> QED BY <1>4, <3>1
  <2> QED BY <2>1, <2>2
<1>11. BooksRight'
  <2> SUFFICES ASSUME NEW u \in Token, \A s \in Slot : u \in slot[s].sub,
                      NEW k \in Level \ drift[u], \A s \in Slot : ~Pending(wire'[s], u, k)
               PROVE  Value(u, k)' = Right(u, k)'
    BY <1>2 DEF BooksRight
  <2>1. ASSUME NEW s \in Slot PROVE ~Pending(wire[s], u, k)
    <3>1. Pending(wire[s], u, k) => Pending(Append(wire[s], m), u, k)
      BY <1>3, <1>8, AppendPending
    <3> QED BY <1>4, <3>1
  <2>2. Value(u, k)' = Value(u, k) /\ Value(u, k) = Right(u, k)
    BY <1>2, <2>1 DEF PolymarketInv, BooksRight, Value, Polymarket!BookOf
  <2>3. u # t \/ k # l
    <3> SUFFICES ASSUME u = t, k = l PROVE FALSE
      OBVIOUS
    <3>1. PICK s \in Slot : TRUE
      BY FeedsAssumption
    <3>2. Pending(Append(wire[s], m), t, l)
      BY <1>3, <1>5, <1>8, AppendPending
    <3> QED BY <1>4, <3>2
  <2> QED BY <1>6, <2>2, <2>3 DEF Right
<1> QED BY <1>7, <1>9, <1>10, <1>11 DEF PolymarketInv

\* ... and of its best level, which is true when it is sent.
LEMMA QuoteInv ==
  ASSUME PolymarketInv, NEW t \in Token, Polymarket!Quote(t)
  PROVE  PolymarketInv'
<1>1. /\ PolymarketTyped /\ exch \in [Token -> SUBSET Level]
      /\ slot \in [Slot -> Polymarket!Loop] /\ wire \in [Slot -> Seq(Polymarket!Message)]
  BY DEF PolymarketInv, PolymarketTyped
<1>2. PICK top \in exch[t] :
        /\ \A l \in exch[t] : top <= l
        /\ Polymarket!Broadcast(t, [kind |-> "quote", token |-> t, level |-> top])
  BY DEF Polymarket!Quote
<1> DEFINE m == [kind |-> "quote", token |-> t, level |-> top]
<1>3. UNCHANGED <<backend, desired, raising, slot, book, seed, exch, drift>>
  BY DEF Polymarket!Quote
<1>4. m \in Polymarket!Message /\ top \in Level
  BY <1>1 DEF Polymarket!Message
<1>5. /\ wire' \in [Slot -> Seq(Polymarket!Message)]
      /\ \A s \in Slot : wire'[s] = IF t \in slot[s].sub THEN Append(wire[s], m) ELSE wire[s]
  BY <1>1, <1>2, <1>4, BroadcastWires
<1>6. /\ \A u, k : ~Decides(m, u, k) /\ ~HasBook(m, u)
      /\ \A u, k : u # t => ~Misleads(m, u, k, exch[u])
      /\ \A k \in Level : ~Misleads(m, t, k, exch[t])
  <2>1. \A k \in Level : k < top => k \notin exch[t]
    BY <1>2, <1>4, FeedsAssumption
  <2> QED BY <2>1 DEF Decides, HasBook, Misleads
<1> HIDE DEF m
<1>7. PolymarketTyped'
  BY <1>1, <1>3, <1>5 DEF PolymarketTyped
<1>8. \A s \in Slot : wire[s] \in Seq(Polymarket!Message)
  BY <1>1
<1>9. WiresTruthful'
  <2> SUFFICES ASSUME NEW s \in Slot, NEW u \in slot[s].sub PROVE Truthful(wire'[s], u, exch[u])
    BY <1>3 DEF WiresTruthful
  <2>1. Truthful(wire[s], u, exch[u]) /\ \A k \in Level : ~Misleads(m, u, k, exch[u])
    BY <1>6 DEF PolymarketInv, WiresTruthful
  <2>2. Truthful(Append(wire[s], m), u, exch[u])
    <3>1. m \in Polymarket!Message
      BY <1>4 DEF m
    <3> QED BY <1>8, <2>1, <3>1, AppendTruthful
  <2> QED BY <1>5, <2>1, <2>2
<1>10. BooksComing'
  <2> SUFFICES ASSUME NEW s \in Slot, NEW u \in slot[s].sub, book[u] = NoBook
               PROVE  \E i \in 1 .. Len(wire'[s]) : HasBook(wire'[s][i], u)
    BY <1>3 DEF BooksComing
  <2>1. PICK i \in 1 .. Len(wire[s]) : HasBook(wire[s][i], u)
    BY DEF PolymarketInv, BooksComing
  <2>2. i \in 1 .. Len(wire'[s]) /\ wire'[s][i] = wire[s][i]
    <3>1. m \in Polymarket!Message
      BY <1>4 DEF m
    <3>2. i \in 1 .. Len(Append(wire[s], m)) /\ Append(wire[s], m)[i] = wire[s][i]
      BY <1>8, <3>1, AppendKeeps
    <3> QED BY <1>5, <3>2
  <2> QED BY <2>1, <2>2
<1>11. BooksRight'
  <2> SUFFICES ASSUME NEW u \in Token, \A s \in Slot : u \in slot[s].sub,
                      NEW k \in Level \ drift[u], \A s \in Slot : ~Pending(wire'[s], u, k)
               PROVE  Value(u, k)' = Right(u, k)'
    BY <1>3 DEF BooksRight
  <2>1. ASSUME NEW s \in Slot PROVE ~Pending(wire[s], u, k)
    <3>1. m \in Polymarket!Message
      BY <1>4 DEF m
    <3>2. Pending(wire[s], u, k) => Pending(Append(wire[s], m), u, k)
      BY <1>8, <3>1, AppendPending
    <3> QED BY <1>5, <3>2
  <2> QED BY <1>3, <2>1 DEF PolymarketInv, BooksRight, Value, Right, Polymarket!BookOf
<1> QED BY <1>7, <1>9, <1>10, <1>11 DEF PolymarketInv

\* A slot's loop goes on without a message or a subscription.
LEMMA LoopInv ==
  ASSUME PolymarketInv, NEW s \in Slot,
         \/ Polymarket!Dial(s) \/ Polymarket!Connect(s) \/ Polymarket!Notice(s)
         \/ Polymarket!Resume(s)
  PROVE  PolymarketInv'
<1>1. /\ PolymarketTyped /\ slot \in [Slot -> Polymarket!Loop] /\ desired \subseteq Token
      /\ slot[s] \in Polymarket!Loop
  BY DEF PolymarketInv, PolymarketTyped
<1>2. UNCHANGED <<backend, desired, raising, wire, book, seed, exch, drift>>
  BY DEF Polymarket!Dial, Polymarket!Connect, Polymarket!Notice, Polymarket!Resume,
         Polymarket!feedVars
<1>3. \E x \in Polymarket!Loop : x.sub = slot[s].sub /\ slot' = [slot EXCEPT ![s] = x]
  <2>1. CASE Polymarket!Dial(s)
    <3> DEFINE x == [slot[s] EXCEPT !.at = "connecting",
                                    !.want = IF backend = "rust" THEN desired ELSE @]
    <3>1. slot' = [slot EXCEPT ![s] = x]
      BY <2>1 DEF Polymarket!Dial
    <3>2. x \in Polymarket!Loop /\ x.sub = slot[s].sub
      BY <1>1 DEF Polymarket!Loop
    <3> QED BY <3>1, <3>2
  <2>2. CASE Polymarket!Connect(s)
    <3> DEFINE x == [slot[s] EXCEPT !.at = "greeting", !.resub = FALSE,
                                    !.missed = backend = "rust" /\ slot[s].want # desired]
    <3>1. slot' = [slot EXCEPT ![s] = x]
      BY <2>2 DEF Polymarket!Connect
    <3>2. x \in Polymarket!Loop /\ x.sub = slot[s].sub
      BY <1>1 DEF Polymarket!Loop
    <3> QED BY <3>1, <3>2
  <2>3. CASE Polymarket!Notice(s)
    <3> DEFINE x == [slot[s] EXCEPT !.at = "resending", !.resub = FALSE,
                                    !.want = IF backend = "rust" THEN desired ELSE @]
    <3>1. slot' = [slot EXCEPT ![s] = x]
      BY <2>3 DEF Polymarket!Notice
    <3>2. x \in Polymarket!Loop /\ x.sub = slot[s].sub
      BY <1>1 DEF Polymarket!Loop
    <3> QED BY <3>1, <3>2
  <2>4. CASE Polymarket!Resume(s)
    <3> DEFINE x == [slot[s] EXCEPT !.at = "top"]
    <3>1. slot' = [slot EXCEPT ![s] = x]
      BY <2>4 DEF Polymarket!Resume, Polymarket!Goes
    <3>2. x \in Polymarket!Loop /\ x.sub = slot[s].sub
      BY <1>1 DEF Polymarket!Loop
    <3> QED BY <3>1, <3>2
  <2> QED BY <2>1, <2>2, <2>3, <2>4
<1>4. slot' \in [Slot -> Polymarket!Loop] /\ \A u \in Slot : slot'[u].sub = slot[u].sub
  BY <1>1, <1>3
<1>5. PolymarketTyped'
  BY <1>1, <1>2, <1>4 DEF PolymarketTyped
<1> QED BY <1>2, <1>4, <1>5, OffTheWire

LEMMA SubscribeInv ==
  ASSUME PolymarketInv, NEW s \in Slot, Polymarket!Subscribe(s)
  PROVE  PolymarketInv'
<1> DEFINE T == IF backend = "rust" THEN slot[s].want ELSE desired
<1>1. T \in SUBSET Token
  BY DEF PolymarketInv, PolymarketTyped, Polymarket!Loop
<1>2. /\ Polymarket!Greeting(s, T)
      /\ UNCHANGED <<backend, desired, raising, book, seed, exch, drift, left>>
  BY DEF Polymarket!Subscribe, Polymarket!feedVars
<1> HIDE DEF T
<1> QED BY <1>1, <1>2, GreetingInv

LEMMA PolymarketInit == Polymarket!Init => PolymarketInv
<1> SUFFICES ASSUME Polymarket!Init PROVE PolymarketInv
  OBVIOUS
<1>1. PolymarketTyped
  BY DEF Polymarket!Init, PolymarketTyped, Polymarket!Loop
<1>2. \A s \in Slot : slot[s].sub = {}
  BY DEF Polymarket!Init
<1> QED BY <1>1, <1>2, FeedsAssumption
        DEF PolymarketInv, WiresTruthful, BooksComing, BooksRight

LEMMA PolymarketNext == PolymarketInv /\ [Polymarket!Next]_polymarketVars => PolymarketInv'
<1> SUFFICES ASSUME PolymarketInv, [Polymarket!Next]_polymarketVars PROVE PolymarketInv'
  OBVIOUS
<1>1. PolymarketTyped
  BY DEF PolymarketInv
<1>2. CASE UNCHANGED polymarketVars
  BY <1>1, <1>2, OffTheWire DEF polymarketVars, PolymarketTyped
<1>3. CASE Polymarket!UpdateSubscriptions
  <2>1. PolymarketTyped'
    BY <1>1, <1>3 DEF Polymarket!UpdateSubscriptions, Polymarket!feedVars, PolymarketTyped
  <2> QED BY <1>3, <2>1, OffTheWire DEF Polymarket!UpdateSubscriptions, Polymarket!feedVars
<1>4. CASE Polymarket!RaiseFlags
  <2>1. \A x \in Polymarket!Loop : [x EXCEPT !.resub = TRUE] \in Polymarket!Loop
    BY DEF Polymarket!Loop
  <2>2. slot \in [Slot -> Polymarket!Loop]
    BY <1>1 DEF PolymarketTyped
  <2>3. slot' \in [Slot -> Polymarket!Loop] /\ \A s \in Slot : slot'[s].sub = slot[s].sub
    BY <1>4, <2>1, <2>2 DEF Polymarket!RaiseFlags, Polymarket!Loop
  <2>4. PolymarketTyped'
    BY <1>1, <1>4, <2>3 DEF Polymarket!RaiseFlags, Polymarket!feedVars, PolymarketTyped
  <2> QED BY <1>4, <2>3, <2>4, OffTheWire DEF Polymarket!RaiseFlags, Polymarket!feedVars
<1>5. ASSUME NEW s \in Slot, Polymarket!SlotStep(s) PROVE PolymarketInv'
  BY <1>5, LoopInv, SubscribeInv, DisconnectInv, HandleMessageInv DEF Polymarket!SlotStep
<1>6. ASSUME NEW t \in Token, Polymarket!Answer(t) PROVE PolymarketInv'
  <2>1. PolymarketTyped'
    BY <1>1, <1>6 DEF Polymarket!Answer, PolymarketTyped
  <2> QED BY <1>6, <2>1, OffTheWire DEF Polymarket!Answer
<1>7. ASSUME NEW t \in Token, Polymarket!SeedBooks(t) PROVE PolymarketInv'
  BY <1>7, SeedBooksInv
<1>8. ASSUME NEW t \in Token, Polymarket!Quote(t) PROVE PolymarketInv'
  BY <1>8, QuoteInv
<1>9. ASSUME NEW t \in Token, NEW l \in Level, Polymarket!LevelChanges(t, l)
      PROVE  PolymarketInv'
  BY <1>9, LevelChangesInv
<1> QED BY <1>2, <1>3, <1>4, <1>5, <1>6, <1>7, <1>8, <1>9 DEF Polymarket!Next

LEMMA PolymarketHolds == Polymarket!Spec => []PolymarketInv
<1>2. PolymarketInv /\ [Polymarket!Next]_(Polymarket!vars) => PolymarketInv'
  BY PolymarketNext DEF Polymarket!vars, polymarketVars
<1> QED BY <1>2, PolymarketInit, PTL DEF Polymarket!Spec

\* Nothing of a settled token is under way, so its book is right.
LEMMA SettledRight ==
  ASSUME PolymarketInv, NEW t \in Token, Polymarket!Settled(t)
  PROVE  book[t] # NoBook /\ \A l \in Level \ drift[t] : book[t][l] = Right(t, l)
<1>1. \A s \in Slot : /\ t \in slot[s].sub
                      /\ \A i \in 1 .. Len(wire[s]) : ~Polymarket!Mentions(wire[s][i], t)
  <2>1. \A s \in Slot : DOMAIN wire[s] = 1 .. Len(wire[s])
    BY DEF PolymarketInv, PolymarketTyped
  <2> QED BY <2>1 DEF Polymarket!Settled
<1>2. \A m, l : ~Polymarket!Mentions(m, t) => ~Decides(m, t, l) /\ ~HasBook(m, t)
  BY DEF Polymarket!Mentions, Decides, HasBook
<1>3. book[t] # NoBook
  BY <1>1, <1>2, FeedsAssumption DEF PolymarketInv, BooksComing
<1>4. \A l \in Level \ drift[t] : Value(t, l) = Right(t, l)
  BY <1>1, <1>2 DEF PolymarketInv, BooksRight, Pending
<1> QED BY <1>3, <1>4 DEF Value, Polymarket!BookOf

(***************************************************************************)
(* Once both feeds have delivered, the book of a token has the exchange's  *)
(* levels, whatever was lost or delayed in between; a REST answer that was *)
(* overtaken spoils only the levels that had changed behind it.  For any   *)
(* number of slots, tokens, levels and events (apply_snapshot, apply_delta,*)
(* apply_bba, seed_book).                                                  *)
(***************************************************************************)
THEOREM FeedConverges == Polymarket!Spec => []Converged
<1>1. PolymarketInv => Converged
  BY SettledRight DEF Converged, Polymarket!Converged, Right
<1> QED BY <1>1, PolymarketHolds, PTL

\* ... and knows the size of each of them: no quote takes one away.
THEOREM FeedKeepsSizes == Polymarket!Spec => []SizesKept
<1>1. PolymarketInv => SizesKept
  <2> SUFFICES ASSUME PolymarketInv, NEW t \in Token, Polymarket!Settled(t),
                      NEW l \in exch[t] \ drift[t]
               PROVE  book[t][l] = "sized"
    BY DEF SizesKept, Polymarket!SizesKept
  <2>1. l \in Level
    BY DEF PolymarketInv, PolymarketTyped
  <2> QED BY <2>1, SettledRight DEF Right
<1> QED BY <1>1, PolymarketHolds, PTL

-----------------------------------------------------------------------------
(* The subscriptions of the Polymarket feed. *)

\* A flag that is raised, or about to be, is lowered by reading the tokens anew.
LEMMA ToldNext ==
  ASSUME PolymarketTyped, [Polymarket!Next]_polymarketVars, NEW u \in Slot, Told(u)
  PROVE  Told(u)'
<1>1. /\ backend \in {"rust", "python"} /\ slot \in [Slot -> Polymarket!Loop]
      /\ slot[u] \in Polymarket!Loop
  BY DEF PolymarketTyped
<1>2. CASE UNCHANGED <<backend, desired, raising>> /\ slot'[u] = slot[u]
  BY <1>2 DEF Told
<1>3. CASE UNCHANGED polymarketVars
  BY <1>2, <1>3 DEF polymarketVars
<1>4. CASE Polymarket!UpdateSubscriptions
  BY <1>4 DEF Polymarket!UpdateSubscriptions, Told
<1>5. CASE Polymarket!RaiseFlags
  <2>1. slot'[u] = [slot[u] EXCEPT !.resub = TRUE]
    BY <1>5 DEF Polymarket!RaiseFlags
  <2>2. slot'[u].resub
    BY <1>1, <2>1 DEF Polymarket!Loop
  <2> QED BY <2>2 DEF Told
<1>6. ASSUME NEW t \in Token,
             \/ Polymarket!Answer(t) \/ Polymarket!SeedBooks(t) \/ Polymarket!Quote(t)
             \/ \E l \in Level : Polymarket!LevelChanges(t, l)
      PROVE  Told(u)'
  BY <1>2, <1>6 DEF Polymarket!Answer, Polymarket!SeedBooks, Polymarket!Quote,
                    Polymarket!LevelChanges
<1>7. ASSUME NEW s \in Slot, Polymarket!SlotStep(s) PROVE Told(u)'
  <2>1. UNCHANGED <<backend, desired, raising>>
    BY <1>7 DEF Polymarket!SlotStep, Polymarket!Dial, Polymarket!Connect, Polymarket!Subscribe,
                Polymarket!Notice, Polymarket!Disconnect, Polymarket!Resume,
                Polymarket!HandleMessage
  <2>2. CASE s # u
    <3>1. slot'[u] = slot[u]
      BY <1>1, <1>7, <2>2 DEF Polymarket!SlotStep, Polymarket!Dial, Polymarket!Connect,
                Polymarket!Subscribe, Polymarket!Greeting, Polymarket!Notice,
                Polymarket!Disconnect, Polymarket!Resume, Polymarket!HandleMessage,
                Polymarket!Goes
    <3> QED BY <1>2, <2>1, <3>1
  <2>3. CASE s = u
    <3>1. CASE Polymarket!Dial(u) \/ Polymarket!Resume(u) \/ Polymarket!Disconnect(u)
      <4>1. slot'[u].at \in {"connecting", "top", "dead", "pausing"}
        BY <1>1, <3>1 DEF Polymarket!Dial, Polymarket!Resume, Polymarket!Disconnect,
                          Polymarket!Goes, Polymarket!Loop
      <4> QED BY <4>1 DEF Told
    <3>2. CASE Polymarket!Connect(u)
      <4>1. /\ slot'[u].at = "greeting" /\ slot'[u].want = slot[u].want
            /\ slot'[u].missed = (backend = "rust" /\ slot[u].want # desired)
        BY <1>1, <3>2 DEF Polymarket!Connect, Polymarket!Loop
      <4> QED BY <2>1, <4>1 DEF Told
    <3>3. CASE Polymarket!Notice(u)
      <4>1. /\ slot'[u].at = "resending"
            /\ slot'[u].want = IF backend = "rust" THEN desired ELSE slot[u].want
        BY <1>1, <3>3 DEF Polymarket!Notice, Polymarket!Loop
      <4> QED BY <2>1, <4>1 DEF Told
    <3>4. CASE Polymarket!HandleMessage(u)
      <4>1. /\ slot[u].at \in {"receiving", "handling"} /\ slot'[u].at = "receiving"
            /\ slot'[u].sub = slot[u].sub /\ slot'[u].resub = slot[u].resub
            /\ slot'[u].missed = slot[u].missed
        BY <1>1, <3>4 DEF Polymarket!HandleMessage, Polymarket!Goes, Polymarket!Loop
      <4> QED BY <2>1, <4>1 DEF Told
    <3>5. CASE Polymarket!Subscribe(u)
      <4>1. /\ slot[u].at \in {"greeting", "resending"}
            /\ slot'[u].at \in {"receiving", "handling"}
            /\ slot'[u].sub = IF backend = "rust" THEN slot[u].want ELSE desired
            /\ slot'[u].resub = slot[u].resub
            /\ slot'[u].missed = (slot[u].missed /\ slot[u].at = "greeting")
        BY <1>1, <3>5 DEF Polymarket!Subscribe, Polymarket!Greeting, Polymarket!Loop
      <4> QED BY <1>1, <2>1, <4>1 DEF Told
    <3> QED BY <1>7, <2>3, <3>1, <3>2, <3>3, <3>4, <3>5 DEF Polymarket!SlotStep
  <2> QED BY <2>2, <2>3
<1> QED BY <1>3, <1>4, <1>5, <1>6, <1>7 DEF Polymarket!Next

(***************************************************************************)
(* A slot that receives has told the exchange what is wanted, or will, or  *)
(* the tokens changed in the one window of the Rust loop (ws_slot_loop,    *)
(* update_subscriptions).                                                  *)
(***************************************************************************)
THEOREM SubscriptionsFollow == Polymarket!Spec => []MissedOnlyWhileConnecting
<1> DEFINE I == \A s \in Slot : Told(s)
<1>1. Polymarket!Init => I
  BY DEF Polymarket!Init, Told
<1>3. PolymarketInv /\ I /\ [Polymarket!Next]_(Polymarket!vars) => I'
  <2> SUFFICES ASSUME PolymarketInv, I, [Polymarket!Next]_polymarketVars, NEW s \in Slot
               PROVE  Told(s)'
    BY DEF Polymarket!vars, polymarketVars
  <2> QED BY ToldNext DEF PolymarketInv
<1>4. I => MissedOnlyWhileConnecting
  BY DEF Told, MissedOnlyWhileConnecting, Polymarket!MissedOnlyWhileConnecting
<1> QED BY <1>1, <1>3, <1>4, PolymarketHolds, PTL DEF Polymarket!Spec

-----------------------------------------------------------------------------
(***************************************************************************)
(* The Kalshi feed.  One connection carries snapshots and changes in the   *)
(* order the exchange makes them; each change is written to two books, the *)
(* one the complement of the other.                                        *)
(***************************************************************************)

Direction == {"bids", "asks"}
Opposite(d) == IF d = "bids" THEN "asks" ELSE "bids"

\* Whether the books B of a ticker have the YES level p on side d, each in its way.
Yes(B, d, p) == p \in Kalshi!Content(B["yes"])[d]
No(B, d, p) == One - p \in Kalshi!Content(B["no"])[Opposite(d)]
Shows(B, d, p, on) == (Yes(B, d, p) <=> on) /\ (No(B, d, p) <=> on)

\* m says whether level p of side d of t is there.
Tells(m, t, d, p) == m.ticker = t /\ (m.kind = "snapshot" \/ (m.side = d /\ m.price = p))
OnIn(m, d, p) == IF m.kind = "snapshot" THEN p \in m.book[d] ELSE m.on

Untold(q, t, d, p) == \A i \in 1 .. Len(q) : ~Tells(q[i], t, d, p)

\* What a message says of a level is so, or is corrected later.
Honest(q, t, E, d, p) ==
  \A i \in 1 .. Len(q) :
    Tells(q[i], t, d, p) =>
      \/ OnIn(q[i], d, p) <=> p \in E[d]
      \/ \E j \in i + 1 .. Len(q) : Tells(q[j], t, d, p)

BooksOf == [Kalshi!Side -> Kalshi!Book \cup {NoBook}]
Market == [kind : {"snapshot"}, ticker : Ticker, book : Kalshi!Book]
          \cup [kind : {"delta"}, ticker : Ticker, side : Direction, price : Kalshi!Price,
                on : BOOLEAN]

KalshiTyped ==
  /\ kalshiDesired \subseteq Ticker /\ subs \subseteq Ticker
  /\ asking \in [{"run", "update"} -> SUBSET Ticker]
  /\ books \in [Ticker -> BooksOf]
  /\ rest \in [Ticker -> Kalshi!Book \cup {NoBook}] /\ kalshiExch \in [Ticker -> Kalshi!Book]
  /\ kalshiWire \in Seq(Market)
  /\ kalshiDrift \in [Ticker -> BOOLEAN] /\ skipped \in [Ticker -> BOOLEAN]

KalshiTruthful ==
  \A t \in subs, d \in Direction, p \in Kalshi!Price :
    Honest(kalshiWire, t, kalshiExch[t], d, p)

KalshiRight ==
  \A t \in subs, d \in Direction, p \in Kalshi!Price :
    ~kalshiDrift[t] /\ ~skipped[t] /\ Untold(kalshiWire, t, d, p) =>
      Shows(books[t], d, p, p \in kalshiExch[t][d])

KalshiInv == KalshiTyped /\ KalshiTruthful /\ KalshiRight

\* The numbers of the messages (_send), as for orders.
Numbered ==
  /\ seq \in Nat /\ expected \in Nat /\ strayed \in Nat /\ IsFiniteSet(draining)
  /\ link # "open" \/ ~paused => draining = {}
  /\ ~Kalshi!stopping => Kalshi!Logout \notin draining
  /\ link = "open" =>
       /\ seq + Cardinality(draining) = expected + strayed
       /\ ~shared => Cardinality(draining) <= 1
       /\ ~shared /\ strayed = 0 => orderly

\* A request that raises on an old connection loses nothing: _run asks for everything.
Wished ==
  /\ link = "open" =>
       /\ connected /\ kalshiDesired \subseteq subs \cup asking["run"] \cup asking["update"]
       /\ Kalshi!Asks("run") \notin straying
       /\ Kalshi!Asks("update") \in straying => kalshiDesired \subseteq subs \cup asking["run"]
  /\ link = "down" \/ hb # "none" => ~Kalshi!Awaiting("run") /\ asking["run"] = {}
  /\ Kalshi!Beat \in straying => link = "lost"
  /\ Kalshi!Beat \in draining \cup straying => hb # "none"

\* A message that tells the truth about a level may be added.
LEMMA AppendHonest ==
  ASSUME NEW S, NEW q \in Seq(S), NEW m \in S, NEW t, NEW E, NEW F, NEW d, NEW p,
         Tells(m, t, d, p) => (OnIn(m, d, p) <=> p \in F[d]),
         Tells(m, t, d, p) \/ (Honest(q, t, E, d, p) /\ (p \in E[d] <=> p \in F[d]))
  PROVE  /\ Honest(Append(q, m), t, F, d, p)
         /\ Untold(Append(q, m), t, d, p) <=> Untold(q, t, d, p) /\ ~Tells(m, t, d, p)
<1> DEFINE r == Append(q, m)
<1>1. /\ Len(r) = Len(q) + 1 /\ Len(q) \in Nat /\ r[Len(q) + 1] = m
      /\ \A i \in 1 .. Len(q) : r[i] = q[i]
  OBVIOUS
<1> HIDE DEF r
<1>2. Untold(r, t, d, p) <=> Untold(q, t, d, p) /\ ~Tells(m, t, d, p)
  BY <1>1 DEF Untold
<1>3. ASSUME NEW i \in 1 .. Len(r), Tells(r[i], t, d, p), ~(OnIn(r[i], d, p) <=> p \in F[d])
      PROVE  \E j \in i + 1 .. Len(r) : Tells(r[j], t, d, p)
  <2>1. i \in 1 .. Len(q) /\ r[i] = q[i]
    BY <1>1, <1>3
  <2>2. CASE Tells(m, t, d, p)
    <3>1. Len(r) \in i + 1 .. Len(r) /\ r[Len(r)] = m
      BY <1>1, <2>1
    <3> QED BY <2>2, <3>1
  <2>3. CASE ~Tells(m, t, d, p)
    <3>1. PICK j \in i + 1 .. Len(q) : Tells(q[j], t, d, p)
      BY <1>3, <2>1, <2>3 DEF Honest
    <3>2. j \in i + 1 .. Len(r) /\ r[j] = q[j]
      BY <1>1, <2>1
    <3> QED BY <3>1, <3>2
  <2> QED BY <2>2, <2>3
<1>4. Honest(r, t, F, d, p)
  BY <1>3 DEF Honest
<1> QED BY <1>2, <1>4 DEF r

\* What the first message says holds, or a later one speaks of the same level.
LEMMA TailHonest ==
  ASSUME NEW S, NEW q \in Seq(S), q # <<>>, NEW t, NEW E, NEW d, NEW p, Honest(q, t, E, d, p)
  PROVE  /\ Honest(Tail(q), t, E, d, p)
         /\ Untold(Tail(q), t, d, p) /\ Tells(Head(q), t, d, p)
              => (OnIn(Head(q), d, p) <=> p \in E[d])
         /\ Untold(q, t, d, p) <=> Untold(Tail(q), t, d, p) /\ ~Tells(Head(q), t, d, p)
<1> DEFINE r == Tail(q)
<1>1. /\ Len(q) \in Nat /\ Len(q) > 0 /\ Len(r) = Len(q) - 1 /\ Head(q) = q[1]
  OBVIOUS
<1>2. \A i \in 1 .. Len(r) : r[i] = q[i + 1]
  OBVIOUS
<1> HIDE DEF r
<1>3. \A j \in 2 .. Len(q) : j - 1 \in 1 .. Len(r) /\ r[j - 1] = q[j]
  <2> SUFFICES ASSUME NEW j \in 2 .. Len(q) PROVE j - 1 \in 1 .. Len(r) /\ r[j - 1] = q[j]
    OBVIOUS
  <2>1. j - 1 \in 1 .. Len(r) /\ (j - 1) + 1 = j
    BY <1>1
  <2> QED BY <1>2, <2>1
<1>4. Honest(r, t, E, d, p)
  <2> SUFFICES ASSUME NEW i \in 1 .. Len(r), Tells(r[i], t, d, p),
                      ~(OnIn(r[i], d, p) <=> p \in E[d])
               PROVE  \E j \in i + 1 .. Len(r) : Tells(r[j], t, d, p)
    BY DEF Honest
  <2>1. i + 1 \in 1 .. Len(q) /\ r[i] = q[i + 1]
    BY <1>1, <1>2
  <2>2. PICK j \in i + 2 .. Len(q) : Tells(q[j], t, d, p)
    BY <2>1 DEF Honest
  <2>3. j \in 2 .. Len(q) /\ j - 1 \in i + 1 .. Len(r)
    BY <1>1, <2>2
  <2> QED BY <1>3, <2>2, <2>3
<1>5. ASSUME Untold(r, t, d, p), Tells(q[1], t, d, p) PROVE OnIn(q[1], d, p) <=> p \in E[d]
  <2>1. 1 \in 1 .. Len(q)
    BY <1>1
  <2>2. \A j \in 2 .. Len(q) : ~Tells(q[j], t, d, p)
    BY <1>3, <1>5 DEF Untold
  <2> QED BY <1>5, <2>1, <2>2 DEF Honest
<1>6. Untold(q, t, d, p) <=> Untold(r, t, d, p) /\ ~Tells(q[1], t, d, p)
  <2>1. ASSUME Untold(q, t, d, p) PROVE Untold(r, t, d, p) /\ ~Tells(q[1], t, d, p)
    <3>1. \A i \in 1 .. Len(r) : i + 1 \in 1 .. Len(q) /\ 1 \in 1 .. Len(q)
      BY <1>1
    <3> QED BY <1>1, <1>2, <2>1, <3>1 DEF Untold
  <2>2. ASSUME Untold(r, t, d, p), ~Tells(q[1], t, d, p) PROVE Untold(q, t, d, p)
    <3>1. \A i \in 1 .. Len(q) : i = 1 \/ i \in 2 .. Len(q)
      BY <1>1
    <3> QED BY <1>3, <2>2, <3>1 DEF Untold
  <2> QED BY <2>1, <2>2
<1> QED BY <1>1, <1>4, <1>5, <1>6 DEF r

-----------------------------------------------------------------------------
(* What the books show.                                                    *)

LEMMA PriceMirrored ==
  \A p \in Kalshi!Price : One - p \in Kalshi!Price /\ One - (One - p) = p
BY FeedsAssumption DEF Kalshi!Price

LEMMA SidesAreBooks ==
  ASSUME NEW b \in Kalshi!Book
  PROVE  \A s \in Kalshi!Side : Kalshi!Sides(b)[s] \in Kalshi!Book
<1>1. \A P \in SUBSET Kalshi!Price : Kalshi!Complement(P) \in SUBSET Kalshi!Price
  BY PriceMirrored DEF Kalshi!Complement
<1>2. b.bids \in SUBSET Kalshi!Price /\ b.asks \in SUBSET Kalshi!Price
  BY DEF Kalshi!Book
<1>3. Kalshi!Mirror(b) \in Kalshi!Book
  BY <1>1, <1>2 DEF Kalshi!Mirror, Kalshi!Book
<1> QED BY <1>3 DEF Kalshi!Sides

LEMMA SidesShow ==
  ASSUME NEW b \in Kalshi!Book
  PROVE  /\ Kalshi!Sides(b) \in BooksOf
         /\ \A d \in Direction, p \in Kalshi!Price : Shows(Kalshi!Sides(b), d, p, p \in b[d])
<1>1. \A P \in SUBSET Kalshi!Price : Kalshi!Complement(P) \in SUBSET Kalshi!Price
  BY PriceMirrored DEF Kalshi!Complement
<1>2. b.bids \in SUBSET Kalshi!Price /\ b.asks \in SUBSET Kalshi!Price
  BY DEF Kalshi!Book
<1>3. Kalshi!Mirror(b) \in Kalshi!Book
  BY <1>1, <1>2 DEF Kalshi!Mirror, Kalshi!Book
<1>4. /\ Kalshi!Sides(b) \in BooksOf
      /\ Kalshi!Sides(b)["yes"] = b /\ Kalshi!Sides(b)["no"] = Kalshi!Mirror(b)
  BY <1>3 DEF Kalshi!Sides, BooksOf, Kalshi!Side
<1>5. b # NoBook /\ Kalshi!Mirror(b) # NoBook
  BY <1>3, FeedsAssumption
<1>6. ASSUME NEW P \in SUBSET Kalshi!Price, NEW p \in Kalshi!Price
      PROVE  One - p \in Kalshi!Complement(P) <=> p \in P
  <2>1. \A q \in P : One - p = One - q => p = q
    BY FeedsAssumption DEF Kalshi!Price
  <2> QED BY <2>1 DEF Kalshi!Complement
<1>7. Kalshi!Mirror(b).bids = Kalshi!Complement(b.asks)
      /\ Kalshi!Mirror(b).asks = Kalshi!Complement(b.bids)
  BY DEF Kalshi!Mirror
<1>8. ASSUME NEW d \in Direction, NEW p \in Kalshi!Price
      PROVE  Shows(Kalshi!Sides(b), d, p, p \in b[d])
  <2>1. CASE d = "bids"
    BY <1>2, <1>4, <1>5, <1>6, <1>7, <2>1 DEF Shows, Yes, No, Kalshi!Content, Opposite
  <2>2. CASE d = "asks"
    BY <1>2, <1>4, <1>5, <1>6, <1>7, <2>2 DEF Shows, Yes, No, Kalshi!Content, Opposite
  <2> QED BY <2>1, <2>2 DEF Direction
<1> QED BY <1>4, <1>8

LEMMA ContentType ==
  ASSUME NEW b \in Kalshi!Book \cup {NoBook}
  PROVE  Kalshi!Content(b) \in Kalshi!Book
BY DEF Kalshi!Content, Kalshi!Book, Kalshi!Empty

\* A change of a YES level is shown by both books and by no other level.
LEMMA DeltaShows ==
  ASSUME NEW t, NEW B \in BooksOf, books[t] = B,
         NEW m, m.side \in Direction, m.price \in Kalshi!Price, m.on \in BOOLEAN,
         NEW R, R = Kalshi!Delta(t, m)
  PROVE  /\ R \in BooksOf
         /\ Shows(R, m.side, m.price, m.on)
         /\ \A d \in Direction, p \in Kalshi!Price :
              ~(d = m.side /\ p = m.price) =>
                (Yes(R, d, p) <=> Yes(B, d, p)) /\ (No(R, d, p) <=> No(B, d, p))
<1> DEFINE opp == Opposite(m.side)
           y == Kalshi!Content(B["yes"])
           n == Kalshi!Content(B["no"])
           y2 == Kalshi!Changed(B["yes"], m.side, m.price, m.on)
           n2 == Kalshi!Changed(B["no"], opp, One - m.price, m.on)
<1>1. y \in Kalshi!Book /\ n \in Kalshi!Book
  BY ContentType DEF BooksOf, Kalshi!Side
<1>2. One - m.price \in Kalshi!Price /\ opp \in Direction
  BY PriceMirrored DEF Opposite, Direction
<1>3. ASSUME NEW b, Kalshi!Content(b) \in Kalshi!Book, NEW d \in Direction,
             NEW p \in Kalshi!Price
      PROVE  LET c == Kalshi!Changed(b, d, p, m.on)
             IN  /\ c \in Kalshi!Book
                 /\ \A e \in Direction :
                      c[e] = IF e = d THEN Kalshi!Put(Kalshi!Content(b)[e], p, m.on)
                             ELSE Kalshi!Content(b)[e]
  <2> DEFINE k == Kalshi!Content(b)
  <2>1. k.bids \in SUBSET Kalshi!Price /\ k.asks \in SUBSET Kalshi!Price
    BY <1>3 DEF Kalshi!Book
  <2>2. \A P \in SUBSET Kalshi!Price : Kalshi!Put(P, p, m.on) \in SUBSET Kalshi!Price
    BY DEF Kalshi!Put
  <2>3. Kalshi!Changed(b, d, p, m.on) = [k EXCEPT ![d] = Kalshi!Put(k[d], p, m.on)]
    BY DEF Kalshi!Changed
  <2>4. k \in Kalshi!Book
    BY <1>3
  <2> HIDE DEF k
  <2>5. \A e \in Direction : Kalshi!Changed(b, d, p, m.on)[e]
                             = IF e = d THEN Kalshi!Put(k[e], p, m.on) ELSE k[e]
    BY <2>3, <2>4 DEF Kalshi!Book, Direction
  <2>6. Kalshi!Changed(b, d, p, m.on) \in Kalshi!Book
    BY <2>1, <2>2, <2>3, <2>4 DEF Kalshi!Book, Direction
  <2> QED BY <2>5, <2>6 DEF k
<1>4. R = [B EXCEPT !["yes"] = y2, !["no"] = n2]
  <2> DEFINE z == IF m.side = "bids" THEN "asks" ELSE "bids"
  <2>1. R = [B EXCEPT !["yes"] = y2,
                      !["no"] = Kalshi!Changed(B["no"], z, One - m.price, m.on)]
    BY DEF Kalshi!Delta
  <2>2. z = opp
    BY DEF Opposite
  <2> HIDE DEF z
  <2> QED BY <2>1, <2>2
<1>5. y2 \in Kalshi!Book /\ n2 \in Kalshi!Book
  BY <1>1, <1>2, <1>3
<1>8. y2 # NoBook /\ n2 # NoBook
  BY <1>5, FeedsAssumption
<1>9. ASSUME NEW d \in Direction
      PROVE  y2[d] = IF d = m.side THEN Kalshi!Put(y[d], m.price, m.on) ELSE y[d]
  BY <1>1, <1>3
<1>10. ASSUME NEW d \in Direction
       PROVE  n2[d] = IF d = opp THEN Kalshi!Put(n[d], One - m.price, m.on) ELSE n[d]
  BY <1>1, <1>2, <1>3
<1> HIDE DEF y, n, y2, n2
<1>11. R \in BooksOf /\ R["yes"] = y2 /\ R["no"] = n2
  BY <1>4, <1>5 DEF BooksOf, Kalshi!Side
<1>12. \A d, p : (Yes(R, d, p) <=> p \in y2[d]) /\ (No(R, d, p) <=> One - p \in n2[Opposite(d)])
  BY <1>8, <1>11 DEF Yes, No, Kalshi!Content
<1>13. \A d, p : (Yes(B, d, p) <=> p \in y[d]) /\ (No(B, d, p) <=> One - p \in n[Opposite(d)])
  BY DEF Yes, No, y, n
<1>14. \A d \in Direction : Opposite(d) \in Direction /\ (Opposite(d) = opp <=> d = m.side)
  BY DEF Opposite, Direction
<1> HIDE DEF opp
<1>15. ASSUME NEW d \in Direction, NEW p \in Kalshi!Price
       PROVE  /\ Yes(R, d, p) <=> IF d = m.side /\ p = m.price THEN m.on ELSE Yes(B, d, p)
              /\ No(R, d, p) <=> IF d = m.side /\ p = m.price THEN m.on ELSE No(B, d, p)
  <2>1. One - p = One - m.price <=> p = m.price
    BY FeedsAssumption DEF Kalshi!Price
  <2>2. Yes(R, d, p) <=> IF d = m.side /\ p = m.price THEN m.on ELSE Yes(B, d, p)
    <3>1. p \in y2[d] <=> IF d = m.side /\ p = m.price THEN m.on ELSE p \in y[d]
      BY <1>9 DEF Kalshi!Put
    <3> QED BY <1>12, <1>13, <3>1
  <2>3. n2[Opposite(d)] = IF d = m.side THEN Kalshi!Put(n[Opposite(d)], One - m.price, m.on)
                          ELSE n[Opposite(d)]
    BY <1>10, <1>14
  <2>4. No(R, d, p) <=> IF d = m.side /\ p = m.price THEN m.on ELSE No(B, d, p)
    <3>1. One - p \in n2[Opposite(d)]
            <=> IF d = m.side /\ p = m.price THEN m.on ELSE One - p \in n[Opposite(d)]
      BY <2>1, <2>3 DEF Kalshi!Put
    <3> QED BY <1>12, <1>13, <3>1
  <2> QED BY <2>2, <2>4
<1> QED BY <1>11, <1>15 DEF Shows

-----------------------------------------------------------------------------
(* The steps.                                                              *)

\* What a snapshot or a change does to the books, unless it is a snapshot that
\* is skipped over a book with levels.
LEMMA MarketHandled ==
  ASSUME KalshiTyped, Kalshi!Handle, NEW m, m = Head(kalshiWire)
  PROVE  /\ m \in Market /\ books' \in [Ticker -> BooksOf]
         /\ kalshiDrift' \in [Ticker -> BOOLEAN] /\ skipped' \in [Ticker -> BOOLEAN]
         /\ \A t \in Ticker \ {m.ticker} :
              books'[t] = books[t] /\ kalshiDrift'[t] = kalshiDrift[t] /\ skipped'[t] = skipped[t]
         /\ \A t \in Ticker, d \in Direction, p \in Kalshi!Price :
              IF Tells(m, t, d, p)
              THEN skipped'[t] \/ Shows(books'[t], d, p, OnIn(m, d, p))
              ELSE /\ kalshiDrift'[t] = kalshiDrift[t] /\ skipped'[t] = skipped[t]
                   /\ Yes(books'[t], d, p) <=> Yes(books[t], d, p)
                   /\ No(books'[t], d, p) <=> No(books[t], d, p)
<1> DEFINE u == m.ticker
<1>1. kalshiWire \in Seq(Market) /\ kalshiWire # <<>>
  BY DEF KalshiTyped, Kalshi!Handle
<1>2. m \in Market /\ u \in Ticker
  <2>1. m \in Market
    BY <1>1
  <2> QED BY <2>1 DEF Market
<1>3. /\ books \in [Ticker -> BooksOf] /\ books[u] \in BooksOf
      /\ kalshiDrift \in [Ticker -> BOOLEAN] /\ skipped \in [Ticker -> BOOLEAN]
  BY <1>2 DEF KalshiTyped
<1>4. CASE m.kind = "snapshot"
  <2>1. /\ books' = [books EXCEPT ![u] = Kalshi!Snapshot(u, m.book)]
        /\ kalshiDrift' = [kalshiDrift EXCEPT ![u] = @ /\ m.book = Kalshi!Empty]
        /\ skipped' = [skipped EXCEPT ![u] = m.book = Kalshi!Empty /\ Kalshi!Kept(u)]
    BY <1>4 DEF Kalshi!Handle
  <2>2. m.book \in Kalshi!Book
    BY <1>2, <1>4 DEF Market
  <2>3. Kalshi!Snapshot(u, m.book) \in BooksOf
    BY <1>3, <2>2, SidesShow DEF Kalshi!Snapshot
  <2>4. \A t, d, p : Tells(m, t, d, p) <=> t = u
    BY <1>4 DEF Tells
  <2>5. ASSUME ~skipped'[u], NEW d \in Direction, NEW p \in Kalshi!Price
        PROVE  Shows(books'[u], d, p, OnIn(m, d, p))
    <3>1. OnIn(m, d, p) <=> p \in m.book[d]
      BY <1>4 DEF OnIn
    <3>2. CASE m.book = Kalshi!Empty
      <4>1. books'[u] = books[u] /\ ~Kalshi!Kept(u)
        BY <1>2, <1>3, <2>1, <2>5, <3>2 DEF Kalshi!Snapshot
      <4>2. /\ Kalshi!Content(books[u]["yes"]) = Kalshi!Empty
            /\ Kalshi!Content(books[u]["no"]) = Kalshi!Empty
        BY <4>1 DEF Kalshi!Kept, Kalshi!Side
      <4>3. Kalshi!Empty[d] = {} /\ Kalshi!Empty[Opposite(d)] = {}
        BY DEF Kalshi!Empty, Opposite, Direction
      <4> QED BY <3>1, <3>2, <4>1, <4>2, <4>3 DEF Shows, Yes, No
    <3>3. CASE m.book # Kalshi!Empty
      <4>1. books'[u] = Kalshi!Sides(m.book)
        BY <1>2, <1>3, <2>1, <3>3 DEF Kalshi!Snapshot
      <4>2. Shows(Kalshi!Sides(m.book), d, p, p \in m.book[d])
        BY <2>2, SidesShow
      <4> QED BY <3>1, <4>1, <4>2 DEF Shows
    <3> QED BY <3>2, <3>3
  <2>6. books' \in [Ticker -> BooksOf]
    BY <1>2, <1>3, <2>1, <2>3
  <2>7. kalshiDrift' \in [Ticker -> BOOLEAN] /\ skipped' \in [Ticker -> BOOLEAN]
    BY <1>2, <1>3, <2>1
  <2>8. \A t \in Ticker \ {u} :
          books'[t] = books[t] /\ kalshiDrift'[t] = kalshiDrift[t] /\ skipped'[t] = skipped[t]
    BY <1>3, <2>1
  <2> HIDE DEF u
  <2>9. \A t \in Ticker, d \in Direction, p \in Kalshi!Price :
          ~Tells(m, t, d, p) => Yes(books'[t], d, p) <=> Yes(books[t], d, p)
    BY <2>4, <2>8
  <2>10. \A t \in Ticker, d \in Direction, p \in Kalshi!Price :
          ~Tells(m, t, d, p) => No(books'[t], d, p) <=> No(books[t], d, p)
    BY <2>4, <2>8
  <2> QED BY <1>2, <2>4, <2>5, <2>6, <2>7, <2>8, <2>9, <2>10 DEF u
<1>5. CASE m.kind = "delta"
  <2>1. books' = [books EXCEPT ![u] = Kalshi!Delta(u, m)] /\ UNCHANGED <<kalshiDrift, skipped>>
    BY <1>5 DEF Kalshi!Handle, Kalshi!history
  <2>2. m.side \in Direction /\ m.price \in Kalshi!Price /\ m.on \in BOOLEAN
    BY <1>2, <1>5 DEF Market
  <2>3. \A t, d, p : Tells(m, t, d, p) <=> t = u /\ d = m.side /\ p = m.price
    BY <1>5 DEF Tells
  <2>4. \A d, p : OnIn(m, d, p) = m.on
    BY <1>5 DEF OnIn
  <2>5. /\ Kalshi!Delta(u, m) \in BooksOf
        /\ Shows(Kalshi!Delta(u, m), m.side, m.price, m.on)
        /\ \A d \in Direction, p \in Kalshi!Price :
             ~(d = m.side /\ p = m.price) =>
               /\ Yes(Kalshi!Delta(u, m), d, p) <=> Yes(books[u], d, p)
               /\ No(Kalshi!Delta(u, m), d, p) <=> No(books[u], d, p)
    BY <1>3, <2>2, DeltaShows
  <2>6. /\ books' \in [Ticker -> BooksOf] /\ books'[u] = Kalshi!Delta(u, m)
        /\ \A t \in Ticker \ {u} : books'[t] = books[t]
    BY <1>2, <1>3, <2>1, <2>5
  <2> HIDE DEF u
  <2>7. ASSUME NEW t \in Ticker, NEW d \in Direction, NEW p \in Kalshi!Price,
               Tells(m, t, d, p)
        PROVE  Shows(books'[t], d, p, OnIn(m, d, p))
    BY <2>3, <2>4, <2>5, <2>6, <2>7
  <2>8. ASSUME NEW t \in Ticker, NEW d \in Direction, NEW p \in Kalshi!Price,
               ~Tells(m, t, d, p)
        PROVE  /\ Yes(books'[t], d, p) <=> Yes(books[t], d, p)
               /\ No(books'[t], d, p) <=> No(books[t], d, p)
    <3>1. CASE t = u
      BY <2>3, <2>5, <2>6, <2>8, <3>1
    <3>2. CASE t # u
      BY <2>6, <3>2
    <3> QED BY <3>1, <3>2
  <2> QED BY <1>2, <1>3, <2>1, <2>6, <2>7, <2>8 DEF u
<1> QED BY <1>4, <1>5 DEF Kalshi!Handle

LEMMA HandleKeeps ==
  ASSUME KalshiInv, Kalshi!Handle
  PROVE  KalshiInv'
<1> DEFINE m == Head(kalshiWire)
<1>1. /\ KalshiTyped /\ kalshiWire \in Seq(Market) /\ kalshiWire # <<>>
      /\ kalshiWire' = Tail(kalshiWire)
      /\ UNCHANGED <<kalshiDesired, asking, rest, subs, kalshiExch>>
  BY DEF KalshiInv, KalshiTyped, Kalshi!Handle, Kalshi!client, Kalshi!market
<1>2. /\ m \in Market /\ books' \in [Ticker -> BooksOf]
      /\ kalshiDrift' \in [Ticker -> BOOLEAN] /\ skipped' \in [Ticker -> BOOLEAN]
      /\ \A t \in Ticker, d \in Direction, p \in Kalshi!Price :
           IF Tells(m, t, d, p)
           THEN skipped'[t] \/ Shows(books'[t], d, p, OnIn(m, d, p))
           ELSE /\ kalshiDrift'[t] = kalshiDrift[t] /\ skipped'[t] = skipped[t]
                /\ Yes(books'[t], d, p) <=> Yes(books[t], d, p)
                /\ No(books'[t], d, p) <=> No(books[t], d, p)
  BY <1>1, MarketHandled
<1>3. \A t, E, d, p : Honest(kalshiWire, t, E, d, p) =>
        /\ Honest(Tail(kalshiWire), t, E, d, p)
        /\ Untold(Tail(kalshiWire), t, d, p) /\ Tells(m, t, d, p)
             => (OnIn(m, d, p) <=> p \in E[d])
        /\ Untold(kalshiWire, t, d, p) <=> Untold(Tail(kalshiWire), t, d, p) /\ ~Tells(m, t, d, p)
  BY <1>1, TailHonest
<1>4. kalshiWire' \in Seq(Market) /\ subs \subseteq Ticker
  BY <1>1 DEF KalshiTyped
<1> HIDE DEF m
<1>5. KalshiTyped'
  BY <1>1, <1>2, <1>4 DEF KalshiTyped
<1>6. KalshiTruthful'
  BY <1>1, <1>3 DEF KalshiInv, KalshiTruthful
<1>7. KalshiRight'
  <2> SUFFICES ASSUME NEW t \in subs, NEW d \in Direction, NEW p \in Kalshi!Price,
                      ~kalshiDrift'[t], ~skipped'[t], Untold(kalshiWire', t, d, p)
               PROVE  Shows(books'[t], d, p, p \in kalshiExch[t][d])
    BY <1>1 DEF KalshiRight
  <2>1. t \in Ticker /\ Honest(kalshiWire, t, kalshiExch[t], d, p)
    BY <1>4 DEF KalshiInv, KalshiTruthful
  <2>2. CASE Tells(m, t, d, p)
    <3>1. OnIn(m, d, p) <=> p \in kalshiExch[t][d]
      BY <1>1, <1>3, <2>1, <2>2
    <3>2. Shows(books'[t], d, p, OnIn(m, d, p))
      BY <1>2, <2>1, <2>2
    <3> QED BY <3>1, <3>2 DEF Shows
  <2>3. CASE ~Tells(m, t, d, p)
    <3>1. Untold(kalshiWire, t, d, p)
      BY <1>1, <1>3, <2>1, <2>3
    <3>2. /\ ~kalshiDrift[t] /\ ~skipped[t]
          /\ Yes(books'[t], d, p) <=> Yes(books[t], d, p)
          /\ No(books'[t], d, p) <=> No(books[t], d, p)
      BY <1>2, <2>1, <2>3
    <3>3. Shows(books[t], d, p, p \in kalshiExch[t][d])
      BY <3>1, <3>2 DEF KalshiInv, KalshiRight
    <3> QED BY <3>2, <3>3 DEF Shows
  <2> QED BY <2>2, <2>3
<1> QED BY <1>5, <1>6, <1>7 DEF KalshiInv

\* A connection that is cut, or a step beside the books.
LEMMA OffTheFeed ==
  ASSUME KalshiInv, KalshiTyped', UNCHANGED <<books, kalshiExch, kalshiDrift, skipped>>,
         UNCHANGED <<kalshiWire, subs>> \/ subs' = {}
  PROVE  KalshiInv'
<1>1. KalshiTruthful'
  BY DEF KalshiInv, KalshiTruthful
<1>2. KalshiRight'
  BY DEF KalshiInv, KalshiRight
<1> QED BY <1>1, <1>2 DEF KalshiInv

LEMMA AskKeeps ==
  ASSUME KalshiInv, NEW by \in {"run", "update"}, Kalshi!Ask(by)
  PROVE  KalshiInv'
<1>1. PICK t \in asking[by] :
        /\ asking' = [asking EXCEPT ![by] = @ \ {t}]
        /\ IF link = "open"
           THEN /\ subs' = subs \cup {t}
                /\ kalshiWire' = Append(kalshiWire, [kind |-> "snapshot", ticker |-> t,
                                                    book |-> kalshiExch[t]])
           ELSE UNCHANGED <<subs, kalshiWire>>
  BY DEF Kalshi!Ask
<1>2. UNCHANGED <<kalshiDesired, books, rest, kalshiExch, kalshiDrift, skipped>>
  BY DEF Kalshi!Ask, Kalshi!history
<1>3. KalshiTyped /\ t \in Ticker /\ asking' \in [{"run", "update"} -> SUBSET Ticker]
  BY <1>1 DEF KalshiInv, KalshiTyped
<1>4. CASE link # "open"
  <2>1. KalshiTyped'
    BY <1>1, <1>2, <1>3, <1>4 DEF KalshiTyped
  <2> QED BY <1>1, <1>2, <1>4, <2>1, OffTheFeed
<1>5. CASE link = "open"
  <2> DEFINE m == [kind |-> "snapshot", ticker |-> t, book |-> kalshiExch[t]]
  <2>1. m \in Market /\ kalshiWire \in Seq(Market)
    BY <1>3 DEF Market, KalshiTyped
  <2>2. \A u, d, p : /\ Tells(m, u, d, p) <=> u = t
                     /\ OnIn(m, d, p) <=> p \in kalshiExch[t][d]
    BY DEF Tells, OnIn
  <2> HIDE DEF m
  <2>3. kalshiWire' = Append(kalshiWire, m) /\ subs' = subs \cup {t}
    BY <1>1, <1>5 DEF m
  <2>4. KalshiTyped'
    BY <1>2, <1>3, <2>1, <2>3 DEF KalshiTyped
  <2>5. ASSUME NEW u \in subs', NEW d \in Direction, NEW p \in Kalshi!Price
        PROVE  /\ Honest(kalshiWire', u, kalshiExch[u], d, p)
               /\ Untold(kalshiWire', u, d, p) <=> Untold(kalshiWire, u, d, p) /\ u # t
    <3>1. u = t \/ Honest(kalshiWire, u, kalshiExch[u], d, p)
      BY <2>3 DEF KalshiInv, KalshiTruthful
    <3>2. Tells(m, u, d, p) => (OnIn(m, d, p) <=> p \in kalshiExch[u][d])
      BY <2>2
    <3>3. Tells(m, u, d, p) <=> u = t
      BY <2>2
    <3> QED BY <2>1, <2>3, <3>1, <3>2, <3>3, AppendHonest
  <2>6. KalshiTruthful'
    BY <1>2, <2>5 DEF KalshiTruthful
  <2>7. KalshiRight'
    <3> SUFFICES ASSUME NEW u \in subs', NEW d \in Direction, NEW p \in Kalshi!Price,
                        ~kalshiDrift[u], ~skipped[u], Untold(kalshiWire', u, d, p)
                 PROVE  Shows(books[u], d, p, p \in kalshiExch[u][d])
      BY <1>2 DEF KalshiRight
    <3>1. u \in subs /\ Untold(kalshiWire, u, d, p)
      BY <2>3, <2>5
    <3> QED BY <3>1 DEF KalshiInv, KalshiRight
  <2> QED BY <2>4, <2>6, <2>7 DEF KalshiInv
<1> QED BY <1>4, <1>5

\* REST books that are still the exchange's leave the books right; others are drift.
LEMMA SeedKeeps ==
  ASSUME KalshiInv, NEW t \in Ticker, Kalshi!SeedBooks(t)
  PROVE  KalshiInv'
<1>1. PICK S \in (SUBSET Kalshi!Side) \ {{}} :
        books' = [books EXCEPT ![t] =
                    [s \in Kalshi!Side |-> IF s \in S THEN Kalshi!Sides(rest[t])[s] ELSE @[s]]]
  BY DEF Kalshi!SeedBooks
<1>2. /\ rest[t] # NoBook /\ rest' = [rest EXCEPT ![t] = NoBook]
      /\ kalshiDrift' = [kalshiDrift EXCEPT ![t] = @ \/ rest[t] # kalshiExch[t]]
      /\ UNCHANGED <<kalshiDesired, asking, subs, kalshiExch, kalshiWire, skipped>>
  BY DEF Kalshi!SeedBooks, Kalshi!client, Kalshi!market
<1>3. KalshiTyped /\ rest[t] \in Kalshi!Book /\ books[t] \in BooksOf
  BY <1>2 DEF KalshiInv, KalshiTyped
<1> DEFINE B == [s \in Kalshi!Side |-> IF s \in S THEN Kalshi!Sides(rest[t])[s] ELSE books[t][s]]
<1>4. /\ Kalshi!Sides(rest[t]) \in BooksOf
      /\ \A d \in Direction, p \in Kalshi!Price :
           Shows(Kalshi!Sides(rest[t]), d, p, p \in rest[t][d])
  BY <1>3, SidesShow
<1>5. /\ B \in BooksOf
      /\ \A s \in {"yes", "no"} : B[s] = Kalshi!Sides(rest[t])[s] \/ B[s] = books[t][s]
  BY <1>3, <1>4 DEF BooksOf, Kalshi!Side
<1>6. books' = [books EXCEPT ![t] = B]
  BY <1>1
<1> HIDE DEF B
<1>7. KalshiTyped'
  <2>1. books' \in [Ticker -> BooksOf]
    BY <1>3, <1>5, <1>6 DEF KalshiTyped
  <2>2. kalshiDrift' \in [Ticker -> BOOLEAN] /\ rest' \in [Ticker -> Kalshi!Book \cup {NoBook}]
    BY <1>2, <1>3 DEF KalshiTyped
  <2> QED BY <1>2, <1>3, <2>1, <2>2 DEF KalshiTyped
<1>8. KalshiTruthful'
  BY <1>2 DEF KalshiInv, KalshiTruthful
<1>9. KalshiRight'
  <2> SUFFICES ASSUME NEW u \in subs, NEW d \in Direction, NEW p \in Kalshi!Price,
                      ~kalshiDrift'[u], ~skipped[u], Untold(kalshiWire, u, d, p)
               PROVE  Shows(books'[u], d, p, p \in kalshiExch[u][d])
    BY <1>2 DEF KalshiRight
  <2>1. u \in Ticker /\ kalshiDrift \in [Ticker -> BOOLEAN] /\ books \in [Ticker -> BooksOf]
    BY <1>3 DEF KalshiTyped
  <2>2. ~kalshiDrift[u] /\ (u = t => rest[t] = kalshiExch[t])
    BY <1>2, <2>1
  <2>3. Shows(books[u], d, p, p \in kalshiExch[u][d])
    BY <2>2 DEF KalshiInv, KalshiRight
  <2>4. CASE u # t
    BY <1>6, <2>1, <2>3, <2>4
  <2>5. CASE u = t
    <3>1. books'[u] = B
      BY <1>6, <2>1, <2>5
    <3>2. Shows(Kalshi!Sides(rest[t]), d, p, p \in kalshiExch[u][d])
      BY <1>4, <2>2, <2>5
    <3>3. Yes(B, d, p) <=> p \in kalshiExch[u][d]
      BY <1>5, <2>3, <2>5, <3>2 DEF Shows, Yes
    <3>4. No(B, d, p) <=> p \in kalshiExch[u][d]
      BY <1>5, <2>3, <2>5, <3>2 DEF Shows, No
    <3> QED BY <3>1, <3>3, <3>4 DEF Shows
  <2> QED BY <2>4, <2>5
<1> QED BY <1>7, <1>8, <1>9 DEF KalshiInv

\* The exchange changes a level and tells whom it concerns.
LEMMA ChangeKeeps ==
  ASSUME KalshiInv, NEW t \in Ticker, NEW side \in Direction, NEW price \in Kalshi!Price,
         Kalshi!LevelChanges(t, side, price)
  PROVE  KalshiInv'
<1> DEFINE on == price \notin kalshiExch[t][side]
           after == [kalshiExch[t] EXCEPT ![side] = Kalshi!Put(@, price, on)]
           m == [kind |-> "delta", ticker |-> t, side |-> side, price |-> price, on |-> on]
<1>1. /\ kalshiExch' = [kalshiExch EXCEPT ![t] = after]
      /\ kalshiWire' = IF t \notin subs THEN kalshiWire ELSE Append(kalshiWire, m)
      /\ UNCHANGED <<kalshiDesired, asking, books, rest, subs, kalshiDrift, skipped>>
  BY DEF Kalshi!LevelChanges, Kalshi!client, Kalshi!history
<1>2. KalshiTyped /\ kalshiExch[t] \in Kalshi!Book
  BY DEF KalshiInv, KalshiTyped
<1>3. on \in BOOLEAN
  OBVIOUS
<1>4. \A d \in Direction : after[d] = IF d = side THEN Kalshi!Put(kalshiExch[t][side], price, on)
                                      ELSE kalshiExch[t][d]
  BY <1>2 DEF Kalshi!Book, Direction
<1>5. \A d \in Direction, p \in Kalshi!Price :
        p \in after[d] <=> IF d = side /\ p = price THEN on ELSE p \in kalshiExch[t][d]
  BY <1>4 DEF Kalshi!Put
<1>6. after \in Kalshi!Book
  <2>1. Kalshi!Put(kalshiExch[t][side], price, on) \in SUBSET Kalshi!Price
    BY <1>2 DEF Kalshi!Put, Kalshi!Book, Direction
  <2> HIDE DEF on
  <2> QED BY <1>2, <2>1 DEF Kalshi!Book, Direction
<1>7. m \in Market /\ kalshiWire \in Seq(Market)
  BY <1>2, <1>3 DEF Market, KalshiTyped
<1>8. \A u, d, p : /\ Tells(m, u, d, p) <=> u = t /\ d = side /\ p = price
                   /\ OnIn(m, d, p) <=> on
  BY DEF Tells, OnIn
<1> HIDE DEF after, m, on
<1>9. KalshiTyped'
  <2>1. kalshiWire' \in Seq(Market)
    BY <1>1, <1>7
  <2>2. kalshiExch' \in [Ticker -> Kalshi!Book]
    BY <1>1, <1>2, <1>6 DEF KalshiTyped
  <2> QED BY <1>1, <1>2, <2>1, <2>2 DEF KalshiTyped
<1>10. /\ kalshiExch'[t] = after /\ \A u \in Ticker \ {t} : kalshiExch'[u] = kalshiExch[u]
       /\ subs \subseteq Ticker
  BY <1>1, <1>2 DEF KalshiTyped
<1>11. ASSUME NEW u \in subs, NEW d \in Direction, NEW p \in Kalshi!Price
       PROVE  /\ Honest(kalshiWire', u, kalshiExch'[u], d, p)
              /\ Untold(kalshiWire', u, d, p) =>
                   Untold(kalshiWire, u, d, p) /\ (p \in kalshiExch'[u][d] <=> p \in kalshiExch[u][d])
  <2>1. Honest(kalshiWire, u, kalshiExch[u], d, p)
    BY DEF KalshiInv, KalshiTruthful
  <2>2. CASE u # t /\ t \notin subs
    BY <1>1, <1>10, <2>1, <2>2
  <2>3. CASE t \in subs
    <3>1. Tells(m, u, d, p) \/ (p \in kalshiExch[u][d] <=> p \in kalshiExch'[u][d])
      BY <1>5, <1>8, <1>10
    <3>2. Tells(m, u, d, p) => (OnIn(m, d, p) <=> p \in kalshiExch'[u][d])
      BY <1>5, <1>8, <1>10
    <3>3. kalshiWire' = Append(kalshiWire, m)
      BY <1>1, <2>3
    <3> QED BY <1>7, <2>1, <3>1, <3>2, <3>3, AppendHonest
  <2> QED BY <2>2, <2>3
<1>12. KalshiTruthful'
  BY <1>1, <1>11 DEF KalshiTruthful
<1>13. KalshiRight'
  <2> SUFFICES ASSUME NEW u \in subs, NEW d \in Direction, NEW p \in Kalshi!Price,
                      ~kalshiDrift[u], ~skipped[u], Untold(kalshiWire', u, d, p)
               PROVE  Shows(books[u], d, p, p \in kalshiExch'[u][d])
    BY <1>1 DEF KalshiRight
  <2>1. /\ Untold(kalshiWire, u, d, p)
        /\ p \in kalshiExch'[u][d] <=> p \in kalshiExch[u][d]
    BY <1>11
  <2>2. Shows(books[u], d, p, p \in kalshiExch[u][d])
    BY <2>1 DEF KalshiInv, KalshiRight
  <2> QED BY <2>1, <2>2 DEF Shows
<1> QED BY <1>9, <1>12, <1>13 DEF KalshiInv

LEMMA KalshiInit == Kalshi!Init => KalshiInv
<1> SUFFICES ASSUME Kalshi!Init PROVE KalshiInv
  OBVIOUS
<1>1. NoBook \in Kalshi!Book \cup {NoBook}
  OBVIOUS
<1>2. 1 \in Kalshi!Price /\ One - 1 \in Kalshi!Price
  BY FeedsAssumption DEF Kalshi!Price
<1>4. [bids |-> {1}, asks |-> {One - 1}] \in Kalshi!Book
  BY <1>2 DEF Kalshi!Book
<1>5. kalshiExch \in [Ticker -> Kalshi!Book]
  BY <1>4 DEF Kalshi!Init
<1>3. KalshiTyped
  BY <1>1, <1>5 DEF Kalshi!Init, KalshiTyped, BooksOf
<1> QED BY <1>3 DEF Kalshi!Init, KalshiInv, KalshiTruthful, KalshiRight

LEMMA KalshiNext == KalshiInv /\ [Kalshi!Next]_kalshiVars => KalshiInv'
<1> SUFFICES ASSUME KalshiInv, [Kalshi!Next]_kalshiVars PROVE KalshiInv'
  OBVIOUS
<1>1. KalshiTyped
  BY DEF KalshiInv
<1>2. ASSUME UNCHANGED <<kalshiDesired, asking, books, rest, subs, kalshiWire, kalshiExch,
                         kalshiDrift, skipped>>
      PROVE  KalshiInv'
  <2>1. KalshiTyped'
    BY <1>1, <1>2 DEF KalshiTyped
  <2> QED BY <1>2, <2>1, OffTheFeed
<1>3. CASE UNCHANGED kalshiVars
  BY <1>2, <1>3 DEF kalshiVars
<1>4. CASE Kalshi!UpdateSubscriptions
  <2>1. PICK T \in (SUBSET Ticker) \ {kalshiDesired} :
          /\ kalshiDesired' = T
          /\ asking' = [asking EXCEPT !["update"] = IF connected THEN T \ kalshiDesired ELSE {}]
    BY <1>4 DEF Kalshi!UpdateSubscriptions
  <2>2. UNCHANGED <<books, rest, subs, kalshiWire, kalshiExch, kalshiDrift, skipped>>
    BY <1>4 DEF Kalshi!UpdateSubscriptions, Kalshi!market, Kalshi!history
  <2>3. KalshiTyped'
    BY <1>1, <2>1, <2>2 DEF KalshiTyped
  <2> QED BY <2>2, <2>3, OffTheFeed
<1>5. CASE Kalshi!Ask("run") \/ Kalshi!Ask("update")
  BY <1>5, AskKeeps
<1>6. CASE Kalshi!Dial
  <2>1. asking' = [asking EXCEPT !["run"] = kalshiDesired]
        /\ UNCHANGED <<kalshiDesired, books, rest, subs, kalshiWire, kalshiExch, kalshiDrift, skipped>>
    BY <1>6 DEF Kalshi!Dial, Kalshi!market, Kalshi!history
  <2>2. KalshiTyped'
    BY <1>1, <2>1 DEF KalshiTyped
  <2> QED BY <2>1, <2>2, OffTheFeed
<1>7. CASE Kalshi!StartReading
  BY <1>2, <1>7 DEF Kalshi!StartReading, Kalshi!client, Kalshi!market, Kalshi!history
<1>8. CASE Kalshi!SessionMoves
  <2>1. /\ UNCHANGED <<kalshiWire, subs>> \/ (kalshiWire' = <<>> /\ subs' = {})
        /\ UNCHANGED <<kalshiDesired, asking, books, rest, kalshiExch, kalshiDrift, skipped>>
    BY <1>8 DEF Kalshi!SessionMoves, Kalshi!client, Kalshi!history
  <2>3. <<>> \in Seq(Market) /\ {} \subseteq Ticker
    OBVIOUS
  <2>2. KalshiTyped'
    BY <1>1, <2>1, <2>3 DEF KalshiTyped
  <2> QED BY <2>1, <2>2, OffTheFeed
<1>9. ASSUME NEW x \in straying, Kalshi!Woken(x) PROVE KalshiInv'
  <2>1. /\ \E returns \in BOOLEAN :
             asking' = [by \in {"run", "update"} |->
                          IF x = Kalshi!Asks(by) /\ ~returns THEN {} ELSE asking[by]]
        /\ UNCHANGED <<kalshiDesired, books, rest, subs, kalshiWire, kalshiExch, kalshiDrift,
                       skipped>>
    BY <1>9 DEF Kalshi!Woken, Kalshi!market, Kalshi!history
  <2>2. asking' \in [{"run", "update"} -> SUBSET Ticker]
    BY <1>1, <2>1 DEF KalshiTyped
  <2>3. KalshiTyped'
    BY <1>1, <2>1, <2>2 DEF KalshiTyped
  <2> QED BY <2>1, <2>3, OffTheFeed
<1>11. CASE Kalshi!Handle
  BY <1>11, HandleKeeps
<1>12. ASSUME NEW t \in Ticker, Kalshi!RestAnswers(t) PROVE KalshiInv'
  <2>1. /\ rest' = [rest EXCEPT ![t] = kalshiExch[t]]
        /\ UNCHANGED <<kalshiDesired, asking, books, subs, kalshiWire, kalshiExch, kalshiDrift, skipped>>
    BY <1>12 DEF Kalshi!RestAnswers, Kalshi!client, Kalshi!market, Kalshi!history
  <2>2. KalshiTyped'
    BY <1>1, <2>1 DEF KalshiTyped
  <2> QED BY <2>1, <2>2, OffTheFeed
<1>13. ASSUME NEW t \in Ticker, Kalshi!SeedBooks(t) PROVE KalshiInv'
  BY <1>13, SeedKeeps
<1>14. ASSUME NEW t \in Ticker, NEW side \in {"bids", "asks"}, NEW p \in Kalshi!Price,
              Kalshi!LevelChanges(t, side, p)
       PROVE  KalshiInv'
  BY <1>14, ChangeKeeps DEF Direction
<1> QED BY <1>3, <1>4, <1>5, <1>6, <1>7, <1>8, <1>9, <1>11, <1>12, <1>13, <1>14 DEF Kalshi!Next

LEMMA KalshiHolds == Kalshi!Spec => []KalshiInv
<1>1. KalshiInv /\ [Kalshi!Next]_(Kalshi!vars) => KalshiInv'
  BY KalshiNext DEF Kalshi!vars, Kalshi!session, kalshiVars
<1> QED BY <1>1, KalshiInit, PTL DEF Kalshi!Spec

(***************************************************************************)
(* Both books of a ticker are the exchange's once its messages are handled *)
(* (_update_books_from_yes_side, _apply_incremental_deltas), for any       *)
(* tickers and prices, through reconnections and REST seeds.               *)
(***************************************************************************)
THEOREM FeedMirrors == Kalshi!Spec => []MirrorsExchange
<1>1. ASSUME KalshiInv PROVE MirrorsExchange
  <2> SUFFICES ASSUME NEW t \in Ticker, Kalshi!Settled(t), ~kalshiDrift[t], ~skipped[t],
                      NEW s \in Kalshi!Side
               PROVE  Kalshi!Content(books[t][s]) = Kalshi!Sides(kalshiExch[t])[s]
    BY DEF MirrorsExchange, Kalshi!MirrorsExchange, Kalshi!Agrees
  <2> DEFINE B == books[t]
             E == kalshiExch[t]
  <2>1. /\ B \in BooksOf /\ E \in Kalshi!Book /\ kalshiWire \in Seq(Market)
        /\ t \in subs
    BY <1>1 DEF KalshiInv, KalshiTyped, Kalshi!Settled
  <2>2. \A d, p : Untold(kalshiWire, t, d, p)
    BY <2>1 DEF Kalshi!Settled, Untold, Tells
  <2>3. \A d \in Direction, p \in Kalshi!Price : Shows(B, d, p, p \in E[d])
    BY <1>1, <2>1, <2>2 DEF KalshiInv, KalshiRight
  <2>4. /\ Kalshi!Sides(E) \in BooksOf
        /\ \A d \in Direction, p \in Kalshi!Price : Shows(Kalshi!Sides(E), d, p, p \in E[d])
    BY <2>1, SidesShow
  <2> HIDE DEF B, E
  <2>5. ASSUME NEW d \in Direction
        PROVE  /\ Kalshi!Content(B["yes"])[d] = Kalshi!Content(Kalshi!Sides(E)["yes"])[d]
               /\ Kalshi!Content(B["no"])[d] = Kalshi!Content(Kalshi!Sides(E)["no"])[d]
    <3>1. /\ Kalshi!Content(B["yes"])[d] \subseteq Kalshi!Price
          /\ Kalshi!Content(B["no"])[d] \subseteq Kalshi!Price
          /\ Kalshi!Content(Kalshi!Sides(E)["yes"])[d] \subseteq Kalshi!Price
          /\ Kalshi!Content(Kalshi!Sides(E)["no"])[d] \subseteq Kalshi!Price
      BY <2>1, <2>4, ContentType DEF BooksOf, Kalshi!Side, Kalshi!Book, Direction
    <3>2. \A p \in Kalshi!Price : Yes(B, d, p) <=> Yes(Kalshi!Sides(E), d, p)
      BY <2>3, <2>4 DEF Shows
    <3>3. \A p \in Kalshi!Price :
            No(B, Opposite(d), One - p) <=> No(Kalshi!Sides(E), Opposite(d), One - p)
      BY <2>3, <2>4, PriceMirrored DEF Shows, Opposite, Direction
    <3>4. \A p \in Kalshi!Price : One - (One - p) = p /\ Opposite(Opposite(d)) = d
      BY PriceMirrored DEF Opposite, Direction
    <3>5. Kalshi!Content(B["yes"])[d] = Kalshi!Content(Kalshi!Sides(E)["yes"])[d]
      BY <3>1, <3>2 DEF Yes
    <3>6. Kalshi!Content(B["no"])[d] = Kalshi!Content(Kalshi!Sides(E)["no"])[d]
      <4> SUFFICES ASSUME NEW p \in Kalshi!Price
                   PROVE  p \in Kalshi!Content(B["no"])[d]
                            <=> p \in Kalshi!Content(Kalshi!Sides(E)["no"])[d]
        BY <3>1
      <4> QED BY <3>3, <3>4 DEF No
    <3> QED BY <3>5, <3>6
  <2>6. Kalshi!Sides(E)[s] \in Kalshi!Book
    BY <2>1, SidesAreBooks
  <2>7. Kalshi!Content(Kalshi!Sides(E)[s]) = Kalshi!Sides(E)[s]
    BY <2>6, FeedsAssumption DEF Kalshi!Content
  <2>8. /\ Kalshi!Content(B[s]) \in Kalshi!Book
        /\ s = "yes" \/ s = "no"
    BY <2>1, ContentType DEF BooksOf, Kalshi!Side
  <2>9. \A d \in Direction : Kalshi!Content(B[s])[d] = Kalshi!Sides(E)[s][d]
    BY <2>5, <2>7, <2>8
  <2>10. Kalshi!Content(B[s]) = Kalshi!Sides(E)[s]
    BY <2>6, <2>8, <2>9 DEF Kalshi!Book, Direction
  <2> QED BY <2>10 DEF B, E
<1> QED BY <1>1, KalshiHolds, PTL

-----------------------------------------------------------------------------
(* Numbers and subscriptions.                                              *)

LEMMA SameCount == \A X : Kalshi!Cardinality(X) = Cardinality(X)
BY DEF Kalshi!Cardinality, Cardinality

\* Senders join those that are held back, and no others.
LEMMA SendDrains ==
  ASSUME NEW X, Kalshi!Send(X)
  PROVE  /\ draining \subseteq draining' /\ draining' \subseteq draining \cup X
         /\ UNCHANGED straying
BY DEF Kalshi!Send

LEMMA SendNumbered ==
  ASSUME Numbered, NEW x, Kalshi!Send({x}), x \notin draining, UNCHANGED <<link, paused>>,
         ~Kalshi!stopping' => x # Kalshi!Logout /\ ~Kalshi!stopping
  PROVE  Numbered'
<1>1. /\ IsFiniteSet(draining) /\ IsFiniteSet({x}) /\ Cardinality({x}) = 1
      /\ seq \in Nat /\ expected \in Nat /\ strayed \in Nat
  BY FS_Singleton DEF Numbered
<1>2. /\ IsFiniteSet(draining \cup {x}) /\ Cardinality(draining) \in Nat
      /\ Cardinality(draining \cup {x}) = Cardinality(draining) + 1
  BY <1>1, FS_AddElement, FS_CardinalityType
<1>3. ~Kalshi!stopping' => Kalshi!Logout \notin draining'
  BY SendDrains DEF Numbered
<1>4. strayed' = strayed
  BY DEF Kalshi!Send
<1>5. CASE link = "open" /\ paused
  <2>1. /\ seq' = seq /\ draining' = draining \cup {x} /\ expected' = expected + 1
        /\ shared' <=> shared \/ Cardinality(draining \cup {x}) > 1
        /\ orderly' <=> orderly /\ seq = expected
    <3>1. {x} # {} /\ Kalshi!Cardinality({x}) = 1
          /\ Kalshi!Cardinality(draining \cup {x}) = Cardinality(draining \cup {x})
      BY <1>1, SameCount
    <3>2. /\ seq' = seq /\ draining' = draining \cup {x} /\ expected' = expected + 1
      BY <1>5, <3>1 DEF Kalshi!Send
    <3>3. /\ shared' = (shared \/ (paused /\ {x} # {} /\ Kalshi!Cardinality(draining \cup {x}) > 1))
          /\ orderly' = (orderly /\ ({x} # {} => seq = expected)
                                 /\ (paused => Kalshi!Cardinality({x}) <= 1))
      BY <1>5, Zenon DEF Kalshi!Send
    <3>4. 1 <= 1
      OBVIOUS
    <3>5. shared' <=> shared \/ Cardinality(draining \cup {x}) > 1
      BY <1>5, <3>1, <3>3, Zenon
    <3>6. orderly' <=> orderly /\ seq = expected
      BY <1>5, <3>1, <3>3, <3>4, Zenon
    <3> QED BY <3>2, <3>5, <3>6
  <2>2. seq + Cardinality(draining) = expected + strayed
        /\ (~shared /\ strayed = 0 => orderly)
    BY <1>5 DEF Numbered
  <2>3. ~shared' => Cardinality(draining) = 0 /\ ~shared
    BY <1>2, <2>1
  <2>4. ~shared' /\ strayed = 0 => orderly'
    BY <1>1, <2>1, <2>2, <2>3
  <2>5. ~shared' => Cardinality(draining') <= 1
    BY <1>2, <2>1, <2>3
  <2>6. seq' + Cardinality(draining') = expected' + strayed'
    BY <1>1, <1>2, <1>4, <2>1, <2>2
  <2> QED BY <1>1, <1>2, <1>3, <1>4, <1>5, <2>1, <2>4, <2>5, <2>6 DEF Numbered
<1>6. CASE link = "open" /\ ~paused
  <2>1. /\ draining' = draining /\ (shared' <=> shared)
        /\ seq' = seq + 1 /\ expected' = expected + 1
        /\ (orderly' <=> orderly /\ seq = expected)
    BY <1>1, <1>6, SameCount DEF Kalshi!Send
  <2>2. draining = {} /\ Cardinality(draining) = 0
    BY <1>6, FS_EmptySet DEF Numbered
  <2>3. seq = expected + strayed /\ (~shared /\ strayed = 0 => orderly)
    BY <1>1, <1>6, <2>2 DEF Numbered
  <2> QED BY <1>1, <1>3, <1>4, <1>6, <2>1, <2>2, <2>3 DEF Numbered
<1>7. CASE link # "open"
  <2>1. draining' = draining /\ seq' = seq + 1 /\ UNCHANGED <<shared, expected, orderly>>
    BY <1>1, <1>7, SameCount DEF Kalshi!Send
  <2> QED BY <1>1, <1>3, <1>4, <1>7, <2>1 DEF Numbered
<1> QED BY <1>5, <1>6, <1>7

\* A connection that goes takes its numbers with it.
LEMMA GoneNumbered ==
  ASSUME Numbered, link' # "open", draining' = {}, seq' \in Nat,
         expected' \in Nat, strayed' \in Nat
  PROVE  Numbered'
BY FS_EmptySet DEF Numbered

LEMMA CloseNumbered == Numbered /\ Kalshi!Close => Numbered'
<1> SUFFICES ASSUME Numbered, Kalshi!Close PROVE Numbered'
  OBVIOUS
<1>1. UNCHANGED paused /\ ~Kalshi!stopping /\ Kalshi!stopping'
  BY DEF Kalshi!Close, Kalshi!stopping
<1>2. CASE link = "open" /\ paused /\ Kalshi!Send({Kalshi!Logout}) /\ UNCHANGED link
  BY <1>1, <1>2, SendNumbered DEF Numbered
<1>3. CASE link = "open" /\ ~paused /\ seq' = seq + 1 /\ link' = "lost" /\ UNCHANGED draining
           /\ Kalshi!Forgotten
  BY <1>3, GoneNumbered DEF Numbered, Kalshi!Forgotten
<1>4. CASE link # "open" /\ UNCHANGED <<link, seq, draining, expected, strayed>>
  BY <1>4, GoneNumbered DEF Numbered
<1> QED BY <1>2, <1>3, <1>4 DEF Kalshi!Close

LEMMA SessionNumbered == Numbered /\ Kalshi!SessionMoves => Numbered'
<1> SUFFICES ASSUME Numbered, Kalshi!SessionMoves PROVE Numbered'
  OBVIOUS
<1>1. CASE Kalshi!HeartbeatStarts \/ Kalshi!LogonAnswer
  BY <1>1 DEF Kalshi!HeartbeatStarts, Kalshi!LogonAnswer, Numbered, Kalshi!stopping
<1>2. CASE Kalshi!Heartbeat \/ Kalshi!TestRequest
  <2>1. UNCHANGED <<link, paused, closing>>
    BY <1>2 DEF Kalshi!Heartbeat, Kalshi!TestRequest
  <2>2. Kalshi!Beat # Kalshi!Logout /\ Kalshi!TestAnswer # Kalshi!Logout
    BY DEF Kalshi!Beat, Kalshi!TestAnswer, Kalshi!Logout
  <2> QED BY <1>2, <2>1, <2>2, SendNumbered
          DEF Kalshi!Heartbeat, Kalshi!TestRequest, Kalshi!stopping
<1>3. CASE Kalshi!PauseWriting
  BY <1>3 DEF Kalshi!PauseWriting, Numbered, Kalshi!stopping
<1>4. CASE Kalshi!ResumeWriting
  <2>1. /\ Cardinality(draining) \in Nat /\ IsFiniteSet({}) /\ Cardinality({}) = 0
        /\ draining = {} \/ link = "open"
    BY FS_CardinalityType, FS_EmptySet DEF Numbered
  <2>2. seq' = seq + Cardinality(draining) /\ draining' = {} /\ paused' = FALSE
    BY <1>4, SameCount DEF Kalshi!ResumeWriting
  <2>3. CASE Kalshi!Logout \in draining
    <3>1. link' = "lost" /\ expected' = 1 /\ strayed' = 0
      BY <1>4, <2>3 DEF Kalshi!ResumeWriting, Kalshi!Forgotten
    <3>2. seq' \in Nat
      BY <2>1, <2>2 DEF Numbered
    <3> QED BY <2>2, <3>1, <3>2, GoneNumbered
  <2>4. CASE Kalshi!Logout \notin draining
    <3>1. UNCHANGED <<link, closing, expected, orderly, shared, strayed>>
      BY <1>4, <2>4 DEF Kalshi!ResumeWriting
    <3> QED BY <2>1, <2>2, <3>1 DEF Numbered
  <2> QED BY <2>3, <2>4
<1>5. CASE Kalshi!Lose \/ Kalshi!ReadingEnds
  <2>1. link' # "open" /\ draining' = {} /\ seq' = seq /\ expected' = 1 /\ strayed' = 0
    BY <1>5 DEF Kalshi!Lose, Kalshi!ReadingEnds, Kalshi!Cleared, Kalshi!Adrift, Kalshi!Forgotten
  <2> QED BY <2>1, GoneNumbered DEF Numbered
<1>6. CASE Kalshi!Noticed
  <2>1. link = "lost" /\ link' = "down" /\ UNCHANGED <<seq, draining, expected, strayed>>
    BY <1>6 DEF Kalshi!Noticed, Kalshi!Notice, Kalshi!Cleared
  <2> QED BY <2>1, GoneNumbered DEF Numbered
<1>7. CASE Kalshi!Close
  BY <1>7, CloseNumbered
<1> QED BY <1>1, <1>2, <1>3, <1>4, <1>5, <1>6, <1>7
        DEF Kalshi!SessionMoves, Kalshi!SessionStep

LEMMA NumberedNext == Numbered /\ [Kalshi!Next]_kalshiVars => Numbered'
<1> SUFFICES ASSUME Numbered, [Kalshi!Next]_kalshiVars PROVE Numbered'
  OBVIOUS
<1>1. ASSUME UNCHANGED <<link, closing, seq, draining, paused, expected, orderly, shared, strayed>>
      PROVE  Numbered'
  BY <1>1 DEF Numbered, Kalshi!stopping
<1>2. CASE UNCHANGED kalshiVars
  BY <1>1, <1>2 DEF kalshiVars
<1>3. ASSUME NEW by \in {"run", "update"}, Kalshi!Ask(by) PROVE Numbered'
  <2>1. /\ Kalshi!Send({Kalshi!Asks(by)}) /\ Kalshi!Asks(by) \notin draining
        /\ UNCHANGED <<link, paused, closing>>
    BY <1>3 DEF Kalshi!Ask, Kalshi!Awaiting
  <2>2. Kalshi!Asks(by) # Kalshi!Logout
    BY DEF Kalshi!Asks, Kalshi!Logout
  <2> QED BY <2>1, <2>2, SendNumbered DEF Kalshi!stopping
<1>4. CASE Kalshi!Dial
  <2>1. Kalshi!Open("none") /\ draining = {} /\ Cardinality({}) = 0
    BY <1>4, FS_EmptySet DEF Kalshi!Dial, Kalshi!Open, Numbered
  <2> QED BY <2>1 DEF Kalshi!Open, Numbered, Kalshi!stopping
<1>5. CASE Kalshi!SessionMoves
  BY <1>5, SessionNumbered
<1>6. ASSUME NEW x \in straying, Kalshi!Woken(x) PROVE Numbered'
  <2>1. PICK returns \in BOOLEAN : Kalshi!Wake(x, returns)
    BY <1>6 DEF Kalshi!Woken
  <2>2. /\ seq' = IF returns THEN seq + 1 ELSE seq
        /\ strayed' = IF returns /\ link = "open" THEN strayed + 1 ELSE strayed
        /\ UNCHANGED <<link, draining, paused, expected, orderly, shared>>
        /\ Kalshi!stopping => Kalshi!stopping'
    BY <2>1 DEF Kalshi!Wake, Kalshi!stopping
  <2>3. Cardinality(draining) \in Nat
    BY FS_CardinalityType DEF Numbered
  <2> QED BY <2>2, <2>3 DEF Numbered
<1>8. CASE \/ Kalshi!UpdateSubscriptions \/ Kalshi!StartReading \/ Kalshi!Handle
           \/ \E t \in Ticker : Kalshi!RestAnswers(t) \/ Kalshi!SeedBooks(t)
  BY <1>1, <1>8 DEF Kalshi!UpdateSubscriptions, Kalshi!StartReading, Kalshi!Handle,
                    Kalshi!RestAnswers, Kalshi!SeedBooks, Kalshi!session
<1>9. ASSUME NEW t \in Ticker, NEW side \in {"bids", "asks"}, NEW p \in Kalshi!Price,
             Kalshi!LevelChanges(t, side, p)
      PROVE  Numbered'
  BY <1>1, <1>9 DEF Kalshi!LevelChanges, Kalshi!session
<1> QED BY <1>2, <1>3, <1>4, <1>5, <1>6, <1>8, <1>9 DEF Kalshi!Next

LEMMA NumbersHold == Kalshi!Spec => []Numbered
<1>1. Kalshi!Init => Numbered
  BY FS_EmptySet DEF Kalshi!Init, Kalshi!SessionInit, Numbered
<1>2. Numbered /\ [Kalshi!Next]_(Kalshi!vars) => Numbered'
  BY NumberedNext DEF Kalshi!vars, Kalshi!session, kalshiVars
<1> QED BY <1>1, <1>2, PTL DEF Kalshi!Spec

(***************************************************************************)
(* On every connection, once the senders that drain() holds back have      *)
(* counted, the client's next number is the one the exchange waits for,    *)
(* but for senders of an earlier connection that counted on this one; and  *)
(* the exchange has read every number in order unless one of those did or  *)
(* two senders shared a number (_send of fix_client.py).                   *)
(***************************************************************************)
THEOREM RequestsInOrder == Kalshi!Spec => []SequenceHolds
<1>1. Numbered => SequenceHolds
  BY SameCount DEF Numbered, SequenceHolds, Kalshi!SequenceHolds
<1> QED BY <1>1, NumbersHold, PTL

\* Whoever else sends or wakes, _run and update_subscriptions are where they were.
LEMMA OthersWish ==
  ASSUME Wished, UNCHANGED <<link, connected, kalshiDesired, asking, subs>>,
         hb' = "none" <=> hb = "none",
         draining' \subseteq draining \cup {Kalshi!Beat, Kalshi!TestAnswer, Kalshi!Logout},
         straying' \subseteq straying \cup {Kalshi!Logout},
         Kalshi!Beat \in draining' \ draining => hb # "none"
  PROVE  Wished'
<1>1. \A by \in {"run", "update"} :
        Kalshi!Asks(by) \notin {Kalshi!Beat, Kalshi!TestAnswer, Kalshi!Logout}
  BY DEF Kalshi!Asks, Kalshi!Beat, Kalshi!TestAnswer, Kalshi!Logout
<1>2. Kalshi!Beat # Kalshi!Logout
  BY DEF Kalshi!Beat, Kalshi!Logout
<1>3. \A by \in {"run", "update"} : Kalshi!Asks(by) \in straying' => Kalshi!Asks(by) \in straying
  BY <1>1
<1>4. Kalshi!Awaiting("run")' => Kalshi!Awaiting("run")
  BY <1>1 DEF Kalshi!Awaiting
<1>5. Kalshi!Beat \in straying' => Kalshi!Beat \in straying
  BY <1>2
<1>6. Kalshi!Beat \in draining' \cup straying' => hb' # "none"
  BY <1>5 DEF Wished
<1> QED BY <1>3, <1>4, <1>5, <1>6 DEF Wished

LEMMA SessionWished == Numbered /\ Wished /\ Kalshi!SessionMoves => Wished'
<1> SUFFICES ASSUME Numbered, Wished, Kalshi!SessionMoves PROVE Wished'
  OBVIOUS
<1>1. UNCHANGED <<kalshiDesired, asking>> /\ (link = link' => UNCHANGED subs)
  BY DEF Kalshi!SessionMoves, Kalshi!client
<1>2. CASE Kalshi!HeartbeatStarts \/ Kalshi!LogonAnswer \/ Kalshi!PauseWriting
  BY <1>1, <1>2, OthersWish DEF Kalshi!HeartbeatStarts, Kalshi!LogonAnswer, Kalshi!PauseWriting
<1>3. CASE Kalshi!Heartbeat \/ Kalshi!TestRequest
  <2>1. /\ Kalshi!Heartbeat => hb # "none" /\ Kalshi!Send({Kalshi!Beat})
        /\ Kalshi!TestRequest => Kalshi!Send({Kalshi!TestAnswer})
        /\ UNCHANGED <<link, connected, hb>>
    BY <1>3 DEF Kalshi!Heartbeat, Kalshi!TestRequest
  <2>2. Kalshi!Beat # Kalshi!TestAnswer
    BY DEF Kalshi!Beat, Kalshi!TestAnswer
  <2> QED BY <1>1, <1>3, <2>1, <2>2, SendDrains, OthersWish
<1>4. CASE Kalshi!ResumeWriting
  <2>1. draining' = {} /\ UNCHANGED <<straying, connected, hb>>
    BY <1>4 DEF Kalshi!ResumeWriting
  <2>2. CASE link' = link
    BY <1>1, <2>1, <2>2, OthersWish
  <2>3. CASE link' # link
    <3>1. link' = "lost"
      BY <1>4, <2>3 DEF Kalshi!ResumeWriting
    <3> QED BY <1>1, <2>1, <3>1 DEF Wished, Kalshi!Awaiting
  <2> QED BY <2>2, <2>3
<1>5. CASE Kalshi!Lose
  <2>1. link' = "lost" /\ straying' = straying \cup draining /\ draining' = {} /\ UNCHANGED hb
    BY <1>5 DEF Kalshi!Lose, Kalshi!Adrift
  <2> QED BY <1>1, <2>1 DEF Wished, Kalshi!Awaiting
<1>6. CASE Kalshi!ReadingEnds
  <2>1. /\ link = "open" /\ hb # "none" /\ link' = "down" /\ hb' = "ended"
        /\ straying' = straying \cup (draining \ {Kalshi!Beat}) /\ draining' = {}
    BY <1>6 DEF Kalshi!ReadingEnds, Kalshi!Cleared, Kalshi!Adrift
  <2> QED BY <1>1, <2>1 DEF Wished, Kalshi!Awaiting
<1>7. CASE Kalshi!Noticed
  <2>1. /\ link = "lost" /\ link' = "down" /\ hb' = "ended" /\ draining = {}
        /\ straying' = straying \ {Kalshi!Beat} /\ UNCHANGED draining
        /\ asking["run"] = {} /\ ~Kalshi!Awaiting("run")
    BY <1>7 DEF Kalshi!Noticed, Kalshi!Notice, Kalshi!Cleared, Numbered
  <2> QED BY <1>1, <2>1 DEF Wished, Kalshi!Awaiting
<1>8. CASE Kalshi!Close
  <2>1. UNCHANGED <<connected, hb>>
    BY <1>8 DEF Kalshi!Close
  <2>2. CASE link' = link
    <3>1. /\ draining' \subseteq draining \cup {Kalshi!Logout}
          /\ straying' \subseteq straying \cup {Kalshi!Logout}
      BY <1>8, <2>2, SendDrains DEF Kalshi!Close
    <3>2. Kalshi!Beat # Kalshi!Logout
      BY DEF Kalshi!Beat, Kalshi!Logout
    <3> QED BY <1>1, <2>1, <2>2, <3>1, <3>2, OthersWish
  <2>3. CASE link' # link
    <3>1. link' = "lost" /\ UNCHANGED <<draining, straying>>
      BY <1>8, <2>3 DEF Kalshi!Close
    <3> QED BY <1>1, <2>1, <3>1 DEF Wished, Kalshi!Awaiting
  <2> QED BY <2>2, <2>3
<1> QED BY <1>2, <1>3, <1>4, <1>5, <1>6, <1>7, <1>8
        DEF Kalshi!SessionMoves, Kalshi!SessionStep

LEMMA WishedNext == KalshiTyped /\ Numbered /\ Wished /\ [Kalshi!Next]_kalshiVars => Wished'
<1> SUFFICES ASSUME KalshiTyped, Numbered, Wished, [Kalshi!Next]_kalshiVars PROVE Wished'
  OBVIOUS
<1>1. ASSUME UNCHANGED <<link, connected, hb, draining, straying, kalshiDesired, asking, subs>>
      PROVE  Wished'
  BY <1>1 DEF Wished, Kalshi!Awaiting
<1>2. CASE UNCHANGED kalshiVars
  BY <1>1, <1>2 DEF kalshiVars
<1>3. asking \in [{"run", "update"} -> SUBSET Ticker]
  BY DEF KalshiTyped
<1>4. CASE Kalshi!UpdateSubscriptions
  <2>1. PICK T \in (SUBSET Ticker) \ {kalshiDesired} :
          /\ kalshiDesired' = T
          /\ asking' = [asking EXCEPT !["update"] = IF connected THEN T \ kalshiDesired ELSE {}]
    BY <1>4 DEF Kalshi!UpdateSubscriptions
  <2>2. /\ asking["update"] = {} /\ Kalshi!Asks("update") \notin straying
        /\ UNCHANGED <<link, connected, hb, draining, straying, subs>>
    BY <1>4 DEF Kalshi!UpdateSubscriptions, Kalshi!Awaiting, Kalshi!session, Kalshi!market
  <2>3. asking'["run"] = asking["run"]
        /\ asking'["update"] = IF connected THEN T \ kalshiDesired ELSE {}
    BY <1>3, <2>1
  <2> QED BY <2>1, <2>2, <2>3 DEF Wished, Kalshi!Awaiting
<1>5. ASSUME NEW by \in {"run", "update"}, Kalshi!Ask(by) PROVE Wished'
  <2>1. PICK t \in asking[by] :
          /\ asking' = [asking EXCEPT ![by] = @ \ {t}]
          /\ link = "open" => subs' = subs \cup {t}
    BY <1>5 DEF Kalshi!Ask
  <2>2. /\ UNCHANGED <<link, connected, hb, kalshiDesired>>
        /\ Kalshi!Send({Kalshi!Asks(by)}) /\ Kalshi!Asks(by) \notin straying
    BY <1>5 DEF Kalshi!Ask, Kalshi!Awaiting
  <2>3. \A c \in {"run", "update"} : asking'[c] = IF c = by THEN asking[c] \ {t} ELSE asking[c]
    BY <1>3, <2>1
  <2>4. straying' = straying /\ draining' \subseteq draining \cup {Kalshi!Asks(by)}
    BY <2>2, SendDrains
  <2>5. /\ Kalshi!Asks("run") # Kalshi!Asks("update")
        /\ \A c \in {"run", "update"} : Kalshi!Asks(c) # Kalshi!Beat
    BY DEF Kalshi!Asks, Kalshi!Beat
  <2>6. Kalshi!Awaiting("run")' => Kalshi!Awaiting("run") \/ by = "run"
    BY <2>4, <2>5 DEF Kalshi!Awaiting
  <2>7. Kalshi!Beat \in draining' \cup straying' => Kalshi!Beat \in draining \cup straying
    BY <2>4, <2>5
  <2>8. by = "run" => link # "down" /\ hb = "none"
    BY <2>1 DEF Wished
  <2>9. link = "open" =>
          /\ kalshiDesired \subseteq subs' \cup asking'["run"] \cup asking'["update"]
          /\ Kalshi!Asks("update") \in straying => kalshiDesired \subseteq subs' \cup asking'["run"]
    BY <2>1, <2>2, <2>3 DEF Wished
  <2>10. link = "down" \/ hb # "none" => ~Kalshi!Awaiting("run")' /\ asking'["run"] = {}
    BY <2>3, <2>6, <2>8 DEF Wished
  <2> QED BY <2>2, <2>4, <2>7, <2>9, <2>10 DEF Wished
<1>6. CASE Kalshi!Dial
  <2>1. /\ link = "down" /\ link' = "open" /\ connected' = TRUE /\ hb' = "none"
        /\ asking'["run"] = kalshiDesired /\ UNCHANGED <<kalshiDesired, draining, straying>>
    BY <1>3, <1>6 DEF Kalshi!Dial, Kalshi!Open
  <2>2. /\ Kalshi!Asks("run") \notin straying /\ Kalshi!Beat \notin straying /\ draining = {}
    BY <2>1 DEF Wished, Kalshi!Awaiting, Numbered
  <2> QED BY <2>1, <2>2 DEF Wished
<1>7. CASE Kalshi!StartReading
  <2>1. /\ hb' = "starting" /\ asking["run"] = {} /\ ~Kalshi!Awaiting("run")
        /\ UNCHANGED <<link, connected, draining, straying, kalshiDesired, asking, subs>>
    BY <1>7 DEF Kalshi!StartReading, Kalshi!client, Kalshi!market
  <2> QED BY <2>1 DEF Wished, Kalshi!Awaiting
<1>8. CASE Kalshi!SessionMoves
  BY <1>8, SessionWished
<1>9. ASSUME NEW x \in straying, Kalshi!Woken(x) PROVE Wished'
  <2>1. PICK returns \in BOOLEAN :
          /\ Kalshi!Wake(x, returns)
          /\ asking' = [by \in {"run", "update"} |->
                          IF x = Kalshi!Asks(by) /\ ~returns THEN {} ELSE asking[by]]
    BY <1>9 DEF Kalshi!Woken
  <2>2. /\ straying' = straying \ {x}
        /\ hb' = IF x = Kalshi!Beat /\ ~returns THEN "ended" ELSE hb
        /\ UNCHANGED <<link, connected, draining, kalshiDesired, subs>>
    BY <1>9, <2>1 DEF Kalshi!Wake, Kalshi!Woken, Kalshi!market
  <2>3. hb = "none" => hb' = "none"
    BY <1>9, <2>2 DEF Wished
  <2>4. Kalshi!Awaiting("run")' => Kalshi!Awaiting("run")
    BY <2>2 DEF Kalshi!Awaiting
  <2>5. link = "open" => asking'["run"] = asking["run"]
    BY <1>9, <2>1 DEF Wished
  <2>6. asking'["run"] \subseteq asking["run"]
        /\ (asking'["update"] = asking["update"] \/ x = Kalshi!Asks("update"))
    BY <2>1
  <2> QED BY <1>9, <2>2, <2>3, <2>4, <2>5, <2>6 DEF Wished
<1>12. CASE Kalshi!Handle \/ \E t \in Ticker : Kalshi!RestAnswers(t) \/ Kalshi!SeedBooks(t)
  BY <1>1, <1>12 DEF Kalshi!Handle, Kalshi!RestAnswers, Kalshi!SeedBooks, Kalshi!session,
                     Kalshi!client, Kalshi!market
<1>13. ASSUME NEW t \in Ticker, NEW side \in {"bids", "asks"}, NEW p \in Kalshi!Price,
              Kalshi!LevelChanges(t, side, p)
       PROVE  Wished'
  BY <1>1, <1>13 DEF Kalshi!LevelChanges, Kalshi!session, Kalshi!client
<1> QED BY <1>2, <1>4, <1>5, <1>6, <1>7, <1>8, <1>9, <1>12, <1>13 DEF Kalshi!Next

(***************************************************************************)
(* While the client reads, every desired ticker is subscribed or about to  *)
(* be asked for, whatever update_subscriptions and _run do in turn, and    *)
(* whichever of their requests outlive a connection.                       *)
(***************************************************************************)
THEOREM WishesAlwaysSent == Kalshi!Spec => []WishesSent
<1>1. Kalshi!Init => Wished
  BY DEF Kalshi!Init, Kalshi!SessionInit, Kalshi!Awaiting, Wished
<1>2. KalshiInv /\ Numbered /\ Wished /\ [Kalshi!Next]_(Kalshi!vars) => Wished'
  BY WishedNext DEF KalshiInv, Kalshi!vars, Kalshi!session, kalshiVars
<1>3. Wished => WishesSent
  BY DEF Wished, WishesSent, Kalshi!WishesSent, Kalshi!Reading
<1> QED BY <1>1, <1>2, <1>3, KalshiHolds, NumbersHold, PTL DEF Kalshi!Spec

-----------------------------------------------------------------------------
(***************************************************************************)
(* The snapshot file.  A list is a part of the sorted map, until the map   *)
(* changes under it.                                                       *)
(***************************************************************************)

\* The list so far is the beginning of the sorted map.
Copying ==
  /\ token \in SnapshotToken /\ source \in SUBSET SnapshotPrice /\ list \in Seq(SnapshotPrice)
  /\ token \notin torn =>
       /\ source \in was /\ Len(list) <= Cardinality(source)
       /\ \A n \in 1 .. Len(list) : list[n] = Snapshot!Ascending(source)[n]

\* Every copy is what its token had, or says that it may not be.
Copies(c, p) ==
  \A t \in DOMAIN p :
    /\ p[t].levels \in Seq(SnapshotPrice)
    /\ \/ \E b \in p[t].was : p[t].levels = Snapshot!Ascending(b)
       \/ c = "python" /\ p[t].torn

\* The map a token will be copied from is one it has had since the save began.
Held ==
  /\ DOMAIN had = SnapshotToken
  /\ \A t \in todo :
       /\ maps[t] \in had[t]
       /\ t \in DOMAIN old => old[t] \in had[t] /\ old[t] \in SUBSET SnapshotPrice

SnapshotInv ==
  /\ maps \in [SnapshotToken -> {NoBook} \cup SUBSET SnapshotPrice]
  /\ saver # "idle" \/ todo # {} => running
  /\ \A t \in todo : t \in SnapshotToken /\ maps[t] # NoBook
  /\ attached \/ torn # {} => client = "python"
  /\ Held
  /\ saver = "copying" => Copying
  /\ Copies(client, payload)
  /\ file = Snapshot!NoFile \/ (file.whole /\ Copies(client, file.books))

LEMMA SnapshotCount == \A X : Snapshot!Cardinality(X) = Cardinality(X)
BY DEF Snapshot!Cardinality, Cardinality

\* A finite set of numbers can be listed in ascending order: each number at its
\* rank.
LEMMA AscendingType ==
  ASSUME NEW S \in SUBSET Int, IsFiniteSet(S)
  PROVE  Snapshot!Ascending(S) \in [1 .. Cardinality(S) -> S]
<1> DEFINE n == Cardinality(S)
           Below(x) == {y \in S : y <= x}
           rank == [x \in S |-> Cardinality(Below(x))]
<1>0. \A x \in S : x \in Int
  OBVIOUS
<1>1. n \in Nat
  BY FS_CardinalityType
<1>2. ASSUME NEW x \in S
      PROVE  IsFiniteSet(Below(x)) /\ Cardinality(Below(x)) \in 1 .. n
  <2>1. Below(x) \in SUBSET S
    OBVIOUS
  <2>2. IsFiniteSet(Below(x)) /\ Cardinality(Below(x)) <= n
    BY <2>1, FS_Subset
  <2>3. x \in Below(x)
    OBVIOUS
  <2>4. Cardinality(Below(x)) \in Nat
    BY <2>2, FS_CardinalityType
  <2> HIDE DEF Below
  <2>5. Cardinality(Below(x)) # 0
    BY <2>2, <2>3, FS_EmptySet
  <2> QED BY <1>1, <2>2, <2>4, <2>5
<1>3. ASSUME NEW x \in S, NEW y \in S, x < y
      PROVE  Cardinality(Below(x)) < Cardinality(Below(y))
  <2>1. Below(x) \in SUBSET Below(y) /\ y \in Below(y) /\ y \notin Below(x)
    <3>1. x \in Int /\ y \in Int
      BY <1>0
    <3>2. y <= y /\ ~(y <= x)
      BY <1>3, <3>1
    <3>3. \A z \in S : z <= x => z <= y
      BY <1>0, <1>3, <3>1
    <3> QED BY <3>2, <3>3
  <2> HIDE DEF Below
  <2>2. /\ Cardinality(Below(x)) <= Cardinality(Below(y))
        /\ Cardinality(Below(y)) = Cardinality(Below(x)) => Below(y) = Below(x)
    BY <1>2, <2>1, FS_Subset
  <2>3. Cardinality(Below(x)) \in Nat /\ Cardinality(Below(y)) \in Nat
    BY <1>2
  <2> QED BY <2>1, <2>2, <2>3
<1> HIDE DEF Below
<1>4. \A x, y \in S : rank[x] = rank[y] => x = y
  <2> SUFFICES ASSUME NEW x \in S, NEW y \in S, x # y PROVE rank[x] # rank[y]
    OBVIOUS
  <2>1. Cardinality(Below(x)) \in Int /\ Cardinality(Below(y)) \in Int
    BY <1>1, <1>2
  <2>2. x < y \/ y < x
    BY <1>0
  <2> QED BY <1>3, <2>1, <2>2
<1>5. rank \in Injection(S, 1 .. n)
  BY <1>2, <1>4 DEF Injection, IsInjective
<1>6. IsFiniteSet(1 .. n) /\ Cardinality(1 .. n) = n
  BY <1>1, FS_Interval
<1>7. rank \in Surjection(S, 1 .. n)
  BY <1>5, <1>6, FS_Injection
<1> DEFINE s == [i \in 1 .. n |-> CHOOSE x \in S : rank[x] = i]
<1>8. ASSUME NEW i \in 1 .. n PROVE s[i] \in S /\ rank[s[i]] = i
  <2>1. \E x \in S : rank[x] = i
    BY <1>7 DEF Surjection
  <2> QED BY <2>1
<1>9. s \in [1 .. n -> S]
  BY <1>8
<1>10. ASSUME NEW i \in 1 .. n - 1 PROVE s[i] < s[i + 1]
  <2>1. i \in 1 .. n /\ i + 1 \in 1 .. n
    BY <1>1
  <2>2. /\ s[i] \in S /\ s[i + 1] \in S
        /\ Cardinality(Below(s[i])) = i /\ Cardinality(Below(s[i + 1])) = i + 1
    BY <1>8, <2>1
  <2>3. s[i] \in Int /\ s[i + 1] \in Int
    BY <1>0, <2>2
  <2> HIDE DEF s
  <2> DEFINE x == s[i]
             y == s[i + 1]
  <2>4. x \in S /\ y \in S /\ x \in Int /\ y \in Int /\ i \in Int
    BY <2>1, <2>2, <2>3
  <2>5. Cardinality(Below(x)) = i /\ Cardinality(Below(y)) = i + 1
    BY <2>2
  <2> HIDE DEF x, y
  <2>6. x # y
    BY <2>4, <2>5
  <2>7. ~(y < x)
    BY <1>3, <2>4, <2>5
  <2>8. x < y
    BY <2>4, <2>6, <2>7
  <2> QED BY <2>8 DEF x, y
<1> HIDE DEF s, rank
<1>11. \E r \in [1 .. n -> S] : \A i \in 1 .. n - 1 : r[i] < r[i + 1]
  BY <1>9, <1>10
<1> QED BY <1>11, SnapshotCount DEF Snapshot!Ascending

-----------------------------------------------------------------------------
(* The steps of the saver, the feed and the process.                       *)

LEMMA SourceListed ==
  ASSUME NEW S \in SUBSET SnapshotPrice
  PROVE  /\ IsFiniteSet(S) /\ Cardinality(S) \in Nat
         /\ Snapshot!Ascending(S) \in [1 .. Cardinality(S) -> S]
<1>1. IsFiniteSet(S)
  BY FeedsAssumption, FS_Subset
<1>2. S \in SUBSET Int
  BY FeedsAssumption
<1> QED BY <1>1, <1>2, FS_CardinalityType, AscendingType

LEMMA CopyLevelKeeps ==
  ASSUME Copying, Snapshot!CopyLevel
  PROVE  Copying'
<1> DEFINE n == Len(list)
           x == Snapshot!Ascending(source)[n + 1]
<1>1. /\ n < Cardinality(source) /\ list' = Append(list, x)
      /\ UNCHANGED <<token, source, torn, was>>
  BY SnapshotCount DEF Snapshot!CopyLevel
<1>2. /\ source \in SUBSET SnapshotPrice /\ list \in Seq(SnapshotPrice) /\ n \in Nat
  BY DEF Copying
<1>3. Cardinality(source) \in Nat
      /\ Snapshot!Ascending(source) \in [1 .. Cardinality(source) -> source]
  BY <1>2, SourceListed
<1>4. x \in SnapshotPrice
  <2>1. n + 1 \in 1 .. Cardinality(source)
    BY <1>1, <1>2, <1>3
  <2> QED BY <1>2, <1>3, <2>1
<1> HIDE DEF x
<1>5. /\ list' \in Seq(SnapshotPrice) /\ Len(list') = n + 1 /\ list'[n + 1] = x
      /\ \A i \in 1 .. n : list'[i] = list[i]
  BY <1>1, <1>2, <1>4
<1>6. ASSUME token \notin torn
      PROVE  /\ source \in was /\ Len(list') <= Cardinality(source)
             /\ \A i \in 1 .. Len(list') : list'[i] = Snapshot!Ascending(source)[i]
  <2>1. source \in was /\ \A i \in 1 .. n : list[i] = Snapshot!Ascending(source)[i]
    BY <1>6 DEF Copying
  <2>2. Len(list') <= Cardinality(source)
    BY <1>1, <1>2, <1>3, <1>5
  <2>3. ASSUME NEW i \in 1 .. Len(list') PROVE list'[i] = Snapshot!Ascending(source)[i]
    <3>1. i \in 1 .. n \/ i = n + 1
      BY <1>2, <1>5
    <3> QED BY <1>5, <2>1, <3>1 DEF x
  <2> QED BY <2>1, <2>2, <2>3
<1> QED BY <1>1, <1>2, <1>5, <1>6 DEF Copying

\* A list as long as the map is the sorted map.
LEMMA CopyComplete ==
  ASSUME Copying, token \notin torn, Len(list) >= Cardinality(source)
  PROVE  \E b \in was : list = Snapshot!Ascending(b)
<1> DEFINE s == Snapshot!Ascending(source)
<1>1. /\ source \in was /\ source \in SUBSET SnapshotPrice /\ list \in Seq(SnapshotPrice)
      /\ Len(list) <= Cardinality(source) /\ \A n \in 1 .. Len(list) : list[n] = s[n]
  BY DEF Copying
<1>2. Cardinality(source) \in Nat /\ s \in [1 .. Cardinality(source) -> source]
  BY <1>1, SourceListed
<1>3. Len(list) \in Nat /\ list \in [1 .. Len(list) -> SnapshotPrice]
  BY <1>1
<1>4. Len(list) = Cardinality(source)
  BY <1>1, <1>2, <1>3
<1> HIDE DEF s
<1>5. list = s
  BY <1>1, <1>2, <1>3, <1>4
<1> QED BY <1>1, <1>5 DEF s

\* The feed changes a book.
LEMMA BookWritten ==
  ASSUME SnapshotInv, NEW t \in SnapshotToken, NEW L \in SUBSET SnapshotPrice,
         Snapshot!Becomes(t, L)
  PROVE  /\ maps' \in [SnapshotToken -> {NoBook} \cup SUBSET SnapshotPrice]
         /\ \A u \in todo : u \in SnapshotToken /\ maps'[u] # NoBook
         /\ DOMAIN had' = SnapshotToken
         /\ \A u \in todo : maps'[u] \in had'[u] /\ had[u] \subseteq had'[u]
<1>1. /\ maps' = [maps EXCEPT ![t] = L]
      /\ had' = IF t \in todo THEN [had EXCEPT ![t] = @ \cup {L}] ELSE had
  BY DEF Snapshot!Becomes
<1>2. maps' \in [SnapshotToken -> {NoBook} \cup SUBSET SnapshotPrice] /\ L # NoBook
  BY <1>1, FeedsAssumption DEF SnapshotInv
<1>3. \A u \in todo : u \in SnapshotToken /\ maps'[u] = IF u = t THEN L ELSE maps[u]
  BY <1>1 DEF SnapshotInv
<1>4. DOMAIN had' = SnapshotToken
      /\ \A u \in todo : had'[u] = IF u = t THEN had[u] \cup {L} ELSE had[u]
  BY <1>1 DEF SnapshotInv, Held
<1> QED BY <1>2, <1>3, <1>4 DEF SnapshotInv, Held

LEMMA DeltaWritten ==
  ASSUME SnapshotInv, NEW t \in SnapshotToken, NEW L \in SUBSET SnapshotPrice,
         Snapshot!Delta(t, L)
  PROVE  SnapshotInv'
<1> DEFINE under == saver = "copying" /\ t = token /\ attached
<1>1. /\ running /\ Snapshot!Becomes(t, L)
      /\ source' = (IF under THEN L ELSE source)
      /\ torn' = (IF under THEN torn \cup {t} ELSE torn)
      /\ UNCHANGED <<client, was, running, saver, todo, old, token, attached, list, payload, file>>
  BY DEF Snapshot!Delta, Snapshot!Becomes
<1>2. /\ maps' \in [SnapshotToken -> {NoBook} \cup SUBSET SnapshotPrice]
      /\ \A u \in todo : u \in SnapshotToken /\ maps'[u] # NoBook
      /\ Held'
  BY <1>1, BookWritten DEF SnapshotInv, Held
<1>3. (saver = "copying" => Copying)'
  <2>1. CASE under
    BY <1>1, <2>1 DEF SnapshotInv, Copying
  <2>2. CASE ~under
    BY <1>1, <2>2 DEF SnapshotInv, Copying
  <2> QED BY <2>1, <2>2
<1>4. (attached \/ torn # {} => client = "python")'
  BY <1>1 DEF SnapshotInv
<1> QED BY <1>1, <1>2, <1>3, <1>4 DEF SnapshotInv, Copies

LEMMA NewBookWritten ==
  ASSUME SnapshotInv, NEW t \in SnapshotToken, NEW L \in SUBSET SnapshotPrice,
         Snapshot!NewBook(t, L)
  PROVE  SnapshotInv'
<1>1. /\ running /\ Snapshot!Becomes(t, L) /\ (attached' => attached)
      /\ UNCHANGED <<client, was, running, saver, todo, token, source, list, payload, torn, file>>
  BY DEF Snapshot!NewBook, Snapshot!Becomes
<1>2. /\ maps' \in [SnapshotToken -> {NoBook} \cup SUBSET SnapshotPrice]
      /\ \A u \in todo : u \in SnapshotToken /\ maps'[u] # NoBook
      /\ DOMAIN had' = SnapshotToken
      /\ \A u \in todo : maps'[u] \in had'[u] /\ had[u] \subseteq had'[u]
  BY <1>1, BookWritten
<1>3. ASSUME NEW u \in todo, u \in DOMAIN old'
      PROVE  old'[u] \in had[u] /\ old'[u] \in SUBSET SnapshotPrice
  <2>1. CASE u \in DOMAIN old /\ old'[u] = old[u]
    BY <2>1 DEF SnapshotInv, Held
  <2>2. CASE u = t /\ old'[u] = maps[u]
    BY <2>2 DEF SnapshotInv, Held
  <2> QED BY <1>3, <2>1, <2>2 DEF Snapshot!NewBook
<1>4. Held'
  BY <1>1, <1>2, <1>3 DEF Held
<1> QED BY <1>1, <1>2, <1>4 DEF SnapshotInv, Copies, Copying

LEMMA WorkerKeeps ==
  ASSUME SnapshotInv, Snapshot!Worker
  PROVE  SnapshotInv'
<1>1. CASE Snapshot!Save
  <2>1. /\ running /\ todo' = {t \in SnapshotToken : maps[t] # NoBook} /\ saver' = "choosing"
        /\ payload' = <<>> /\ torn' = {} /\ UNCHANGED <<client, running, maps, attached, file>>
        /\ old' = <<>>
        /\ had' = [t \in SnapshotToken |-> IF maps[t] # NoBook THEN {maps[t]} ELSE {}]
    BY <1>1 DEF Snapshot!Save
  <2>2. Copies(client, payload)'
    BY <2>1 DEF Copies
  <2>3. DOMAIN old' = {}
    BY <2>1
  <2>4. Held'
    BY <2>1, <2>3 DEF Held
  <2> QED BY <2>1, <2>2, <2>4 DEF SnapshotInv, Copies
<1>2. ASSUME NEW t \in SnapshotToken, Snapshot!Choose(t) PROVE SnapshotInv'
  <2>1. /\ t \in todo /\ todo' = todo \ {t} /\ saver' = "copying" /\ token' = t
        /\ source' = (IF t \in DOMAIN old THEN old[t] ELSE maps[t])
        /\ (attached' => client = "python") /\ list' = <<>>
        /\ was' = had[t] /\ had' = [had EXCEPT ![t] = {}]
        /\ UNCHANGED <<client, old, running, maps, payload, file, torn>>
    BY <1>2 DEF Snapshot!Choose
  <2>2. source' \in SUBSET SnapshotPrice /\ source' \in was' /\ running /\ t \in SnapshotToken
    BY <2>1 DEF SnapshotInv, Held
  <2>3. Cardinality(source') \in Nat
    BY <2>2, SourceListed
  <2>4. list' \in Seq(SnapshotPrice) /\ Len(list') = 0
    BY <2>1
  <2>5. Copying'
    BY <2>1, <2>2, <2>3, <2>4 DEF Copying
  <2>6. Held'
    BY <2>1 DEF SnapshotInv, Held
  <2> QED BY <2>1, <2>2, <2>5, <2>6 DEF SnapshotInv, Copies
<1>3. CASE Snapshot!CopyLevel
  <2>1. saver = "copying" /\ UNCHANGED <<client, old, had, running, maps, saver, todo,
                                                attached, payload, file, torn>>
    BY <1>3 DEF Snapshot!CopyLevel
  <2>2. Copying'
    BY <1>3, <2>1, CopyLevelKeeps DEF SnapshotInv
  <2> QED BY <2>1, <2>2 DEF SnapshotInv, Copies, Held
<1>4. ASSUME NEW p, Snapshot!Copied(p), Copies(client, p), saver = "copying" PROVE SnapshotInv'
  <2>1. /\ saver' = "choosing" /\ payload' = p /\ ~attached'
        /\ UNCHANGED <<client, old, had, running, maps, todo, file, torn>>
    BY <1>4 DEF Snapshot!Copied
  <2> QED BY <1>4, <2>1 DEF SnapshotInv, Copies, Held
<1>5. CASE Snapshot!BookCopied
  <2> DEFINE copy == [levels |-> list, torn |-> token \in torn, was |-> was]
             p == [t \in DOMAIN payload \cup {token} |-> IF t = token THEN copy ELSE payload[t]]
  <2>1. saver = "copying" /\ Len(list) >= Cardinality(source) /\ Snapshot!Copied(p)
    BY <1>5, SnapshotCount DEF Snapshot!BookCopied
  <2>2. Copying /\ Copies(client, payload) /\ (torn # {} => client = "python")
    BY <2>1 DEF SnapshotInv
  <2>3. list \in Seq(SnapshotPrice)
    BY <2>2 DEF Copying
  <2>4. token \notin torn => \E b \in was : list = Snapshot!Ascending(b)
    BY <2>1, <2>2, CopyComplete
  <2>5. /\ copy.levels = list /\ copy.was = was /\ (copy.torn <=> token \in torn)
    OBVIOUS
  <2>6. DOMAIN p = DOMAIN payload \cup {token}
        /\ \A t \in DOMAIN p : p[t] = IF t = token THEN copy ELSE payload[t]
    OBVIOUS
  <2> HIDE DEF p, copy
  <2>7. Copies(client, p)
    <3> SUFFICES ASSUME NEW t \in DOMAIN p
                 PROVE  /\ p[t].levels \in Seq(SnapshotPrice)
                        /\ \/ \E b \in p[t].was : p[t].levels = Snapshot!Ascending(b)
                           \/ client = "python" /\ p[t].torn
      BY DEF Copies
    <3>1. CASE t = token
      BY <2>2, <2>3, <2>4, <2>5, <2>6, <3>1
    <3>2. CASE t # token
      BY <2>2, <2>6, <3>2 DEF Copies
    <3> QED BY <3>1, <3>2
  <2> QED BY <1>4, <2>1, <2>7
<1>6. CASE Snapshot!LevelGone
  BY <1>4, <1>6 DEF Snapshot!LevelGone, SnapshotInv
<1>7. CASE Snapshot!Begin
  <2>1. saver = "choosing" /\ saver' = "writing"
        /\ UNCHANGED <<client, old, had, running, maps, todo, attached, payload, file, torn>>
    BY <1>7 DEF Snapshot!Begin
  <2> QED BY <2>1 DEF SnapshotInv, Copies, Held
<1>8. CASE Snapshot!Dump
  <2>1. saver = "writing" /\ UNCHANGED <<client, old, had, running, maps, saver, todo, attached, payload, file,
                                           torn>>
    BY <1>8 DEF Snapshot!Dump
  <2> QED BY <2>1 DEF SnapshotInv, Copies, Held
<1>9. CASE Snapshot!Replace
  <2>1. /\ file' = [at |-> stamp, books |-> payload, whole |-> TRUE]
        /\ saver' = "idle" /\ payload' = <<>>
        /\ UNCHANGED <<client, old, had, running, maps, todo, attached, torn>>
    BY <1>9 DEF Snapshot!Replace
  <2>2. file'.whole /\ file'.books = payload
    BY <2>1
  <2>3. Copies(client, payload)'
    BY <2>1 DEF Copies
  <2>4. Copies(client, file.books)'
    BY <2>1, <2>2 DEF SnapshotInv, Copies
  <2> QED BY <2>1, <2>2, <2>3, <2>4 DEF SnapshotInv, Held
<1>10. CASE Snapshot!WriteFails
  <2>1. /\ saver' = "idle" /\ payload' = <<>>
        /\ UNCHANGED <<client, old, had, running, maps, todo, attached, file, torn>>
    BY <1>10 DEF Snapshot!WriteFails
  <2>2. Copies(client, payload)'
    BY <2>1 DEF Copies
  <2> QED BY <2>1, <2>2 DEF SnapshotInv, Copies, Held
<1> QED BY <1>1, <1>2, <1>3, <1>5, <1>6, <1>7, <1>8, <1>9, <1>10 DEF Snapshot!Worker

LEMMA ProcessKeeps ==
  ASSUME SnapshotInv, Snapshot!Process
  PROVE  SnapshotInv'
<1>1. CASE Snapshot!Tick
  BY <1>1 DEF Snapshot!Tick, Snapshot!saving, SnapshotInv, Copies, Copying, Held
<1>2. CASE Snapshot!Start
  <2>1. /\ ~running /\ running'
        /\ maps' = [t \in SnapshotToken |->
             IF t \in DOMAIN Snapshot!Load.books
             THEN Snapshot!Listed(Snapshot!Load.books[t].levels) ELSE NoBook]
        /\ UNCHANGED <<client, saver, todo, token, source, attached, list, payload, torn, old, had, was,
                       file>>
    BY <1>2 DEF Snapshot!Start, Snapshot!saving
  <2>2. \A l \in Seq(SnapshotPrice) : Snapshot!Listed(l) \in SUBSET SnapshotPrice
    BY DEF Snapshot!Listed
  <2>3. \A t \in DOMAIN Snapshot!Load.books : Snapshot!Load.books[t].levels \in Seq(SnapshotPrice)
    <3>1. Copies(client, Snapshot!NoFile.books)
      BY DEF Copies, Snapshot!NoFile
    <3> QED BY <3>1 DEF Snapshot!Load, SnapshotInv, Copies
  <2>4. maps' \in [SnapshotToken -> {NoBook} \cup SUBSET SnapshotPrice]
    <3> DEFINE D == DOMAIN Snapshot!Load.books
               F(t) == Snapshot!Listed(Snapshot!Load.books[t].levels)
    <3>1. \A t \in D : F(t) \in SUBSET SnapshotPrice
      BY <2>2, <2>3
    <3>2. maps' = [t \in SnapshotToken |-> IF t \in D THEN F(t) ELSE NoBook]
      BY <2>1
    <3> HIDE DEF D, F
    <3> QED BY <3>1, <3>2
  <2> QED BY <2>1, <2>4 DEF SnapshotInv, Copies, Held
<1>3. CASE Snapshot!Crash
  <2>1. /\ maps' = [t \in SnapshotToken |-> NoBook] /\ saver' = "idle" /\ todo' = {}
        /\ ~attached' /\ payload' = <<>> /\ torn' = {} /\ UNCHANGED <<client, file>>
        /\ had' = [t \in SnapshotToken |-> {}]
    BY <1>3 DEF Snapshot!Crash
  <2>2. Copies(client, payload)'
    BY <2>1 DEF Copies
  <2> QED BY <2>1, <2>2 DEF SnapshotInv, Copies, Held
<1> QED BY <1>1, <1>2, <1>3 DEF Snapshot!Process

LEMMA SnapshotInit == Snapshot!Init => SnapshotInv
BY DEF Snapshot!Init, Snapshot!Unbegun, SnapshotInv, Copies, Held

LEMMA SnapshotNext == SnapshotInv /\ [Snapshot!Next]_snapshotVars => SnapshotInv'
<1> SUFFICES ASSUME SnapshotInv, [Snapshot!Next]_snapshotVars PROVE SnapshotInv'
  OBVIOUS
<1>1. CASE UNCHANGED snapshotVars
  BY <1>1 DEF snapshotVars, SnapshotInv, Copies, Copying, Held
<1>2. ASSUME NEW t \in SnapshotToken, Snapshot!Feed(t) PROVE SnapshotInv'
  <2>1. ASSUME NEW p \in SnapshotPrice, Snapshot!Put(t, p) \/ Snapshot!TakeOut(t, p)
        PROVE  SnapshotInv'
    <3>1. maps[t] \in SUBSET SnapshotPrice
      BY <2>1 DEF Snapshot!Put, Snapshot!TakeOut, SnapshotInv
    <3>2. maps[t] \cup {p} \in SUBSET SnapshotPrice /\ maps[t] \ {p} \in SUBSET SnapshotPrice
      BY <3>1
    <3>3. Snapshot!Delta(t, maps[t] \cup {p}) \/ Snapshot!Delta(t, maps[t] \ {p})
      BY <2>1 DEF Snapshot!Put, Snapshot!TakeOut
    <3> QED BY <3>2, <3>3, DeltaWritten
  <2>2. ASSUME NEW L \in SUBSET SnapshotPrice, Snapshot!NewBook(t, L) PROVE SnapshotInv'
    BY <2>2, NewBookWritten
  <2> QED BY <1>2, <2>1, <2>2 DEF Snapshot!Feed
<1> QED BY <1>1, <1>2, WorkerKeeps, ProcessKeeps DEF Snapshot!Next

(***************************************************************************)
(* The file that a start finds is a whole one, and every book in it is the *)
(* one its token had during the save, unless the Python client's map       *)
(* changed while it was copied (save_snapshot, os.replace), for any tokens *)
(* and prices and wherever the process dies.                               *)
(***************************************************************************)
THEOREM FileAlwaysTrue == Snapshot!Spec => []SnapshotTrue
<1>1. SnapshotInv /\ [Snapshot!Next]_(Snapshot!vars) => SnapshotInv'
  BY SnapshotNext DEF Snapshot!vars, Snapshot!saving, snapshotVars
<1>2. SnapshotInv => SnapshotTrue
  BY DEF SnapshotInv, Copies, SnapshotTrue, Snapshot!SnapshotTrue
<1> QED BY <1>1, <1>2, SnapshotInit, PTL DEF Snapshot!Spec

-----------------------------------------------------------------------------
(***************************************************************************)
(* The signal bridge.  An id is remembered for as long as a copy of its    *)
(* datagram can be fresh.                                                  *)
(***************************************************************************)

BridgeTyped ==
  /\ now \in Nat /\ skew \in Int /\ skew >= -SignalMaxAge
  /\ \A i \in DOMAIN sent : sent[i] \in Nat /\ sent[i] <= now
  /\ \A i \in DOMAIN seen : seen[i] \in Nat /\ seen[i] <= now
  /\ dispatched \in [Signal -> Nat]

\* A signal that was acted on was fresh then; it is remembered, or a copy of it
\* would not be fresh any more.
ActedOn(i) ==
  /\ dispatched[i] <= 1
  /\ dispatched[i] = 1 =>
       /\ i \in DOMAIN sent
       /\ \/ i \in DOMAIN seen
          \/ now + skew - sent[i] > SignalMaxAge
  /\ i \in DOMAIN seen /\ i \in DOMAIN sent =>
       seen[i] + skew - sent[i] > -SignalMaxAge
  /\ i \in DOMAIN seen => i \in DOMAIN sent

BridgeInv == BridgeTyped /\ \A i \in Signal : ActedOn(i)

(***************************************************************************)
(* The receiver acts on a signal at most once while it listens, whatever   *)
(* the number of signals and however long it runs, when it remembers an id *)
(* for twice the largest age and its clock is not behind the sender's by   *)
(* more than that age (datagram_received, _unpack).                        *)
(***************************************************************************)
THEOREM ActsAtMostOnce ==
  ASSUME SignalMaxAge \in Nat, Keep \in Nat, Keep >= 2 * SignalMaxAge,
         Skew \subseteq {n \in Int : n >= -SignalMaxAge}
  PROVE  Bridge!Spec => []AtMostOnce
<1>1. Bridge!Init => BridgeInv
  BY DEF Bridge!Init, BridgeInv, BridgeTyped, ActedOn
<1>2. BridgeInv /\ [Bridge!Next]_(Bridge!vars) => BridgeInv'
  <2> SUFFICES ASSUME BridgeInv, [Bridge!Next]_(Bridge!vars) PROVE BridgeInv'
    OBVIOUS
  <2>1. CASE UNCHANGED Bridge!vars
    BY <2>1 DEF BridgeInv, BridgeTyped, ActedOn, Bridge!vars
  <2>2. CASE Bridge!Tick
    BY <2>2 DEF BridgeInv, BridgeTyped, ActedOn, Bridge!Tick
  <2>3. CASE Bridge!Listen
    BY <2>3 DEF BridgeInv, BridgeTyped, ActedOn, Bridge!Listen
  <2>4. CASE Bridge!Stop
    BY <2>4 DEF BridgeInv, BridgeTyped, ActedOn, Bridge!Stop
  <2>5. ASSUME NEW i \in Signal, Bridge!Send(i) PROVE BridgeInv'
    <3>1. /\ DOMAIN sent' = DOMAIN sent \cup {i} /\ sent'[i] = now
          /\ \A j \in DOMAIN sent : sent'[j] = sent[j]
          /\ UNCHANGED <<now, skew, listening, seen, dispatched>>
      BY <2>5 DEF Bridge!Send, Bridge!With
    <3>2. BridgeTyped'
      BY <3>1 DEF BridgeInv, BridgeTyped
    <3>3. \A j \in Signal : ActedOn(j)'
      BY <2>5, <3>1 DEF BridgeInv, BridgeTyped, ActedOn, Bridge!Send
    <3> QED BY <3>2, <3>3 DEF BridgeInv
  <2>6. ASSUME NEW i \in Signal, Bridge!Receive(i) PROVE BridgeInv'
    <3>1. /\ i \in DOMAIN sent /\ now > sent[i] /\ Bridge!Fresh(i) /\ i \notin DOMAIN seen
          /\ DOMAIN seen' = Bridge!Remembered \cup {i} /\ seen'[i] = now
          /\ \A j \in Bridge!Remembered : seen'[j] = seen[j]
          /\ dispatched' = [dispatched EXCEPT ![i] = @ + 1]
          /\ UNCHANGED <<now, skew, sent, listening>>
      BY <2>6 DEF Bridge!Receive, Bridge!Remembered
    <3>2. now + skew - sent[i] <= SignalMaxAge /\ now + skew - sent[i] >= -SignalMaxAge
      BY <3>1 DEF Bridge!Fresh, Bridge!Distance, BridgeInv, BridgeTyped
    <3>3. dispatched[i] = 0
      BY <3>1, <3>2 DEF BridgeInv, BridgeTyped, ActedOn
    <3>4. BridgeTyped'
      BY <3>1 DEF BridgeInv, BridgeTyped, Bridge!Remembered
    <3>5. ASSUME NEW j \in Signal PROVE ActedOn(j)'
      <4>1. CASE j = i
        BY <3>1, <3>2, <3>3, <4>1 DEF ActedOn, BridgeInv, BridgeTyped
      <4>2. CASE j # i /\ j \in DOMAIN seen /\ j \notin Bridge!Remembered
        <5>1. now - seen[j] >= Keep
          BY <4>2 DEF Bridge!Remembered, BridgeInv, BridgeTyped
        <5>2. j \in DOMAIN sent /\ seen[j] + skew - sent[j] > -SignalMaxAge
          BY <4>2 DEF BridgeInv, ActedOn
        <5>3. now + skew - sent[j] > SignalMaxAge
          BY <4>2, <5>1, <5>2 DEF BridgeInv, BridgeTyped
        <5> QED BY <3>1, <4>2, <5>2, <5>3 DEF BridgeInv, BridgeTyped, ActedOn, Bridge!Remembered
      <4>3. CASE j # i /\ j \notin DOMAIN seen
        BY <3>1, <4>3 DEF BridgeInv, BridgeTyped, ActedOn, Bridge!Remembered
      <4>4. CASE j # i /\ j \in Bridge!Remembered
        BY <3>1, <4>4 DEF BridgeInv, BridgeTyped, ActedOn, Bridge!Remembered
      <4> QED BY <4>1, <4>2, <4>3, <4>4
    <3> QED BY <3>4, <3>5 DEF BridgeInv
  <2> QED BY <2>1, <2>2, <2>3, <2>4, <2>5, <2>6 DEF Bridge!Next
<1>3. BridgeInv => AtMostOnce
  BY DEF BridgeInv, ActedOn, AtMostOnce, Bridge!AtMostOnce
<1> QED BY <1>1, <1>2, <1>3, PTL DEF Bridge!Spec
=============================================================================
