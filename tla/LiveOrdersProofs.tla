-------------------------- MODULE LiveOrdersProofs ---------------------------
(***************************************************************************)
(* How far concurrent workers can pass the session's cap, what the         *)
(* session's spend does not count of what was filled, and that signing     *)
(* ahead never mixes up orders, for any number of workers, bundles, legs.  *)
(*                                                                         *)
(* With well-typed state the three properties are inductive; the work is   *)
(* in the sums over the workers that passed the check or are to count.     *)
(***************************************************************************)
EXTENDS LiveOrders, CapitalLemmas, FiniteSetTheorems, TLAPS

Inv == TypeOK /\ OrdersMatchLegs

About == {t \in Thread : thread[t].pc = "counting"}

-----------------------------------------------------------------------------
(* Types and orders.                                                       *)

\* Rounding to tenths moves a number by half of one at most.
LEMMA RoundNear ==
  ASSUME NEW n \in Nat
  PROVE  Round10(n) \in Nat /\ 10 * Round10(n) - n \in -5 .. 5
<1>1. n \div 10 \in Nat /\ n % 10 \in 0 .. 9 /\ n = 10 * (n \div 10) + (n % 10)
  <2>1. n \in Int /\ n >= 0
    OBVIOUS
  <2>2. n \div 10 \in Int /\ n % 10 \in 0 .. 9
    BY <2>1
  <2>3. n = 10 * (n \div 10) + (n % 10)
    BY <2>1
  <2>4. n \div 10 >= 0
    BY <2>1, <2>2, <2>3
  <2> QED BY <2>2, <2>3, <2>4
<1>2. Round10(n) = IF n % 10 > 5 \/ (n % 10 = 5 /\ (n \div 10) % 2 = 1)
                   THEN n \div 10 + 1 ELSE n \div 10
  BY DEF Round10
<1>3. CASE n % 10 > 5 \/ (n % 10 = 5 /\ (n \div 10) % 2 = 1)
  <2>1. Round10(n) = n \div 10 + 1 /\ n % 10 >= 5
    BY <1>1, <1>2, <1>3
  <2> QED BY <1>1, <2>1
<1>4. CASE ~(n % 10 > 5 \/ (n % 10 = 5 /\ (n \div 10) % 2 = 1))
  <2>1. Round10(n) = n \div 10 /\ n % 10 <= 5
    BY <1>1, <1>2, <1>4
  <2> QED BY <1>1, <2>1
<1> QED BY <1>3, <1>4

\* An order is for its leg, near its price and size, and from a fresh entry.
LEMMA SignedMatches ==
  ASSUME NEW l \in Leg
  PROVE  /\ Signed(l) \in Order
         /\ Signed(l).leg = l /\ Signed(l).fresh
         /\ Signed(l).price - l.price \in -5 .. 5 /\ Signed(l).size - l.size \in -5 .. 5
<1>1. l.price \in Nat /\ l.size \in Nat
  BY ConstantsAssumption
<1>2. /\ Round10(l.price) \in Nat /\ 10 * Round10(l.price) - l.price \in -5 .. 5
      /\ Round10(l.size) \in Nat /\ 10 * Round10(l.size) - l.size \in -5 .. 5
  BY <1>1, RoundNear
<1>3. Key(l, 0).tick = Round10(l.price) /\ Key(l, 0).size = Round10(l.size)
  BY <1>2 DEF Key
<1>4. CASE Hit(l)
  <2>1. Signed(l) = [leg |-> l, price |-> 10 * Round10(l.price),
                     size |-> 10 * Round10(l.size), fresh |-> TRUE]
    BY <1>3, <1>4 DEF Signed, Hit
  <2> QED BY <1>2, <2>1 DEF Order
<1>5. CASE ~Hit(l)
  <2>1. Signed(l) = [leg |-> l, price |-> l.price, size |-> l.size, fresh |-> TRUE]
    BY <1>5 DEF Signed
  <2> QED BY <1>1, <2>1 DEF Order
<1> QED BY <1>4, <1>5

\* A bundle's notional, or that of no bundle, is within bounds.
LEMMA NotionalType == \A B \in Bundle \cup {{}} : Notional(B) \in 0 .. MaxBundle
<1>1. Notional({}) = 0
  BY SumOfNone DEF Notional
<1>2. MaxBundle \in Nat
  BY ConstantsAssumption
<1>3. \A B \in Bundle : Notional(B) \in 0 .. MaxBundle
  BY <1>2, BundleAssumption
<1> QED BY <1>1, <1>2, <1>3

\* A part of a bundle has a notional too.
LEMMA PartNotional ==
  ASSUME NEW B \in Bundle \cup {{}}, NEW P \in SUBSET B
  PROVE  Notional(P) \in Nat
<1>1. IsFiniteSet(P)
  BY ConstantsAssumption, FS_Subset, FS_EmptySet
<1>2. \A l \in P : [k \in P |-> k.cap][l] \in Nat
  BY ConstantsAssumption
<1> QED BY <1>1, <1>2, SumType DEF Notional

\* The types and the orders of the workers are kept by every step.
LEMMA InvHolds == Spec => []Inv
<1>1. Init => Inv
  BY ConstantsAssumption DEF Init, Inv, TypeOK, OrdersMatchLegs, Thread0
<1>2. Inv /\ [Next]_vars => Inv'
  <2> SUFFICES ASSUME Inv, [Next]_vars PROVE Inv'
    OBVIOUS
  <2> DEFINE Worker == [pc : {"idle", "checking", "signing", "counting"},
                        legs : Bundle \cup {{}}, orders : SUBSET Order]
             Fits(th) == \A o \in th.orders :
               /\ o.leg \in th.legs /\ o.fresh
               /\ o.price - o.leg.price \in -5 .. 5 /\ o.size - o.leg.size \in -5 .. 5
  <2>a. thread \in [Thread -> Worker] /\ \A t \in Thread : Fits(thread[t])
    BY DEF Inv, TypeOK, OrdersMatchLegs
  <2>b. ASSUME NEW t \in Thread, NEW th \in Worker, Fits(th), Becomes(t, th)
        PROVE  thread' \in [Thread -> Worker] /\ OrdersMatchLegs'
    <3>1. thread' = [thread EXCEPT ![t] = th]
      BY <2>b DEF Becomes
    <3>2. \A u \in Thread : Fits(thread'[u])
      BY <2>a, <2>b, <3>1
    <3> QED BY <2>a, <3>1, <3>2 DEF OrdersMatchLegs
  <2>c. Thread0 \in Worker /\ Fits(Thread0)
    BY DEF Thread0
  <2>d. spend \in Nat /\ filled \in Nat /\ missed \in Nat
    BY DEF Inv, TypeOK
  <2>1. ASSUME NEW t \in Thread, NEW B \in Bundle, Submit(t, B) PROVE Inv'
    <3> DEFINE th == [Thread0 EXCEPT !.pc = "checking", !.legs = B]
    <3>1. th \in Worker /\ Fits(th) /\ Becomes(t, th)
      BY <2>1 DEF Thread0, Submit
    <3> QED BY <2>1, <2>b, <3>1 DEF Inv, TypeOK, Submit
  <2>2. ASSUME NEW t \in Thread, Check(t) PROVE Inv'
    <3> DEFINE th == IF WithinCaps(thread[t].legs) THEN [thread[t] EXCEPT !.pc = "signing"]
                     ELSE Thread0
    <3>1. th \in Worker /\ Fits(th) /\ Becomes(t, th)
      BY <2>2, <2>a, <2>c DEF Check
    <3> HIDE DEF th
    <3> QED BY <2>2, <2>b, <3>1 DEF Inv, TypeOK, Check
  <2>3. ASSUME NEW t \in Thread, NEW l \in thread[t].legs, Sign(t, l) PROVE Inv'
    <3> DEFINE th == [thread[t] EXCEPT !.orders = @ \cup {Signed(l)}]
    <3>1. l \in Leg
      BY <2>a, ConstantsAssumption
    <3>2. th \in Worker /\ Fits(th)
      BY <2>a, <3>1, SignedMatches
    <3>3. Becomes(t, th)
      BY <2>3 DEF Sign
    <3>4. cache' \in [held : SUBSET Keys, fresh : SUBSET Keys] /\ cache'.fresh \subseteq cache'.held
      BY <2>3 DEF Sign, Hit, Inv, TypeOK
    <3> HIDE DEF th
    <3> QED BY <2>3, <2>b, <3>2, <3>3, <3>4 DEF Inv, TypeOK, Sign
  <2>4. ASSUME NEW t \in Thread, SignFails(t) PROVE Inv'
    BY <2>4, <2>b, <2>c DEF Inv, TypeOK, SignFails
  <2>5. ASSUME NEW t \in Thread, Post(t) PROVE Inv'
    <3>1. PICK done \in SUBSET thread[t].legs, answered \in BOOLEAN :
            Posted(t, done, answered /\ done = thread[t].legs)
      BY <2>5 DEF Post
    <3>2. filled' \in Nat /\ missed' \in Nat
      <4>1. thread[t].legs \in Bundle \cup {{}}
        BY <2>a
      <4>2. Notional(done) \in Nat
        BY <4>1, PartNotional
      <4> QED BY <2>d, <3>1, <4>2 DEF Posted
    <3> DEFINE th == IF answered /\ done = thread[t].legs
                     THEN [thread[t] EXCEPT !.pc = "counting"] ELSE Thread0
    <3>3. th \in Worker /\ Fits(th)
      BY <2>a, <2>c
    <3> HIDE DEF th
    <3>4. Becomes(t, th)
      BY <3>1 DEF th, Posted
    <3> QED BY <2>b, <3>1, <3>2, <3>3, <3>4 DEF Inv, TypeOK, Posted
  <2>6. ASSUME NEW t \in Thread, Count(t) PROVE Inv'
    <3>1. spend' \in Nat
      BY <2>6, <2>a, <2>d, NotionalType DEF Count
    <3> QED BY <2>6, <2>b, <2>c, <3>1 DEF Inv, TypeOK, Count
  <2>7. ASSUME NEW l \in queue, NEW o \in Offset, Presign(l, o) PROVE Inv'
    <3>1. l \in Leg
      BY ConstantsAssumption DEF Inv, TypeOK
    <3>2. Key(l, o) \in Keys
      BY <3>1 DEF Keys
    <3>3. cache' \in [held : SUBSET Keys, fresh : SUBSET Keys] /\ cache'.fresh \subseteq cache'.held
      BY <2>7, <3>2 DEF Presign, Inv, TypeOK
    <3>4. UNCHANGED <<spend, filled, missed, queue, thread>>
      BY <2>7 DEF Presign
    <3> QED BY <3>3, <3>4 DEF Inv, TypeOK, OrdersMatchLegs
  <2>8. ASSUME NEW k \in cache.fresh, Age(k) PROVE Inv'
    BY <2>8 DEF Age, Inv, TypeOK, OrdersMatchLegs
  <2>9. CASE EvictStale
    BY <2>9 DEF EvictStale, Inv, TypeOK, OrdersMatchLegs
  <2>10. CASE UNCHANGED vars
    BY <2>10 DEF vars, Inv, TypeOK, OrdersMatchLegs
  <2> QED
    BY <2>1, <2>2, <2>3, <2>4, <2>5, <2>6, <2>7, <2>8, <2>9, <2>10 DEF Next
<1> QED BY <1>1, <1>2, PTL DEF Spec

\* Whatever the cache holds when a bundle is signed, its orders are its own:
\* for its legs, near their price and size, not older than 8 seconds.
THEOREM OrdersMatch == Spec => []OrdersMatchLegs
<1>1. Inv => OrdersMatchLegs
  BY DEF Inv
<1> QED BY InvHolds, <1>1, PTL

-----------------------------------------------------------------------------
(* Sums over the workers.                                                  *)

Amount == [t \in Thread |-> Requested(t)]

\* Amounts are bounded, and the properties' sums are sums of amounts.
LEMMA Amounts ==
  ASSUME Inv
  PROVE  /\ \A t \in Thread : Amount[t] \in 0 .. MaxBundle /\ Amount[t] \in Nat
         /\ Amount = [t \in Thread |-> Notional(thread[t].legs)]
         /\ SumOver(Committed, [t \in Committed |-> Requested(t)]) = SumOver(Committed, Amount)
         /\ SumOver(About, [t \in About |-> Requested(t)]) = SumOver(About, Amount)
<1>1. \A t \in Thread : Requested(t) \in 0 .. MaxBundle
  BY NotionalType DEF Inv, TypeOK, Requested
<1>2. MaxBundle \in Nat
  BY ConstantsAssumption
<1>3. \A t \in Thread : Amount[t] \in 0 .. MaxBundle /\ Amount[t] \in Nat
  BY <1>1, <1>2 DEF Amount
<1>4. \A t \in Committed : [u \in Committed |-> Requested(u)][t] = Amount[t]
  BY DEF Amount, Committed
<1>5. \A t \in About : [u \in About |-> Requested(u)][t] = Amount[t]
  BY DEF Amount, About
<1>6. SumOver(Committed, [t \in Committed |-> Requested(t)]) = SumOver(Committed, Amount)
  BY <1>4, SumEqual
<1>7. SumOver(About, [t \in About |-> Requested(t)]) = SumOver(About, Amount)
  BY <1>5, SumEqual
<1> QED BY <1>3, <1>6, <1>7 DEF Amount, Requested

\* Two sums that differ in one worker at most differ by its amounts.
LEMMA SumStep ==
  ASSUME NEW C \in SUBSET Thread, NEW D \in SUBSET Thread, NEW t \in Thread,
         C \ {t} = D \ {t}, NEW f, NEW g,
         \A u \in Thread : f[u] \in Nat /\ g[u] \in Nat,
         \A u \in Thread \ {t} : f[u] = g[u],
         NEW a \in Nat, NEW b \in Nat, a = f[t], b = g[t]
  PROVE  /\ SumOver(C \ {t}, f) \in Nat
         /\ t \in C => SumOver(C, f) = SumOver(C \ {t}, f) + a
         /\ t \notin C => SumOver(C, f) = SumOver(C \ {t}, f)
         /\ t \in D => SumOver(D, g) = SumOver(C \ {t}, f) + b
         /\ t \notin D => SumOver(D, g) = SumOver(C \ {t}, f)
<1>1. IsFiniteSet(C) /\ IsFiniteSet(D) /\ IsFiniteSet(C \ {t})
  BY ConstantsAssumption, FS_Subset
<1>2. SumOver(C \ {t}, f) \in Nat
  BY <1>1, SumType
<1>3. SumOver(C, f) = SumOver(C \ {t}, f) + (IF t \in C THEN f[t] ELSE 0)
  <2>1. CASE t \in C
    BY <1>1, <2>1, SumWithout
  <2>2. CASE t \notin C
    <3>1. C \ {t} = C
      BY <2>2
    <3> QED BY <1>2, <2>2, <3>1
  <2> QED BY <2>1, <2>2
<1>4. SumOver(D \ {t}, g) = SumOver(C \ {t}, f)
  <2>1. \A u \in C \ {t} : g[u] = f[u]
    OBVIOUS
  <2>2. SumOver(C \ {t}, g) = SumOver(C \ {t}, f)
    BY <2>1, SumEqual
  <2> QED BY <2>2
<1>5. SumOver(D, g) = SumOver(D \ {t}, g) + (IF t \in D THEN g[t] ELSE 0)
  <2>1. CASE t \in D
    BY <1>1, <2>1, SumWithout
  <2>2. CASE t \notin D
    <3>1. D \ {t} = D
      BY <2>2
    <3>2. SumOver(D, g) = SumOver(D \ {t}, g)
      BY <3>1
    <3>3. SumOver(D \ {t}, g) \in Nat
      BY <1>2, <1>4
    <3> QED BY <2>2, <3>2, <3>3
  <2> QED BY <2>1, <2>2
<1> QED BY <1>2, <1>3, <1>4, <1>5

\* A step of a worker leaves the other workers' amounts and stages alone, so
\* the two sums change by the worker's own amount.
LEMMA OneWorker ==
  ASSUME Inv, Inv', NEW t \in Thread, NEW th, Becomes(t, th)
  PROVE  /\ thread'[t] = th
         /\ Amount[t] \in 0 .. MaxBundle /\ Amount'[t] \in 0 .. MaxBundle
         /\ Amount[t] = Notional(thread[t].legs) /\ Amount'[t] = Notional(th.legs)
         /\ \A u \in Thread \ {t} : Amount'[u] = Amount[u]
         /\ Committed' \ {t} = Committed \ {t}
         /\ \E R \in Nat :
              /\ t \in Committed => SumOver(Committed, Amount) = R + Amount[t]
              /\ t \notin Committed => SumOver(Committed, Amount) = R
              /\ t \in Committed' => SumOver(Committed', Amount') = R + Amount'[t]
              /\ t \notin Committed' => SumOver(Committed', Amount') = R
              /\ R = SumOver(Committed \ {t}, Amount)
         /\ \E R \in Nat :
              /\ t \in About => SumOver(About, Amount) = R + Amount[t]
              /\ t \notin About => SumOver(About, Amount) = R
              /\ t \in About' => SumOver(About', Amount') = R + Amount'[t]
              /\ t \notin About' => SumOver(About', Amount') = R
<1>1. thread' = [thread EXCEPT ![t] = th] /\ DOMAIN thread = Thread
  BY DEF Becomes, Inv, TypeOK
<1>2. \A u \in Thread \ {t} : thread'[u] = thread[u]
  BY <1>1
<1>3. \A u \in Thread : Amount[u] = Notional(thread[u].legs)
  BY Amounts
<1>4. \A u \in Thread : Amount'[u] = Notional(thread'[u].legs)
  BY DEF Amount, Requested, Notional
<1>5. \A u \in Thread : Amount[u] \in Nat
  BY Amounts
<1>6. \A u \in Thread : Notional(thread'[u].legs) \in Nat
  <2>1. \A u \in Thread : thread'[u].legs \in Bundle \cup {{}}
    BY DEF Inv, TypeOK
  <2>2. MaxBundle \in Nat
    BY ConstantsAssumption
  <2> QED BY <2>1, <2>2, NotionalType
<1>7. Committed' \ {t} = Committed \ {t} /\ About' \ {t} = About \ {t}
  BY <1>2 DEF Committed, About
<1>8. \A u \in Thread \ {t} : Amount'[u] = Amount[u]
  BY <1>2, <1>3, <1>4
<1>9. \A u \in Thread : Amount[u] \in Nat /\ Amount'[u] \in Nat
  BY <1>4, <1>5, <1>6
<1>10. thread'[t] = th
  BY <1>1
<1>11. Amount[t] \in 0 .. MaxBundle
  BY Amounts
<1>12. Amount'[t] \in 0 .. MaxBundle
  BY <1>4, NotionalType DEF Inv, TypeOK
<1>13. Amount[t] = Notional(thread[t].legs) /\ Amount'[t] = Notional(th.legs)
  BY <1>3, <1>4, <1>10
<1> DEFINE C == Committed  D == Committed'  A == About  B == About'
           f == Amount  g == Amount'  a == Amount[t]  b == Amount'[t]
<1>14. C \in SUBSET Thread /\ D \in SUBSET Thread /\ C \ {t} = D \ {t}
  BY <1>7 DEF Committed
<1>15. A \in SUBSET Thread /\ B \in SUBSET Thread /\ A \ {t} = B \ {t}
  BY <1>7 DEF About
<1>16. \A u \in Thread : f[u] \in Nat /\ g[u] \in Nat
  BY <1>9
<1>17. \A u \in Thread \ {t} : f[u] = g[u]
  BY <1>8
<1>22. a \in Nat /\ b \in Nat /\ a = f[t] /\ b = g[t]
  BY <1>9
<1> HIDE DEF C, D, A, B, f, g, a, b
<1>18. /\ SumOver(C \ {t}, f) \in Nat
       /\ t \in C => SumOver(C, f) = SumOver(C \ {t}, f) + a
       /\ t \notin C => SumOver(C, f) = SumOver(C \ {t}, f)
       /\ t \in D => SumOver(D, g) = SumOver(C \ {t}, f) + b
       /\ t \notin D => SumOver(D, g) = SumOver(C \ {t}, f)
  <2>1. SumOver(C \ {t}, f) \in Nat
    BY <1>14, <1>16, <1>17, <1>22, SumStep
  <2>2. t \in C => SumOver(C, f) = SumOver(C \ {t}, f) + a
    BY <1>14, <1>16, <1>17, <1>22, SumStep
  <2>3. t \notin C => SumOver(C, f) = SumOver(C \ {t}, f)
    BY <1>14, <1>16, <1>17, <1>22, SumStep
  <2>4. t \in D => SumOver(D, g) = SumOver(C \ {t}, f) + b
    BY <1>14, <1>16, <1>17, <1>22, SumStep
  <2>5. t \notin D => SumOver(D, g) = SumOver(C \ {t}, f)
    <3>1. t \notin D => D = C \ {t} /\ D \subseteq Thread \ {t}
      BY <1>14
    <3>2. t \notin D => \A u \in D : g[u] = f[u]
      BY <1>17, <3>1
    <3>3. t \notin D => SumOver(D, g) = SumOver(D, f)
      BY <3>2, SumEqual
    <3> QED BY <3>1, <3>3
  <2> QED BY <2>1, <2>2, <2>3, <2>4, <2>5
<1>19. /\ SumOver(A \ {t}, f) \in Nat
       /\ t \in A => SumOver(A, f) = SumOver(A \ {t}, f) + a
       /\ t \notin A => SumOver(A, f) = SumOver(A \ {t}, f)
       /\ t \in B => SumOver(B, g) = SumOver(A \ {t}, f) + b
       /\ t \notin B => SumOver(B, g) = SumOver(A \ {t}, f)
  <2>1. SumOver(A \ {t}, f) \in Nat
    BY <1>15, <1>16, <1>17, <1>22, SumStep
  <2>2. t \in A => SumOver(A, f) = SumOver(A \ {t}, f) + a
    BY <1>15, <1>16, <1>17, <1>22, SumStep
  <2>3. t \notin A => SumOver(A, f) = SumOver(A \ {t}, f)
    BY <1>15, <1>16, <1>17, <1>22, SumStep
  <2>4. t \in B => SumOver(B, g) = SumOver(A \ {t}, f) + b
    BY <1>15, <1>16, <1>17, <1>22, SumStep
  <2>5. t \notin B => SumOver(B, g) = SumOver(A \ {t}, f)
    <3>1. t \notin B => B = A \ {t} /\ B \subseteq Thread \ {t}
      BY <1>15
    <3>2. t \notin B => \A u \in B : g[u] = f[u]
      BY <1>17, <3>1
    <3>3. t \notin B => SumOver(B, g) = SumOver(B, f)
      BY <3>2, SumEqual
    <3> QED BY <3>1, <3>3
  <2> QED BY <2>1, <2>2, <2>3, <2>4, <2>5
<1>20. \E R \in Nat :
         /\ t \in Committed => SumOver(Committed, Amount) = R + Amount[t]
         /\ t \notin Committed => SumOver(Committed, Amount) = R
         /\ t \in Committed' => SumOver(Committed', Amount') = R + Amount'[t]
         /\ t \notin Committed' => SumOver(Committed', Amount') = R
         /\ R = SumOver(Committed \ {t}, Amount)
  BY <1>18 DEF C, D, f, g, a, b
<1>21. \E R \in Nat :
         /\ t \in About => SumOver(About, Amount) = R + Amount[t]
         /\ t \notin About => SumOver(About, Amount) = R
         /\ t \in About' => SumOver(About', Amount') = R + Amount'[t]
         /\ t \notin About' => SumOver(About', Amount') = R
  BY <1>19 DEF A, B, f, g, a, b
<1> QED BY <1>7, <1>8, <1>10, <1>11, <1>12, <1>13, <1>20, <1>21

-----------------------------------------------------------------------------
(* The session's spend.                                                    *)

\* What the workers that passed the check will spend.
Due == SumOver(Committed, Amount)

Bound == MaxSession + (Cardinality(Thread) - 1) * MaxBundle

\* A sum that was within a limit stays so when a part of it gets smaller.
LEMMA LessAdded == \A z, e, i, j \in Int : e + i <= j /\ z <= i => e + z <= j
OBVIOUS

\* The other committed workers have at most one bundle each.
LEMMA OthersBounded ==
  ASSUME Inv, NEW t \in Thread
  PROVE  SumOver(Committed \ {t}, Amount) <= (Cardinality(Thread) - 1) * MaxBundle
<1> DEFINE n == Cardinality(Committed \ {t})  m == Cardinality(Thread) - 1
<1>1. IsFiniteSet(Thread) /\ MaxBundle \in Nat
  BY ConstantsAssumption
<1>a. IsFiniteSet(Thread \ {t}) /\ Cardinality(Thread \ {t}) = m
  BY <1>1, FS_RemoveElement
<1>b. Cardinality(Thread \ {t}) \in Nat
  BY <1>a, FS_CardinalityType
<1>2. IsFiniteSet(Thread \ {t}) /\ Cardinality(Thread \ {t}) = m /\ m \in Nat
  BY <1>a, <1>b
<1>3. Committed \ {t} \subseteq Thread \ {t}
  BY DEF Committed
<1>4. IsFiniteSet(Committed \ {t}) /\ n <= m /\ n \in Nat
  BY <1>2, <1>3, FS_Subset, FS_CardinalityType
<1>5. \A u \in Committed \ {t} : Amount[u] \in 0 .. MaxBundle
  BY Amounts DEF Committed
<1>6. SumOver(Committed \ {t}, Amount) <= n * MaxBundle
  BY <1>1, <1>4, <1>5, SumBounded
<1>c. \A u \in Committed \ {t} : Amount[u] \in Nat
  BY <1>1, <1>5
<1>7. SumOver(Committed \ {t}, Amount) \in Nat
  BY <1>4, <1>c, SumType
<1>8. n * MaxBundle <= m * MaxBundle /\ n * MaxBundle \in Nat /\ m * MaxBundle \in Nat
  <2> HIDE DEF n, m
  <2>1. \A i, j, k \in Nat : i <= j => i * k <= j * k /\ i * k \in Nat /\ j * k \in Nat
    OBVIOUS
  <2> QED BY <1>1, <1>2, <1>4, <2>1
<1> HIDE DEF n
<1> QED BY <1>6, <1>7, <1>8

\* Together the workers pass the session's cap by no more than one bundle for
\* each further worker.
THEOREM OverrunBound == Spec => []OverrunBounded
<1> DEFINE OInv == spend + Due <= Bound
<1>0. Bound \in Nat /\ MaxSession \in Nat /\ MaxBundle \in Nat /\ Bound >= MaxSession
  <2>1. Cardinality(Thread) \in Nat /\ Cardinality(Thread) # 0
    BY ConstantsAssumption, FS_CardinalityType, FS_EmptySet
  <2>2. MaxSession \in Nat /\ MaxBundle \in Nat
    BY ConstantsAssumption
  <2>3. \A i, j \in Nat : i * j \in Nat
    OBVIOUS
  <2>4. (Cardinality(Thread) - 1) * MaxBundle \in Nat
    BY <2>1, <2>2, <2>3
  <2> QED BY <2>2, <2>4 DEF Bound
<1>1. Init => OInv
  <2> SUFFICES ASSUME Init PROVE OInv
    OBVIOUS
  <2>1. Committed = {} /\ spend = 0
    BY DEF Init, Thread0, Committed
  <2>2. Due = 0
    BY <2>1, SumOfNone DEF Due
  <2> QED BY <1>0, <2>1, <2>2
<1>2. Inv /\ Inv' /\ OInv /\ [Next]_vars => OInv'
  <2> SUFFICES ASSUME Inv, Inv', OInv, [Next]_vars PROVE OInv'
    OBVIOUS
  <2>a. Bound' = Bound
    BY DEF Bound
  <2>b. spend \in Nat /\ spend' \in Nat
    BY DEF Inv, TypeOK
  <2>c. ASSUME UNCHANGED <<spend, thread>> PROVE OInv'
    <3>1. Committed' = Committed /\ Amount' = Amount
      BY <2>c DEF Committed, Amount, Requested
    <3>2. Due' = Due
      BY <3>1 DEF Due
    <3> QED BY <2>a, <2>c, <3>2
  \* A worker that leaves, stays out or stays in owes nothing more.
  <2>d. ASSUME NEW t \in Thread, NEW th, Becomes(t, th), spend' = spend,
               t \in Committed' => t \in Committed /\ th.legs = thread[t].legs
        PROVE  OInv'
    <3>1. PICK R \in Nat :
            /\ t \in Committed => SumOver(Committed, Amount) = R + Amount[t]
            /\ t \notin Committed => SumOver(Committed, Amount) = R
            /\ t \in Committed' => SumOver(Committed', Amount') = R + Amount'[t]
            /\ t \notin Committed' => SumOver(Committed', Amount') = R
      BY <2>d, OneWorker
    <3>2. /\ Amount[t] \in 0 .. MaxBundle /\ Amount'[t] \in 0 .. MaxBundle
          /\ Amount[t] = Notional(thread[t].legs) /\ Amount'[t] = Notional(th.legs)
      BY <2>d, OneWorker
    <3>3. /\ t \in Committed => Due = R + Amount[t]
          /\ t \notin Committed => Due = R
      BY <3>1 DEF Due
    <3>4. /\ t \in Committed' => Due' = R + Amount'[t]
          /\ t \notin Committed' => Due' = R
      BY <3>1 DEF Due
    <3>5. t \in Committed' => t \in Committed /\ Amount'[t] = Amount[t]
      BY <2>d, <3>2
    <3>6. Due' <= Due /\ Due \in Int /\ Due' \in Int
      BY <1>0, <3>2, <3>3, <3>4, <3>5
    <3>7. spend' = spend
      BY <2>d
    <3>8. spend + Due <= Bound
      OBVIOUS
    <3>9. spend + Due' <= Bound
      <4>1. spend \in Int /\ Bound \in Int
        BY <1>0, <2>b
      <4> QED BY <4>1, <3>6, <3>8, LessAdded
    <3> QED BY <2>a, <3>7, <3>9
  <2>1. ASSUME NEW t \in Thread, NEW B \in Bundle, Submit(t, B) PROVE OInv'
    <3> DEFINE th == [Thread0 EXCEPT !.pc = "checking", !.legs = B]
    <3>1. Becomes(t, th) /\ spend' = spend
      BY <2>1 DEF Submit
    <3>2. thread'[t] = th
      BY <3>1, OneWorker
    <3>3. t \notin Committed'
      BY <3>2 DEF Committed, Thread0
    <3> HIDE DEF th
    <3> QED BY <2>d, <3>1, <3>3
  <2>2. ASSUME NEW t \in Thread, Check(t) PROVE OInv'
    <3>1. CASE WithinCaps(thread[t].legs)
      <4> DEFINE th == [thread[t] EXCEPT !.pc = "signing"]
      <4>1. Becomes(t, th) /\ spend' = spend /\ thread[t].pc = "checking"
        BY <2>2, <3>1 DEF Check
      <4>2. thread[t] \in [pc : {"idle", "checking", "signing", "counting"},
                           legs : Bundle \cup {{}}, orders : SUBSET Order]
        BY DEF Inv, TypeOK
      <4>3. th.legs = thread[t].legs
        BY <4>2
      <4> HIDE DEF th
      <4>4. PICK R \in Nat :
              /\ t \in Committed' => SumOver(Committed', Amount') = R + Amount'[t]
              /\ t \notin Committed' => SumOver(Committed', Amount') = R
              /\ R = SumOver(Committed \ {t}, Amount)
        BY <4>1, OneWorker
      <4>5. Amount'[t] \in 0 .. MaxBundle /\ Amount'[t] = Notional(thread[t].legs)
        BY <4>1, <4>3, OneWorker
      <4>6. Due' <= R + Amount'[t] /\ Due' \in Int
        BY <1>0, <4>4, <4>5 DEF Due
      <4>7. spend + Amount'[t] <= MaxSession
        BY <3>1, <4>5 DEF WithinCaps
      <4>8. R <= (Cardinality(Thread) - 1) * MaxBundle
        BY <4>4, OthersBounded
      <4> DEFINE X == (Cardinality(Thread) - 1) * MaxBundle
      <4>9. X \in Int /\ Bound = MaxSession + X /\ R <= X
        <5>1. Cardinality(Thread) \in Nat
          BY ConstantsAssumption, FS_CardinalityType
        <5>2. \A i, j \in Int : i * j \in Int
          OBVIOUS
        <5> QED BY <1>0, <4>8, <5>1, <5>2 DEF Bound
      <4> HIDE DEF X
      <4>10. Amount'[t] \in Int
        BY <1>0, <4>5
      <4>11. spend + Due' <= Bound
        <5>1. spend \in Int /\ Bound \in Int /\ MaxSession \in Int
          BY <1>0, <2>b
        <5>2. R + Amount'[t] \in Int /\ spend + (R + Amount'[t]) <= Bound
          <6> HIDE DEF OInv
          <6> QED BY <5>1, <4>7, <4>9, <4>10
        <5> QED BY <5>1, <5>2, <4>6, LessAdded
      <4> QED BY <2>a, <4>1, <4>11
    <3>2. CASE ~WithinCaps(thread[t].legs)
      <4>1. Becomes(t, Thread0) /\ spend' = spend
        BY <2>2, <3>2 DEF Check
      <4>2. thread'[t] = Thread0
        BY <4>1, OneWorker
      <4>3. t \notin Committed'
        BY <4>2 DEF Committed, Thread0
      <4> QED BY <2>d, <4>1, <4>3
    <3> QED BY <3>1, <3>2
  <2>3. ASSUME NEW t \in Thread, NEW l \in thread[t].legs, Sign(t, l) PROVE OInv'
    <3> DEFINE th == [thread[t] EXCEPT !.orders = @ \cup {Signed(l)}]
    <3>1. Becomes(t, th) /\ spend' = spend /\ t \in Committed
      BY <2>3 DEF Sign, Committed
    <3>2. thread[t] \in [pc : {"idle", "checking", "signing", "counting"},
                         legs : Bundle \cup {{}}, orders : SUBSET Order]
      BY DEF Inv, TypeOK
    <3>3. th.legs = thread[t].legs
      BY <3>2
    <3> HIDE DEF th
    <3> QED BY <2>d, <3>1, <3>3
  <2>4. ASSUME NEW t \in Thread, SignFails(t) PROVE OInv'
    <3>1. Becomes(t, Thread0) /\ spend' = spend
      BY <2>4 DEF SignFails
    <3>2. thread'[t] = Thread0
      BY <3>1, OneWorker
    <3>3. t \notin Committed'
      BY <3>2 DEF Committed, Thread0
    <3> QED BY <2>d, <3>1, <3>3
  <2>5. ASSUME NEW t \in Thread, Post(t) PROVE OInv'
    <3>1. PICK done \in SUBSET thread[t].legs, answered \in BOOLEAN :
            Posted(t, done, answered /\ done = thread[t].legs)
      BY <2>5 DEF Post
    <3> DEFINE th == IF answered /\ done = thread[t].legs
                     THEN [thread[t] EXCEPT !.pc = "counting"] ELSE Thread0
    <3>2. thread[t] \in [pc : {"idle", "checking", "signing", "counting"},
                         legs : Bundle \cup {{}}, orders : SUBSET Order]
      BY DEF Inv, TypeOK
    <3>3. (th.pc = "counting" /\ th.legs = thread[t].legs) \/ th.pc = "idle"
      BY <3>2 DEF Thread0
    <3>4. Becomes(t, th) /\ spend' = spend /\ t \in Committed
      BY <2>5, <3>1 DEF Post, Posted, Committed
    <3> HIDE DEF th
    <3>5. thread'[t] = th
      BY <3>4, OneWorker
    <3>6. t \in Committed' => th.pc # "idle"
      BY <3>5 DEF Committed
    <3> QED BY <2>d, <3>3, <3>4, <3>6
  <2>6. ASSUME NEW t \in Thread, Count(t) PROVE OInv'
    <3>1. /\ Becomes(t, Thread0) /\ t \in Committed
          /\ spend' = spend + Notional(thread[t].legs)
      BY <2>6 DEF Count, Committed
    <3>2. thread'[t] = Thread0
      BY <3>1, OneWorker
    <3>3. t \notin Committed'
      BY <3>2 DEF Committed, Thread0
    <3>4. PICK R \in Nat :
            /\ t \in Committed => SumOver(Committed, Amount) = R + Amount[t]
            /\ t \notin Committed => SumOver(Committed, Amount) = R
            /\ t \in Committed' => SumOver(Committed', Amount') = R + Amount'[t]
            /\ t \notin Committed' => SumOver(Committed', Amount') = R
      BY <3>1, OneWorker
    <3>5. Due = R + Amount[t] /\ Due' = R
      BY <3>1, <3>3, <3>4 DEF Due
    <3>6. Amount[t] \in 0 .. MaxBundle /\ Amount[t] = Notional(thread[t].legs)
      BY <3>1, OneWorker
    <3> QED BY <1>0, <2>a, <2>b, <3>1, <3>5, <3>6
  <2>7. ASSUME NEW l \in queue, NEW o \in Offset, Presign(l, o) PROVE OInv'
    BY <2>7, <2>c DEF Presign
  <2>8. ASSUME NEW k \in cache.fresh, Age(k) PROVE OInv'
    BY <2>8, <2>c DEF Age
  <2>9. CASE EvictStale
    BY <2>9, <2>c DEF EvictStale
  <2>10. CASE UNCHANGED vars
    BY <2>10, <2>c DEF vars
  <2> HIDE DEF OInv
  <2> QED
    BY <2>1, <2>2, <2>3, <2>4, <2>5, <2>6, <2>7, <2>8, <2>9, <2>10 DEF Next
<1>3. Inv /\ OInv => OverrunBounded
  BY Amounts DEF OverrunBounded, Due, Bound
<1> QED BY <1>1, <1>2, <1>3, InvHolds, PTL DEF Spec

\* What the workers that are about to count will count.
Uncounted == SumOver(About, Amount)

\* Nothing is counted twice, and only the fills of bundles that failed or whose
\* responses were lost are not counted: they are what spend and fills differ by,
\* up to the workers that are about to count.
THEOREM FilledCounted == Spec => []FilledIsCounted
<1> DEFINE FInv == filled = spend + missed + Uncounted
<1>1. Init => FInv
  <2> SUFFICES ASSUME Init PROVE FInv
    OBVIOUS
  <2>1. About = {} /\ spend = 0 /\ filled = 0 /\ missed = 0
    BY DEF Init, Thread0, About
  <2>2. Uncounted = 0
    BY <2>1, SumOfNone DEF Uncounted
  <2> QED BY <2>1, <2>2
<1>2. Inv /\ Inv' /\ FInv /\ [Next]_vars => FInv'
  <2> SUFFICES ASSUME Inv, Inv', FInv, [Next]_vars PROVE FInv'
    OBVIOUS
  <2>a. spend \in Nat /\ filled \in Nat /\ missed \in Nat
    BY DEF Inv, TypeOK
  <2>b. ASSUME UNCHANGED <<spend, filled, missed, thread>> PROVE FInv'
    <3>1. About' = About /\ Amount' = Amount
      BY <2>b DEF About, Amount, Requested
    <3>2. Uncounted' = Uncounted
      BY <3>1 DEF Uncounted
    <3> QED BY <2>b, <3>2
  \* A worker that neither was about to count nor is now.
  <2>c. ASSUME NEW t \in Thread, NEW th, Becomes(t, th), UNCHANGED <<spend, filled, missed>>,
               thread[t].pc # "counting", th.pc # "counting"
        PROVE  FInv'
    <3>1. thread'[t] = th
      BY <2>c, OneWorker
    <3>2. t \notin About /\ t \notin About'
      BY <2>c, <3>1 DEF About
    <3>3. PICK R \in Nat :
            /\ t \notin About => SumOver(About, Amount) = R
            /\ t \notin About' => SumOver(About', Amount') = R
      BY <2>c, OneWorker
    <3>4. Uncounted' = Uncounted
      BY <3>2, <3>3 DEF Uncounted
    <3> QED BY <2>c, <3>4
  <2>1. ASSUME NEW t \in Thread, NEW B \in Bundle, Submit(t, B) PROVE FInv'
    <3> DEFINE th == [Thread0 EXCEPT !.pc = "checking", !.legs = B]
    <3>1. th.pc = "checking"
      BY DEF Thread0
    <3>2. /\ Becomes(t, th) /\ UNCHANGED <<spend, filled, missed>> /\ thread[t].pc = "idle"
      BY <2>1 DEF Submit
    <3> HIDE DEF th
    <3> QED BY <2>c, <3>1, <3>2
  <2>2. ASSUME NEW t \in Thread, Check(t) PROVE FInv'
    <3> DEFINE th == IF WithinCaps(thread[t].legs) THEN [thread[t] EXCEPT !.pc = "signing"]
                     ELSE Thread0
    <3>1. th.pc # "counting"
      BY DEF Thread0, Inv, TypeOK
    <3>2. /\ Becomes(t, th) /\ UNCHANGED <<spend, filled, missed>> /\ thread[t].pc = "checking"
      BY <2>2 DEF Check
    <3> HIDE DEF th
    <3> QED BY <2>c, <3>1, <3>2
  <2>3. ASSUME NEW t \in Thread, NEW l \in thread[t].legs, Sign(t, l) PROVE FInv'
    <3> DEFINE th == [thread[t] EXCEPT !.orders = @ \cup {Signed(l)}]
    <3>1. /\ Becomes(t, th) /\ UNCHANGED <<spend, filled, missed>> /\ thread[t].pc = "signing"
      BY <2>3 DEF Sign
    <3>2. th.pc = "signing"
      BY <3>1 DEF Inv, TypeOK
    <3> HIDE DEF th
    <3> QED BY <2>c, <3>1, <3>2
  <2>4. ASSUME NEW t \in Thread, SignFails(t) PROVE FInv'
    <3>1. /\ Becomes(t, Thread0) /\ UNCHANGED <<spend, filled, missed>>
          /\ thread[t].pc = "signing" /\ Thread0.pc = "idle"
      BY <2>4 DEF SignFails, Thread0
    <3> QED BY <2>c, <3>1
  <2>5. ASSUME NEW t \in Thread, Post(t) PROVE FInv'
    <3>1. PICK done \in SUBSET thread[t].legs, answered \in BOOLEAN :
            Posted(t, done, answered /\ done = thread[t].legs)
      BY <2>5 DEF Post
    <3>2. spend' = spend /\ thread[t].pc = "signing"
      BY <2>5, <3>1 DEF Post, Posted
    <3> DEFINE success == answered /\ done = thread[t].legs
               th == IF success THEN [thread[t] EXCEPT !.pc = "counting"] ELSE Thread0
    <3>3. Becomes(t, th)
      BY <3>1 DEF Posted
    <3>4. /\ success => th.pc = "counting" /\ th.legs = thread[t].legs
          /\ ~success => th.pc = "idle"
      BY DEF Inv, TypeOK, Thread0
    <3> HIDE DEF th
    <3>5. thread'[t] = th /\ Amount'[t] = Notional(th.legs) /\ Amount'[t] \in 0 .. MaxBundle
      BY <3>3, OneWorker
    <3>6. PICK R \in Nat :
            /\ t \notin About => SumOver(About, Amount) = R
            /\ t \in About' => SumOver(About', Amount') = R + Amount'[t]
            /\ t \notin About' => SumOver(About', Amount') = R
      BY <3>3, OneWorker
    <3>7. t \notin About /\ Uncounted = R
      BY <3>2, <3>6 DEF About, Uncounted
    <3>8. CASE success
      <4>1. filled' = filled + Notional(thread[t].legs) /\ missed' = missed
        BY <3>1, <3>8 DEF Posted
      <4>2. t \in About' /\ Uncounted' = R + Notional(thread[t].legs)
        BY <3>4, <3>5, <3>6, <3>8 DEF About, Uncounted
      <4>3. Notional(thread[t].legs) \in Nat
        BY <3>4, <3>5, <3>8, ConstantsAssumption
      <4> QED BY <2>a, <3>2, <3>7, <4>1, <4>2, <4>3
    <3>9. CASE ~success
      <4>1. filled' = filled + Notional(done) /\ missed' = missed + Notional(done)
        BY <3>1, <3>9 DEF Posted
      <4>2. t \notin About' /\ Uncounted' = R
        BY <3>4, <3>5, <3>6, <3>9 DEF About, Uncounted
      <4>3. Notional(done) \in Nat
        BY PartNotional DEF Inv, TypeOK
      <4> QED BY <2>a, <3>2, <3>7, <4>1, <4>2, <4>3
    <3> QED BY <3>8, <3>9
  <2>6. ASSUME NEW t \in Thread, Count(t) PROVE FInv'
    <3>1. /\ Becomes(t, Thread0) /\ UNCHANGED <<filled, missed>> /\ t \in About
          /\ spend' = spend + Notional(thread[t].legs)
      BY <2>6 DEF Count, About
    <3>2. /\ thread'[t] = Thread0
          /\ Amount[t] = Notional(thread[t].legs) /\ Amount[t] \in 0 .. MaxBundle
      BY <3>1, OneWorker
    <3>3. t \notin About'
      BY <3>2 DEF About, Thread0
    <3>4. PICK R \in Nat :
            /\ t \in About => SumOver(About, Amount) = R + Amount[t]
            /\ t \notin About' => SumOver(About', Amount') = R
      BY <3>1, OneWorker
    <3>5. Uncounted = R + Notional(thread[t].legs) /\ Uncounted' = R
      BY <3>1, <3>2, <3>3, <3>4 DEF Uncounted
    <3>6. Notional(thread[t].legs) \in Nat
      BY <3>2, ConstantsAssumption
    <3> QED BY <2>a, <3>1, <3>5, <3>6
  <2>7. ASSUME NEW l \in queue, NEW o \in Offset, Presign(l, o) PROVE FInv'
    BY <2>7, <2>b DEF Presign
  <2>8. ASSUME NEW k \in cache.fresh, Age(k) PROVE FInv'
    BY <2>8, <2>b DEF Age
  <2>9. CASE EvictStale
    BY <2>9, <2>b DEF EvictStale
  <2>10. CASE UNCHANGED vars
    BY <2>10, <2>b DEF vars
  <2> HIDE DEF FInv
  <2> QED
    BY <2>1, <2>2, <2>3, <2>4, <2>5, <2>6, <2>7, <2>8, <2>9, <2>10 DEF Next
<1>3. Inv /\ FInv => FilledIsCounted
  BY Amounts DEF FilledIsCounted, Uncounted, About
<1> QED BY <1>1, <1>2, <1>3, InvHolds, PTL DEF Spec
=============================================================================
