---------------------------- MODULE CapitalLemmas ----------------------------
(* Facts about the operators of Capital that the proofs of the components  *)
(* cite.                                                                   *)
EXTENDS Capital, FiniteSetTheorems, WellFoundedInduction, TLAPS

\* The minimum of a set that has one belongs to it and bounds it.
LEMMA LeastIsMinimum ==
  ASSUME NEW S, \E x \in S : \A y \in S : x <= y
  PROVE  Least(S) \in S /\ \A y \in S : Least(S) <= y
BY DEF Least

LEMMA LeastOfTwo ==
  ASSUME NEW a \in Int, NEW b \in Int
  PROVE  LET m == Least({a, b}) IN m \in Int /\ m <= a /\ m <= b
<1>1. \E x \in {a, b} : \A y \in {a, b} : x <= y
  OBVIOUS
<1> QED BY <1>1, LeastIsMinimum

LEMMA LeastOfThree ==
  ASSUME NEW a \in Int, NEW b \in Int, NEW c \in Int
  PROVE  LET m == Least({a, b, c}) IN m \in Int /\ m <= a /\ m <= b /\ m <= c
<1>1. \E x \in {a, b, c} : \A y \in {a, b, c} : x <= y
  OBVIOUS
<1> QED BY <1>1, LeastIsMinimum

LEMMA LeastOfFour ==
  ASSUME NEW a \in Int, NEW b \in Int, NEW c \in Int, NEW d \in Int
  PROVE  LET m == Least({a, b, c, d})
         IN  m \in Int /\ m <= a /\ m <= b /\ m <= c /\ m <= d
<1>1. \E x \in {a, b, c, d} : \A y \in {a, b, c, d} : x <= y
  OBVIOUS
<1> QED BY <1>1, LeastIsMinimum

\* Some natural of a set is the smallest.
LEMMA SmallestExists ==
  ASSUME NEW S \in SUBSET Nat, S # {}
  PROVE  \E x \in S : \A y \in S : x <= y
<1> DEFINE R == {ss \in Nat \X Nat : ss[1] < ss[2]}
<1>1. IsWellFoundedOn(R, Nat)
  BY NatLessThanWellFounded, Zenon DEF OpToRel
<1>2. PICK x \in S : \A y \in S : ~ (<<y, x>> \in R)
  <2> HIDE DEF R
  <2> QED BY <1>1, WFMin
<1>3. \A y \in S : ~ (y < x) /\ y \in Nat /\ x \in Nat
  BY <1>2
<1> QED BY <1>3

\* Of finitely many integers one is the largest: the ones above one of them
\* are a finite set, and among such sets one is least.
LEMMA LargestExists ==
  ASSUME NEW S \in SUBSET Int, IsFiniteSet(S), S # {}
  PROVE  \E x \in S : \A y \in S : x >= y
<1> DEFINE above == [x \in S |-> {y \in S : y > x}]
           T == {above[x] : x \in S}
           F == FiniteSubsetsOf(S)
           R == StrictSubsetOrdering(S)
<1>1. IsWellFoundedOn(R, F)
  BY FS_StrictSubsetOrderingWellFounded
<1>2. T \subseteq F /\ T # {}
  <2>1. \A x \in S : above[x] \in SUBSET S
    OBVIOUS
  <2>2. \A x \in S : IsFiniteSet(above[x])
    BY <2>1, FS_Subset
  <2> QED BY <2>1, <2>2 DEF FiniteSubsetsOf
<1>3. PICK t \in T : \A u \in T : ~ (<<u, t>> \in R)
  <2> HIDE DEF R, F, T
  <2> QED BY <1>1, <1>2, WFMin
<1>4. PICK x \in S : t = above[x]
  OBVIOUS
<1>5. ASSUME NEW y \in S, y > x PROVE FALSE
  <2>1. above[y] \subseteq above[x] /\ y \in above[x] /\ y \notin above[y]
    <3>1. x \in Int /\ y \in Int /\ ~ (y > y)
      OBVIOUS
    <3>2. \A z \in S : z > y => z > x
      <4>1. ASSUME NEW z \in S PROVE z \in Int
        OBVIOUS
      <4> QED BY <1>5, <3>1, <4>1
    <3> QED BY <1>5, <3>1, <3>2
  <2>2. <<above[y], above[x]>> \in R
    BY <2>1 DEF StrictSubsetOrdering
  <2>3. above[y] \in T
    OBVIOUS
  <2> HIDE DEF R, T, above
  <2> QED BY <1>3, <1>4, <2>2, <2>3
<1>6. \A y \in S : x >= y
  BY <1>5
<1> QED BY <1>6

LEMMA PercentType ==
  ASSUME NEW amount \in Int, NEW pct \in Nat
  PROVE  Percent(amount, pct) \in Int
<1>1. amount * pct \in Int
  OBVIOUS
<1> QED BY <1>1 DEF Percent

\* A fraction of at most the whole is at most the amount.
LEMMA PercentBounded ==
  ASSUME NEW amount \in Nat, NEW pct \in 0 .. 100
  PROVE  Percent(amount, pct) <= amount
<1>1. amount * pct \in Nat /\ amount * pct <= amount * 100
  OBVIOUS
<1>2. \A k \in Nat : k <= amount * 100 => k \div 100 <= amount
  OBVIOUS
<1> QED BY <1>1, <1>2 DEF Percent

\* A fraction of more is more ...
LEMMA PercentGrows ==
  ASSUME NEW a \in Nat, NEW b \in Nat, a <= b, NEW pct \in Nat
  PROVE  Percent(a, pct) <= Percent(b, pct)
<1>1. a * pct \in Nat /\ b * pct \in Nat /\ a * pct <= b * pct
  OBVIOUS
<1>2. \A j, k \in Nat : j <= k => j \div 100 <= k \div 100
  OBVIOUS
<1> QED BY <1>1, <1>2 DEF Percent

\* ... and more than the whole adds more to more.
LEMMA PercentExcess ==
  ASSUME NEW a \in Nat, NEW b \in Nat, a <= b, NEW pct \in Nat, pct >= 100
  PROVE  Percent(a, pct) - a <= Percent(b, pct) - b
<1> DEFINE over == pct - 100
<1>1. over \in Nat /\ pct = 100 + over
  OBVIOUS
<1> HIDE DEF over
<1>2. a * over \in Nat /\ b * over \in Nat /\ a * over <= b * over
  BY <1>1
<1>3. a * pct = 100 * a + a * over /\ b * pct = 100 * b + b * over
  BY <1>1
<1>4. \A k, x \in Nat : (100 * k + x) \div 100 = k + (x \div 100)
  OBVIOUS
<1>5. \A j, k \in Nat : j <= k => j \div 100 <= k \div 100
  OBVIOUS
<1>6. Percent(a, pct) = a + ((a * over) \div 100) /\ Percent(b, pct) = b + ((b * over) \div 100)
  BY <1>2, <1>3, <1>4 DEF Percent
<1>7. (a * over) \div 100 \in Int /\ (b * over) \div 100 \in Int
  BY <1>2
<1> QED BY <1>2, <1>5, <1>6, <1>7

\* The units of finitely many amounts are finitely many, and their number is
\* the sum, a natural.
LEMMA SumType ==
  ASSUME NEW S, IsFiniteSet(S), NEW f, \A x \in S : f[x] \in Nat
  PROVE  /\ IsFiniteSet(UNION {{x} \X (1 .. f[x]) : x \in S})
         /\ SumOver(S, f) \in Nat
<1> DEFINE units == [x \in S |-> {x} \X (1 .. f[x])]
           U == {units[x] : x \in S}
<1>1. units \in Surjection(S, U)
  BY DEF Surjection
<1>2. IsFiniteSet(U)
  BY <1>1, FS_Surjection
<1>3. \A T \in U : IsFiniteSet(T)
  <2> SUFFICES ASSUME NEW x \in S PROVE IsFiniteSet({x} \X (1 .. f[x]))
    OBVIOUS
  <2>1. IsFiniteSet({x})
    BY FS_Singleton
  <2>2. IsFiniteSet(1 .. f[x])
    BY FS_Interval
  <2> QED BY <2>1, <2>2, FS_Product
<1>4. IsFiniteSet(UNION U)
  BY <1>2, <1>3, FS_UNION
<1>5. UNION U = UNION {{x} \X (1 .. f[x]) : x \in S}
  OBVIOUS
<1> QED BY <1>4, <1>5, FS_CardinalityType DEF SumOver

\* A sum depends on the amounts of its elements only.
LEMMA SumEqual ==
  ASSUME NEW S, NEW f, NEW g, \A x \in S : f[x] = g[x]
  PROVE  SumOver(S, f) = SumOver(S, g)
<1>1. {{x} \X (1 .. f[x]) : x \in S} = {{x} \X (1 .. g[x]) : x \in S}
  OBVIOUS
<1> QED BY <1>1 DEF SumOver

\* The sum over two disjoint sets is the sum of their sums.
LEMMA SumDisjoint ==
  ASSUME NEW S, NEW T, IsFiniteSet(S), IsFiniteSet(T), S \cap T = {},
         NEW f, \A x \in S \cup T : f[x] \in Nat
  PROVE  SumOver(S \cup T, f) = SumOver(S, f) + SumOver(T, f)
<1> DEFINE Units(Q) == UNION {{x} \X (1 .. f[x]) : x \in Q}
<1>1. IsFiniteSet(Units(S)) /\ IsFiniteSet(Units(T))
  BY SumType
<1>2. Units(S \cup T) = Units(S) \cup Units(T)
  OBVIOUS
<1>3. Units(S) \cap Units(T) = {}
  <2> SUFFICES ASSUME NEW u, u \in Units(S), u \in Units(T) PROVE FALSE
    OBVIOUS
  <2>1. PICK x \in S : u \in {x} \X (1 .. f[x])
    OBVIOUS
  <2>2. PICK y \in T : u \in {y} \X (1 .. f[y])
    OBVIOUS
  <2>3. u[1] = x /\ u[1] = y
    BY <2>1, <2>2
  <2> QED BY <2>3
<1> HIDE DEF Units
<1>4. Cardinality(Units(S) \cup Units(T)) = Cardinality(Units(S)) + Cardinality(Units(T))
  <2>1. Cardinality(Units(S) \cap Units(T)) = 0
    BY <1>3, FS_EmptySet
  <2>2. Cardinality(Units(S)) \in Nat /\ Cardinality(Units(T)) \in Nat
    BY <1>1, FS_CardinalityType
  <2>3. Cardinality(Units(S) \cup Units(T))
          = Cardinality(Units(S)) + Cardinality(Units(T)) - Cardinality(Units(S) \cap Units(T))
    BY <1>1, FS_Union
  <2> QED BY <2>1, <2>2, <2>3
<1> QED BY <1>2, <1>4 DEF SumOver, Units

LEMMA SumOfOne ==
  ASSUME NEW x, NEW f, f[x] \in Nat
  PROVE  SumOver({x}, f) = f[x]
<1>1. UNION {{y} \X (1 .. f[y]) : y \in {x}} = {x} \X (1 .. f[x])
  OBVIOUS
<1>2. IsFiniteSet({x}) /\ Cardinality({x}) = 1
  BY FS_Singleton
<1>3. IsFiniteSet(1 .. f[x]) /\ Cardinality(1 .. f[x]) = f[x]
  <2>1. ASSUME NEW n \in Nat PROVE IsFiniteSet(1 .. n) /\ Cardinality(1 .. n) = n
    BY FS_Interval
  <2> QED BY <2>1
<1>4. Cardinality({x} \X (1 .. f[x])) = Cardinality({x}) * Cardinality(1 .. f[x])
  BY <1>2, <1>3, FS_Product
<1>5. Cardinality({x} \X (1 .. f[x])) = f[x]
  BY <1>2, <1>3, <1>4
<1> QED BY <1>1, <1>5 DEF SumOver

\* The capital locked in a set of positions is a natural ...
LEMMA LockedType ==
  ASSUME NEW Q, IsFiniteSet(Q), \A q \in Q : q.locked \in Nat
  PROVE  LockedIn(Q) \in Nat
BY SumType DEF LockedIn

\* ... it grows by what a new position locks ...
LEMMA LockedAdd ==
  ASSUME NEW Q, NEW r, IsFiniteSet(Q), r \notin Q,
         \A q \in Q \cup {r} : q.locked \in Nat
  PROVE  LockedIn(Q \cup {r}) = LockedIn(Q) + r.locked
<1> DEFINE f == [q \in Q \cup {r} |-> q.locked]
<1>1. IsFiniteSet({r}) /\ Q \cap {r} = {} /\ \A q \in Q \cup {r} : f[q] \in Nat
  BY FS_Singleton
<1>2. SumOver(Q \cup {r}, f) = SumOver(Q, f) + SumOver({r}, f)
  BY <1>1, SumDisjoint
<1>3. SumOver({r}, f) = r.locked
  <2>1. f[r] = r.locked /\ f[r] \in Nat
    BY <1>1
  <2> HIDE DEF f
  <2> QED BY <2>1, SumOfOne
<1>4. SumOver(Q, f) = LockedIn(Q)
  BY SumEqual DEF LockedIn
<1> QED BY <1>2, <1>3, <1>4 DEF LockedIn

\* ... and falls by what the closed ones locked.
LEMMA LockedRemove ==
  ASSUME NEW S, NEW Q \in SUBSET S, IsFiniteSet(S), \A q \in S : q.locked \in Nat
  PROVE  LockedIn(S) = LockedIn(S \ Q) + LockedIn(Q)
<1> DEFINE f == [q \in S |-> q.locked]
<1>1. IsFiniteSet(Q) /\ IsFiniteSet(S \ Q)
  BY FS_Subset, FS_Difference
<1>2. (S \ Q) \cup Q = S /\ (S \ Q) \cap Q = {} /\ \A q \in S : f[q] \in Nat
  OBVIOUS
<1>3. SumOver((S \ Q) \cup Q, f) = SumOver(S \ Q, f) + SumOver(Q, f)
  <2> HIDE DEF f
  <2> QED BY <1>1, <1>2, SumDisjoint
<1>4. SumOver(S \ Q, f) = LockedIn(S \ Q) /\ SumOver(Q, f) = LockedIn(Q)
  BY SumEqual DEF LockedIn
<1> QED BY <1>2, <1>3, <1>4 DEF LockedIn

\* A sum over amounts of at most M each is at most M times their number.
LEMMA SumBounded ==
  ASSUME NEW S, IsFiniteSet(S), NEW M \in Nat, NEW f, \A x \in S : f[x] \in 0 .. M
  PROVE  SumOver(S, f) <= Cardinality(S) * M
<1> DEFINE U == UNION {{x} \X (1 .. f[x]) : x \in S}
<1>1. U \subseteq S \X (1 .. M)
  OBVIOUS
<1>2. IsFiniteSet(1 .. M) /\ Cardinality(1 .. M) = M
  BY FS_Interval
<1>3. /\ IsFiniteSet(S \X (1 .. M))
      /\ Cardinality(S \X (1 .. M)) = Cardinality(S) * Cardinality(1 .. M)
  BY <1>2, FS_Product
<1>4. Cardinality(U) <= Cardinality(S \X (1 .. M))
  BY <1>1, <1>3, FS_Subset
<1> QED BY <1>2, <1>3, <1>4 DEF SumOver

\* Taking one element out of a sum takes its amount out.
LEMMA SumWithout ==
  ASSUME NEW S, IsFiniteSet(S), NEW f, \A x \in S : f[x] \in Nat, NEW t \in S
  PROVE  SumOver(S, f) = SumOver(S \ {t}, f) + f[t]
<1>1. IsFiniteSet(S \ {t}) /\ IsFiniteSet({t})
  BY FS_Subset, FS_Singleton
<1>2. (S \ {t}) \cup {t} = S /\ (S \ {t}) \cap {t} = {}
  OBVIOUS
<1>3. SumOver((S \ {t}) \cup {t}, f) = SumOver(S \ {t}, f) + SumOver({t}, f)
  BY <1>1, <1>2, SumDisjoint
<1> QED BY <1>2, <1>3, SumOfOne

\* A sum over nothing is zero.
LEMMA SumOfNone == \A f : SumOver({}, f) = 0
  BY FS_EmptySet DEF SumOver

\* More elements sum up to more.
LEMMA SumGrows ==
  ASSUME NEW S, IsFiniteSet(S), NEW T \in SUBSET S, NEW f, \A x \in S : f[x] \in Nat
  PROVE  SumOver(T, f) <= SumOver(S, f)
<1>1. IsFiniteSet(T) /\ IsFiniteSet(S \ T)
  BY FS_Subset
<1>2. T \cup (S \ T) = S /\ T \cap (S \ T) = {}
  OBVIOUS
<1>3. SumOver(S, f) = SumOver(T, f) + SumOver(S \ T, f)
  BY <1>1, <1>2, SumDisjoint
<1>4. SumOver(T, f) \in Nat /\ SumOver(S \ T, f) \in Nat
  BY <1>1, SumType
<1> QED BY <1>3, <1>4

\* Amounts that compare, scaled, to others sum up to sums that compare so: of
\* the sets for which they would not, take a least one.
LEMMA SumScaled ==
  ASSUME NEW S, IsFiniteSet(S), NEW j \in Nat, NEW k \in Nat, NEW f, NEW g,
         \A x \in S : f[x] \in Nat /\ g[x] \in Nat /\ j * f[x] <= k * g[x]
  PROVE  j * SumOver(S, f) <= k * SumOver(S, g)
<1> DEFINE short == {T \in SUBSET S : ~ (j * SumOver(T, f) <= k * SumOver(T, g))}
           F == FiniteSubsetsOf(S)
           R == StrictSubsetOrdering(S)
<1>1. SUFFICES ASSUME short # {} PROVE FALSE
  OBVIOUS
<1>2. IsWellFoundedOn(R, F)
  BY FS_StrictSubsetOrderingWellFounded
<1>3. short \subseteq F
  BY FS_Subset DEF FiniteSubsetsOf
<1>4. PICK T \in short : \A U \in short : ~ (<<U, T>> \in R)
  <2> HIDE DEF R, F, short
  <2> QED BY <1>1, <1>2, <1>3, WFMin
<1>5. T \in SUBSET S /\ ~ (j * SumOver(T, f) <= k * SumOver(T, g)) /\ IsFiniteSet(T)
  BY FS_Subset
<1>6. PICK x \in T : TRUE
  <2>1. SumOver({}, f) = 0 /\ SumOver({}, g) = 0
    BY SumOfNone
  <2> QED BY <1>5, <2>1
<1>7. j * SumOver(T \ {x}, f) <= k * SumOver(T \ {x}, g)
  <2>1. T \ {x} \in SUBSET S /\ <<T \ {x}, T>> \in R
    BY <1>5, <1>6 DEF StrictSubsetOrdering
  <2>2. T \ {x} \notin short
    <3> HIDE DEF R, short
    <3> QED BY <1>4, <2>1
  <2> QED BY <2>1, <2>2
<1>8. /\ SumOver(T, f) = SumOver(T \ {x}, f) + f[x]
      /\ SumOver(T, g) = SumOver(T \ {x}, g) + g[x]
  BY <1>5, <1>6, SumWithout
<1>9. /\ SumOver(T \ {x}, f) \in Nat /\ SumOver(T \ {x}, g) \in Nat
      /\ f[x] \in Nat /\ g[x] \in Nat /\ j * f[x] <= k * g[x]
  <2>1. IsFiniteSet(T \ {x}) /\ \A y \in T \ {x} : f[y] \in Nat /\ g[y] \in Nat
    BY <1>5, FS_Subset
  <2> QED BY <1>5, <1>6, <2>1, SumType
<1>10. \A a, b \in Nat : j * (a + b) = j * a + j * b /\ k * (a + b) = k * a + k * b
  OBVIOUS
<1> HIDE DEF short
<1>11. /\ j * SumOver(T, f) = j * SumOver(T \ {x}, f) + j * f[x]
       /\ k * SumOver(T, g) = k * SumOver(T \ {x}, g) + k * g[x]
  BY <1>8, <1>9, <1>10
<1>12. /\ j * SumOver(T \ {x}, f) \in Nat /\ j * f[x] \in Nat
       /\ k * SumOver(T \ {x}, g) \in Nat /\ k * g[x] \in Nat
  BY <1>9
<1> QED BY <1>5, <1>7, <1>9, <1>11, <1>12

\* Larger amounts sum up to more.
LEMMA SumMonotone ==
  ASSUME NEW S, IsFiniteSet(S), NEW f, NEW g,
         \A x \in S : f[x] \in Nat /\ g[x] \in Nat /\ f[x] <= g[x]
  PROVE  SumOver(S, f) <= SumOver(S, g)
<1>1. \A x \in S : 1 * f[x] <= 1 * g[x]
  OBVIOUS
<1>2. 1 * SumOver(S, f) <= 1 * SumOver(S, g)
  BY <1>1, SumScaled
<1>3. SumOver(S, f) \in Nat /\ SumOver(S, g) \in Nat
  BY SumType
<1> QED BY <1>2, <1>3

\* One amount of a sum changes.
LEMMA SumChanged ==
  ASSUME NEW S, IsFiniteSet(S), NEW t \in S, NEW f, NEW g,
         \A x \in S : f[x] \in Nat /\ g[x] \in Nat /\ (x # t => g[x] = f[x])
  PROVE  SumOver(S, g) = SumOver(S, f) - f[t] + g[t]
<1>1. SumOver(S, f) = SumOver(S \ {t}, f) + f[t] /\ SumOver(S, g) = SumOver(S \ {t}, g) + g[t]
  BY SumWithout
<1>2. SumOver(S \ {t}, f) = SumOver(S \ {t}, g)
  BY SumEqual
<1>3. SumOver(S \ {t}, f) \in Nat
  BY SumType, FS_Subset
<1> QED BY <1>1, <1>2, <1>3

\* Counting the elements of each name counts the elements of all names: of the
\* sets of names for which it did not, take a least one.
LEMMA SumOfCounts ==
  ASSUME NEW S, IsFiniteSet(S), NEW P, IsFiniteSet(P), NEW f,
         \A x \in S : f[x] = Cardinality({q \in P : q.name = x})
  PROVE  SumOver(S, f) = Cardinality({q \in P : q.name \in S})
<1> DEFINE of(T) == {q \in P : q.name \in T}
           off == {T \in SUBSET S : SumOver(T, f) # Cardinality(of(T))}
           F == FiniteSubsetsOf(S)
           R == StrictSubsetOrdering(S)
<1>1. SUFFICES ASSUME off # {} PROVE FALSE
  OBVIOUS
<1>2. IsWellFoundedOn(R, F)
  BY FS_StrictSubsetOrderingWellFounded
<1>3. off \subseteq F
  BY FS_Subset DEF FiniteSubsetsOf
<1>4. PICK T \in off : \A U \in off : ~ (<<U, T>> \in R)
  <2> HIDE DEF R, F, off
  <2> QED BY <1>1, <1>2, <1>3, WFMin
<1>5. T \in SUBSET S /\ SumOver(T, f) # Cardinality(of(T)) /\ IsFiniteSet(T)
  BY FS_Subset
<1>6. PICK x \in T : TRUE
  <2>1. SumOver({}, f) = 0 /\ of({}) = {} /\ Cardinality({}) = 0
    BY SumOfNone, FS_EmptySet
  <2> HIDE DEF of
  <2> QED BY <1>5, <2>1
<1>7. SumOver(T \ {x}, f) = Cardinality(of(T \ {x}))
  <2>1. T \ {x} \in SUBSET S /\ <<T \ {x}, T>> \in R
    BY <1>5, <1>6 DEF StrictSubsetOrdering
  <2>2. T \ {x} \notin off
    <3> HIDE DEF R, off
    <3> QED BY <1>4, <2>1
  <2> QED BY <2>1, <2>2
<1>8. SumOver(T, f) = SumOver(T \ {x}, f) + f[x]
  <2>1. ASSUME NEW y \in T PROVE f[y] \in Nat
    <3>1. IsFiniteSet({q \in P : q.name = y})
      BY FS_Subset
    <3> QED BY <1>5, <3>1, FS_CardinalityType
  <2> QED BY <1>5, <1>6, <2>1, SumWithout
<1>9. f[x] = Cardinality(of({x}))
  <2>1. {q \in P : q.name = x} = of({x})
    OBVIOUS
  <2> QED BY <1>5, <1>6, <2>1
<1>10. Cardinality(of(T)) = Cardinality(of(T \ {x})) + Cardinality(of({x}))
  <2> DEFINE A == of(T \ {x})
             B == of({x})
  <2>1. of(T) = A \cup B /\ A \cap B = {}
    BY <1>6
  <2>2. IsFiniteSet(A) /\ IsFiniteSet(B)
    BY FS_Subset
  <2> HIDE DEF A, B, of, off
  <2>3. Cardinality(A) \in Nat /\ Cardinality(B) \in Nat /\ Cardinality({}) = 0
    BY <2>2, FS_CardinalityType, FS_EmptySet
  <2>4. Cardinality(A \cup B) = Cardinality(A) + Cardinality(B) - Cardinality(A \cap B)
    BY <2>2, FS_Union
  <2>5. Cardinality(A \cup B) = Cardinality(A) + Cardinality(B)
    <3>1. Cardinality(A \cap B) = 0
      BY <2>1, <2>3
    <3> QED BY <2>3, <2>4, <3>1
  <2> QED BY <2>1, <2>5 DEF A, B
<1> HIDE DEF off, of
<1> QED BY <1>5, <1>7, <1>8, <1>9, <1>10
=============================================================================
