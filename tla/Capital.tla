------------------------------- MODULE Capital -------------------------------
(***************************************************************************)
(* Arithmetic on capital, counted in whole units: the sums, minima and     *)
(* fractions that the sizing code of src/simulator.py computes.            *)
(***************************************************************************)
EXTENDS Integers, FiniteSets

\* sum(f[x] for x in S).  The amounts are naturals, so the sum is the number
\* of pairs of an element and one of its units.
SumOver(S, f) == Cardinality(UNION {{x} \X (1 .. f[x]) : x \in S})

\* sum(pos.locked_capital for pos in Q)
LockedIn(Q) == SumOver(Q, [q \in Q |-> q.locked])

\* min(...)
Least(S) == CHOOSE x \in S : \A y \in S : x <= y

\* amount * fraction, the fraction given in percent and the cents dropped
Percent(amount, pct) == (amount * pct) \div 100
=============================================================================
