----------------------------- MODULE EntryLedger -----------------------------
(***************************************************************************)
(* What the entry engine of src/simulator.py promises its user: an account *)
(* that is opened with a budget, pays for every position from what it has  *)
(* or is given credit for, keeps positions, their number and their sum     *)
(* within limits, holds at most one open position of an exclusive          *)
(* strategy, and gets back what a position is liquidated for.  How         *)
(* candidates are found, reserved for, rechecked and interleaved does not  *)
(* appear.                                                                 *)
(***************************************************************************)
EXTENDS Capital

CONSTANTS
  Strategy, Exclusive, Budget,
  Credit,           \* how far other entries may have drawn on the same money
  Stake,            \* most a position in each strategy locks
  Ceiling,          \* most that all positions lock, for an entry in each
  Counted,          \* strategies with a cap on the number of positions ...
  PerName, InAll    \* ... in one of them and in all

VARIABLES cash, realized, open

Init == cash = Budget /\ realized = 0 /\ open = {}

\* A position of capital n fits into s.
Fits(s, n) ==
  /\ n <= Stake[s]
  /\ n <= cash + Credit
  /\ LockedIn(open) + n <= Ceiling[s] + Credit
  /\ s \in Exclusive => \A q \in open : q.name # s
  /\ s \in Counted => /\ Cardinality({q \in open : q.name = s}) < PerName
                      /\ Cardinality({q \in open : q.name \in Counted}) < InAll

\* A position in s is opened and paid for.
Enter(s) ==
  /\ \E q \in open' \ open :
       /\ q \in [id : Nat, name : {s}, locked : Nat \ {0}] /\ Fits(s, q.locked)
       /\ \A r \in open : r.id # q.id
       /\ open' = open \cup {q}
       /\ cash' = cash - q.locked
  /\ UNCHANGED realized

\* The positions of Q are liquidated; what they return above or below their
\* cost is profit or loss.
Settle(Q) ==
  /\ open' = open \ Q
  /\ cash' >= cash
  /\ realized' = realized + (cash' - cash) - LockedIn(Q)

Next == (\E s \in Strategy : Enter(s)) \/ (\E Q \in SUBSET open : Settle(Q))

Spec == Init /\ [][Next]_<<cash, realized, open>>
=============================================================================
