------------------------ MODULE BackgroundEntryProofs ------------------------
(***************************************************************************)
(* Theorems about BackgroundEntry for every set of pairs and N-leg specs,  *)
(* every budget and every setting.                                         *)
(***************************************************************************)
EXTENDS BackgroundEntry, CapitalLemmas

\* Trade ids are handed out once.
FreshIds == \A q \in positions : q.id < nextTradeId

\* In paper mode a sized entry is booked without another await, and from cash.
PaperNeverWaits == \A t \in Task : task[t].pc = "ordering" => LiveMode
PaperNeverOverdraws == LiveMode \/ cash >= 0

(***************************************************************************)
(* The inductive invariant, in three local parts and the one that relates  *)
(* them.  TypeOK needs IndexesAgree (a close must not take an entry of     *)
(* open_count_by_pair below zero); NoDuplicateOpen needs PastTheCheck,     *)
(* which needs ReservationIffTask (no second task works on the name        *)
(* meanwhile).                                                             *)
(***************************************************************************)
ScanInv ==
  /\ running \in BOOLEAN /\ phase \in {"idle", "spawning"}
  /\ executable \subseteq Pair /\ bestNLeg \in NLeg \cup {NoName}
  /\ undrained \subseteq Name

BookInv ==
  /\ cash \in Int /\ realized \in Int
  /\ positions \subseteq Position /\ IsFiniteSet(positions)
  /\ nextTradeId \in Nat \ {0}
  /\ openPairNames \subseteq Pair /\ openCount \in [Pair -> Nat]
  /\ openNLegNames \subseteq NLeg /\ cooling \subseteq Pair
  /\ FreshIds /\ IndexesAgree /\ NoDuplicateOpen /\ PerPairCap
  /\ PaperNeverOverdraws

TaskInv ==
  /\ inflight \in [Name -> Nat] /\ task \in [Task -> TaskState]
  /\ ReservationIffTask /\ PaperNeverWaits

Inv == ScanInv /\ BookInv /\ TaskInv /\ PastTheCheck

LEMMA InvImpliesTypeOK == Inv => TypeOK
BY DEF Inv, ScanInv, BookInv, TaskInv, TypeOK

-----------------------------------------------------------------------------
(* Types of the limits.                                                    *)

LEMMA SumsType ==
  ASSUME TypeOK
  PROVE  /\ Reserved \in Nat /\ LockedNow \in Nat
         /\ EffectiveCash \in Int /\ EffectiveCash <= cash
<1>1. IsFiniteSet(Name)
  BY ConstantsAssumption, FS_Union DEF Name
<1>2. Reserved \in Nat
  BY <1>1, SumType DEF TypeOK, Reserved
<1>3. LockedNow \in Nat
  BY LockedType DEF TypeOK, LockedNow, Position
<1> QED BY <1>2, <1>3 DEF EffectiveCash, TypeOK

LEMMA ReservesType ==
  ASSUME TypeOK
  PROVE  PairReserve \in Int /\ NLegReserve \in Int
<1>1. EffectiveCash \in Int
  BY SumsType
<1>2. Percent(EffectiveCash, FractionPct) \in Int /\ MaxTrade \in Int
  BY <1>1, PercentType, ConstantsAssumption
<1>3. MaxTrade * LegCount \in Int
  BY ConstantsAssumption
<1> QED BY <1>1, <1>2, <1>3, LeastOfThree, LeastOfTwo DEF PairReserve, NLegReserve

LEMMA LimitsType ==
  ASSUME TypeOK
  PROVE  /\ BaseLimit \in Int /\ BaseLimit <= cash
         /\ NLegLimit \in Int /\ NLegLimit <= cash
         /\ \A p \in Pair : PairLimit(p) \in Int /\ PairLimit(p) <= cash
<1>1. cash \in Int /\ LockedNow \in Nat /\ EffectiveCash \in Int /\ EffectiveCash <= cash
  BY SumsType DEF TypeOK
<1>2. /\ Percent(cash, FractionPct) \in Int /\ MaxTrade \in Int
      /\ MaxLocked - LockedNow \in Int /\ Remaining \in Int
  BY <1>1, PercentType, ConstantsAssumption DEF Remaining
<1>3. BaseLimit \in Int /\ BaseLimit <= cash
  BY <1>1, <1>2, LeastOfFour DEF BaseLimit
<1>4. NLegLimit \in Int /\ NLegLimit <= cash
  BY <1>1, <1>2, LeastOfFour DEF NLegLimit
<1>5. ASSUME NEW p \in Pair PROVE PairLimit(p) \in Int /\ PairLimit(p) <= cash
  <2>1. Percent(BaseLimit, SizePct[p]) \in Int
    BY <1>3, PercentType, ConstantsAssumption
  <2>2. LET m == Least({Percent(BaseLimit, SizePct[p]), EffectiveCash})
        IN  m \in Int /\ m <= EffectiveCash
    BY <1>1, <2>1, LeastOfTwo
  <2> QED BY <1>1, <1>3, <2>2 DEF PairLimit
<1> QED BY <1>3, <1>4, <1>5

\* Whatever a task commits to is a natural it could pay from cash when it chose.
LEMMA StakesType ==
  ASSUME TypeOK
  PROVE  /\ \A p \in Pair : \A s \in PairStakes(p) : s \in Nat \ {0} /\ s <= cash
         /\ \A l \in NLeg, limit \in Nat : \A s \in NLegStakes(l, limit) :
              s \in Nat \ {0} /\ s <= cash
<1>1. ASSUME NEW p \in Pair, NEW s \in PairStakes(p) PROVE s \in Nat \ {0} /\ s <= cash
  BY <1>1, LimitsType, ConstantsAssumption DEF PairStakes, TypeOK
<1>2. ASSUME NEW l \in NLeg, NEW limit \in Nat, NEW s \in NLegStakes(l, limit)
      PROVE  s \in Nat \ {0} /\ s <= cash
  <2> DEFINE m == Least({limit, NLegLimit})
  <2>1. NLegLimit \in Int /\ NLegLimit <= cash /\ cash \in Int
    BY LimitsType DEF TypeOK
  <2>2. m \in Int /\ m <= NLegLimit
    BY <2>1, LeastOfTwo
  <2>3. s \in 1 .. m \/ s \in MinTrade .. m
    BY <1>2 DEF NLegStakes
  <2> HIDE DEF m
  <2> QED BY <2>1, <2>2, <2>3, ConstantsAssumption
<1> QED BY <1>1, <1>2

-----------------------------------------------------------------------------
(* What a step does to the tasks and their reservations.                   *)

\* A task that ends gives its reservation back and disturbs no other.
LEMMA TaskEnds ==
  ASSUME TaskInv, NEW t \in Live,
         \/ inflight' = [inflight EXCEPT ![task[t].name] = 0] /\ (running' => running)
         \/ inflight' = inflight /\ ~running',
         task' = [task EXCEPT ![t] = NoTask]
  PROVE  /\ TaskInv'
         /\ \A u \in Task : task'[u].pc # "none" =>
              /\ task'[u] = task[u] /\ u \in Live
              /\ task[u].name # task[t].name
<1>1. /\ inflight \in [Name -> Nat] /\ task \in [Task -> TaskState]
      /\ t \in Task /\ task[t].name \in Name
  BY DEF TaskInv, Live, TaskState, NoTask
<1>2. inflight' \in [Name -> Nat] /\ task' \in [Task -> TaskState]
  BY <1>1 DEF TaskState
<1>3. \A u \in Task : task'[u] = IF u = t THEN NoTask ELSE task[u]
  BY <1>1
<1>4. \A u \in Task : task'[u].pc # "none" => u # t /\ task'[u] = task[u] /\ u \in Live
  BY <1>3 DEF NoTask, Live
<1>5. \A u \in Live : task[u].name = task[t].name => u = t
  BY DEF TaskInv, ReservationIffTask
<1>6. ReservationIffTask'
  <2>1. \A u \in Live' : inflight'[task'[u].name] > 0
    <3> SUFFICES ASSUME NEW u \in Live' PROVE inflight'[task'[u].name] > 0
      OBVIOUS
    <3>1. u \in Live /\ u # t /\ task'[u] = task[u]
      BY <1>4 DEF Live
    <3>2. task[u].name # task[t].name /\ inflight[task[u].name] > 0
      BY <1>5, <3>1 DEF TaskInv, ReservationIffTask
    <3>3. task[u].name \in Name
      BY <1>1, <3>1 DEF Live, TaskState, NoTask
    <3> QED BY <1>1, <3>1, <3>2, <3>3
  <2>2. ASSUME running', NEW n \in Name, inflight'[n] > 0
        PROVE  \E u \in Live' : task'[u].name = n
    <3>1. running /\ n # task[t].name /\ inflight[n] > 0
      BY <1>1, <2>2
    <3>2. PICK u \in Live : task[u].name = n
      BY <3>1 DEF TaskInv, ReservationIffTask
    <3> QED BY <1>3, <3>1, <3>2 DEF Live
  <2>3. \A u, v \in Live' : task'[u].name = task'[v].name => u = v
    BY <1>4 DEF TaskInv, ReservationIffTask, Live
  <2> QED BY <2>1, <2>2, <2>3 DEF ReservationIffTask
<1>7. PaperNeverWaits'
  BY <1>4 DEF TaskInv, PaperNeverWaits
<1> QED BY <1>2, <1>4, <1>5, <1>6, <1>7 DEF TaskInv

\* A task that awaits something keeps its reservation.
LEMMA TaskWaits ==
  ASSUME TaskInv, NEW t \in Live, NEW pc \in {"fetching", "ordering"},
         NEW held \in Nat, pc = "ordering" => LiveMode, UNCHANGED <<inflight, running>>,
         task' = [task EXCEPT ![t].pc = pc, ![t].held = held]
  PROVE  /\ TaskInv'
         /\ \A u \in Task : task'[u].pc # "none" =>
              task'[u].name = task[u].name /\ (u = t \/ task'[u] = task[u])
<1>1. /\ task \in [Task -> TaskState] /\ t \in Task
      /\ task[t] \in [pc : {"ready", "fetching", "ordering"}, name : Name,
                      prefetched : BOOLEAN, held : Nat]
  BY DEF TaskInv, Live, TaskState, NoTask
<1>2. \A u \in Task : task'[u] =
        IF u = t THEN [task[t] EXCEPT !.pc = pc, !.held = held] ELSE task[u]
  BY <1>1
<1>3. task' \in [Task -> TaskState]
  BY <1>1 DEF TaskState
<1>4. \A u \in Task : task'[u].name = task[u].name /\ (u \in Live <=> task'[u].pc # "none")
  BY <1>1, <1>2 DEF Live
<1>5. Live' = Live
  BY <1>4 DEF Live
<1>6. ReservationIffTask'
  BY <1>4, <1>5 DEF TaskInv, ReservationIffTask, Live
<1>7. PaperNeverWaits'
  BY <1>1, <1>2 DEF TaskInv, PaperNeverWaits
<1> QED BY <1>2, <1>3, <1>4, <1>6, <1>7 DEF TaskInv

\* A task is spawned for a name that no task works on.
LEMMA TaskSpawned ==
  ASSUME TaskInv, NEW n \in Name, NEW reserve \in Nat \ {0},
         inflight[n] = 0, Spawn(n, reserve), UNCHANGED running
  PROVE  /\ TaskInv'
         /\ \A u \in Task : task'[u].pc \in {"fetching", "ordering"} => task'[u] = task[u]
<1>1. PICK t \in Task \ Live, prefetched \in BOOLEAN :
        task' = [task EXCEPT ![t] = [pc |-> "ready", name |-> n,
                                     prefetched |-> prefetched, held |-> 0]]
  BY DEF Spawn
<1>2. /\ inflight \in [Name -> Nat] /\ task \in [Task -> TaskState]
      /\ inflight' = [inflight EXCEPT ![n] = reserve]
  BY DEF TaskInv, Spawn
<1>3. inflight' \in [Name -> Nat] /\ task' \in [Task -> TaskState]
  BY <1>1, <1>2 DEF TaskState
<1>4. /\ \A u \in Task : u # t => task'[u] = task[u]
      /\ task'[t].pc = "ready" /\ task'[t].name = n
  BY <1>1, <1>2
<1>5. Live' = Live \cup {t}
  BY <1>4 DEF Live
<1>6. \A u \in Live : task[u].name # n
  BY DEF TaskInv, ReservationIffTask
<1>7. ReservationIffTask'
  <2>1. \A u \in Live' : inflight'[task'[u].name] > 0
    <3> SUFFICES ASSUME NEW u \in Live' PROVE inflight'[task'[u].name] > 0
      OBVIOUS
    <3>1. CASE u = t
      BY <1>2, <1>4, <3>1
    <3>2. CASE u # t
      <4>1. u \in Live /\ task'[u] = task[u]
        BY <1>4, <1>5, <3>2 DEF Live
      <4>2. task[u].name # n /\ inflight[task[u].name] > 0 /\ task[u].name \in Name
        BY <1>2, <1>6, <4>1 DEF TaskInv, ReservationIffTask, Live, TaskState, NoTask
      <4> QED BY <1>2, <4>1, <4>2
    <3> QED BY <3>1, <3>2
  <2>2. running' => \A m \in Name : inflight'[m] > 0 => \E u \in Live' : task'[u].name = m
    <3> SUFFICES ASSUME running, NEW m \in Name, m # n, inflight[m] > 0
                 PROVE  \E u \in Live' : task'[u].name = m
      BY <1>2, <1>4, <1>5
    <3>1. PICK u \in Live : task[u].name = m
      BY DEF TaskInv, ReservationIffTask
    <3> QED BY <1>1, <1>4, <1>5, <3>1 DEF Live
  <2>3. \A u, v \in Live' : task'[u].name = task'[v].name => u = v
    BY <1>4, <1>5, <1>6 DEF TaskInv, ReservationIffTask, Live
  <2> QED BY <2>1, <2>2, <2>3 DEF ReservationIffTask
<1>8. PaperNeverWaits'
  BY <1>4 DEF TaskInv, PaperNeverWaits
<1> QED BY <1>3, <1>4, <1>7, <1>8 DEF TaskInv

-----------------------------------------------------------------------------
(* What a step does to the book.                                           *)

\* The position that a booking adds, and what it does to the count of its name.
LEMMA NewPosition ==
  ASSUME BookInv, NEW n \in Name, NEW locked \in Nat,
         NEW q, q = [id |-> nextTradeId, name |-> n, locked |-> locked],
         positions' = positions \cup {q}, nextTradeId' = nextTradeId + 1
  PROVE  /\ q \notin positions
         /\ positions' \subseteq Position /\ IsFiniteSet(positions')
         /\ nextTradeId' \in Nat \ {0} /\ FreshIds'
         /\ \A m \in Name : OpenOf(m)' = IF m = n THEN OpenOf(m) \cup {q} ELSE OpenOf(m)
         /\ Cardinality(OpenOf(n)') = Cardinality(OpenOf(n)) + 1
<1>1. /\ positions \subseteq Position /\ IsFiniteSet(positions)
      /\ nextTradeId \in Nat \ {0} /\ \A r \in positions : r.id < nextTradeId
  BY DEF BookInv, FreshIds
<1>2. q \in Position /\ q.id = nextTradeId /\ q.name = n
  BY <1>1 DEF Position
<1>3. q \notin positions
  BY <1>1, <1>2 DEF Position
<1>4. positions' \subseteq Position /\ nextTradeId' \in Nat \ {0}
  BY <1>1, <1>2
<1>5. IsFiniteSet(positions')
  BY <1>1, FS_AddElement
<1>6. FreshIds'
  BY <1>1, <1>2 DEF FreshIds, Position
<1>7. \A m \in Name : OpenOf(m)' = IF m = n THEN OpenOf(m) \cup {q} ELSE OpenOf(m)
  BY <1>2 DEF OpenOf
<1>8. IsFiniteSet(OpenOf(n)) /\ q \notin OpenOf(n)
  BY <1>1, <1>3, FS_Subset DEF OpenOf
<1>9. Cardinality(OpenOf(n) \cup {q}) = Cardinality(OpenOf(n)) + 1
  BY <1>8, FS_AddElement
<1> QED BY <1>3, <1>4, <1>5, <1>6, <1>7, <1>9

\* A new position under a name that is free for it.
LEMMA NoDuplicateAdded ==
  ASSUME BookInv, NEW n \in Name, NameFree(n), NEW q, q.name = n,
         positions' = positions \cup {q}
  PROVE  NoDuplicateOpen'
<1>1. IF n \in Pair THEN AllowMultiple \/ OpenOf(n) = {}
                    ELSE AllowIncremental \/ OpenOf(n) = {}
  BY DEF NameFree, BookInv, IndexesAgree, Name
<1>2. \A r, s \in positions :
        r.name = s.name => \/ r = s
                           \/ IF r.name \in Pair THEN AllowMultiple ELSE AllowIncremental
  BY DEF BookInv, NoDuplicateOpen
<1>3. ASSUME NEW r \in positions, r.name = n
      PROVE  IF n \in Pair THEN AllowMultiple ELSE AllowIncremental
  BY <1>1, <1>3 DEF OpenOf
<1> QED BY <1>2, <1>3 DEF NoDuplicateOpen

\* What BookPair does to the book keeps the book consistent, and frees no name.
LEMMA PairBooked ==
  ASSUME BookInv, NEW p \in Pair, NameFree(p), NEW locked \in Nat,
         LiveMode \/ locked <= cash,
         cash' = cash - locked,
         positions' = positions \cup {[id |-> nextTradeId, name |-> p, locked |-> locked]},
         nextTradeId' = nextTradeId + 1,
         openPairNames' = openPairNames \cup {p},
         openCount' = [openCount EXCEPT ![p] = @ + 1],
         cooling' = cooling \cup {p},
         UNCHANGED <<realized, openNLegNames>>
  PROVE  BookInv'
<1> DEFINE q == [id |-> nextTradeId, name |-> p, locked |-> locked]
<1>1. /\ openPairNames \subseteq Pair /\ openCount \in [Pair -> Nat]
      /\ cooling \subseteq Pair /\ openNLegNames \subseteq NLeg
      /\ cash \in Int /\ realized \in Int
  BY DEF BookInv
<1>2. p \in Name /\ \A l \in NLeg : l # p /\ l \in Name
  BY ConstantsAssumption DEF Name
<1>3. /\ positions' \subseteq Position /\ IsFiniteSet(positions')
      /\ nextTradeId' \in Nat \ {0} /\ FreshIds'
      /\ \A m \in Name : OpenOf(m)' = IF m = p THEN OpenOf(m) \cup {q} ELSE OpenOf(m)
      /\ Cardinality(OpenOf(p)') = Cardinality(OpenOf(p)) + 1
  BY <1>2, NewPosition
<1>4. IndexesAgree'
  <2>1. /\ \A r \in Pair : openCount[r] = Cardinality(OpenOf(r))
        /\ openPairNames = {r \in Pair : OpenOf(r) # {}}
        /\ openNLegNames = {l \in NLeg : OpenOf(l) # {}}
    BY DEF BookInv, IndexesAgree
  <2> HIDE DEF q
  <2>2. \A r \in Pair : openCount'[r] = Cardinality(OpenOf(r)')
    BY <1>1, <1>3, <2>1 DEF Name
  <2>3. openPairNames' = {r \in Pair : OpenOf(r)' # {}}
    BY <1>2, <1>3, <2>1 DEF Name
  <2>4. openNLegNames' = {l \in NLeg : OpenOf(l)' # {}}
    BY <1>2, <1>3, <2>1
  <2> QED BY <2>2, <2>3, <2>4 DEF IndexesAgree
<1>5. NoDuplicateOpen'
  BY <1>2, NoDuplicateAdded
<1>6. PerPairCap'
  <2>1. \A r \in Pair : Cardinality(OpenOf(r)) <= MaxOpenPerPair
    BY DEF BookInv, PerPairCap
  <2>2. openCount[p] < MaxOpenPerPair /\ openCount[p] = Cardinality(OpenOf(p))
    BY DEF NameFree, BookInv, IndexesAgree
  <2>3. Cardinality(OpenOf(p)') <= MaxOpenPerPair
    BY <1>1, <1>3, <2>2, ConstantsAssumption
  <2>4. \A r \in Pair : r # p => Cardinality(OpenOf(r)') <= MaxOpenPerPair
    BY <1>3, <2>1 DEF Name
  <2> QED BY <2>3, <2>4 DEF PerPairCap
<1>7. PaperNeverOverdraws'
  BY <1>1 DEF PaperNeverOverdraws
<1>8. /\ openPairNames' \subseteq Pair /\ openCount' \in [Pair -> Nat]
      /\ cooling' \subseteq Pair /\ openNLegNames' \subseteq NLeg
      /\ cash' \in Int /\ realized' \in Int
  BY <1>1
<1> QED BY <1>3, <1>4, <1>5, <1>6, <1>7, <1>8 DEF BookInv

\* What BookNLeg does to the book keeps it consistent.
LEMMA NLegBooked ==
  ASSUME BookInv, NEW l \in NLeg, NameFree(l), NEW locked \in Nat,
         LiveMode \/ locked <= cash,
         cash' = cash - locked,
         positions' = positions \cup {[id |-> nextTradeId, name |-> l, locked |-> locked]},
         nextTradeId' = nextTradeId + 1,
         openNLegNames' = openNLegNames \cup {l},
         UNCHANGED <<realized, openPairNames, openCount, cooling>>
  PROVE  BookInv'
<1> DEFINE q == [id |-> nextTradeId, name |-> l, locked |-> locked]
<1>1. /\ openPairNames \subseteq Pair /\ openCount \in [Pair -> Nat]
      /\ cooling \subseteq Pair /\ openNLegNames \subseteq NLeg
      /\ cash \in Int /\ realized \in Int
  BY DEF BookInv
<1>2. l \in Name /\ \A p \in Pair : l # p /\ p \in Name
  BY ConstantsAssumption DEF Name
<1>3. /\ positions' \subseteq Position /\ IsFiniteSet(positions')
      /\ nextTradeId' \in Nat \ {0} /\ FreshIds'
      /\ \A m \in Name : OpenOf(m)' = IF m = l THEN OpenOf(m) \cup {q} ELSE OpenOf(m)
  BY <1>2, NewPosition
<1>4. \A p \in Pair : OpenOf(p)' = OpenOf(p)
  BY <1>2, <1>3
<1>5. IndexesAgree'
  <2>1. /\ \A p \in Pair : openCount[p] = Cardinality(OpenOf(p))
        /\ openPairNames = {p \in Pair : OpenOf(p) # {}}
        /\ openNLegNames = {m \in NLeg : OpenOf(m) # {}}
    BY DEF BookInv, IndexesAgree
  <2> HIDE DEF q
  <2>2. \A p \in Pair : openCount'[p] = Cardinality(OpenOf(p)')
    BY <1>4, <2>1
  <2>3. openPairNames' = {p \in Pair : OpenOf(p)' # {}}
    BY <1>4, <2>1
  <2>4. openNLegNames' = {m \in NLeg : OpenOf(m)' # {}}
    BY <1>2, <1>3, <2>1 DEF Name
  <2> QED BY <2>2, <2>3, <2>4 DEF IndexesAgree
<1>6. NoDuplicateOpen'
  BY <1>2, NoDuplicateAdded
<1>7. PerPairCap'
  BY <1>4 DEF BookInv, PerPairCap
<1>8. PaperNeverOverdraws'
  BY <1>1 DEF PaperNeverOverdraws
<1>9. cash' \in Int /\ realized' \in Int /\ openNLegNames' \subseteq NLeg
  BY <1>1
<1> QED BY <1>1, <1>3, <1>5, <1>6, <1>7, <1>8, <1>9 DEF BookInv

\* Closing positions of pairs keeps the book consistent and lowers the counts.
LEMMA BookClosed ==
  ASSUME BookInv, NEW Q \in SUBSET positions, \A q \in Q : q.name \in Pair,
         NEW value \in [Q -> Nat], Close(Q, value),
         UNCHANGED <<nextTradeId, openNLegNames, cooling>>
  PROVE  /\ BookInv'
         /\ openPairNames' \subseteq openPairNames
         /\ \A p \in Pair : openCount'[p] <= openCount[p]
<1>1. /\ positions \subseteq Position /\ IsFiniteSet(positions) /\ cash \in Int
      /\ realized \in Int /\ openPairNames \subseteq Pair /\ openCount \in [Pair -> Nat]
      /\ \A p \in Pair : openCount[p] = Cardinality(OpenOf(p))
      /\ openPairNames = {p \in Pair : OpenOf(p) # {}}
      /\ openNLegNames = {l \in NLeg : OpenOf(l) # {}}
  BY DEF BookInv, IndexesAgree
<1>2. /\ positions' = positions \ Q
      /\ cash' = cash + SumOver(Q, value)
      /\ realized' = realized + SumOver(Q, value) - LockedIn(Q)
  BY DEF Close
<1>3. IsFiniteSet(Q) /\ IsFiniteSet(positions')
  BY <1>1, <1>2, FS_Subset, FS_Difference
<1>4. SumOver(Q, value) \in Nat /\ LockedIn(Q) \in Nat
  BY <1>1, <1>3, SumType, LockedType DEF Position
<1>5. ASSUME NEW p \in Pair
      PROVE  /\ OpenOf(p)' = OpenOf(p) \ Q
             /\ IsFiniteSet(OpenOf(p)')
             /\ openCount'[p] = Cardinality(OpenOf(p)')
             /\ openCount'[p] \in Nat /\ openCount'[p] <= openCount[p]
             /\ openCount'[p] > 0 <=> OpenOf(p)' # {}
  <2>1. OpenOf(p)' = OpenOf(p) \ Q
    BY <1>2 DEF OpenOf
  <2>2. IsFiniteSet(OpenOf(p))
    BY <1>1, FS_Subset DEF OpenOf
  <2>3. /\ IsFiniteSet(OpenOf(p) \ Q)
        /\ Cardinality(OpenOf(p) \ Q) = Cardinality(OpenOf(p)) - Cardinality(OpenOf(p) \cap Q)
    BY <2>2, FS_Difference
  <2>4. Q \cap OpenOf(p) = OpenOf(p) \cap Q /\ IsFiniteSet(OpenOf(p) \cap Q)
    BY <2>2, FS_Subset
  <2>5. openCount'[p] = openCount[p] - Cardinality(Q \cap OpenOf(p))
    BY DEF Close, RegisterClosed
  <2>6. Cardinality(OpenOf(p) \cap Q) \in Nat /\ Cardinality(OpenOf(p) \ Q) \in Nat
    BY <2>3, <2>4, FS_CardinalityType
  <2>7. Cardinality(OpenOf(p) \ Q) = 0 <=> OpenOf(p) \ Q = {}
    BY <2>3, FS_EmptySet
  <2>8. openCount'[p] = Cardinality(OpenOf(p) \ Q) /\ openCount'[p] <= openCount[p]
    <3>1. openCount[p] = Cardinality(OpenOf(p)) /\ openCount[p] \in Nat
      BY <1>1
    <3>2. openCount'[p] = openCount[p] - Cardinality(OpenOf(p) \cap Q)
      BY <2>4, <2>5
    <3>3. openCount'[p] = Cardinality(OpenOf(p) \ Q)
      BY <2>3, <3>1, <3>2
    <3> QED BY <2>6, <3>1, <3>2, <3>3
  <2>9. openCount'[p] = Cardinality(OpenOf(p)') /\ IsFiniteSet(OpenOf(p)')
    BY <2>1, <2>3, <2>8
  <2>10. openCount'[p] \in Nat /\ (openCount'[p] > 0 <=> OpenOf(p) \ Q # {})
    BY <2>6, <2>7, <2>8
  <2>11. openCount'[p] > 0 <=> OpenOf(p)' # {}
    BY <2>1, <2>10
  <2> QED BY <2>1, <2>8, <2>9, <2>10, <2>11
<1>6. openPairNames' = {p \in openPairNames : openCount'[p] > 0}
  <2>1. openPairNames' = {p \in openPairNames : openCount[p] - Cardinality(Q \cap OpenOf(p)) > 0}
    BY DEF Close, RegisterClosed
  <2>2. \A p \in Pair : openCount'[p] = openCount[p] - Cardinality(Q \cap OpenOf(p))
    BY DEF Close, RegisterClosed
  <2> QED BY <1>1, <2>1, <2>2
<1>7. openCount' \in [Pair -> Nat]
  <2>1. openCount' = [p \in Pair |-> openCount[p] - Cardinality(Q \cap OpenOf(p))]
    BY DEF Close, RegisterClosed
  <2> QED BY <1>5, <2>1
<1>8. IndexesAgree'
  <2>1. openPairNames' = {p \in Pair : OpenOf(p)' # {}}
    <3>1. \A p \in Pair : OpenOf(p)' # {} => p \in openPairNames
      BY <1>1, <1>5
    <3> QED BY <1>1, <1>5, <1>6, <3>1
  <2>2. \A l \in NLeg : OpenOf(l)' = OpenOf(l)
    BY <1>2, ConstantsAssumption DEF OpenOf
  <2> QED BY <1>1, <1>5, <2>1, <2>2 DEF IndexesAgree
<1>9. NoDuplicateOpen' /\ FreshIds'
  BY <1>2 DEF BookInv, NoDuplicateOpen, FreshIds
<1>10. PerPairCap'
  <2>1. \A p \in Pair : openCount[p] <= MaxOpenPerPair
    BY <1>1 DEF BookInv, PerPairCap
  <2>2. \A p \in Pair : openCount'[p] <= MaxOpenPerPair
    BY <1>1, <1>5, <2>1, ConstantsAssumption
  <2> QED BY <1>5, <2>2 DEF PerPairCap
<1>11. PaperNeverOverdraws'
  BY <1>1, <1>2, <1>4 DEF BookInv, PaperNeverOverdraws
<1>12. BookInv'
  BY <1>1, <1>2, <1>3, <1>4, <1>6, <1>7, <1>8, <1>9, <1>10, <1>11 DEF BookInv
<1> QED BY <1>5, <1>6, <1>12

-----------------------------------------------------------------------------
(* What the operations of a background task do to the invariant.           *)

LEMMA LiveTask ==
  ASSUME TaskInv, NEW t \in Live
  PROVE  /\ t \in Task /\ task[t].name \in Name /\ task[t].held \in Nat
         /\ task[t].name \in Pair \/ task[t].name \in NLeg
BY DEF TaskInv, Live, TaskState, NoTask, Name

\* No entry: only the reservation goes.
LEMMA Skipped ==
  ASSUME Inv, NEW t \in Live, Skip(t), UNCHANGED scanVars
  PROVE  Inv'
<1>1. /\ TaskInv' /\ task[t].name \in Name
      /\ \A u \in Task : task'[u].pc # "none" => task'[u] = task[u]
  BY TaskEnds, LiveTask DEF Inv, Skip, Finish, scanVars
<1>2. UNCHANGED bookVars
  BY DEF Skip
<1>3. BookInv'
  BY <1>2 DEF Inv, BookInv, bookVars, FreshIds, IndexesAgree, NoDuplicateOpen,
              PerPairCap, PaperNeverOverdraws, OpenOf
<1>4. PastTheCheck'
  BY <1>1, <1>2 DEF Inv, PastTheCheck, NameFree, bookVars
<1>5. ScanInv'
  BY <1>1 DEF Inv, ScanInv, scanVars, Skip, Finish
<1> QED BY <1>1, <1>3, <1>4, <1>5 DEF Inv

\* An entry: the name is taken, and no other task works on that name.
LEMMA Booked ==
  ASSUME Inv, NEW t \in Live, NameFree(task[t].name), NEW locked \in Nat,
         LiveMode \/ locked <= cash, Book(t, locked), UNCHANGED scanVars
  PROVE  Inv'
<1> DEFINE n == task[t].name
<1>1. n \in Pair \/ n \in NLeg
  BY LiveTask DEF Inv
<1>2. Finish(t)
  BY DEF Book, BookPair, BookNLeg
<1>3. /\ TaskInv' /\ n \in Name
      /\ \A u \in Task : task'[u].pc # "none" =>
           task'[u] = task[u] /\ u \in Live /\ task[u].name # n
  BY <1>2, TaskEnds, LiveTask DEF Inv, Finish, scanVars
<1>4. CASE n \in Pair
  <2>1. BookPair(t, n, locked)
    BY <1>4 DEF Book
  <2>2. BookInv'
    BY <1>4, <2>1, PairBooked DEF Inv, BookPair
  <2>3. PastTheCheck'
    <3> SUFFICES ASSUME NEW u \in Task, task'[u].pc \in {"fetching", "ordering"}
                 PROVE  NameFree(task[u].name)'
      BY DEF PastTheCheck
    <3>1. task'[u] = task[u] /\ task[u].name # n /\ NameFree(task[u].name)
      BY <1>3 DEF Inv, PastTheCheck
    <3>2. /\ openPairNames' = openPairNames \cup {n} /\ cooling' = cooling \cup {n}
          /\ openCount' = [openCount EXCEPT ![n] = @ + 1]
          /\ openNLegNames' = openNLegNames /\ openCount \in [Pair -> Nat]
      BY <2>1 DEF BookPair, Inv, BookInv
    <3> QED BY <3>1, <3>2 DEF NameFree
  <2> QED BY <1>2, <1>3, <2>2, <2>3 DEF Inv, ScanInv, scanVars, Finish
<1>5. CASE n \in NLeg
  <2>1. BookNLeg(t, n, locked)
    BY <1>5, ConstantsAssumption DEF Book
  <2>2. BookInv'
    BY <1>5, <2>1, NLegBooked DEF Inv, BookNLeg
  <2>3. PastTheCheck'
    BY <1>3, <2>1 DEF Inv, PastTheCheck, NameFree, BookNLeg
  <2> QED BY <1>2, <1>3, <2>2, <2>3 DEF Inv, ScanInv, scanVars, Finish
<1> QED BY <1>1, <1>4, <1>5

\* The task awaits the recheck or the order: its name was free when it asked.
LEMMA Waited ==
  ASSUME Inv, NEW t \in Live, NameFree(task[t].name),
         NEW pc \in {"fetching", "ordering"}, NEW held \in Nat,
         pc = "ordering" => LiveMode,
         task' = [task EXCEPT ![t].pc = pc, ![t].held = held],
         UNCHANGED <<scanVars, bookVars, inflight, undrained>>
  PROVE  Inv'
<1>1. /\ TaskInv'
      /\ \A u \in Task : task'[u].pc # "none" =>
           task'[u].name = task[u].name /\ (u = t \/ task'[u] = task[u])
  BY TaskWaits DEF Inv, scanVars
<1>2. BookInv'
  BY DEF Inv, BookInv, bookVars, FreshIds, IndexesAgree, NoDuplicateOpen,
         PerPairCap, PaperNeverOverdraws, OpenOf
<1>3. PastTheCheck'
  <2> SUFFICES ASSUME NEW u \in Task, task'[u].pc \in {"fetching", "ordering"}
               PROVE  NameFree(task[u].name)'
    BY DEF PastTheCheck
  <2>1. task'[u].name = task[u].name /\ (u = t \/ task'[u] = task[u])
    BY <1>1
  <2>2. NameFree(task[u].name)
    BY <2>1 DEF Inv, PastTheCheck
  <2> QED BY <2>1, <2>2 DEF NameFree, bookVars
<1> QED BY <1>1, <1>2, <1>3 DEF Inv, ScanInv, scanVars

\* What a task may commit to, it could pay when it chose.
LEMMA Sized ==
  ASSUME Inv, NEW t \in Live, NameFree(task[t].name), NEW limit \in Nat,
         Size(t, limit), UNCHANGED scanVars
  PROVE  Inv'
<1> DEFINE n == task[t].name
           stakes == IF n \in Pair THEN PairStakes(n) ELSE NLegStakes(n, limit)
<1>1. Skip(t) \/ \E locked \in stakes : Commit(t, locked)
  BY DEF Size
<1>2. CASE Skip(t)
  BY <1>2, Skipped
<1>3. ASSUME NEW locked \in stakes, Commit(t, locked) PROVE Inv'
  <2>1. locked \in Nat \ {0} /\ locked <= cash
    <3>1. n \in Pair \/ n \in NLeg
      BY LiveTask DEF Inv
    <3> QED BY <1>3, <3>1, StakesType, InvImpliesTypeOK
  <2>2. CASE LiveMode
    <3>1. /\ task' = [task EXCEPT ![t].pc = "ordering", ![t].held = locked]
          /\ UNCHANGED <<bookVars, inflight, undrained>>
      BY <1>3, <2>2 DEF Commit
    <3> QED BY <2>1, <2>2, <3>1, Waited
  <2>3. CASE ~LiveMode
    <3>1. Book(t, locked)
      BY <1>3, <2>3 DEF Commit
    <3> QED BY <2>1, <3>1, Booked
  <2> QED BY <2>2, <2>3
<1> QED BY <1>1, <1>2, <1>3

-----------------------------------------------------------------------------
(* Every action preserves the invariant.                                   *)

LEMMA InitInv == Init => Inv
<1> SUFFICES ASSUME Init PROVE Inv
  OBVIOUS
<1>1. \A n \in Name : OpenOf(n) = {}
  BY DEF Init, OpenOf
<1>2. Cardinality({}) = 0 /\ IsFiniteSet({})
  BY FS_EmptySet
<1>3. BookInv
  <2>1. IndexesAgree /\ PerPairCap
    <3>1. \A n \in Name : Cardinality(OpenOf(n)) = 0
      BY <1>1, <1>2
    <3>2. IndexesAgree
      BY <1>1, <3>1 DEF Init, IndexesAgree, Name
    <3>3. PerPairCap
      BY <3>1, ConstantsAssumption DEF PerPairCap, Name
    <3> QED BY <3>2, <3>3
  <2>2. FreshIds /\ NoDuplicateOpen /\ PaperNeverOverdraws
    BY ConstantsAssumption DEF Init, FreshIds, NoDuplicateOpen, PaperNeverOverdraws
  <2>3. positions \subseteq Position /\ IsFiniteSet(positions)
    BY <1>2 DEF Init
  <2>4. /\ cash \in Int /\ realized \in Int /\ nextTradeId \in Nat \ {0}
        /\ openPairNames \subseteq Pair /\ openCount \in [Pair -> Nat]
        /\ openNLegNames \subseteq NLeg /\ cooling \subseteq Pair
    BY ConstantsAssumption DEF Init
  <2> QED BY <2>1, <2>2, <2>3, <2>4 DEF BookInv
<1>4. TaskInv
  BY DEF Init, TaskInv, TaskState, NoTask, ReservationIffTask, Live, PaperNeverWaits
<1>5. PastTheCheck
  BY DEF Init, PastTheCheck, NoTask
<1>6. ScanInv
  BY DEF Init, ScanInv
<1> QED BY <1>3, <1>4, <1>5, <1>6 DEF Inv

LEMMA ScanMarkInv == Inv /\ ScanMark => Inv'
<1> SUFFICES ASSUME Inv, ScanMark PROVE Inv'
  OBVIOUS
<1>1. PICK Q \in SUBSET {q \in positions : q.name \in Pair} :
        \E value \in [Q -> 0 .. MaxTrade + MaxGain] : Close(Q, value)
  BY DEF ScanMark
<1>2. PICK value \in [Q -> 0 .. MaxTrade + MaxGain] : Close(Q, value)
  BY <1>1
<1>3. /\ UNCHANGED <<running, nextTradeId, openNLegNames, cooling, inflight, task>>
      /\ executable' \in SUBSET Pair /\ bestNLeg' \in NLeg \cup {NoName}
      /\ phase' = "spawning" /\ undrained' = {}
  BY DEF ScanMark, Drain
<1>4. value \in [Q -> Nat]
  BY ConstantsAssumption
<1>5. /\ BookInv' /\ openPairNames' \subseteq openPairNames
      /\ \A p \in Pair : openCount'[p] <= openCount[p]
  BY <1>1, <1>2, <1>3, <1>4, BookClosed DEF Inv
<1>6. TaskInv'
  BY <1>3 DEF Inv, TaskInv, ReservationIffTask, PaperNeverWaits, Live
<1>7. PastTheCheck'
  <2> SUFFICES ASSUME NEW t \in Task, task[t].pc \in {"fetching", "ordering"},
                      NEW n, n = task[t].name, NameFree(n)
               PROVE  NameFree(n)'
    BY <1>3 DEF Inv, PastTheCheck
  <2>1. ASSUME n \in Pair PROVE openCount'[n] < MaxOpenPerPair
    <3>1. openCount'[n] <= openCount[n] /\ openCount[n] < MaxOpenPerPair
      BY <1>5, <2>1 DEF NameFree
    <3>2. openCount[n] \in Nat /\ openCount'[n] \in Nat
      BY <1>5, <2>1 DEF Inv, BookInv
    <3> QED BY <3>1, <3>2, ConstantsAssumption
  <2> QED BY <1>3, <1>5, <2>1 DEF NameFree
<1>8. ScanInv'
  BY <1>3 DEF Inv, ScanInv
<1> QED BY <1>5, <1>6, <1>7, <1>8 DEF Inv

\* Both spawning actions: nothing is booked, the new task is not past a check.
LEMMA SpawnInv ==
  ASSUME Inv, UNCHANGED <<bookVars, running>>, ScanInv', NEW n \in Name, NEW reserve \in Int,
         reserve >= MinTrade, inflight[n] = 0, Spawn(n, reserve)
  PROVE  Inv'
<1>1. reserve \in Nat \ {0}
  BY ConstantsAssumption
<1>2. /\ TaskInv'
      /\ \A u \in Task : task'[u].pc \in {"fetching", "ordering"} => task'[u] = task[u]
  BY <1>1, TaskSpawned DEF Inv
<1>3. BookInv'
  BY DEF Inv, BookInv, bookVars, FreshIds, IndexesAgree, NoDuplicateOpen,
         PerPairCap, PaperNeverOverdraws, OpenOf
<1>4. PastTheCheck'
  BY <1>2 DEF Inv, PastTheCheck, NameFree, bookVars
<1> QED BY <1>2, <1>3, <1>4 DEF Inv

\* A step that touches neither the book nor the tasks.
LEMMA ScanOnly ==
  ASSUME Inv, UNCHANGED <<bookVars, inflight, task>>, ScanInv', running' => running
  PROVE  Inv'
<1>1. BookInv' /\ PastTheCheck'
  BY DEF Inv, BookInv, bookVars, FreshIds, IndexesAgree, NoDuplicateOpen,
         PerPairCap, PaperNeverOverdraws, OpenOf, PastTheCheck, NameFree
<1>2. TaskInv'
  BY DEF Inv, TaskInv, ReservationIffTask, PaperNeverWaits, Live
<1> QED BY <1>1, <1>2 DEF Inv

LEMMA SpawnPairInv ==
  ASSUME Inv, NEW p \in Pair, SpawnPair(p)
  PROVE  Inv'
<1>1. UNCHANGED <<bookVars, running>> /\ ScanInv'
  BY DEF SpawnPair, Inv, ScanInv
<1>2. CASE inflight[p] = 0 /\ PairReserve >= MinTrade /\ Spawn(p, PairReserve)
  BY <1>1, <1>2, SpawnInv, ReservesType, InvImpliesTypeOK DEF Name
<1>3. CASE UNCHANGED <<inflight, task>>
  BY <1>1, <1>3, ScanOnly
<1> QED BY <1>2, <1>3 DEF SpawnPair

LEMMA FinishScanInv == Inv /\ FinishScan => Inv'
<1> SUFFICES ASSUME Inv, FinishScan PROVE Inv'
  OBVIOUS
<1>1. UNCHANGED <<bookVars, running>> /\ ScanInv'
  BY DEF FinishScan, Inv, ScanInv
<1>2. CASE /\ bestNLeg # NoName /\ inflight[bestNLeg] = 0 /\ NLegReserve >= MinTrade
           /\ Spawn(bestNLeg, NLegReserve)
  <2>1. bestNLeg \in Name
    BY <1>2 DEF Inv, ScanInv, Name
  <2> QED BY <1>1, <1>2, <2>1, SpawnInv, ReservesType, InvImpliesTypeOK
<1>3. CASE UNCHANGED <<inflight, task>>
  BY <1>1, <1>3, ScanOnly
<1> QED BY <1>2, <1>3 DEF FinishScan

LEMMA StartInv ==
  ASSUME Inv, NEW t \in Task, Start(t)
  PROVE  Inv'
<1> DEFINE n == task[t].name
           limit == IF n \in Pair THEN 0 ELSE NLegLimit
<1>1. t \in Live /\ UNCHANGED scanVars
  BY DEF Start, Live
<1>2. CASE Skip(t)
  BY <1>1, <1>2, Skipped
<1>3. CASE IF n \in Pair THEN EntryAllowed(n) ELSE NLegAllowed(n)
  <2>1. NameFree(n)
    <3>1. CASE n \in Pair
      BY <1>3, <3>1, ConstantsAssumption DEF NameFree, EntryAllowed
    <3>2. CASE n \in NLeg
      BY <1>3, <3>2, ConstantsAssumption DEF NameFree, NLegAllowed
    <3> QED BY <1>1, <3>1, <3>2, LiveTask DEF Inv
  <2>2. limit \in Nat
    <3>1. CASE n \in Pair
      BY <3>1
    <3>2. CASE n \notin Pair
      <4>1. NLegLimit >= MinTrade
        BY <1>3, <3>2 DEF NLegAllowed
      <4>2. NLegLimit \in Int
        BY LimitsType, InvImpliesTypeOK
      <4>3. NLegLimit \in Nat
        BY <4>1, <4>2, ConstantsAssumption
      <4> QED BY <3>2, <4>3
    <3> QED BY <3>1, <3>2
  <2>3. CASE /\ task' = [task EXCEPT ![t].pc = "fetching", ![t].held = limit]
             /\ UNCHANGED <<bookVars, inflight, undrained>>
    BY <1>1, <2>1, <2>2, <2>3, Waited
  <2>4. CASE Size(t, limit)
    BY <1>1, <2>1, <2>2, <2>4, Sized
  <2> QED BY <1>2, <2>3, <2>4 DEF Start
<1> QED BY <1>2, <1>3 DEF Start

LEMMA RecheckedInv ==
  ASSUME Inv, NEW t \in Task, Rechecked(t)
  PROVE  Inv'
<1>1. t \in Live /\ UNCHANGED scanVars /\ Size(t, task[t].held)
  BY DEF Rechecked, Live
<1>2. NameFree(task[t].name) /\ task[t].held \in Nat
  BY <1>1, LiveTask DEF Rechecked, Inv, PastTheCheck
<1> QED BY <1>1, <1>2, Sized

LEMMA OrderedInv ==
  ASSUME Inv, NEW t \in Task, Ordered(t)
  PROVE  Inv'
<1>1. t \in Live /\ UNCHANGED scanVars /\ (Skip(t) \/ Book(t, task[t].held))
  BY DEF Ordered, Live
<1>2. NameFree(task[t].name) /\ task[t].held \in Nat /\ LiveMode
  BY <1>1, LiveTask DEF Ordered, Inv, PastTheCheck, TaskInv, PaperNeverWaits
<1> QED BY <1>1, <1>2, Skipped, Booked

LEMMA CooldownEndsInv ==
  ASSUME Inv, NEW p \in Pair, CooldownEnds(p)
  PROVE  Inv'
<1>1. /\ cooling' \subseteq cooling
      /\ UNCHANGED <<scanVars, cash, realized, positions, nextTradeId, openPairNames,
                     openCount, openNLegNames, inflight, task, undrained>>
  BY DEF CooldownEnds
<1>2. BookInv'
  BY <1>1 DEF Inv, BookInv, FreshIds, IndexesAgree, NoDuplicateOpen,
              PerPairCap, PaperNeverOverdraws, OpenOf
<1>3. TaskInv' /\ ScanInv'
  BY <1>1 DEF Inv, TaskInv, ReservationIffTask, PaperNeverWaits, Live, ScanInv, scanVars
<1>4. PastTheCheck'
  BY <1>1 DEF Inv, PastTheCheck, NameFree
<1> QED BY <1>2, <1>3, <1>4 DEF Inv

LEMMA CancelInv ==
  ASSUME Inv, NEW t \in Task, Cancel(t)
  PROVE  Inv'
<1>1. t \in Live /\ UNCHANGED <<scanVars, bookVars, undrained>>
  BY DEF Cancel
<1>2. /\ TaskInv'
      /\ \A u \in Task : task'[u].pc # "none" => task'[u] = task[u]
  <2>1. /\ task' = [task EXCEPT ![t] = NoTask] /\ ~running' /\ (running' => running)
        /\ \/ inflight' = inflight
           \/ inflight' = [inflight EXCEPT ![task[t].name] = 0]
    BY <1>1 DEF Cancel, scanVars
  <2> QED BY <1>1, <2>1, TaskEnds DEF Inv
<1>3. BookInv' /\ PastTheCheck' /\ ScanInv'
  BY <1>1, <1>2 DEF Inv, BookInv, bookVars, FreshIds, IndexesAgree, NoDuplicateOpen,
                    PerPairCap, PaperNeverOverdraws, OpenOf, PastTheCheck, NameFree,
                    ScanInv, scanVars
<1> QED BY <1>2, <1>3 DEF Inv

LEMMA NextInv == Inv /\ [Next]_vars => Inv'
<1> SUFFICES ASSUME Inv, [Next]_vars PROVE Inv'
  OBVIOUS
<1>1. CASE ScanMark
  BY <1>1, ScanMarkInv
<1>2. CASE FinishScan
  BY <1>2, FinishScanInv
<1>3. CASE Stop
  <2>1. UNCHANGED <<bookVars, inflight, task>> /\ ScanInv' /\ (running' => running)
    BY <1>3 DEF Stop, Inv, ScanInv
  <2> QED BY <2>1, ScanOnly
<1>4. ASSUME NEW p \in Pair, SpawnPair(p) PROVE Inv'
  BY <1>4, SpawnPairInv
<1>5. ASSUME NEW p \in Pair, CooldownEnds(p) PROVE Inv'
  BY <1>5, CooldownEndsInv
<1>6. ASSUME NEW t \in Task, Start(t) PROVE Inv'
  BY <1>6, StartInv
<1>7. ASSUME NEW t \in Task, Rechecked(t) PROVE Inv'
  BY <1>7, RecheckedInv
<1>8. ASSUME NEW t \in Task, Ordered(t) PROVE Inv'
  BY <1>8, OrderedInv
<1>9. ASSUME NEW t \in Task, Cancel(t) PROVE Inv'
  BY <1>9, CancelInv
<1>10. CASE UNCHANGED vars
  <2>1. UNCHANGED <<bookVars, inflight, task>> /\ ScanInv' /\ (running' => running)
    BY <1>10 DEF vars, scanVars, Inv, ScanInv
  <2> QED BY <2>1, ScanOnly
<1> QED BY <1>1, <1>2, <1>3, <1>4, <1>5, <1>6, <1>7, <1>8, <1>9, <1>10 DEF Next

LEMMA InvHolds == Spec => []Inv
BY InitInv, NextInv, PTL DEF Spec

\* TypeOK holds in every reachable state.
THEOREM TypeCorrect == Spec => []TypeOK
BY InvHolds, InvImpliesTypeOK, PTL

\* A name is reserved exactly while one background task works on it.
THEOREM ReservationExclusive == Spec => []ReservationIffTask
<1>1. Inv => ReservationIffTask
  BY DEF Inv, TaskInv
<1> QED BY <1>1, InvHolds, PTL

\* What the entry checks found out about a name stays true across the awaits.
THEOREM ChecksStayTrue == Spec => []PastTheCheck
<1>1. Inv => PastTheCheck
  BY DEF Inv
<1> QED BY <1>1, InvHolds, PTL

\* Two open positions never share an exclusive name, in paper and live mode.
THEOREM DuplicatesPrevented == Spec => []NoDuplicateOpen
<1>1. Inv => NoDuplicateOpen
  BY DEF Inv, BookInv
<1> QED BY <1>1, InvHolds, PTL

\* The indexes over the open positions agree with them.
THEOREM IndexesConsistent == Spec => []IndexesAgree
<1>1. Inv => IndexesAgree
  BY DEF Inv, BookInv
<1> QED BY <1>1, InvHolds, PTL

\* --max-open-positions-per-pair is a cap although it is checked before the await.
THEOREM PairCapped == Spec => []PerPairCap
<1>1. Inv => PerPairCap
  BY DEF Inv, BookInv
<1> QED BY <1>1, InvHolds, PTL

\* Paper mode never overdraws the account, whatever the tasks' interleaving.
THEOREM PaperSolvent ==
  ASSUME ~LiveMode
  PROVE  Spec => []CashNonNegative
<1>1. Inv => CashNonNegative
  BY DEF Inv, BookInv, PaperNeverOverdraws, CashNonNegative
<1> QED BY <1>1, InvHolds, PTL

-----------------------------------------------------------------------------
(* The book changes by closes, by expiring cooldowns and by entries under  *)
(* a free name, whose stake fitted when it was chosen.                     *)

\* What a stake chosen for n from the state of this moment respects.
Sizable(n, k) ==
  /\ k \in Nat \ {0} /\ k <= Stake[n] /\ k <= cash
  /\ LockedNow + k <= MaxLocked + Stake[n] - MaxTrade

\* A task that books has chosen its stake now, or before it ordered.
Chosen(t, k) ==
  Sizable(task[t].name, k) \/ (task[t].pc = "ordering" /\ k = task[t].held)

\* It has compared the number of open positions now, or before its first await.
Counts(t) ==
  task[t].name \in Pair => task[t].pc # "ready" \/ OpenPositionCount < MaxOpen

LEMMA StakeType == \A n \in Name : Stake[n] \in Nat /\ Stake[n] >= MaxTrade
<1> SUFFICES ASSUME NEW n \in Name PROVE Stake[n] \in Nat /\ Stake[n] >= MaxTrade
  OBVIOUS
<1>1. MaxTrade \in Nat
  BY ConstantsAssumption
<1>2. CASE n \in Pair /\ SizePct[n] > 100
  <2>1. SizePct[n] \in Nat /\ SizePct[n] >= 100
    BY <1>2, ConstantsAssumption
  <2>2. Percent(0, SizePct[n]) - 0 <= Percent(MaxTrade, SizePct[n]) - MaxTrade
    BY <1>1, <2>1, PercentExcess
  <2>3. Percent(0, SizePct[n]) = 0
    <3>1. 0 * SizePct[n] = 0
      BY <2>1
    <3> QED BY <3>1 DEF Percent
  <2>4. Percent(MaxTrade, SizePct[n]) \in Int
    BY <1>1, <2>1, PercentType
  <2> QED BY <1>1, <1>2, <2>2, <2>3, <2>4 DEF Stake
<1> QED BY <1>1, <1>2 DEF Stake

\* The room under a limit is read before the multiplier is applied, so a pair's
\* stake passes it by what the multiplier adds.
LEMMA PairStakesSizable ==
  ASSUME TypeOK, NEW p \in Pair, NEW s \in PairStakes(p)
  PROVE  Sizable(p, s)
<1>1. /\ cash \in Int /\ LockedNow \in Nat /\ EffectiveCash \in Int /\ EffectiveCash <= cash
      /\ Percent(cash, FractionPct) \in Int
  BY SumsType, PercentType, ConstantsAssumption DEF TypeOK
<1>2. MaxTrade \in Nat /\ MaxLocked \in Nat /\ MaxLocked - LockedNow \in Int /\ MinTrade \in Nat \ {0}
  BY <1>1, ConstantsAssumption
<1>3. /\ BaseLimit \in Int /\ BaseLimit <= cash /\ BaseLimit <= MaxTrade
      /\ BaseLimit <= MaxLocked - LockedNow
  <2>1. MaxTrade \in Int
    BY <1>2
  <2> QED BY <1>1, <1>2, <2>1, LeastOfFour DEF BaseLimit
<1>4. BaseLimit >= MinTrade /\ s \in MinTrade .. PairLimit(p)
  BY <1>2, <1>3 DEF PairStakes
<1>5. BaseLimit \in Nat
  BY <1>2, <1>3, <1>4
<1>6. SizePct[p] \in Nat /\ p \in Name
  BY ConstantsAssumption DEF Name
<1>7. PairLimit(p) \in Int
  BY LimitsType
<1> DEFINE scaled == Percent(BaseLimit, SizePct[p])
<1>8. scaled \in Int
  BY <1>3, <1>6, PercentType
<1>9. SizePct[p] # 100 => PairLimit(p) <= scaled /\ PairLimit(p) <= cash
  <2> HIDE DEF scaled
  <2>1. LET m == Least({scaled, EffectiveCash})
        IN  m \in Int /\ m <= scaled /\ m <= EffectiveCash
    BY <1>1, <1>8, LeastOfTwo
  <2> QED BY <1>1, <1>7, <2>1 DEF PairLimit, scaled
<1>10. s \in Nat \ {0} /\ s <= PairLimit(p)
  BY <1>2, <1>4, <1>7
<1>11. Stake[p] \in Nat /\ Stake[p] >= MaxTrade
  BY <1>6, StakeType
<1>12. CASE SizePct[p] <= 100
  <2>1. SizePct[p] \in 0 .. 100
    BY <1>6, <1>12
  <2>2. scaled <= BaseLimit
    BY <1>5, <2>1, PercentBounded
  <2>3. PairLimit(p) <= BaseLimit
    <3>1. CASE SizePct[p] = 100
      BY <1>3, <3>1 DEF PairLimit
    <3>2. CASE SizePct[p] # 100
      <4> HIDE DEF scaled
      <4> QED BY <1>3, <1>7, <1>8, <1>9, <2>2, <3>2
    <3> QED BY <3>1, <3>2
  <2> HIDE DEF scaled
  <2> QED BY <1>1, <1>2, <1>3, <1>7, <1>10, <1>11, <2>3 DEF Sizable
<1>13. CASE SizePct[p] > 100
  <2>1. Stake[p] = Percent(MaxTrade, SizePct[p])
    BY <1>6, <1>13 DEF Stake
  <2>2. scaled <= Stake[p]
    BY <1>2, <1>3, <1>5, <1>6, <2>1, PercentGrows
  <2>3. scaled - BaseLimit <= Stake[p] - MaxTrade
    BY <1>2, <1>3, <1>5, <1>6, <1>13, <2>1, PercentExcess
  <2>4. PairLimit(p) <= scaled /\ PairLimit(p) <= cash
    BY <1>6, <1>9, <1>13
  <2> HIDE DEF scaled
  <2> QED BY <1>1, <1>2, <1>3, <1>7, <1>8, <1>10, <1>11, <2>2, <2>3, <2>4 DEF Sizable
<1> QED BY <1>6, <1>12, <1>13

LEMMA NLegStakesSizable ==
  ASSUME TypeOK, NEW l \in NLeg, NEW limit \in Nat, NEW s \in NLegStakes(l, limit)
  PROVE  Sizable(l, s)
<1> DEFINE m == Least({limit, NLegLimit})
<1>1. /\ cash \in Int /\ LockedNow \in Nat /\ Percent(cash, FractionPct) \in Int
      /\ MaxTrade \in Nat /\ MaxLocked \in Nat /\ MinTrade \in Nat \ {0}
      /\ MaxTrade \in Int /\ Remaining \in Int
  <2>1. cash \in Int /\ LockedNow \in Nat
    BY SumsType DEF TypeOK
  <2> QED BY <2>1, PercentType, ConstantsAssumption DEF Remaining
<1>2. /\ NLegLimit \in Int /\ NLegLimit <= Remaining /\ NLegLimit <= MaxTrade
      /\ NLegLimit <= cash
  BY <1>1, LeastOfFour DEF NLegLimit
<1>3. m \in Int /\ m <= NLegLimit
  BY <1>2, LeastOfTwo
<1>4. s \in 1 .. m \/ s \in MinTrade .. m
  BY DEF NLegStakes
<1> HIDE DEF m
<1>5. s \in Nat \ {0} /\ s <= NLegLimit
  BY <1>1, <1>2, <1>3, <1>4
<1>6. Remaining > 0 => Remaining = MaxLocked - LockedNow
  BY <1>1 DEF Remaining
<1>7. Stake[l] = MaxTrade
  BY ConstantsAssumption DEF Stake, Name
<1>8. s <= Remaining /\ Remaining > 0
  BY <1>1, <1>2, <1>5
<1> QED BY <1>1, <1>2, <1>5, <1>6, <1>7, <1>8 DEF Sizable

\* From the recheck's answer on.
LEMMA SizeEffect ==
  ASSUME Inv, NEW t \in Live, task[t].pc # "ordering", NEW limit \in Nat, Size(t, limit)
  PROVE  \/ Skip(t)
         \/ \E k \in Nat :
              /\ Sizable(task[t].name, k)
              /\ \/ /\ LiveMode /\ UNCHANGED <<bookVars, inflight>>
                    /\ task' = [task EXCEPT ![t].pc = "ordering", ![t].held = k]
                 \/ Book(t, k)
<1> DEFINE n == task[t].name
           stakes == IF n \in Pair THEN PairStakes(n) ELSE NLegStakes(n, limit)
<1>1. ASSUME NEW k \in stakes, Commit(t, k)
      PROVE  \E j \in Nat :
               /\ Sizable(n, j)
               /\ \/ /\ LiveMode /\ UNCHANGED <<bookVars, inflight>>
                     /\ task' = [task EXCEPT ![t].pc = "ordering", ![t].held = j]
                  \/ Book(t, j)
  <2>1. n \in Pair \/ n \in NLeg
    BY LiveTask DEF Inv
  <2>2. Sizable(n, k)
    BY <1>1, <2>1, PairStakesSizable, NLegStakesSizable, InvImpliesTypeOK
  <2> HIDE DEF stakes
  <2> QED BY <1>1, <2>2 DEF Commit, Sizable
<1> QED BY <1>1 DEF Size

(***************************************************************************)
(* What a step of a background task does: it gives up, it awaits the       *)
(* recheck or, in live mode, its order, or it books.                       *)
(***************************************************************************)
LEMMA TaskEffect ==
  ASSUME Inv, NEW t \in Task, TaskStep(t)
  PROVE  /\ t \in Live /\ UNCHANGED scanVars
         /\ \/ Skip(t)
            \/ /\ NameFree(task[t].name) /\ Counts(t) /\ UNCHANGED <<bookVars, inflight>>
               /\ \E held \in Nat :
                    task' = [task EXCEPT ![t].pc = "fetching", ![t].held = held]
               /\ task[t].pc = "ready"
            \/ /\ NameFree(task[t].name) /\ Counts(t) /\ UNCHANGED <<bookVars, inflight>>
               /\ LiveMode /\ task[t].pc # "ordering"
               /\ \E k \in Nat :
                    /\ Sizable(task[t].name, k)
                    /\ task' = [task EXCEPT ![t].pc = "ordering", ![t].held = k]
            \/ /\ NameFree(task[t].name) /\ Counts(t)
               /\ \E k \in Nat : Chosen(t, k) /\ Book(t, k)
<1>1. t \in Live /\ UNCHANGED scanVars
  BY DEF TaskStep, Start, Rechecked, Ordered, Live
<1>2. CASE Start(t)
  <2> DEFINE n == task[t].name
             limit == IF n \in Pair THEN 0 ELSE NLegLimit
  <2>1. CASE Skip(t)
    BY <1>1, <2>1
  <2>2. CASE IF n \in Pair THEN EntryAllowed(n) ELSE NLegAllowed(n)
    <3>1. n \in Pair \/ n \in NLeg
      BY <1>1, LiveTask DEF Inv
    <3>2. NameFree(n) /\ Counts(t) /\ task[t].pc = "ready"
      BY <1>2, <2>2, <3>1, ConstantsAssumption
      DEF Start, Counts, NameFree, EntryAllowed, NLegAllowed
    <3>3. limit \in Nat
      <4>1. NLegLimit \in Int /\ MinTrade \in Nat
        BY LimitsType, InvImpliesTypeOK, ConstantsAssumption
      <4>2. n \notin Pair => NLegLimit >= MinTrade
        BY <2>2 DEF NLegAllowed
      <4> QED BY <4>1, <4>2
    <3>4. CASE /\ task' = [task EXCEPT ![t].pc = "fetching", ![t].held = limit]
               /\ UNCHANGED <<bookVars, inflight, undrained>>
      <4> HIDE DEF limit
      <4> QED BY <1>1, <3>2, <3>3, <3>4
    <3>5. CASE Size(t, limit)
      <4> HIDE DEF limit
      <4> QED BY <1>1, <3>2, <3>3, <3>5, SizeEffect DEF Chosen
    <3> QED BY <1>2, <2>1, <3>4, <3>5 DEF Start
  <2> QED BY <1>2, <2>1, <2>2 DEF Start
<1>3. CASE Rechecked(t)
  <2>1. task[t].pc = "fetching" /\ Size(t, task[t].held)
    BY <1>3 DEF Rechecked
  <2>2. NameFree(task[t].name) /\ task[t].held \in Nat /\ Counts(t)
    BY <1>1, <2>1, LiveTask DEF Inv, PastTheCheck, Counts
  <2> QED BY <1>1, <2>1, <2>2, SizeEffect DEF Chosen
<1>4. CASE Ordered(t)
  <2>1. task[t].pc = "ordering" /\ (Skip(t) \/ Book(t, task[t].held))
    BY <1>4 DEF Ordered
  <2>2. NameFree(task[t].name) /\ task[t].held \in Nat /\ Counts(t)
    BY <1>1, <2>1, LiveTask DEF Inv, PastTheCheck, Counts
  <2> QED BY <1>1, <2>1, <2>2 DEF Chosen
<1> QED BY <1>2, <1>3, <1>4 DEF TaskStep

LEMMA NextBooks ==
  ASSUME Inv, [Next]_vars
  PROVE  \/ UNCHANGED <<cash, realized, positions, openCount>>
         \/ \E Q \in SUBSET positions : \E value \in [Q -> Nat] :
              (\A q \in Q : q.name \in Pair) /\ Close(Q, value)
              /\ UNCHANGED <<nextTradeId, openNLegNames, cooling>>
         \/ \E t \in Live, k \in Nat :
              /\ NameFree(task[t].name) /\ Counts(t) /\ Chosen(t, k)
              /\ Book(t, k)
<1>1. CASE ScanMark
  <2>1. PICK Q \in SUBSET {q \in positions : q.name \in Pair} :
          \E value \in [Q -> 0 .. MaxTrade + MaxGain] : Close(Q, value)
    BY <1>1 DEF ScanMark
  <2>2. PICK value \in [Q -> 0 .. MaxTrade + MaxGain] : Close(Q, value)
    BY <2>1
  <2>3. value \in [Q -> Nat] /\ Q \in SUBSET positions /\ \A q \in Q : q.name \in Pair
    BY ConstantsAssumption
  <2>4. UNCHANGED <<nextTradeId, openNLegNames, cooling>>
    BY <1>1 DEF ScanMark
  <2> QED BY <2>2, <2>3, <2>4
<1>2. CASE FinishScan \/ Stop \/ UNCHANGED vars
  BY <1>2 DEF FinishScan, Stop, vars, bookVars
<1>3. ASSUME NEW p \in Pair, SpawnPair(p) \/ CooldownEnds(p)
      PROVE  UNCHANGED <<cash, realized, positions, openCount>>
  BY <1>3 DEF SpawnPair, CooldownEnds, bookVars
<1>4. ASSUME NEW t \in Task, Cancel(t)
      PROVE  UNCHANGED <<cash, realized, positions, openCount>>
  BY <1>4 DEF Cancel, bookVars
<1>5. ASSUME NEW t \in Task, TaskStep(t)
      PROVE  \/ UNCHANGED <<cash, realized, positions, openCount>>
             \/ \E u \in Live, k \in Nat :
                  /\ NameFree(task[u].name) /\ Counts(u) /\ Chosen(u, k)
                  /\ Book(u, k)
  BY <1>5, TaskEffect DEF bookVars, Skip
<1> QED BY <1>1, <1>2, <1>3, <1>4, <1>5 DEF Next, TaskStep

\* A booking adds its stake to the capital locked.
LEMMA LockedBooked ==
  ASSUME Inv, NEW t \in Live, NEW k \in Nat, Book(t, k)
  PROVE  LockedNow' = LockedNow + k
<1> DEFINE q == [id |-> nextTradeId, name |-> task[t].name, locked |-> k]
<1>1. positions \subseteq Position /\ IsFiniteSet(positions)
  BY DEF Inv, BookInv
<1>2. \A r \in positions : r.locked \in Nat
  BY <1>1 DEF Position
<1>3. positions' = positions \cup {q} /\ nextTradeId' = nextTradeId + 1
  BY DEF Book, BookPair, BookNLeg
<1>4. q \notin positions
  <2> HIDE DEF q
  <2> QED BY <1>3, NewPosition, LiveTask DEF Inv, q
<1>5. q.locked = k
  OBVIOUS
<1> HIDE DEF q
<1> QED BY <1>1, <1>2, <1>3, <1>4, <1>5, LockedAdd DEF LockedNow

\* A close takes the capital of what it closes out.
LEMMA LockedClosed ==
  ASSUME Inv, NEW Q \in SUBSET positions, NEW value, Close(Q, value)
  PROVE  LockedNow' \in Nat /\ LockedNow' <= LockedNow
<1>1. /\ IsFiniteSet(positions) /\ IsFiniteSet(Q) /\ IsFiniteSet(positions \ Q)
      /\ \A q \in positions : q.locked \in Nat
  BY FS_Subset, FS_Difference DEF Inv, BookInv, Position
<1>2. LockedIn(positions) = LockedIn(positions \ Q) + LockedIn(Q)
  BY <1>1, LockedRemove
<1>3. LockedIn(Q) \in Nat /\ LockedIn(positions \ Q) \in Nat
  BY <1>1, LockedType
<1> QED BY <1>2, <1>3 DEF LockedNow, Close

\* No market resolves soon enough for a multiplier above one.
NeverBoosted == \A p \in Pair : SizePct[p] <= 100

\* In paper mode a stake is booked in the step that chose it, and a close
\* only lowers the sum.
LEMMA CapStep ==
  ASSUME ~LiveMode, NeverBoosted, Inv, LockedCap, [Next]_vars
  PROVE  LockedCap'
<1>1. LockedNow \in Nat /\ MaxLocked \in Nat
  BY SumsType, InvImpliesTypeOK, ConstantsAssumption
<1>2. CASE UNCHANGED <<cash, realized, positions, openCount>>
  BY <1>2 DEF LockedCap, LockedNow
<1>3. ASSUME NEW Q \in SUBSET positions, NEW value, Close(Q, value)
      PROVE  LockedCap'
  BY <1>1, <1>3, LockedClosed DEF LockedCap
<1>4. ASSUME NEW t \in Live, NEW k \in Nat, Chosen(t, k), Book(t, k)
      PROVE  LockedCap'
  <2>1. task[t].pc # "ordering" /\ task[t].name \in Name
    BY LiveTask DEF Inv, TaskInv, PaperNeverWaits
  <2>2. Stake[task[t].name] = MaxTrade /\ MaxTrade \in Nat
    BY <2>1, ConstantsAssumption DEF NeverBoosted, Stake
  <2>3. LockedNow + k <= MaxLocked
    BY <1>1, <1>4, <2>1, <2>2 DEF Chosen, Sizable
  <2> QED BY <1>4, <2>3, LockedBooked DEF LockedCap
<1> QED BY <1>2, <1>3, <1>4, NextBooks

\* --max-total-locked-capital is a cap on the capital of all open positions in
\* paper mode, where the room left under it is read in the step that books,
\* for stakes no multiplier raises above the limit that was cut to that room.
THEOREM PaperLockedCapped ==
  ASSUME ~LiveMode, NeverBoosted
  PROVE  Spec => []LockedCap
<1>1. Init => LockedCap
  <2>1. LockedIn({}) = 0
    BY SumOfNone DEF LockedIn
  <2> QED BY <2>1, ConstantsAssumption DEF Init, LockedCap, LockedNow
<1>2. Inv /\ LockedCap /\ [Next]_vars => LockedCap'
  BY CapStep
<1> QED BY <1>1, <1>2, InvHolds, PTL DEF Spec

LEMMA CooldownStep ==
  ASSUME Inv, [Next]_vars, NEW p \in Pair, openCount'[p] > openCount[p]
  PROVE  p \notin cooling
<1>1. openCount[p] \in Nat
  BY DEF Inv, BookInv
<1>2. CASE UNCHANGED <<cash, realized, positions, openCount>>
  BY <1>1, <1>2
<1>3. ASSUME NEW Q \in SUBSET positions, NEW value \in [Q -> Nat],
             \A q \in Q : q.name \in Pair, Close(Q, value),
             UNCHANGED <<nextTradeId, openNLegNames, cooling>>
      PROVE  FALSE
  <2>1. openCount'[p] <= openCount[p] /\ BookInv'
    BY <1>3, BookClosed DEF Inv
  <2> QED BY <1>1, <2>1 DEF BookInv
<1>4. ASSUME NEW t \in Live, NEW k \in Nat, NameFree(task[t].name), Book(t, k)
      PROVE  p \notin cooling
  <2>1. task[t].name = p
    <3> SUFFICES ASSUME task[t].name # p PROVE openCount'[p] = openCount[p]
      BY <1>1
    <3>1. openCount \in [Pair -> Nat]
      BY DEF Inv, BookInv
    <3> QED BY <1>4, <3>1 DEF Book, BookPair, BookNLeg
  <2> QED BY <1>4, <2>1 DEF NameFree
<1> QED BY <1>2, <1>3, <1>4, NextBooks

\* No entry into a pair is booked within its cooldown.
THEOREM CooldownRespected == Spec => CooldownHolds
<1>1. Inv /\ [Next]_vars
        => [\A p \in Pair : openCount'[p] > openCount[p] => p \notin cooling]_vars
  BY CooldownStep
<1> QED BY <1>1, InvHolds, PTL DEF Spec, CooldownHolds

-----------------------------------------------------------------------------
(* Outcomes.  Tasks leave theirs while no scan runs, and a scan has taken  *)
(* all of them over before it creates the next task.                       *)

OutcomeInv == NoOutcomeMerged /\ (phase = "spawning" => undrained = {})

LEMMA FinishOutcome ==
  ASSUME Inv, OutcomeInv, NEW t \in Live, Finish(t), UNCHANGED scanVars, phase = "idle"
  PROVE  OutcomeInv'
<1>1. \A u \in Task : task'[u].pc # "none" =>
        /\ task'[u] = task[u] /\ u \in Live
        /\ task[u].name # task[t].name
  BY TaskEnds DEF Inv, Finish, scanVars
<1>2. undrained' = undrained \cup {task[t].name} /\ phase' = "idle"
  BY DEF Finish, scanVars
<1> QED BY <1>1, <1>2 DEF OutcomeInv, NoOutcomeMerged, Live

LEMMA TaskOutcome ==
  ASSUME Inv, OutcomeInv, NEW t \in Task, TaskStep(t)
  PROVE  OutcomeInv'
<1>1. t \in Live /\ UNCHANGED scanVars /\ phase = "idle"
  BY DEF TaskStep, Start, Rechecked, Ordered, Live
<1>2. \/ Finish(t)
      \/ /\ \E pc \in {"fetching", "ordering"} : \E held :
              task' = [task EXCEPT ![t].pc = pc, ![t].held = held]
         /\ UNCHANGED undrained
  BY DEF TaskStep, Start, Rechecked, Ordered, Size, Commit, Book, BookPair, BookNLeg, Skip
<1>3. CASE Finish(t)
  BY <1>1, <1>3, FinishOutcome
<1>4. ASSUME NEW pc \in {"fetching", "ordering"}, NEW held,
             task' = [task EXCEPT ![t].pc = pc, ![t].held = held], UNCHANGED undrained
      PROVE  OutcomeInv'
  <2>1. task \in [Task -> TaskState] /\ t \in Task
    BY <1>1 DEF Inv, TaskInv, Live
  <2>2. \A u \in Task : task'[u].pc # "none" =>
          u \in Live /\ task'[u].name = task[u].name
    BY <1>1, <1>4, <2>1 DEF Live, TaskState, NoTask
  <2>3. NoOutcomeMerged'
    <3> SUFFICES ASSUME NEW u \in Task, task'[u].pc # "none"
                 PROVE  task'[u].name \notin undrained'
      BY DEF NoOutcomeMerged, Live
    <3>1. u \in Live /\ task'[u].name = task[u].name
      BY <2>2
    <3> QED BY <1>4, <3>1 DEF OutcomeInv, NoOutcomeMerged
  <2> QED BY <1>1, <2>3 DEF OutcomeInv, scanVars
<1> QED BY <1>2, <1>3, <1>4

LEMMA OutcomeStep == Inv /\ OutcomeInv /\ [Next]_vars => OutcomeInv'
<1> SUFFICES ASSUME Inv, OutcomeInv, [Next]_vars PROVE OutcomeInv'
  OBVIOUS
<1>1. CASE ScanMark
  BY <1>1 DEF ScanMark, Drain, OutcomeInv, NoOutcomeMerged
<1>2. ASSUME undrained = {}, UNCHANGED undrained PROVE OutcomeInv'
  BY <1>2 DEF OutcomeInv, NoOutcomeMerged
<1>3. CASE FinishScan \/ \E p \in Pair : SpawnPair(p)
  BY <1>2, <1>3 DEF FinishScan, SpawnPair, OutcomeInv
<1>4. CASE Stop \/ (\E p \in Pair : CooldownEnds(p)) \/ UNCHANGED vars
  BY <1>4 DEF Stop, CooldownEnds, vars, scanVars, OutcomeInv, NoOutcomeMerged, Live
<1>5. ASSUME NEW t \in Task, TaskStep(t) PROVE OutcomeInv'
  BY <1>5, TaskOutcome
<1>6. ASSUME NEW t \in Task, Cancel(t) PROVE OutcomeInv'
  <2>1. \A u \in Task : task'[u].pc # "none" => task'[u] = task[u] /\ u \in Live
    BY <1>6 DEF Cancel, Inv, TaskInv, NoTask, Live
  <2> QED BY <1>6, <2>1 DEF Cancel, OutcomeInv, NoOutcomeMerged, Live, scanVars
<1> QED BY <1>1, <1>3, <1>4, <1>5, <1>6 DEF Next, TaskStep

\* No task runs for a name whose last outcome the scan has not taken over, so
\* _pending_bg_actions never holds two outcomes of a name.
THEOREM OutcomesDrained == Spec => []NoOutcomeMerged
<1>1. Init => OutcomeInv
  BY DEF Init, OutcomeInv, NoOutcomeMerged
<1>2. OutcomeInv => NoOutcomeMerged
  BY DEF OutcomeInv
<1> QED BY <1>1, <1>2, OutcomeStep, InvHolds, PTL DEF Spec

-----------------------------------------------------------------------------
(* Both modes implement the account of EntryLedger.  In live mode a stake  *)
(* is chosen before its order is awaited and paid for after it, so what    *)
(* the invariant bounds is the cash less all that is still owed.           *)

Ordering(tk, n) == {t \in Task : tk[t].pc = "ordering" /\ tk[t].name = n}

\* The capital of the order each name awaits.
OwedBy(tk) == [n \in Name |->
  IF Ordering(tk, n) = {} THEN 0 ELSE tk[CHOOSE t \in Ordering(tk, n) : TRUE].held]
Owed == SumOver(Name, OwedBy(task))

OrdersFit ==
  /\ \A t \in Task : task[t].pc = "ordering" => task[t].held \in 1 .. Stake[task[t].name]
  /\ (\E t \in Task : task[t].pc = "ordering") =>
       Owed <= cash + Credit /\ LockedNow + Owed <= MaxLocked + Credit

\* The pairs that a task has let pass the count of open positions.
CheckedPairs(tk) ==
  {p \in Pair : \E t \in Task : tk[t].name = p /\ tk[t].pc \in {"fetching", "ordering"}}

\* Each of them may still add a position to a count below --max-open-positions.
CountFits == Pair # {} =>
  OpenPositionCount + Cardinality(CheckedPairs(task)) < MaxOpen + Cardinality(Pair)

LimitInv == OrdersFit /\ CountFits

LEMMA NamesFinite == IsFiniteSet(Name) /\ IsFiniteSet(Pair) /\ Pair \subseteq Name
BY ConstantsAssumption, FS_Union DEF Name

NamesApart(tk) ==
  \A t, u \in Task :
    tk[t].pc # "none" /\ tk[u].pc # "none" /\ tk[t].name = tk[u].name => t = u

\* What a name owes is what its one order holds.
LEMMA OwedOf ==
  ASSUME NEW tk \in [Task -> TaskState],
         NamesApart(tk)
  PROVE  /\ OwedBy(tk) \in [Name -> Nat]
         /\ \A t \in Task : tk[t].pc = "ordering" =>
              tk[t].name \in Name /\ OwedBy(tk)[tk[t].name] = tk[t].held
         /\ \A n \in Name : Ordering(tk, n) = {} => OwedBy(tk)[n] = 0
<1>1. ASSUME NEW t \in Task, tk[t].pc = "ordering"
      PROVE  /\ tk[t].name \in Name /\ tk[t].held \in Nat
             /\ Ordering(tk, tk[t].name) = {t}
  BY <1>1 DEF Ordering, TaskState, NoTask, NamesApart
<1>2. ASSUME NEW n \in Name, Ordering(tk, n) # {}
      PROVE  \E t \in Task : /\ tk[t].pc = "ordering" /\ tk[t].name = n
                             /\ OwedBy(tk)[n] = tk[t].held
  <2>1. PICK t \in Task : tk[t].pc = "ordering" /\ tk[t].name = n
    BY <1>2 DEF Ordering
  <2>2. Ordering(tk, n) = {t}
    BY <1>1, <2>1
  <2>3. (CHOOSE u \in Ordering(tk, n) : TRUE) = t
    BY <2>2
  <2> QED BY <1>2, <2>1, <2>3 DEF OwedBy
<1>3. \A n \in Name : Ordering(tk, n) = {} => OwedBy(tk)[n] = 0
  BY DEF OwedBy
<1>4. \A n \in Name : OwedBy(tk)[n] \in Nat
  BY <1>1, <1>2, <1>3
<1>5. OwedBy(tk) \in [Name -> Nat]
  BY <1>4 DEF OwedBy
<1>6. ASSUME NEW t \in Task, tk[t].pc = "ordering"
      PROVE  tk[t].name \in Name /\ OwedBy(tk)[tk[t].name] = tk[t].held
  <2>1. tk[t].name \in Name /\ Ordering(tk, tk[t].name) = {t}
    BY <1>1, <1>6
  <2>2. (CHOOSE u \in {t} : TRUE) = t
    OBVIOUS
  <2> QED BY <2>1, <2>2 DEF OwedBy
<1> QED BY <1>3, <1>5, <1>6

LEMMA OwedNow ==
  ASSUME TaskInv
  PROVE  /\ OwedBy(task) \in [Name -> Nat]
         /\ \A t \in Task : task[t].pc = "ordering" =>
              task[t].name \in Name /\ OwedBy(task)[task[t].name] = task[t].held
         /\ \A n \in Name : Ordering(task, n) = {} => OwedBy(task)[n] = 0
<1>1. task \in [Task -> TaskState]
  BY DEF TaskInv
<1>2. NamesApart(task)
  BY DEF TaskInv, ReservationIffTask, Live, NamesApart
<1> QED BY <1>1, <1>2, OwedOf

LEMMA OwedNext ==
  ASSUME TaskInv'
  PROVE  /\ OwedBy(task') \in [Name -> Nat]
         /\ \A t \in Task : task'[t].pc = "ordering" =>
              task'[t].name \in Name /\ OwedBy(task')[task'[t].name] = task'[t].held
         /\ \A n \in Name : Ordering(task', n) = {} => OwedBy(task')[n] = 0
<1>1. task' \in [Task -> TaskState]
  BY DEF TaskInv
<1>2. NamesApart(task')
  BY DEF TaskInv, ReservationIffTask, Live, NamesApart
<1> QED BY <1>1, <1>2, OwedOf

\* All other names together owe at most one stake each.
LEMMA OwedByOthers ==
  ASSUME NEW owed \in [Name -> Nat], \A m \in Name : owed[m] <= Stake[m], NEW n \in Name
  PROVE  /\ SumOver(Name, owed) \in Nat /\ SumOver(Name, Stake) \in Nat
         /\ SumOver(Name, owed) - owed[n] <= SumOver(Name, Stake) - Stake[n]
<1>1. IsFiniteSet(Name) /\ IsFiniteSet(Name \ {n}) /\ \A m \in Name : Stake[m] \in Nat
  BY NamesFinite, FS_Subset, StakeType
<1>2. /\ SumOver(Name, owed) = SumOver(Name \ {n}, owed) + owed[n]
      /\ SumOver(Name, Stake) = SumOver(Name \ {n}, Stake) + Stake[n]
  BY <1>1, SumWithout
<1>3. SumOver(Name \ {n}, owed) <= SumOver(Name \ {n}, Stake)
  BY <1>1, SumMonotone
<1>4. SumOver(Name \ {n}, owed) \in Nat /\ SumOver(Name \ {n}, Stake) \in Nat
  BY <1>1, SumType
<1> QED BY <1>1, <1>2, <1>3, <1>4

LEMMA CreditType ==
  ASSUME NEW n \in Name
  PROVE  /\ Credit \in Nat
         /\ LiveMode => Credit >= SumOver(Name, Stake) - Stake[n]
<1>1. IsFiniteSet(Name) /\ \A m \in Name : Stake[m] \in Nat
  BY NamesFinite, StakeType
<1>2. SumOver(Name, Stake) \in Nat /\ IsFiniteSet(Name \ {n})
  BY <1>1, SumType, FS_Subset
<1>3. SumOver(Name, Stake) = SumOver(Name \ {n}, Stake) + Stake[n]
  BY <1>1, SumWithout
<1>4. SumOver(Name \ {n}, Stake) \in Nat /\ Stake[n] \in Nat
  BY <1>1, <1>2, SumType
<1>5. Stake[n] >= MaxTrade /\ MaxTrade \in Nat
  BY StakeType, ConstantsAssumption
<1> QED BY <1>2, <1>3, <1>4, <1>5 DEF Credit

-----------------------------------------------------------------------------
(* OrdersFit, one lemma for each effect a step can have on it.             *)

\* No order is added, and none of those left is changed.
FewerOrders == \A u \in Task : task'[u].pc = "ordering" => task'[u] = task[u]

LEMMA OwedFalls ==
  ASSUME TaskInv, TaskInv', FewerOrders
  PROVE  /\ \A n \in Name : OwedBy(task')[n] <= OwedBy(task)[n]
         /\ Owed \in Nat /\ Owed' \in Nat /\ Owed' <= Owed
<1>1. OwedBy(task) \in [Name -> Nat] /\ OwedBy(task') \in [Name -> Nat]
  BY OwedNow, OwedNext
<1>2. ASSUME NEW n \in Name PROVE OwedBy(task')[n] <= OwedBy(task)[n]
  <2>1. CASE Ordering(task', n) = {}
    BY <1>1, <2>1, OwedNext
  <2>2. CASE Ordering(task', n) # {}
    <3>1. PICK u \in Task : task'[u].pc = "ordering" /\ task'[u].name = n
      BY <2>2 DEF Ordering
    <3>2. task'[u] = task[u]
      BY <3>1 DEF FewerOrders
    <3>3. OwedBy(task')[n] = OwedBy(task)[n]
      BY <3>1, <3>2, OwedNow, OwedNext
    <3> QED BY <1>1, <3>3
  <2> QED BY <2>1, <2>2
<1>3. SumOver(Name, OwedBy(task')) <= SumOver(Name, OwedBy(task))
  BY <1>1, <1>2, NamesFinite, SumMonotone
<1>4. SumOver(Name, OwedBy(task')) \in Nat /\ SumOver(Name, OwedBy(task)) \in Nat
  BY <1>1, NamesFinite, SumType
<1>5. Owed = SumOver(Name, OwedBy(task)) /\ Owed' = SumOver(Name, OwedBy(task'))
  BY DEF Owed, OwedBy, Ordering
<1> QED BY <1>2, <1>3, <1>4, <1>5

LEMMA OrdersLeft ==
  ASSUME Inv, Inv', OrdersFit, FewerOrders, cash' >= cash, LockedNow' <= LockedNow
  PROVE  OrdersFit'
<1>1. Owed \in Nat /\ Owed' \in Nat /\ Owed' <= Owed
  BY OwedFalls DEF Inv
<1>2. cash \in Int /\ cash' \in Int /\ LockedNow \in Nat /\ LockedNow' \in Nat /\ MaxLocked \in Nat
  <2>1. LockedNow' \in Nat
    BY LockedType DEF Inv, BookInv, LockedNow, Position
  <2> QED BY <2>1, SumsType, InvImpliesTypeOK, ConstantsAssumption DEF Inv, BookInv
<1>3. ASSUME NEW t \in Task, task'[t].pc = "ordering"
      PROVE  /\ task'[t] = task[t] /\ task[t].held \in 1 .. Stake[task[t].name]
             /\ Owed <= cash + Credit /\ LockedNow + Owed <= MaxLocked + Credit
             /\ Credit \in Nat
  <2>1. task[t].pc = "ordering" /\ task'[t] = task[t]
    BY <1>3 DEF FewerOrders
  <2>2. task[t].name \in Name
    BY <2>1, OwedNow DEF Inv
  <2> QED BY <2>1, <2>2, CreditType DEF OrdersFit
<1>4. Credit' = Credit /\ Stake' = Stake
  BY DEF Credit, Stake, SumOver, Cardinality
<1> QED BY <1>1, <1>2, <1>3, <1>4 DEF OrdersFit

\* A stake is chosen from the cash and the room of this moment.
LEMMA OrderPlaced ==
  ASSUME Inv, Inv', OrdersFit, NEW t \in Live, NEW k \in Nat, LiveMode,
         Sizable(task[t].name, k), UNCHANGED <<cash, positions>>,
         task' = [task EXCEPT ![t].pc = "ordering", ![t].held = k]
  PROVE  OrdersFit'
<1> DEFINE n == task[t].name
           owed == OwedBy(task')
<1>1. n \in Name /\ t \in Task /\ task \in [Task -> TaskState]
  BY LiveTask DEF Inv, TaskInv, Live
<1>2. \A u \in Task : u # t => task'[u] = task[u]
  BY <1>1
<1>3. task'[t].pc = "ordering" /\ task'[t].held = k /\ task'[t].name = n
  <2>1. task[t] \in [pc : {"ready", "fetching", "ordering"}, name : Name,
                     prefetched : BOOLEAN, held : Nat]
    BY <1>1 DEF Live, TaskState, NoTask
  <2> QED BY <1>1, <2>1
<1>4. k \in 1 .. Stake[n]
  BY <1>1, StakeType DEF Sizable
<1>5. ASSUME NEW u \in Task, task'[u].pc = "ordering"
      PROVE  task'[u].held \in 1 .. Stake[task'[u].name]
  BY <1>2, <1>3, <1>4, <1>5 DEF OrdersFit
<1>6. /\ owed \in [Name -> Nat] /\ owed[n] = k
      /\ \A u \in Task : task'[u].pc = "ordering" => owed[task'[u].name] = task'[u].held
      /\ \A m \in Name : Ordering(task', m) = {} => owed[m] = 0
  BY <1>1, <1>3, OwedNext DEF Inv
<1>7. ASSUME NEW m \in Name PROVE owed[m] <= Stake[m]
  <2> HIDE DEF owed
  <2>1. Stake[m] \in Nat
    BY StakeType
  <2>2. CASE Ordering(task', m) = {}
    <3>1. owed[m] = 0
      BY <1>6, <2>2
    <3> QED BY <2>1, <3>1
  <2>3. CASE Ordering(task', m) # {}
    <3>1. PICK u \in Task : task'[u].pc = "ordering" /\ task'[u].name = m
      BY <2>3 DEF Ordering
    <3>2. owed[m] = task'[u].held /\ task'[u].held \in 1 .. Stake[m]
      BY <1>5, <1>6, <3>1
    <3> QED BY <1>6, <2>1, <3>2
  <2> QED BY <2>2, <2>3
<1>8. /\ SumOver(Name, owed) \in Nat /\ SumOver(Name, Stake) \in Nat
      /\ SumOver(Name, owed) - k <= SumOver(Name, Stake) - Stake[n]
  <2> HIDE DEF owed, n
  <2> QED BY <1>1, <1>6, <1>7, OwedByOthers
<1>9. Owed' = SumOver(Name, owed)
  BY DEF Owed, OwedBy, Ordering
<1>10. Credit = SumOver(Name, Stake) - MaxTrade /\ Credit \in Nat /\ MaxTrade \in Nat
  BY <1>1, CreditType, ConstantsAssumption DEF Credit
<1>11. Stake[n] \in Nat /\ Stake[n] >= MaxTrade
  BY <1>1, StakeType
<1>12. /\ cash' = cash /\ cash \in Int /\ LockedNow' = LockedNow /\ LockedNow \in Nat
       /\ MaxLocked \in Nat
  BY SumsType, InvImpliesTypeOK, ConstantsAssumption DEF Inv, BookInv, LockedNow
<1>13. k <= cash /\ LockedNow + k <= MaxLocked + Stake[n] - MaxTrade
  BY DEF Sizable
<1> HIDE DEF owed, n
<1>14. Owed' <= cash' + Credit /\ LockedNow' + Owed' <= MaxLocked + Credit
  BY <1>8, <1>9, <1>10, <1>11, <1>12, <1>13
<1>15. Credit' = Credit /\ Stake' = Stake
  BY DEF Credit, Stake, SumOver, Cardinality
<1> QED BY <1>5, <1>14, <1>15 DEF OrdersFit

\* What is booked is no longer owed, or was within reach of what no other owes.
LEMMA OrderBooked ==
  ASSUME Inv, Inv', OrdersFit, NEW t \in Live, NEW k \in Nat, Chosen(t, k), Book(t, k)
  PROVE  OrdersFit'
<1> DEFINE n == task[t].name
           owed == OwedBy(task)
           left == OwedBy(task')
<1>1. n \in Name /\ t \in Task /\ task \in [Task -> TaskState]
  BY LiveTask DEF Inv, TaskInv, Live
<1>2. /\ cash' = cash - k /\ LockedNow' = LockedNow + k
      /\ task' = [task EXCEPT ![t] = NoTask]
  BY LockedBooked DEF Book, BookPair, BookNLeg, Finish
<1>3. FewerOrders /\ \A u \in Task : task'[u].pc = "ordering" => u # t
  BY <1>1, <1>2 DEF FewerOrders, NoTask
<1>4. /\ owed \in [Name -> Nat] /\ left \in [Name -> Nat]
      /\ \A m \in Name : left[m] <= owed[m]
  BY <1>3, OwedNow, OwedNext, OwedFalls DEF Inv
<1>5. left[n] = 0
  <2>1. Ordering(task', n) = {}
    <3> SUFFICES ASSUME NEW u \in Task, task'[u].pc = "ordering", task'[u].name = n
                 PROVE  FALSE
      BY DEF Ordering
    <3>1. u # t /\ task[u] = task'[u]
      BY <1>3 DEF FewerOrders
    <3>2. u \in Live /\ task[u].name = task[t].name
      BY <3>1 DEF Live
    <3> QED BY <3>1, <3>2 DEF Inv, TaskInv, ReservationIffTask
  <2> QED BY <1>1, <2>1, OwedNext DEF Inv
<1>6. /\ Owed = SumOver(Name, owed) /\ Owed' = SumOver(Name, left)
      /\ Owed \in Nat /\ Owed' \in Nat /\ Owed' <= Owed
  <2>1. Owed = SumOver(Name, owed) /\ Owed' = SumOver(Name, left)
    BY DEF Owed, OwedBy, Ordering
  <2> QED BY <1>3, <2>1, OwedFalls DEF Inv
<1>7. ASSUME NEW u \in Task, task'[u].pc = "ordering"
      PROVE  task'[u].held \in 1 .. Stake[task'[u].name] /\ LiveMode
  BY <1>3, <1>7 DEF FewerOrders, OrdersFit, Inv, TaskInv, PaperNeverWaits
<1>8. /\ cash \in Int /\ LockedNow \in Nat /\ MaxLocked \in Nat /\ MaxTrade \in Nat
      /\ Credit \in Nat
  BY <1>1, CreditType, SumsType, InvImpliesTypeOK, ConstantsAssumption DEF Inv, BookInv
<1>9. CASE task[t].pc = "ordering" /\ k = task[t].held
  <2>1. owed[n] = k
    BY <1>1, <1>9, OwedNow DEF Inv
  <2>2. SumOver(Name, left) <= SumOver(Name, owed) - k
    <3>1. IsFiniteSet(Name) /\ IsFiniteSet(Name \ {n})
      BY NamesFinite, FS_Subset
    <3> HIDE DEF owed, left, n
    <3>2. /\ SumOver(Name, left) = SumOver(Name \ {n}, left) + left[n]
          /\ SumOver(Name, owed) = SumOver(Name \ {n}, owed) + owed[n]
      BY <1>1, <1>4, <3>1, SumWithout
    <3>3. SumOver(Name \ {n}, left) <= SumOver(Name \ {n}, owed)
      BY <1>4, <3>1, SumMonotone
    <3>4. SumOver(Name \ {n}, left) \in Nat /\ SumOver(Name \ {n}, owed) \in Nat
      BY <1>4, <3>1, SumType
    <3> QED BY <1>5, <2>1, <3>2, <3>3, <3>4
  <2>3. Owed' <= Owed - k
    BY <1>6, <2>2
  <2>4. Owed <= cash + Credit /\ LockedNow + Owed <= MaxLocked + Credit
    BY <1>1, <1>9 DEF OrdersFit
  <2> HIDE DEF owed, left, n
  <2>5. Owed' <= cash' + Credit /\ LockedNow' + Owed' <= MaxLocked + Credit
    BY <1>2, <1>6, <1>8, <2>3, <2>4
  <2>6. Credit' = Credit /\ Stake' = Stake
    BY DEF Credit, Stake, SumOver, Cardinality
  <2> QED BY <1>7, <2>5, <2>6 DEF OrdersFit
<1>10. CASE Sizable(n, k)
  <2>1. ASSUME NEW m \in Name PROVE left[m] <= Stake[m]
    <3>1. Stake[m] \in Nat /\ left[m] \in Nat
      BY <1>4, StakeType
    <3>2. CASE Ordering(task', m) = {}
      <4>1. left[m] = 0
        BY <3>2, OwedNext DEF Inv
      <4> QED BY <3>1, <4>1
    <3>3. CASE Ordering(task', m) # {}
      <4>1. PICK u \in Task : task'[u].pc = "ordering" /\ task'[u].name = m
        BY <3>3 DEF Ordering
      <4>2. left[m] = task'[u].held
        BY <4>1, OwedNext DEF Inv
      <4> QED BY <1>7, <3>1, <4>1, <4>2
    <3> QED BY <3>2, <3>3
  <2>2. /\ SumOver(Name, Stake) \in Nat
        /\ SumOver(Name, left) - left[n] <= SumOver(Name, Stake) - Stake[n]
    <3> HIDE DEF left, n
    <3> QED BY <1>1, <1>4, <2>1, OwedByOthers
  <2>3. Stake[n] \in Nat /\ Stake[n] >= MaxTrade /\ (LiveMode => Credit = SumOver(Name, Stake) - MaxTrade)
    BY <1>1, StakeType DEF Credit
  <2>4. k <= cash /\ LockedNow + k <= MaxLocked + Stake[n] - MaxTrade
    BY <1>10 DEF Sizable
  <2> HIDE DEF owed, left, n
  <2>5. Owed' <= SumOver(Name, Stake) - Stake[n]
    BY <1>5, <1>6, <2>2, <2>3
  <2>6. LiveMode => Owed' <= cash' + Credit /\ LockedNow' + Owed' <= MaxLocked + Credit
    BY <1>2, <1>6, <1>8, <2>2, <2>3, <2>4, <2>5
  <2>7. Credit' = Credit /\ Stake' = Stake
    BY DEF Credit, Stake, SumOver, Cardinality
  <2> QED BY <1>7, <2>6, <2>7 DEF OrdersFit
<1> QED BY <1>9, <1>10 DEF Chosen

-----------------------------------------------------------------------------
(* CountFits, in the same way.                                             *)

LEMMA CountsType ==
  ASSUME BookInv
  PROVE  /\ OpenPositionCount \in Nat
         /\ OpenPositionCount = Cardinality({q \in positions : q.name \in Pair})
<1>1. OpenPositionCount \in Nat
  BY NamesFinite, SumType DEF BookInv, OpenPositionCount
<1>2. \A p \in Pair : openCount[p] = Cardinality({q \in positions : q.name = p})
  BY DEF BookInv, IndexesAgree, OpenOf
<1>3. SumOver(Pair, openCount) = Cardinality({q \in positions : q.name \in Pair})
  BY <1>2, NamesFinite, SumOfCounts DEF BookInv
<1> QED BY <1>1, <1>3 DEF OpenPositionCount

LEMMA CheckedType ==
  \A tk : /\ CheckedPairs(tk) \subseteq Pair /\ IsFiniteSet(CheckedPairs(tk))
          /\ Cardinality(CheckedPairs(tk)) \in Nat
          /\ Cardinality(CheckedPairs(tk)) <= Cardinality(Pair) /\ Cardinality(Pair) \in Nat
<1> SUFFICES ASSUME NEW tk
             PROVE  /\ CheckedPairs(tk) \subseteq Pair /\ IsFiniteSet(CheckedPairs(tk))
                    /\ Cardinality(CheckedPairs(tk)) \in Nat
                    /\ Cardinality(CheckedPairs(tk)) <= Cardinality(Pair)
                    /\ Cardinality(Pair) \in Nat
  OBVIOUS
<1>1. CheckedPairs(tk) \subseteq Pair
  BY DEF CheckedPairs
<1> QED BY <1>1, NamesFinite, FS_Subset, FS_CardinalityType

\* Positions are closed, and tasks end: neither adds to the count.
LEMMA CountLeft ==
  ASSUME Inv, Inv', CountFits, \A p \in Pair : openCount'[p] <= openCount[p],
         CheckedPairs(task') \subseteq CheckedPairs(task)
  PROVE  CountFits'
<1>1. openCount \in [Pair -> Nat] /\ openCount' \in [Pair -> Nat]
  BY DEF Inv, BookInv
<1>2. SumOver(Pair, openCount') <= SumOver(Pair, openCount)
  BY <1>1, NamesFinite, SumMonotone
<1>3. OpenPositionCount = SumOver(Pair, openCount) /\ OpenPositionCount' = SumOver(Pair, openCount')
  BY DEF OpenPositionCount
<1>4. SumOver(Pair, openCount) \in Nat /\ SumOver(Pair, openCount') \in Nat
  BY <1>1, NamesFinite, SumType
<1>5. Cardinality(CheckedPairs(task')) <= Cardinality(CheckedPairs(task))
  BY CheckedType, FS_Subset
<1>6. CheckedPairs(task)' = CheckedPairs(task')
  BY DEF CheckedPairs
<1>7. /\ Cardinality(CheckedPairs(task)) \in Nat /\ Cardinality(CheckedPairs(task')) \in Nat
      /\ Cardinality(Pair) \in Nat /\ MaxOpen \in Nat
  BY CheckedType, ConstantsAssumption
<1>8. Cardinality(Pair)' = Cardinality(Pair) /\ Cardinality(CheckedPairs(task))' = Cardinality(CheckedPairs(task'))
  BY <1>6
<1> QED BY <1>2, <1>3, <1>4, <1>5, <1>7, <1>8 DEF CountFits

\* A pair passes the count while it is below the limit.
LEMMA CountPassed ==
  ASSUME Inv, Inv', CountFits, NEW t \in Live, Counts(t), NEW pc, NEW held,
         pc = "fetching" => task[t].pc = "ready", UNCHANGED openCount,
         task' = [task EXCEPT ![t].pc = pc, ![t].held = held]
  PROVE  CountFits'
<1>1. task \in [Task -> TaskState] /\ t \in Task /\ (task[t].name \in Pair \/ task[t].name \in NLeg)
  BY LiveTask DEF Inv, TaskInv, Live
<1>2. \A u \in Task : task'[u].name = task[u].name /\ (u # t => task'[u] = task[u])
  BY <1>1 DEF TaskState, NoTask
<1>3. OpenPositionCount' = OpenPositionCount /\ OpenPositionCount \in Nat /\ MaxOpen \in Nat
  BY CountsType, ConstantsAssumption DEF OpenPositionCount, Inv
<1>4. CASE task[t].pc = "ready" /\ task[t].name \in Pair
  <2>1. OpenPositionCount < MaxOpen
    BY <1>4 DEF Counts
  <2>2. Cardinality(CheckedPairs(task')) <= Cardinality(Pair) /\ Cardinality(CheckedPairs(task')) \in Nat
        /\ Cardinality(Pair) \in Nat
    BY CheckedType
  <2>3. OpenPositionCount' + Cardinality(CheckedPairs(task')) < MaxOpen + Cardinality(Pair)
    BY <1>3, <2>1, <2>2
  <2>4. CheckedPairs(task)' = CheckedPairs(task')
    BY DEF CheckedPairs
  <2> QED BY <2>3, <2>4 DEF CountFits
<1>5. CASE task[t].pc # "ready" \/ task[t].name \notin Pair
  <2>1. ASSUME NEW p \in CheckedPairs(task') PROVE p \in CheckedPairs(task)
    <3>1. PICK u \in Task : task'[u].name = p /\ task'[u].pc \in {"fetching", "ordering"}
      BY <2>1 DEF CheckedPairs
    <3>2. p \in Pair /\ task[u].name = p
      BY <1>2, <2>1, <3>1 DEF CheckedPairs
    <3>3. CASE u # t
      BY <1>2, <3>1, <3>2, <3>3 DEF CheckedPairs
    <3>4. CASE u = t
      <4>1. task[t].pc \in {"fetching", "ordering"}
        BY <1>1, <1>5, <3>2, <3>4 DEF Live, TaskState, NoTask
      <4> QED BY <3>2, <3>4, <4>1 DEF CheckedPairs
    <3> QED BY <3>3, <3>4
  <2>2. \A p \in Pair : openCount'[p] <= openCount[p]
    BY DEF Inv, BookInv
  <2> QED BY <2>1, <2>2, CountLeft
<1> QED BY <1>4, <1>5

\* What a pair that books has left to itself.
LEMMA CountRoom ==
  ASSUME Inv, CountFits, NEW t \in Live, Counts(t), task[t].name \in Pair
  PROVE  /\ OpenPositionCount < MaxOpen + Cardinality(Pair) - 1
         /\ OpenPositionCount + Cardinality(CheckedPairs(task) \ {task[t].name})
              < MaxOpen + Cardinality(Pair) - 1
<1> DEFINE n == task[t].name
           C == CheckedPairs(task)
<1>1. /\ IsFiniteSet(C) /\ IsFiniteSet(C \ {n}) /\ C \subseteq Pair
      /\ Cardinality(C) \in Nat /\ Cardinality(C \ {n}) \in Nat
  BY CheckedType, FS_Subset, FS_CardinalityType
<1>2. OpenPositionCount \in Nat /\ MaxOpen \in Nat
  BY CountsType, ConstantsAssumption DEF Inv
<1>3. /\ IsFiniteSet(Pair \ {n}) /\ Cardinality(Pair \ {n}) = Cardinality(Pair) - 1
      /\ Cardinality(Pair \ {n}) \in Nat /\ Cardinality(Pair) \in Nat
  BY NamesFinite, FS_RemoveElement, FS_CardinalityType, FS_Subset
<1>4. CASE OpenPositionCount < MaxOpen
  <2>1. C \ {n} \subseteq Pair \ {n}
    BY <1>1
  <2>2. Cardinality(C \ {n}) <= Cardinality(Pair \ {n})
    BY <1>3, <2>1, FS_Subset
  <2> HIDE DEF C, n
  <2>3. OpenPositionCount + Cardinality(C \ {n}) < MaxOpen + Cardinality(Pair) - 1
    BY <1>1, <1>2, <1>3, <1>4, <2>2
  <2>4. OpenPositionCount < MaxOpen + Cardinality(Pair) - 1
    BY <1>1, <1>2, <1>3, <2>3
  <2> QED BY <2>3, <2>4 DEF C, n
<1>5. CASE task[t].pc # "ready"
  <2>1. n \in C
    BY <1>5 DEF CheckedPairs, Live, Inv, TaskInv, TaskState, NoTask
  <2>2. Cardinality(C \ {n}) = Cardinality(C) - 1
    BY <1>1, <2>1, FS_RemoveElement
  <2>3. OpenPositionCount + Cardinality(C) < MaxOpen + Cardinality(Pair)
    BY DEF CountFits
  <2> HIDE DEF C, n
  <2>4. OpenPositionCount + Cardinality(C \ {n}) < MaxOpen + Cardinality(Pair) - 1
    BY <1>1, <1>2, <1>3, <2>2, <2>3
  <2>5. OpenPositionCount < MaxOpen + Cardinality(Pair) - 1
    BY <1>1, <1>2, <1>3, <2>4
  <2> QED BY <2>4, <2>5 DEF C, n
<1> QED BY <1>4, <1>5 DEF Counts

\* A pair that books no longer counts among those that may.
LEMMA CountBooked ==
  ASSUME Inv, Inv', CountFits, NEW t \in Live, Counts(t), NEW k, Book(t, k)
  PROVE  CountFits'
<1> DEFINE n == task[t].name
<1>1. /\ task \in [Task -> TaskState] /\ t \in Task /\ (n \in Pair \/ n \in NLeg)
      /\ task' = [task EXCEPT ![t] = NoTask] /\ openCount \in [Pair -> Nat]
  BY LiveTask DEF Inv, TaskInv, BookInv, Live, Book, BookPair, BookNLeg, Finish
<1>2. ASSUME NEW p \in CheckedPairs(task')
      PROVE  p \in CheckedPairs(task) \ {n}
  <2>1. PICK u \in Task : task'[u].name = p /\ task'[u].pc \in {"fetching", "ordering"}
    BY <1>2 DEF CheckedPairs
  <2>2. u # t /\ task'[u] = task[u] /\ u \in Live /\ p \in Pair
    BY <1>1, <1>2, <2>1 DEF NoTask, Live, CheckedPairs
  <2>3. task[u].name # task[t].name
    BY <2>2 DEF Inv, TaskInv, ReservationIffTask
  <2> QED BY <2>1, <2>2, <2>3 DEF CheckedPairs
<1>3. CASE n \in NLeg
  <2>1. openCount' = openCount
    BY <1>3, ConstantsAssumption DEF Book, BookNLeg
  <2>2. \A p \in Pair : openCount'[p] <= openCount[p]
    BY <1>1, <2>1
  <2> QED BY <1>2, <2>2, CountLeft
<1>4. CASE n \in Pair
  <2>1. openCount' = [openCount EXCEPT ![n] = @ + 1]
    BY <1>4 DEF Book, BookPair
  <2>2. SumOver(Pair, openCount') = SumOver(Pair, openCount) - openCount[n] + openCount'[n]
    <3>1. \A p \in Pair : /\ openCount[p] \in Nat /\ openCount'[p] \in Nat
                          /\ (p # n => openCount'[p] = openCount[p])
      BY <1>1, <2>1
    <3> HIDE DEF n
    <3> QED BY <1>4, <3>1, NamesFinite, SumChanged
  <2>3. OpenPositionCount' = OpenPositionCount + 1 /\ OpenPositionCount \in Nat
    <3>1. OpenPositionCount = SumOver(Pair, openCount) /\ OpenPositionCount' = SumOver(Pair, openCount')
      BY DEF OpenPositionCount
    <3>2. openCount'[n] = openCount[n] + 1 /\ openCount[n] \in Nat
      BY <1>1, <1>4, <2>1
    <3>3. OpenPositionCount \in Nat
      BY CountsType DEF Inv
    <3> QED BY <2>2, <3>1, <3>2, <3>3
  <2>4. OpenPositionCount + Cardinality(CheckedPairs(task) \ {n}) < MaxOpen + Cardinality(Pair) - 1
    BY <1>4, CountRoom
  <2>5. /\ Cardinality(CheckedPairs(task')) <= Cardinality(CheckedPairs(task) \ {n})
        /\ Cardinality(CheckedPairs(task')) \in Nat /\ Cardinality(CheckedPairs(task) \ {n}) \in Nat
        /\ Cardinality(Pair) \in Nat /\ MaxOpen \in Nat
    <3>1. IsFiniteSet(CheckedPairs(task) \ {n})
      BY CheckedType, FS_Subset
    <3> HIDE DEF n
    <3> QED BY <1>2, <3>1, CheckedType, FS_Subset, FS_CardinalityType, ConstantsAssumption
  <2> HIDE DEF n
  <2>6. OpenPositionCount' + Cardinality(CheckedPairs(task')) < MaxOpen + Cardinality(Pair)
    BY <2>3, <2>4, <2>5
  <2>7. CheckedPairs(task)' = CheckedPairs(task')
    BY DEF CheckedPairs
  <2> QED BY <2>6, <2>7 DEF CountFits
<1> QED BY <1>1, <1>3, <1>4

-----------------------------------------------------------------------------
(* Both together are invariant.                                            *)

LEMMA InitLimits == Init => LimitInv
<1> SUFFICES ASSUME Init PROVE LimitInv
  OBVIOUS
<1>1. \A t \in Task : task[t].pc = "none"
  BY DEF Init, NoTask
<1>2. OrdersFit
  BY <1>1 DEF OrdersFit
<1>3. ASSUME Pair # {}
      PROVE  OpenPositionCount + Cardinality(CheckedPairs(task)) < MaxOpen + Cardinality(Pair)
  <2>1. CheckedPairs(task) = {}
    BY <1>1 DEF CheckedPairs
  <2>2. Cardinality({}) = 0 /\ Cardinality(Pair) \in Nat \ {0}
    BY <1>3, NamesFinite, FS_EmptySet, FS_CardinalityType
  <2>3. OpenPositionCount <= Cardinality(Pair) * 0 /\ OpenPositionCount \in Nat
    <3>1. \A p \in Pair : openCount[p] \in 0 .. 0 /\ openCount[p] \in Nat
      BY DEF Init
    <3>2. SumOver(Pair, openCount) <= Cardinality(Pair) * 0
      BY <3>1, NamesFinite, SumBounded
    <3> QED BY <3>1, <3>2, NamesFinite, SumType DEF OpenPositionCount
  <2> QED BY <2>1, <2>2, <2>3, ConstantsAssumption
<1> QED BY <1>2, <1>3 DEF LimitInv, CountFits

LEMMA LimitStep == Inv /\ LimitInv /\ [Next]_vars => LimitInv'
<1> SUFFICES ASSUME Inv, LimitInv, [Next]_vars PROVE LimitInv'
  OBVIOUS
<1>1. Inv'
  BY NextInv
<1>2. OrdersFit /\ CountFits
  BY DEF LimitInv
<1>3. /\ cash \in Int /\ LockedNow \in Nat /\ openCount \in [Pair -> Nat]
      /\ task \in [Task -> TaskState]
  BY SumsType, InvImpliesTypeOK DEF Inv, BookInv, TaskInv
<1>4. ASSUME UNCHANGED bookVars,
             \A u \in Task : task'[u].pc \in {"fetching", "ordering"} => task'[u] = task[u]
      PROVE  LimitInv'
  <2>1. FewerOrders /\ CheckedPairs(task') \subseteq CheckedPairs(task)
    BY <1>4 DEF FewerOrders, CheckedPairs
  <2>2. /\ cash' >= cash /\ LockedNow' <= LockedNow
        /\ \A p \in Pair : openCount'[p] <= openCount[p]
    BY <1>3, <1>4 DEF bookVars, LockedNow
  <2> QED BY <1>1, <1>2, <2>1, <2>2, OrdersLeft, CountLeft DEF LimitInv
<1>5. CASE ScanMark
  <2>1. PICK Q \in SUBSET {q \in positions : q.name \in Pair} :
          \E value \in [Q -> 0 .. MaxTrade + MaxGain] : Close(Q, value)
    BY <1>5 DEF ScanMark
  <2>2. PICK value \in [Q -> 0 .. MaxTrade + MaxGain] : Close(Q, value)
    BY <2>1
  <2>3. /\ Q \in SUBSET positions /\ value \in [Q -> Nat] /\ (\A q \in Q : q.name \in Pair)
        /\ UNCHANGED <<nextTradeId, openNLegNames, cooling, task>>
    BY <1>5, ConstantsAssumption DEF ScanMark
  <2>4. cash' >= cash
    <3>1. SumOver(Q, value) \in Nat
      BY <2>3, FS_Subset, SumType DEF Inv, BookInv
    <3> QED BY <1>3, <2>2, <3>1 DEF Close
  <2>5. LockedNow' <= LockedNow
    BY <2>2, <2>3, LockedClosed
  <2>6. \A p \in Pair : openCount'[p] <= openCount[p]
    BY <2>2, <2>3, BookClosed DEF Inv
  <2>7. FewerOrders /\ CheckedPairs(task') \subseteq CheckedPairs(task)
    BY <2>3 DEF FewerOrders
  <2> QED BY <1>1, <1>2, <2>4, <2>5, <2>6, <2>7, OrdersLeft, CountLeft DEF LimitInv
<1>6. CASE FinishScan \/ \E p \in Pair : SpawnPair(p)
  <2>1. UNCHANGED bookVars
    BY <1>6 DEF FinishScan, SpawnPair
  <2>2. task' = task \/ \E n, reserve : Spawn(n, reserve)
    BY <1>6 DEF FinishScan, SpawnPair
  <2>3. ASSUME NEW n, NEW reserve, Spawn(n, reserve), NEW u \in Task,
               task'[u].pc \in {"fetching", "ordering"}
        PROVE  task'[u] = task[u]
    BY <1>3, <2>3 DEF Spawn
  <2> QED BY <1>4, <2>1, <2>2, <2>3
<1>7. CASE Stop \/ UNCHANGED vars
  BY <1>4, <1>7 DEF Stop, vars
<1>8. ASSUME NEW p \in Pair, CooldownEnds(p) PROVE LimitInv'
  <2>1. UNCHANGED <<cash, positions, openCount, task>>
    BY <1>8 DEF CooldownEnds
  <2>2. /\ cash' >= cash /\ LockedNow' <= LockedNow
        /\ \A r \in Pair : openCount'[r] <= openCount[r]
    BY <1>3, <2>1 DEF LockedNow
  <2>3. FewerOrders /\ CheckedPairs(task') \subseteq CheckedPairs(task)
    BY <2>1 DEF FewerOrders
  <2> QED BY <1>1, <1>2, <2>2, <2>3, OrdersLeft, CountLeft DEF LimitInv
<1>9. ASSUME NEW t \in Task, Cancel(t) PROVE LimitInv'
  <2>1. UNCHANGED bookVars /\ task' = [task EXCEPT ![t] = NoTask]
    BY <1>9 DEF Cancel
  <2> QED BY <1>3, <1>4, <2>1 DEF NoTask
<1>10. ASSUME NEW t \in Task, TaskStep(t) PROVE LimitInv'
  <2>1. t \in Live
    BY <1>10, TaskEffect
  <2>2. CASE Skip(t)
    BY <1>3, <1>4, <2>2 DEF Skip, Finish, NoTask
  <2>3. ASSUME Counts(t), UNCHANGED bookVars, task[t].pc = "ready", NEW held \in Nat,
               task' = [task EXCEPT ![t].pc = "fetching", ![t].held = held]
        PROVE  LimitInv'
    <3>1. FewerOrders
      BY <1>3, <2>3 DEF FewerOrders, TaskState, NoTask
    <3>2. cash' >= cash /\ LockedNow' <= LockedNow /\ UNCHANGED openCount
      BY <1>3, <2>3 DEF bookVars, LockedNow
    <3>3. OrdersFit'
      BY <1>1, <1>2, <3>1, <3>2, OrdersLeft
    <3>4. CountFits'
      <4> DEFINE pc == "fetching"
      <4>1. task' = [task EXCEPT ![t].pc = pc, ![t].held = held]
        BY <2>3
      <4> HIDE DEF pc
      <4> QED BY <1>1, <1>2, <2>1, <2>3, <3>2, <4>1, CountPassed
    <3> QED BY <3>3, <3>4 DEF LimitInv
  <2>4. ASSUME Counts(t), UNCHANGED bookVars, LiveMode, NEW k \in Nat,
               Sizable(task[t].name, k),
               task' = [task EXCEPT ![t].pc = "ordering", ![t].held = k]
        PROVE  LimitInv'
    <3>1. UNCHANGED <<cash, positions, openCount>>
      BY <2>4 DEF bookVars
    <3>2. OrdersFit'
      BY <1>1, <1>2, <2>1, <2>4, <3>1, OrderPlaced
    <3>3. CountFits'
      <4> DEFINE pc == "ordering"
      <4>1. pc # "fetching" /\ task' = [task EXCEPT ![t].pc = pc, ![t].held = k]
        BY <2>4
      <4> HIDE DEF pc
      <4> QED BY <1>1, <1>2, <2>1, <2>4, <3>1, <4>1, CountPassed
    <3> QED BY <3>2, <3>3 DEF LimitInv
  <2>5. ASSUME Counts(t), NEW k \in Nat, Chosen(t, k), Book(t, k)
        PROVE  LimitInv'
    BY <1>1, <1>2, <2>1, <2>5, OrderBooked, CountBooked DEF LimitInv
  <2> QED BY <1>10, <2>2, <2>3, <2>4, <2>5, TaskEffect
<1> QED BY <1>5, <1>6, <1>7, <1>8, <1>9, <1>10 DEF Next, TaskStep

LEMMA LimitsHold == Spec => []LimitInv
BY InitLimits, LimitStep, InvHolds, PTL DEF Spec

\* --max-open-positions is compared before the awaits of tasks that run
\* together: the pairs pass it by less than their number.
OpenOverrun ==
  Pair # {} => OpenPositionCount < MaxOpen + Cardinality(Pair)

\* The account is overdrawn by at most the stakes that were chosen together.
\* (Without any name Credit is below zero, and nothing is ever spent.)
Overdraft == cash >= 0 \/ cash >= -Credit

\* The number of open pair positions never exceeds --max-open-positions by as
\* many as there are pairs.
THEOREM OpenOverrunBounded == Spec => []OpenOverrun
<1>1. Inv /\ LimitInv => OpenOverrun
  <2> SUFFICES ASSUME Inv, LimitInv, Pair # {}
               PROVE  OpenPositionCount < MaxOpen + Cardinality(Pair)
    BY DEF OpenOverrun
  <2>1. OpenPositionCount + Cardinality(CheckedPairs(task)) < MaxOpen + Cardinality(Pair)
    BY DEF LimitInv, CountFits
  <2> QED BY <2>1, CheckedType, CountsType, ConstantsAssumption DEF Inv
<1> QED BY <1>1, InvHolds, LimitsHold, PTL

\* What a task books is funded, and fits under the limit on locked capital.
LEMMA EntryFunded ==
  ASSUME Inv, LimitInv, NEW t \in Live, NEW k \in Nat, Chosen(t, k)
  PROVE  LET n == task[t].name
         IN  /\ k \in Nat \ {0} /\ k <= Stake[n] /\ k <= cash + Credit /\ Credit \in Nat
             /\ LockedNow + k <= MaxLocked + Stake[n] - MaxTrade + Credit
<1> DEFINE n == task[t].name
<1>1. n \in Name /\ t \in Task
  BY LiveTask DEF Inv, Live
<1>2. /\ Stake[n] \in Nat /\ Stake[n] >= MaxTrade /\ MaxTrade \in Nat /\ MaxLocked \in Nat
      /\ Credit \in Nat /\ cash \in Int /\ LockedNow \in Nat
  BY <1>1, StakeType, CreditType, SumsType, InvImpliesTypeOK, ConstantsAssumption DEF Inv, BookInv
<1>3. CASE Sizable(n, k)
  <2>1. k \in Nat \ {0} /\ k <= Stake[n] /\ k <= cash
        /\ LockedNow + k <= MaxLocked + Stake[n] - MaxTrade
    BY <1>3 DEF Sizable
  <2> HIDE DEF n
  <2> QED BY <1>2, <2>1 DEF n
<1>4. CASE task[t].pc = "ordering" /\ k = task[t].held
  <2>1. /\ k \in 1 .. Stake[n]
        /\ Owed <= cash + Credit /\ LockedNow + Owed <= MaxLocked + Credit
    BY <1>1, <1>4 DEF LimitInv, OrdersFit
  <2>2. k <= Owed /\ Owed \in Nat
    <3>1. OwedBy(task) \in [Name -> Nat] /\ OwedBy(task)[n] = k
      BY <1>1, <1>4, OwedNow DEF Inv
    <3>2. IsFiniteSet(Name) /\ IsFiniteSet(Name \ {n})
      BY NamesFinite, FS_Subset
    <3> HIDE DEF n
    <3>3. SumOver(Name, OwedBy(task)) = SumOver(Name \ {n}, OwedBy(task)) + OwedBy(task)[n]
      BY <1>1, <3>1, <3>2, SumWithout
    <3>4. SumOver(Name \ {n}, OwedBy(task)) \in Nat
      BY <3>1, <3>2, SumType
    <3> QED BY <3>1, <3>3, <3>4 DEF Owed
  <2> HIDE DEF n
  <2> QED BY <1>2, <2>1, <2>2 DEF n
<1> QED BY <1>3, <1>4 DEF Chosen

LEMMA OverdraftStep == Inv /\ LimitInv /\ Overdraft /\ [Next]_vars => Overdraft'
<1> SUFFICES ASSUME Inv, LimitInv, Overdraft, [Next]_vars PROVE Overdraft'
  OBVIOUS
<1>1. cash \in Int /\ (cash >= 0 \/ cash >= -Credit) /\ Credit' = Credit
  BY DEF Inv, BookInv, Overdraft, Credit, Stake, SumOver, Cardinality
<1>2. CASE UNCHANGED <<cash, realized, positions, openCount>>
  BY <1>1, <1>2 DEF Overdraft
<1>3. ASSUME NEW Q \in SUBSET positions, NEW value \in [Q -> Nat], Close(Q, value)
      PROVE  Overdraft'
  <2>1. SumOver(Q, value) \in Nat
    BY FS_Subset, SumType DEF Inv, BookInv
  <2>2. Credit \in Int
    <3>1. SumOver(Name, Stake) \in Nat
      BY NamesFinite, StakeType, SumType
    <3> QED BY <3>1, ConstantsAssumption DEF Credit
  <2> QED BY <1>1, <1>3, <2>1, <2>2 DEF Close, Overdraft
<1>4. ASSUME NEW t \in Live, NEW k \in Nat, Chosen(t, k), Book(t, k)
      PROVE  Overdraft'
  <2>1. k <= cash + Credit /\ Credit \in Nat
    BY <1>4, EntryFunded
  <2> QED BY <1>1, <1>4, <2>1 DEF Overdraft, Book, BookPair, BookNLeg
<1> QED BY <1>2, <1>3, <1>4, NextBooks

\* Tasks that wait for their orders together overdraw the account by at most
\* one stake of every name but one; in paper mode they do not.
THEOREM OverdraftBounded == Spec => []Overdraft
<1>1. Init => Overdraft
  BY ConstantsAssumption DEF Init, Overdraft
<1> QED BY <1>1, OverdraftStep, InvHolds, LimitsHold, PTL DEF Spec

-----------------------------------------------------------------------------
(* The refinement: a booking is an entry of the ledger, closing positions  *)
(* a settlement, and no other step touches the account.                    *)

LEMMA LedgerSums ==
  \A Q : Ledger!LockedIn(Q) = LockedIn(Q)
BY DEF Ledger!LockedIn, Ledger!SumOver, Ledger!Cardinality, LockedIn, SumOver, Cardinality

LEMMA LedgerCardinality ==
  \A S : Ledger!Cardinality(S) = Cardinality(S)
BY DEF Ledger!Cardinality, Cardinality

LEMMA LedgerInit == Init => Ledger!Init
BY DEF Init, Ledger!Init

\* The limits of the ledger hold for what a task books.
LEMMA EntryFits ==
  ASSUME Inv, LimitInv, NEW t \in Live, NEW k \in Nat, NameFree(task[t].name),
         Counts(t), Chosen(t, k)
  PROVE  Ledger!Fits(task[t].name, k)
<1> DEFINE n == task[t].name
<1>1. n \in Name /\ (n \in Pair \/ n \in NLeg)
  BY LiveTask DEF Inv
<1>2. /\ k <= Stake[n] /\ k <= cash + Credit
      /\ LockedNow + k <= MaxLocked + Stake[n] - MaxTrade + Credit
  BY EntryFunded
<1>3. n \in (IF AllowMultiple THEN {} ELSE Pair) \cup (IF AllowIncremental THEN {} ELSE NLeg)
        => \A q \in positions : q.name # n
  <2>1. openPairNames = {p \in Pair : OpenOf(p) # {}}
    BY DEF Inv, BookInv, IndexesAgree
  <2>2. openNLegNames = {l \in NLeg : OpenOf(l) # {}}
    BY DEF Inv, BookInv, IndexesAgree
  <2> QED BY <2>1, <2>2, ConstantsAssumption DEF NameFree, OpenOf
<1>4. ASSUME n \in Pair
      PROVE  /\ Cardinality({q \in positions : q.name = n}) < MaxOpenPerPair
             /\ Cardinality({q \in positions : q.name \in Pair})
                  < MaxOpen + Cardinality(Pair) - 1
  <2>1. openCount[n] = Cardinality({q \in positions : q.name = n}) /\ openCount[n] < MaxOpenPerPair
    BY <1>4 DEF NameFree, Inv, BookInv, IndexesAgree, OpenOf
  <2>2. OpenPositionCount < MaxOpen + Cardinality(Pair) - 1
    BY <1>4, CountRoom DEF LimitInv
  <2> QED BY <2>1, <2>2, CountsType DEF Inv
<1>5. [m \in Name |-> MaxLocked + Stake[m] - MaxTrade][n] = MaxLocked + Stake[n] - MaxTrade
  BY <1>1
<1> HIDE DEF n
<1> QED BY <1>2, <1>3, <1>4, <1>5, LedgerSums, LedgerCardinality DEF Ledger!Fits, LockedNow, n

\* A booking is one entry of the ledger.
LEMMA LedgerEntry ==
  ASSUME Inv, LimitInv, NEW t \in Live, NEW k \in Nat, NameFree(task[t].name),
         Counts(t), Chosen(t, k), Book(t, k)
  PROVE  \E s \in Name : Ledger!Enter(s)
<1> DEFINE n == task[t].name
           q == [id |-> nextTradeId, name |-> n, locked |-> k]
<1>1. n \in Name
  BY LiveTask DEF Inv
<1>2. /\ positions' = positions \cup {q} /\ cash' = cash - k
      /\ nextTradeId' = nextTradeId + 1 /\ realized' = realized
  BY DEF Book, BookPair, BookNLeg
<1>3. k \in Nat \ {0} /\ nextTradeId \in Nat
  BY EntryFunded DEF Inv, BookInv
<1>4. q \notin positions
  BY <1>1, <1>2, <1>3, NewPosition DEF Inv
<1>5. q \in positions' \ positions /\ q \in [id : Nat, name : {n}, locked : Nat \ {0}]
  BY <1>2, <1>3, <1>4
<1>6. \A r \in positions : r.id # q.id
  <2>1. \A r \in positions : r.id < nextTradeId /\ r.id \in Nat
    BY DEF Inv, BookInv, FreshIds, Position
  <2> QED BY <1>3, <2>1
<1>7. Ledger!Fits(n, q.locked)
  BY EntryFits
<1>8. positions' = positions \cup {q} /\ cash' = cash - q.locked
  BY <1>2
<1> HIDE DEF q
<1>9. Ledger!Enter(n)
  BY <1>2, <1>5, <1>6, <1>7, <1>8 DEF Ledger!Enter
<1> QED BY <1>1, <1>9

\* Closing positions is one settlement of the ledger.
LEMMA LedgerSettlement ==
  ASSUME Inv, NEW Q \in SUBSET positions, NEW value \in [Q -> Nat], Close(Q, value)
  PROVE  Ledger!Settle(Q)
<1>1. IsFiniteSet(Q)
  BY FS_Subset DEF Inv, BookInv
<1>2. SumOver(Q, value) \in Nat
  BY <1>1, SumType
<1>3. LockedIn(Q) \in Nat /\ Ledger!LockedIn(Q) = LockedIn(Q)
  BY <1>1, LockedType, LedgerSums DEF Inv, BookInv, Position
<1>4. /\ cash' = cash + SumOver(Q, value) /\ positions' = positions \ Q
      /\ realized' = realized + SumOver(Q, value) - LockedIn(Q)
  BY DEF Close
<1>5. cash \in Int /\ realized \in Int
  BY DEF Inv, BookInv
<1>6. cash' >= cash /\ realized' = realized + (cash' - cash) - Ledger!LockedIn(Q)
  BY <1>2, <1>3, <1>4, <1>5
<1> QED BY <1>4, <1>6 DEF Ledger!Settle

\* The interleaved engine is the sequential account: in paper mode one without
\* credit, in live mode one that grants the stakes that wait together.
THEOREM EngineImplementsLedger == Spec => ImplementsLedger
<1>1. Inv /\ LimitInv /\ [Next]_vars => [Ledger!Next]_<<cash, realized, positions>>
  <2> SUFFICES ASSUME Inv, LimitInv, [Next]_vars
               PROVE  [Ledger!Next]_<<cash, realized, positions>>
    OBVIOUS
  <2>1. ASSUME NEW Q \in SUBSET positions, NEW value \in [Q -> Nat], Close(Q, value)
        PROVE  Ledger!Next
    BY <2>1, LedgerSettlement DEF Ledger!Next
  <2>2. ASSUME NEW t \in Live, NEW k \in Nat, NameFree(task[t].name), Counts(t),
               Chosen(t, k), Book(t, k)
        PROVE  Ledger!Next
    BY <2>2, LedgerEntry DEF Ledger!Next
  <2> QED BY <2>1, <2>2, NextBooks
<1> QED BY <1>1, LedgerInit, InvHolds, LimitsHold, PTL DEF Spec, ImplementsLedger, Ledger!Spec
=============================================================================
