--------------------------- MODULE RisklessProofs ---------------------------
(* What holds of the World Cup engine for any lists of markets, asks, caps  *)
(* and number of scans: the caps are never exceeded, and a bundle built    *)
(* from one prop never loses.                                              *)
EXTENDS RisklessBundles, CapitalLemmas

\* What was entered for an event, for a team and for a kind of relation.
ForEvent(e) == {h \in held : EventKey(h[2]) = e}
ForTeam(t) == {h \in held : t \in TeamKeys(h[2])}
ForKind(s) == {h \in held : Subtype(h[2]) = s}

\* The limiter has room for opp.
Room(opp) ==
    /\ byEvent[EventKey(opp)] + opp.capital =< EventCap
    /\ \A t \in TeamKeys(opp) : byTeam[t] + opp.capital =< TeamCap
    /\ byRelation[Subtype(opp)] + opp.capital =< RelationCap
    /\ total + opp.capital =< TotalCap

\* What is held was found by a scan that has begun, and what waits is not held
\* yet: an opportunity is charged once.
ChargedOnce ==
    /\ scans \in Nat
    /\ IsFiniteSet(held)
    /\ \A h \in held : h[1] \in 0 .. scans /\ h[2].capital \in Nat
    /\ \A o \in queue \cup statistical \cup buying :
         o.capital \in Nat /\ <<scans, o>> \notin held
    /\ queue \cap statistical = {}
    /\ (queue \cup statistical) \cap buying = {}

\* The limiter's counters are the capital entered under their keys.
CountersTrue ==
    /\ byEvent = [e \in Events |-> CapitalOf(ForEvent(e))]
    /\ byTeam = [t \in AllTeams |-> CapitalOf(ForTeam(t))]
    /\ byRelation = [s \in Subtypes |-> CapitalOf(ForKind(s))]
    /\ total = CapitalOf(held)

\* The bundle that is awaited was admitted, and nothing is charged meanwhile.
CapsInv == ChargedOnce /\ CountersTrue /\ CapsHold /\ \A o \in buying : Room(o)

-----------------------------------------------------------------------------
(* The capital of one more entry.                                          *)

LEMMA CapitalOfMore ==
  ASSUME NEW S, IsFiniteSet(S), NEW h, h \notin S,
         \A x \in S \cup {h} : x[2].capital \in Nat
  PROVE  CapitalOf(S \cup {h}) = CapitalOf(S) + h[2].capital
<1> DEFINE f == [x \in S \cup {h} |-> x[2].capital]
<1>1. IsFiniteSet({h}) /\ S \cap {h} = {} /\ \A x \in S \cup {h} : f[x] \in Nat
  BY FS_Singleton
<1>2. SumOver(S \cup {h}, f) = SumOver(S, f) + SumOver({h}, f)
  BY <1>1, SumDisjoint
<1>3. SumOver({h}, f) = h[2].capital
  <2>1. f[h] = h[2].capital /\ f[h] \in Nat
    BY <1>1
  <2> HIDE DEF f
  <2> QED BY <2>1, SumOfOne
<1>4. SumOver(S, f) = CapitalOf(S)
  BY SumEqual DEF CapitalOf
<1> QED BY <1>2, <1>3, <1>4 DEF CapitalOf

LEMMA CapitalOfNone == CapitalOf({}) = 0
  BY SumOfNone DEF CapitalOf

\* Charging an opportunity for which there is room keeps the counters true and
\* within the caps.
LEMMA CommitKeepsCaps ==
  ASSUME ChargedOnce, CountersTrue, CapsHold, NEW opp, opp.capital \in Nat,
         <<scans, opp>> \notin held, Room(opp), Commit(opp)
  PROVE  CountersTrue' /\ CapsHold'
<1> DEFINE entry == <<scans, opp>>
<1>1. /\ held' = held \cup {entry} /\ entry \notin held /\ entry[2] = opp
      /\ IsFiniteSet(held) /\ \A h \in held \cup {entry} : h[2].capital \in Nat
  BY DEF Commit, ChargedOnce
<1> HIDE DEF entry
<1>2. ASSUME NEW S \in SUBSET held
      PROVE  CapitalOf(S \cup {entry}) = CapitalOf(S) + opp.capital
  <2>1. IsFiniteSet(S) /\ entry \notin S
    BY <1>1, FS_Subset
  <2> QED BY <1>1, <2>1, CapitalOfMore
<1>3. ASSUME NEW e \in Events
      PROVE  byEvent'[e] = CapitalOf(ForEvent(e)') /\ CapitalOf(ForEvent(e)') =< EventCap
  <2>0. byEvent[e] = CapitalOf(ForEvent(e)) /\ CapitalOf(ForEvent(e)) =< EventCap
    BY <1>3 DEF CountersTrue, CapsHold, ForEvent
  <2>1. CASE EventKey(opp) = e
    <3>1. ForEvent(e)' = ForEvent(e) \cup {entry}
      BY <1>1, <2>1 DEF ForEvent
    <3>2. CapitalOf(ForEvent(e)') = byEvent[e] + opp.capital
      BY <1>2, <2>0, <3>1 DEF ForEvent
    <3>3. byEvent'[e] = byEvent[e] + opp.capital
      BY <1>3, <2>1 DEF Commit, CountersTrue
    <3> QED BY <2>1, <3>2, <3>3 DEF Room
  <2>2. CASE EventKey(opp) # e
    <3>1. ForEvent(e)' = ForEvent(e)
      BY <1>1, <2>2 DEF ForEvent
    <3>2. byEvent'[e] = byEvent[e]
      BY <1>3, <2>2 DEF Commit, CountersTrue
    <3> QED BY <2>0, <3>1, <3>2
  <2> QED BY <2>1, <2>2
<1>4. ASSUME NEW t \in AllTeams
      PROVE  byTeam'[t] = CapitalOf(ForTeam(t)') /\ CapitalOf(ForTeam(t)') =< TeamCap
  <2>0. byTeam[t] = CapitalOf(ForTeam(t)) /\ CapitalOf(ForTeam(t)) =< TeamCap
    BY <1>4 DEF CountersTrue, CapsHold, ForTeam
  <2>1. CASE t \in TeamKeys(opp)
    <3>1. ForTeam(t)' = ForTeam(t) \cup {entry}
      BY <1>1, <2>1 DEF ForTeam
    <3>2. CapitalOf(ForTeam(t)') = byTeam[t] + opp.capital
      BY <1>2, <2>0, <3>1 DEF ForTeam
    <3>3. byTeam'[t] = byTeam[t] + opp.capital
      BY <1>4, <2>1 DEF Commit, CountersTrue
    <3> QED BY <2>1, <3>2, <3>3 DEF Room
  <2>2. CASE t \notin TeamKeys(opp)
    <3>1. ForTeam(t)' = ForTeam(t)
      BY <1>1, <2>2 DEF ForTeam
    <3>2. byTeam'[t] = byTeam[t]
      BY <1>4, <2>2 DEF Commit, CountersTrue
    <3> QED BY <2>0, <3>1, <3>2
  <2> QED BY <2>1, <2>2
<1>5. ASSUME NEW s \in Subtypes
      PROVE  byRelation'[s] = CapitalOf(ForKind(s)') /\ CapitalOf(ForKind(s)') =< RelationCap
  <2>0. byRelation[s] = CapitalOf(ForKind(s)) /\ CapitalOf(ForKind(s)) =< RelationCap
    BY <1>5 DEF CountersTrue, CapsHold, ForKind
  <2>1. CASE Subtype(opp) = s
    <3>1. ForKind(s)' = ForKind(s) \cup {entry}
      BY <1>1, <2>1 DEF ForKind
    <3>2. CapitalOf(ForKind(s)') = byRelation[s] + opp.capital
      BY <1>2, <2>0, <3>1 DEF ForKind
    <3>3. byRelation'[s] = byRelation[s] + opp.capital
      BY <1>5, <2>1 DEF Commit, CountersTrue
    <3> QED BY <2>1, <3>2, <3>3 DEF Room
  <2>2. CASE Subtype(opp) # s
    <3>1. ForKind(s)' = ForKind(s)
      BY <1>1, <2>2 DEF ForKind
    <3>2. byRelation'[s] = byRelation[s]
      BY <1>5, <2>2 DEF Commit, CountersTrue
    <3> QED BY <2>0, <3>1, <3>2
  <2> QED BY <2>1, <2>2
<1>6. total' = CapitalOf(held') /\ CapitalOf(held') =< TotalCap
  <2>1. CapitalOf(held') = total + opp.capital
    BY <1>1, <1>2 DEF CountersTrue
  <2> QED BY <2>1 DEF Commit, Room
<1>7. /\ byEvent' = [e \in Events |-> byEvent'[e]]
      /\ byTeam' = [t \in AllTeams |-> byTeam'[t]]
      /\ byRelation' = [s \in Subtypes |-> byRelation'[s]]
  BY DEF CountersTrue, Commit
<1>8. CountersTrue'
  BY <1>3, <1>4, <1>5, <1>6, <1>7 DEF CountersTrue
<1>9. CapsHold'
  BY <1>3, <1>4, <1>5, <1>6 DEF CapsHold, ForEvent, ForTeam, ForKind
<1> QED BY <1>8, <1>9

-----------------------------------------------------------------------------
(* What a scan finds.                                                      *)

\* The largest of finitely many sizes is one of them.
LEMMA MaxIsOne ==
  ASSUME NEW n \in Nat, NEW S \in SUBSET (1 .. n), S # {}
  PROVE  Max(S) \in S
<1>1. IsFiniteSet(S) /\ S \in SUBSET Int
  <2>1. IsFiniteSet(1 .. n)
    BY FS_Interval
  <2>2. IsFiniteSet(S)
    BY <2>1, FS_Subset
  <2> QED BY <2>2
<1>2. \E x \in S : \A y \in S : x >= y
  BY <1>1, LargestExists
<1> QED BY <1>2 DEF Max

\* What an opportunity costs is a natural.
LEMMA FoundCapital ==
  ASSUME NEW relations, NEW ask, NEW o \in Evaluate(relations, ask)
  PROVE  o.capital \in Nat
<1>1. PICK r \in relations : /\ o.capital = Max(Sizes(r, ask)) * UnitCost(r, ask)
                            /\ Sizes(r, ask) # {}
  BY DEF Evaluate, Opportunity
<1>2. Sizes(r, ask) \in SUBSET (1 .. Depth) /\ Depth \in Nat
  BY WorldCupAssumption DEF Sizes, WorldCupAssumption
<1>3. Max(Sizes(r, ask)) \in Sizes(r, ask)
  BY <1>1, <1>2, MaxIsOne
<1> DEFINE most == Min({MaxTrade, TotalCap})
<1>4. Max(Sizes(r, ask)) * UnitCost(r, ask) \in MinTrade .. most
  BY <1>3 DEF Sizes
<1> HIDE DEF most
<1> QED BY <1>1, <1>4, WorldCupAssumption DEF WorldCupAssumption

\* The smaller of two naturals is a natural.
LEMMA MinOfTwo ==
  ASSUME NEW i \in Nat, NEW j \in Nat
  PROVE  Min({i, j}) \in Nat
<1>1. \E x \in {i, j} : \A y \in {i, j} : x =< y
  OBVIOUS
<1> QED BY <1>1 DEF Min

\* So is what a near-arb costs, and its cost per share is bounded.
LEMMA NearCapital ==
  ASSUME NEW relations, NEW ask, NEW o \in NearArbs(relations, ask)
  PROVE  /\ o.capital \in Nat /\ o.kind = "statistical"
         /\ o.relation \in relations /\ o.cost \in Nat /\ o.cost =< Near
<1>1. PICK r \in relations :
        /\ o = Opportunity(r, ask, Min({Depth, MaxTrade \div UnitCost(r, ask)}),
                            One - UnitCost(r, ask), "statistical")
        /\ UnitCost(r, ask) \in 1 .. Near
  BY DEF NearArbs
<1> DEFINE size == Min({Depth, MaxTrade \div UnitCost(r, ask)})
<1>2. /\ o.relation = r /\ o.kind = "statistical" /\ o.cost = UnitCost(r, ask)
      /\ o.capital = size * UnitCost(r, ask)
  BY <1>1 DEF Opportunity
<1>3. Depth \in Nat /\ MaxTrade \div UnitCost(r, ask) \in Nat
  BY <1>1, WorldCupAssumption DEF WorldCupAssumption
<1>4. size \in Nat
  BY <1>3, MinOfTwo
<1> HIDE DEF size
<1> QED BY <1>1, <1>2, <1>4, WorldCupAssumption DEF WorldCupAssumption

\* What a scan queues: some of the validated opportunities, and apart from them
\* others and near-arbs.
Found(list, ask) ==
    /\ queue' \subseteq Evaluate(Relations(list), ask)
    /\ \A o \in queue' : o.kind = "deterministic"
    /\ statistical' \subseteq (Evaluate(Relations(list), ask) \ queue')
                              \cup NearArbs(Relations(list), ask)

LEMMA ScanFinds ==
  ASSUME Scan
  PROVE  /\ \E list \in Games : \E ask \in [Tokens(Relations(list)) -> Price] : Found(list, ask)
         /\ \A o \in queue' \cup statistical' : o.capital \in Nat
         /\ queue' \cap statistical' = {}
<1>1. PICK list \in Games : \E ask \in [Tokens(Relations(list)) -> Price] : Found(list, ask)
  BY DEF Scan, Found
<1>2. PICK ask \in [Tokens(Relations(list)) -> Price] : Found(list, ask)
  BY <1>1
<1>3. \A o \in queue' \cup statistical' : o.capital \in Nat
  BY <1>2, FoundCapital, NearCapital DEF Found
<1>4. queue' \cap statistical' = {}
  BY <1>2, NearCapital DEF Found
<1> QED BY <1>2, <1>3, <1>4

-----------------------------------------------------------------------------
(* The caps.                                                               *)

LEMMA CapsAtInit == Init => CapsInv
<1> SUFFICES ASSUME Init PROVE CapsInv
  OBVIOUS
<1>1. ChargedOnce
  BY FS_EmptySet DEF Init, ChargedOnce
<1>2. /\ \A e : ForEvent(e) = {} /\ ForTeam(e) = {} /\ ForKind(e) = {}
  BY DEF Init, ForEvent, ForTeam, ForKind
<1>3. CountersTrue
  BY <1>2, CapitalOfNone DEF Init, CountersTrue
<1>4. CapsHold
  <2>1. \A cap \in {EventCap, TeamCap, RelationCap, TotalCap} : 0 =< cap
    BY WorldCupAssumption DEF WorldCupAssumption
  <2> QED BY <1>2, <2>1, CapitalOfNone DEF Init, CapsHold, ForEvent, ForTeam, ForKind
<1> QED BY <1>1, <1>3, <1>4 DEF CapsInv, Init

\* Nothing about the counters changes when nothing is charged.
LEMMA NothingCharged ==
  ASSUME CountersTrue, CapsHold, UNCHANGED <<limiter, held>>
  PROVE  CountersTrue' /\ CapsHold' /\ \A o : Room(o)' <=> Room(o)
BY DEF CountersTrue, CapsHold, ForEvent, ForTeam, ForKind, Room, limiter

LEMMA CapsStep == CapsInv /\ [Next]_vars => CapsInv'
<1> SUFFICES ASSUME CapsInv, [Next]_vars PROVE CapsInv'
  OBVIOUS
<1> USE DEF CapsInv
<1>1. CASE Scan
  <2>1. UNCHANGED <<buying, limiter, held>> /\ buying = {} /\ scans' = scans + 1
    BY <1>1 DEF Scan
  <2>2. /\ \A o \in queue' \cup statistical' : o.capital \in Nat
        /\ queue' \cap statistical' = {}
    BY <1>1, ScanFinds
  <2>3. ChargedOnce'
    <3>1. \A o : <<scans', o>> \notin held
      BY <2>1 DEF ChargedOnce
    <3> QED BY <2>1, <2>2, <3>1 DEF ChargedOnce
  <2> QED BY <2>1, <2>3, NothingCharged
<1>2. ASSUME NEW opp \in queue \cup statistical, Execute(opp) PROVE CapsInv'
  <2>1. /\ buying = {} /\ UNCHANGED scans
        /\ queue' \subseteq queue /\ statistical' \subseteq statistical
        /\ opp \notin queue' \cup statistical'
    BY <1>2 DEF Execute, Takes, ChargedOnce
  <2>2. opp.capital \in Nat /\ <<scans, opp>> \notin held
    BY DEF ChargedOnce
  <2>3. CASE UNCHANGED <<buying, limiter, held>>
    <3>1. ChargedOnce'
      BY <2>1, <2>3 DEF ChargedOnce
    <3> QED BY <2>1, <2>3, <3>1, NothingCharged
  <2>4. CASE CanEnter(opp) /\ Commit(opp) /\ UNCHANGED buying
    <3>1. Room(opp)
      BY <2>4 DEF CanEnter, Room
    <3>2. CountersTrue' /\ CapsHold'
      BY <2>2, <2>4, <3>1, CommitKeepsCaps
    <3>3. ChargedOnce'
      <4>1. held' = held \cup {<<scans, opp>>}
        BY <2>4 DEF Commit
      <4>2. IsFiniteSet(held')
        BY <4>1, FS_AddElement DEF ChargedOnce
      <4>3. \A h \in held' : h[1] \in 0 .. scans /\ h[2].capital \in Nat
        BY <2>2, <4>1 DEF ChargedOnce
      <4>4. \A o \in queue' \cup statistical' : o.capital \in Nat /\ <<scans, o>> \notin held'
        BY <2>1, <4>1 DEF ChargedOnce
      <4> QED BY <2>1, <2>4, <4>2, <4>3, <4>4 DEF ChargedOnce
    <3> QED BY <2>1, <2>4, <3>2, <3>3
  <2>5. CASE CanEnter(opp) /\ buying' = {opp} /\ UNCHANGED <<limiter, held>>
    <3>1. ChargedOnce'
      BY <2>1, <2>2, <2>5 DEF ChargedOnce
    <3>2. Room(opp)
      BY <2>5 DEF CanEnter, Room
    <3> QED BY <2>5, <3>1, <3>2, NothingCharged
  <2> QED BY <1>2, <2>3, <2>4, <2>5 DEF Execute
<1>3. ASSUME NEW opp \in buying, BundleFilled(opp) PROVE CapsInv'
  <2>1. buying' = {} /\ UNCHANGED <<scans, queue, statistical>> /\ held' = held \cup {<<scans, opp>>}
    BY <1>3 DEF BundleFilled, Commit
  <2>2. opp.capital \in Nat /\ <<scans, opp>> \notin held /\ Room(opp) /\ Commit(opp)
    BY <1>3 DEF ChargedOnce, BundleFilled
  <2>3. CountersTrue' /\ CapsHold'
    BY <2>2, CommitKeepsCaps
  <2>4. IsFiniteSet(held')
    BY <2>1, FS_AddElement DEF ChargedOnce
  <2>5. \A h \in held' : h[1] \in 0 .. scans /\ h[2].capital \in Nat
    BY <2>1, <2>2 DEF ChargedOnce
  <2>6. \A o \in queue \cup statistical : o.capital \in Nat /\ <<scans, o>> \notin held'
    BY <2>1 DEF ChargedOnce
  <2>7. ChargedOnce'
    BY <2>1, <2>4, <2>5, <2>6 DEF ChargedOnce
  <2> QED BY <2>1, <2>3, <2>7
<1>4. ASSUME NEW opp \in buying, BundleRejected(opp) PROVE CapsInv'
  <2>1. buying' = {} /\ UNCHANGED <<scans, queue, statistical, limiter, held>>
    BY <1>4 DEF BundleRejected
  <2>2. ChargedOnce'
    BY <2>1 DEF ChargedOnce
  <2> QED BY <2>1, <2>2, NothingCharged
<1>5. CASE UNCHANGED <<scans, queue, statistical, buying, limiter, held>>
  <2>1. ChargedOnce'
    BY <1>5 DEF ChargedOnce
  <2> QED BY <1>5, <2>1, NothingCharged
<1>6. KillSwitch \/ UNCHANGED vars => UNCHANGED <<scans, queue, statistical, buying, limiter, held>>
  BY DEF KillSwitch, vars
<1> QED BY <1>1, <1>2, <1>3, <1>4, <1>5, <1>6 DEF Next

\* However many scans find the same edge again, in whichever mode and whatever
\* the live trader answers, no exposure cap is exceeded (ExposureLimiter).
THEOREM ExposureCapped == Spec => []CapsHold
<1>1. CapsInv => CapsHold
  BY DEF CapsInv
<1> QED BY <1>1, CapsAtInit, CapsStep, PTL DEF Spec

-----------------------------------------------------------------------------
(* What the bundles pay.                                                   *)

\* In every outcome some leg of the bundle wins.
SomeLegWins(legs) ==
    \A o \in Outcome : \E l \in legs : Holds(l.market, o) <=> l.side = "YES"

LEMMA PairIsFinite == ASSUME NEW x, NEW y PROVE IsFiniteSet({x, y})
<1>1. IsFiniteSet({x}) /\ {x, y} = {x} \cup {y}
  BY FS_Singleton
<1> QED BY <1>1, FS_AddElement

LEMMA GoalsAreCounted ==
  ASSUME NEW m, NEW o \in Outcome
  PROVE  /\ Goals(m, o, 1) \in Nat /\ Goals(m, o, 2) \in Nat
         /\ Count(m, o) \in Int /\ Margin(m, o) \in Int
<1>1. \A g \in 0 .. MaxGoals : g \in Nat
  BY WorldCupAssumption DEF WorldCupAssumption
<1>2. Goals(m, o, 1) \in Nat /\ Goals(m, o, 2) \in Nat
  BY <1>1 DEF Outcome, Goals
<1> QED BY <1>2 DEF Count, Margin

\* Two markets of one prop count the same goals.
LEMMA SameGoals ==
  ASSUME NEW m, NEW n, NEW o, m.event = n.event, m.team = n.team
  PROVE  Count(m, o) = Count(n, o) /\ Margin(m, o) = Margin(n, o)
BY DEF Count, Margin, Goals, Home, Away

\* A leg on a rung and one against a harder rung of its ladder: the harder
\* implies the easier, so one of them wins.
LEMMA RungsPay ==
  ASSUME NEW ms, \A m \in ms : Question(m), NEW says, NEW p \in Rungs(ms, says)
  PROVE  /\ says \in {"over", "plus", "covers"} =>
              SomeLegWins({Leg(p[1], "YES"), Leg(p[2], "NO")})
         /\ says = "under" => SomeLegWins({Leg(p[2], "YES"), Leg(p[1], "NO")})
<1> DEFINE a == p[1]
           b == p[2]
<1>1. /\ a \in ms /\ b \in ms /\ a.says = says /\ b.says = says
      /\ a.event = b.event /\ a.team = b.team /\ a.number < b.number
  BY DEF Rungs, SameProp
<1>2. says \in {"over", "plus", "covers", "under"} => a.number \in Int /\ b.number \in Int
  BY <1>1 DEF Question
<1>3. \A side : Leg(a, side).market = a /\ Leg(a, side).side = side
  BY DEF Leg
<1>4. \A side : Leg(b, side).market = b /\ Leg(b, side).side = side
  BY DEF Leg
<1> HIDE DEF a, b
<1>5. ASSUME says \in {"over", "plus", "covers"}, NEW o \in Outcome
      PROVE  Holds(a, o) \/ ~ Holds(b, o)
  <2>1. Count(a, o) = Count(b, o) /\ Margin(a, o) = Margin(b, o)
    BY <1>1, SameGoals
  <2>2. Count(a, o) \in Int /\ Margin(a, o) \in Int
    BY GoalsAreCounted
  <2> QED BY <1>1, <1>2, <1>5, <2>1, <2>2 DEF Holds
<1>6. ASSUME says = "under", NEW o \in Outcome
      PROVE  Holds(b, o) \/ ~ Holds(a, o)
  <2>1. Count(a, o) = Count(b, o)
    BY <1>1, SameGoals
  <2>2. Count(a, o) \in Int
    BY GoalsAreCounted
  <2> QED BY <1>1, <1>2, <1>6, <2>1, <2>2 DEF Holds
<1>7. says \in {"over", "plus", "covers"} => SomeLegWins({Leg(a, "YES"), Leg(b, "NO")})
  BY <1>3, <1>4, <1>5 DEF SomeLegWins
<1>8. says = "under" => SomeLegWins({Leg(b, "YES"), Leg(a, "NO")})
  BY <1>3, <1>4, <1>6 DEF SomeLegWins
<1> QED BY <1>7, <1>8 DEF a, b

\* Every relation of a ladder is one leg on a rung and one against another.
LEMMA LaddersPay ==
  ASSUME NEW ms, \A m \in ms : Question(m), NEW r \in Ladders(ms)
  PROVE  IsFiniteSet(r.legs) /\ SomeLegWins(r.legs)
<1>2. ASSUME NEW says \in {"over", "plus", "covers"}, NEW p \in Rungs(ms, says), NEW subtype,
             r = Subset(p[1], "YES", p[2], subtype)
      PROVE  IsFiniteSet(r.legs) /\ SomeLegWins(r.legs)
  <2>1. r.legs = {Leg(p[1], "YES"), Leg(p[2], "NO")}
    BY <1>2 DEF Subset
  <2>2. SomeLegWins({Leg(p[1], "YES"), Leg(p[2], "NO")})
    BY RungsPay
  <2> QED BY <2>1, <2>2, PairIsFinite
<1>3. ASSUME NEW p \in Rungs(ms, "under"), NEW subtype,
             r = Subset(p[2], "YES", p[1], subtype)
      PROVE  IsFiniteSet(r.legs) /\ SomeLegWins(r.legs)
  <2>1. r.legs = {Leg(p[2], "YES"), Leg(p[1], "NO")}
    BY <1>3 DEF Subset
  <2>2. SomeLegWins({Leg(p[2], "YES"), Leg(p[1], "NO")})
    BY RungsPay
  <2> QED BY <2>1, <2>2, PairIsFinite
<1> QED BY <1>2, <1>3 DEF Ladders

\* Over and Under at one line are opposites.
LEMMA OverUnderPays ==
  ASSUME NEW ms, \A m \in ms : Question(m), NEW r \in OverUnderComplement(ms)
  PROVE  IsFiniteSet(r.legs) /\ SomeLegWins(r.legs)
<1>1. PICK p \in ms \X ms :
        /\ p[1].says = "over" /\ p[2].says = "under"
        /\ p[1].event = p[2].event /\ p[1].team = p[2].team /\ p[1].number = p[2].number
        /\ r \in Basket("complement", "ou_complement", {Leg(p[1], "YES"), Leg(p[2], "YES")}, TRUE)
  BY DEF OverUnderComplement
<1>2. r.legs = {Leg(p[1], "YES"), Leg(p[2], "YES")}
  BY <1>1 DEF Basket
<1>3. IsFiniteSet(r.legs)
  <2>1. IsFiniteSet({Leg(p[1], "YES"), Leg(p[2], "YES")})
    BY PairIsFinite
  <2> QED BY <1>2, <2>1
<1>4. ASSUME NEW o \in Outcome PROVE Holds(p[1], o) \/ Holds(p[2], o)
  <2>1. Count(p[1], o) = Count(p[2], o) /\ Count(p[1], o) \in Int
    BY <1>1, SameGoals, GoalsAreCounted
  <2>2. p[1].number \in Int
    BY <1>1 DEF Question
  <2> QED BY <1>1, <2>1, <2>2 DEF Holds
<1>5. /\ Leg(p[1], "YES").market = p[1] /\ Leg(p[1], "YES").side = "YES"
      /\ Leg(p[2], "YES").market = p[2] /\ Leg(p[2], "YES").side = "YES"
  BY DEF Leg
<1> QED BY <1>2, <1>3, <1>4, <1>5 DEF SomeLegWins

LEMMA RemoveOne ==
  ASSUME NEW S, IsFiniteSet(S), NEW x \in S
  PROVE  IsFiniteSet(S \ {x}) /\ Cardinality(S \ {x}) = Cardinality(S) - 1
BY FS_RemoveElement

\* Of the three winner markets of an event, one of them the draw, one wins.
LEMMA MoneylinePays ==
  ASSUME NEW ms, IsFiniteSet(ms), \A m \in ms : Question(m),
         NEW r \in MoneylineComplement(ms), r.safety = "clean"
  PROVE  IsFiniteSet(r.legs) /\ SomeLegWins(r.legs)
<1>1. PICK e \in Events :
        LET ml == {m \in ms : m.event = e /\ Kind(m) \in {"moneyline_team", "moneyline_draw"}}
        IN r \in Basket("complement", "moneyline_3way", {Leg(m, "YES") : m \in ml},
                        Cardinality(ml) = 3 /\ \E m \in ml : m.says = "draw")
  BY DEF MoneylineComplement
<1> DEFINE ml == {m \in ms : m.event = e /\ Kind(m) \in {"moneyline_team", "moneyline_draw"}}
<1>2. /\ r.legs = {Leg(m, "YES") : m \in ml}
      /\ Cardinality(ml) = 3 /\ \E m \in ml : m.says = "draw"
  BY <1>1 DEF Basket
<1>3. \A m \in ml : m.event = e /\ m.says \in {"win", "draw"} /\ Question(m)
  BY DEF Question, Kind
<1>4. IsFiniteSet(ml)
  BY FS_Subset
<1>5. IsFiniteSet(r.legs)
  <2> DEFINE leg == [m \in ml |-> Leg(m, "YES")]
  <2>1. leg \in Surjection(ml, r.legs)
    BY <1>2 DEF Surjection
  <2> HIDE DEF ml, leg
  <2> QED BY <1>4, <2>1, FS_Surjection
<1> HIDE DEF ml
<1>6. PICK draw \in ml : draw.says = "draw"
  BY <1>2
<1>7. PICK a \in ml \ {draw} : TRUE
  <2>1. Cardinality(ml \ {draw}) = 2
    BY <1>2, <1>4, <1>6, RemoveOne
  <2> QED BY <2>1, FS_EmptySet
<1>8. PICK b \in ml \ {draw} : b # a
  <2>1. IsFiniteSet(ml \ {draw}) /\ Cardinality(ml \ {draw}) = 2
    BY <1>2, <1>4, <1>6, RemoveOne
  <2>2. Cardinality((ml \ {draw}) \ {a}) = 1
    BY <1>7, <2>1, RemoveOne
  <2> QED BY <2>2, FS_EmptySet
<1>9. a.says = "win" /\ b.says = "win"
  BY <1>3, <1>6 DEF Question
<1>10. a.team # b.team
  BY <1>3, <1>8, <1>9 DEF Question
<1>11. /\ Home(a) = Home(b) /\ Away(a) = Away(b) /\ Home(a) # Away(a)
       /\ {a.team, b.team} = {Home(a), Away(a)}
  BY <1>3, <1>9, <1>10 DEF Question, Home, Away
<1>12. ASSUME NEW o \in Outcome PROVE Holds(draw, o) \/ Holds(a, o) \/ Holds(b, o)
  <2>1. /\ Goals(a, o, 1) \in Nat /\ Goals(a, o, 2) \in Nat
        /\ \A side : Goals(a, o, side) = Goals(b, o, side) /\ Goals(a, o, side) = Goals(draw, o, side)
    BY <1>3, GoalsAreCounted DEF Goals
  <2>2. \/ Margin(a, o) = Goals(a, o, 1) - Goals(a, o, 2) /\ Margin(b, o) = Goals(a, o, 2) - Goals(a, o, 1)
        \/ Margin(b, o) = Goals(a, o, 1) - Goals(a, o, 2) /\ Margin(a, o) = Goals(a, o, 2) - Goals(a, o, 1)
    BY <1>11, <2>1 DEF Margin
  <2> QED BY <1>6, <1>9, <2>1, <2>2 DEF Holds
<1>13. \A m : Leg(m, "YES").market = m /\ Leg(m, "YES").side = "YES"
  BY DEF Leg
<1>14. {Leg(draw, "YES"), Leg(a, "YES"), Leg(b, "YES")} \subseteq r.legs
  BY <1>2, <1>6, <1>7, <1>8
<1> QED BY <1>5, <1>12, <1>13, <1>14 DEF SomeLegWins

\* The markets of a list are finitely many.
LEMMA ListIsFinite ==
  ASSUME NEW list, list \in Seq(ToSet(list))
  PROVE  IsFiniteSet(ToSet(list))
<1>1. DOMAIN list = 1 .. Len(list) /\ Len(list) \in Nat
  OBVIOUS
<1>2. IsFiniteSet(DOMAIN list)
  BY <1>1, FS_Interval
<1>3. list \in Surjection(DOMAIN list, ToSet(list))
  BY DEF Surjection, ToSet
<1> QED BY <1>2, <1>3, FS_Surjection

\* The clean relations of one prop are bundles of which some leg always wins.
LEMMA PropsPay ==
  ASSUME NEW list \in Games, NEW r \in Relations(list), r.safety = "clean", r.subtype \in OneProp
  PROVE  IsFiniteSet(r.legs) /\ SomeLegWins(r.legs)
<1>1. PICK g : r \in InferForGame(list, g)
  BY DEF Relations
<1> DEFINE ms == {m \in ToSet(list) : GameOf[m.event] = g}
           own == SelectSeq(list, LAMBDA m : GameOf[m.event] = g)
<1>2. IsFiniteSet(ms) /\ \A m \in ms : Question(m)
  <2>1. IsFiniteSet(ToSet(list))
    BY QuestionsAssumption, ListIsFinite DEF QuestionsAssumption
  <2> QED BY <2>1, FS_Subset, QuestionsAssumption DEF QuestionsAssumption
<1>3. \/ r \in MoneylineComplement(ms) \/ r \in Ladders(ms) \/ r \in OverUnderComplement(ms)
      \/ r \in QuantityVsThreshold(ms) \/ r \in ExactScoreSubsets(own)
  BY <1>1 DEF InferForGame
<1> HIDE DEF ms, own
<1>4. ASSUME r \in QuantityVsThreshold(ms) PROVE FALSE
  <2>1. PICK legs, clean : r \in Basket("quantity", "goals_quantity_vs_threshold", legs, clean)
    <3> DEFINE bins == {m \in ms : Kind(m) = "quantity_bin"}
               counts == {m.number : m \in bins}
               overs == {m \in ms : Kind(m) = "total" /\ m.says = "over"}
               high(over) == {b \in bins : b.number > over.number}
               contiguous == /\ Cardinality(counts) = Cardinality(bins)
                             /\ counts = Min(counts) .. Max(counts)
               legs(over) == {Leg(over, "NO")} \cup {Leg(b, "YES") : b \in high(over)}
               found(over) == Basket("quantity", "goals_quantity_vs_threshold", legs(over), contiguous)
    <3>1. QuantityVsThreshold(ms) =
            IF Cardinality(bins) < 2 THEN {} ELSE UNION {found(over) : over \in {o \in overs : high(o) # {}}}
      BY Zenon DEF QuantityVsThreshold
    <3> HIDE DEF bins, overs, high, contiguous, legs
    <3>2. PICK over : r \in found(over)
      BY <1>4, <3>1
    <3> QED BY <3>2
  <2>2. r.subtype = "goals_quantity_vs_threshold"
    BY <2>1 DEF Basket
  <2> QED BY <2>2 DEF OneProp
<1>5. ASSUME r \in ExactScoreSubsets(own) PROVE FALSE
  <2>1. \E parent, side, child :
          \/ r = Subset(parent, side, child, "exact_score_implies_over")
          \/ r = Subset(parent, side, child, "exact_score_implies_under")
          \/ r = Subset(parent, side, child, "exact_score_implies_btts_yes")
          \/ r = Subset(parent, side, child, "exact_score_implies_btts_no")
    <3> DEFINE exacts == {m \in ToSet(own) : Kind(m) = "exact_score"}
               sum(ex) == ex.number[1] + ex.number[2]
               over(ex) == FirstLine(own, "over", LAMBDA n : n < sum(ex))
               under(ex) == FirstLine(own, "under", LAMBDA n : n >= sum(ex))
               btts == SelectSeq(own, LAMBDA m : Kind(m) = "btts")
               bothScored(ex) == ex.number[1] > 0 /\ ex.number[2] > 0
               scores(ex) ==
                 IF btts = <<>> THEN {}
                 ELSE IF bothScored(ex)
                      THEN {Subset(Head(btts), "YES", ex, "exact_score_implies_btts_yes")}
                      ELSE {Subset(Head(btts), "NO", ex, "exact_score_implies_btts_no")}
               found(ex) ==
                 {Subset(m, "YES", ex, "exact_score_implies_over") : m \in over(ex)}
                 \cup {Subset(m, "YES", ex, "exact_score_implies_under") : m \in under(ex)}
                 \cup scores(ex)
    <3>1. ExactScoreSubsets(own) = UNION {found(ex) : ex \in exacts}
      BY Zenon DEF ExactScoreSubsets
    <3> HIDE DEF exacts, over, under, btts, bothScored
    <3>2. PICK ex \in exacts : r \in found(ex)
      BY <1>5, <3>1
    <3> QED BY <3>2
  <2>2. r.subtype \in {"exact_score_implies_over", "exact_score_implies_under",
                       "exact_score_implies_btts_yes", "exact_score_implies_btts_no"}
    BY <2>1 DEF Subset
  <2> QED BY <2>2 DEF OneProp
<1> QED BY <1>2, <1>3, <1>4, <1>5, MoneylinePays, LaddersPay, OverUnderPays

\* A bundle of which a leg wins pays at least one.
LEMMA PaysOne ==
  ASSUME NEW legs, IsFiniteSet(legs), SomeLegWins(legs), NEW o \in Outcome
  PROVE  Pays(legs, o) \in Int /\ Pays(legs, o) >= One
<1> DEFINE won == {l \in legs : Holds(l.market, o) <=> l.side = "YES"}
<1>1. IsFiniteSet(won)
  BY FS_Subset
<1>2. PICK l \in legs : Holds(l.market, o) <=> l.side = "YES"
  BY DEF SomeLegWins
<1>3. won # {}
  BY <1>2
<1>4. Pays(legs, o) = One * Cardinality(won)
  BY DEF Pays
<1> HIDE DEF won
<1>5. Cardinality(won) \in Nat /\ Cardinality(won) # 0
  BY <1>1, <1>3, FS_CardinalityType, FS_EmptySet
<1>6. One \in Nat
  BY WorldCupAssumption DEF WorldCupAssumption
<1>7. \A k \in Nat : k # 0 => One * k \in Int /\ One * k >= One
  BY <1>6
<1> QED BY <1>4, <1>5, <1>7

\* The validator lets a relation through whose cost is below one.
LEMMA ValidatedCost ==
  ASSUME NEW relations, NEW r \in relations, IsFiniteSet(r.legs),
         NEW ask \in [Tokens(relations) -> Price], Validated(r, ask)
  PROVE  UnitCost(r, ask) \in Int /\ UnitCost(r, ask) < One
<1>1. One \in Nat /\ Buffer \in Nat /\ Price \subseteq Nat
  BY WorldCupAssumption DEF WorldCupAssumption
<1>2. \A l \in r.legs : ask[l] \in Nat
  BY <1>1 DEF Tokens
<1>3. UnitCost(r, ask) \in Nat
  BY <1>2, SumType DEF UnitCost
<1>4. Min(BelievedPayouts(r)) = One
  <2>1. One \in BelievedPayouts(r) /\ \A x \in BelievedPayouts(r) : One =< x /\ x \in Int
    BY <1>1 DEF BelievedPayouts
  <2>2. \E x \in BelievedPayouts(r) : \A y \in BelievedPayouts(r) : x =< y
    BY <2>1
  <2>3. Min(BelievedPayouts(r)) \in BelievedPayouts(r) /\ Min(BelievedPayouts(r)) =< One
    BY <2>1, <2>2 DEF Min
  <2> DEFINE m == Min(BelievedPayouts(r))
  <2>4. m \in BelievedPayouts(r) /\ m =< One
    BY <2>3
  <2> HIDE DEF m
  <2>5. m \in Int /\ One =< m
    BY <2>1, <2>4
  <2>6. m = One
    BY <1>1, <2>4, <2>5
  <2> QED BY <2>6 DEF m
<1> QED BY <1>1, <1>3, <1>4 DEF Validated

\* An opportunity of one prop never loses, a near-arb of it no more than the asks
\* exceeded the payout by.
Riskless(opp) ==
    Subtype(opp) \in OneProp =>
        /\ opp.kind = "deterministic" => NeverLoses(opp)
        /\ opp.kind = "statistical" /\ opp.relation.safety = "clean" =>
             \A o \in Outcome : opp.cost - Pays(opp.relation.legs, o) =< Near - One

LEMMA FoundRiskless ==
  ASSUME NEW list \in Games, NEW ask \in [Tokens(Relations(list)) -> Price],
         NEW opp \in Evaluate(Relations(list), ask)
  PROVE  Riskless(opp)
<1>1. PICK r \in Relations(list) :
        /\ Validated(r, ask) /\ opp.relation = r /\ opp.cost = UnitCost(r, ask)
        /\ opp.kind = IF r.safety = "clean" THEN "deterministic" ELSE "statistical"
  BY DEF Evaluate, Opportunity
<1>2. SUFFICES ASSUME r.subtype \in OneProp, r.safety = "clean", NEW o \in Outcome
               PROVE  Pays(r.legs, o) > UnitCost(r, ask)
  BY <1>1 DEF Riskless, Subtype, NeverLoses
<1>3. IsFiniteSet(r.legs) /\ SomeLegWins(r.legs)
  BY <1>1, <1>2, PropsPay
<1>4. UnitCost(r, ask) \in Int /\ UnitCost(r, ask) < One
  BY <1>1, <1>3, ValidatedCost
<1>5. Pays(r.legs, o) \in Int /\ Pays(r.legs, o) >= One
  BY <1>3, PaysOne
<1> QED BY <1>4, <1>5, WorldCupAssumption DEF WorldCupAssumption

LEMMA NearRiskless ==
  ASSUME NEW list \in Games, NEW ask, NEW opp \in NearArbs(Relations(list), ask)
  PROVE  Riskless(opp)
<1>1. /\ opp.kind = "statistical" /\ opp.relation \in Relations(list)
      /\ opp.cost \in Nat /\ opp.cost =< Near
  BY NearCapital
<1> DEFINE r == opp.relation
<1>2. SUFFICES ASSUME r.subtype \in OneProp, r.safety = "clean", NEW o \in Outcome
               PROVE  opp.cost - Pays(r.legs, o) =< Near - One
  BY <1>1 DEF Riskless, Subtype
<1>3. IsFiniteSet(r.legs) /\ SomeLegWins(r.legs)
  BY <1>1, <1>2, PropsPay
<1>4. Pays(r.legs, o) \in Int /\ Pays(r.legs, o) >= One
  BY <1>3, PaysOne
<1> QED BY <1>1, <1>4, WorldCupAssumption DEF WorldCupAssumption

\* What is found, awaited or held is riskless.
RisklessInv == PropsNeverLose /\ \A opp \in queue \cup statistical \cup buying : Riskless(opp)

LEMMA RisklessStep == RisklessInv /\ [Next]_vars => RisklessInv'
<1> SUFFICES ASSUME RisklessInv, [Next]_vars PROVE RisklessInv'
  OBVIOUS
<1> USE DEF RisklessInv
<1>0. PropsNeverLose <=> \A h \in held : Riskless(h[2])
  BY DEF PropsNeverLose, Riskless
<1>6. PropsNeverLose' <=> \A h \in held' : Riskless(h[2])
  BY DEF PropsNeverLose, Riskless
<1>1. CASE Scan
  <2>1. PICK list \in Games : \E ask \in [Tokens(Relations(list)) -> Price] : Found(list, ask)
    BY <1>1, ScanFinds
  <2>2. PICK ask \in [Tokens(Relations(list)) -> Price] : Found(list, ask)
    BY <2>1
  <2>3. \A opp \in queue' \cup statistical' : Riskless(opp)
    BY <2>2, FoundRiskless, NearRiskless DEF Found
  <2>4. UNCHANGED <<buying, held>>
    BY <1>1 DEF Scan
  <2> QED BY <1>0, <1>6, <2>3, <2>4
<1>2. ASSUME NEW opp \in queue \cup statistical, Execute(opp) PROVE RisklessInv'
  <2>1. /\ queue' \subseteq queue /\ statistical' \subseteq statistical
        /\ buying' \subseteq buying \cup {opp}
    BY <1>2 DEF Execute, Takes, Commit
  <2>2. held' \subseteq held \cup {<<scans, opp>>}
    BY <1>2 DEF Execute, Commit
  <2>3. Riskless(opp) /\ <<scans, opp>>[2] = opp
    OBVIOUS
  <2>4. \A o \in queue' \cup statistical' \cup buying' : Riskless(o)
    BY <2>1, <2>3
  <2>5. \A h \in held' : Riskless(h[2])
    BY <1>0, <2>2, <2>3
  <2> QED BY <1>6, <2>4, <2>5
<1>3. ASSUME NEW opp \in buying, BundleFilled(opp) PROVE RisklessInv'
  BY <1>0, <1>3, <1>6 DEF BundleFilled, Commit
<1>4. ASSUME NEW opp \in buying, BundleRejected(opp) PROVE RisklessInv'
  BY <1>0, <1>4, <1>6 DEF BundleRejected
<1>5. CASE KillSwitch \/ UNCHANGED vars
  BY <1>0, <1>5, <1>6 DEF KillSwitch, vars
<1> QED BY <1>1, <1>2, <1>3, <1>4, <1>5 DEF Next

\* A deterministic opportunity of winner markets, of rungs of a ladder or of an
\* over and an under pays more than it cost whatever the score, and a near-arb of
\* one loses no more than its asks exceeded the payout by, for any lists of
\* markets, any asks and any buffers (relations.py, scanner.py,
\* state_validator.py).
THEOREM OnePropRiskless == Spec => []PropsNeverLose
<1>1. Init => RisklessInv
  BY DEF Init, RisklessInv, PropsNeverLose
<1>2. RisklessInv => PropsNeverLose
  BY DEF RisklessInv
<1> QED BY <1>1, <1>2, RisklessStep, PTL DEF Spec

-----------------------------------------------------------------------------
(* The N-leg specs.                                                        *)

\* The plan's specs are those its thresholds and ranges give rise to.
ChainInv ==
    /\ IsFiniteSet(ranges) /\ ranges \subseteq Chains!RangeMarket
    /\ specs = Chains!Derive(ranges, yes, no)

LEMMA RangesAreOrdered ==
  /\ \A r \in Chains!RangeMarket : r[1] \in Nat /\ r[2] \in Nat /\ r[1] < r[2] /\ r[1] \in Bound
                                   /\ r[2] \in Bound /\ r = <<r[1], r[2]>>
  /\ \A r, s \in Chains!RangeMarket : r # s => Chains!Before(r, s) \/ Chains!Before(s, r)
<1>1. \A n \in Bound : n \in Nat
  BY BoundAssumption DEF BoundAssumption
<1>2. \A r \in Chains!RangeMarket : r[1] \in Nat /\ r[2] \in Nat /\ r[1] < r[2] /\ r[1] \in Bound
                                   /\ r[2] \in Bound /\ r = <<r[1], r[2]>>
  BY <1>1 DEF Chains!RangeMarket
<1>3. ASSUME NEW r \in Chains!RangeMarket, NEW s \in Chains!RangeMarket, r # s
      PROVE  Chains!Before(r, s) \/ Chains!Before(s, r)
  <2>1. r[1] # s[1] \/ r[2] # s[2]
    BY <1>2, <1>3
  <2> QED BY <1>2, <2>1 DEF Chains!Before
<1> QED BY <1>2, <1>3

\* In a window no range begins before an earlier one ends: of the ranges
\* between two that would overlap, the nearest pair has none between.
LEMMA WindowApart ==
  ASSUME NEW R \in SUBSET Chains!RangeMarket, IsFiniteSet(R), NEW W \in Chains!Windows(R),
         NEW a \in W, NEW b \in W, Chains!Before(a, b)
  PROVE  a[2] <= b[1]
<1> DEFINE between(r, s) == {q \in R : Chains!Before(r, q) /\ Chains!Before(q, s)}
           overlaps == {p \in W \X W : Chains!Before(p[1], p[2]) /\ p[1][2] > p[2][1]}
           gaps == {between(p[1], p[2]) : p \in overlaps}
           F == FiniteSubsetsOf(R)
           O == StrictSubsetOrdering(R)
<1>1. /\ W \subseteq R
      /\ \A r, s \in W : Chains!Before(r, s) =>
           between(r, s) \subseteq W /\ (between(r, s) = {} => r[2] = s[1])
  BY DEF Chains!Windows
<1>2. SUFFICES ASSUME overlaps # {} PROVE FALSE
  <2>1. <<a, b>> \notin overlaps => ~ (a[2] > b[1])
    OBVIOUS
  <2>2. a[2] \in Nat /\ b[1] \in Nat
    BY <1>1, RangesAreOrdered
  <2> QED BY <2>1, <2>2
<1>3. IsWellFoundedOn(O, F)
  BY FS_StrictSubsetOrderingWellFounded
<1>4. gaps \subseteq F /\ gaps # {}
  <2>1. \A r, s : between(r, s) \in SUBSET R /\ IsFiniteSet(between(r, s))
    BY FS_Subset
  <2> HIDE DEF between
  <2> QED BY <1>2, <2>1 DEF FiniteSubsetsOf
<1>5. PICK g \in gaps : \A h \in gaps : ~ (<<h, g>> \in O)
  <2> HIDE DEF O, F, gaps
  <2> QED BY <1>3, <1>4, WFMin
<1>6. PICK p \in overlaps : g = between(p[1], p[2])
  OBVIOUS
<1> DEFINE r == p[1]
           s == p[2]
<1>7. /\ r \in W /\ s \in W /\ Chains!Before(r, s) /\ r[2] > s[1]
      /\ r[2] \in Nat /\ s[1] \in Nat
  BY <1>1, <1>6, RangesAreOrdered
<1>8. PICK q \in W : q \in between(r, s)
  BY <1>1, <1>7
<1>9. /\ Chains!Before(r, q) /\ Chains!Before(q, s) /\ q[1] < q[2] /\ q[1] \in Nat /\ q[2] \in Nat
  BY <1>1, <1>8, RangesAreOrdered
<1>10. /\ between(r, q) \subseteq between(r, s) /\ q \notin between(r, q)
       /\ between(q, s) \subseteq between(r, s) /\ q \notin between(q, s)
  <2>1. \A x \in R : x[1] \in Nat /\ x[2] \in Nat
    BY RangesAreOrdered
  <2>2. r \in R /\ s \in R /\ q \in R
    BY <1>1, <1>7
  <2> HIDE DEF r, s
  <2> QED BY <1>9, <2>1, <2>2 DEF Chains!Before
<1>11. ASSUME NEW h \in SUBSET R, h \subseteq between(r, s), q \notin h PROVE h \notin gaps
  <2>1. <<h, g>> \in O
    BY <1>6, <1>8, <1>11 DEF StrictSubsetOrdering
  <2> HIDE DEF gaps, O
  <2> QED BY <1>5, <2>1
<1>12. r[2] <= q[1] /\ q[2] <= s[1]
  <2>1. between(r, q) \notin gaps /\ between(q, s) \notin gaps
    <3>1. between(r, q) \in SUBSET R /\ between(q, s) \in SUBSET R
      OBVIOUS
    <3> HIDE DEF between, gaps
    <3> QED BY <1>10, <1>11, <3>1
  <2>2. <<r, q>> \notin overlaps /\ <<q, s>> \notin overlaps
    <3> HIDE DEF between, overlaps
    <3>1. \A x, y : <<x, y>> \in overlaps => between(x, y) \in gaps
      OBVIOUS
    <3> QED BY <2>1, <3>1
  <2> HIDE DEF r, s
  <2> QED BY <1>7, <1>9, <2>2
<1> QED BY <1>7, <1>9, <1>12

\* The low and the high end of a window are those of ranges in it.
LEMMA WindowEnds ==
  ASSUME NEW R \in SUBSET Chains!RangeMarket, IsFiniteSet(R), NEW W \in Chains!Windows(R)
  PROVE  /\ \A q \in W : Chains!Low(W) <= q[1] /\ q[2] <= Chains!High(W)
         /\ Chains!Low(W) \in Nat /\ Chains!High(W) \in Nat
         /\ Chains!Low(W) < Chains!High(W)
<1>1. W \in SUBSET R /\ W # {} /\ IsFiniteSet(W)
  BY FS_Subset DEF Chains!Windows
<1>2. \A q \in W : /\ q[1] \in Nat /\ q[2] \in Nat /\ q[1] < q[2]
                   /\ q[1] \in Bound /\ q[2] \in Bound
  BY <1>1, RangesAreOrdered
<1>3. \E n \in Bound : \E r \in W : r[1] = n /\ \A q \in W : n <= q[1]
  <2> DEFINE starts == {q[1] : q \in W}
  <2>1. PICK n \in starts : \A m \in starts : n <= m
    <3>1. starts \in SUBSET Nat /\ starts # {}
      BY <1>1, <1>2
    <3> HIDE DEF starts
    <3> QED BY <3>1, SmallestExists
  <2> QED BY <1>2, <2>1
<1>4. \E n \in Bound : \E r \in W : r[2] = n /\ \A q \in W : n >= q[2]
  <2> DEFINE end == [q \in W |-> q[2]]
             ends == {q[2] : q \in W}
  <2>1. IsFiniteSet(ends)
    <3>1. end \in Surjection(W, ends)
      BY DEF Surjection
    <3> HIDE DEF end, ends
    <3> QED BY <1>1, <3>1, FS_Surjection
  <2>2. PICK n \in ends : \A m \in ends : n >= m
    <3>1. ends \in SUBSET Int /\ ends # {}
      BY <1>1, <1>2
    <3> HIDE DEF ends
    <3> QED BY <2>1, <3>1, LargestExists
  <2> QED BY <1>2, <2>2
<1>5. PICK r \in W : r[1] = Chains!Low(W) /\ \A q \in W : Chains!Low(W) <= q[1]
  BY <1>3 DEF Chains!Low
<1>6. PICK s \in W : s[2] = Chains!High(W) /\ \A q \in W : Chains!High(W) >= q[2]
  BY <1>4 DEF Chains!High
<1> QED BY <1>2, <1>5, <1>6

\* Wherever the price settles, one leg of a window's bundle loses.
LEMMA WindowPays ==
  ASSUME NEW R \in SUBSET Chains!RangeMarket, IsFiniteSet(R), NEW W \in Chains!Windows(R),
         NEW price \in Nat
  PROVE  Cardinality({l \in Chains!Bundle(W).legs : Chains!Wins(l, price)})
           >= Chains!Bundle(W).payout
<1> DEFINE low == Chains!Low(W)
           high == Chains!High(W)
           a == <<"above", low, "YES">>
           b == <<"above", high, "NO">>
           N == {<<"within", r, "NO">> : r \in W}
           legs == {a, b} \cup N
           won == {l \in legs : Chains!Wins(l, price)}
<1>1. Chains!Bundle(W).legs = legs /\ Chains!Bundle(W).payout = Cardinality(W) + 1
  <2>1. Chains!Bundle(W) = [legs |-> legs, payout |-> Cardinality(W) + 1]
    BY Zenon DEF Chains!Bundle, Chains!Cardinality, Cardinality
  <2> HIDE DEF legs
  <2> QED BY <2>1
<1>2. W \in SUBSET R /\ IsFiniteSet(W) /\ W # {}
  BY FS_Subset DEF Chains!Windows
<1>3. \A q \in W : q[1] \in Nat /\ q[2] \in Nat /\ q[1] < q[2]
  BY <1>2, RangesAreOrdered
<1>4. /\ \A q \in W : low <= q[1] /\ q[2] <= high
      /\ low \in Nat /\ high \in Nat /\ low < high
  BY WindowEnds
<1>5. \A r, s \in W : r # s => r[2] <= s[1] \/ s[2] <= r[1]
  BY <1>2, WindowApart, RangesAreOrdered
<1> HIDE DEF low, high
<1>6. /\ Chains!Wins(a, price) <=> price >= low
      /\ Chains!Wins(b, price) <=> price < high
      /\ \A r \in W : Chains!Wins(<<"within", r, "NO">>, price) <=> ~ (price >= r[1] /\ price < r[2])
  BY <1>3, <1>4 DEF Chains!Wins
<1>7. PICK x \in legs : legs \ {x} \subseteq won
  <2>1. CASE price < low
    <3>1. Chains!Wins(b, price) /\ \A r \in W : Chains!Wins(<<"within", r, "NO">>, price)
      BY <1>3, <1>4, <1>6, <2>1
    <3>2. legs \ {a} \subseteq won
      BY <3>1
    <3> QED BY <3>2
  <2>2. CASE price >= high
    <3>1. Chains!Wins(a, price) /\ \A r \in W : Chains!Wins(<<"within", r, "NO">>, price)
      BY <1>3, <1>4, <1>6, <2>2
    <3>2. legs \ {b} \subseteq won
      BY <3>1
    <3> QED BY <3>2
  <2>3. CASE low <= price /\ price < high /\ \E r \in W : price >= r[1] /\ price < r[2]
    <3>1. PICK r \in W : price >= r[1] /\ price < r[2]
      BY <2>3
    <3>2. \A s \in W : s # r => Chains!Wins(<<"within", s, "NO">>, price)
      BY <1>3, <1>5, <1>6, <3>1
    <3>3. Chains!Wins(a, price) /\ Chains!Wins(b, price)
      BY <1>6, <2>3
    <3>4. legs \ {<<"within", r, "NO">>} \subseteq won
      BY <3>2, <3>3
    <3> QED BY <3>4
  <2>4. CASE low <= price /\ price < high /\ ~ \E r \in W : price >= r[1] /\ price < r[2]
    <3>1. \A l \in legs : Chains!Wins(l, price)
      BY <1>6, <2>4
    <3> QED BY <3>1
  <2> QED BY <1>4, <2>1, <2>2, <2>3, <2>4
<1>8. IsFiniteSet(legs) /\ Cardinality(legs) = Cardinality(W) + 2
  <2>1. IsFiniteSet(N) /\ Cardinality(N) = Cardinality(W)
    <3> DEFINE leg == [r \in W |-> <<"within", r, "NO">>]
    <3>1. leg \in Bijection(W, N)
      <4>1. leg \in Surjection(W, N)
        BY DEF Surjection
      <4>2. \A q, r \in W : leg[q] = leg[r] => q = r
        <5>1. \A q \in W : leg[q][2] = q
          OBVIOUS
        <5> HIDE DEF leg
        <5> QED BY <5>1
      <4>3. leg \in [W -> N]
        OBVIOUS
      <4>4. leg \in Injection(W, N)
        <5>1. DOMAIN leg = W
          OBVIOUS
        <5> HIDE DEF leg, N
        <5> QED BY <4>2, <4>3, <5>1, Zenon DEF Injection, IsInjective
      <4> QED BY <4>1, <4>4 DEF Bijection
    <3> HIDE DEF leg, N
    <3>2. ExistsBijection(W, N)
      BY <3>1 DEF ExistsBijection
    <3> QED BY <1>2, <3>2, FS_Bijection
  <2>2. a \notin N /\ b \notin N \cup {a}
    OBVIOUS
  <2>3. Cardinality(W) \in Nat
    BY <1>2, FS_CardinalityType
  <2>4. legs = (N \cup {a}) \cup {b}
    OBVIOUS
  <2> HIDE DEF a, b, N, legs
  <2>5. IsFiniteSet(N \cup {a}) /\ Cardinality(N \cup {a}) = Cardinality(W) + 1
    BY <2>1, <2>2, FS_AddElement
  <2>6. /\ IsFiniteSet((N \cup {a}) \cup {b})
        /\ Cardinality((N \cup {a}) \cup {b}) = (Cardinality(W) + 1) + 1
    BY <2>2, <2>5, FS_AddElement
  <2> QED BY <2>3, <2>4, <2>6
<1>9. IsFiniteSet(won) /\ won \subseteq legs
  <2>1. won \subseteq legs
    OBVIOUS
  <2> HIDE DEF legs, won
  <2> QED BY <1>8, <2>1, FS_Subset
<1> HIDE DEF legs
<1>10. Cardinality(legs \ {x}) = Cardinality(W) + 1
  <2>1. Cardinality(legs \ {x}) = Cardinality(legs) - 1
    BY <1>7, <1>8, RemoveOne
  <2>2. Cardinality(W) \in Nat
    BY <1>2, FS_CardinalityType
  <2> QED BY <1>8, <2>1, <2>2
<1> HIDE DEF won
<1>11. Cardinality(legs \ {x}) <= Cardinality(won)
  BY <1>7, <1>9, FS_Subset
<1>12. Cardinality(won) \in Nat /\ Cardinality(W) \in Nat
  BY <1>2, <1>9, FS_CardinalityType
<1> QED BY <1>1, <1>10, <1>11, <1>12 DEF won

\* A chain of ranges, each of which begins where the one before ends.
Chain(chain, n, R) ==
    /\ n \in Nat /\ n >= 1 /\ chain \in [1 .. n -> R]
    /\ \A k \in 2 .. n : chain[k][1] = chain[k - 1][2]

\* What comes later in a chain begins later: of the ranges that would not, take
\* the first.
LEMMA ChainGrows ==
  ASSUME NEW R \in SUBSET Chains!RangeMarket, NEW chain, NEW n, Chain(chain, n, R),
         NEW j \in 1 .. n, NEW k \in 1 .. n, j < k
  PROVE  chain[j][2] <= chain[k][1]
<1> DEFINE late == {i \in 1 .. n : j < i /\ ~ (chain[j][2] <= chain[i][1])}
<1>1. SUFFICES ASSUME late # {} PROVE FALSE
  OBVIOUS
<1>2. PICK i \in late : \A m \in late : i <= m
  <2>1. late \in SUBSET Nat
    BY DEF Chain
  <2> HIDE DEF late
  <2> QED BY <1>1, <2>1, SmallestExists
<1>3. i \in 1 .. n /\ j < i /\ ~ (chain[j][2] <= chain[i][1]) /\ n \in Nat
  BY DEF Chain
<1>4. \A m \in 1 .. n : chain[m][1] \in Nat /\ chain[m][2] \in Nat /\ chain[m][1] < chain[m][2]
  BY RangesAreOrdered DEF Chain
<1>5. i - 1 \in 1 .. n /\ chain[i][1] = chain[i - 1][2]
  BY <1>3 DEF Chain
<1>6. CASE i - 1 = j
  BY <1>3, <1>4, <1>5, <1>6
<1>7. CASE i - 1 # j
  <2>1. i - 1 \notin late
    <3>1. ~ (i <= i - 1)
      BY <1>3
    <3> HIDE DEF late
    <3> QED BY <1>2, <3>1
  <2>2. chain[j][2] <= chain[i - 1][1]
    BY <1>3, <1>5, <1>7, <2>1
  <2> QED BY <1>3, <1>4, <1>5, <2>2
<1> QED BY <1>6, <1>7

\* A range that is disjoint from those of a chain and begins within it is one
\* of them.
LEMMA ChainCovers ==
  ASSUME NEW R \in SUBSET Chains!RangeMarket, NEW chain, NEW n, Chain(chain, n, R),
         \A r, s \in R : r = s \/ r[2] <= s[1] \/ s[2] <= r[1],
         NEW q \in R, NEW k \in 1 .. n, chain[1][1] <= q[1], q[1] < chain[k][2]
  PROVE  \E i \in 1 .. n : q = chain[i]
<1> DEFINE past == {i \in 1 .. n : q[1] < chain[i][2]}
<1>1. PICK i \in past : \A m \in past : i <= m
  <2>1. past \in SUBSET Nat /\ past # {}
    BY DEF Chain
  <2> HIDE DEF past
  <2> QED BY <2>1, SmallestExists
<1>2. i \in 1 .. n /\ q[1] < chain[i][2] /\ n \in Nat
  BY DEF Chain
<1>3. /\ chain[i] \in R /\ chain[i][1] \in Nat /\ chain[i][2] \in Nat
      /\ q[1] \in Nat /\ q[2] \in Nat /\ q[1] < q[2]
  BY <1>2, RangesAreOrdered DEF Chain
<1>4. chain[i][1] <= q[1]
  <2>1. CASE i = 1
    BY <2>1
  <2>2. CASE i # 1
    <3>1. i - 1 \in 1 .. n /\ chain[i][1] = chain[i - 1][2]
      BY <1>2, <2>2 DEF Chain
    <3>2. i - 1 \notin past
      <4>1. ~ (i <= i - 1)
        BY <1>2
      <4> HIDE DEF past
      <4> QED BY <1>1, <4>1
    <3> QED BY <1>3, <3>1, <3>2
  <2> QED BY <2>1, <2>2
<1>5. chain[i] = q \/ chain[i][2] <= q[1] \/ q[2] <= chain[i][1]
  BY <1>3
<1>6. chain[i] = q
  BY <1>2, <1>3, <1>4, <1>5
<1> QED BY <1>2, <1>6

\* When ranges are disjoint a chain of them is a window, whose ends are the
\* chain's.
LEMMA ChainIsWindow ==
  ASSUME NEW R \in SUBSET Chains!RangeMarket, NEW chain, NEW n, Chain(chain, n, R),
         n <= MaxRanges, \A r, s \in R : r = s \/ r[2] <= s[1] \/ s[2] <= r[1]
  PROVE  LET W == {chain[k] : k \in 1 .. n}
         IN  /\ W \in Chains!Windows(R)
             /\ Chains!Low(W) = chain[1][1] /\ Chains!High(W) = chain[n][2]
<1> DEFINE W == {chain[k] : k \in 1 .. n}
<1>1. n \in Nat /\ 1 \in 1 .. n /\ n \in 1 .. n /\ \A k \in 1 .. n : chain[k] \in R
  BY DEF Chain
<1>2. \A k \in 1 .. n : /\ chain[k][1] \in Nat /\ chain[k][2] \in Nat /\ chain[k][1] < chain[k][2]
                        /\ chain[k][1] \in Bound /\ chain[k][2] \in Bound
  BY <1>1, RangesAreOrdered
<1>3. W \in SUBSET R /\ W # {}
  BY <1>1
<1>4. Cardinality(W) <= MaxRanges
  <2>1. chain \in Surjection(1 .. n, W)
    BY <1>1 DEF Chain, Surjection
  <2>2. IsFiniteSet(1 .. n) /\ Cardinality(1 .. n) = n
    BY <1>1, FS_Interval
  <2> HIDE DEF W
  <2>3. IsFiniteSet(W) /\ Cardinality(W) <= Cardinality(1 .. n)
    BY <2>1, <2>2, FS_Surjection
  <2>4. Cardinality(W) \in Nat /\ MaxRanges \in Nat
    BY <2>3, FS_CardinalityType, BoundAssumption DEF BoundAssumption
  <2> QED BY <1>1, <2>2, <2>3, <2>4
<1>5. ASSUME NEW j \in 1 .. n, NEW k \in 1 .. n, Chains!Before(chain[j], chain[k])
      PROVE  LET between == {q \in R : Chains!Before(chain[j], q) /\ Chains!Before(q, chain[k])}
             IN  between \subseteq W /\ (between = {} => chain[j][2] = chain[k][1])
  <2> DEFINE between == {q \in R : Chains!Before(chain[j], q) /\ Chains!Before(q, chain[k])}
  <2>1. j < k
    <3>1. j # k
      BY <1>2, <1>5 DEF Chains!Before
    <3>2. ~ (k < j)
      <4>1. k < j => chain[k][2] <= chain[j][1]
        BY ChainGrows
      <4> QED BY <1>2, <1>5, <4>1 DEF Chains!Before
    <3> QED BY <1>1, <3>1, <3>2
  <2>2. ASSUME NEW q \in between PROVE q \in W
    <3>1. q[1] \in Nat /\ q[2] \in Nat /\ q[1] < q[2]
      BY RangesAreOrdered
    <3>2. q[1] < chain[k][2]
      BY <1>2, <3>1 DEF Chains!Before
    <3>3. chain[1][1] <= q[1]
      <4>1. chain[j][1] <= q[1]
        BY <1>2, <3>1 DEF Chains!Before
      <4>2. ASSUME j # 1 PROVE chain[1][2] <= chain[j][1]
        <5>1. 1 \in 1 .. n /\ 1 < j
          BY <1>1, <4>2
        <5> QED BY <5>1, ChainGrows
      <4> QED BY <1>1, <1>2, <3>1, <4>1, <4>2
    <3>4. \E i \in 1 .. n : q = chain[i]
      BY <3>2, <3>3, ChainCovers
    <3> QED BY <3>4
  <2>3. ASSUME between = {} PROVE chain[j][2] = chain[k][1]
    <3>1. j + 1 \in 1 .. n /\ chain[j + 1][1] = chain[j][2]
      <4>1. j + 1 \in 2 .. n
        BY <1>1, <2>1
      <4>2. chain[j + 1][1] = chain[(j + 1) - 1][2]
        BY <4>1 DEF Chain
      <4> QED BY <1>1, <4>1, <4>2
    <3>2. CASE j + 1 = k
      BY <3>1, <3>2
    <3>3. CASE j + 1 # k
      <4>1. chain[j + 1][2] <= chain[k][1]
        BY <1>1, <2>1, <3>1, <3>3, ChainGrows
      <4>2. Chains!Before(chain[j], chain[j + 1]) /\ Chains!Before(chain[j + 1], chain[k])
        BY <1>2, <3>1, <4>1 DEF Chains!Before
      <4>3. chain[j + 1] \in between
        BY <1>1, <3>1, <4>2
      <4> QED BY <2>3, <4>3
    <3> QED BY <3>2, <3>3
  <2> QED BY <2>2, <2>3
<1>6. W \in Chains!Windows(R)
  <2>1. ASSUME NEW r \in W, NEW s \in W, Chains!Before(r, s)
        PROVE  LET between == {q \in R : Chains!Before(r, q) /\ Chains!Before(q, s)}
               IN  between \subseteq W /\ (between = {} => r[2] = s[1])
    <3>1. PICK j \in 1 .. n : r = chain[j]
      OBVIOUS
    <3>2. PICK k \in 1 .. n : s = chain[k]
      OBVIOUS
    <3> HIDE DEF W
    <3> QED BY <1>5, <2>1, <3>1, <3>2
  <2>2. Chains!Cardinality(W) = Cardinality(W)
    BY DEF Chains!Cardinality, Cardinality
  <2> HIDE DEF W
  <2> QED BY <1>3, <1>4, <2>1, <2>2 DEF Chains!Windows
<1>7. \A k \in 1 .. n : chain[1][1] <= chain[k][1] /\ chain[k][2] <= chain[n][2]
  <2> SUFFICES ASSUME NEW k \in 1 .. n
               PROVE  chain[1][1] <= chain[k][1] /\ chain[k][2] <= chain[n][2]
    OBVIOUS
  <2>1. 1 < k => chain[1][2] <= chain[k][1]
    BY <1>1, ChainGrows
  <2>2. k < n => chain[k][2] <= chain[n][1]
    BY <1>1, ChainGrows
  <2>3. (k = 1 \/ 1 < k) /\ (k = n \/ k < n)
    BY <1>1
  <2> QED BY <1>1, <1>2, <2>1, <2>2, <2>3
<1>8. Chains!Low(W) = chain[1][1]
  <2>1. chain[1] \in W /\ chain[1][1] \in Bound /\ \A q \in W : chain[1][1] <= q[1]
    BY <1>1, <1>2, <1>7
  <2>2. ASSUME NEW m \in Bound, \E r \in W : r[1] = m /\ \A q \in W : m <= q[1]
        PROVE  m = chain[1][1]
    <3>1. m \in Nat
      BY BoundAssumption DEF BoundAssumption
    <3>2. m <= chain[1][1] /\ chain[1][1] <= m
      BY <2>1, <2>2
    <3> QED BY <1>1, <1>2, <3>1, <3>2
  <2> HIDE DEF W
  <2>3. \E r \in W : r[1] = chain[1][1] /\ \A q \in W : chain[1][1] <= q[1]
    BY <2>1
  <2> QED BY <2>1, <2>2, <2>3 DEF Chains!Low
<1>9. Chains!High(W) = chain[n][2]
  <2>1. chain[n] \in W /\ chain[n][2] \in Bound /\ \A q \in W : chain[n][2] >= q[2]
    BY <1>1, <1>2, <1>7
  <2>2. ASSUME NEW m \in Bound, \E r \in W : r[2] = m /\ \A q \in W : m >= q[2]
        PROVE  m = chain[n][2]
    <3>1. m \in Nat
      BY BoundAssumption DEF BoundAssumption
    <3>2. m >= chain[n][2] /\ chain[n][2] >= m
      BY <2>1, <2>2
    <3> QED BY <1>1, <1>2, <3>1, <3>2
  <2> HIDE DEF W
  <2>3. \E r \in W : r[2] = chain[n][2] /\ \A q \in W : chain[n][2] >= q[2]
    BY <2>1
  <2> QED BY <2>1, <2>2, <2>3 DEF Chains!High
<1> QED BY <1>6, <1>8, <1>9

LEMMA SpecsPayFromInv == ChainInv => SpecsPay
<1> SUFFICES ASSUME ChainInv PROVE SpecsPay
  OBVIOUS
<1>1. ranges \in SUBSET Chains!RangeMarket /\ IsFiniteSet(ranges)
  BY DEF ChainInv
<1>2. ASSUME NEW s \in specs, NEW price \in Chains!Settlement
      PROVE  Chains!Cardinality({l \in s.legs : Chains!Wins(l, price)}) >= s.payout
  <2>1. PICK W \in Chains!Windows(ranges) : s = Chains!Bundle(W)
    BY DEF ChainInv, Chains!Derive
  <2>2. price \in Nat
    BY BoundAssumption DEF BoundAssumption, Chains!Settlement
  <2>3. Cardinality({l \in Chains!Bundle(W).legs : Chains!Wins(l, price)}) >= Chains!Bundle(W).payout
    BY <1>1, <2>2, WindowPays
  <2>4. \A S : Chains!Cardinality(S) = Cardinality(S)
    BY DEF Chains!Cardinality, Cardinality
  <2> QED BY <2>1, <2>3, <2>4
<1>3. ASSUME Chains!Disjoint, NEW n \in 1 .. MaxRanges, NEW chain \in [1 .. n -> ranges],
             \A k \in 2 .. Len(chain) : chain[k][1] = chain[k - 1][2],
             chain[1][1] \in yes, chain[Len(chain)][2] \in no
      PROVE  Chains!Bundle({chain[k] : k \in DOMAIN chain}) \in specs
  <2>1. n \in Nat /\ n >= 1 /\ n <= MaxRanges
    BY BoundAssumption DEF BoundAssumption
  <2>2. Len(chain) = n /\ DOMAIN chain = 1 .. n
    BY <2>1
  <2>3. Chain(chain, n, ranges)
    BY <1>3, <2>1, <2>2 DEF Chain
  <2> DEFINE W == {chain[k] : k \in 1 .. n}
  <2>4. /\ W \in Chains!Windows(ranges)
        /\ Chains!Low(W) = chain[1][1] /\ Chains!High(W) = chain[n][2]
    <3>1. \A r, s \in ranges : r = s \/ r[2] <= s[1] \/ s[2] <= r[1]
      BY <1>3 DEF Chains!Disjoint
    <3> QED BY <1>1, <2>1, <2>3, <3>1, ChainIsWindow
  <2>5. Chains!Bundle(W) \in Chains!Derive(ranges, yes, no)
    <3> HIDE DEF W
    <3> QED BY <1>3, <2>2, <2>4 DEF Chains!Derive
  <2> QED BY <2>2, <2>5 DEF ChainInv
<1> QED BY <1>2, <1>3 DEF SpecsPay, Chains!SpecsPay

LEMMA ChainStep == ChainInv /\ [Chains!Next]_(Chains!vars) => ChainInv'
<1> SUFFICES ASSUME ChainInv, [Chains!Next]_(Chains!vars) PROVE ChainInv'
  OBVIOUS
<1>1. CASE Chains!Next
  <2>1. PICK above \in Bound, known \in SUBSET {"YES", "NO"}, within \in Chains!RangeMarket :
          Chains!Collect(above, known, within)
    BY <1>1 DEF Chains!Next
  <2>2. ranges' = ranges \cup {within} /\ specs' = Chains!Derive(ranges', yes', no')
    BY <2>1 DEF Chains!Collect
  <2>3. IsFiniteSet(ranges')
    BY <2>2, FS_AddElement DEF ChainInv
  <2> QED BY <2>2, <2>3 DEF ChainInv
<1>2. CASE UNCHANGED Chains!vars
  BY <1>2 DEF ChainInv, Chains!vars
<1> QED BY <1>1, <1>2

\* Every N-leg spec pays its guaranteed payout wherever the price settles, and
\* when ranges do not overlap every chain of them is found, for any numbers on
\* the labels and any n_leg_max_ranges
\* (_derive_range_threshold_n_leg_specs).
THEOREM NLegSpecsPay == Chains!Spec => []SpecsPay
<1>1. Chains!Init => ChainInv
  <2>1. Chains!Windows({}) = {}
    BY DEF Chains!Windows
  <2> QED BY <2>1, FS_EmptySet DEF Chains!Init, ChainInv, Chains!Derive
<1> QED BY <1>1, ChainStep, SpecsPayFromInv, PTL DEF Chains!Spec
=============================================================================
