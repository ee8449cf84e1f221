------------------------------ MODULE WorldCup ------------------------------
(***************************************************************************)
(* The World Cup engine (src/worldcup): markets on the goals of a match    *)
(* are classified, relations between them are inferred, the relations that *)
(* sell below their guaranteed payout are bought under exposure caps, scan *)
(* after scan.                                                             *)
(*                                                                         *)
(* A market is a record [event, says, number, team]: what its question     *)
(* says of the goals of the event's period.  A line of n and a half goals  *)
(* is the number n; a handicap of -(n + 1/2) is the margin n.  An outcome  *)
(* gives the goals of both sides at half time and at full time.            *)
(***************************************************************************)
EXTENDS Capital, SequencesExt

CONSTANTS Slug,          \* the event slugs, in alphabetical order
          Half,          \* the events that only count the first half
          GameOf,        \* event -> game
          TeamsOf,       \* game -> its two teams, <<home, away>>
          Games,         \* the lists of markets a discovery may return
          NoTeam,        \* team of a market about both sides
          MaxGoals,      \* bound: goals of a side in a match
          AllPairs,      \* ladder_all_pairs
          MaxLegs,       \* MAX_BASKET_LEGS
          One,           \* a payout of 1, in price units
          Near,          \* near_arb_threshold of a payout, in price units
          Price, Depth,  \* asks of the books, and the shares at each
          Buffer,        \* slippage, fee and latency buffers per share
          MinEdge, MinTrade, MaxTrade,
          EventCap, TeamCap, RelationCap, TotalCap,
          MaxScans       \* bound: scans of one process

\* Amounts are counted in units that none of them falls below.
WorldCupAssumption ==
    /\ {One, Near, Depth, Buffer, MinTrade, MaxTrade, MaxGoals, MaxScans} \subseteq Nat
    /\ {EventCap, TeamCap, RelationCap, TotalCap} \subseteq Nat
    /\ Price \subseteq Nat /\ MinEdge \in Int
ASSUME WorldCupAssumption

VARIABLES
    mode,      \* execution_mode: paper, dry_run or live
    enabled,   \* enable_deterministic_arbs, enable_statistical_arbs
    scans,     \* scans begun
    queue,     \* ScanReport.opportunities not yet executed
    statistical,   \* ScanReport.statistical that will be executed
    buying,    \* the opportunity whose live bundle is awaited, {} or {o}
    byEvent, byTeam, byRelation, total,   \* ExposureLimiter
    killed,    \* the kill switch file exists
    held       \* history: <<scan, opportunity>> committed

limiter == <<byEvent, byTeam, byRelation, total>>
vars == <<mode, enabled, scans, queue, statistical, buying, limiter, killed, held>>

Events == ToSet(Slug)
Subtypes == {"moneyline_3way", "over_ladder", "under_ladder", "ou_complement",
             "nplus_ladder", "spread_ladder", "goals_quantity_vs_threshold",
             "exact_score_implies_over", "exact_score_implies_under",
             "exact_score_implies_btts_yes", "exact_score_implies_btts_no"}
AllTeams == (UNION {ToSet(TeamsOf[GameOf[e]]) : e \in Events}) \cup Events

-----------------------------------------------------------------------------
(* What the questions say (the rules of the markets, outside the program). *)

Outcome == {o \in [home : 0 .. MaxGoals, away : 0 .. MaxGoals,
                   home1 : 0 .. MaxGoals, away1 : 0 .. MaxGoals] :
                o.home1 =< o.home /\ o.away1 =< o.away}

Goals(m, o, side) ==
    IF m.event \in Half THEN (IF side = 1 THEN o.home1 ELSE o.away1)
                        ELSE (IF side = 1 THEN o.home ELSE o.away)

Home(m) == TeamsOf[GameOf[m.event]][1]
Away(m) == TeamsOf[GameOf[m.event]][2]

Margin(m, o) ==
    IF m.team = Home(m) THEN Goals(m, o, 1) - Goals(m, o, 2) ELSE Goals(m, o, 2) - Goals(m, o, 1)

Count(m, o) ==
    IF m.team = NoTeam THEN Goals(m, o, 1) + Goals(m, o, 2)
    ELSE IF m.team = Home(m) THEN Goals(m, o, 1) ELSE Goals(m, o, 2)

\* The market resolves YES in outcome o.
Holds(m, o) ==
    \/ m.says = "win"     /\ Margin(m, o) > 0
    \/ m.says = "draw"    /\ Goals(m, o, 1) = Goals(m, o, 2)
    \/ m.says = "covers"  /\ Margin(m, o) > m.number
    \/ m.says = "over"    /\ Count(m, o) > m.number
    \/ m.says = "under"   /\ Count(m, o) =< m.number
    \/ m.says = "exactly" /\ Count(m, o) = m.number
    \/ m.says = "plus"    /\ Count(m, o) >= m.number
    \/ m.says = "score"   /\ <<Goals(m, o, 1), Goals(m, o, 2)>> = m.number
    \/ m.says = "both"    /\ Goals(m, o, 1) > 0 /\ Goals(m, o, 2) > 0

\* A question is its record; a match is won by one of its two teams; a line, a
\* margin and a count are whole numbers.
Question(m) ==
    /\ m = [event |-> m.event, says |-> m.says, number |-> m.number, team |-> m.team]
    /\ m.event \in Events
    /\ m.says \in {"win", "draw", "covers", "over", "under", "exactly", "plus", "score", "both"}
    /\ m.says = "win" => m.number = 0 /\ m.team \in {Home(m), Away(m)} /\ Home(m) # Away(m)
    /\ m.says = "draw" => m.number = 0 /\ m.team = NoTeam
    /\ m.says \in {"covers", "over", "under", "plus"} => m.number \in Int

QuestionsAssumption ==
    \A list \in Games : list \in Seq(ToSet(list)) /\ \A m \in ToSet(list) : Question(m)
ASSUME QuestionsAssumption

\* What one share of every leg pays in outcome o.
Pays(legs, o) == One * Cardinality({l \in legs : Holds(l.market, o) <=> l.side = "YES"})

-----------------------------------------------------------------------------
(* Classification: the kind a question is given.  "K or more" is a         *)
(* threshold before it could be a count bin.                               *)

Kind(m) ==
    CASE m.says = "score"   -> "exact_score"
      [] m.says \in {"over", "under"} /\ m.team # NoTeam -> "team_total"
      [] m.says \in {"over", "under"} -> "total"
      [] m.says = "both"    -> "btts"
      [] m.says = "covers"  -> "spread"
      [] m.says = "plus"    -> "futures_nplus"
      [] m.says = "exactly" -> "quantity_bin"
      [] m.says = "draw"    -> "moneyline_draw"
      [] m.says = "win"     -> "moneyline_team"

-----------------------------------------------------------------------------
(* The builders of relations.py.  A leg buys the YES or the NO token.      *)

Leg(m, side) == [market |-> m, side |-> side]

Subset(parent, parentSide, child, subtype) ==
    [type |-> "subset", subtype |-> subtype, safety |-> "clean",
     legs |-> {Leg(parent, parentSide), Leg(child, "NO")}]

Basket(type, subtype, legs, clean) ==
    IF Cardinality(legs) \notin 2 .. MaxLegs THEN {}
    ELSE {[type |-> type, subtype |-> subtype, legs |-> legs,
           safety |-> IF clean THEN "clean" ELSE "boundary_ambiguous"]}

\* Mutant: winner markets of all the events of a game in one basket.
MoneylineOfGame(ms) ==
    LET ml == {m \in ms : Kind(m) \in {"moneyline_team", "moneyline_draw"}}
        exhaustive == Cardinality(ml) = 3 /\ \E m \in ml : m.says = "draw"
    IN Basket("complement", "moneyline_3way", {Leg(m, "YES") : m \in ml}, exhaustive)

\* Buys every outcome of the match winner market of each event.
MoneylineComplement(ms) ==
    LET winners(e) == {m \in ms : m.event = e /\ Kind(m) \in {"moneyline_team", "moneyline_draw"}}
        exhaustive(ml) == Cardinality(ml) = 3 /\ \E m \in ml : m.says = "draw"
    IN UNION {LET ml == winners(e) IN
              Basket("complement", "moneyline_3way", {Leg(m, "YES") : m \in ml}, exhaustive(ml)) :
              e \in Events}

\* The rungs of one prop: same event, same kind, same wording but the number.
SameProp(m, n) == m.event = n.event /\ Kind(m) = Kind(n) /\ m.says = n.says /\ m.team = n.team

\* Pairs <<low, high>> of rungs of a ladder: neighbours, or all of them.
Rungs(ms, says) ==
    {p \in ms \X ms :
        /\ p[1].says = says
        /\ SameProp(p[1], p[2])
        /\ p[1].number < p[2].number
        /\ \/ AllPairs
           \/ ~ \E m \in ms : SameProp(m, p[1]) /\ m.number > p[1].number /\ m.number < p[2].number}

\* The harder rung implies the easier one.
Ladders(ms) ==
    {Subset(p[1], "YES", p[2], "over_ladder") : p \in Rungs(ms, "over")}
    \cup {Subset(p[2], "YES", p[1], "under_ladder") : p \in Rungs(ms, "under")}
    \cup {Subset(p[1], "YES", p[2], "nplus_ladder") : p \in Rungs(ms, "plus")}
    \cup {Subset(p[1], "YES", p[2], "spread_ladder") : p \in Rungs(ms, "covers")}

\* Over and Under at one line are the two halves of the outcomes.
OverUnderComplement(ms) ==
    UNION {Basket("complement", "ou_complement", {Leg(p[1], "YES"), Leg(p[2], "YES")}, TRUE) :
           p \in {q \in ms \X ms :
                    /\ q[1].says = "over" /\ q[2].says = "under"
                    /\ q[1].event = q[2].event
                    /\ q[1].team = q[2].team
                    /\ q[1].number = q[2].number}}

\* "Not over t" with the exact counts above t; counts of all the game's events.
QuantityVsThreshold(ms) ==
    LET bins == {m \in ms : Kind(m) = "quantity_bin"}
        counts == {m.number : m \in bins}
        overs == {m \in ms : Kind(m) = "total" /\ m.says = "over"}
        high(over) == {b \in bins : b.number > over.number}
        contiguous == /\ Cardinality(counts) = Cardinality(bins)
                      /\ counts = Min(counts) .. Max(counts)
    IN IF Cardinality(bins) < 2 THEN {}
       ELSE UNION {Basket("quantity", "goals_quantity_vs_threshold",
                          {Leg(over, "NO")} \cup {Leg(b, "YES") : b \in high(over)}, contiguous) :
                   over \in {o \in overs : high(o) # {}}}

\* The market a dict keyed by line yields for the first line that is Good: the
\* first line in the order of discovery, the last market of that line.
FirstLine(list, says, Good(_)) ==
    LET of == SelectSeq(list, LAMBDA m : Kind(m) = "total" /\ m.says = says)
        good == {i \in DOMAIN of : Good(of[i].number)}
    IN IF good = {} THEN {}
       ELSE {of[Max({i \in DOMAIN of : of[i].number = of[Min(good)].number})]}

\* An exact score implies the total, and whether both teams scored.
ExactScoreSubsets(list) ==
    LET exacts == {m \in ToSet(list) : Kind(m) = "exact_score"}
        sum(ex) == ex.number[1] + ex.number[2]
        over(ex) == FirstLine(list, "over", LAMBDA n : n < sum(ex))
        under(ex) == FirstLine(list, "under", LAMBDA n : n >= sum(ex))
        btts == SelectSeq(list, LAMBDA m : Kind(m) = "btts")
        bothScored(ex) == ex.number[1] > 0 /\ ex.number[2] > 0
        scores(ex) ==
            IF btts = <<>> THEN {}
            ELSE IF bothScored(ex)
                 THEN {Subset(Head(btts), "YES", ex, "exact_score_implies_btts_yes")}
                 ELSE {Subset(Head(btts), "NO", ex, "exact_score_implies_btts_no")}
    IN UNION {{Subset(m, "YES", ex, "exact_score_implies_over") : m \in over(ex)}
              \cup {Subset(m, "YES", ex, "exact_score_implies_under") : m \in under(ex)}
              \cup scores(ex) : ex \in exacts}

InferForGame(list, g) ==
    LET ms == {m \in ToSet(list) : GameOf[m.event] = g}
    IN MoneylineComplement(ms) \cup Ladders(ms) \cup OverUnderComplement(ms)
       \cup QuantityVsThreshold(ms)
       \cup ExactScoreSubsets(SelectSeq(list, LAMBDA m : GameOf[m.event] = g))

\* infer_relations: game by game.
Relations(list) == UNION {InferForGame(list, g) : g \in {GameOf[m.event] : m \in ToSet(list)}}

-----------------------------------------------------------------------------
(* Sizing and validation at the asks of one scan.                          *)

Tokens(relations) == UNION {r.legs : r \in relations}

UnitCost(r, ask) == SumOver(r.legs, ask)

Edge(r, ask) == One - UnitCost(r, ask) - Buffer

\* best_basket_size on books of one level: the sizes whose edge and capital fit.
Sizes(r, ask) ==
    {s \in 1 .. Depth : /\ Edge(r, ask) >= MinEdge
                        /\ s * UnitCost(r, ask) \in MinTrade .. Min({MaxTrade, TotalCap})}

\* synthesize_states: what each of the states a relation is believed to have pays.
BelievedPayouts(r) ==
    IF r.type = "subset" THEN {One, 2 * One}  \* child; parent alone; neither
                         ELSE {One}           \* one leg wins

Validated(r, ask) == Min(BelievedPayouts(r)) - UnitCost(r, ask) - Buffer > 0

Opportunity(r, ask, size, edge, kind) ==
    [relation |-> r, kind |-> kind, size |-> size, cost |-> UnitCost(r, ask),
     capital |-> size * UnitCost(r, ask), edge |-> edge, profit |-> size * edge]

\* The opportunities whose size was found and whose states were validated.
Evaluate(relations, ask) ==
    {Opportunity(r, ask, Max(Sizes(r, ask)), Edge(r, ask),
                 IF r.safety = "clean" THEN "deterministic" ELSE "statistical") :
        r \in {q \in relations : Sizes(q, ask) # {} /\ Validated(q, ask)}}

\* _statistical_candidate: no size earns the edge, but the asks alone cost
\* little more than the payout.  Its states are not validated.
NearArbs(relations, ask) ==
    {Opportunity(r, ask, Min({Depth, MaxTrade \div UnitCost(r, ask)}), One - UnitCost(r, ask),
                 "statistical") :
        r \in {q \in relations : Sizes(q, ask) = {} /\ UnitCost(q, ask) \in 1 .. Near}}

-----------------------------------------------------------------------------
(* ExposureLimiter.  Nothing in the program records a profit or a loss or  *)
(* halts the limiter, so its daily loss cap never refuses and is left out. *)

EventsOf(opp) == {l.market.event : l \in opp.relation.legs}
EventKey(opp) == Slug[Min({i \in DOMAIN Slug : Slug[i] \in EventsOf(opp)})]
TeamKeys(opp) ==
    LET teams == TeamsOf[GameOf[EventKey(opp)]]
    IN IF teams = <<>> THEN {EventKey(opp)} ELSE ToSet(teams)
Subtype(opp) == opp.relation.subtype

CanEnter(opp) ==
    /\ ~ killed
    /\ byEvent[EventKey(opp)] + opp.capital =< EventCap
    /\ \A t \in TeamKeys(opp) : byTeam[t] + opp.capital =< TeamCap
    /\ byRelation[Subtype(opp)] + opp.capital =< RelationCap
    /\ total + opp.capital =< TotalCap

\* Mutant: only the last team of the match is charged.
CommitLastTeam(opp) ==
    /\ byEvent' = [byEvent EXCEPT ![EventKey(opp)] = @ + opp.capital]
    /\ byTeam' = [byTeam EXCEPT ![TeamsOf[GameOf[EventKey(opp)]][2]] = @ + opp.capital]
    /\ byRelation' = [byRelation EXCEPT ![Subtype(opp)] = @ + opp.capital]
    /\ total' = total + opp.capital
    /\ held' = held \cup {<<scans, opp>>}

Commit(opp) ==
    /\ byEvent' = [byEvent EXCEPT ![EventKey(opp)] = @ + opp.capital]
    /\ byTeam' = [t \in DOMAIN byTeam |->
                    IF t \in TeamKeys(opp) THEN byTeam[t] + opp.capital ELSE byTeam[t]]
    /\ byRelation' = [byRelation EXCEPT ![Subtype(opp)] = @ + opp.capital]
    /\ total' = total + opp.capital
    /\ held' = held \cup {<<scans, opp>>}

-----------------------------------------------------------------------------
Init ==
    /\ mode \in {"paper", "dry_run", "live"}
    /\ enabled \in SUBSET {"deterministic", "statistical"}
    /\ scans = 0
    /\ queue = {}
    /\ statistical = {}
    /\ buying = {}
    /\ byEvent = [e \in Events |-> 0]
    /\ byTeam = [t \in AllTeams |-> 0]
    /\ byRelation = [s \in Subtypes |-> 0]
    /\ total = 0
    /\ killed = FALSE
    /\ held = {}

\* scan_once up to its first order: a discovery, fresh or cached, and the books
\* of the tokens of every relation.  What is not executed stays in the report.
Scan ==
    /\ scans < MaxScans
    /\ queue = {} /\ statistical = {} /\ buying = {}
    /\ \E list \in Games :
        LET relations == Relations(list)
        IN \E ask \in [Tokens(relations) -> Price] :
            LET sized == Evaluate(relations, ask)
                clean == {o \in sized : o.kind = "deterministic" /\ "deterministic" \in enabled}
            IN /\ queue' = clean
               /\ statistical' = IF "statistical" \in enabled /\ mode # "live"
                                 THEN (sized \ clean) \cup NearArbs(relations, ask)
                                 ELSE {}
    /\ scans' = scans + 1
    /\ UNCHANGED <<mode, enabled, buying, limiter, killed, held>>

\* The next of _execute_all: the largest worst-case profit, then, after the last
\* opportunity, the largest return among the statistical candidates.
Takes(opp) ==
    \/ /\ \A other \in queue : opp.profit >= other.profit
       /\ opp \in queue
       /\ queue' = queue \ {opp}
       /\ UNCHANGED statistical
    \/ /\ queue = {}
       /\ \A other \in statistical : opp.edge * other.cost >= other.edge * opp.cost
       /\ opp \in statistical
       /\ statistical' = statistical \ {opp}
       /\ UNCHANGED queue

Execute(opp) ==
    /\ buying = {}
    /\ Takes(opp)
    /\ \/ /\ ~ CanEnter(opp) \/ mode = "dry_run"
          /\ UNCHANGED <<buying, limiter, held>>
       \/ /\ CanEnter(opp) /\ mode = "paper"
          /\ Commit(opp) /\ UNCHANGED buying
       \/ /\ CanEnter(opp) /\ mode = "live"
          /\ buying' = {opp} /\ UNCHANGED <<limiter, held>>
    /\ UNCHANGED <<mode, enabled, scans, killed>>

\* The live trader answers: a bundle that failed, even in part, is not charged.
BundleFilled(opp) ==
    /\ buying' = {}
    /\ Commit(opp)
    /\ UNCHANGED <<mode, enabled, scans, queue, statistical, killed>>

BundleRejected(opp) ==
    /\ buying' = {}
    /\ UNCHANGED <<mode, enabled, scans, queue, statistical, limiter, killed, held>>

\* The operator creates or removes the kill switch file, at any time.
KillSwitch ==
    /\ killed' = ~ killed
    /\ UNCHANGED <<mode, enabled, scans, queue, statistical, buying, limiter, held>>

Next ==
    \/ Scan
    \/ \E opp \in queue \cup statistical : Execute(opp)
    \/ \E opp \in buying : BundleFilled(opp) \/ BundleRejected(opp)
    \/ KillSwitch

Spec == Init /\ [][Next]_vars

-----------------------------------------------------------------------------
CapitalOf(entries) == SumOver(entries, [h \in entries |-> h[2].capital])

\* However many scans find the same edge again, what was entered for an event,
\* for a team across the events and games it plays in, for a kind of relation
\* and in all stays within its cap.
CapsHold ==
    /\ \A e \in Events : CapitalOf({h \in held : EventKey(h[2]) = e}) =< EventCap
    /\ \A t \in AllTeams : CapitalOf({h \in held : t \in TeamKeys(h[2])}) =< TeamCap
    /\ \A s \in Subtypes : CapitalOf({h \in held : Subtype(h[2]) = s}) =< RelationCap
    /\ CapitalOf(held) =< TotalCap

\* The bundle pays more than it cost, whatever the goals.
NeverLoses(opp) == \A o \in Outcome : Pays(opp.relation.legs, o) > opp.cost

OneProp == {"moneyline_3way", "over_ladder", "under_ladder", "ou_complement",
            "nplus_ladder", "spread_ladder"}

\* A relation built from one prop of one event is truly riskless: no score makes
\* an entered opportunity of it pay less than it cost, and a near-arb of it that
\* was entered (enable_statistical_arbs) loses at most what its asks exceeded the
\* payout by.  Winner markets that do not cover every outcome, which that option
\* lets in too, promise neither.
PropsNeverLose ==
    \A h \in held :
        LET opp == h[2] IN
        Subtype(opp) \in OneProp =>
            /\ opp.kind = "deterministic" => NeverLoses(opp)
            /\ opp.kind = "statistical" /\ opp.relation.safety = "clean" =>
                 \A o \in Outcome : opp.cost - Pays(opp.relation.legs, o) =< Near - One

\* The validator's promise: a deterministic trade is only made when its worst
\* case is profitable (state_validator.py, module docstring).
PayoutGuaranteed == \A h \in held : h[2].kind = "deterministic" => NeverLoses(h[2])
=============================================================================
