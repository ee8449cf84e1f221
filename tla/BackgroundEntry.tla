--------------------------- MODULE BackgroundEntry ---------------------------
(***************************************************************************)
(* The entry engine of PaperArbSimulator (src/simulator.py): the scan      *)
(* coroutine marks positions and spawns one asyncio task per executable    *)
(* candidate, each task rechecks the candidate over REST and books a       *)
(* position.  Everything runs on one event loop, so a step below is the    *)
(* code between two awaits; what a coroutine computed before an await and  *)
(* uses after it is kept in its task record.                               *)
(*                                                                         *)
(* Money is counted in whole units.  Order books, prices and fees are      *)
(* abstracted: a recheck may refuse any candidate, and an accepted one may *)
(* lock any capital from MinTrade to the limit the code computed.          *)
(***************************************************************************)
EXTENDS Capital

CONSTANTS
  Pair,              \* names of two-leg strategies (PairConfig.name)
  NLeg,              \* names of N-leg specs (NLegOpportunitySpec.name)
  NoName,            \* no candidate
  Task,              \* slots for background asyncio tasks
  Budget,            \* --budget
  MinTrade,          \* --min-trade-size
  MaxTrade,          \* --max-trade-size
  FractionPct,       \* --capital-fraction-per-trade, in percent
  LegCount,          \* legs of every N-leg spec
  MaxOpen,           \* --max-open-positions (out of reach: None)
  MaxOpenPerPair,    \* --max-open-positions-per-pair (out of reach: None)
  MaxLocked,         \* --max-total-locked-capital (out of reach: None)
  AllowMultiple,     \* --allow-multiple-open-per-pair
  AllowIncremental,  \* --allow-incremental-n-leg
  RestRecheck,       \* --entry-rest-recheck
  LiveMode,          \* --execution-mode live
  ClosesOnConvergence, \* --exit-mode close_when_edge_converges
  TakeProfit,        \* least gain at which a position is closed
  StopLoss,          \* least loss at which a position is closed
  SizePct,           \* resolution-time multiplier of each pair, in percent
  MaxGain,           \* bound: most a liquidation returns above the capital
  MaxTrades          \* bound: trades entered or under way in a behaviour

Name == Pair \cup NLeg

ASSUME ConstantsAssumption ==
  /\ Pair \cap NLeg = {} /\ NoName \notin Name
  /\ IsFiniteSet(Pair) /\ IsFiniteSet(NLeg) /\ IsFiniteSet(Task)
  /\ Budget \in Nat /\ MinTrade \in Nat \ {0} /\ MaxTrade \in Nat
  /\ FractionPct \in Nat /\ LegCount \in Nat \ 0..2
  /\ MaxOpen \in Nat /\ MaxOpenPerPair \in Nat /\ MaxLocked \in Nat
  /\ {AllowMultiple, AllowIncremental, RestRecheck} \subseteq BOOLEAN
  /\ {LiveMode, ClosesOnConvergence} \subseteq BOOLEAN
  /\ TakeProfit \in Nat \ {0} /\ StopLoss \in Nat \ {0}
  /\ SizePct \in [Pair -> Nat] /\ MaxGain \in Nat /\ MaxTrades \in Nat

VARIABLES
  running,       \* the main loop has not left its `while True`
  phase,         \* "idle": any ready coroutine may run; "spawning": the scan runs
  executable,    \* candidates of the current scan not yet considered
  bestNLeg,      \* best_n_leg of the current scan if its edge is positive, or NoName
  cash,          \* self.cash
  realized,      \* realized_pnl summed over the closed positions
  positions,     \* the open PaperPositions
  nextTradeId,   \* self._next_trade_id
  openPairNames, \* self.open_pair_names
  openCount,     \* self.open_count_by_pair, 0 for an absent key
  openNLegNames, \* self._open_n_leg_names
  cooling,       \* pairs whose last trade is younger than the cooldown
  inflight,      \* self._inflight_entries, 0 for an absent key
  task,          \* the background coroutines
  undrained      \* names with an action in self._pending_bg_actions

scanVars == <<running, phase, executable, bestNLeg>>
bookVars == <<cash, realized, positions, nextTradeId, openPairNames, openCount,
              openNLegNames, cooling>>
vars == <<scanVars, bookVars, inflight, task, undrained>>

(***************************************************************************)
(* A task is created ("ready"), may wait for the REST recheck ("fetching") *)
(* and in live mode for the order bundle ("ordering").  held is the        *)
(* capital figure its coroutine carries across the await: an N-leg's       *)
(* max_capital while fetching, the chosen locked_capital while ordering.   *)
(***************************************************************************)
NoTask == [pc |-> "none", name |-> NoName, prefetched |-> FALSE, held |-> 0]
TaskState == {NoTask} \cup [pc : {"ready", "fetching", "ordering"}, name : Name,
                           prefetched : BOOLEAN, held : Nat]
Position == [id : Nat, name : Name, locked : Nat]

Live == {t \in Task : task[t].pc # "none"}
OpenOf(n) == {q \in positions : q.name = n}

\* The sums the code takes over its dicts and lists whenever it needs them.
Reserved == SumOver(Name, inflight)
LockedNow == LockedIn(positions)
OpenPositionCount == SumOver(Pair, openCount)

EffectiveCash == cash - Reserved

-----------------------------------------------------------------------------
(* Capital limits.                                                         *)

\* The stake _scan_once reserves for a pair, and for an N-leg spec.
PairReserve ==
  Least({MaxTrade, Percent(EffectiveCash, FractionPct), EffectiveCash})
NLegReserve == Least({MaxTrade * LegCount, EffectiveCash})

\* Mutant: --max-total-locked-capital is not looked at.
BaseLimitUnlocked == Least({MaxTrade, Percent(cash, FractionPct), cash})

\* max_capital of _try_enter before the multiplier; it reads raw cash.
BaseLimit ==
  Least({MaxTrade, Percent(cash, FractionPct), cash, MaxLocked - LockedNow})

\* Mutant: the multiplied limit is not cut back to the cash there is.
PairLimitUncut(p) == Percent(BaseLimit, SizePct[p])

\* ... and after the time-to-resolution multiplier of pair p.
PairLimit(p) ==
  IF SizePct[p] = 100 THEN BaseLimit
  ELSE Least({Percent(BaseLimit, SizePct[p]), EffectiveCash})

Remaining == IF LockedNow <= MaxLocked THEN MaxLocked - LockedNow ELSE 0

\* Mutant: max_capital is what was reserved, --max-trade-size for every leg.
NLegLimitAllLegs == Least({MaxTrade * LegCount, Percent(cash, FractionPct), cash, Remaining})

\* max_capital of _try_enter_n_leg; it reads raw cash, too.
NLegLimit == Least({MaxTrade, Percent(cash, FractionPct), cash, Remaining})

\* Mutants: a guard of _try_enter is missing or off by one.
EntryAllowedTwice(p) ==
  OpenPositionCount < MaxOpen /\ openCount[p] < MaxOpenPerPair /\ p \notin cooling
EntryAllowedHot(p) ==
  /\ AllowMultiple \/ p \notin openPairNames
  /\ OpenPositionCount < MaxOpen /\ openCount[p] < MaxOpenPerPair

EntryAllowedUncounted(p) ==
  (AllowMultiple \/ p \notin openPairNames) /\ openCount[p] < MaxOpenPerPair /\ p \notin cooling

\* The guards of _try_enter that come before its first await.
EntryAllowed(p) ==
  /\ AllowMultiple \/ p \notin openPairNames
  /\ OpenPositionCount < MaxOpen
  /\ openCount[p] < MaxOpenPerPair
  /\ p \notin cooling

\* The guards of _try_enter_n_leg that come before its first await.
NLegAllowed(l) ==
  /\ AllowIncremental \/ l \notin openNLegNames
  /\ NLegLimit >= MinTrade

\* The capital _try_enter may choose once the recheck accepted the quote.
PairStakes(p) == IF BaseLimit < MinTrade THEN {} ELSE MinTrade .. PairLimit(p)

\* The capital _try_enter_n_leg may choose: the optimiser stays below the
\* limit read now, the scaling below the one held since before the await.  An
\* incremental entry buys only what exceeds the position already held.
NLegStakes(l, limit) ==
  (IF l \in openNLegNames THEN 1 ELSE MinTrade) .. Least({limit, NLegLimit})

Init ==
  /\ running = TRUE /\ phase = "idle" /\ executable = {} /\ bestNLeg = NoName
  /\ cash = Budget /\ realized = 0 /\ positions = {} /\ nextTradeId = 1
  /\ openPairNames = {} /\ openCount = [p \in Pair |-> 0]
  /\ openNLegNames = {} /\ cooling = {}
  /\ inflight = [n \in Name |-> 0]
  /\ task = [t \in Task |-> NoTask] /\ undrained = {}

-----------------------------------------------------------------------------
(* The scan coroutine, from the return of get_books to the end of          *)
(* _scan_once.  It does not await, so no task step interleaves with it.    *)

\* _maybe_close_position: the liquidation value v of q reaches a threshold.
Exits(q, v) == v - q.locked >= TakeProfit \/ q.locked - v >= StopLoss

\* Mutant: the name is discarded while other positions of the pair are open.
RegisterClosedForgets(Q) ==
  /\ openCount' = [p \in Pair |-> openCount[p] - Cardinality(Q \cap OpenOf(p))]
  /\ openPairNames' = openPairNames \ {q.name : q \in Q}

\* _register_closed_position for every position of Q.
RegisterClosed(Q) ==
  LET left(p) == openCount[p] - Cardinality(Q \cap OpenOf(p))
  IN  /\ openCount' = [p \in Pair |-> left(p)]
      /\ openPairNames' = {p \in openPairNames : left(p) > 0}

\* Mutant: the profit alone is credited.
CloseCreditsProfit(Q, value) ==
  /\ cash' = cash + SumOver(Q, value) - LockedIn(Q)
  /\ realized' = realized + SumOver(Q, value) - LockedIn(Q)
  /\ positions' = positions \ Q /\ RegisterClosed(Q)

\* _mark_positions closes the set Q of positions, q for the value value[q].
\* N_LEG:: positions have no observation under their name and stay open.
Close(Q, value) ==
  /\ cash' = cash + SumOver(Q, value)
  /\ realized' = realized + SumOver(Q, value) - LockedIn(Q)
  /\ positions' = positions \ Q
  /\ RegisterClosed(Q)

\* A scan spawns at most this many trades more (a bound, see MaxTrades).
Room == MaxTrades + 1 - nextTradeId - Cardinality(Live)

\* Mutant: the finished actions are read but not cleared.
DrainNothing == UNCHANGED undrained

\* The scan takes over every outcome the background tasks left behind.
Drain == undrained' = {}

\* _scan_once up to the loop over the executable candidates: mark and close
\* positions, drain the finished background actions, pick the candidates.
ScanMark ==
  /\ running /\ phase = "idle"
  /\ \E Q \in SUBSET {q \in positions : q.name \in Pair} :
       /\ ClosesOnConvergence \/ Q = {}
       /\ \E value \in [Q -> 0 .. MaxTrade + MaxGain] :
            /\ \A q \in Q : value[q] <= q.locked + MaxGain /\ Exits(q, value[q])
            /\ Close(Q, value)
  /\ executable' \in SUBSET Pair
  /\ bestNLeg' \in NLeg \cup {NoName}
  /\ Cardinality(executable') + Cardinality({bestNLeg'} \ {NoName}) <= Room
  /\ phase' = "spawning"
  /\ Drain
  /\ UNCHANGED <<running, nextTradeId, openNLegNames, cooling, inflight, task>>

\* asyncio.create_task: the coroutine for n starts later, from "ready".
Spawn(n, reserve) ==
  /\ inflight' = [inflight EXCEPT ![n] = reserve]
  /\ \E t \in Task \ Live, prefetched \in BOOLEAN :
       /\ prefetched => RestRecheck
       /\ task' = [task EXCEPT ![t] = [pc |-> "ready", name |-> n,
                                       prefetched |-> prefetched, held |-> 0]]

\* Mutant: a candidate with a task in flight is spawned again.
SpawnPairAgain(p) ==
  /\ phase = "spawning" /\ p \in executable
  /\ IF PairReserve >= MinTrade
     THEN Spawn(p, PairReserve) /\ executable' = executable \ {p}
     ELSE executable' = {} /\ UNCHANGED <<inflight, task>>
  /\ UNCHANGED <<running, phase, bestNLeg, bookVars, undrained>>

\* One turn of the candidate loop; the code takes candidates by net cost.
SpawnPair(p) ==
  /\ phase = "spawning" /\ p \in executable
  /\ \/ /\ inflight[p] > 0
        /\ executable' = executable \ {p}
        /\ UNCHANGED <<inflight, task>>
     \/ /\ inflight[p] = 0
        /\ PairReserve >= MinTrade
        /\ Spawn(p, PairReserve)
        /\ executable' = executable \ {p}
     \/ /\ inflight[p] = 0
        /\ PairReserve < MinTrade
        /\ executable' = {}
        /\ UNCHANGED <<inflight, task>>
  /\ UNCHANGED <<running, phase, bestNLeg, bookVars, undrained>>

\* The N-leg block that ends _scan_once.
FinishScan ==
  /\ phase = "spawning" /\ executable = {}
  /\ IF bestNLeg # NoName /\ inflight[bestNLeg] = 0 /\ NLegReserve >= MinTrade
     THEN Spawn(bestNLeg, NLegReserve)
     ELSE UNCHANGED <<inflight, task>>
  /\ phase' = "idle" /\ bestNLeg' = NoName
  /\ UNCHANGED <<running, executable, bookVars, undrained>>

-----------------------------------------------------------------------------
(* The background coroutines.                                              *)

\* Mutant: the reservation is not popped.
FinishKeepsReservation(t) ==
  /\ task' = [task EXCEPT ![t] = NoTask]
  /\ undrained' = undrained \cup {task[t].name}
  /\ UNCHANGED inflight

\* The `finally` of _bg_enter_pair and _bg_enter_n_leg, then the report.
Finish(t) ==
  /\ inflight' = [inflight EXCEPT ![task[t].name] = 0]
  /\ task' = [task EXCEPT ![t] = NoTask]
  /\ undrained' = undrained \cup {task[t].name}

\* A refusal, a failed recheck, a rejected order or an exception.
Skip(t) == Finish(t) /\ UNCHANGED bookVars

\* The booking that ends _try_enter.
BookPair(t, p, locked) ==
  /\ cash' = cash - locked
  /\ positions' = positions \cup {[id |-> nextTradeId, name |-> p, locked |-> locked]}
  /\ nextTradeId' = nextTradeId + 1
  /\ openPairNames' = openPairNames \cup {p}
  /\ openCount' = [openCount EXCEPT ![p] = @ + 1]
  /\ cooling' = cooling \cup {p}
  /\ UNCHANGED <<realized, openNLegNames>>
  /\ Finish(t)

\* The booking that ends _try_enter_n_leg: no count, no cooldown.
BookNLeg(t, l, locked) ==
  /\ cash' = cash - locked
  /\ positions' = positions \cup {[id |-> nextTradeId, name |-> l, locked |-> locked]}
  /\ nextTradeId' = nextTradeId + 1
  /\ openNLegNames' = openNLegNames \cup {l}
  /\ UNCHANGED <<realized, openPairNames, openCount, cooling>>
  /\ Finish(t)

Book(t, locked) ==
  LET n == task[t].name
  IN  IF n \in Pair THEN BookPair(t, n, locked) ELSE BookNLeg(t, n, locked)

\* Paper mode books at once; live mode first awaits the order bundle.
Commit(t, locked) ==
  IF LiveMode
  THEN /\ task' = [task EXCEPT ![t].pc = "ordering", ![t].held = locked]
       /\ UNCHANGED <<bookVars, inflight, undrained>>
  ELSE Book(t, locked)

\* From the recheck's answer to the end of the coroutine or the next await.
Size(t, limit) ==
  LET n == task[t].name
  IN  \/ Skip(t)
      \/ \E locked \in IF n \in Pair THEN PairStakes(n) ELSE NLegStakes(n, limit) :
           Commit(t, locked)

\* The first step of the coroutine, up to its first await.  With books that
\* were prefetched, or without the recheck, it goes on without awaiting.
Start(t) ==
  LET n == task[t].name
      allowed == IF n \in Pair THEN EntryAllowed(n) ELSE NLegAllowed(n)
      limit == IF n \in Pair THEN 0 ELSE NLegLimit
  IN  /\ phase = "idle" /\ task[t].pc = "ready"
      /\ \/ Skip(t)
         \/ /\ allowed /\ RestRecheck /\ ~task[t].prefetched
            /\ task' = [task EXCEPT ![t].pc = "fetching", ![t].held = limit]
            /\ UNCHANGED <<bookVars, inflight, undrained>>
         \/ /\ allowed /\ (task[t].prefetched \/ ~RestRecheck)
            /\ Size(t, limit)
      /\ UNCHANGED scanVars

\* get_order_books returned, or raised.
Rechecked(t) ==
  /\ phase = "idle" /\ task[t].pc = "fetching"
  /\ Size(t, task[t].held)
  /\ UNCHANGED scanVars

\* buy_bundle_fok returned: success books the position sized before the await.
Ordered(t) ==
  /\ phase = "idle" /\ task[t].pc = "ordering"
  /\ Skip(t) \/ Book(t, task[t].held)
  /\ UNCHANGED scanVars

-----------------------------------------------------------------------------
(* Time and shutdown.                                                      *)

\* cooldown_seconds_per_pair have passed since the last trade of p.
CooldownEnds(p) ==
  /\ p \in cooling
  /\ cooling' = cooling \ {p}
  /\ UNCHANGED <<scanVars, cash, realized, positions, nextTradeId, openPairNames,
                 openCount, openNLegNames, inflight, task, undrained>>

\* --once or --duration-minutes ends the loop; its tasks are not awaited ...
Stop ==
  /\ running /\ phase = "idle"
  /\ running' = FALSE
  /\ UNCHANGED <<phase, executable, bestNLeg, bookVars, inflight, task, undrained>>

\* ... and asyncio.run cancels what is left.  In a coroutine that had started
\* `finally` runs, the report does not; one that had not does nothing at all.
Cancel(t) ==
  /\ ~running /\ t \in Live
  /\ inflight' = IF task[t].pc = "ready" THEN inflight
                 ELSE [inflight EXCEPT ![task[t].name] = 0]
  /\ task' = [task EXCEPT ![t] = NoTask]
  /\ UNCHANGED <<scanVars, bookVars, undrained>>

TaskStep(t) == Start(t) \/ Rechecked(t) \/ Ordered(t)

Next ==
  \/ ScanMark \/ FinishScan \/ Stop
  \/ \E p \in Pair : SpawnPair(p) \/ CooldownEnds(p)
  \/ \E t \in Task : Start(t) \/ Rechecked(t) \/ Ordered(t) \/ Cancel(t)

Spec == Init /\ [][Next]_vars

\* The scan never awaits between its first spawn and its end, the event loop
\* runs ready callbacks first in, first out, and every REST call and order has
\* a timeout: no task is passed over for ever, whatever the scans do.
Fairness ==
  /\ WF_vars(FinishScan) /\ \A p \in Pair : WF_vars(SpawnPair(p))
  /\ \A t \in Task : SF_vars(TaskStep(t))
FairSpec == Spec /\ Fairness

-----------------------------------------------------------------------------
(* Properties.                                                             *)

TypeOK ==
  /\ running \in BOOLEAN /\ phase \in {"idle", "spawning"}
  /\ executable \subseteq Pair /\ bestNLeg \in NLeg \cup {NoName}
  /\ cash \in Int /\ realized \in Int
  /\ positions \subseteq Position /\ IsFiniteSet(positions)
  /\ nextTradeId \in Nat \ {0}
  /\ openPairNames \subseteq Pair /\ openCount \in [Pair -> Nat]
  /\ openNLegNames \subseteq NLeg /\ cooling \subseteq Pair
  /\ inflight \in [Name -> Nat] /\ task \in [Task -> TaskState]
  /\ undrained \subseteq Name

\* While the loop runs, a name is in _inflight_entries exactly while one
\* background task works on it, and no second task for it exists: the exclusion
\* that all the checks made before an await rely on.
ReservationIffTask ==
  /\ \A t \in Live : inflight[task[t].name] > 0
  /\ running => \A n \in Name :
       inflight[n] > 0 => \E t \in Live : task[t].name = n
  /\ \A t, u \in Live : task[t].name = task[u].name => t = u

\* The part of the entry guards that is about one name.
NameFree(n) ==
  /\ n \in Pair => /\ AllowMultiple \/ n \notin openPairNames
                   /\ openCount[n] < MaxOpenPerPair
                   /\ n \notin cooling
  /\ n \in NLeg => AllowIncremental \/ n \notin openNLegNames

\* What the entry checks found out about one name (not open, below its cap, not
\* cooling down) does not go stale while the recheck or the order is awaited.
PastTheCheck ==
  \A t \in Task : task[t].pc \in {"fetching", "ordering"} => NameFree(task[t].name)

\* "duplicate open pair prevented", "duplicate open N-leg prevented": the name
\* is looked up before the recheck is awaited and the position is booked after
\* it, yet two open positions never share a name.
NoDuplicateOpen ==
  \A q, r \in positions :
    q.name = r.name => \/ q = r
                       \/ IF q.name \in Pair THEN AllowMultiple ELSE AllowIncremental

\* The three indexes over self.positions agree with it, through every order of
\* entries and multi-position closes.
IndexesAgree ==
  /\ \A p \in Pair : openCount[p] = Cardinality(OpenOf(p))
  /\ openPairNames = {p \in Pair : OpenOf(p) # {}}
  /\ openNLegNames = {l \in NLeg : OpenOf(l) # {}}

\* The account is never overdrawn, however many tasks sized their entry while
\* others were waiting for their recheck.
CashNonNegative == cash >= 0

\* --max-open-positions-per-pair: checked before the await and never after.
PerPairCap == \A p \in Pair : Cardinality(OpenOf(p)) <= MaxOpenPerPair

\* --cooldown-seconds-per-pair: no entry into a pair is booked within the
\* cooldown, though it is checked before the await only.
CooldownHolds ==
  [][\A p \in Pair : openCount'[p] > openCount[p] => p \notin cooling]_vars

\* --max-total-locked-capital bounds the capital of all open positions.
LockedCap == LockedNow <= MaxLocked

\* --max-trade-size bounds the capital of every entry.
\* Holds without the resolution multiplier only: README.md, section 6.
EntryCap == \A q \in positions : q.locked <= MaxTrade

\* --max-open-positions bounds the number of open positions.
\* Does not hold: README.md, section 6.
OpenCap == Cardinality(positions) <= MaxOpen

\* A scan drains the last outcome of a name before a new task for it runs, so
\* a name never has two outcomes waiting in _pending_bg_actions.
NoOutcomeMerged == \A t \in Live : task[t].name \notin undrained

\* Reserved capital comes back: while the loop runs no path through a background
\* task, refused, failed, rejected or entered, keeps its reservation for ever.
ReservationReleased ==
  \A n \in Name : inflight[n] > 0 ~> inflight[n] = 0 \/ ~running

\* Most that an entry locks: --max-trade-size, and above it what the multiplier
\* of a pair makes of it.
Stake == [n \in Name |->
  IF n \in Pair /\ SizePct[n] > 100 THEN Percent(MaxTrade, SizePct[n]) ELSE MaxTrade]

\* In live mode an entry of every other name may have been sized from the same
\* cash and the same room; in paper mode it is booked in the step that sizes it.
Credit == IF LiveMode THEN SumOver(Name, Stake) - MaxTrade ELSE 0

(***************************************************************************)
(* The engine is an account (EntryLedger.tla).  In paper mode every entry  *)
(* is funded from cash and, but for the multiplier, stays within           *)
(* --max-trade-size and --max-total-locked-capital; in live mode all these *)
(* are passed by at most one stake of every other name.  In both modes an  *)
(* exclusive name has one position, --max-open-positions-per-pair holds    *)
(* and --max-open-positions is passed by less than the number of pairs.    *)
(***************************************************************************)
Ledger == INSTANCE EntryLedger WITH
  Strategy <- Name, open <- positions,
  Exclusive <- (IF AllowMultiple THEN {} ELSE Pair)
                 \cup (IF AllowIncremental THEN {} ELSE NLeg),
  Ceiling <- [n \in Name |-> MaxLocked + Stake[n] - MaxTrade],
  Counted <- Pair, PerName <- MaxOpenPerPair,
  InAll <- MaxOpen + Cardinality(Pair) - 1
ImplementsLedger == Ledger!Spec
=============================================================================
