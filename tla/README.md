# Formal model of Polybitrage

Polybitrage watches the order books of prediction markets (Polymarket, Kalshi),
looks for pairs and N-leg bundles of outcomes that cost less than their
guaranteed payout, and enters them in paper or in live mode.  This directory
holds TLA+ modules translated from its source, the TLC configurations that
check them on small instances, and TLAPS proofs of the properties that matter
most.  All paths are relative to the repository.

## 1. Inventory

Everything in Python runs on one asyncio event loop (plus `to_thread` workers
for file writes, live orders and reports, and the threads of the Python feed
client); the Rust client runs its own Tokio tasks.  "Hard" names what a unit test
hardly reaches.  The last column names the modules, and what is left out is in
section 7.

| Component | State it keeps | Operations | Hard | Modules |
|---|---|---|---|---|
| Entry engine, `src/simulator.py` | `cash`, `positions`, three indexes over the open positions, `_inflight_entries`, `_pending_bg_actions`, last trade times | `_scan_once`, `_mark_positions`, `_bg_enter_pair`, `_bg_enter_n_leg`, `_try_enter`, `_try_enter_n_leg` | checks before an await and bookings after it; several tasks sizing from one account; shutdown with tasks in flight | `BackgroundEntry`, `EntryLedger`, `Capital` |
| Run loop, prefetch pipelines, `src/simulator.py` | two speculative prefetch tasks with their token sets, updated tokens, cached best N-leg | `_run_unlocked` | a finished prefetch consumed long after it was started | `Prefetch` |
| Dirty-set scan, `src/simulator.py` | scan plan, cached observations, cached best N-leg | `_scan_plan_for`, `_fast_observe_all` | an observation older than the book it was made from | `DirtyScan` |
| N-leg specs of a watchlist, `src/simulator.py` | thresholds and ranges of the plan | `_derive_range_threshold_n_leg_specs` | ranges that overlap or leave gaps | `RangeSpecs` |
| Run lock, `_RunLock` in `src/simulator.py` | lock file with a pid | `__enter__`, `__exit__` | two starts and a stale file; crash between create and write | `RunLock` |
| Polymarket live trader, `src/polymarket/live_trader.py` | session spend, presigned order cache | `buy_bundle_fok`, `prefetch_for_candidates` | concurrent bundles against one cap; one leg of a bundle failing | `LiveOrders` |
| Kalshi live trader and order entry, `src/kalshi/live_trader.py`, `fix_order_entry.py` | session spend, pending orders, session sequence numbers | `buy_bundle_fok`, `submit_fok_order`, read and heartbeat loops | a report after the timeout; a session lost under its orders | `FixSession`, `KalshiOrders` |
| Kalshi market data, `src/kalshi/fix_client.py`, `client.py` | books per ticker, sequence numbers | snapshot and incremental refresh, reconnect | resubscription, an overtaken REST answer, the YES and NO books of one ticker | `FixSession`, `KalshiFeed` |
| Book providers, `src/polymarket/order_book_provider.py`, `clob_ws_client.py`, `rust_clob_ws_client.py`, `rust_ws_client/src/lib.rs` | books per token with their receive time, subscriptions per slot, updated-token set | subscribe, apply snapshot or delta, seed, wait for updates | two feeds writing one book; resubscription during a reconnect; narrowing of the subscription | `WsFeed`, `DirtyScan` |
| Book model, `src/polymarket/models.py` | two sorted maps, four cached scalars | deltas, `replace_best_*`, setters | scalars kept by hand through every order of calls | `OrderBook` |
| Book snapshot, `src/book_snapshot.py` | a file | save, load | a copy while the feed writes; a crash while the file is written | `BookSnapshot` |
| Depth sizing, `src/fast/depth_optimizer.py`, `scan.pyx`, `_find_best_size`, `_find_best_n_leg_size` | none | size of best profit under a capital limit | off-by-one at level ends, levels without a size | `Sizing` |
| World Cup engine, `src/worldcup/` | exposures per event, team and relation, in all | classify, infer relations, size, validate, execute | relations that are not what they are taken for; caps over several scans | `WorldCup` |
| Signal bridge, `src/network/signal_bridge.py` | ids seen | send, receive, deduplicate | a lost, repeated or late datagram, clocks that differ | `SignalBridge` |
| Opportunity windows (audit), `src/simulator.py` | open windows | update, finalize | a window never closed | `windows` of `DirtyScan` |
| Fill-rate tracker, `src/fill_rate_tracker.py` | a window of outcomes per name | `record_outcome`, `confidence` | a gate that shuts itself for ever | none |
| Discovery and watchlists, `src/discovery.py`, `src/kalshi/discovery.py`, `src/polymarket/gamma_client.py` | candidate files | search, match, write | none that is concurrent | none |
| Audit, reports, profiling, metrics, health server, CLI | log files and counters | append, aggregate, print | pure I/O or arithmetic over finished runs | none |

How they interact: the run loop owns the provider and calls `_scan_once`; the
provider's feeds (tasks, threads or Rust tasks) write books that `_scan_once`
reads at its first await; `_scan_once` creates entry tasks that read fresh books
over REST, call a live trader when live, and write the account that the next scan
reads.  World Cup scans, Kalshi order entry and the signal bridge run on the same
loop.

## 2. The plan and the modules

The order was by importance to the money: the account first, then what is sent
to an exchange, then the books decisions are made from, then the parts around
them.

| Step | Modules | Proofs | Abstract specification or reference | Main properties |
|---|---|---|---|---|
| 1 | `BackgroundEntry`, `Capital` | `BackgroundEntryProofs`, `CapitalLemmas` | `EntryLedger` | solvency, no duplicates, caps, reservations come back |
| 2 | `Prefetch` | `RunProofs` | books are requested in the preceding wait | freshness and coverage of the books an entry is rechecked against |
| 3 | `RunLock` | `RunProofs` | mutual exclusion | one live bot per wallet but for counted races; a stale lock does not lock out |
| 4 | `LiveOrders` | `LiveOrdersProofs` | a spend counter | how far concurrent workers pass the session cap; whose orders a bundle sends |
| 5 | `WsFeed`, `OrderBook`, `BookSnapshot` | `FeedsProofs` | the exchange's book; the sum of a side's levels; the books a token had during a save | convergence of two feeds, scalars, whole snapshot files |
| 6 | `DirtyScan`, `Sizing`, `RangeSpecs` | `ScanProofs`, `RisklessProofs` | a full scan; every size; every settlement | cached observations are current, sizes are near the best, chains pay |
| 7 | `FixSession`, `KalshiOrders`, `KalshiFeed` | `KalshiOrdersProofs`, `FeedsProofs` | what the exchange did with an order; its book | answers are true, spend is what was filled, the overrun of the cap is bounded, numbers in order |
| 8 | `WorldCup`, `SignalBridge` | `RisklessProofs`, `FeedsProofs` | every score of a match | exposure caps, riskless relations, one action per signal |

`KalshiOrders` and `KalshiFeed` extend `FixSession`, as both clients repeat the
same connection loop.  `DirtyScan` composes the provider, the scan and the entry
tasks over a feed abstracted from `WsFeed`: a subscribed token's book is written
and then its token queued.  Two modules put parts side by side that share no
state, so that one run and one module of proofs can speak of them: `Feeds`
(`WsFeed`, `KalshiFeed`, `BookSnapshot` and `SignalBridge` as instances, beside
`OrderBook`) and `RisklessBundles` (`WorldCup` beside an instance of
`RangeSpecs`).  `MCDirtyScan` does the same with `DirtyScan` and `Sizing`.  In
their runs a behaviour is one of one part, and the others rest; what a theorem
says of a part is said of its own specification.

## 3. The modules in detail

A step of every module is the code between two awaits of one coroutine, or one
call of a worker thread or process into the system.  An operator under
a comment that starts with "Mutant:" is not part of the model: it is a wrong
version of the definition after it, used to see that a property can fail.

### BackgroundEntry (with Capital, EntryLedger)

The account and the tasks that write it.  State and code correspond by name:
`cash`, `positions` (the open ones), `nextTradeId`, `openPairNames`,
`openCount`, `openNLegNames` and `inflight` are the simulator's attributes, with
0 for an absent key; `realized` is the sum of the closed positions' profit;
`undrained` holds the names in `_pending_bg_actions`; `cooling` the pairs whose
last trade is younger than the cooldown; `task` the coroutines of
`_bg_enter_pair` and `_bg_enter_n_leg` with what they carry across an await.

| Action | Code |
|---|---|
| `ScanMark` | `_scan_once` from the return of `get_books` to the candidate loop: `_mark_positions`, `_maybe_close_position`, `_register_closed_position`, the drain of finished actions |
| `SpawnPair`, `FinishScan` | the candidate loop and the N-leg block, with the reservation each makes |
| `Start` | the first step of a task: guards, then either the REST await, or, with prefetched books or no recheck, sizing at once |
| `Rechecked` | after the REST answer: sizing from raw cash, then booking (paper) or the order await (live) |
| `Ordered` | after the order bundle: booking what was sized before the await |
| `CooldownEnds` | time |
| `Stop`, `Cancel` | the loop ends; `asyncio.run` cancels the tasks that are left |

Abstracted: prices, books and fees.  A recheck may refuse any candidate, an
accepted one may lock anything from the minimum to the limit the code computes,
a close may return anything that reaches a threshold.  The limits themselves
(`BaseLimit`, `PairLimit`, `NLegLimit`, `PairReserve`, `NLegReserve`) are
translated term by term, including which of them read raw cash and which the
effective cash.  Candidates are taken in any order; the code sorts by net cost.

`EntryLedger` is what a user is promised: a position is paid from cash there is
(or from credit), stays below its stake, and fits under a ceiling for all that is
locked and under caps on the number of positions; exclusive strategies are held
once; a settled position brings back what it was liquidated for.  The refinement
maps `openPairNames`-exclusivity to `Exclusive` and the open positions to
themselves; scanning, reserving, rechecking and cancelling are stutters.  The
ledger's constants say how far the interleaved engine is from a sequential one:

| Ledger | Paper mode | Live mode |
|---|---|---|
| `Stake` | `--max-trade-size`, raised by the resolution multiplier of the name if that is above one | the same |
| `Credit` | 0: sizing and booking are one step | a stake of every name, less one `--max-trade-size`: what others may have sized from the same cash while an order is awaited |
| `Ceiling` | `--max-total-locked-capital`, plus what the multiplier adds to the name's own stake | the same, plus the credit |
| `PerName` | `--max-open-positions-per-pair` | the same |
| `InAll` | `--max-open-positions` plus one less than the number of pairs: each of the tasks that passed the comparison together may add one | the same |

### Prefetch

The two requests the run loop leaves running while it waits for WebSocket
updates.  `Scan` is one `_scan_once` together with the launches that follow it
without an await; `AnswerPair` and `AnswerNLeg` are REST answers, each with any
part of the books asked for (`get_order_books` swallows errors of single
tokens); `Confirm` is an entry's recheck, with the books it holds or with its
own request; `End` is everything that ends an entry (what it books is in
`BackgroundEntry`).  A round number dates the answers; the code keeps no date,
which is what the properties are about.

### RunLock

`_RunLock.__enter__` and `__exit__`, one step per system call.  A file
remembers who created it, because a write goes to the file a process opened and
an unlink to whatever has the name.  `Start`, `Crash`, `OtherProgram` and
`Alive` are the operating system (external).  `seen` is `existing_pid`.
`contended` is a history variable: some other bot lived since this one was
started.  `outdated` (starts whose reading is of a file that is gone) and `races`
(files removed by such a start) are history too: they count what the code does
not prevent, and bots may be started at any time.  State and specification carry the lock's name (`LockInit`, `LockNext`,
`LockSpec`), as the module is extended together with `Prefetch`.

### LiveOrders

`LiveTrader._buy_bundle_fok_sync` in `to_thread` workers: `Check` compares the
caps, `Sign` takes a presigned order or signs one for a leg, `Post` sends the
bundle, of which the exchange fills any legs and whose responses may be lost,
`Count` adds the spend of a success.  `Presign` is one turn of
`PresignedOrderCache.prefetch_sync` in a worker of its own, `Age` the passing of
eight seconds for an entry, `EvictStale` runs on the loop.  Sizes are in tenths
of a share and prices in mills, so that the rounding of the key (to a share, to
a cent, halves to even) is in the model.  Python's `+=` on a float attribute is
one step: since CPython 3.10 no thread switch falls between its load and its
store, and the project requires 3.11.  `filled` counts the notional cap of every
leg the exchange has filled, `missed` (history) that of bundles that were no
success; the small difference that a rounded presigned order
makes is bounded by `OrdersMatchLegs`, not by `filled`.  A presigning worker that
still works on an older queue is left out: it writes the same kinds of entries.

### WsFeed

The two slots of the feed client, in both versions (`backend`).  A slot's loop
is `Dial`, `Connect`, `Subscribe`, then `HandleMessage` until `Notice` sees the
resubscription flag or `Disconnect` ends the connection, then `Resume`.  The
versions differ in what the code differs in: Rust clones the tokens before it
connects and lowers the flag afterwards, Python reads them when it sends; Rust
polls the flag, Python looks at it when a message has come and handles that
message after subscribing again; a Rust slot whose first send fails is `dead`.
`update_subscriptions` is two steps (`UpdateSubscriptions`, `RaiseFlags`) as the
slots run in other threads.  `ApplySnapshot`, `ApplyDelta`, `ApplyBba` and
`SeedBooks` are the four ways a book is written; a book is its ask side, each
level absent, sized, or put there by a best bid/ask event without a size.  The
exchange sends every change to every subscribed slot, in order per slot; `drift`
(history) holds the levels in which a REST answer was old when it was written,
each until a book or a change of it comes; a connection is lost with all that is still on it.  Pings and statistics are left
out.

### OrderBook

One action per mutation of `OrderBook` in `models.py`: `Load` (constructors and
setters), `Put` and `Take` (deltas), `ReplaceBest` with a size, `NewBest`
without one.  Each writes the two maps and the four scalars the way the code
does, with differences, never with a new sum.  `Load` takes what a list amounts
to: its prices, the last entry of each, and what the entries they overwrite add
up to, which goes into the depth and not into the map (`doubled` remembers it).
Prices are ticks, sizes whole
shares, so the rounding of float sums is left out.

### BookSnapshot

`_bg_save_book_snapshot` and `save_snapshot` in a worker thread, step by step:
shallow copy of the states, each book level by level (`CopyLevel`), stamp and temporary file, dump, replace;
failed writes; `Crash` anywhere; `Start` loads the file if it is young enough.
The feed changes maps in place (`Put`, `TakeOut`) or brings new ones
(`NewBook`).  The Python client goes on from the maps its tokens had when the save
began, whether they are live (`attached`) or have been replaced since (`old`);
the Rust client hands out a copy of each book at its turn.  A map that changes under the copier can lose a level, repeat one
or raise (`LevelGone`); the properties say what that may and may not lead to.

### FixSession, KalshiFeed, KalshiOrders

`FixSession` is the connection loop, the sender and the heartbeat loop that both
Kalshi clients have.  `Send(X)` is what several senders do in one turn of the
event loop: the number is read when a message is built and counted after
`drain()`, which returns at once unless the transport holds writers back
(`PauseWriting`, `ResumeWriting`).  A connection ends in three ways: it is lost
and noticed later (`Lose`, `Notice`; between them the client believes in a session
that is gone), the exchange logs it out (`ReadingEnds`, also the first message
after `close()`), or `close()` hangs up (`Close`, or `ResumeWriting` when its
logout was held back).  None of them ends the senders that await `drain()`
(`draining`): they are left behind (`straying`), and `Wake` one by one, by an
exception or by counting a message on whatever connection there is by then.
`shared` and `strayed` are histories of the two ways numbers go wrong.  The
clients differ in when they call themselves connected (`AwaitsLogon`).

`KalshiFeed` adds the books: snapshots and incrementals of the YES side that
write a NO book through the complement (`One - p`), REST seeds of one or both
sides of a ticker, and the subscriptions, asked for by `_run` after the logon
and by `update_subscriptions` at any time.  A book is the prices present.

`KalshiOrders` adds `buy_bundle_fok` of the Kalshi live trader: `Buy` compares
the cap, `Submit` writes all legs, each leg then waits for its report, its
timeout, or `close()`; `BundleReturns` is `gather` (all answered, or the first
raised while others go on).  The exchange decides an order once and reports it in
one or two messages; an order whose session is lost is decided all the same, and
nobody is told (`orphan`).  Every bundle has the same notional, which is the unit
of spend and of the cap; `beside` is history: the most that was under way beside
a bundle that was let in.

### DirtyScan

A scan with its awaits: `Plan` (dirty set, subscription, gaps), `Seeded`,
`ReadBooks`, `Polled`, `Observe` (scoring, marking, windows, entries and the
priority seed), `Wait`, and `Refresh` of the watchlist; the feed, background
entries and time move in between.  A book is its ask, low or high, and the class
of a pair follows from its asks: all low is executable, some low near.  The
N-leg spec stands for those derived from the whole watchlist.  Three history
variables say why an observation may differ from a full scan: `unasked` (scored
though nothing was asked for it), `overdue` (its book was held back as stale),
`reseeded` (a seed, which queues no token, changed its book).

### Sizing

The way of one bundle from its asks to a number of shares, in exact integer
arithmetic: the batch filter on best asks (`scan_classify_batch`), the full
observation, the pair optimizers in the version with a loop and the vectorised
one, the N-leg optimizer and the max-spend one.  Every rational is compared by
cross multiplication; the fee is a rate per leg.  Whole shares replace the
code's rounding to six decimals.  `ClassifyPair` and `ObservePair` are
`_fast_observe_all` and `_observe_pair`; `asks` are the books of the legs.
The candidate grid has `Grid` points (50 in the code).  `SizesNearBest` has three
named parts: `OptimizersAgree`, `PairSizeNearBest` and `NLegSizeNearBest`; the
last two speak of `Stretch`es, the sizes over a step of the grid, because a
single size between two points is really missed.

### RangeSpecs

`Collect` meets one pair of the watchlist and derives all specs anew: runs of
ranges each of which begins where the one before ends, between two thresholds
whose tokens are known.  The property compares with every settlement price and
with every chain.

### WorldCup

Markets are records of what their question says of the goals of an event; the
rules of the markets (`Holds`) are external; `Question` says what a question
may be, and is an assumption about the lists of markets (`QuestionsAssumption`).  `Kind` classifies, one operator
per builder of `relations.py` infers (`Ladders` holds the four of one shape),
`Sizes`, `Validated` and `Evaluate` are sizing, the state validator and
`_evaluate` at asks of one level per book, `NearArbs` is `_statistical_candidate`:
relations no size of which earns the edge, at up to `Near` of the payout,
unvalidated.  `Scan` chooses any list of markets
and any asks; what is deterministic goes to `queue`, and with
`enable_statistical_arbs`, outside live mode, the ambiguous bundles and the near
arbs go to `statistical`.  `Execute` takes the first by worst-case profit and then
the second by return, in paper, dry-run or live mode, where `BundleFilled` and `BundleRejected` answer later; the
operator's `KillSwitch` flips at any time.

### SignalBridge

Two clocks with a constant difference; `Send` stamps, `Receive` is any copy of a
datagram that took at least one tick: fresh by the distance of the two clocks
(so also when it seems to come from the future) and not remembered.  `Listen`
and `Stop` begin and end a protocol object.

## 4. What the runs check

| Run | Bounds | What it shows |
|---|---|---|
| `paper` | two pairs (one boosted, one damped), one N-leg spec, three tasks, budget 4, four trades | a name is reserved exactly while its task lives (`ReservationIffTask`); an outcome is drained before the next task for its name (`NoOutcomeMerged`); the engine implements `EntryLedger` without credit, so the account is never overdrawn (`ImplementsLedger`) |
| `multiple` | the same names, several positions per pair, incremental N-leg entries, locked cap 4, trade cap 2, position cap 2, budget 5, paper mode without a multiplier | `PerPairCap`, `CooldownHolds` (checked before the await only), `IndexesAgree`; by `ImplementsLedger` the locked cap holds, and the position cap is passed by less than the number of pairs |
| `live` | one pair, one N-leg spec, two tasks, live mode, budget 3 (one trade and a half), fairness | what the guards found stays true through both awaits (`PastTheCheck`, `NoDuplicateOpen`); cash and caps are passed by no more than the ledger's credit (`ImplementsLedger`); every reservation comes back (`ReservationReleased`) |
| `prefetch_pipelines` | a pair and two N-leg specs over shared tokens, three scans, every partial answer | `HeldCoversPair`, `HeldIsOfSpec`, `StaleOnlyAfterCold` |
| `run_lock` | three bots started at any time, three pids of which one also goes to other programs, crashes anywhere, no further start after two races | one bot trades, and at most one more for each race (`MutualExclusion`); `RefusalJustified`; every start comes to a decision (`StartDecides`) |
| `live_workers` | two workers, three legs (two of one token, rounding to one size), cap 4, bundles of up to 3, any leg unfilled, any response lost, 8 filled in all | `OverrunBounded`, `FilledIsCounted`, `OrdersMatchLegs` |
| `feeds` | `WsFeed`: one token with two levels, two slots, both backends, two events, one drop, one change of the subscription, one REST answer.  `KalshiFeed`: one ticker of prices 1 and 2, two quotes, one drop, pause, heartbeat, wish and REST answer.  `OrderBook`: three ticks, sizes up to 2, overwritten entries of up to 1, any sequence of mutations.  `BookSnapshot`: two tokens, two prices, both clients, two ticks, two writes.  `SignalBridge`: two ids, clocks from two behind to one ahead, nine ticks | two feeds end with the exchange's book, but for levels in which a REST answer was overtaken (`Converged`), and keep its sizes (`SizesKept`); a Rust slot misses a subscription only when it changes while the slot connects (`MissedOnlyWhileConnecting`); both Kalshi books mirror the exchange (`MirrorsExchange`), no wish is lost (`WishesSent`), numbers are in order but for shared and strayed ones (`SequenceHolds`); `ScalarsAgree`; the file found after any crash is whole and true (`SnapshotTrue`); a signal is acted on at most once (`AtMostOnce`) |
| `kalshi_orders` | a bundle of two legs and two of one, two orders in all, a cap of one bundle, one session lost or logged out, one full write buffer, fairness | what is said of an order is what the exchange did (`AnswersTrue`); what is counted was filled, and what was filled and not counted had lost an answer (`CountedIsFilled`); the cap is passed by no more than what was under way beside (`CapOverrun`); a posted bundle ends (`BundleEnds`) |
| `scan` | `DirtyScan`: two pairs that share a token, an N-leg spec over the outer two, three events.  `Sizing`: every two books of two prices with sizes up to 3 beside a third of one price, two capital limits, a grid of two points | a cached observation is that of a full scan, or it is known why not (`ObservationsCurrent`); a pair scored blindly is asked for in the next scan (`UnaskedOneScan`); the batch filter drops nothing that could be entered (`FilterLosesNothing`); the two optimizers agree, and no size better by a whole step of the grid is missed (`SizesNearBest`) |
| `worldcup` | `WorldCup`: twelve market lists over two games with a team in common, three scans, two asks (33 and 68 of 100: three legs and two are both either below the payout, just above it, or far above), near arbs up to 103, caps that two or three entries reach.  `RangeSpecs`: four numbers, chains of up to two ranges | `CapsHold`; a validated relation built from one prop of one event never loses, whatever the score, and a near arb of one loses no more than the near-arb margin (`PropsNeverLose`); `SpecsPay` |

Two runs end in a counterexample, section 6: `live_overspend` and
`worldcup_bins`.

Why the bounds are enough to be interesting.  `BackgroundEntry`: three tasks and
two pairs let two entries be in flight while a third is spawned, and the budget
covers one and a half of the largest trades, so the last one always competes for
cash; four trades allow an entry, its close, a second entry of the name and a
competitor.  Three prefetch rounds are the least in which an answer can be
launched, come in late, and be consumed one scan too late.  Two bots suffice for
each interference with the lock file; the third lets a stale file be there in
addition.  Two races
let three bots trade at once, which does happen.  With two workers and a cap of
one and a third bundles, both pass the
check when neither has counted.  In the feeds, two events and one seed let an
answer cross a delta and a delta of one slot cross that of the other; one drop
and one change of the subscription let a resubscription cross a reconnection; two
levels let a quote prune one and repeat the other.  Two snapshot writes are a
file and the one that replaces it.  With a bundle of two legs and two of one, of
which two orders are called, either a bundle can fail by one leg, or two bundles
share the session and the cap of one bundle, which both pass when neither has
counted; one drop and one pause meet at every point of an order's life, and let
its sender be held back on one connection and count on the next.  Two pairs that share a token are the
least in which a token has two pairs to dirty and a pair can be dirtied by half.
A grid of two points really misses sizes: stronger forms of `SizesNearBest`,
without the stretches, fail in that run.  The World Cup lists hold, for each builder, markets it must combine beside
markets it must not (another event of the game, another prop, another line).
The bridge's nine ticks are more than the time an id is remembered plus the
largest age.

`MaxTrades`, `MaxRounds`, `MaxFilled`, `MaxRaces`, `MaxEvents`, `MaxDrops`,
`MaxUpdates`, `MaxSeeds`, `MaxPauses`, `MaxBeats`, `MaxQuotes`, `MaxWishes`,
`MaxRest`, `MaxOrders`, `MaxTime`, `MaxWrites` and `MaxScans` are the only bounds
in guards; `MaxGain` bounds what a liquidation returns, `MaxSize` what a level
holds and `MaxDoubled` what overwritten entries of a list add up to.  A file
system that races for ever is cut at `MaxRaces`, which is why it does not appear
in the liveness of the lock.

Deadlock is not checked where the program may stop or a bound ends the
behaviour: the run loop ends with all tasks cancelled, and the models with
bounded events end when these are spent.

Fairness.  Safety never uses it.  `ReservationReleased` assumes weak fairness of
the scan (it does not await between its first spawn and its end) and strong
fairness of each task step: the loop runs ready callbacks first in, first out,
every REST call has the timeout of `ClobClient` (`clob_client.py:53`) and a
worker's result becomes a callback, so no task is passed over for ever, though a
scan may disable it again and again.  `StartDecides` assumes that the operating
system runs a process that can run; nobody has to exit or to crash, and a start
that never decides needs bots that are started (and killed) for ever.
`BundleEnds` assumes weak fairness of `Submit` and `BundleReturns` (ready
callbacks run), of `Timeout` (the clock of `wait_for` goes on), of `Released`
(TCP takes the bytes a full buffer holds, or the connection is lost) and of
`Woken` (the same of a connection that was left behind: its `drain()` returns or
raises).  The
exchange owes nothing: it may never decide, never report and never answer a
logon.

## 5. What is proved

TLAPS checks every theorem for all values of the constants that satisfy the
named assumptions of the modules.  `CapitalLemmas` gives the arithmetic: sums
over finite sets (`SumDisjoint`, `SumWithout`, `SumBounded`, `SumGrows`,
`SumScaled`), locked capital when positions are added or removed, the least of a
few limits, a percentage and what lies above a hundred, and that a finite set of numbers has a smallest and a
largest one (by well-founded induction).

- **BackgroundEntryProofs.**  `Inv` is `TypeOK` in three local parts with
  `ReservationIffTask`, `IndexesAgree`, `NoDuplicateOpen`, `PerPairCap`,
  `PastTheCheck`, fresh trade ids, and "paper never waits for an order, and then
  never overdraws".  The parts need each other: a duplicate is excluded because
  what was checked before the await still holds (`PastTheCheck`), which holds
  because no second task works on the name (`ReservationIffTask`), and the
  count never goes below zero because the indexes agree.  From it follow
  `TypeCorrect`, `ReservationExclusive`, `ChecksStayTrue`,
  `DuplicatesPrevented`, `IndexesConsistent`, `PairCapped`, the action property
  `CooldownRespected`, and, for paper mode, `PaperSolvent`.

  `EngineImplementsLedger` is the refinement, for both modes and any setting:
  initial states map to initial states, each step to a ledger step or a stutter.
  In live mode it needs a second invariant, `LimitInv`, as a sum that was sized
  before an await is booked after it.  `OrdersFit`: while orders are awaited, all
  that they will lock together (`Owed`, at most one order per name) is covered
  by cash and credit, and fits with what is locked under the cap and the credit.
  A new order is sized from cash there is, and every other that waits is of
  another name, so their stakes are the credit; a booking takes the same amount
  from `Owed` as from cash; a close only helps.  `CountFits`: the open pair
  positions, with one more for each pair whose task passed the comparison with
  `--max-open-positions` and has not ended, are fewer than that cap plus the
  number of pairs.  A task that passes the comparison finds the count below the
  cap and at most all other pairs already past it.  From the two follow
  `OpenOverrunBounded` and `OverdraftBounded`, which bound the damage of the
  disagreements of section 6.

  `PaperLockedCapped` sharpens the ceiling: concurrent tasks together never lock
  more than `--max-total-locked-capital`, in paper mode and when no pair's
  multiplier exceeds 100 percent (`NeverBoosted`): the room under the cap is read
  in the step that books, and every stake a sizing may choose fits into it.  Both
  hypotheses are needed (section 6).  `OutcomesDrained` rests on the guard of the
  spawn: a scan has drained before it spawns, so a name with an undrained outcome
  has no task.
- **RunProofs.**  The lock, with starts, exits and crashes in any order and pids
  used again.  `MutualExclusion` is not inductive: a bot whose file was removed
  trades beside the next one and removes its file in turn when it exits.  So the
  invariant counts the `Strays`, bots (about to trade or trading) whose file is
  gone or another's: there are no more than races (`StraysCounted`), and besides
  them only the creator of the file.  A start whose reading is not outdated has
  read the pid that is in the file, and has probed its creator as dead
  (`ProbedIsDead`, which needs that the file of a bot that has written holds its
  own pid, `OwnPid`), so its unlink makes no stray; one that is outdated makes one
  at most and is counted.  `OneBot` follows for any finite number of bots.
  `LockTyped` and the action property `RefusalsJustified` are about the same
  behaviours; the latter speaks of starts that nobody contended:
  such a start is the only one under way (`Alone`), and the pid it probes is
  still the one in the file (`ProbesFile`).  The prefetch pipelines: `PairPipelineFresh` (the formula `HotIsFresh`,
  which no run checks), `CoverageChecked`, `SpecsKeptApart`, `StaleNeedsCold`,
  for every set of names and tokens; the invariant says in addition that no
  answer is dated after the last scan.
- **LiveOrdersProofs.**  `OrdersMatch` rests on the rounding lemma `RoundNear`;
  `OverrunBound` (n workers pass the cap by at most n - 1 bundles) and
  `FilledCounted` rest on sums over the committed workers, where a step of one
  worker changes the sum by its own amount (`OneWorker`).  Both cover bundles of which any
  legs fail and whose responses are lost: `FilledCounted` says that what is filled
  is what is counted, what is about to be, and what was `missed`, which is exactly
  where the session cap breaks (section 6); a part of a bundle never costs more
  than the whole (`PartNotional`).
- **KalshiOrdersProofs.**  The invariant has five parts: of an order, what its
  future and its result say is what the exchange decided, and every report still
  on its way says so too; of a bundle, how far it is says how far its orders
  are; an order that awaits `drain()` awaits that of one connection
  (`SendersTrue`); the spend is the number of the bundles that succeeded; and with
  what is under way it is within the cap and `beside` (`CapTrue`).  The second part
  needs that an order once ended stays as it is, and that only its bundle's
  `Submit` takes it out of "new".  `AnswersAlwaysTrue`, `CountedIsAlwaysFilled` and
  `OverrunIsBeside` follow, for any bundles, drops and pauses.
  `NumbersInOrder` has an invariant of its own (`Numbered`), of every connection:
  the client's number, with one for each sender held back on it, is the one the
  exchange waits for, with one for each sender of an earlier connection that has
  counted; while no number was shared at most one sender is held back.  That a
  sender of the session's own is none of an order's needs the assumption that no
  bundle is called "session" (`BundlesFinite`).
- **FeedsProofs.**  One invariant per part of `Feeds`, each about what is still
  on its way.
  - `OrderBook` (`SidesAgree`, `ScalarsAlwaysAgree`), for every number of ticks
    and any sizes: on each side the sizes are zero outside the levels, the best
    price is that of the first level and the depth the sum of the sizes and of
    what the last list had doubled; one lemma per mutation.
  - `WsFeed` (`FeedConverges`, `FeedKeepsSizes`): `Converged` speaks of the
    moment when all is delivered, so the invariant says it of every moment.  A
    message on a wire that no longer tells the truth about a level is followed
    on the same wire by one that decides the level anew (`Truthful`); a slot that
    is subscribed to a token whose book is missing has the book on its wire; and
    a level of a token on all slots is right unless some wire still has a message
    that decides it, or a REST answer was old in it and no such message has come
    since (`BooksRight`).  Two wires with different delays write one
    book: the step that handles an outdated message leaves the later one pending,
    which is what `BooksRight` asks for.  `SubscriptionsFollow` carries what a
    slot will know (`Told`) through the four states of its loop.
  - `KalshiFeed` (`FeedMirrors`, `WishesAlwaysSent`): the same argument with one
    wire, per side and price of a ticker, with the complement on the NO side; a
    wished ticker is in the subscription or in one of the two requests that are
    about to be sent.  `RequestsInOrder` repeats the argument of
    `NumbersInOrder` for the market data session.
  - `BookSnapshot` (`FileAlwaysTrue`): what the copier has of a book is an
    initial part of the ascending list of one of the books it had since the save
    began, or the map was changed under it; for that, the map the copier will read
    of each token still to come, the token's own or one it holds on to, is always
    among them (`Held`).  The file is a payload that was complete.  That a finite set of prices has an ascending list at all is
    proved by counting.
  - `SignalBridge` (`ActsAtMostOnce`), for any ids, times and clocks, when an id
    is remembered for at least twice the largest age and the receiver's clock is
    not behind by more than that age: an id that was acted on is remembered, or
    no copy of it can be fresh again.
- **ScanProofs.**  `ObservationsAlwaysCurrent`: between the choice of the dirty
  set and its scoring, everything with an updated token or without an observation
  is in the set (`Chosen`), and what the provider returned is the feed's book or
  is known to have changed since (`HeldTrue`); so what is scored is what a full
  scan would say, or the reason is recorded, and what is not scored had no token
  change.  `UnaskedAreAsked` (an action property) needs that only open pairs are
  ever scored unasked.  `BatchLosesNothing`: filling n shares costs at least n
  times the best ask and at most a dollar each (`WalkBounds`), the fee is concave,
  so the net cost of n pairs is at least that of one at the best asks
  (`NetOfMany`), and levels without a size only lower the best ask; a pair some
  number of which can be entered is therefore executable to the batch.  The
  theorem assumes `NearThreshold >= EntryThreshold`: the defaults are 1.02 and
  1.0 (`simulator.py:410`, `:413`), but nothing in the code enforces it, and the
  early rejection of `_observe_pair` would drop entries otherwise.
  `OptimizersAlwaysAgree`: a binary search in the cumulative sizes finds the
  level at which the walk stops, and pays the same for what is below it
  (`SearchWalks`), so both optimizers see the same costs of the same candidates
  and choose the same size; every candidate is a positive number
  (`CandidatesTyped`).  `SizesAlwaysFit`, with no hypothesis: what is bought is on
  the books of every leg, costs no less than the least trade and no more than the
  limit, and keeps the edge.  `SizesAlwaysNearBest` states the whole of
  `SizesNearBest`, for any grid and any books.  Two arguments meet in it.  Every
  stretch over a step of the grid that can be entered holds a candidate: its first
  size is at most the capital limit in shares, as every share costs at least the
  best asks (`CapReached`), so it is at most the top of the grid, and from one
  point of the grid to the next there are no more sizes than a stretch has
  (`GridNear`).  And the `CHOOSE` of a best candidate finds one: profits
  and returns are fractions over different denominators, compared by cross
  multiplication, which is a linear preorder (`FractionsRank`); with ties broken
  by size or by profit it still is (`TiesRank`), and a finite set that is ranked
  has a first element that nothing beats (`FirstOfBest`).
- **RisklessProofs.**  `ExposureCapped`: the counters of the limiter are the
  capital held under their keys (`CountersTrue`), an opportunity is charged once
  (`ChargedOnce`: what waits is not held yet), and while a bundle's answer is
  awaited nothing else is charged, so what was admitted still fits (`Room`).
  `OnePropRiskless`: by cases over the builders of `relations.py`, at every score
  some leg of a clean relation of one prop wins (three ways to end a match; an
  under and an over of nested lines; a rung that implies another), and the
  validator lets only those pass that cost less than one payout; a near arb that the
  validator never sees costs at most `Near` and is paid the same (`NearRiskless`);
  the rules of the
  markets enter by `QuestionsAssumption` (a match has two different teams, lines
  are whole numbers).  `NLegSpecsPay`: the specs are at every moment those
  derived from the thresholds and ranges met (`ChainInv`); in a chain of ranges
  each of which begins where the one before ends, every price is below the first
  bound, in one of the ranges or above the last.  That the ordered ranges are a
  list, and the windows over it the chains, is proved by counting.

`NumbersInOrder` states `SequenceHolds` for the session of `KalshiOrders`; the run
`feeds` checks it, as the other properties of `Feeds`, for the instances there.

Only model-checked: the liveness properties `ReservationReleased`, `StartDecides`
and `BundleEnds` (liveness under fairness is out of the prover's reach).  Not
claimed, because the code does not do it: that the size chosen is the best of all
sizes.  Candidates are the ends of levels and a grid, so a single size between two
of them may be better, and may be the only one that can be entered.

## 6. Where code and documentation disagree

Checked by a run (the finding in `PROJECT.json` quotes the text):

- `live_overspend`: in live mode two tasks size from the same cash and both book;
  by how much the account can be overdrawn is proved (`OverdraftBounded`).
- `worldcup_bins`: the state validator believes in states that the markets do
  not have, so a bundle it calls riskless pays nothing at three goals.

Each of the following has a formula that TLC refutes when it is given as
INVARIANT or PROPERTY in a configuration of the module:

- `OpenCap` with a small `MaxOpen` (`README.md:208`): `--max-open-positions` is
  read before the recheck is awaited and not again; tasks of one scan all pass,
  by less than the number of pairs (`OpenOverrunBounded`).
- `LockedCap` and `EntryCap` with `SizePct` above 100 (`README.md:207`, `:206`): the
  resolution multiplier is applied after the caps; by how much they are passed
  is the `Stake` and the `Ceiling` of the ledger.
- `SessionCap` of `LiveOrders` (`README.md:290`): fills of a
  bundle that failed as a whole are not counted, and two workers pass the cap
  together.
- `MutualExclusion` without its term `races` (`README.md:291-292`): two starts
  that overlap, and a stale file, end with two bots.
- `FreshWhileBest` (`simulator.py:1338`): while the best N-leg spec has an entry
  in flight its books are not requested again, and every following entry
  consumes the old answer.
- `WatchedStaySubscribed` (`docs/ARCHITECTURE.md:41-42`, "both subscribe to all
  tokens"): `get_books` replaces the subscription by the tokens of one dirty scan.
- `SeedsAreScored` (`simulator.py:1863-1864`): a seed queues no token, so what it
  changed waits for the next update of the pair.
- `AutoReconnect` (`docs/ARCHITECTURE.md:42`): a Rust slot whose first send fails
  ends (`lib.rs:522-525`).
- `HeartbeatAlive` with `AwaitsLogon` (`fix_order_entry.py:118`, "maintains a
  persistent FIX session"): the heartbeat loop runs before the logon is answered,
  finds itself not connected, and ends.
- `SnapshotRebuilds` (`fix_client.py:391`): a snapshot without levels leaves the
  old book (`:515-516`).

Met while modelling, without a formula of their own:

- Entry engine: N-leg entries neither check nor count towards
  `--max-open-positions`; the multiplier, because the task's own reservation is
  deducted from the effective cash it is cut back to, may shrink the limit when
  it is above one; tasks size from raw cash, so one may spend what another
  reserved; partial live fills are not charged to any exposure; the code for
  "limits hit" in the candidate loop follows a `continue` and is not reached; the
  fixed sizing mode books at the best ask whatever the depth
  (`simulator.py:2377-2380`); the fill-rate gate skips without recording, so a
  gate that shut stays shut for all but unusual edges.
- Prefetch: a pair prefetch is neither dated nor dropped, so a pair that comes
  back after a scan without near pairs is rechecked against an old answer; legs
  REST did not answer for are rechecked with the scan's own WebSocket books.
- Run lock: a bot killed between creating the lock file and writing its pid
  leaves an empty file that refuses every later start, and a bot restarted under
  its predecessor's pid (usual in a container) takes its own pid for a running
  bot.
- Live traders: a presigned order for 10 shares is sent for a leg of 10.4; on
  Kalshi too the cap is compared before the legs are awaited and counted after
  (`live_trader.py:126`, `:157`), so bundles that overlap pass it, by how much
  `CapOverrun` says; the simulator
  creates the Kalshi trader but never awaits its `start()`
  (`simulator.py:1092-1109`): as `docs/KALSHI_SUPPORT.md:20` says, no Kalshi
  order is placed, though the code to place it is there.
- FIX sessions: senders that are held back by a full buffer share a number, and a
  sender left behind by a logout counts on the next connection, so that the
  exchange reads a number twice or misses one; `close()` of a client whose `_run`
  has cleared `_writer` while the logout was drained raises
  (`fix_order_entry.py:192`) and leaves the pending orders to their timeouts.
- Books: a REST answer that a delta has overtaken replaces the newer book, and
  the levels it is wrong in stay wrong until a book or a change of them comes
  (`drift` of `WsFeed`).  A best bid/ask event leaves a level without size at the top, which the
  docstring of `replace_best_bid` says the depth filter rejects (`models.py:286`);
  `_observe_pair` looks at the total depth only.  The Python snapshot copy may
  list a price twice or miss one when the feed writes the map it copies
  (`clob_ws_client.py:224` calls the copy safe), and the constructor that reads a
  list with a price twice counts both entries in the depth (`models.py:155-174`).
- World Cup: nothing calls `record_pnl` or `halt`, so `max_daily_loss`
  (`docs/WORLDCUP.md:85`) never refuses; exact-score and both-teams relations mix
  the events of a game, such as its first half, with the full match; with
  `enable_statistical_arbs` a basket of winner markets that do not cover every
  outcome is entered in paper mode like a covered one.
- Range specs: labels are reduced to their digits; a range nested in another
  hides the chains that pass it.
- Signal bridge: a receiver whose clock is behind by more than the largest age
  may forget an id in the very instant a copy of that age comes.

## 7. Not modelled

- Fill-rate tracker: a sliding window with a fixed rule per name; it gates
  candidates before `BackgroundEntry` spawns them, which takes any.
- Resolution model: arithmetic over dates; its result is the constant `SizePct`.
- Discovery and watchlists: one-shot searches over HTTP answers and text
  matching, without concurrency or state that outlives a call.
- Audit files, reports, profiling, metrics, the health server and the command
  line: they write or print, and nothing reads them back into trading.
- Text, numbers and signatures: JSON, FIX and datagram parsing, float rounding,
  credentials, TLS.
- Of the Kalshi REST client, paging and market listing; of the polling provider,
  everything but the answer it gives.
- Of the World Cup engine, player props, overrides from a file and its logs.

Prices, depth, fees and dates enter `BackgroundEntry` as nondeterministic choices
or constants; they have modules of their own (`OrderBook`, `Sizing`).  The
watchlist refresh is an action of `DirtyScan`; in `BackgroundEntry`, where it only
drops the pair of an open position from the plan, it is covered by never closing
that position.
