----------------------------- MODULE LiveOrders ------------------------------
(***************************************************************************)
(* LiveTrader and PresignedOrderCache of src/polymarket/live_trader.py.    *)
(* Every bundle is bought by a to_thread worker, so bundles of different   *)
(* strategies run side by side: each checks the session cap, takes or      *)
(* signs an order per leg, posts them together and adds to the session's   *)
(* spend when every leg was filled.  Another worker signs orders ahead.    *)
(*                                                                         *)
(* A fill-or-kill order is filled or not, each leg for itself.  CPython    *)
(* runs `+=` on the spend without switching threads.                       *)
(***************************************************************************)
EXTENDS Capital

CONSTANTS
  Thread,        \* to_thread workers
  Leg,           \* LiveOrderLegs: size in tenths, price in mills, capped notional
  Bundle,        \* sets of legs that a strategy buys together
  MaxSession,    \* --live-max-session-spend
  MaxLegs,       \* --live-max-legs-per-bundle
  MaxBundle,     \* bound: notional of the largest bundle
  Offset,        \* _PRESIGN_TICK_OFFSETS
  MaxFilled      \* bound: filled notional at which no further bundle is made

ASSUME ConstantsAssumption ==
  /\ IsFiniteSet(Thread) /\ Thread # {}
  /\ \A l \in Leg : {l.size, l.price, l.cap} \subseteq Nat \ {0}
  /\ \A B \in Bundle : B \subseteq Leg /\ IsFiniteSet(B) /\ B # {}
  /\ {MaxSession, MaxLegs, MaxBundle, MaxFilled} \subseteq Nat
  /\ Offset \subseteq -1 .. 1

\* leg.notional_cap summed over a set of legs
Notional(B) == SumOver(B, [l \in B |-> l.cap])

ASSUME BundleAssumption == \A B \in Bundle : Notional(B) \in 1 .. MaxBundle

VARIABLES
  spend,     \* self.session_requested_spend
  filled,    \* what the exchange has filled, at the limit prices
  missed,    \* history: fills of bundles that were not filled as a whole and answered
  cache,     \* self._presigned._cache: the keys it holds, and which are fresh
  queue,     \* simulator's _live_presign_queue
  thread     \* the workers in _buy_bundle_fok_sync

vars == <<spend, filled, missed, cache, queue, thread>>

\* round(n / 10), halves to even
Round10(n) == LET q == n \div 10  r == n % 10
              IN IF r > 5 \/ (r = 5 /\ q % 2 = 1) THEN q + 1 ELSE q

\* (token_id, round(limit_price * 100), round(size))
Key(l, offset) == [token |-> l.token, tick |-> Round10(l.price) + offset,
                   size |-> Round10(l.size)]

Keys == {Key(l, o) : l \in Leg, o \in {0} \cup Offset}

\* An order as signed: for a leg, at a price and a size, from an entry that
\* was younger than _PRESIGN_MAX_AGE_S when it was looked up.
Order == [leg : Leg, price : Nat, size : Nat, fresh : BOOLEAN]

Thread0 == [pc |-> "idle", legs |-> {}, orders |-> {}]

TypeOK ==
  /\ {spend, filled, missed} \subseteq Nat
  /\ cache \in [held : SUBSET Keys, fresh : SUBSET Keys] /\ cache.fresh \subseteq cache.held
  /\ queue \in Bundle \cup {{}}
  /\ thread \in [Thread -> [pc : {"idle", "checking", "signing", "counting"},
                            legs : Bundle \cup {{}}, orders : SUBSET Order]]

Init ==
  /\ spend = 0 /\ filled = 0 /\ missed = 0
  /\ cache = [held |-> {}, fresh |-> {}] /\ queue = {}
  /\ thread = [t \in Thread |-> Thread0]

Becomes(t, th) == thread' = [thread EXCEPT ![t] = th]

\* _execute_live_buy_bundle queues the legs for signing ahead and starts a worker.
Submit(t, B) ==
  /\ thread[t].pc = "idle" /\ filled < MaxFilled
  /\ queue' = B
  /\ Becomes(t, [Thread0 EXCEPT !.pc = "checking", !.legs = B])
  /\ UNCHANGED <<spend, filled, missed, cache>>

\* Mutant: the cap is compared with what is already spent.
WithinCapsSoFar(B) == Cardinality(B) <= MaxLegs /\ spend <= MaxSession

WithinCaps(B) == Cardinality(B) <= MaxLegs /\ spend + Notional(B) <= MaxSession

Check(t) ==
  /\ thread[t].pc = "checking"
  /\ Becomes(t, IF WithinCaps(thread[t].legs) THEN [thread[t] EXCEPT !.pc = "signing"]
                ELSE Thread0)
  /\ UNCHANGED <<spend, filled, missed, cache, queue>>

\* Mutant: lookup does not look at the age of an entry.
HitAnyAge(l) == Key(l, 0) \in cache.held

\* lookup: the entry for the leg, if it is young enough; a stale one is dropped.
Hit(l) == Key(l, 0) \in cache.fresh

Signed(l) == IF Hit(l)
             THEN [leg |-> l, price |-> 10 * Key(l, 0).tick, size |-> 10 * Key(l, 0).size,
                   fresh |-> Key(l, 0) \in cache.fresh]
             ELSE [leg |-> l, price |-> l.price, size |-> l.size, fresh |-> TRUE]

Unsigned(t) == {l \in thread[t].legs : \A o \in thread[t].orders : o.leg # l}

Sign(t, l) ==
  /\ thread[t].pc = "signing" /\ l \in Unsigned(t)
  /\ Becomes(t, [thread[t] EXCEPT !.orders = @ \cup {Signed(l)}])
  /\ cache' = IF Hit(l) THEN cache ELSE [cache EXCEPT !.held = @ \ {Key(l, 0)}]
  /\ UNCHANGED <<spend, filled, missed, queue>>

\* Signing fails, or evict_stale deletes the entry that lookup is deleting.
SignFails(t) ==
  /\ thread[t].pc = "signing" /\ Unsigned(t) # {}
  /\ Becomes(t, Thread0)
  /\ UNCHANGED <<spend, filled, missed, cache, queue>>

\* The exchange fills the legs in done, and the responses say so unless they
\* are lost.  Only a success is counted.
Posted(t, done, success) ==
  /\ filled' = filled + Notional(done)
  /\ missed' = IF success THEN missed ELSE missed + Notional(done)
  /\ Becomes(t, IF success THEN [thread[t] EXCEPT !.pc = "counting"] ELSE Thread0)
  /\ UNCHANGED <<spend, cache, queue>>

\* Mutant: any response that reports a fill makes the bundle a success.
PostAnyFilled(t) ==
  /\ thread[t].pc = "signing" /\ Unsigned(t) = {}
  /\ \E done \in SUBSET thread[t].legs, answered \in BOOLEAN :
       Posted(t, done, answered /\ done # {})

\* post_orders: a success is a response for every leg that reports a fill.
Post(t) ==
  /\ thread[t].pc = "signing" /\ Unsigned(t) = {}
  /\ \E done \in SUBSET thread[t].legs, answered \in BOOLEAN :
       Posted(t, done, answered /\ done = thread[t].legs)

Count(t) ==
  /\ thread[t].pc = "counting"
  /\ spend' = spend + Notional(thread[t].legs)
  /\ Becomes(t, Thread0)
  /\ UNCHANGED <<filled, missed, cache, queue>>

\* prefetch_sync signs an order for a queued leg unless a fresh one is there.
Presign(l, offset) ==
  /\ l \in queue /\ Round10(l.size) > 0
  /\ Key(l, offset).tick \in 1 .. 99 /\ Key(l, offset) \notin cache.fresh
  /\ cache' = [held |-> cache.held \cup {Key(l, offset)},
               fresh |-> cache.fresh \cup {Key(l, offset)}]
  /\ UNCHANGED <<spend, filled, missed, queue, thread>>

\* _PRESIGN_MAX_AGE_S pass for an entry.
Age(k) ==
  /\ k \in cache.fresh
  /\ cache' = [cache EXCEPT !.fresh = @ \ {k}]
  /\ UNCHANGED <<spend, filled, missed, queue, thread>>

EvictStale ==
  /\ cache.held # cache.fresh
  /\ cache' = [cache EXCEPT !.held = cache.fresh]
  /\ UNCHANGED <<spend, filled, missed, queue, thread>>

Next ==
  \/ \E t \in Thread :
       \/ \E B \in Bundle : Submit(t, B)
       \/ Check(t) \/ SignFails(t) \/ Post(t) \/ Count(t)
       \/ \E l \in thread[t].legs : Sign(t, l)
  \/ \E l \in queue, o \in Offset : Presign(l, o)
  \/ \E k \in cache.fresh : Age(k)
  \/ EvictStale

Spec == Init /\ [][Next]_vars

-----------------------------------------------------------------------------
(***************************************************************************)
(* Properties                                                              *)
(***************************************************************************)

Requested(t) == Notional(thread[t].legs)
Committed == {t \in Thread : thread[t].pc \in {"signing", "counting"}}

\* Workers check the cap against what is counted so far, so together they may
\* pass it, but by no more than one bundle for each further worker.
OverrunBounded ==
  spend + SumOver(Committed, [t \in Committed |-> Requested(t)])
    <= MaxSession + (Cardinality(Thread) - 1) * MaxBundle

\* The session's spend and what the exchange has filled differ by the workers
\* that are about to count, and by the fills of bundles of which a leg failed or
\* the responses were lost, which the cap never sees; nothing is counted twice
\* and no bundle that failed is counted.
FilledIsCounted ==
  LET about == {t \in Thread : thread[t].pc = "counting"}
  IN filled = spend + missed + SumOver(about, [t \in about |-> Requested(t)])

\* Whatever the cache holds when a bundle is signed, its orders are for its own
\* legs, within half a cent and half a share, and not older than 8 seconds.
OrdersMatchLegs ==
  \A t \in Thread : \A o \in thread[t].orders :
    /\ o.leg \in thread[t].legs /\ o.fresh
    /\ o.price - o.leg.price \in -5 .. 5 /\ o.size - o.leg.size \in -5 .. 5

\* What a session buys stays below --live-max-session-spend.
\* Does not hold: README.md, section 6.
SessionCap == filled <= MaxSession
=============================================================================
