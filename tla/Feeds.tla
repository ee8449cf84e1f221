-------------------------------- MODULE Feeds --------------------------------
(***************************************************************************)
(* What reaches the bot from outside: the Polymarket feed, the Kalshi      *)
(* feed, the order book both write to, the snapshot file of the books and  *)
(* the signal bridge.  They share no state, so what holds of one of them   *)
(* holds of it beside the others; each is an instance here under its name, *)
(* and the order book, which has no name, is extended.                     *)
(***************************************************************************)
EXTENDS OrderBook

CONSTANTS
  NoBook,         \* a token without a book
  MaxDrops,       \* bound: connections lost
  Token,          \* tokens of the Polymarket feed
  Level,          \* its ask prices
  Slot,           \* its connection slots
  MaxEvents,      \* bound: changes and quotes of the exchange
  MaxUpdates,     \* bound: changes of the subscription
  MaxSeeds,       \* bound: REST answers
  Ticker,         \* tickers of the Kalshi feed
  One,            \* the payout of a contract, in price steps
  MaxQuotes,      \* bound: changes of the exchange's books
  MaxWishes,      \* bound: changes of the subscription
  MaxRest,        \* bound: REST answers
  MaxPauses,      \* bound: times the write buffer is full
  MaxBeats,       \* bound: heartbeats and test requests
  SnapshotToken,  \* tokens of the snapshot file
  SnapshotPrice,  \* prices of its books
  SnapshotMaxAge, \* book_snapshot_max_age_s
  SnapshotTime,   \* bound: the clock
  MaxWrites,      \* bound: changes by the feed
  Signal,         \* ids of the signal bridge
  SignalMaxAge,   \* _MAX_AGE_NS
  Keep,           \* how long an id is remembered
  Skew,           \* bound: how far the receiver's clock may be ahead
  SignalTime      \* bound: the clock

VARIABLES
  backend, desired, raising, slot, wire, book, seed, exch, drift, left,
  link, connected, closing, seq, draining, straying, hb, paused, expected, orderly, shared, strayed,
  bound, kalshiDesired, asking, books, rest, subs, kalshiWire, kalshiExch, kalshiDrift, skipped, quota,
  client, running, maps, saver, todo, token, source, attached, list, payload, stamp, temp, file,
  loaded, torn, old, had, was, clock, writes,
  now, skew, sent, listening, seen, dispatched

Polymarket == INSTANCE WsFeed

\* Market data does not await the answer to its logon.
Kalshi == INSTANCE KalshiFeed WITH
  AwaitsLogon <- FALSE, desired <- kalshiDesired, wire <- kalshiWire, exch <- kalshiExch,
  drift <- kalshiDrift

Snapshot == INSTANCE BookSnapshot WITH
  Token <- SnapshotToken, Price <- SnapshotPrice, MaxAge <- SnapshotMaxAge,
  MaxTime <- SnapshotTime, book <- maps

Bridge == INSTANCE SignalBridge WITH
  Id <- Signal, MaxAge <- SignalMaxAge, MaxTime <- SignalTime

ASSUME FeedsAssumption ==
  /\ Slot # {} /\ Level \subseteq Nat
  /\ \A b \in [Level -> Polymarket!Sizes] : b # NoBook
  /\ One \in Nat \ {0, 1} /\ \A b \in Kalshi!Book : b # NoBook
  /\ SnapshotPrice \subseteq Int /\ IsFiniteSet(SnapshotPrice)
  /\ \A b \in SUBSET SnapshotPrice : b # NoBook

polymarketVars == <<backend, desired, raising, slot, wire, book, seed, exch, drift, left>>
kalshiVars ==
  <<link, connected, closing, seq, draining, straying, hb, paused, expected, orderly, shared,
    strayed, bound, kalshiDesired, asking, books, rest, subs, kalshiWire, kalshiExch, kalshiDrift, skipped, quota>>
snapshotVars ==
  <<client, running, maps, saver, todo, token, source, attached, list, payload, stamp, temp, file,
    loaded, torn, old, had, was, clock, writes>>
bridgeVars == <<now, skew, sent, listening, seen, dispatched>>

-----------------------------------------------------------------------------
(* The properties of the parts, explained in their modules.                *)

Converged == Polymarket!Converged
SizesKept == Polymarket!SizesKept
MissedOnlyWhileConnecting == Polymarket!MissedOnlyWhileConnecting
SequenceHolds == Kalshi!SequenceHolds
MirrorsExchange == Kalshi!MirrorsExchange
WishesSent == Kalshi!WishesSent
SnapshotTrue == Snapshot!SnapshotTrue
AtMostOnce == Bridge!AtMostOnce
=============================================================================
