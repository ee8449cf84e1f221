------------------------------ MODULE KalshiFeed ------------------------------
(***************************************************************************)
(* Kalshi market data over FIX: KalshiFixMarketDataClient of               *)
(* src/kalshi/fix_client.py, next to the REST books its provider seeds     *)
(* (src/kalshi/client.py).  The exchange quotes a ticker from its YES      *)
(* side; the client keeps a YES and a NO book, the one the complement of   *)
(* the other.  A book is the prices present on either side.                *)
(***************************************************************************)
EXTENDS FixSession, Sequences

CONSTANTS
  Ticker,
  One,       \* the payout of a contract, in price steps
  NoBook,    \* a token without a book
  MaxQuotes, \* bound: changes of the exchange's books
  MaxWishes, \* bound: changes of the subscription
  MaxRest    \* bound: REST answers

Price == 1 .. One - 1
Side == {"yes", "no"}
Book == [bids : SUBSET Price, asks : SUBSET Price]
Empty == [bids |-> {}, asks |-> {}]

VARIABLES
  desired,  \* _desired_tokens, by ticker
  asking,   \* the tickers _run and update_subscriptions still have to ask for
  books,    \* _states
  rest,     \* a REST answer on its way to seed_books
  subs,     \* the exchange: subscriptions of this connection
  wire,     \* the exchange: messages on this connection
  exch,     \* the exchange: the YES books
  drift,    \* history: seeded with an answer already overtaken
  skipped,  \* history: the last snapshot was empty and changed nothing
  quota     \* what is left of the bounds

vars == <<session, desired, asking, books, rest, subs, wire, exch, drift, skipped, quota>>
client == <<desired, asking>>
market == <<subs, exch>>
history == <<drift, skipped>>

\* The senders of _run and of update_subscriptions, each one task at a time.
Asks(by) == <<"asks", IF by = "run" THEN 1 ELSE 2>>
Awaiting(by) == Asks(by) \in draining \cup straying

Take(q) == quota[q] > 0 /\ quota' = [quota EXCEPT ![q] = @ - 1]

TypeOK ==
  /\ SessionTypeOK
  /\ draining \cup straying \subseteq {Beat, TestAnswer, Logout, Asks("run"), Asks("update")}
  /\ desired \subseteq Ticker /\ subs \subseteq Ticker
  /\ asking \in [{"run", "update"} -> SUBSET Ticker]
  /\ books \in [Ticker -> [Side -> Book \cup {NoBook}]]
  /\ rest \in [Ticker -> Book \cup {NoBook}] /\ exch \in [Ticker -> Book]

Init ==
  /\ SessionInit
  /\ desired \in SUBSET Ticker
  /\ asking = [by \in {"run", "update"} |-> {}]
  /\ books = [t \in Ticker |-> [s \in Side |-> NoBook]]
  /\ rest = [t \in Ticker |-> NoBook]
  /\ subs = {} /\ wire = <<>>
  /\ exch \in [Ticker -> {[bids |-> {1}, asks |-> {One - 1}]}]
  /\ drift = [t \in Ticker |-> FALSE] /\ skipped = [t \in Ticker |-> FALSE]
  /\ quota = [quotes |-> MaxQuotes, wishes |-> MaxWishes, rest |-> MaxRest]

-----------------------------------------------------------------------------
(* Books.                                                                  *)

Complement(P) == {One - p : p \in P}
Mirror(b) == [bids |-> Complement(b.asks), asks |-> Complement(b.bids)]
Sides(b) == [s \in Side |-> IF s = "yes" THEN b ELSE Mirror(b)]
Content(b) == IF b = NoBook THEN Empty ELSE b

\* Mutant: the NO book takes the prices of the YES book as they are.
SnapshotUnmirrored(t, b) ==
  IF b = Empty THEN books[t] ELSE [s \in Side |-> b]

\* _update_books_from_yes_side: a snapshot without levels leaves the books as they were.
Snapshot(t, b) == IF b = Empty THEN books[t] ELSE Sides(b)

Put(P, p, on) == IF on THEN P \cup {p} ELSE P \ {p}

\* The book b, empty if there is none, with level p on a side or without it.
Changed(b, side, p, on) ==
  LET present == Content(b) IN [present EXCEPT ![side] = Put(present[side], p, on)]

\* Mutant: a level of the YES side is applied to the YES book alone.
DeltaYesOnly(t, d) ==
  [books[t] EXCEPT !["yes"] = Changed(@, d.side, d.price, d.on)]

\* _apply_incremental_deltas: a YES bid is a NO ask at the complement.
Delta(t, d) ==
  LET opposite == IF d.side = "bids" THEN "asks" ELSE "bids"
  IN [books[t] EXCEPT
        !["yes"] = Changed(@, d.side, d.price, d.on),
        !["no"]  = Changed(@, opposite, One - d.price, d.on)]

\* There are levels that a snapshot without levels would have to take away.
Kept(t) == \E s \in Side : Content(books[t][s]) # Empty

\* The read loop starts when every ticker has been asked for.
Reading == link = "open" /\ hb # "none"

Handle ==
  /\ Reading /\ wire # <<>>
  /\ wire' = Tail(wire)
  /\ LET m == Head(wire) IN
     \/ /\ m.kind = "snapshot"
        /\ books' = [books EXCEPT ![m.ticker] = Snapshot(m.ticker, m.book)]
        /\ drift' = [drift EXCEPT ![m.ticker] = @ /\ m.book = Empty]
        /\ skipped' = [skipped EXCEPT ![m.ticker] = m.book = Empty /\ Kept(m.ticker)]
     \/ /\ m.kind = "delta"
        /\ books' = [books EXCEPT ![m.ticker] = Delta(m.ticker, m)]
        /\ UNCHANGED history
  /\ UNCHANGED <<session, client, rest, market, quota>>

\* REST answers with both bid sides of a ticker; the asks are their complements.
RestAnswers(t) ==
  /\ rest[t] = NoBook /\ Take("rest")
  /\ rest' = [rest EXCEPT ![t] = exch[t]]
  /\ UNCHANGED <<session, client, books, market, wire, history>>

\* The provider seeds the tokens it had found missing or stale, one or both of a ticker.
SeedBooks(t) ==
  /\ rest[t] # NoBook
  /\ \E S \in (SUBSET Side) \ {{}} :
       books' = [books EXCEPT ![t] = [s \in Side |-> IF s \in S THEN Sides(rest[t])[s] ELSE @[s]]]
  /\ drift' = [drift EXCEPT ![t] = @ \/ rest[t] # exch[t]]
  /\ rest' = [rest EXCEPT ![t] = NoBook]
  /\ UNCHANGED <<session, client, market, wire, skipped, quota>>

-----------------------------------------------------------------------------
(* Subscriptions.                                                          *)

\* Mutant: what is added while _run still asks is left to it.
UpdateSubscriptionsLater ==
  /\ asking["update"] = {} /\ ~Awaiting("update")
  /\ \E T \in (SUBSET Ticker) \ {desired} :
       /\ desired' = T
       /\ asking' = [asking EXCEPT !["update"] =
                       IF connected /\ hb # "none" THEN T \ desired ELSE {}]
  /\ Take("wishes")
  /\ UNCHANGED <<session, books, rest, market, wire, history>>

\* Under _lock: the new set at once, then a request for each ticker that is new.
UpdateSubscriptions ==
  /\ asking["update"] = {} /\ ~Awaiting("update")
  /\ \E T \in (SUBSET Ticker) \ {desired} :
       /\ desired' = T
       /\ asking' = [asking EXCEPT !["update"] = IF connected THEN T \ desired ELSE {}]
  /\ Take("wishes")
  /\ UNCHANGED <<session, books, rest, market, wire, history>>

\* _send_md_request; the exchange answers with a snapshot and then with changes.
Ask(by) ==
  /\ asking[by] # {} /\ ~Awaiting(by)
  /\ Send({Asks(by)})
  /\ \E t \in asking[by] :
       /\ asking' = [asking EXCEPT ![by] = @ \ {t}]
       /\ IF link = "open"
          THEN /\ subs' = subs \cup {t}
               /\ wire' = Append(wire, [kind |-> "snapshot", ticker |-> t, book |-> exch[t]])
          ELSE UNCHANGED <<subs, wire>>
  /\ UNCHANGED <<link, connected, closing, hb, paused, bound>>
  /\ UNCHANGED <<desired, books, rest, exch, history, quota>>

-----------------------------------------------------------------------------
(* The session.                                                            *)

Dial ==
  /\ Open("none")
  /\ asking' = [asking EXCEPT !["run"] = desired]
  /\ UNCHANGED <<desired, books, rest, market, wire, history, quota>>

\* The heartbeat task and the read loop come after the last request.
StartReading ==
  /\ link = "open" /\ hb = "none" /\ asking["run"] = {} /\ ~Awaiting("run")
  /\ hb' = "starting"
  /\ UNCHANGED <<link, connected, closing, seq, draining, straying, paused,
                 expected, orderly, shared, strayed, bound>>
  /\ UNCHANGED <<client, books, rest, market, wire, history, quota>>

\* _run notices when it reads, so when it has asked for its last ticker.
Noticed == asking["run"] = {} /\ ~Awaiting("run") /\ Notice

\* What was on the wire is gone when the connection is.
SessionMoves ==
  /\ SessionStep \/ ResumeWriting \/ Lose \/ Noticed \/ ReadingEnds \/ Close
  /\ IF link = "open" /\ link' # "open" THEN wire' = <<>> /\ subs' = {}
     ELSE UNCHANGED <<wire, subs>>
  /\ UNCHANGED <<client, books, rest, exch, history, quota>>

\* A request whose drain() raises is the last one of its task.
Woken(x) ==
  /\ \E returns \in BOOLEAN :
       /\ Wake(x, returns)
       /\ asking' = [by \in {"run", "update"} |->
                       IF x = Asks(by) /\ ~returns THEN {} ELSE asking[by]]
  /\ UNCHANGED <<desired, books, rest, market, wire, history, quota>>

-----------------------------------------------------------------------------
(* The exchange (external): its books stay uncrossed.                      *)

LevelChanges(t, side, p) ==
  LET on == p \notin exch[t][side]
      after == [exch[t] EXCEPT ![side] = Put(@, p, on)]
  IN /\ \A b \in after.bids, a \in after.asks : b < a
     /\ Take("quotes")
     /\ exch' = [exch EXCEPT ![t] = after]
     /\ wire' = IF t \notin subs THEN wire
                ELSE Append(wire, [kind |-> "delta", ticker |-> t, side |-> side,
                                   price |-> p, on |-> on])
     /\ UNCHANGED <<session, client, books, rest, subs, history>>

Next ==
  \/ UpdateSubscriptions \/ Ask("run") \/ Ask("update") \/ Dial \/ StartReading
  \/ SessionMoves \/ (\E x \in straying : Woken(x)) \/ Handle
  \/ \E t \in Ticker : RestAnswers(t) \/ SeedBooks(t)
  \/ \E t \in Ticker, side \in {"bids", "asks"}, p \in Price : LevelChanges(t, side, p)

Spec == Init /\ [][Next]_vars

-----------------------------------------------------------------------------
(* Properties.                                                             *)

Settled(t) ==
  Reading /\ t \in subs /\ \A i \in DOMAIN wire : wire[i].ticker # t

Agrees(t) == \A s \in Side : Content(books[t][s]) = Sides(exch[t])[s]

(***************************************************************************)
(* Once the feed of a ticker has delivered, both its books are the         *)
(* exchange's, the NO book through its complement: across reconnections    *)
(* that lose messages, deltas that meet no book yet and REST books written *)
(* to one side.  Not so after a REST answer that was overtaken, nor after  *)
(* a snapshot without levels found a book with levels: it is skipped       *)
(* (_update_books_from_yes_side, _apply_incremental_deltas, seed_books).   *)
(***************************************************************************)
MirrorsExchange ==
  \A t \in Ticker : Settled(t) /\ ~drift[t] /\ ~skipped[t] => Agrees(t)

\* "rebuild full book for a ticker": after a snapshot nothing of the old book is left.
\* Does not hold: README.md, section 6.
SnapshotRebuilds ==
  \A t \in Ticker : Settled(t) /\ ~drift[t] => Agrees(t)

\* A wish is never lost: while the client reads, every desired ticker is
\* subscribed or about to be (_run, update_subscriptions, the lock).
WishesSent == Reading => desired \subseteq subs \cup asking["update"]
=============================================================================
