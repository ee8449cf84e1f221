------------------------------- MODULE WsFeed --------------------------------
(***************************************************************************)
(* The market-data feed of Polymarket: two redundant WebSocket slots that  *)
(* subscribe, receive and write one book per token, next to the books REST *)
(* answers are seeded with.  Two backends keep the same interface: the     *)
(* Tokio tasks of rust_ws_client/src/lib.rs and the threads of             *)
(* src/polymarket/clob_ws_client.py.                                       *)
(*                                                                         *)
(* A book is its ask side: the price levels present, with a size or, after *)
(* a best_bid_ask event, without one.  The bid side is its mirror image.   *)
(***************************************************************************)
EXTENDS Naturals, Sequences, FiniteSets

CONSTANTS
  Token,       \* outcome tokens
  Level,       \* ask prices, as numbers
  Slot,        \* connection slots
  NoBook,      \* a token without a book
  MaxEvents,   \* bound: changes and quotes of the exchange
  MaxDrops,    \* bound: connections lost or refused
  MaxUpdates,  \* bound: changes of the subscription
  MaxSeeds     \* bound: REST answers

VARIABLES
  backend,  \* which client the run uses
  desired,  \* state.tokens, self._desired_tokens
  raising,  \* update_subscriptions has written the tokens, not yet the flags
  slot,     \* the loop of every slot
  wire,     \* what the exchange sent on a slot's connection
  book,     \* books, self._states
  seed,     \* a REST answer on its way to seed_books
  exch,     \* the exchange's ask levels
  drift,    \* history: the levels in which a REST answer was old when it was written
  left      \* what is left of the bounds

vars == <<backend, desired, raising, slot, wire, book, seed, exch, drift, left>>
feedVars == <<book, seed, exch, drift>>

Sizes == {"none", "sized", "unsized"}
Present(b) == {l \in Level : b[l] # "none"}
Sized(levels) == [l \in Level |-> IF l \in levels THEN "sized" ELSE "none"]
EmptyBook == Sized({})
BookOf(t) == IF book[t] = NoBook THEN EmptyBook ELSE book[t]

Connected(s) == slot[s].at \in {"greeting", "receiving", "resending", "handling"}

(***************************************************************************)
(* want is current_tokens or new_toks (Rust); sub is what the exchange has *)
(* been told; missed is history: the tokens changed while a Rust slot was  *)
(* connecting.                                                             *)
(***************************************************************************)
Loop == [at : {"top", "connecting", "greeting", "receiving", "resending", "handling",
               "pausing", "dead"},
         want : SUBSET Token, sub : SUBSET Token, resub : BOOLEAN, missed : BOOLEAN]

Message == [kind : {"book"}, books : UNION {[T -> SUBSET Level] : T \in SUBSET Token}]
             \cup [kind : {"change"}, token : Token, level : Level, on : BOOLEAN]
             \cup [kind : {"quote"}, token : Token, level : Level]

TypeOK ==
  /\ backend \in {"rust", "python"} /\ desired \subseteq Token
  /\ raising \in BOOLEAN
  /\ slot \in [Slot -> Loop]
  /\ \A s \in Slot : \A i \in DOMAIN wire[s] : wire[s][i] \in Message
  /\ book \in [Token -> {NoBook} \cup [Level -> Sizes]]
  /\ seed \in [Token -> {NoBook} \cup SUBSET Level]
  /\ exch \in [Token -> SUBSET Level]
  /\ drift \in [Token -> SUBSET Level]
  /\ left \in [{"events", "drops", "updates", "seeds"} -> Nat]

Init ==
  /\ backend \in {"rust", "python"} /\ desired = {}
  /\ raising = FALSE
  /\ slot = [s \in Slot |-> [at |-> "top", want |-> {}, sub |-> {}, resub |-> FALSE,
                             missed |-> FALSE]]
  /\ wire = [s \in Slot |-> <<>>]
  /\ book = [t \in Token |-> NoBook] /\ seed = [t \in Token |-> NoBook]
  /\ exch = [t \in Token |-> Level] /\ drift = [t \in Token |-> {}]
  /\ left = [events |-> MaxEvents, drops |-> MaxDrops, updates |-> MaxUpdates, seeds |-> MaxSeeds]

Spend(bound) == left[bound] > 0 /\ left' = [left EXCEPT ![bound] = @ - 1]

Goes(s, phase) == slot' = [slot EXCEPT ![s].at = phase]

-----------------------------------------------------------------------------
(* The main loop: update_subscriptions writes the tokens and then raises   *)
(* the flag of every slot, while the slots run in other threads.           *)

UpdateSubscriptions ==
  /\ ~raising
  /\ \E T \in (SUBSET Token) \ {desired} : desired' = T
  /\ raising' = TRUE
  /\ Spend("updates")
  /\ UNCHANGED <<backend, slot, wire, feedVars>>

RaiseFlags ==
  /\ raising /\ raising' = FALSE
  /\ slot' = [s \in Slot |-> [slot[s] EXCEPT !.resub = TRUE]]
  /\ UNCHANGED <<backend, desired, wire, feedVars, left>>

-----------------------------------------------------------------------------
(* The loop of a slot.                                                     *)

\* Rust clones the tokens before it connects; Python reads them when it sends.
Dial(s) ==
  /\ slot[s].at = "top"
  /\ slot' = [slot EXCEPT ![s].at = "connecting",
                          ![s].want = IF backend = "rust" THEN desired ELSE @]
  /\ UNCHANGED <<backend, desired, raising, wire, feedVars, left>>

\* The connection stands; a subscription asked for so far is taken as done.
Connect(s) ==
  /\ slot[s].at = "connecting"
  /\ slot' = [slot EXCEPT ![s].at = "greeting", ![s].resub = FALSE,
                          ![s].missed = backend = "rust" /\ slot[s].want # desired]
  /\ UNCHANGED <<backend, desired, raising, wire, feedVars, left>>

\* The exchange answers a subscription with the books of its tokens.
Greeting(s, T) ==
  /\ slot' = [slot EXCEPT ![s].at = IF @ = "resending" /\ backend = "python" THEN "handling"
                                    ELSE "receiving",
                          ![s].sub = T,
                          ![s].missed = @ /\ slot[s].at = "greeting"]
  /\ wire' = [wire EXCEPT ![s] = IF T = {} THEN @ ELSE
                Append(@, [kind |-> "book", books |-> [t \in T |-> exch[t]]])]

\* Mutant: the flag is cleared again once the subscription has been sent.
SubscribeThenClear(s) ==
  /\ slot[s].at \in {"greeting", "resending"}
  /\ slot' = [slot EXCEPT ![s].at = "receiving", ![s].resub = FALSE,
                          ![s].sub = IF backend = "rust" THEN slot[s].want ELSE desired,
                          ![s].missed = @ /\ slot[s].at = "greeting"]
  /\ UNCHANGED <<backend, desired, raising, wire, feedVars, left>>

Subscribe(s) ==
  /\ slot[s].at \in {"greeting", "resending"}
  /\ Greeting(s, IF backend = "rust" THEN slot[s].want ELSE desired)
  /\ UNCHANGED <<backend, desired, raising, feedVars, left>>

\* Rust looks at the flag every 500 ms, Python when a message has come.
Notice(s) ==
  /\ slot[s].at = "receiving" /\ slot[s].resub
  /\ backend = "python" => wire[s] # <<>>
  /\ slot' = [slot EXCEPT ![s].at = "resending", ![s].resub = FALSE,
                          ![s].want = IF backend = "rust" THEN desired ELSE @]
  /\ UNCHANGED <<backend, desired, raising, wire, feedVars, left>>

(***************************************************************************)
(* A connection is refused or lost with all it still carried.  A Rust slot *)
(* whose first send fails leaves its outer loop for good; every other path *)
(* pauses and dials again.                                                 *)
(***************************************************************************)
Disconnect(s) ==
  /\ slot[s].at = "connecting" \/ Connected(s)
  /\ slot' = [slot EXCEPT ![s].at = IF backend = "rust" /\ @ = "greeting" THEN "dead"
                                    ELSE "pausing",
                          ![s].sub = {}, ![s].missed = FALSE]
  /\ wire' = [wire EXCEPT ![s] = <<>>]
  /\ Spend("drops")
  /\ UNCHANGED <<backend, desired, raising, feedVars>>

Resume(s) ==
  /\ slot[s].at = "pausing"
  /\ Goes(s, "top")
  /\ UNCHANGED <<backend, desired, raising, wire, feedVars, left>>

-----------------------------------------------------------------------------
(* Books.                                                                  *)

\* Mutant: a snapshot is merged into the book it should replace.
ApplySnapshotMerged(books) ==
  book' = [t \in Token |-> IF t \in DOMAIN books THEN Sized(books[t] \cup Present(BookOf(t)))
                           ELSE book[t]]

ApplySnapshot(books) ==
  book' = [t \in Token |-> IF t \in DOMAIN books THEN Sized(books[t]) ELSE book[t]]

\* A delta is the level's whole size: zero removes it.
ApplyDelta(m) ==
  book' = [book EXCEPT ![m.token] =
             [BookOf(m.token) EXCEPT ![m.level] = IF m.on THEN "sized" ELSE "none"]]

\* Mutant: a quote at a level that is known takes its size away.
ApplyBbaUnsized(m) ==
  book' = [book EXCEPT ![m.token] =
             [l \in Level |-> IF l < m.level THEN "none"
                              ELSE IF l = m.level THEN "unsized" ELSE BookOf(m.token)[l]]]

\* Better levels are stale; the level itself keeps a size it has.
ApplyBba(m) ==
  book' = [book EXCEPT ![m.token] =
             [l \in Level |-> IF l < m.level THEN "none"
                              ELSE IF l = m.level /\ BookOf(m.token)[l] = "none" THEN "unsized"
                              ELSE BookOf(m.token)[l]]]

HandleMessage(s) ==
  LET m == Head(wire[s]) IN
  /\ slot[s].at \in {"receiving", "handling"} /\ wire[s] # <<>>
  /\ backend = "python" /\ slot[s].at = "receiving" => ~slot[s].resub
  /\ wire' = [wire EXCEPT ![s] = Tail(@)]
  /\ Goes(s, "receiving")
  /\ \/ m.kind = "book" /\ ApplySnapshot(m.books)
        /\ drift' = [t \in Token |-> IF t \in DOMAIN m.books THEN {} ELSE drift[t]]
     \/ m.kind = "change" /\ ApplyDelta(m)
        /\ drift' = [drift EXCEPT ![m.token] = @ \ {m.level}]
     \/ m.kind = "quote" /\ ApplyBba(m) /\ UNCHANGED drift
  /\ UNCHANGED <<backend, desired, raising, seed, exch, left>>

\* REST answers with the exchange's book of now ...
Answer(t) ==
  /\ seed[t] = NoBook
  /\ seed' = [seed EXCEPT ![t] = exch[t]]
  /\ Spend("seeds")
  /\ UNCHANGED <<backend, desired, raising, slot, wire, book, exch, drift>>

\* ... which replaces what the feed has written in the meantime.
SeedBooks(t) ==
  /\ seed[t] # NoBook
  /\ book' = [book EXCEPT ![t] = Sized(seed[t])]
  /\ drift' = [drift EXCEPT ![t] = (seed[t] \ exch[t]) \cup (exch[t] \ seed[t])]
  /\ seed' = [seed EXCEPT ![t] = NoBook]
  /\ UNCHANGED <<backend, desired, raising, slot, wire, exch, left>>

-----------------------------------------------------------------------------
(* The exchange (external).                                                *)

Broadcast(t, m) ==
  wire' = [s \in Slot |-> IF t \in slot[s].sub THEN Append(wire[s], m) ELSE wire[s]]

LevelChanges(t, l) ==
  /\ Spend("events")
  /\ exch' = [exch EXCEPT ![t] = IF l \in @ THEN @ \ {l} ELSE @ \cup {l}]
  /\ Broadcast(t, [kind |-> "change", token |-> t, level |-> l, on |-> l \notin exch[t]])
  /\ UNCHANGED <<backend, desired, raising, slot, book, seed, drift>>

Quote(t) ==
  /\ Spend("events")
  /\ \E best \in exch[t] :
       /\ \A l \in exch[t] : best <= l
       /\ Broadcast(t, [kind |-> "quote", token |-> t, level |-> best])
  /\ UNCHANGED <<backend, desired, raising, slot, book, seed, exch, drift>>

-----------------------------------------------------------------------------
SlotStep(s) ==
  Dial(s) \/ Connect(s) \/ Subscribe(s) \/ Notice(s) \/ Disconnect(s) \/ Resume(s)
    \/ HandleMessage(s)

Next ==
  \/ UpdateSubscriptions \/ RaiseFlags
  \/ \E s \in Slot : SlotStep(s)
  \/ \E t \in Token : Answer(t) \/ SeedBooks(t) \/ Quote(t)
  \/ \E t \in Token, l \in Level : LevelChanges(t, l)

Spec == Init /\ [][Next]_vars

-----------------------------------------------------------------------------
(* Properties.                                                             *)

Mentions(m, t) == IF m.kind = "book" THEN t \in DOMAIN m.books ELSE m.token = t

\* Every slot receives the token and has nothing more to deliver of it.
Settled(t) ==
  \A s \in Slot : /\ slot[s].at = "receiving" /\ t \in slot[s].sub
                  /\ \A i \in DOMAIN wire[s] : ~Mentions(wire[s][i], t)

(***************************************************************************)
(* Two feeds write one book, each in its own order and with its own delay, *)
(* connections drop with messages in flight and REST books are written in  *)
(* between.  Once both feeds have delivered, the book has the exchange's   *)
(* levels again.  A REST answer that was overtaken spoils the levels that  *)
(* changed behind it and no others, each until a feed delivers a book or a *)
(* change of that level (apply_snapshot, apply_delta, apply_bba, seed_book *)
(* and their Python counterparts).                                         *)
(***************************************************************************)
Converged ==
  \A t \in Token : Settled(t) =>
    /\ book[t] # NoBook
    /\ \A l \in Level \ drift[t] : book[t][l] # "none" <=> l \in exch[t]

\* The size of a level the exchange still has is never given up for a quote
\* that repeats its price (entry().or_insert, replace_best_ask).
SizesKept ==
  \A t \in Token : Settled(t) => \A l \in exch[t] \ drift[t] : book[t][l] = "sized"

(***************************************************************************)
(* A slot that receives what is no longer wanted has been told so, or will *)
(* be.  Only a Rust slot can miss a change, and only one that was made     *)
(* while it was connecting: it clones the tokens before and lowers the     *)
(* flag after (ws_slot_loop, _ws_loop_async, update_subscriptions).        *)
(***************************************************************************)
MissedOnlyWhileConnecting ==
  \A s \in Slot : slot[s].at = "receiving" =>
    slot[s].sub = desired \/ slot[s].resub \/ raising \/ slot[s].missed

\* "connect / auto-reconnect": no slot leaves its loop while the client runs.
\* Does not hold: README.md, section 6.
AutoReconnect == \A s \in Slot : slot[s].at # "dead"
=============================================================================
