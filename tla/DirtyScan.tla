------------------------------ MODULE DirtyScan ------------------------------
(***************************************************************************)
(* The scan of the run loop in WebSocket mode: the tokens updated since    *)
(* the last wait decide which pairs are scored again, the provider         *)
(* subscribes to what is asked for and fills gaps over REST, and every     *)
(* other pair keeps the observation it has.                                *)
(*                                                                         *)
(* A book is its ask, low or high; a token whose book has no usable ask    *)
(* counts as having none.  The feed is that of WsFeed, seen from here: it  *)
(* writes the exchange's book of a subscribed token, and then queues the   *)
(* token.                                                                  *)
(***************************************************************************)
EXTENDS Naturals, FiniteSets

CONSTANTS
  Token, Pair, Legs,  \* Legs[p]: the tokens of a pair
  NLeg, NLegTokens,   \* the N-leg spec that the whole watchlist gives rise to
  NoBook, All,        \* a token without a book; every token
  FallbackToPolling, AllowStaleCache,  \* settings of the provider
  MaxEvents           \* bound: outside events (prices, time, tokens missing from the snapshot
                      \* file or from a REST answer, watchlists, positions, priority seeds)

ASSUME DirtyScanAssumption ==
  /\ Legs \in [Pair -> SUBSET Token] /\ NLeg \notin Pair /\ NLegTokens \subseteq Token
  /\ FallbackToPolling \in BOOLEAN /\ AllowStaleCache \in BOOLEAN /\ MaxEvents \in Nat
  /\ All # {} /\ NoBook \notin {"low", "high"}

VARIABLES
  at,        \* where the run loop is
  watch,     \* pairs
  updated,   \* _updated_tokens: All or a set
  dirty,     \* dirty_idxs and n_leg_dirty of the scan
  need,      \* needed_token_ids
  held,      \* books: what get_books returns
  rest,      \* a REST answer get_books awaits
  tried,     \* attempted_this_call
  obs,       \* obs_cache and _cached_best_n_leg
  open,      \* open_pair_names
  entering,  \* background entries
  windows,   \* _audit_windows
  prio,      \* the answer priority_seed awaits
  desired,   \* _desired_tokens
  due,       \* tokens whose REST fallback is due
  book, old, \* the feed's books, and those older than stale_book_ms
  writing,   \* written by a feed thread that has not queued the token yet
  queue,     \* _update_queue
  px,        \* the exchange's asks
  unasked,   \* history: scored without asking for a book that was there
  overdue,   \* history: scored without a book because it was stale
  reseeded,  \* history: a seed changed a book after it was scored
  left       \* what is left of the bound

loopVars == <<watch, updated, dirty, need, held, rest, tried, at>>
scored == <<obs, unasked, overdue>>
feedVars == <<desired, due, book, old, writing, queue, reseeded>>
vars == <<loopVars, scored, feedVars, open, entering, windows, prio, px, left>>

Price == {"low", "high"}
Item == Pair \cup {NLeg}
Tokens(i) == IF i = NLeg THEN NLegTokens ELSE Legs[i]

\* The N-leg spec is derived from the whole watchlist.
Items(pairs) == IF pairs = Pair THEN Item ELSE pairs
TokensOf(items) == UNION {Tokens(i) : i \in items}

Nothing == [t \in Token |-> NoBook]

\* What the price arrays, the batch classification and _observe_pair make of a
\* pair, and whether the N-leg spec has an edge.
Classify(i, b) ==
  IF \E t \in Tokens(i) : b[t] = NoBook THEN "missing"
  ELSE IF \A t \in Tokens(i) : b[t] = "low" THEN "executable"
  ELSE IF \E t \in Tokens(i) : b[t] = "low" THEN "near" ELSE "rejected"

TypeOK ==
  /\ at \in {"top", "seeding", "reading", "polling", "observing", "waiting"}
  /\ watch \subseteq Pair /\ updated \in {All} \cup SUBSET Token
  /\ dirty \subseteq Item /\ need \subseteq Token /\ tried \subseteq Token
  /\ \A b \in {held, rest, prio, book} : b \in [Token -> Price \cup {NoBook}]
  /\ obs \in [Item -> {"none", "missing", "executable", "near", "rejected"}]
  /\ open \subseteq Pair /\ entering \subseteq Pair /\ windows \subseteq Item
  /\ \A T \in {desired, due, old, writing, queue} : T \subseteq Token
  /\ px \in [Token -> Price]
  /\ \A I \in {unasked, overdue, reseeded} : I \subseteq Item
  /\ left \in 0..MaxEvents

\* The books of the snapshot file are there before the first scan.
Init ==
  /\ at = "top" /\ watch = Pair /\ updated = All
  /\ dirty = {} /\ need = {} /\ tried = {}
  /\ held = Nothing /\ rest = Nothing /\ prio = Nothing
  /\ obs = [i \in Item |-> "none"]
  /\ open = {} /\ entering = {} /\ windows = {}
  /\ desired = {} /\ due = Token
  /\ px = [t \in Token |-> "low"]
  /\ \E T \in SUBSET Token :
       /\ Cardinality(T) <= MaxEvents /\ left = MaxEvents - Cardinality(T)
       /\ book = [t \in Token |-> IF t \in T THEN NoBook ELSE px[t]]
  /\ old = {} /\ writing = {} /\ queue = {}
  /\ unasked = {} /\ overdue = {} /\ reseeded = {}

Event == left > 0 /\ left' = left - 1

-----------------------------------------------------------------------------
(* The start of a scan.                                                    *)

\* Mutant: a token two pairs share leads to one of them only.
DirtyItemsOneEach ==
  LET one(t) == CHOOSE p \in watch : t \in Legs[p] IN
  IF updated = All THEN Items(watch)
  ELSE {one(t) : t \in updated \cap TokensOf(watch)} \cup (open \cap watch)
       \cup (Items(watch) \cap {i \in {NLeg} : updated \cap NLegTokens # {}})

\* Mutant: open pairs are scored, but nothing is asked for them.
DirtyItemsNotOpen ==
  IF updated = All THEN Items(watch) ELSE {i \in Items(watch) : Tokens(i) \cap updated # {}}

DirtyItems ==
  IF updated = All THEN Items(watch)
  ELSE {i \in Items(watch) : Tokens(i) \cap updated # {}} \cup (open \cap watch)

\* Every seed is written without queueing its token.
Seed(answer) ==
  LET T == {t \in Token : answer[t] # NoBook} IN
  /\ book' = [t \in Token |-> IF t \in T THEN answer[t] ELSE book[t]]
  /\ old' = old \ T
  /\ reseeded' = reseeded \cup {i \in Item : \E t \in Tokens(i) \cap T : book[t] # answer[t]}

\* REST answers for the tokens, or for some of them only.
Answer(T, answer) ==
  \E S \in SUBSET T :
    /\ answer = [t \in Token |-> IF t \in S THEN px[t] ELSE NoBook]
    /\ IF S = T THEN UNCHANGED left ELSE Event

(***************************************************************************)
(* The dirty set, and get_books up to its first await.  Nothing is asked   *)
(* for and nothing resubscribed when nothing is needed.                    *)
(***************************************************************************)
Plan ==
  /\ at = "top"
  /\ dirty' = DirtyItems /\ need' = TokensOf(DirtyItems)
  /\ held' = Nothing
  /\ LET gaps == {t \in need' \cap due : book[t] = NoBook} IN
       /\ tried' = gaps /\ due' = due \ gaps
       /\ Answer(gaps, rest')
       /\ at' = IF need' = {} THEN "observing" ELSE IF gaps # {} THEN "seeding" ELSE "reading"
  /\ desired' = IF need' = {} THEN desired ELSE need'
  /\ UNCHANGED <<watch, updated, scored, book, old, writing, queue, reseeded, open, entering,
                 windows, prio, px>>

Seeded ==
  /\ at = "seeding" /\ at' = "reading"
  /\ Seed(rest) /\ rest' = Nothing
  /\ UNCHANGED <<watch, updated, dirty, need, held, tried, scored, desired, due, writing, queue,
                 open, entering, windows, prio, px, left>>

\* The feed's books are taken as they are; what is stale is asked for over REST.
ReadBooks ==
  /\ at = "reading"
  /\ LET usable == {t \in need : book[t] # NoBook /\ (t \notin old \/ AllowStaleCache)}
         asked == IF FallbackToPolling THEN ((need \ usable) \ tried) \cap due ELSE {} IN
       /\ held' = [t \in Token |-> IF t \in usable THEN book[t] ELSE NoBook]
       /\ due' = due \ asked
       /\ Answer(asked, rest')
       /\ at' = IF asked # {} THEN "polling" ELSE "observing"
  /\ reseeded' = reseeded \ dirty
  /\ UNCHANGED <<watch, updated, dirty, need, tried, scored, desired, book, old, writing, queue,
                 open, entering, windows, prio, px>>

Polled ==
  /\ at = "polling" /\ at' = "observing"
  /\ Seed(rest) /\ rest' = Nothing
  /\ held' = [t \in Token |-> IF rest[t] # NoBook THEN rest[t] ELSE held[t]]
  /\ UNCHANGED <<watch, updated, dirty, need, tried, scored, desired, due, writing, queue, open,
                 entering, windows, prio, px, left>>

-----------------------------------------------------------------------------
(* Scoring, marking, and what the scan starts.                             *)

\* Pairs opened while the books were awaited are scored too, N-leg specs are not.
Rescored == dirty \cup (open \cap watch) \cup {i \in Items(watch) : obs[i] = "none"}

\* The opportunity windows left open: those of other items are closed.
Windows(now) == {i \in Items(watch) : now[i] = "executable"}

\* Fresh books are asked for in the background: those of the pairs nearest to
\* an entry, as far as REST answers.
AskPriority(now) ==
  LET hot == {i \in Items(watch) \cap Pair : now[i] \in {"near", "executable"}} IN
  /\ prio = Nothing /\ Event
  /\ \E T \in (SUBSET TokensOf(hot)) \ {{}} :
       prio' = [t \in Token |-> IF t \in T THEN px[t] ELSE NoBook]

\* Closed pairs are those whose bids were seen and reach a threshold.
Observe ==
  /\ at = "observing" /\ at' = "waiting"
  /\ LET now == [i \in Item |-> IF i \in Rescored THEN Classify(i, held) ELSE obs[i]]
         live == Items(watch) IN
       /\ obs' = now
       /\ unasked' = (unasked \ Rescored)
            \cup {i \in Rescored : \E t \in Tokens(i) \ need : book[t] # NoBook}
       /\ overdue' = (overdue \ Rescored)
            \cup {i \in Rescored : \E t \in Tokens(i) \cap need : held[t] = NoBook /\ book[t] # NoBook}
       /\ \E closed \in SUBSET {p \in open \cap watch : now[p] # "missing"} : open' = open \ closed
       /\ windows' = Windows(now)
       /\ entering' = entering \cup {p \in live \cap Pair : now[p] = "executable"}
       /\ AskPriority(now) \/ UNCHANGED <<prio, left>>
  /\ updated' = {} /\ dirty' = {} /\ tried' = {}
  /\ UNCHANGED <<watch, need, held, rest, feedVars, px>>

PrioritySeeded ==
  /\ prio # Nothing /\ prio' = Nothing
  /\ Seed(prio) /\ due' = due \ {t \in Token : prio[t] # NoBook}
  /\ UNCHANGED <<loopVars, scored, desired, writing, queue, open, entering, windows, px, left>>

\* A background entry books its pair, or gives up.
Entered(p) ==
  /\ p \in entering /\ entering' = entering \ {p}
  /\ \/ UNCHANGED <<open, left>>
     \/ open' = open \cup {p} /\ Event
  /\ UNCHANGED <<loopVars, scored, feedVars, windows, prio, px>>

\* wait_for_updates: everything queued, or nothing when the wait times out.
Wait ==
  /\ at = "waiting" /\ at' = "top"
  /\ updated' = queue /\ queue' = {}
  /\ need' = {} /\ held' = Nothing
  /\ UNCHANGED <<watch, dirty, rest, tried, scored, desired, due, book, old, writing, reseeded,
                 open, entering, windows, prio, px, left>>

\* A new list of pairs, whatever is in it, is a new plan with empty caches.
Refresh ==
  /\ at = "top" /\ Event
  /\ watch' \in (SUBSET Pair) \ {{}}
  /\ updated' = All
  /\ obs' = [i \in Item |-> IF i = NLeg THEN obs[i] ELSE "none"]
  /\ unasked' = unasked \cap {NLeg} /\ overdue' = overdue \cap {NLeg}
  /\ UNCHANGED <<at, dirty, need, held, rest, tried, feedVars, open, entering, windows, prio, px>>

-----------------------------------------------------------------------------
(* The feed and time (external to the run loop).                           *)

Change(t) ==
  /\ Event
  /\ px' = [px EXCEPT ![t] = IF @ = "low" THEN "high" ELSE "low"]
  /\ UNCHANGED <<loopVars, scored, feedVars, open, entering, windows, prio>>

FeedWrites(t) ==
  /\ t \in desired /\ (book[t] # px[t] \/ t \in old)
  /\ book' = [book EXCEPT ![t] = px[t]] /\ old' = old \ {t}
  /\ writing' = writing \cup {t}
  /\ UNCHANGED <<loopVars, scored, desired, due, queue, reseeded, open, entering, windows, prio,
                 px, left>>

FeedQueues(t) ==
  /\ t \in writing /\ writing' = writing \ {t}
  /\ queue' = queue \cup {t}
  /\ UNCHANGED <<loopVars, scored, desired, due, book, old, reseeded, open, entering, windows,
                 prio, px, left>>

TurnsStale(t) ==
  /\ book[t] # NoBook /\ t \notin old /\ Event
  /\ old' = old \cup {t}
  /\ UNCHANGED <<loopVars, scored, desired, due, book, writing, queue, reseeded, open, entering,
                 windows, prio, px>>

FallsDue(t) ==
  /\ t \notin due /\ Event
  /\ due' = due \cup {t}
  /\ UNCHANGED <<loopVars, scored, desired, book, old, writing, queue, reseeded, open, entering,
                 windows, prio, px>>

-----------------------------------------------------------------------------
Loop == Plan \/ Seeded \/ ReadBooks \/ Polled \/ Observe \/ Wait \/ Refresh

Feed(t) == Change(t) \/ FeedWrites(t) \/ FeedQueues(t) \/ TurnsStale(t) \/ FallsDue(t)

Next ==
  \/ Loop \/ PrioritySeeded
  \/ \E p \in Pair : Entered(p)
  \/ \E t \in Token : Feed(t)

Spec == Init /\ [][Next]_vars

-----------------------------------------------------------------------------
(* Properties.                                                             *)

Pending(t) == updated = All \/ t \in updated \cup queue \cup writing

(***************************************************************************)
(* A cached observation is what a full scan would make of the books of     *)
(* now, whatever threads wrote in the meantime, unless a token of it is on *)
(* its way to the next dirty set, a book was held back or not asked for,   *)
(* or a seed, which queues nothing, has changed one (_scan_once,           *)
(* _fast_observe_all, _best_n_leg_opportunity).                            *)
(***************************************************************************)
ObservationsCurrent ==
  \A i \in Items(watch) :
    obs[i] = "none" \/ obs[i] = Classify(i, book) \/ i \in dirty \cup unasked \cup overdue \cup reseeded
      \/ \E t \in Tokens(i) : Pending(t)

(***************************************************************************)
(* A pair that a background entry opened after the tokens of the scan had  *)
(* been chosen is scored as if it had no books.  That lasts one scan: the  *)
(* next one asks for its tokens, whatever was updated.                     *)
(***************************************************************************)
UnaskedOneScan == [][Plan => TokensOf(unasked \cap watch) \subseteq need']_vars

\* "both subscribe to all tokens": once a scan has subscribed, the feed has
\* every token of the watchlist.
\* Does not hold: README.md, section 6.
WatchedStaySubscribed ==
  updated # All /\ desired # {} => TokensOf(Items(watch)) \subseteq desired

\* "flush stale WS prices": the scan after a seed scores what the seed changed.
\* Does not hold: README.md, section 6.
SeedsAreScored == [][Plan => reseeded \cap Items(watch) \subseteq dirty']_vars
=============================================================================
