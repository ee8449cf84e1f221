----------------------------- MODULE ScanProofs -----------------------------
(***************************************************************************)
(* Theorems about the scan in WebSocket mode: what is not scored again     *)
(* still says what its books say; scoring pairs by their best asks loses   *)
(* none that could be entered; both optimizers choose the same size; what  *)
(* is bought is on the books and within the limits; and it is the best     *)
(* size there is when the grid is as fine as the books.                    *)
(***************************************************************************)
EXTENDS DirtyScan, Sizing, CapitalLemmas

Books == [Token -> Price \cup {NoBook}]
Class == {"missing", "executable", "near", "rejected"}

ScanTyped ==
  /\ watch \subseteq Pair /\ dirty \subseteq Item
  /\ held \in Books /\ rest \in Books /\ prio \in Books /\ book \in Books
  /\ obs \in [Item -> Class \cup {"none"}] /\ px \in [Token -> Price]

Between == at \in {"top", "waiting"}

\* From the choice of the dirty set to its scoring.
Chosen ==
  /\ need = TokensOf(dirty)
  /\ \A i \in Items(watch) :
       updated = All \/ Tokens(i) \cap updated # {} \/ obs[i] = "none" => i \in dirty

\* A change of the token's book is known, or will be.
Known(t) == t \in queue \cup writing \/ \A i \in Item : t \in Tokens(i) => i \in reseeded

\* What get_books returns are the feed's books, except where a change is known.
HeldTrue ==
  \A t \in Token :
    IF t \in need THEN held[t] = NoBook \/ held[t] = book[t] \/ Known(t)
    ELSE held[t] = NoBook /\ (at = "polling" => rest[t] = NoBook)

Current(i) ==
  \/ obs[i] = "none" \/ obs[i] = Classify(i, book)
  \/ i \in dirty \cup unasked \cup overdue \cup reseeded
  \/ \E t \in Tokens(i) : Pending(t)

ScanInv ==
  /\ ScanTyped
  /\ IF Between THEN dirty = {} ELSE Chosen
  /\ at = "waiting" => updated = {}
  /\ Between /\ updated # All => \A i \in Items(watch) : obs[i] # "none"
  /\ at \in {"polling", "observing"} => HeldTrue
  /\ unasked \cap watch \subseteq open
  /\ \A i \in Item : Tokens(i) = {} => obs[i] \in {"none", "executable"}
  /\ \A i \in Items(watch) : Current(i)

-----------------------------------------------------------------------------
(* Books and what is made of them.                                         *)

LEMMA TokensType == \A i \in Item : Tokens(i) \subseteq Token
BY DirtyScanAssumption DEF Item, Tokens

LEMMA ItemsType ==
  ASSUME ScanTyped
  PROVE  Items(watch) \subseteq Item /\ watch \subseteq Items(watch)
BY DEF ScanTyped, Items, Item

LEMMA ClassifyType ==
  ASSUME NEW i, NEW b
  PROVE  Classify(i, b) \in Class /\ (Tokens(i) = {} => Classify(i, b) = "executable")
BY DEF Classify, Class

LEMMA ClassifySame ==
  ASSUME NEW i, NEW b, NEW c, \A t \in Tokens(i) : b[t] = c[t]
  PROVE  Classify(i, b) = Classify(i, c)
BY DEF Classify

\* A seed changes the books of the items it reports, and no others.
LEMMA SeedReported ==
  ASSUME NEW answer \in Books, book \in Books, Seed(answer)
  PROVE  /\ book' \in Books /\ reseeded \subseteq reseeded'
         /\ \A t \in Token : book'[t] = IF answer[t] # NoBook THEN answer[t] ELSE book[t]
         /\ \A i \in Item : \A t \in Tokens(i) : book'[t] # book[t] => i \in reseeded'
<1>1. \A t \in Token : book'[t] = IF answer[t] # NoBook THEN answer[t] ELSE book[t]
  BY DEF Seed
<1>2. book' \in Books /\ reseeded \subseteq reseeded'
  BY DEF Seed, Books
<1>3. ASSUME NEW i \in Item, NEW t \in Tokens(i), book'[t] # book[t] PROVE i \in reseeded'
  <2>1. t \in Token
    BY TokensType
  <2>2. answer[t] # NoBook /\ book[t] # answer[t]
    BY <1>1, <1>3, <2>1
  <2> QED BY <2>1, <2>2 DEF Seed
<1> QED BY <1>1, <1>2, <1>3

\* An observation outlives a change of the books that is reported.
LEMMA CurrentKept ==
  ASSUME NEW i \in Item, Current(i), obs'[i] = obs[i],
         dirty \cup unasked \cup overdue \cup reseeded
           \subseteq dirty' \cup unasked' \cup overdue' \cup reseeded',
         \A t \in Tokens(i) : Pending(t) => Pending(t)',
         \A t \in Tokens(i) : book'[t] = book[t] \/ i \in reseeded' \/ Pending(t)'
  PROVE  Current(i)'
<1>1. CASE i \in reseeded' \/ \E t \in Tokens(i) : Pending(t)'
  BY <1>1 DEF Current
<1>2. CASE i \notin reseeded' /\ \A t \in Tokens(i) : ~Pending(t)'
  <2>1. Classify(i, book') = Classify(i, book)
    BY <1>2, ClassifySame
  <2>2. Classify(i, book)' = Classify(i, book')
    BY DEF Classify, Tokens
  <2> QED BY <1>2, <2>1, <2>2 DEF Current
<1> QED BY <1>1, <1>2

LEMMA HeldKept ==
  ASSUME HeldTrue, UNCHANGED <<need, held, rest, at>>,
         \A t \in Token : Known(t) => Known(t)',
         \A t \in Token : book'[t] = book[t] \/ Known(t)'
  PROVE  HeldTrue'
BY DEF HeldTrue

-----------------------------------------------------------------------------
(* The start of a scan and its books.                                      *)

LEMMA PlanKeeps ==
  ASSUME ScanInv, Plan
  PROVE  ScanInv'
<1>1. /\ at = "top" /\ dirty' = DirtyItems /\ need' = TokensOf(DirtyItems) /\ held' = Nothing
      /\ at' \in {"observing", "seeding", "reading"}
      /\ at' = "observing" => need' = {}
      /\ \E S : rest' = [t \in Token |-> IF t \in S THEN px[t] ELSE NoBook]
      /\ UNCHANGED <<watch, updated, obs, unasked, overdue, book, writing, queue, reseeded, open,
                     prio, px>>
  BY DEF Plan, Answer, scored
<1>2. ScanTyped /\ dirty = {} /\ (updated # All => \A i \in Items(watch) : obs[i] # "none")
  BY <1>1 DEF ScanInv, Between
<1>3. DirtyItems \subseteq Items(watch) /\ Items(watch) \subseteq Item
  BY <1>2, ItemsType DEF DirtyItems
<1>4. ScanTyped'
  BY <1>1, <1>2, <1>3 DEF ScanTyped, Books, Nothing
<1>5. Chosen'
  BY <1>1, <1>2 DEF Chosen, DirtyItems, Items, TokensOf, Tokens
<1>6. at' = "observing" => HeldTrue'
  BY <1>1 DEF HeldTrue, Nothing
<1>7. ASSUME NEW i \in Items(watch) PROVE Current(i)'
  BY <1>1, <1>2, <1>3, CurrentKept DEF ScanInv, Pending
<1> QED BY <1>1, <1>4, <1>5, <1>6, <1>7 DEF ScanInv, Between, Items

LEMMA SeededKeeps ==
  ASSUME ScanInv, Seeded
  PROVE  ScanInv'
<1>1. /\ at = "seeding" /\ at' = "reading" /\ Seed(rest) /\ rest' = Nothing
      /\ UNCHANGED <<watch, updated, dirty, need, held, obs, unasked, overdue, writing, queue, open,
                     prio, px>>
  BY DEF Seeded, scored
<1>2. ScanTyped /\ Chosen
  BY <1>1 DEF ScanInv, Between
<1>3. /\ book' \in Books /\ reseeded \subseteq reseeded'
      /\ \A i \in Item : \A t \in Tokens(i) : book'[t] # book[t] => i \in reseeded'
  BY <1>1, <1>2, SeedReported DEF ScanTyped
<1>4. ScanTyped'
  BY <1>1, <1>2, <1>3 DEF ScanTyped, Books, Nothing
<1>5. Chosen'
  BY <1>1, <1>2 DEF Chosen, Items, TokensOf, Tokens
<1>6. ASSUME NEW i \in Items(watch) PROVE Current(i)'
  <2>1. i \in Item /\ Current(i)
    BY <1>2, ItemsType DEF ScanInv
  <2>2. \A t \in Tokens(i) : Pending(t) => Pending(t)'
    BY <1>1 DEF Pending
  <2> QED BY <1>1, <1>3, <2>1, <2>2, CurrentKept
<1> QED BY <1>1, <1>4, <1>5, <1>6 DEF ScanInv, Between, Items

LEMMA ReadBooksKeeps ==
  ASSUME ScanInv, ReadBooks
  PROVE  ScanInv'
<1>1. /\ at = "reading" /\ at' \in {"polling", "observing"}
      /\ reseeded' = reseeded \ dirty
      /\ UNCHANGED <<watch, updated, dirty, need, obs, unasked, overdue, book, writing, queue, open,
                     prio, px>>
  BY DEF ReadBooks, scored
<1>2. ScanTyped /\ Chosen
  BY <1>1 DEF ScanInv, Between
<1>3. PICK usable \in SUBSET need, S \in SUBSET need :
        /\ held' = [t \in Token |-> IF t \in usable THEN book[t] ELSE NoBook]
        /\ rest' = [t \in Token |-> IF t \in S THEN px[t] ELSE NoBook]
  <2> DEFINE usable == {t \in need : book[t] # NoBook /\ (t \notin old \/ AllowStaleCache)}
             asked == IF FallbackToPolling THEN ((need \ usable) \ tried) \cap due ELSE {}
  <2>1. /\ held' = [t \in Token |-> IF t \in usable THEN book[t] ELSE NoBook]
        /\ Answer(asked, rest')
    BY DEF ReadBooks
  <2>2. usable \in SUBSET need /\ asked \in SUBSET need
    OBVIOUS
  <2> HIDE DEF usable, asked
  <2>3. PICK S \in SUBSET need : rest' = [t \in Token |-> IF t \in S THEN px[t] ELSE NoBook]
    BY <2>1, <2>2 DEF Answer
  <2> QED BY <2>1, <2>2, <2>3
<1>4. ScanTyped'
  BY <1>1, <1>2, <1>3 DEF ScanTyped, Books
<1>5. Chosen'
  BY <1>1, <1>2 DEF Chosen, Items, TokensOf, Tokens
<1>6. HeldTrue'
  <2> SUFFICES ASSUME NEW t \in Token
               PROVE  IF t \in need THEN held'[t] = NoBook \/ held'[t] = book[t]
                      ELSE held'[t] = NoBook /\ rest'[t] = NoBook
    BY <1>1 DEF HeldTrue
  <2> QED BY <1>3
<1>7. ASSUME NEW i \in Items(watch) PROVE Current(i)'
  <2>1. i \in Item /\ Current(i)
    BY <1>2, ItemsType DEF ScanInv
  <2>2. \A t \in Tokens(i) : Pending(t) => Pending(t)'
    BY <1>1 DEF Pending
  <2> QED BY <1>1, <2>1, <2>2, CurrentKept
<1> QED BY <1>1, <1>4, <1>5, <1>6, <1>7 DEF ScanInv, Between, Items

LEMMA PolledKeeps ==
  ASSUME ScanInv, Polled
  PROVE  ScanInv'
<1>1. /\ at = "polling" /\ at' = "observing" /\ Seed(rest) /\ rest' = Nothing
      /\ held' = [t \in Token |-> IF rest[t] # NoBook THEN rest[t] ELSE held[t]]
      /\ UNCHANGED <<watch, updated, dirty, need, obs, unasked, overdue, writing, queue, open,
                     prio, px>>
  BY DEF Polled, scored
<1>2. ScanTyped /\ Chosen /\ HeldTrue
  BY <1>1 DEF ScanInv, Between
<1>3. /\ book' \in Books /\ reseeded \subseteq reseeded'
      /\ \A t \in Token : book'[t] = IF rest[t] # NoBook THEN rest[t] ELSE book[t]
      /\ \A i \in Item : \A t \in Tokens(i) : book'[t] # book[t] => i \in reseeded'
  BY <1>1, <1>2, SeedReported DEF ScanTyped
<1>4. ScanTyped'
  BY <1>1, <1>2, <1>3 DEF ScanTyped, Books, Nothing
<1>5. Chosen'
  BY <1>1, <1>2 DEF Chosen, Items, TokensOf, Tokens
<1>6. HeldTrue'
  <2> SUFFICES ASSUME NEW t \in Token
               PROVE  IF t \in need THEN held'[t] = NoBook \/ held'[t] = book'[t] \/ Known(t)'
                      ELSE held'[t] = NoBook
    BY <1>1 DEF HeldTrue
  <2>1. Known(t) => Known(t)'
    BY <1>1, <1>3 DEF Known, Tokens
  <2> QED BY <1>1, <1>2, <1>3, <2>1 DEF HeldTrue
<1>7. ASSUME NEW i \in Items(watch) PROVE Current(i)'
  <2>1. i \in Item /\ Current(i)
    BY <1>2, ItemsType DEF ScanInv
  <2>2. \A t \in Tokens(i) : Pending(t) => Pending(t)'
    BY <1>1 DEF Pending
  <2> QED BY <1>1, <1>3, <2>1, <2>2, CurrentKept
<1> QED BY <1>1, <1>4, <1>5, <1>6, <1>7 DEF ScanInv, Between, Items

-----------------------------------------------------------------------------
(* Scoring and waiting.                                                    *)

\* A scored item says what the books of now say, or why it does not.
LEMMA ScoredCurrent ==
  ASSUME ScanInv, at = "observing", NEW i \in Item
  PROVE  \/ Classify(i, held) = Classify(i, book) \/ i \in reseeded
         \/ \E t \in Tokens(i) : t \in queue \cup writing
         \/ \E t \in Tokens(i) \ need : book[t] # NoBook
         \/ \E t \in Tokens(i) \cap need : held[t] = NoBook /\ book[t] # NoBook
<1>1. HeldTrue /\ Tokens(i) \subseteq Token
  BY TokensType DEF ScanInv
<1>2. CASE \A t \in Tokens(i) : held[t] = book[t]
  BY <1>2, ClassifySame
<1>3. CASE \E t \in Tokens(i) : held[t] # book[t]
  BY <1>1, <1>3 DEF HeldTrue, Known
<1> QED BY <1>2, <1>3

LEMMA ObserveKeeps ==
  ASSUME ScanInv, Observe
  PROVE  ScanInv'
<1> DEFINE now == [i \in Item |-> IF i \in Rescored THEN Classify(i, held) ELSE obs[i]]
<1>1. /\ at = "observing" /\ at' = "waiting" /\ obs' = now
      /\ unasked' = (unasked \ Rescored)
           \cup {i \in Rescored : \E t \in Tokens(i) \ need : book[t] # NoBook}
      /\ overdue' = (overdue \ Rescored)
           \cup {i \in Rescored : \E t \in Tokens(i) \cap need : held[t] = NoBook /\ book[t] # NoBook}
      /\ updated' = {} /\ dirty' = {}
      /\ UNCHANGED <<watch, need, held, rest, book, writing, queue, reseeded, px>>
  BY DEF Observe, feedVars
<1>2. /\ \E closed \in SUBSET {p \in open \cap watch : now[p] # "missing"} : open' = open \ closed
      /\ AskPriority(now) \/ prio' = prio
  BY DEF Observe
<1>3. ScanTyped /\ Chosen /\ HeldTrue
  BY <1>1 DEF ScanInv, Between
<1>4. Items(watch) \subseteq Item /\ watch \subseteq Items(watch) /\ Rescored \subseteq Item
  BY <1>3, ItemsType DEF Rescored, ScanTyped, Item
<1> HIDE DEF now
<1>5. \A i \in Item : obs'[i] = IF i \in Rescored THEN Classify(i, held) ELSE obs[i]
  BY <1>1 DEF now
<1>6. ScanTyped'
  <2>1. obs' \in [Item -> Class \cup {"none"}]
    <3>1. \A i \in Item : Classify(i, held) \in Class
      BY ClassifyType
    <3> QED BY <1>1, <1>3, <3>1 DEF now, ScanTyped
  <2>2. prio' \in Books
    BY <1>2, <1>3 DEF AskPriority, ScanTyped, Books
  <2> QED BY <1>1, <1>3, <2>1, <2>2 DEF ScanTyped
<1>7. \A i \in Items(watch) : obs'[i] # "none"
  BY <1>4, <1>5, ClassifyType DEF Rescored, Class
<1>8. \A i \in Item : Tokens(i) = {} => obs'[i] \in {"none", "executable"}
  BY <1>5, ClassifyType DEF ScanInv
<1>9. unasked' \cap watch \subseteq open'
  <2> SUFFICES ASSUME NEW p \in unasked', p \in watch PROVE p \in open'
    OBVIOUS
  <2>1. p \in Item /\ p \in Items(watch)
    BY <1>4
  <2>2. CASE p \in unasked /\ p \notin Rescored
    BY <2>2 DEF ScanInv, Rescored
  <2>3. CASE p \in Rescored /\ \E t \in Tokens(p) \ need : book[t] # NoBook
    <3>1. PICK t \in Tokens(p) : t \notin need
      BY <2>3
    <3>2. held[t] = NoBook
      BY <1>3, <2>1, <3>1, TokensType DEF HeldTrue
    <3>3. now[p] = "missing"
      BY <1>1, <1>5, <2>1, <2>3, <3>2 DEF Classify
    <3>4. p \notin dirty
      BY <1>3, <3>1 DEF Chosen, TokensOf
    <3>5. p \in open
      BY <1>3, <2>1, <2>3, <3>4 DEF Rescored, Chosen
    <3> QED BY <1>2, <3>3, <3>5
  <2> QED BY <1>1, <2>2, <2>3
<1>10. ASSUME NEW i \in Items(watch) PROVE Current(i)'
  <2>1. i \in Item /\ Current(i)
    BY <1>4 DEF ScanInv
  <2>2. CASE i \in Rescored
    <3>1. obs'[i] = Classify(i, held)
      BY <1>5, <2>1, <2>2
    <3>2. CASE Classify(i, held) = Classify(i, book)
      BY <1>1, <3>1, <3>2 DEF Current, Classify, Tokens
    <3>3. CASE i \in reseeded
      BY <1>1, <3>3 DEF Current
    <3>4. CASE \E t \in Tokens(i) : t \in queue \cup writing
      BY <1>1, <3>4 DEF Current, Pending, Tokens
    <3>5. CASE \/ \E t \in Tokens(i) \ need : book[t] # NoBook
               \/ \E t \in Tokens(i) \cap need : held[t] = NoBook /\ book[t] # NoBook
      BY <1>1, <2>2, <3>5 DEF Current
    <3> QED BY <1>1, <2>1, <3>2, <3>3, <3>4, <3>5, ScoredCurrent
  <2>3. CASE i \notin Rescored
    <3>1. i \notin dirty /\ obs'[i] = obs[i] /\ obs[i] # "none"
      BY <1>5, <2>1, <2>3 DEF Rescored
    <3>2. updated # All /\ Tokens(i) \cap updated = {}
      BY <1>3, <3>1 DEF Chosen
    <3>3. CASE obs[i] = Classify(i, book)
      BY <1>1, <3>1, <3>3 DEF Current, Classify, Tokens
    <3>4. CASE i \in unasked \cup overdue \cup reseeded
      BY <1>1, <2>3, <3>4 DEF Current
    <3>5. CASE \E t \in Tokens(i) : Pending(t)
      BY <1>1, <3>2, <3>5 DEF Current, Pending, Tokens
    <3> QED BY <2>1, <3>1, <3>3, <3>4, <3>5 DEF Current
  <2> QED BY <2>2, <2>3
<1> QED BY <1>1, <1>6, <1>7, <1>8, <1>9, <1>10 DEF ScanInv, Between, Items, Tokens

LEMMA WaitKeeps ==
  ASSUME ScanInv, Wait
  PROVE  ScanInv'
<1>1. /\ at = "waiting" /\ at' = "top" /\ updated' = queue /\ queue' = {} /\ held' = Nothing
      /\ UNCHANGED <<watch, dirty, rest, obs, unasked, overdue, book, writing, reseeded, open, prio, px>>
  BY DEF Wait, scored
<1>2. ScanTyped /\ dirty = {} /\ updated = {} /\ \A i \in Items(watch) : obs[i] # "none"
  BY <1>1, DirtyScanAssumption DEF ScanInv, Between
<1>3. ScanTyped'
  BY <1>1, <1>2 DEF ScanTyped, Books, Nothing
<1>4. ASSUME NEW i \in Items(watch) PROVE Current(i)'
  <2>1. i \in Item /\ Current(i)
    BY <1>2, ItemsType DEF ScanInv
  <2>2. \A t \in Tokens(i) : Pending(t) => Pending(t)'
    BY <1>1, <1>2, DirtyScanAssumption DEF Pending
  <2> QED BY <1>1, <2>1, <2>2, CurrentKept
<1> QED BY <1>1, <1>2, <1>3, <1>4 DEF ScanInv, Between, Items, Tokens

\* Every item of a new list is to be scored, or has no token to change.
LEMMA RefreshKeeps ==
  ASSUME ScanInv, Refresh
  PROVE  ScanInv'
<1>1. /\ at = "top" /\ watch' \in SUBSET Pair /\ updated' = All
      /\ obs' = [i \in Item |-> IF i = NLeg THEN obs[i] ELSE "none"]
      /\ unasked' = unasked \cap {NLeg}
      /\ UNCHANGED <<at, dirty, held, rest, book, prio, px>>
  BY DEF Refresh, feedVars
<1>2. ScanTyped /\ dirty = {} /\ NLeg \in Item /\ NLeg \notin Pair
  BY <1>1, DirtyScanAssumption DEF ScanInv, Between, Item
<1>3. ScanTyped'
  BY <1>1, <1>2 DEF ScanTyped
<1>4. \A i \in Item : Tokens(i) = {} => obs'[i] \in {"none", "executable"}
  BY <1>1 DEF ScanInv
<1>5. ASSUME NEW i \in Item PROVE Current(i)'
  <2>1. CASE Tokens(i) # {}
    BY <1>1, <2>1 DEF Current, Pending, Tokens
  <2>2. CASE Tokens(i) = {}
    BY <1>1, <1>4, <2>2, ClassifyType DEF Current, Tokens, Classify
  <2> QED BY <2>1, <2>2
<1>6. unasked' \cap watch' \subseteq open'
  BY <1>1, <1>2
<1>7. Items(watch') \subseteq Item
  BY <1>1 DEF Items, Item
<1> QED BY <1>1, <1>2, <1>3, <1>4, <1>5, <1>6, <1>7 DEF ScanInv, Between, Items, Tokens

-----------------------------------------------------------------------------
(* The other actors: seeds, entries, the feed.                             *)

LEMMA PrioritySeededKeeps ==
  ASSUME ScanInv, PrioritySeeded
  PROVE  ScanInv'
<1>1. /\ Seed(prio) /\ prio' = Nothing
      /\ UNCHANGED <<at, watch, updated, dirty, need, held, rest, obs, unasked, overdue, writing,
                     queue, open, px>>
  BY DEF PrioritySeeded, loopVars, scored
<1>2. ScanTyped
  BY DEF ScanInv
<1>3. /\ book' \in Books /\ reseeded \subseteq reseeded'
      /\ \A i \in Item : \A t \in Tokens(i) : book'[t] # book[t] => i \in reseeded'
  BY <1>1, <1>2, SeedReported DEF ScanTyped
<1>4. ScanTyped'
  BY <1>1, <1>2, <1>3 DEF ScanTyped, Books, Nothing
<1>5. Chosen => Chosen'
  BY <1>1 DEF Chosen, Items, TokensOf, Tokens
<1>6. HeldTrue => HeldTrue'
  <2>1. \A t \in Token : Known(t) => Known(t)'
    BY <1>1, <1>3 DEF Known, Tokens
  <2>2. \A t \in Token : book'[t] = book[t] \/ Known(t)'
    BY <1>3 DEF Known, Tokens
  <2> QED BY <1>1, <2>1, <2>2, HeldKept
<1>7. ASSUME NEW i \in Items(watch) PROVE Current(i)'
  <2>1. i \in Item /\ Current(i)
    BY <1>2, ItemsType DEF ScanInv
  <2>2. \A t \in Tokens(i) : Pending(t) => Pending(t)'
    BY <1>1 DEF Pending
  <2> QED BY <1>1, <1>3, <2>1, <2>2, CurrentKept
<1> QED BY <1>1, <1>4, <1>5, <1>6, <1>7 DEF ScanInv, Between, Items, Tokens

LEMMA FeedWritesKeeps ==
  ASSUME ScanInv, NEW w \in Token, FeedWrites(w)
  PROVE  ScanInv'
<1>1. /\ book' = [book EXCEPT ![w] = px[w]] /\ writing' = writing \cup {w}
      /\ UNCHANGED <<at, watch, updated, dirty, need, held, rest, obs, unasked, overdue, queue,
                     reseeded, open, prio, px>>
  BY DEF FeedWrites, loopVars, scored
<1>2. ScanTyped
  BY DEF ScanInv
<1>3. \A t \in Token : t # w => book'[t] = book[t]
  BY <1>1, <1>2 DEF ScanTyped, Books
<1>4. ScanTyped'
  BY <1>1, <1>2 DEF ScanTyped, Books
<1>5. Chosen => Chosen'
  BY <1>1 DEF Chosen, Items, TokensOf, Tokens
<1>6. HeldTrue => HeldTrue'
  <2>1. \A t \in Token : Known(t) => Known(t)'
    BY <1>1 DEF Known, Tokens
  <2>2. \A t \in Token : book'[t] = book[t] \/ Known(t)'
    BY <1>1, <1>3 DEF Known
  <2> QED BY <1>1, <2>1, <2>2, HeldKept
<1>7. ASSUME NEW i \in Items(watch) PROVE Current(i)'
  <2>1. i \in Item /\ Current(i)
    BY <1>2, ItemsType DEF ScanInv
  <2>2. \A t \in Tokens(i) : Pending(t) => Pending(t)'
    BY <1>1 DEF Pending
  <2>3. \A t \in Tokens(i) : book'[t] = book[t] \/ Pending(t)'
    BY <1>1, <1>3, <2>1, TokensType DEF Pending
  <2> QED BY <1>1, <2>1, <2>2, <2>3, CurrentKept
<1> QED BY <1>1, <1>4, <1>5, <1>6, <1>7 DEF ScanInv, Between, Items, Tokens

LEMMA FeedQueuesKeeps ==
  ASSUME ScanInv, NEW w \in Token, FeedQueues(w)
  PROVE  ScanInv'
<1>1. /\ writing' = writing \ {w} /\ queue' = queue \cup {w}
      /\ UNCHANGED <<at, watch, updated, dirty, need, held, rest, obs, unasked, overdue, book,
                     reseeded, open, prio, px>>
  BY DEF FeedQueues, loopVars, scored
<1>2. ScanTyped
  BY DEF ScanInv
<1>3. ScanTyped'
  BY <1>1, <1>2 DEF ScanTyped
<1>4. Chosen => Chosen'
  BY <1>1 DEF Chosen, Items, TokensOf, Tokens
<1>5. HeldTrue => HeldTrue'
  <2>1. \A t \in Token : Known(t) => Known(t)'
    BY <1>1 DEF Known, Tokens
  <2> QED BY <1>1, <2>1, HeldKept
<1>6. ASSUME NEW i \in Items(watch) PROVE Current(i)'
  <2>1. i \in Item /\ Current(i)
    BY <1>2, ItemsType DEF ScanInv
  <2>2. \A t \in Tokens(i) : Pending(t) => Pending(t)'
    BY <1>1 DEF Pending
  <2> QED BY <1>1, <2>1, <2>2, CurrentKept
<1> QED BY <1>1, <1>3, <1>4, <1>5, <1>6 DEF ScanInv, Between, Items, Tokens

\* Entries, prices and time reach the scan through what it reads later.
LEMMA OthersKeep ==
  ASSUME ScanInv,
         \/ \E p \in Pair : Entered(p)
         \/ \E t \in Token : Change(t) \/ TurnsStale(t) \/ FallsDue(t)
         \/ UNCHANGED vars
  PROVE  ScanInv'
<1>1. /\ UNCHANGED <<at, watch, updated, dirty, need, held, rest, obs, unasked, overdue, book,
                     writing, queue, reseeded, prio>>
      /\ open \subseteq open'
      /\ px' = px \/ \E t \in Token : px' = [px EXCEPT ![t] = IF @ = "low" THEN "high" ELSE "low"]
  <2>1. CASE \E p \in Pair : Entered(p)
    BY <2>1 DEF Entered, loopVars, scored, feedVars
  <2>2. CASE \E t \in Token : Change(t) \/ TurnsStale(t) \/ FallsDue(t)
    BY <2>2 DEF Change, TurnsStale, FallsDue, loopVars, scored, feedVars
  <2>3. CASE UNCHANGED vars
    BY <2>3 DEF vars, loopVars, scored, feedVars
  <2> QED BY <2>1, <2>2, <2>3
<1>2. ScanTyped
  BY DEF ScanInv
<1>3. ScanTyped'
  <2>1. px' \in [Token -> Price]
    BY <1>1, <1>2 DEF ScanTyped, Price
  <2> QED BY <1>1, <1>2, <2>1 DEF ScanTyped
<1>4. Chosen => Chosen'
  BY <1>1 DEF Chosen, Items, TokensOf, Tokens
<1>5. HeldTrue => HeldTrue'
  BY <1>1 DEF HeldTrue, Known, Tokens
<1>6. ASSUME NEW i \in Items(watch) PROVE Current(i)'
  <2>1. i \in Item /\ Current(i)
    BY <1>2, ItemsType DEF ScanInv
  <2>2. \A t \in Tokens(i) : Pending(t) => Pending(t)'
    BY <1>1 DEF Pending
  <2> QED BY <1>1, <2>1, <2>2, CurrentKept
<1> QED BY <1>1, <1>3, <1>4, <1>5, <1>6 DEF ScanInv, Between, Items, Tokens

-----------------------------------------------------------------------------
(* The invariant and what follows from it.                                 *)

LEMMA InitInv == Init => ScanInv
<1> SUFFICES ASSUME Init PROVE ScanInv
  OBVIOUS
<1>1. /\ at = "top" /\ watch = Pair /\ updated = All /\ dirty = {} /\ unasked = {}
      /\ held = Nothing /\ rest = Nothing /\ prio = Nothing
      /\ obs = [i \in Item |-> "none"] /\ px = [t \in Token |-> "low"]
      /\ \E T \in SUBSET Token : book = [t \in Token |-> IF t \in T THEN NoBook ELSE px[t]]
  BY DEF Init
<1>2. ScanTyped
  BY <1>1 DEF ScanTyped, Books, Nothing, Price
<1>3. \A i \in Items(watch) : Current(i)
  BY <1>1, <1>2, ItemsType DEF Current
<1> QED BY <1>1, <1>2, <1>3 DEF ScanInv, Between

LEMMA NextInv == ScanInv /\ [Next]_vars => ScanInv'
<1> SUFFICES ASSUME ScanInv, [Next]_vars PROVE ScanInv'
  OBVIOUS
<1>1. CASE Loop
  BY <1>1, PlanKeeps, SeededKeeps, ReadBooksKeeps, PolledKeeps, ObserveKeeps, WaitKeeps, RefreshKeeps
     DEF Loop
<1>2. CASE PrioritySeeded
  BY <1>2, PrioritySeededKeeps
<1>3. CASE \E t \in Token : FeedWrites(t) \/ FeedQueues(t)
  BY <1>3, FeedWritesKeeps, FeedQueuesKeeps
<1>4. CASE \/ \E p \in Pair : Entered(p)
           \/ \E t \in Token : Change(t) \/ TurnsStale(t) \/ FallsDue(t)
           \/ UNCHANGED vars
  BY <1>4, OthersKeep
<1> QED BY <1>1, <1>2, <1>3, <1>4 DEF Next, Feed

LEMMA AlwaysInv == Spec => []ScanInv
BY InitInv, NextInv, PTL DEF Spec

(***************************************************************************)
(* For any pairs, tokens and N-leg spec: what the scan does not score      *)
(* again still says what a full scan would, unless a token of it is on its *)
(* way or the reason is recorded (_scan_once, _fast_observe_all).          *)
(***************************************************************************)
THEOREM ObservationsAlwaysCurrent == Spec => []ObservationsCurrent
<1>1. ScanInv => ObservationsCurrent
  BY DEF ScanInv, ObservationsCurrent, Current
<1> QED BY <1>1, AlwaysInv, PTL

(***************************************************************************)
(* For any pairs and any number of entries in between: a pair scored       *)
(* without asking for books that were there is asked for by the next scan. *)
(* It is always an open pair, and those are in every dirty set             *)
(* (_scan_once).                                                           *)
(***************************************************************************)
THEOREM UnaskedAreAsked == Spec => UnaskedOneScan
<1>1. ScanInv /\ [Next]_vars => [Plan => TokensOf(unasked \cap watch) \subseteq need']_vars
  <2> SUFFICES ASSUME ScanInv, Plan PROVE TokensOf(unasked \cap watch) \subseteq need'
    OBVIOUS
  <2>1. unasked \cap watch \subseteq DirtyItems
    <3>1. watch \subseteq Items(watch) /\ unasked \cap watch \subseteq open
      BY ItemsType DEF ScanInv
    <3> QED BY <3>1 DEF DirtyItems
  <2>2. need' = TokensOf(DirtyItems)
    BY DEF Plan
  <2> QED BY <2>1, <2>2 DEF TokensOf
<1> QED BY <1>1, AlwaysInv, PTL DEF Spec, UnaskedOneScan

-----------------------------------------------------------------------------
(* Sizing: filling a size from a book.                                     *)

\* The shares taken at a level to fill n.
Took(b, n, p) == IF n <= Below(b, p) THEN 0 ELSE Least({b[p], n - Below(b, p)})

LEMMA AskSideTyped ==
  ASSUME NEW b \in AskSides
  PROVE  /\ IsFiniteSet(DOMAIN b)
         /\ \A p \in DOMAIN b : p \in Nat /\ p >= 1 /\ p <= One /\ b[p] \in Nat
<1>1. PICK L \in SUBSET Level : b \in [L -> 0 .. MaxSize]
  BY DEF AskSides
<1>2. L \in SUBSET (1 .. One) /\ One \in Nat /\ MaxSize \in Nat /\ DOMAIN b = L
  BY <1>1, SizingAssumption DEF SizingAssumption
<1>3. IsFiniteSet(1 .. One)
  BY <1>2, FS_Interval
<1>4. IsFiniteSet(L)
  BY <1>2, <1>3, FS_Subset
<1>5. \A p \in L : p \in Nat /\ p >= 1 /\ p <= One /\ b[p] \in Nat
  BY <1>1, <1>2
<1> QED BY <1>2, <1>4, <1>5

LEMMA DepthTyped == ASSUME NEW b \in AskSides PROVE Depth(b) \in Nat
  BY AskSideTyped, SumType DEF Depth

\* What lies below a level, and what lies below and at it.
LEMMA BelowTyped ==
  ASSUME NEW b \in AskSides, NEW p \in DOMAIN b
  PROVE  /\ Below(b, p) \in Nat /\ b[p] \in Nat
         /\ SumOver({q \in DOMAIN b : q <= p}, b) = Below(b, p) + b[p]
<1> DEFINE under == {q \in DOMAIN b : q < p}
           upto == {q \in DOMAIN b : q <= p}
<1>1. IsFiniteSet(DOMAIN b) /\ \A q \in DOMAIN b : q \in Nat /\ b[q] \in Nat
  BY AskSideTyped
<1>2. IsFiniteSet(under) /\ IsFiniteSet(upto)
  BY <1>1, FS_Subset
<1>3. upto \ {p} = under /\ p \in upto
  BY <1>1
<1>4. SumOver(under, b) \in Nat
  BY <1>1, <1>2, SumType
<1>5. SumOver(upto, b) = SumOver(upto \ {p}, b) + b[p]
  <2>1. \A q \in upto : b[q] \in Nat
    BY <1>1
  <2> HIDE DEF upto
  <2> QED BY <1>2, <1>3, <2>1, SumWithout
<1> QED BY <1>1, <1>3, <1>4, <1>5 DEF Below

\* The level at which n shares are reached; those below it are taken whole.
LEMMA LastLevel ==
  ASSUME NEW b \in AskSides, NEW n \in Nat, n >= 1, Fillable(b, n)
  PROVE  \E p \in DOMAIN b : /\ Below(b, p) < n /\ n <= Below(b, p) + b[p]
                             /\ \A q \in DOMAIN b : q < p => Below(b, q) + b[q] < n
<1> DEFINE L == DOMAIN b
           reached == {p \in L : Below(b, p) + b[p] >= n}
<1>1. IsFiniteSet(L) /\ \A q \in L : q \in Nat /\ b[q] \in Nat /\ Below(b, q) \in Nat
  BY AskSideTyped, BelowTyped
<1>2. reached # {}
  <2>1. L # {}
    <3>1. L = {} => Depth(b) = 0
      BY SumOfNone DEF Depth
    <3> QED BY <3>1 DEF Fillable
  <2>2. PICK top \in L : \A q \in L : top >= q
    <3>1. L \in SUBSET Int
      BY <1>1
    <3> HIDE DEF L
    <3> QED BY <1>1, <2>1, <3>1, LargestExists
  <2>3. {q \in L : q <= top} = L
    BY <1>1, <2>2
  <2>4. Depth(b) = Below(b, top) + b[top]
    BY <2>3, BelowTyped DEF Depth
  <2> QED BY <1>1, <2>4 DEF Fillable
<1>3. PICK p \in reached : \A q \in reached : p <= q
  <2>1. reached \in SUBSET Nat
    BY <1>1
  <2> HIDE DEF reached
  <2> QED BY <1>2, <2>1, SmallestExists
<1>4. \A q \in L : q < p => Below(b, q) + b[q] < n
  <2> SUFFICES ASSUME NEW q \in L, q < p PROVE Below(b, q) + b[q] < n
    OBVIOUS
  <2>1. q \notin reached
    BY <1>1, <1>3
  <2> QED BY <1>1, <2>1
<1>5. Below(b, p) < n
  <2> DEFINE under == {q \in L : q < p}
  <2>1. CASE under = {}
    BY <2>1, SumOfNone DEF Below
  <2>2. CASE under # {}
    <3>1. PICK top \in under : \A q \in under : top >= q
      <4>1. under \in SUBSET Int /\ IsFiniteSet(under)
        BY <1>1, FS_Subset
      <4> HIDE DEF under
      <4> QED BY <2>2, <4>1, LargestExists
    <3>2. {q \in L : q <= top} = under
      BY <1>1, <3>1
    <3>3. Below(b, p) = Below(b, top) + b[top]
      BY <3>2, BelowTyped DEF Below
    <3> QED BY <1>4, <3>1, <3>3
  <2> QED BY <2>1, <2>2
<1> QED BY <1>1, <1>3, <1>4, <1>5

\* A level below the last is taken whole, of the last what is still missing,
\* and of a level above it nothing.
LEMMA TookParts ==
  ASSUME NEW b \in AskSides, NEW n \in Nat, n >= 1, NEW p \in DOMAIN b,
         Below(b, p) < n, n <= Below(b, p) + b[p],
         \A q \in DOMAIN b : q < p => Below(b, q) + b[q] < n
  PROVE  /\ \A q \in {q \in DOMAIN b : q < p} : Took(b, n, q) = b[q]
         /\ Took(b, n, p) = n - Below(b, p)
         /\ \A q \in DOMAIN b : q > p => Took(b, n, q) = 0
         /\ \A q \in DOMAIN b : Took(b, n, q) \in Nat
<1> DEFINE L == DOMAIN b
<1>1. IsFiniteSet(L) /\ \A q \in L : q \in Nat /\ b[q] \in Nat /\ Below(b, q) \in Nat
  BY AskSideTyped, BelowTyped
<1>2. ASSUME NEW q \in L
      PROVE  /\ Took(b, n, q) \in Nat
             /\ n <= Below(b, q) => Took(b, n, q) = 0
             /\ Below(b, q) + b[q] < n => Took(b, n, q) = b[q]
             /\ Below(b, q) < n /\ n <= Below(b, q) + b[q] => Took(b, n, q) = n - Below(b, q)
  <2>1. CASE n <= Below(b, q)
    BY <1>1, <2>1 DEF Took
  <2>2. CASE Below(b, q) < n
    <3> DEFINE m == Least({b[q], n - Below(b, q)})
    <3>1. b[q] \in Int /\ n - Below(b, q) \in Int
      BY <1>1
    <3>2. m <= b[q] /\ m <= n - Below(b, q) /\ m \in {b[q], n - Below(b, q)}
      <4>1. \E x \in {b[q], n - Below(b, q)} : \A y \in {b[q], n - Below(b, q)} : x <= y
        BY <3>1
      <4> QED BY <4>1, LeastIsMinimum
    <3>3. Took(b, n, q) = m
      BY <1>1, <2>2 DEF Took
    <3> HIDE DEF m
    <3> QED BY <1>1, <2>2, <3>1, <3>2, <3>3
  <2> QED BY <1>1, <2>1, <2>2
<1>3. ASSUME NEW q \in L, q > p PROVE Took(b, n, q) = 0
  <2>1. {r \in L : r <= p} \in SUBSET {r \in L : r < q}
    BY <1>1, <1>3
  <2>2. IsFiniteSet({r \in L : r < q})
    BY <1>1, FS_Subset
  <2>3. SumOver({r \in L : r <= p}, b) <= SumOver({r \in L : r < q}, b)
    BY <1>1, <2>1, <2>2, SumGrows
  <2>4. Below(b, p) + b[p] <= Below(b, q)
    BY <2>3, BelowTyped DEF Below
  <2> QED BY <1>1, <1>2, <2>4
<1> QED BY <1>2, <1>3

\* The shares taken are those asked for.
LEMMA TookAll ==
  ASSUME NEW b \in AskSides, NEW n \in Nat, n >= 1, Fillable(b, n)
  PROVE  /\ \A p \in DOMAIN b : Took(b, n, p) \in Nat
         /\ SumOver(DOMAIN b, [p \in DOMAIN b |-> Took(b, n, p)]) = n
<1> DEFINE L == DOMAIN b
           f == [q \in L |-> Took(b, n, q)]
<1>1. IsFiniteSet(L) /\ \A q \in L : q \in Nat /\ b[q] \in Nat /\ Below(b, q) \in Nat
  BY AskSideTyped, BelowTyped
<1>3. PICK p \in L : /\ Below(b, p) < n /\ n <= Below(b, p) + b[p]
                     /\ \A q \in L : q < p => Below(b, q) + b[q] < n
  BY LastLevel
<1> DEFINE under == {q \in L : q < p}
           over == {q \in L : q > p}
<1>4. /\ \A q \in under : Took(b, n, q) = b[q]
      /\ Took(b, n, p) = n - Below(b, p)
      /\ \A q \in over : Took(b, n, q) = 0
      /\ \A q \in L : Took(b, n, q) \in Nat
  BY <1>3, TookParts
<1>5. /\ IsFiniteSet(under) /\ IsFiniteSet(over) /\ IsFiniteSet({p})
      /\ \A q \in L : f[q] \in Nat
  BY <1>1, <1>4, FS_Subset, FS_Singleton
<1>6. SumOver(under, f) = Below(b, p)
  <2>1. \A q \in under : f[q] = b[q]
    BY <1>4
  <2> HIDE DEF f
  <2> QED BY <2>1, SumEqual DEF Below
<1>7. SumOver({p}, f) = n - Below(b, p)
  <2>1. f[p] = n - Below(b, p) /\ f[p] \in Nat
    BY <1>4
  <2> HIDE DEF f
  <2> QED BY <2>1, SumOfOne
<1>8. SumOver(over, f) = 0
  <2> DEFINE none == [q \in over |-> 0]
  <2>1. \A q \in over : f[q] = none[q]
    BY <1>4
  <2>2. SumOver(over, f) = SumOver(over, none)
    <3> HIDE DEF f, none
    <3> QED BY <2>1, SumEqual
  <2>3. SumOver(over, none) <= Cardinality(over) * 0 /\ SumOver(over, none) \in Nat
    <3>1. \A q \in over : none[q] \in 0 .. 0 /\ none[q] \in Nat
      OBVIOUS
    <3> HIDE DEF none, over
    <3> QED BY <1>5, <3>1, SumBounded, SumType
  <2>4. Cardinality(over) \in Nat
    BY <1>5, FS_CardinalityType
  <2> HIDE DEF none, over
  <2> QED BY <2>2, <2>3, <2>4
<1>9. /\ L = (under \cup {p}) \cup over
      /\ under \cap {p} = {} /\ (under \cup {p}) \cap over = {}
  BY <1>1
<1>10. SumOver(under \cup {p}, f) = SumOver(under, f) + SumOver({p}, f)
  <2>1. \A q \in under \cup {p} : f[q] \in Nat
    BY <1>5
  <2> HIDE DEF f, under
  <2> QED BY <1>5, <1>9, <2>1, SumDisjoint
<1>11. SumOver(L, f) = SumOver(under \cup {p}, f) + SumOver(over, f)
  <2>1. IsFiniteSet(under \cup {p})
    BY <1>5, FS_AddElement
  <2> HIDE DEF f, under, over, L
  <2> QED BY <1>5, <1>9, <2>1, SumDisjoint
<1>12. SumOver(L, f) = n
  <2> HIDE DEF f, under, over, L
  <2> QED BY <1>1, <1>6, <1>7, <1>8, <1>10, <1>11
<1> QED BY <1>4, <1>12

\* Filling n shares costs at least the best ask for each, and at most a dollar.
LEMMA WalkBounds ==
  ASSUME NEW b \in AskSides, NEW n \in Nat, n >= 1, Fillable(b, n)
  PROVE  /\ BestAsk(b) \in Nat /\ BestAsk(b) <= One
         /\ Walk(b, n) \in Nat
         /\ n * BestAsk(b) <= Walk(b, n) /\ Walk(b, n) <= n * One
<1> DEFINE L == DOMAIN b
           f == [p \in L |-> Took(b, n, p)]
           g == [p \in L |-> Took(b, n, p) * p]
<1>1. IsFiniteSet(L) /\ \A p \in L : p \in Nat /\ p <= One
  BY AskSideTyped
<1>2. Walk(b, n) = SumOver(L, g)
  BY DEF Walk, Took
<1>3. /\ SumOver(L, f) = n
      /\ \A p \in L : Took(b, n, p) \in Nat
  BY TookAll
<1>4. BestAsk(b) \in L /\ \A p \in L : BestAsk(b) <= p
  <2>1. L # {}
    <3>1. L = {} => Depth(b) = 0
      BY SumOfNone DEF Depth
    <3> QED BY <3>1 DEF Fillable
  <2>2. L \in SUBSET Nat
    BY <1>1
  <2> HIDE DEF L
  <2>3. \E x \in L : \A y \in L : x <= y
    BY <2>1, <2>2, SmallestExists
  <2> QED BY <2>3, LeastIsMinimum DEF BestAsk, L
<1>5. BestAsk(b) \in Nat /\ BestAsk(b) <= One /\ One \in Nat
  BY <1>1, <1>4, SizingAssumption DEF SizingAssumption
<1>6. ASSUME NEW p \in L
      PROVE  /\ f[p] \in Nat /\ g[p] \in Nat
             /\ BestAsk(b) * f[p] <= 1 * g[p] /\ 1 * g[p] <= One * f[p]
  <2>1. f[p] = Took(b, n, p) /\ g[p] = Took(b, n, p) * p /\ Took(b, n, p) \in Nat
    BY <1>3
  <2>2. p \in Nat /\ p <= One /\ BestAsk(b) <= p
    BY <1>1, <1>4
  <2> HIDE DEF f, g
  <2>3. \A k \in Nat : BestAsk(b) * k <= k * p /\ k * p <= One * k /\ k * p \in Nat
    BY <1>5, <2>2
  <2> QED BY <2>1, <2>3
<1> HIDE DEF L, f, g
<1>7. BestAsk(b) * SumOver(L, f) <= 1 * SumOver(L, g)
  BY <1>1, <1>5, <1>6, SumScaled
<1>8. 1 * SumOver(L, g) <= One * SumOver(L, f)
  BY <1>1, <1>5, <1>6, SumScaled
<1>9. SumOver(L, g) \in Nat
  BY <1>1, <1>6, SumType
<1> QED BY <1>2, <1>3, <1>5, <1>7, <1>8, <1>9

-----------------------------------------------------------------------------
(* The cost of n pairs, at least n times n that of one at the best asks.   *)

LEMMA OneLeg ==
  ASSUME NEW n \in Nat, NEW a \in Nat, NEW c \in Nat, NEW F \in Nat, NEW O \in Nat,
         F >= 1, n * a <= c, c <= n * O
  PROVE  n * n * (F * O * a + a * (O - a)) <= F * n * O * c + c * (n * O - c)
<1> DEFINE u == c - n * a
           slack == F * n * O + n * O - c - n * a
<1>1. n * a \in Nat /\ u \in Nat /\ c = n * a + u
  OBVIOUS
<1>2. slack \in Nat
  <2>1. n * O \in Nat /\ n * a \in Nat
    OBVIOUS
  <2>2. F * (n * O) >= n * O /\ F * n * O = F * (n * O)
    BY <2>1
  <2> QED BY <2>1, <2>2
<1>3. F * n * O * (n * a + u) + (n * a + u) * (n * O - (n * a + u))
       = n * n * (F * O * a + a * (O - a)) + u * (F * n * O + n * O - (n * a + u) - n * a)
  <2> HIDE DEF u
  <2> QED BY <1>1
<1>4. F * n * O * c + c * (n * O - c) = n * n * (F * O * a + a * (O - a)) + u * slack
  BY <1>1, <1>3
<1> HIDE DEF u, slack
<1>5. u * slack \in Nat
  BY <1>1, <1>2
<1>6. n * n * (F * O * a + a * (O - a)) \in Int /\ F * n * O * c + c * (n * O - c) \in Int
  OBVIOUS
<1> QED BY <1>4, <1>5, <1>6

LEMMA NetOfMany ==
  ASSUME NEW n \in Nat, n >= 1, NEW a \in Nat, NEW b \in Nat, NEW c \in Nat, NEW d \in Nat,
         a <= One, b <= One, n * a <= c, c <= n * One, n * b <= d, d <= n * One
  PROVE  /\ Net(a, b, 1) \in Int /\ Net(c, d, n) \in Int
         /\ n * n * Net(a, b, 1) <= Net(c, d, n)
         /\ (a + b) * Scale(1) <= Net(a, b, 1)
<1>1. /\ One \in Nat /\ FeeScale \in Nat /\ FeeScale >= 1 /\ Slippage \in Nat
  BY SizingAssumption DEF SizingAssumption
<1> DEFINE X(p) == FeeScale * One * p + p * (One - p)
           Y(p) == FeeScale * n * One * p + p * (n * One - p)
           Z == Slippage * (FeeScale * One)
<1>2. Net(a, b, 1) = X(a) + X(b) + Z
  BY <1>1 DEF Net, FeeOn, Scale
<1>3. Net(c, d, n) = Y(c) + Y(d) + n * n * Z
  BY <1>1 DEF Net, FeeOn, Scale
<1>4. n * n * X(a) <= Y(c) /\ n * n * X(b) <= Y(d)
  BY <1>1, OneLeg
<1>5. X(a) \in Int /\ X(b) \in Int /\ Y(c) \in Int /\ Y(d) \in Int /\ Z \in Nat
  BY <1>1
<1>6. a * (One - a) \in Nat /\ b * (One - b) \in Nat
  BY <1>1
<1>7. (a + b) * Scale(1) = FeeScale * One * a + FeeScale * One * b
  BY <1>1 DEF Scale
<1>8. FeeScale * One * a \in Nat /\ FeeScale * One * b \in Nat
  BY <1>1
<1>9. (a + b) * Scale(1) <= Net(a, b, 1)
  <2>1. X(a) >= FeeScale * One * a /\ X(b) >= FeeScale * One * b
    BY <1>6, <1>8
  <2> HIDE DEF X, Z
  <2> QED BY <1>2, <1>5, <1>7, <1>8, <2>1
<1> HIDE DEF X, Y, Z
<1>10. n * n * (X(a) + X(b) + Z) = n * n * X(a) + n * n * X(b) + n * n * Z
  BY <1>5
<1>11. n * n * X(a) \in Int /\ n * n * X(b) \in Int /\ n * n * Z \in Int
  BY <1>5
<1> QED BY <1>2, <1>3, <1>4, <1>5, <1>9, <1>10, <1>11

-----------------------------------------------------------------------------
(* The batch filter.                                                       *)

\* The class of the pair that is remembered is the one its books have.
ClassRemembered ==
  /\ asks \in [Leg -> AskSides]
  /\ class # "none" =>
       class = IF ~Quoted THEN "missing"
               ELSE IF Batch = "rejected" /\ ~pairOpen THEN "rejected"
               ELSE ObservePair(pairOpen, spread = "wide")

\* A pair some number of which can be entered is executable at its best asks.
LEMMA EnterableAtTheTop ==
  ASSUME NearThreshold >= EntryThreshold, asks \in [Leg -> AskSides],
         NEW n \in 1 .. Least({Depth(asks[1]), Depth(asks[2])}), Enterable(n)
  PROVE  /\ Quoted /\ Batch = "executable"
         /\ ~(BestAsk(asks[1]) + BestAsk(asks[2]) > NearThreshold)
         /\ ~(Least({Depth(asks[1]), Depth(asks[2])}) <= 0)
<1> DEFINE a == BestAsk(asks[1])
           b == BestAsk(asks[2])
           c == Walk(asks[1], n)
           d == Walk(asks[2], n)
           m == Least({Depth(asks[1]), Depth(asks[2])})
<1>1. asks[1] \in AskSides /\ asks[2] \in AskSides
  BY SizingAssumption DEF SizingAssumption
<1>2. m \in Int
  <2>1. ASSUME NEW l \in {1, 2} PROVE Depth(asks[l]) \in Int
    <3>1. asks[l] \in AskSides
      BY <1>1
    <3>2. Depth(asks[l]) \in Nat
      BY <3>1, AskSideTyped, SumType DEF Depth
    <3> QED BY <3>2
  <2>2. Depth(asks[1]) \in Int /\ Depth(asks[2]) \in Int
    BY <2>1
  <2> QED BY <2>2, LeastOfTwo
<1>3. n \in Nat /\ n >= 1 /\ n <= m
  BY <1>2
<1>4. Fillable(asks[1], n) /\ Fillable(asks[2], n) /\ Passes(c, d, n)
  BY DEF Enterable, PairLegs
<1>5. /\ a \in Nat /\ a <= One /\ c \in Nat /\ n * a <= c /\ c <= n * One
      /\ b \in Nat /\ b <= One /\ d \in Nat /\ n * b <= d /\ d <= n * One
  BY <1>1, <1>3, <1>4, WalkBounds
<1>6. Quoted
  <2> SUFFICES ASSUME NEW l \in {1, 2} PROVE DOMAIN asks[l] # {}
    BY DEF Quoted, PairLegs
  <2>1. Fillable(asks[l], n)
    BY <1>4
  <2>2. DOMAIN asks[l] = {} => Depth(asks[l]) = 0
    BY SumOfNone DEF Depth
  <2> QED BY <1>3, <2>1, <2>2 DEF Fillable
<1>7. TopNet = Net(a, b, 1)
  BY DEF TopNet
<1> HIDE DEF a, b, c, d, m
<1>8. /\ TopNet \in Int /\ Net(c, d, n) \in Int
      /\ n * n * TopNet <= Net(c, d, n)
      /\ (a + b) * Scale(1) <= TopNet
  BY <1>3, <1>5, <1>7, NetOfMany
<1>9. /\ Scale(1) \in Nat /\ Scale(1) >= 1 /\ Scale(n) = n * n * Scale(1)
  <2>1. One \in Nat /\ One >= 1 /\ FeeScale \in Nat /\ FeeScale >= 1
    BY SizingAssumption DEF SizingAssumption
  <2>2. FeeScale * One >= 1
    BY <2>1
  <2> QED BY <1>3, <2>1, <2>2 DEF Scale
<1>10. {EntryThreshold, NearThreshold, MinEdge, One} \subseteq Int
  BY SizingAssumption DEF SizingAssumption
<1>11. /\ Net(c, d, n) < EntryThreshold * Scale(n)
       /\ (One - MinEdge) * Scale(n) >= Net(c, d, n)
  BY <1>4 DEF Passes
<1>12. ASSUME NEW x \in Int PROVE x * Scale(n) = n * n * (x * Scale(1))
  BY <1>3, <1>9
<1>13. ASSUME NEW x \in Int, NEW y \in Int
       PROVE  (n * n * x < n * n * y => x < y) /\ (n * n * x <= n * n * y => x <= y)
  <2>1. n * n \in Nat /\ n * n >= 1
    BY <1>3
  <2>2. \A k \in Nat : k >= 1 => (k * x < k * y => x < y) /\ (k * x <= k * y => x <= y)
    OBVIOUS
  <2> QED BY <2>1, <2>2
<1>14. TopNet < EntryThreshold * Scale(1)
  <2>1. EntryThreshold * Scale(1) \in Int /\ n * n * TopNet \in Int
    BY <1>3, <1>8, <1>9, <1>10
  <2>2. n * n * (EntryThreshold * Scale(1)) \in Int
    BY <1>3, <2>1
  <2>3. n * n * TopNet < n * n * (EntryThreshold * Scale(1))
    BY <1>8, <1>10, <1>11, <1>12, <2>1, <2>2
  <2> QED BY <1>8, <1>13, <2>1, <2>3
<1>15. (One - MinEdge) * Scale(1) >= TopNet
  <2>1. One - MinEdge \in Int
    BY <1>10
  <2>2. (One - MinEdge) * Scale(1) \in Int /\ n * n * TopNet \in Int
    BY <1>3, <1>8, <1>9, <2>1
  <2>3. n * n * ((One - MinEdge) * Scale(1)) \in Int
    BY <1>3, <2>2
  <2>4. n * n * TopNet <= n * n * ((One - MinEdge) * Scale(1))
    BY <1>8, <1>11, <1>12, <2>1, <2>2, <2>3
  <2> QED BY <1>8, <1>13, <2>2, <2>4
<1>16. Batch = "executable"
  BY <1>14, <1>15 DEF Batch
<1>17. ~(a + b > NearThreshold)
  <2>1. a + b \in Nat /\ NearThreshold \in Int
    BY <1>5, <1>10
  <2>2. (a + b) * Scale(1) \in Int /\ EntryThreshold * Scale(1) \in Int
    BY <1>9, <1>10, <2>1
  <2>3. (a + b) * Scale(1) < EntryThreshold * Scale(1)
    BY <1>8, <1>14, <2>2
  <2>4. a + b < EntryThreshold
    <3>1. \A k \in Nat, x, y \in Int : k >= 1 /\ x * k < y * k => x < y
      OBVIOUS
    <3> QED BY <1>9, <1>10, <2>1, <2>3, <3>1
  <2> QED BY <1>10, <2>1, <2>4
<1>18. ~(m <= 0)
  BY <1>2, <1>3
<1> QED BY <1>6, <1>16, <1>17, <1>18 DEF a, b, m

LEMMA FilterStep == ClassRemembered /\ [SizingNext]_sizingVars => ClassRemembered'
<1> SUFFICES ASSUME ClassRemembered, [SizingNext]_sizingVars PROVE ClassRemembered'
  OBVIOUS
<1>1. CASE ClassifyPair
  <2>1. asks' = asks
    BY <1>1 DEF ClassifyPair
  <2>2. Quoted' = Quoted /\ Batch' = Batch
    BY <2>1 DEF Quoted, Batch, TopNet
  <2>3. \A o, w : ObservePair(o, w)' = ObservePair(o, w)
    BY <2>1, <2>2 DEF ObservePair
  <2> QED BY <1>1, <2>1, <2>2 DEF ClassifyPair, ClassRemembered, ObservePair
<1>2. CASE UNCHANGED <<asks, class, pairOpen, spread>>
  BY <1>2 DEF ClassRemembered, Quoted, Batch, TopNet, ObservePair
<1>3. Enter \/ EnterNLeg \/ UNCHANGED sizingVars => UNCHANGED <<asks, class, pairOpen, spread>>
  BY DEF Enter, EnterNLeg, sizingVars
<1> QED BY <1>1, <1>2, <1>3 DEF SizingNext

(***************************************************************************)
(* For any books, prices, fees and thresholds, when what is near may cost  *)
(* no less than what is entered: scoring pairs by their best asks drops    *)
(* none of which some number of shares could be entered                    *)
(* (_fast_observe_all, _observe_pair, _find_best_size).                    *)
(***************************************************************************)
THEOREM BatchLosesNothing ==
  ASSUME NearThreshold >= EntryThreshold PROVE SizingSpec => []FilterLosesNothing
<1>1. SizingInit => ClassRemembered
  BY DEF SizingInit, ClassRemembered
<1>2. ClassRemembered => FilterLosesNothing
  <2> SUFFICES ASSUME ClassRemembered, class \notin {"none", "executable"}, spread = "fine",
                      NEW n \in 1 .. Least({Depth(asks[1]), Depth(asks[2])}), Enterable(n)
               PROVE  FALSE
    BY DEF FilterLosesNothing, PairDepth
  <2>1. /\ Quoted /\ Batch = "executable"
        /\ ~(BestAsk(asks[1]) + BestAsk(asks[2]) > NearThreshold)
        /\ ~(Least({Depth(asks[1]), Depth(asks[2])}) <= 0)
    BY EnterableAtTheTop DEF ClassRemembered
  <2>2. ObservePair(pairOpen, spread = "wide") = "executable"
    BY <2>1 DEF ObservePair
  <2> QED BY <2>1, <2>2 DEF ClassRemembered
<1> QED BY <1>1, <1>2, FilterStep, PTL DEF SizingSpec

-----------------------------------------------------------------------------
(* The loop and the vectorised search.                                     *)

\* Searching the cumulative sizes for n finds the cost of walking n shares, and
\* fails when the book does not hold them.
LEMMA SearchWalks ==
  ASSUME NEW b \in AskSides, NEW n \in Nat, n >= 1
  PROVE  /\ Fillable(b, n) => Searched(b, n) = Walk(b, n)
         /\ Fillable(b, n) <=> Searched(b, n) >= 0
<1> DEFINE L == DOMAIN b
           reached == {p \in L : Below(b, p) + b[p] >= n}
<1>1. IsFiniteSet(L) /\ \A q \in L : q \in Nat /\ b[q] \in Nat /\ Below(b, q) \in Nat
  BY AskSideTyped, BelowTyped
<1>2. Depth(b) \in Nat
  BY <1>1, SumType DEF Depth
<1>3. CASE ~Fillable(b, n)
  <2>1. ASSUME NEW p \in L PROVE Below(b, p) + b[p] < n
    <3>1. {q \in L : q <= p} \in SUBSET L
      OBVIOUS
    <3>2. SumOver({q \in L : q <= p}, b) <= Depth(b)
      BY <1>1, <3>1, SumGrows DEF Depth
    <3> QED BY <1>1, <1>2, <1>3, <3>2, BelowTyped DEF Fillable
  <2>2. reached = {}
    BY <1>1, <2>1
  <2>3. Searched(b, n) = -1
    BY <2>2 DEF Searched
  <2> QED BY <1>3, <2>3
<1>4. CASE Fillable(b, n)
  <2>1. PICK p \in L : /\ Below(b, p) < n /\ n <= Below(b, p) + b[p]
                       /\ \A q \in L : q < p => Below(b, q) + b[q] < n
    BY <1>4, LastLevel
  <2>2. p \in reached /\ \A q \in reached : p <= q
    BY <1>1, <2>1
  <2>3. Least(reached) = p
    <3>1. reached \in SUBSET Nat /\ p \in Nat
      BY <1>1
    <3> HIDE DEF reached
    <3>2. Least(reached) \in reached /\ \A q \in reached : Least(reached) <= q
      BY <2>2, LeastIsMinimum
    <3>3. Least(reached) \in Nat /\ Least(reached) <= p /\ p <= Least(reached)
      BY <2>2, <3>1, <3>2
    <3> QED BY <3>1, <3>3
  <2> DEFINE under == {q \in L : q < p}
             whole == [q \in L |-> b[q] * q]
             g == [q \in L |-> Took(b, n, q) * q]
  <2>4. Searched(b, n) = SumOver(under, whole) + (n - Below(b, p)) * p
    <3>1. reached # {}
      BY <2>2
    <3> QED BY <2>3, <3>1 DEF Searched
  <2>5. Walk(b, n) = SumOver(L, g)
    BY DEF Walk, Took
  <2>6. /\ \A q \in under : Took(b, n, q) = b[q]
        /\ Took(b, n, p) = n - Below(b, p)
        /\ \A q \in L : q > p => Took(b, n, q) = 0
        /\ \A q \in L : Took(b, n, q) \in Nat
    BY <1>4, <2>1, TookParts
  <2> DEFINE over == {q \in L : q > p}
  <2>7. \A q \in L : g[q] \in Nat
    <3> SUFFICES ASSUME NEW q \in L PROVE Took(b, n, q) * q \in Nat
      OBVIOUS
    <3> QED BY <1>1, <2>6
  <2>8. SumOver(under, g) = SumOver(under, whole)
    <3>1. \A q \in under : g[q] = whole[q]
      BY <2>6
    <3> HIDE DEF g, whole, under
    <3> QED BY <3>1, SumEqual
  <2>9. SumOver({p}, g) = (n - Below(b, p)) * p
    <3>1. g[p] = (n - Below(b, p)) * p /\ g[p] \in Nat
      BY <2>6, <2>7
    <3> HIDE DEF g
    <3> QED BY <3>1, SumOfOne
  <2>10. SumOver(over, g) = 0
    <3>1. \A q \in over : g[q] \in 0 .. 0 /\ g[q] \in Nat
      BY <1>1, <2>6
    <3>2. IsFiniteSet(over)
      BY <1>1, FS_Subset
    <3> HIDE DEF g, over
    <3>3. SumOver(over, g) <= Cardinality(over) * 0 /\ SumOver(over, g) \in Nat
      BY <3>1, <3>2, SumBounded, SumType
    <3>4. Cardinality(over) \in Nat
      BY <3>2, FS_CardinalityType
    <3> QED BY <3>3, <3>4
  <2>11. /\ L = (under \cup {p}) \cup over
         /\ under \cap {p} = {} /\ (under \cup {p}) \cap over = {}
    BY <1>1
  <2>12. IsFiniteSet(under) /\ IsFiniteSet(over) /\ IsFiniteSet({p}) /\ IsFiniteSet(under \cup {p})
    BY <1>1, FS_Subset, FS_Singleton, FS_AddElement
  <2>13. SumOver(under \cup {p}, g) = SumOver(under, g) + SumOver({p}, g)
    <3>1. \A q \in under \cup {p} : g[q] \in Nat
      BY <2>7
    <3> HIDE DEF g, under
    <3> QED BY <2>11, <2>12, <3>1, SumDisjoint
  <2>14. SumOver(L, g) = SumOver(under \cup {p}, g) + SumOver(over, g)
    <3> HIDE DEF g, under, over, L
    <3> QED BY <2>7, <2>11, <2>12, SumDisjoint
  <2>15. Searched(b, n) = Walk(b, n)
    <3>1. SumOver(under, g) \in Nat /\ SumOver({p}, g) \in Nat
      <4>1. \A q \in under \cup {p} : g[q] \in Nat
        BY <2>7
      <4> HIDE DEF g, under
      <4> QED BY <2>12, <4>1, SumType
    <3> HIDE DEF g, under, over, L, whole
    <3> QED BY <2>4, <2>5, <2>8, <2>9, <2>10, <2>13, <2>14, <3>1
  <2>16. Walk(b, n) \in Nat
    BY <1>4, WalkBounds
  <2> QED BY <1>4, <2>15, <2>16
<1> QED BY <1>3, <1>4

LEMMA Divided == ASSUME NEW x \in Nat, NEW y \in Nat, y >= 1 PROVE x \div y \in Nat
  OBVIOUS

LEMMA LeastOfNats == ASSUME NEW x \in Nat, NEW y \in Nat PROVE Least({x, y}) \in {x, y}
<1>1. \E z \in {x, y} : \A w \in {x, y} : z <= w
  OBVIOUS
<1> QED BY <1>1, LeastIsMinimum

\* The depths, the cost of one share at the best asks, and the cap made of it.
LEMMA TopTyped ==
  ASSUME asks \in [Leg -> AskSides], limit \in Nat, Quoted
  PROVE  /\ \A l \in PairLegs : asks[l] \in AskSides /\ Depth(asks[l]) \in Nat
         /\ Least({Depth(asks[1]), Depth(asks[2])}) \in Nat
         /\ TopNet \in Nat /\ TopNet >= 1 /\ Scale(1) \in Nat /\ Scale(1) >= 1
         /\ CapSize \in Nat
<1> DEFINE a == BestAsk(asks[1])
           b == BestAsk(asks[2])
<1>1. /\ One \in Nat /\ FeeScale \in Nat /\ One >= 1 /\ FeeScale >= 1
      /\ asks[1] \in AskSides /\ asks[2] \in AskSides
  BY SizingAssumption DEF SizingAssumption
<1>2. ASSUME NEW l \in {1, 2}
      PROVE  /\ BestAsk(asks[l]) \in Nat /\ BestAsk(asks[l]) >= 1 /\ BestAsk(asks[l]) <= One
             /\ Depth(asks[l]) \in Nat
  <2>1. DOMAIN asks[l] # {} /\ asks[l] \in AskSides
    BY <1>1 DEF Quoted, PairLegs
  <2>2. /\ IsFiniteSet(DOMAIN asks[l])
        /\ \A p \in DOMAIN asks[l] : p \in Nat /\ p >= 1 /\ p <= One /\ asks[l][p] \in Nat
    BY <2>1, AskSideTyped
  <2>3. BestAsk(asks[l]) \in DOMAIN asks[l]
    <3>1. DOMAIN asks[l] \in SUBSET Nat
      BY <2>2
    <3>2. \E x \in DOMAIN asks[l] : \A y \in DOMAIN asks[l] : x <= y
      BY <2>1, <3>1, SmallestExists
    <3> QED BY <3>2, LeastIsMinimum DEF BestAsk
  <2>4. Depth(asks[l]) \in Nat
    BY <2>2, SumType DEF Depth
  <2> QED BY <2>2, <2>3, <2>4
<1>3. Scale(1) \in Nat /\ Scale(1) >= 1
  <2>1. Scale(1) = FeeScale * One
    BY <1>1 DEF Scale
  <2> QED BY <1>1, <2>1
<1>4. TopNet \in Nat /\ TopNet >= 1
  <2>1. a \in Nat /\ b \in Nat /\ a >= 1 /\ b >= 1 /\ a <= One /\ b <= One
    BY <1>2
  <2> HIDE DEF a, b
  <2>2. Net(a, b, 1) \in Int /\ (a + b) * Scale(1) <= Net(a, b, 1)
    <3>1. 1 * a <= a /\ a <= 1 * One /\ 1 * b <= b /\ b <= 1 * One /\ 1 \in Nat /\ 1 >= 1
      BY <1>1, <2>1
    <3> QED BY <2>1, <3>1, NetOfMany
  <2>3. (a + b) * Scale(1) \in Nat /\ (a + b) * Scale(1) >= 1
    <3>1. a + b \in Nat /\ a + b >= 1
      BY <2>1
    <3>2. \A x, y \in Nat : x >= 1 /\ y >= 1 => x * y \in Nat /\ x * y >= 1
      OBVIOUS
    <3> QED BY <1>3, <3>1, <3>2
  <2> QED BY <2>2, <2>3 DEF TopNet, a, b
<1>5. CapSize \in Nat
  <2>1. limit * Scale(1) \in Nat
    BY <1>3
  <2> QED BY <1>4, <2>1, Divided DEF CapSize
<1>6. Least({Depth(asks[1]), Depth(asks[2])}) \in Nat
  <2>1. Depth(asks[1]) \in Nat /\ Depth(asks[2]) \in Nat
    BY <1>2
  <2> QED BY <2>1, LeastOfNats
<1> QED BY <1>1, <1>2, <1>3, <1>4, <1>5, <1>6 DEF PairLegs

\* The grid of a pair ends within its depth, and its points are sizes.
LEMMA UpperTyped ==
  ASSUME asks \in [Leg -> AskSides], limit \in Nat, Quoted
  PROVE  /\ Upper \in Nat /\ Upper <= PairDepth /\ PairDepth \in Nat
         /\ \A n \in Nat : n <= PairDepth /\ n <= CapSize => n <= Upper
<1> DEFINE room == (CapSize * 5) \div 4
           least == MinTrade \div One
           most == IF room > least THEN room ELSE least
<1>1. PairDepth \in Nat /\ CapSize \in Nat /\ least \in Nat
  BY TopTyped, SizingAssumption, Divided DEF PairDepth, SizingAssumption
<1>2. room \in Nat /\ CapSize <= room
  BY <1>1
<1> HIDE DEF least
<1>3. most \in Nat /\ room <= most
  <2> HIDE DEF room
  <2> QED BY <1>1, <1>2
<1>4. Upper = Least({PairDepth, most})
  BY DEF Upper, least
<1> HIDE DEF most, room
<1>5. Upper \in {PairDepth, most}
  BY <1>1, <1>3, <1>4, LeastOfNats
<1>6. Upper <= PairDepth
  <2>1. PairDepth \in Int /\ most \in Int
    BY <1>1, <1>3
  <2> QED BY <1>4, <2>1, LeastOfTwo
<1> QED BY <1>1, <1>2, <1>3, <1>5, <1>6

LEMMA GridTyped ==
  ASSUME NEW u \in Nat, NEW n \in GridSizes(u)
  PROVE  n \in Nat
<1>1. PICK i \in 1 .. Grid : n = (u * i) \div Grid
  BY DEF GridSizes
<1>2. Grid \in Nat /\ Grid >= 1
  BY SizingAssumption DEF SizingAssumption
<1>3. u * i \in Nat
  BY <1>2
<1> QED BY <1>1, <1>2, <1>3, Divided

\* Candidates are sizes.
LEMMA CandidatesTyped ==
  ASSUME asks \in [Leg -> AskSides], limit \in Nat, Quoted, NEW n \in Candidates
  PROVE  n \in Nat /\ n >= 1
<1>1. PairDepth \in Nat /\ CapSize \in Nat /\ Upper \in Nat
  BY TopTyped, UpperTyped
<1>2. n \in (1 .. PairDepth) \cup {Least({PairDepth, CapSize})} \cup GridSizes(Upper) /\ n # 0
  BY DEF Candidates
<1>3. Least({PairDepth, CapSize}) \in Nat
  BY <1>1, LeastOfNats
<1> QED BY <1>1, <1>2, <1>3, GridTyped

\* Whether the levels are walked or the cumulative sizes searched, the same
\* size is the best.
LEMMA SameBest ==
  ASSUME asks \in [Leg -> AskSides], limit \in Nat, Quoted
  PROVE  BestSize = BestSizeNumpy
<1> DEFINE S == {n \in Candidates : /\ \A l \in PairLegs : Fillable(asks[l], n)
                                    /\ Passes(Walk(asks[1], n), Walk(asks[2], n), n)}
           T == {n \in Candidates : /\ \A l \in PairLegs : Searched(asks[l], n) >= 0
                                    /\ Passes(Searched(asks[1], n), Searched(asks[2], n), n)}
<1>1. asks[1] \in AskSides /\ asks[2] \in AskSides
  BY SizingAssumption DEF SizingAssumption
<1>2. ASSUME NEW n \in Candidates
      PROVE  /\ \A l \in PairLegs : Fillable(asks[l], n) <=> Searched(asks[l], n) >= 0
             /\ \A l \in PairLegs : Fillable(asks[l], n) => Searched(asks[l], n) = Walk(asks[l], n)
  BY <1>1, CandidatesTyped, SearchWalks DEF PairLegs
<1>3. S = T
  BY <1>2 DEF PairLegs
<1>4. \A n \in S : Searched(asks[1], n) = Walk(asks[1], n) /\ Searched(asks[2], n) = Walk(asks[2], n)
  BY <1>2 DEF PairLegs
<1>5. \A m, n \in S : MoreProfit(m, n, Walk) <=> MoreProfit(m, n, Searched)
  <2> HIDE DEF S
  <2> QED BY <1>4 DEF MoreProfit
<1>6. Best(S, Walk) = Best(S, Searched)
  <2> DEFINE P(n) == n \in S /\ \A m \in S : ~MoreProfit(m, n, Walk) /\ (m < n => MoreProfit(n, m, Walk))
             Q(n) == n \in S /\ \A m \in S : ~MoreProfit(m, n, Searched) /\ (m < n => MoreProfit(n, m, Searched))
  <2>1. \A n : P(n) <=> Q(n)
    <3> HIDE DEF S
    <3> QED BY <1>5
  <2>2. (CHOOSE n : P(n)) = (CHOOSE n : Q(n))
    <3> HIDE DEF P, Q
    <3> QED BY <2>1
  <2>3. ASSUME S # {} PROVE /\ Best(S, Walk) = CHOOSE n : P(n)
                            /\ Best(S, Searched) = CHOOSE n : Q(n)
    <3> HIDE DEF S
    <3> QED BY <2>3, Zenon DEF Best
  <2>4. ASSUME S = {} PROVE Best(S, Walk) = Best(S, Searched)
    <3> HIDE DEF S
    <3> QED BY <2>4, Zenon DEF Best
  <2> QED BY <2>2, <2>3, <2>4
<1> HIDE DEF S, T
<1> QED BY <1>3, <1>6 DEF BestSize, BestSizeNumpy, S, T

\* What has been found for a pair is what its books and the limit give.
SizeRemembered ==
  /\ asks \in [Leg -> AskSides] /\ limit \in Nat
  /\ class = "executable" => Quoted
  /\ size # NoSize => class = "executable" /\ size = BestSize

LEMMA SizeStep == SizeRemembered /\ [SizingNext]_sizingVars => SizeRemembered'
<1> SUFFICES ASSUME SizeRemembered, [SizingNext]_sizingVars PROVE SizeRemembered'
  OBVIOUS
<1>1. asks' = asks /\ limit' = limit
  BY DEF SizingNext, ClassifyPair, Enter, EnterNLeg, sizingVars
<1>2. Quoted' = Quoted
  BY <1>1 DEF Quoted
<1>3. BestSize' = BestSize
  BY <1>1 DEF BestSize, Candidates, PairDepth, Upper, CapSize, TopNet, Best, MoreProfit, Passes
<1>4. class' = "executable" => Quoted
  BY DEF SizeRemembered, SizingNext, ClassifyPair, Enter, EnterNLeg, sizingVars
<1>5. size' # NoSize => class' = "executable" /\ size' = BestSize
  BY DEF SizeRemembered, SizingNext, ClassifyPair, Enter, EnterNLeg, sizingVars
<1> QED BY <1>1, <1>2, <1>3, <1>4, <1>5 DEF SizeRemembered

(***************************************************************************)
(* For any books, prices, fees, limits and grid: the loop, which walks the *)
(* levels, and the vectorised optimizer, which searches their cumulative   *)
(* sizes, choose the same size for a pair (_find_best_size_python,         *)
(* _find_best_size_numpy).                                                 *)
(***************************************************************************)
THEOREM OptimizersAlwaysAgree == SizingSpec => []OptimizersAgree
<1>1. SizingInit => SizeRemembered
  BY SizingAssumption DEF SizingInit, SizeRemembered, SizingAssumption
<1>2. SizeRemembered => OptimizersAgree
  BY SameBest DEF SizeRemembered, OptimizersAgree, Found
<1> QED BY <1>1, <1>2, SizeStep, PTL DEF SizingSpec

-----------------------------------------------------------------------------
(* What is best.                                                           *)

\* B, a set of pairs of whom the first beats the second, ranks the elements of S.
Ranks(S, B) ==
  /\ \A x, y \in S : <<x, y>> \in B => <<y, x>> \notin B
  /\ \A x, y, z \in S : <<x, y>> \notin B /\ <<y, z>> \notin B => <<x, z>> \notin B

\* The larger fractions, of numerators g and denominators w, beat others.
ByFraction(S, g, w, B) ==
  /\ \A x \in S : g[x] \in Int /\ w[x] \in Nat /\ w[x] >= 1
  /\ \A x, y \in S : <<x, y>> \in B <=> g[x] * w[y] > g[y] * w[x]

\* Among those that do not beat each other by R, the larger p does.
ByTie(S, R, p, B) ==
  /\ \A x \in S : p[x] \in Int
  /\ \A x, y \in S :
       <<x, y>> \in B <=> <<x, y>> \in R \/ (<<y, x>> \notin R /\ p[x] > p[y])

\* Of finitely many numbers, compared by what some beat others at, one is not
\* beaten and beats all smaller ones: of the sets without one take a least one.
LEMMA FirstOfBest ==
  ASSUME NEW S \in SUBSET Nat, IsFiniteSet(S), S # {}, NEW B, Ranks(S, B)
  PROVE  \E n \in S : \A m \in S : <<m, n>> \notin B /\ (m < n => <<n, m>> \in B)
<1> DEFINE First(n, T) == \A m \in T : <<m, n>> \notin B /\ (m < n => <<n, m>> \in B)
           lacking == {T \in SUBSET S : T # {} /\ \A n \in T : ~First(n, T)}
           F == FiniteSubsetsOf(S)
           R == StrictSubsetOrdering(S)
<1>0. /\ \A x, y \in S : <<x, y>> \in B => <<y, x>> \notin B
      /\ \A x, y, z \in S : <<x, y>> \notin B /\ <<y, z>> \notin B => <<x, z>> \notin B
  BY DEF Ranks
<1>1. SUFFICES ASSUME lacking # {} PROVE FALSE
  OBVIOUS
<1>2. IsWellFoundedOn(R, F)
  BY FS_StrictSubsetOrderingWellFounded
<1>3. lacking \subseteq F
  BY FS_Subset DEF FiniteSubsetsOf
<1>4. PICK T \in lacking : \A U \in lacking : ~ (<<U, T>> \in R)
  <2> HIDE DEF R, F, lacking
  <2> QED BY <1>1, <1>2, <1>3, WFMin
<1>5. T \in SUBSET S /\ \A n \in T : ~First(n, T)
  OBVIOUS
<1>6. PICK x \in T : TRUE
  OBVIOUS
<1>7. CASE T = {x}
  BY <1>0, <1>5, <1>6, <1>7
<1>8. CASE T # {x}
  <2>1. T \ {x} \in SUBSET S /\ <<T \ {x}, T>> \in R /\ T \ {x} # {}
    <3>1. T \in SUBSET S /\ x \in T /\ T # {x}
      BY <1>5, <1>6, <1>8
    <3> HIDE DEF lacking, First
    <3>2. T \ {x} \in SUBSET S /\ T \ {x} # {} /\ T \ {x} # T
      BY <3>1
    <3> QED BY <3>1, <3>2 DEF StrictSubsetOrdering
  <2>2. T \ {x} \notin lacking
    <3> HIDE DEF R, lacking
    <3> QED BY <1>4, <2>1
  <2>3. PICK b \in T \ {x} : First(b, T \ {x})
    BY <2>1, <2>2
  <2>4. b \in S /\ x \in S /\ b # x /\ b \in Nat /\ x \in Nat
    BY <1>5, <1>6, <2>3
  <2>5. CASE <<x, b>> \in B \/ (<<b, x>> \notin B /\ x < b)
    <3>1. <<b, x>> \notin B /\ <<x, x>> \notin B
      BY <1>0, <2>4, <2>5
    <3>2. ASSUME NEW m \in T \ {x}
          PROVE  <<m, x>> \notin B /\ (m < x => <<x, m>> \in B)
      <4>1. m \in S /\ <<m, b>> \notin B /\ m \in Nat
        BY <1>5, <2>3
      <4>2. <<m, x>> \notin B
        BY <1>0, <2>4, <3>1, <4>1
      <4>3. ASSUME m < x, <<x, m>> \notin B PROVE FALSE
        <5>1. <<x, b>> \notin B
          BY <1>0, <2>4, <4>1, <4>3
        <5>2. m < b
          BY <2>4, <2>5, <4>1, <4>3, <5>1
        <5>3. <<b, m>> \in B
          BY <2>3, <5>2
        <5> QED BY <1>0, <2>4, <3>1, <4>1, <4>3, <5>3
      <4> QED BY <4>2, <4>3
    <3>3. ASSUME NEW m \in T PROVE <<m, x>> \notin B /\ (m < x => <<x, m>> \in B)
      <4>1. CASE m = x
        BY <2>4, <3>1, <4>1
      <4>2. CASE m # x
        BY <3>2, <4>2
      <4> QED BY <4>1, <4>2
    <3>4. First(x, T)
      BY <3>3
    <3> QED BY <1>5, <1>6, <3>4
  <2>6. CASE <<x, b>> \notin B /\ ~(<<b, x>> \notin B /\ x < b)
    <3>1. First(b, T)
      BY <1>0, <2>3, <2>6
    <3> QED BY <1>5, <2>3, <3>1
  <2> QED BY <2>5, <2>6
<1> QED BY <1>7, <1>8

\* Comparing fractions by cross multiplication is transitive.
LEMMA FractionsCompare ==
  ASSUME NEW a \in Int, NEW b \in Int, NEW c \in Int,
         NEW u \in Nat, NEW v \in Nat, NEW w \in Nat, v >= 1,
         a * v <= b * u, b * w <= c * v
  PROVE  a * w <= c * u
<1>1. (a * v) * w <= (b * u) * w /\ (b * w) * u <= (c * v) * u
  <2>1. \A x, y \in Int, k \in Nat : x <= y => x * k <= y * k
    OBVIOUS
  <2>2. a * v \in Int /\ b * u \in Int /\ b * w \in Int /\ c * v \in Int
    OBVIOUS
  <2> QED BY <2>1, <2>2
<1>2. /\ (a * v) * w = v * (a * w) /\ (b * u) * w = (b * w) * u
      /\ (c * v) * u = v * (c * u)
  OBVIOUS
<1>3. v * (a * w) <= v * (c * u)
  <2>1. v * (a * w) \in Int /\ v * (c * u) \in Int /\ (b * w) * u \in Int
    OBVIOUS
  <2> QED BY <1>1, <1>2, <2>1
<1>4. \A x, y \in Int, k \in Nat : k >= 1 /\ k * x <= k * y => x <= y
  OBVIOUS
<1>5. a * w \in Int /\ c * u \in Int
  OBVIOUS
<1> QED BY <1>3, <1>4, <1>5

\* So comparing fractions ranks ...
LEMMA FractionsRank ==
  ASSUME NEW S, NEW g, NEW w, NEW B, ByFraction(S, g, w, B)
  PROVE  Ranks(S, B)
<1>1. /\ \A x \in S : g[x] \in Int /\ w[x] \in Nat /\ w[x] >= 1
      /\ \A x, y \in S : <<x, y>> \in B <=> g[x] * w[y] > g[y] * w[x]
      /\ \A x, y \in S : g[x] * w[y] \in Int
  BY DEF ByFraction
<1>2. ASSUME NEW x \in S, NEW y \in S
      PROVE  <<x, y>> \notin B <=> g[x] * w[y] <= g[y] * w[x]
  <2>1. g[x] * w[y] \in Int /\ g[y] * w[x] \in Int
    BY <1>1
  <2>2. \A j, k \in Int : ~(j > k) <=> j <= k
    OBVIOUS
  <2> QED BY <1>1, <2>1, <2>2
<1>3. \A x, y \in S : <<x, y>> \in B => <<y, x>> \notin B
  BY <1>1
<1>4. ASSUME NEW x \in S, NEW y \in S, NEW z \in S, <<x, y>> \notin B, <<y, z>> \notin B
      PROVE  <<x, z>> \notin B
  <2>1. g[x] * w[y] <= g[y] * w[x] /\ g[y] * w[z] <= g[z] * w[y]
    BY <1>2, <1>4
  <2>2. g[x] * w[z] <= g[z] * w[x]
    BY <1>1, <2>1, FractionsCompare
  <2> QED BY <1>2, <2>2
<1> QED BY <1>3, <1>4 DEF Ranks

\* ... and still does when something else decides between equal ones.
LEMMA TiesRank ==
  ASSUME NEW S, NEW R, NEW p, NEW B, Ranks(S, R), ByTie(S, R, p, B)
  PROVE  Ranks(S, B)
<1>0. /\ \A x \in S : p[x] \in Int
      /\ \A x, y \in S :
           <<x, y>> \in B <=> <<x, y>> \in R \/ (<<y, x>> \notin R /\ p[x] > p[y])
      /\ \A x, y \in S : <<x, y>> \in R => <<y, x>> \notin R
      /\ \A x, y, z \in S : <<x, y>> \notin R /\ <<y, z>> \notin R => <<x, z>> \notin R
  BY DEF Ranks, ByTie
<1>1. \A x, y \in S : <<x, y>> \in B => <<y, x>> \notin B
  BY <1>0
<1>2. ASSUME NEW x \in S, NEW y \in S, NEW z \in S, <<x, y>> \notin B, <<y, z>> \notin B
      PROVE  <<x, z>> \notin B
  <2>1. /\ <<x, y>> \notin R /\ (<<y, x>> \in R \/ p[x] <= p[y])
        /\ <<y, z>> \notin R /\ (<<z, y>> \in R \/ p[y] <= p[z])
    BY <1>0, <1>2
  <2>2. <<x, z>> \notin R
    BY <1>0, <2>1
  <2>3. <<z, x>> \notin R => <<y, x>> \notin R /\ <<z, y>> \notin R
    BY <1>0, <2>1
  <2>4. <<z, x>> \notin R => p[x] <= p[z]
    BY <1>0, <2>1, <2>3
  <2> QED BY <1>0, <2>2, <2>4
<1> QED BY <1>1, <1>2 DEF Ranks

\* A quotient is the largest number of times the divisor fits.
LEMMA QuotientFits ==
  ASSUME NEW x \in Nat, NEW y \in Nat, y >= 1, NEW k \in Nat
  PROVE  /\ k * y <= x => k <= x \div y
         /\ k * y <= x /\ x < k * y + y => k = x \div y
<1> DEFINE q == x \div y
<1>1. q \in Nat /\ q * y <= x /\ x < q * y + y
  OBVIOUS
<1> HIDE DEF q
<1>2. k > q => k * y >= q * y + y
  <2>1. ASSUME k > q PROVE k * y >= q * y + y
    <3>1. k - q - 1 \in Nat
      BY <1>1, <2>1
    <3>2. (k - q - 1) * y \in Nat /\ k * y = q * y + y + (k - q - 1) * y
      BY <1>1, <3>1
    <3>3. q * y + y \in Nat
      BY <1>1
    <3> QED BY <3>2, <3>3
  <2> QED BY <2>1
<1>3. k < q => q * y >= k * y + y
  <2>1. ASSUME k < q PROVE q * y >= k * y + y
    <3>1. q - k - 1 \in Nat
      BY <1>1, <2>1
    <3>2. (q - k - 1) * y \in Nat /\ q * y = k * y + y + (q - k - 1) * y
      BY <1>1, <3>1
    <3>3. k * y + y \in Nat
      BY <1>1
    <3> QED BY <3>2, <3>3
  <2> QED BY <2>1
<1>4. k * y \in Nat /\ q * y \in Nat
  BY <1>1
<1> QED BY <1>1, <1>2, <1>3, <1>4 DEF q

\* A grid has a point in every stretch of its steps that begins before its end.
LEMMA GridNear ==
  ASSUME NEW u \in Nat, NEW n \in Nat, n >= 1, n <= u
  PROVE  \E g \in GridSizes(u) : g \in Nat /\ g >= 1 /\ g \in Stretch(n, u)
<1> DEFINE past == {i \in Nat : u * i >= n * Grid}
           step == (u - 1) \div Grid
<1>1. Grid \in Nat /\ Grid >= 1
  BY SizingAssumption DEF SizingAssumption
<1>2. u * Grid >= n * Grid /\ n * Grid >= 1 /\ n * Grid \in Nat /\ u * 0 = 0
  <2>1. \A x, y, k \in Nat : x <= y => x * k <= y * k
    OBVIOUS
  <2>2. 1 * Grid <= n * Grid /\ n * Grid <= u * Grid
    BY <1>1, <2>1
  <2> QED BY <1>1, <2>2
<1>3. PICK i \in past : \A j \in past : i <= j
  <2>1. past # {} /\ past \in SUBSET Nat
    BY <1>1, <1>2
  <2> HIDE DEF past
  <2> QED BY <2>1, SmallestExists
<1>4. i \in Nat /\ u * i \in Nat /\ u * i >= n * Grid /\ i # 0
  BY <1>2
<1>5. i <= Grid
  BY <1>1, <1>2, <1>3
<1>6. u * (i - 1) < n * Grid
  <2>1. i - 1 \in Nat /\ ~(i <= i - 1) /\ u * (i - 1) \in Nat
    BY <1>4
  <2>2. i - 1 \notin past
    BY <1>3, <2>1
  <2> QED BY <1>2, <2>1, <2>2
<1>7. u * i < n * Grid + u
  <2>1. u * i = u * (i - 1) + u /\ u * (i - 1) \in Int
    BY <1>4
  <2> QED BY <1>2, <1>6, <2>1
<1> HIDE DEF past
<1>8. step \in Nat /\ u <= step * Grid + Grid /\ step * Grid \in Nat
  <2>1. u - 1 \in Nat
    OBVIOUS
  <2>2. \A x, y \in Nat : y >= 1 => x \div y \in Nat /\ x < (x \div y) * y + y
    OBVIOUS
  <2> DEFINE q == (u - 1) \div Grid
  <2>3. q \in Nat /\ u - 1 < q * Grid + Grid
    BY <1>1, <2>1, <2>2
  <2> HIDE DEF q
  <2>4. q * Grid \in Nat
    BY <1>1, <2>3
  <2> QED BY <1>1, <2>3, <2>4 DEF q
<1> HIDE DEF step
<1> DEFINE g == (u * i) \div Grid
<1>9. g \in Nat /\ g * Grid <= u * i /\ n <= g
  <2>1. \A x, y \in Nat : y >= 1 => x \div y \in Nat /\ (x \div y) * y <= x
    OBVIOUS
  <2>2. n <= g
    BY <1>1, <1>4, QuotientFits
  <2> QED BY <1>1, <1>4, <2>1, <2>2
<1>10. g \in GridSizes(u)
  BY <1>1, <1>4, <1>5 DEF GridSizes
<1> HIDE DEF g
<1>11. g <= n + step
  <2>1. g * Grid < (n + step + 1) * Grid
    <3>1. (n + step + 1) * Grid = n * Grid + step * Grid + Grid
      BY <1>1, <1>8
    <3>2. g * Grid \in Nat
      BY <1>1, <1>9
    <3> QED BY <1>1, <1>2, <1>4, <1>7, <1>8, <1>9, <3>1, <3>2
  <2>2. \A x, y, k \in Nat : x >= y => x * k >= y * k
    OBVIOUS
  <2>3. n + step + 1 \in Nat /\ g * Grid \in Nat /\ (n + step + 1) * Grid \in Nat
    BY <1>1, <1>8, <1>9
  <2>4. ~(g >= n + step + 1)
    BY <1>1, <1>9, <2>1, <2>2, <2>3
  <2> QED BY <1>8, <1>9, <2>3, <2>4
<1>12. Stretch(n, u) = {n} \cup (n .. (n + step))
  BY DEF Stretch, step
<1> QED BY <1>8, <1>9, <1>10, <1>11, <1>12

-----------------------------------------------------------------------------
(* The size of a pair.                                                     *)

PairSizes == {n \in Candidates : Enterable(n)}

\* What comparing profits multiplies, of a size that can be entered.
LEMMA GainTyped ==
  ASSUME asks \in [Leg -> AskSides], NEW n \in Nat, n >= 1,
         \A l \in PairLegs : Fillable(asks[l], n)
  PROVE  /\ Scale(n) \in Nat /\ Scale(n) >= 1
         /\ Net(Walk(asks[1], n), Walk(asks[2], n), n) \in Int
         /\ n * (One * Scale(n) - Net(Walk(asks[1], n), Walk(asks[2], n), n)) \in Int
<1> DEFINE c == Walk(asks[1], n)
           d == Walk(asks[2], n)
<1>1. asks[1] \in AskSides /\ asks[2] \in AskSides /\ One \in Nat /\ One >= 1
      /\ FeeScale \in Nat /\ FeeScale >= 1
  BY SizingAssumption DEF SizingAssumption
<1>2. /\ BestAsk(asks[1]) \in Nat /\ BestAsk(asks[1]) <= One
      /\ c \in Nat /\ n * BestAsk(asks[1]) <= c /\ c <= n * One
      /\ BestAsk(asks[2]) \in Nat /\ BestAsk(asks[2]) <= One
      /\ d \in Nat /\ n * BestAsk(asks[2]) <= d /\ d <= n * One
  BY <1>1, WalkBounds DEF PairLegs
<1>3. Net(c, d, n) \in Int
  <2> HIDE DEF c, d
  <2> QED BY <1>2, NetOfMany
<1>4. Scale(n) \in Nat /\ Scale(n) >= 1
  <2>1. \A x, y \in Nat : x >= 1 /\ y >= 1 => x * y \in Nat /\ x * y >= 1
    OBVIOUS
  <2>2. FeeScale * n \in Nat /\ FeeScale * n >= 1
    BY <1>1, <2>1
  <2>3. FeeScale * n * n \in Nat /\ FeeScale * n * n >= 1
    BY <2>1, <2>2
  <2> QED BY <1>1, <2>1, <2>3 DEF Scale
<1>5. One * Scale(n) - Net(c, d, n) \in Int
  BY <1>1, <1>3, <1>4
<1> QED BY <1>3, <1>4, <1>5

\* The size found is one of the candidates that can be entered, if there is one,
\* and none of them is more profitable.
LEMMA PairSizeFound ==
  ASSUME asks \in [Leg -> AskSides], limit \in Nat, Quoted
  PROVE  /\ PairSizes = {} => BestSize = NoSize
         /\ PairSizes # {} => /\ BestSize \in PairSizes
                              /\ \A m \in PairSizes : ~MoreProfit(m, BestSize, Walk)
<1> DEFINE S == PairSizes
           gain == [n \in S |->
             n * (One * Scale(n) - Net(Walk(asks[1], n), Walk(asks[2], n), n))]
           scale == [n \in S |-> Scale(n)]
           B == {q \in S \X S : MoreProfit(q[1], q[2], Walk)}
<1>1. ASSUME NEW n \in S
      PROVE  n \in Nat /\ n >= 1 /\ Fillable(asks[1], n) /\ \A l \in PairLegs : Fillable(asks[l], n)
  BY CandidatesTyped DEF PairSizes, Enterable, PairLegs
<1>2. BestSize = Best(S, Walk)
  BY DEF BestSize, PairSizes, Enterable
<1>3. CASE S = {}
  BY <1>2, <1>3, Zenon DEF Best
<1>4. CASE S # {}
  <2>1. S \in SUBSET Nat /\ IsFiniteSet(S)
    <3>1. Depth(asks[1]) \in Nat
      BY TopTyped DEF PairLegs
    <3>2. S \subseteq 1 .. Depth(asks[1])
      BY <1>1, <3>1 DEF Fillable
    <3>3. IsFiniteSet(1 .. Depth(asks[1]))
      BY <3>1, FS_Interval
    <3> HIDE DEF S
    <3> QED BY <1>1, <3>2, <3>3, FS_Subset
  <2>2. \A n \in S : gain[n] \in Int /\ scale[n] \in Nat /\ scale[n] >= 1
    <3> SUFFICES ASSUME NEW n \in S PROVE gain[n] \in Int /\ scale[n] \in Nat /\ scale[n] >= 1
      OBVIOUS
    <3>1. n \in Nat /\ n >= 1 /\ \A l \in PairLegs : Fillable(asks[l], n)
      BY <1>1
    <3> QED BY <3>1, GainTyped
  <2>3. \A x, y \in S : <<x, y>> \in B <=> gain[x] * scale[y] > gain[y] * scale[x]
    <3> HIDE DEF S
    <3> QED BY DEF MoreProfit
  <2>4. Ranks(S, B)
    <3>1. ByFraction(S, gain, scale, B)
      <4> HIDE DEF S, gain, scale, B
      <4> QED BY <2>2, <2>3 DEF ByFraction
    <3> HIDE DEF S, gain, scale, B
    <3> QED BY <3>1, FractionsRank
  <2>5. \E n \in S : \A m \in S : <<m, n>> \notin B /\ (m < n => <<n, m>> \in B)
    <3> HIDE DEF S, gain, scale, B
    <3> QED BY <1>4, <2>1, <2>4, FirstOfBest
  <2> HIDE DEF S, gain, scale
  <2>6. \E n \in S : \A m \in S : ~MoreProfit(m, n, Walk) /\ (m < n => MoreProfit(n, m, Walk))
    BY <2>5
  <2>7. BestSize = CHOOSE n \in S : \A m \in S : ~MoreProfit(m, n, Walk) /\ (m < n => MoreProfit(n, m, Walk))
    BY <1>2, <1>4, Zenon DEF Best
  <2> QED BY <1>4, <2>6, <2>7 DEF S
<1> QED BY <1>3, <1>4

\* No more can be entered than the cap at the best asks, so the grid reaches
\* every size that can.
LEMMA CapReached ==
  ASSUME asks \in [Leg -> AskSides], limit \in Nat, Quoted,
         NEW n \in Nat, n >= 1, Enterable(n)
  PROVE  n <= CapSize
<1> DEFINE a == BestAsk(asks[1])
           b == BestAsk(asks[2])
           c == Walk(asks[1], n)
           d == Walk(asks[2], n)
<1>1. asks[1] \in AskSides /\ asks[2] \in AskSides
  BY SizingAssumption DEF SizingAssumption
<1>2. Fillable(asks[1], n) /\ Fillable(asks[2], n) /\ Passes(c, d, n)
  BY DEF Enterable, PairLegs
<1>3. /\ a \in Nat /\ a <= One /\ c \in Nat /\ n * a <= c /\ c <= n * One
      /\ b \in Nat /\ b <= One /\ d \in Nat /\ n * b <= d /\ d <= n * One
  BY <1>1, <1>2, WalkBounds
<1>4. TopNet = Net(a, b, 1) /\ n * Net(c, d, n) <= limit * Scale(n)
  BY <1>2 DEF TopNet, Passes
<1> HIDE DEF a, b, c, d
<1>5. Net(c, d, n) \in Int /\ n * n * TopNet <= Net(c, d, n)
  BY <1>3, <1>4, NetOfMany
<1>6. TopNet \in Nat /\ TopNet >= 1 /\ Scale(1) \in Nat
  BY TopTyped
<1>7. Scale(n) = n * n * Scale(1)
  <2>1. One \in Nat /\ FeeScale \in Nat
    BY SizingAssumption DEF SizingAssumption
  <2> QED BY <2>1 DEF Scale
<1>8. (n * n) * (n * TopNet) <= (n * n) * (limit * Scale(1))
  <2>1. n * (n * n * TopNet) <= n * Net(c, d, n)
    <3>1. \A x, y \in Int : x <= y => n * x <= n * y
      OBVIOUS
    <3>2. n * n * TopNet \in Int
      BY <1>6
    <3> QED BY <1>5, <3>1, <3>2
  <2>2. n * (n * n * TopNet) = (n * n) * (n * TopNet)
    BY <1>6
  <2>3. limit * Scale(n) = (n * n) * (limit * Scale(1))
    BY <1>6, <1>7
  <2>4. n * (n * n * TopNet) \in Int /\ n * Net(c, d, n) \in Int /\ (n * n) * (limit * Scale(1)) \in Int
    BY <1>5, <1>6
  <2> QED BY <1>4, <2>1, <2>2, <2>3, <2>4
<1>9. n * TopNet <= limit * Scale(1)
  <2>1. n * n \in Nat /\ n * n >= 1
    <3>1. \A x, y \in Nat : x >= 1 /\ y >= 1 => x * y \in Nat /\ x * y >= 1
      OBVIOUS
    <3> QED BY <3>1
  <2>2. \A x, y \in Int, k \in Nat : k >= 1 /\ k * x <= k * y => x <= y
    OBVIOUS
  <2>3. n * TopNet \in Int /\ limit * Scale(1) \in Int
    BY <1>6
  <2> QED BY <1>8, <2>1, <2>2, <2>3
<1>10. limit * Scale(1) \in Nat
  BY <1>6
<1> QED BY <1>6, <1>9, <1>10, QuotientFits DEF CapSize

\* Of sizes that can be entered all over a step of the grid, one is a candidate.
LEMMA PairNear ==
  ASSUME asks \in [Leg -> AskSides], limit \in Nat, Quoted, NEW n \in 1 .. PairDepth,
         \A m \in Stretch(n, Upper) : Enterable(m)
  PROVE  \E g \in Stretch(n, Upper) : g \in PairSizes
<1>1. Upper \in Nat /\ PairDepth \in Nat /\ n \in Nat /\ n >= 1 /\ n <= PairDepth
  BY UpperTyped
<1>2. Enterable(n)
  BY DEF Stretch
<1>3. n <= Upper
  BY <1>1, <1>2, CapReached, UpperTyped
<1>4. PICK g \in GridSizes(Upper) : g \in Nat /\ g >= 1 /\ g \in Stretch(n, Upper)
  BY <1>1, <1>3, GridNear
<1>5. g \in Candidates
  BY <1>4 DEF Candidates
<1> QED BY <1>4, <1>5 DEF PairSizes

-----------------------------------------------------------------------------
(* The size of an N-leg spec.                                              *)

NLegSizes == {n \in NLegCandidates : NLegPasses(n)}

LEMMA LegsTyped ==
  ASSUME asks \in [Leg -> AskSides], Candidate
  PROVE  /\ LegDepth \in Nat /\ \A l \in Leg : LegDepth <= Depth(asks[l])
         /\ \A l \in Leg : BestAsk(asks[l]) \in Nat /\ BestAsk(asks[l]) >= 1
         /\ TopCost \in Nat /\ TopCost >= 1
<1>1. IsFiniteSet(Leg) /\ 1 \in Leg
  BY SizingAssumption DEF SizingAssumption
<1>2. ASSUME NEW l \in Leg
      PROVE  BestAsk(asks[l]) \in Nat /\ BestAsk(asks[l]) >= 1 /\ Depth(asks[l]) \in Nat
  <2>1. DOMAIN asks[l] # {} /\ asks[l] \in AskSides
    BY DEF Candidate
  <2>2. /\ IsFiniteSet(DOMAIN asks[l])
        /\ \A p \in DOMAIN asks[l] : p \in Nat /\ p >= 1 /\ asks[l][p] \in Nat
    BY <2>1, AskSideTyped
  <2>3. BestAsk(asks[l]) \in DOMAIN asks[l]
    <3>1. DOMAIN asks[l] \in SUBSET Nat
      BY <2>2
    <3>2. \E x \in DOMAIN asks[l] : \A y \in DOMAIN asks[l] : x <= y
      BY <2>1, <3>1, SmallestExists
    <3> QED BY <3>2, LeastIsMinimum DEF BestAsk
  <2>4. Depth(asks[l]) \in Nat
    BY <2>2, SumType DEF Depth
  <2> QED BY <2>2, <2>3, <2>4
<1>3. LegDepth \in Nat /\ \A l \in Leg : LegDepth <= Depth(asks[l])
  <2> DEFINE D == {Depth(asks[l]) : l \in Leg}
  <2>1. D \in SUBSET Nat /\ D # {}
    BY <1>1, <1>2
  <2> HIDE DEF D
  <2>2. \E x \in D : \A y \in D : x <= y
    BY <2>1, SmallestExists
  <2>3. Least(D) \in D /\ \A y \in D : Least(D) <= y
    BY <2>2, LeastIsMinimum
  <2>4. LegDepth = Least(D)
    BY DEF LegDepth, D
  <2> QED BY <2>1, <2>3, <2>4 DEF D
<1>4. TopCost \in Nat /\ TopCost >= 1
  <2> DEFINE f == [l \in Leg |-> BestAsk(asks[l])]
  <2>1. \A l \in Leg : f[l] \in Nat /\ f[l] >= 1
    BY <1>2
  <2>2. TopCost = SumOver(Leg, f)
    BY DEF TopCost
  <2> HIDE DEF f
  <2>3. SumOver(Leg, f) = SumOver(Leg \ {1}, f) + f[1] /\ IsFiniteSet(Leg \ {1})
    BY <1>1, <2>1, SumWithout, FS_Subset
  <2>4. SumOver(Leg \ {1}, f) \in Nat
    BY <2>1, <2>3, SumType
  <2> QED BY <1>1, <2>1, <2>2, <2>3, <2>4
<1> QED BY <1>2, <1>3, <1>4

\* n shares of every leg cost at least n times what one share does at the top.
LEMMA CostTyped ==
  ASSUME asks \in [Leg -> AskSides], Candidate, NEW n \in 1 .. LegDepth
  PROVE  /\ n \in Nat /\ n >= 1 /\ \A l \in Leg : Fillable(asks[l], n)
         /\ Cost(n) \in Nat /\ Cost(n) >= 1 /\ n * TopCost <= Cost(n)
         /\ Profit(n) \in Int
<1>1. /\ LegDepth \in Nat /\ \A l \in Leg : LegDepth <= Depth(asks[l])
      /\ \A l \in Leg : BestAsk(asks[l]) \in Nat /\ BestAsk(asks[l]) >= 1
      /\ TopCost \in Nat /\ TopCost >= 1
  BY LegsTyped
<1>2. n \in Nat /\ n >= 1 /\ n <= LegDepth
  BY <1>1
<1>3. ASSUME NEW l \in Leg PROVE Fillable(asks[l], n) /\ asks[l] \in AskSides
  <2>1. Depth(asks[l]) \in Nat /\ LegDepth <= Depth(asks[l])
    BY <1>1, DepthTyped
  <2> QED BY <1>1, <1>2, <2>1 DEF Fillable
<1> DEFINE f == [l \in Leg |-> BestAsk(asks[l])]
           g == [l \in Leg |-> Walk(asks[l], n)]
<1>4. \A l \in Leg : f[l] \in Nat /\ g[l] \in Nat /\ n * f[l] <= 1 * g[l]
  <2> SUFFICES ASSUME NEW l \in Leg
               PROVE  f[l] \in Nat /\ g[l] \in Nat /\ n * f[l] <= 1 * g[l]
    OBVIOUS
  <2>1. /\ BestAsk(asks[l]) \in Nat /\ Walk(asks[l], n) \in Nat
        /\ n * BestAsk(asks[l]) <= Walk(asks[l], n)
    BY <1>2, <1>3, WalkBounds
  <2> QED BY <2>1
<1>5. Cost(n) = SumOver(Leg, g) /\ TopCost = SumOver(Leg, f)
  BY DEF Cost, TopCost
<1>6. IsFiniteSet(Leg) /\ Payout \in Nat
  BY SizingAssumption DEF SizingAssumption
<1> HIDE DEF f, g
<1>7. n * SumOver(Leg, f) <= 1 * SumOver(Leg, g)
  BY <1>2, <1>4, <1>6, SumScaled
<1>8. SumOver(Leg, g) \in Nat
  BY <1>4, <1>6, SumType
<1>9. n * TopCost >= 1
  <2>1. \A x, y \in Nat : x >= 1 /\ y >= 1 => x * y >= 1
    OBVIOUS
  <2> QED BY <1>1, <1>2, <2>1
<1>10. Cost(n) \in Nat /\ n * TopCost <= Cost(n) /\ n * TopCost \in Nat
  BY <1>1, <1>2, <1>5, <1>7, <1>8
<1>11. Profit(n) \in Int
  BY <1>2, <1>6, <1>10 DEF Profit
<1> QED BY <1>2, <1>3, <1>9, <1>10, <1>11

LEMMA NLegSizesTyped ==
  ASSUME asks \in [Leg -> AskSides], Candidate
  PROVE  /\ NLegSizes \subseteq 1 .. LegDepth
         /\ NLegSizes \in SUBSET Nat /\ IsFiniteSet(NLegSizes)
<1>1. LegDepth \in Nat
  BY LegsTyped
<1>2. NLegSizes \subseteq 1 .. LegDepth
  BY DEF NLegSizes, NLegCandidates
<1>3. IsFiniteSet(1 .. LegDepth) /\ 1 .. LegDepth \subseteq Nat
  BY <1>1, FS_Interval
<1> QED BY <1>2, <1>3, FS_Subset

\* The optimized size is a candidate that passes, if there is one, and none of
\* them returns more on its cost.
LEMMA NLegSizeFound ==
  ASSUME asks \in [Leg -> AskSides], Candidate
  PROVE  /\ NLegSizes = {} => BestNLegSize = NoSize
         /\ NLegSizes # {} => /\ BestNLegSize \in NLegSizes
                              /\ \A m \in NLegSizes : ~MoreROI(m, BestNLegSize)
<1> DEFINE S == NLegSizes
           profit == [n \in S |-> Profit(n)]
           cost == [n \in S |-> Cost(n)]
           Beats(m, n) == MoreROI(m, n) \/ (~MoreROI(n, m) /\ Profit(m) > Profit(n))
           R == {q \in S \X S : MoreROI(q[1], q[2])}
           B == {q \in S \X S : Beats(q[1], q[2])}
<1>1. CASE S = {}
  BY <1>1, Zenon DEF BestNLegSize, NLegSizes
<1>2. CASE S # {}
  <2>1. S \in SUBSET Nat /\ IsFiniteSet(S) /\ S \subseteq 1 .. LegDepth
    BY NLegSizesTyped
  <2>2. \A n \in S : Profit(n) \in Int /\ Cost(n) \in Nat /\ Cost(n) >= 1
    <3> HIDE DEF S
    <3> QED BY <2>1, CostTyped
  <2>3. Ranks(S, R)
    <3>1. \A n \in S : profit[n] \in Int /\ cost[n] \in Nat /\ cost[n] >= 1
      <4> HIDE DEF S
      <4> QED BY <2>2
    <3>2. \A x, y \in S : <<x, y>> \in R <=> profit[x] * cost[y] > profit[y] * cost[x]
      <4> HIDE DEF S
      <4> QED BY DEF MoreROI
    <3> HIDE DEF S, profit, cost, R
    <3>3. ByFraction(S, profit, cost, R)
      BY <3>1, <3>2 DEF ByFraction
    <3> QED BY <3>3, FractionsRank
  <2>4. Ranks(S, B)
    <3>1. \A n \in S : profit[n] \in Int
      <4> HIDE DEF S
      <4> QED BY <2>2
    <3>2. \A x, y \in S :
            <<x, y>> \in B <=> <<x, y>> \in R \/ (<<y, x>> \notin R /\ profit[x] > profit[y])
      <4> HIDE DEF S
      <4> QED OBVIOUS
    <3> HIDE DEF S, profit, R, B
    <3>3. ByTie(S, R, profit, B)
      BY <3>1, <3>2 DEF ByTie
    <3> QED BY <2>3, <3>3, TiesRank
  <2>5. \E n \in S : \A m \in S : <<m, n>> \notin B /\ (m < n => <<n, m>> \in B)
    <3> HIDE DEF S, B
    <3> QED BY <1>2, <2>1, <2>4, FirstOfBest
  <2> HIDE DEF S
  <2>6. \E n \in S : \A m \in S : ~Beats(m, n) /\ (m < n => Beats(n, m))
    BY <2>5
  <2>7. BestNLegSize = CHOOSE n \in S : \A m \in S : ~Beats(m, n) /\ (m < n => Beats(n, m))
    BY <1>2, Zenon DEF BestNLegSize, S, NLegSizes
  <2>8. BestNLegSize \in S /\ \A m \in S : ~Beats(m, BestNLegSize)
    <3> HIDE DEF Beats
    <3> QED BY <2>6, <2>7
  <2> QED BY <1>2, <2>8 DEF S
<1> QED BY <1>1, <1>2

LEMMA MaxSpendFound ==
  ASSUME asks \in [Leg -> AskSides], Candidate
  PROVE  /\ NLegSizes = {} => MaxSpendSize = NoSize
         /\ NLegSizes # {} => /\ MaxSpendSize \in NLegSizes
                              /\ \A m \in NLegSizes : Cost(m) <= Cost(MaxSpendSize)
<1>1. CASE NLegSizes = {}
  BY <1>1, Zenon DEF MaxSpendSize, NLegSizes
<1>2. CASE NLegSizes # {}
  <2> DEFINE S == NLegSizes
             cost == [n \in S |-> Cost(n)]
             C == {cost[n] : n \in S}
  <2>1. IsFiniteSet(S) /\ S \subseteq 1 .. LegDepth
    BY NLegSizesTyped
  <2>2. \A n \in S : cost[n] = Cost(n) /\ cost[n] \in Int
    <3> HIDE DEF S
    <3> QED BY <2>1, CostTyped
  <2> HIDE DEF S, cost
  <2>3. C \in SUBSET Int /\ C # {} /\ IsFiniteSet(C)
    <3>1. [n \in S |-> cost[n]] \in Surjection(S, C)
      BY DEF Surjection
    <3> QED BY <1>2, <2>1, <2>2, <3>1, FS_Surjection DEF S
  <2>4. \E x \in C : \A y \in C : x >= y
    <3> HIDE DEF C
    <3> QED BY <2>3, LargestExists
  <2>5. \E n \in S : \A m \in S : Cost(m) <= Cost(n)
    <3>1. PICK x \in C : \A y \in C : x >= y
      BY <2>4
    <3>2. PICK n \in S : x = cost[n]
      BY <3>1
    <3>3. ASSUME NEW m \in S PROVE Cost(m) <= Cost(n)
      <4>1. cost[m] \in C
        OBVIOUS
      <4> QED BY <2>2, <3>1, <3>2, <4>1
    <3> QED BY <3>2, <3>3
  <2>6. MaxSpendSize = CHOOSE n \in S : \A m \in S : Cost(m) <= Cost(n)
    BY <1>2, Zenon DEF MaxSpendSize, S, NLegSizes
  <2> QED BY <2>5, <2>6 DEF S
<1> QED BY <1>1, <1>2

LEMMA NLegNear ==
  ASSUME asks \in [Leg -> AskSides], limit \in Nat, Candidate, NEW n \in 1 .. LegDepth,
         \A m \in Stretch(n, NLegUpper) : m <= LegDepth /\ NLegPasses(m)
  PROVE  \E g \in Stretch(n, NLegUpper) : g \in NLegSizes
<1> DEFINE k == limit \div TopCost
           room == (k * 5) \div 4
           least == MinTrade \div TopCost
           most == IF room > least THEN room ELSE least
<1>1. /\ LegDepth \in Nat /\ TopCost \in Nat /\ TopCost >= 1
      /\ Grid \in Nat /\ Grid >= 1 /\ MinTrade \in Nat /\ 1 \in Leg
  BY LegsTyped, SizingAssumption DEF SizingAssumption
<1>2. n \in Nat /\ n >= 1 /\ n <= LegDepth /\ Cost(n) \in Nat /\ n * TopCost <= Cost(n)
  BY <1>1, CostTyped
<1>3. NLegPasses(n)
  BY DEF Stretch
<1>4. k \in Nat /\ n <= k
  <2>1. n * TopCost <= limit
    <3>1. Cost(n) <= limit /\ n * TopCost \in Nat
      BY <1>1, <1>2, <1>3 DEF NLegPasses
    <3> QED BY <1>2, <3>1
  <2> QED BY <1>1, <1>2, <2>1, Divided, QuotientFits
<1>5. least \in Nat
  BY <1>1, Divided
<1>6. NLegUpper = Least({LegDepth, most})
  BY DEF NLegUpper
<1> HIDE DEF k, least
<1>7. room \in Nat /\ k <= room
  BY <1>4
<1> HIDE DEF room
<1>8. most \in Nat /\ room <= most
  BY <1>5, <1>7
<1> HIDE DEF most
<1>9. NLegUpper \in {LegDepth, most}
  BY <1>1, <1>6, <1>8, LeastOfNats
<1>10. NLegUpper \in Nat /\ n <= NLegUpper
  BY <1>1, <1>2, <1>4, <1>7, <1>8, <1>9
<1>11. PICK g \in GridSizes(NLegUpper) : g \in Nat /\ g >= 1 /\ g \in Stretch(n, NLegUpper)
  BY <1>2, <1>10, GridNear
<1>12. g \in NLegCandidates
  BY <1>1, <1>11 DEF NLegCandidates
<1> QED BY <1>11, <1>12 DEF NLegSizes

-----------------------------------------------------------------------------
(* What is chosen fits, and is near the best.                              *)

NLegSizeRemembered ==
  nsize # NoSize => Candidate /\ nsize \in {BestNLegSize, MaxSpendSize}

LEMMA NLegSizeStep ==
  SizeRemembered /\ NLegSizeRemembered /\ [SizingNext]_sizingVars => NLegSizeRemembered'
<1> SUFFICES ASSUME NLegSizeRemembered, [SizingNext]_sizingVars PROVE NLegSizeRemembered'
  OBVIOUS
<1>1. asks' = asks /\ limit' = limit
  BY DEF SizingNext, ClassifyPair, Enter, EnterNLeg, sizingVars
<1>2. (Candidate' <=> Candidate) /\ BestNLegSize' = BestNLegSize /\ MaxSpendSize' = MaxSpendSize
  <2>1. Candidate' <=> Candidate
    BY <1>1 DEF Candidate, LegDepth, TopCost
  <2>2. BestNLegSize' = BestNLegSize
    BY <1>1 DEF BestNLegSize, NLegCandidates, NLegUpper, NLegPasses, LegDepth, TopCost, Cost, Profit, MoreROI
  <2>3. MaxSpendSize' = MaxSpendSize
    BY <1>1 DEF MaxSpendSize, NLegCandidates, NLegUpper, NLegPasses, LegDepth, TopCost, Cost
  <2> QED BY <2>1, <2>2, <2>3
<1>3. nsize' = nsize \/ (Candidate /\ nsize' \in {BestNLegSize, MaxSpendSize})
  BY DEF SizingNext, ClassifyPair, Enter, EnterNLeg, sizingVars
<1> QED BY <1>2, <1>3 DEF NLegSizeRemembered

LEMMA SizesRemembered == SizingSpec => [](SizeRemembered /\ NLegSizeRemembered)
<1>1. SizingInit => SizeRemembered /\ NLegSizeRemembered
  BY SizingAssumption
  DEF SizingInit, SizeRemembered, NLegSizeRemembered, SizingAssumption
<1> QED BY <1>1, SizeStep, NLegSizeStep, PTL DEF SizingSpec

\* A size that was chosen can be filled from its books within the limits.
SizesFit ==
  /\ size # NoSize => size \in Nat /\ size >= 1 /\ Enterable(size)
  /\ nsize # NoSize => nsize \in 1 .. LegDepth /\ NLegPasses(nsize)

(***************************************************************************)
(* For any books, prices, fees, limits and grid: what is bought of a pair  *)
(* or of an N-leg spec is on the books, costs no less than the least trade *)
(* and no more than the limit, and still has the edge it was picked for    *)
(* (_find_best_size, _find_best_n_leg_size, _find_n_leg_max_spend_size).   *)
(***************************************************************************)
THEOREM SizesAlwaysFit == SizingSpec => []SizesFit
<1>1. SizeRemembered /\ NLegSizeRemembered => SizesFit
  <2> SUFFICES ASSUME SizeRemembered, NLegSizeRemembered PROVE SizesFit
    OBVIOUS
  <2>1. ASSUME size # NoSize PROVE size \in Nat /\ size >= 1 /\ Enterable(size)
    <3>1. /\ asks \in [Leg -> AskSides] /\ limit \in Nat
          /\ Quoted /\ size = BestSize
      BY <2>1 DEF SizeRemembered
    <3>2. size \in PairSizes
      BY <2>1, <3>1, PairSizeFound
    <3> QED BY <3>1, <3>2, CandidatesTyped DEF PairSizes
  <2>2. ASSUME nsize # NoSize PROVE nsize \in 1 .. LegDepth /\ NLegPasses(nsize)
    <3>1. Candidate /\ asks \in [Leg -> AskSides] /\ nsize \in {BestNLegSize, MaxSpendSize}
      BY <2>2 DEF SizeRemembered, NLegSizeRemembered
    <3>2. nsize \in NLegSizes
      BY <2>2, <3>1, NLegSizeFound, MaxSpendFound
    <3> QED BY <3>1, <3>2, NLegSizesTyped DEF NLegSizes
  <2> QED BY <2>1, <2>2 DEF SizesFit
<1> QED BY <1>1, SizesRemembered, PTL

(***************************************************************************)
(* For any books, prices, fees, limits and grid: sizes that can be entered *)
(* all the way over a step of the grid are not overlooked, and some of     *)
(* them is no better than the size chosen: no more profitable for a pair,  *)
(* no larger in return and in cost for the two sizes of an N-leg spec.     *)
(***************************************************************************)
THEOREM SizesAlwaysNearBest == SizingSpec => []SizesNearBest
<1>1. SizeRemembered => SizesNearBest
  <2> SUFFICES ASSUME SizeRemembered PROVE SizesNearBest
    OBVIOUS
  <2>1. asks \in [Leg -> AskSides] /\ limit \in Nat /\ (class = "executable" => Quoted)
    BY DEF SizeRemembered
  <2>2. OptimizersAgree
    BY SameBest DEF SizeRemembered, OptimizersAgree, Found
  <2>3. ASSUME class = "executable", NEW n \in 1 .. PairDepth,
               \A m \in Stretch(n, Upper) : Enterable(m)
        PROVE  /\ Found # NoSize
               /\ \E m \in Stretch(n, Upper) : ~MoreProfit(m, Found, Walk)
    <3>1. PICK g \in Stretch(n, Upper) : g \in PairSizes
      BY <2>1, <2>3, PairNear
    <3>2. Found = BestSize
      BY DEF Found, SizeRemembered
    <3>3. BestSize \in PairSizes /\ ~MoreProfit(g, BestSize, Walk)
      BY <2>1, <2>3, <3>1, PairSizeFound
    <3>4. BestSize >= 1 /\ BestSize \in Nat
      BY <2>1, <2>3, <3>3, CandidatesTyped DEF PairSizes
    <3> QED BY <3>1, <3>2, <3>3, <3>4 DEF NoSize
  <2>4. ASSUME Candidate, NEW n \in 1 .. LegDepth,
               \A m \in Stretch(n, NLegUpper) : m <= LegDepth /\ NLegPasses(m)
        PROVE  /\ BestNLegSize # NoSize /\ MaxSpendSize # NoSize
               /\ \E m \in Stretch(n, NLegUpper) : ~MoreROI(m, BestNLegSize)
               /\ \E m \in Stretch(n, NLegUpper) : Cost(m) <= Cost(MaxSpendSize)
    <3>1. PICK g \in Stretch(n, NLegUpper) : g \in NLegSizes
      BY <2>1, <2>4, NLegNear
    <3>2. /\ BestNLegSize \in NLegSizes /\ ~MoreROI(g, BestNLegSize)
          /\ MaxSpendSize \in NLegSizes /\ Cost(g) <= Cost(MaxSpendSize)
      BY <2>1, <2>4, <3>1, NLegSizeFound, MaxSpendFound
    <3>3. NLegSizes \subseteq 1 .. LegDepth /\ LegDepth \in Nat
      BY <2>1, <2>4, NLegSizesTyped, LegsTyped
    <3> QED BY <3>1, <3>2, <3>3 DEF NoSize
  <2> QED BY <2>2, <2>3, <2>4 DEF SizesNearBest, PairSizeNearBest, NLegSizeNearBest
<1> QED BY <1>1, SizesRemembered, PTL
=============================================================================
