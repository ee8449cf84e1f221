------------------------------ MODULE Prefetch -------------------------------
(***************************************************************************)
(* The two speculative REST pipelines of PaperArbSimulator                 *)
(* (src/simulator.py).  After each scan the run loop requests the books of *)
(* the near pairs and of the best N-leg spec, so that the answer comes in  *)
(* while the loop waits for WebSocket updates; the next scan hands the     *)
(* answer to the entries it spawns, which otherwise ask for themselves.    *)
(*                                                                         *)
(* A round is one scan together with the launches that follow it without   *)
(* an await.  A round stamp says after which scan REST answered.  What an  *)
(* entry does once its books are confirmed is in BackgroundEntry.          *)
(***************************************************************************)
EXTENDS Naturals, FiniteSets

CONSTANTS
  Pair,       \* names of two-leg strategies
  NLeg,       \* names of N-leg specs
  NoName,     \* no best N-leg
  Token,      \* outcome tokens
  Legs,       \* the tokens of every pair and N-leg spec
  MaxRounds   \* bound: scans in a behaviour

Name == Pair \cup NLeg

ASSUME ConstantsAssumption ==
  /\ Pair \cap NLeg = {} /\ NoName \notin Name
  /\ Legs \in [Name -> SUBSET Token] /\ \A n \in Name : Legs[n] # {}
  /\ MaxRounds \in Nat

VARIABLES
  round,      \* scans made
  hot,        \* self._hot_pair_tokens, as a set
  best,       \* the name in self._cached_best_n_leg, or NoName
  pairFetch,  \* self._pair_speculative_prefetch with its token set
  nlegFetch,  \* self._n_leg_speculative_prefetch with its name
  entry       \* the background entry of every name

vars == <<round, hot, best, pairFetch, nlegFetch, entry>>

(***************************************************************************)
(* A fetch answers with the books REST has: any of those asked for.  An    *)
(* entry was spawned (and asks by itself, or holds prefetched books) and   *)
(* was then confirmed by its recheck; rest are the books REST gave it, at  *)
(* the round of the answer.                                                *)
(***************************************************************************)
Fetch(key) == [state : {"none", "pending", "done"}, key : key,
               books : SUBSET Token, at : 0 .. MaxRounds]

Entry == [state : {"idle", "asking", "holding", "confirmed"},
          rest : SUBSET Token, at : 0 .. MaxRounds]

NoFetch(key) == [state |-> "none", key |-> key, books |-> {}, at |-> 0]
Idle == [state |-> "idle", rest |-> {}, at |-> 0]

TypeOK ==
  /\ round \in 0 .. MaxRounds /\ hot \subseteq Token /\ best \in NLeg \cup {NoName}
  /\ pairFetch \in Fetch(SUBSET Token)
  /\ nlegFetch \in Fetch(NLeg \cup {NoName})
  /\ entry \in [Name -> Entry]

Init ==
  /\ round = 0 /\ hot = {} /\ best = NoName
  /\ pairFetch = NoFetch({}) /\ nlegFetch = NoFetch(NoName)
  /\ entry = [n \in Name |-> Idle]

\* Names in self._inflight_entries.
Inflight == {n \in Name : entry[n].state # "idle"}

\* rest_books_cache: a finished fetch keeps its books until it is replaced.
Cached(f) == IF f.state = "done" THEN f.books ELSE {}

\* Mutant: coverage is taken from what was asked for, not from what was answered.
CoveredAsAsked(p) == pairFetch.state = "done" /\ Legs[p] \subseteq pairFetch.key

\* _pair_covered
Covered(p) == Legs[p] \subseteq Cached(pairFetch)

\* Mutant: the name the prefetch was made for is not compared.
ConsumedAny(n) == Cached(nlegFetch)

\* _consume_n_leg_speculative_books
Consumed(n) == IF nlegFetch.key = n THEN Cached(nlegFetch) ELSE {}

Spawned(books, f) ==
  [state |-> IF books = {} THEN "asking" ELSE "holding",
   rest |-> books, at |-> IF books = {} THEN 0 ELSE f.at]

SpawnedPair(p) == Spawned(IF Covered(p) THEN Cached(pairFetch) ELSE {}, pairFetch)
SpawnedNLeg(n) == Spawned(Consumed(n), nlegFetch)

\* Mutant: a finished request for the same tokens is not repeated.
LaunchOnce(f, key) ==
  IF f.state # "none" /\ f.key = key THEN f
  ELSE [state |-> "pending", key |-> key, books |-> {}, at |-> 0]

\* A running request for the same key is kept; any other is replaced.
Launch(f, key) ==
  IF f.state = "pending" /\ f.key = key THEN f
  ELSE [state |-> "pending", key |-> key, books |-> {}, at |-> 0]

\* The N-leg request is left out while the spec has an entry in flight.
LaunchNLeg(n, inflight) ==
  IF n # NoName /\ n \notin inflight THEN Launch(nlegFetch, n) ELSE nlegFetch

LaunchPair(tokens) == IF tokens # {} THEN Launch(pairFetch, tokens) ELSE pairFetch

\* One scan: the executable and funded candidates of `pairs` and the best N-leg
\* spec n, if it is ready, get an entry unless they have one; then both
\* requests are launched.
Scan(near, pairs, n, ready) ==
  /\ round < MaxRounds
  /\ LET spawnN == {m \in {n} \cap NLeg : ready} \ Inflight
         spawnP == pairs \ Inflight
     IN /\ entry' = [m \in Name |->
              IF m \in spawnP THEN SpawnedPair(m)
              ELSE IF m \in spawnN THEN SpawnedNLeg(m) ELSE entry[m]]
        /\ nlegFetch' = LaunchNLeg(n, Inflight \cup spawnN)
  /\ best' = n /\ hot' = UNION {Legs[p] : p \in near}
  /\ pairFetch' = LaunchPair(hot')
  /\ round' = round + 1

Answered(f, books) == [f EXCEPT !.state = "done", !.books = books, !.at = round]

\* ClobClient.get_order_books swallows its errors: what is missing is left out.
AnswerPair ==
  /\ pairFetch.state = "pending"
  /\ \E books \in SUBSET pairFetch.key : pairFetch' = Answered(pairFetch, books)
  /\ UNCHANGED <<round, hot, best, nlegFetch, entry>>

AnswerNLeg ==
  /\ nlegFetch.state = "pending"
  /\ \E books \in SUBSET Legs[nlegFetch.key] : nlegFetch' = Answered(nlegFetch, books)
  /\ UNCHANGED <<round, hot, best, pairFetch, entry>>

\* A pair is rechecked on REST books alone; an N-leg spec on the scan's
\* WebSocket books overlaid with those REST gave.
Quoted(n, rest) == n \in NLeg \/ Legs[n] \subseteq rest

\* The recheck confirms the candidate, with the entry's own request or with
\* the prefetched books it holds.
Confirm(n) ==
  /\ \/ /\ entry[n].state = "asking"
        /\ \E rest \in SUBSET Legs[n] :
             /\ Quoted(n, rest)
             /\ entry' = [entry EXCEPT ![n] =
                  [@ EXCEPT !.state = "confirmed", !.rest = rest, !.at = round]]
     \/ /\ entry[n].state = "holding" /\ Quoted(n, entry[n].rest)
        /\ entry' = [entry EXCEPT ![n].state = "confirmed"]
  /\ UNCHANGED <<round, hot, best, pairFetch, nlegFetch>>

\* The entry ends, by a skip at any point or by a booking.
End(n) ==
  /\ entry[n].state # "idle"
  /\ entry' = [entry EXCEPT ![n] = Idle]
  /\ UNCHANGED <<round, hot, best, pairFetch, nlegFetch>>

Next ==
  \/ \E near \in SUBSET Pair : \E pairs \in SUBSET near :
       \E n \in NLeg \cup {NoName}, ready \in BOOLEAN : Scan(near, pairs, n, ready)
  \/ AnswerPair \/ AnswerNLeg
  \/ \E n \in Name : Confirm(n) \/ End(n)

Spec == Init /\ [][Next]_vars

-----------------------------------------------------------------------------
(***************************************************************************)
(* Properties                                                              *)
(***************************************************************************)

\* While pairs stay near, the pair pipeline is about them and what it has
\* answered, it answered since the last scan: launching, finishing and
\* replacing requests leaves no older answer behind.
HotIsFresh ==
  hot # {} => /\ pairFetch.key = hot
              /\ pairFetch.state = "done" => pairFetch.at = round

\* Prefetched books reach an entry only if they hold every leg of its pair,
\* so a prefetch never makes a recheck fail for want of a book.
HeldCoversPair ==
  \A p \in Pair : entry[p].state = "holding" => Legs[p] \subseteq entry[p].rest

\* An N-leg entry never rechecks against the books of another spec, whatever
\* happens to the best spec between a launch and its answer.
HeldIsOfSpec ==
  \A n \in NLeg : entry[n].state # "idle" => entry[n].rest \subseteq Legs[n]

\* A pair entry that consumes an answer older than the last wait is spawned
\* only after a scan that saw no near pair at all.
StaleOnlyAfterCold ==
  [][\A p \in Pair : entry[p].state = "idle" /\ entry'[p].state = "holding"
                     /\ entry'[p].at < round => hot = {}]_vars

\* While one spec stays best, what its entries consume was fetched "during the
\* preceding WS wait period" (_consume_n_leg_speculative_books).
\* Does not hold: README.md, section 6.
FreshWhileBest ==
  [][\A n \in NLeg : best = n /\ entry[n].state = "idle" /\ entry'[n].state = "holding"
                     => entry'[n].at = round]_vars
=============================================================================
