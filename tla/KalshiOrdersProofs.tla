-------------------------- MODULE KalshiOrdersProofs --------------------------
(***************************************************************************)
(* Theorems about Kalshi live orders: what is said of an order is true,    *)
(* what is counted was filled, and how far the cap can be overrun.         *)
(***************************************************************************)
EXTENDS KalshiOrders, FiniteSetTheorems, TLAPS

\* What a report may say is what the exchange has decided.
Told(o) ==
  \/ report[o] = <<>>
  \/ market[o] = "filled" /\ report[o] \in {<<"partial", "filled">>, <<"filled">>}
  \/ market[o] = "killed" /\ report[o] \in {<<"new", "killed">>, <<"killed">>}

OrderTyped(o) ==
  /\ order[o] \in [at : {"new", "draining", "waiting", "ended"},
                   fut : {"open"} \cup Answer, result : {"none"} \cup Outcome]
  /\ market[o] \in {"none", "held", "orphan", "filled", "killed"}

OrderTrue(o) ==
  /\ order[o].at = "new" => market[o] = "none" /\ order[o].fut = "open"
  /\ order[o].at = "ended" <=> order[o].result # "none"
  /\ order[o].result \in {"filled", "killed"} => market[o] = order[o].result
  /\ order[o].fut \in {"filled", "killed"} => market[o] = order[o].fut
  /\ order[o].result = "refused" => market[o] = "none"
  /\ Told(o)

OrdersTrue ==
  /\ DOMAIN order = Order /\ DOMAIN market = Order /\ DOMAIN report = Order
  /\ \A o \in Order : OrderTyped(o) /\ OrderTrue(o)

\* How far a bundle is says how far its orders are.
BundleTrue(b) ==
  /\ bundle[b] \in {"idle", "starting", "posting", "success", "failed", "raised", "refused"}
  /\ bundle[b] \in {"idle", "starting", "refused"} => \A o \in Orders(b) : order[o].at = "new"
  /\ bundle[b] = "success" => \A o \in Orders(b) : order[o].result = "filled"
  /\ bundle[b] = "failed" => /\ \A o \in Orders(b) : order[o].at = "ended"
                             /\ \E o \in Orders(b) : order[o].result # "filled"
  /\ bundle[b] = "raised" => \E o \in Orders(b) : order[o].result = "raised"

BundlesTrue == DOMAIN bundle = Bundle /\ \A b \in Bundle : BundleTrue(b)

\* An order that awaits drain() awaits that of one connection.
SendersTrue ==
  \A o \in Order :
    /\ o \in draining \cup straying => order[o].at = "draining"
    /\ ~(o \in draining /\ o \in straying)

-----------------------------------------------------------------------------
(* The orders.                                                             *)

\* What a step may do to an order: it keeps it true, and an order that has
\* ended stays as it is.
Kept(o) ==
  /\ OrderTyped(o)' /\ OrderTrue(o)'
  /\ order[o].at = "ended" => order'[o] = order[o]

DomainsKept == DOMAIN order' = Order /\ DOMAIN market' = Order /\ DOMAIN report' = Order

\* A step after which an order is not new any more is Submit of its bundle.
NewStays == \A o \in Order : order[o].at = "new" => order'[o].at = "new"

LEMMA IdleKeeps ==
  ASSUME OrdersTrue, UNCHANGED <<order, market, report>>
  PROVE  DomainsKept /\ (\A o \in Order : Kept(o)) /\ NewStays
BY DEF OrdersTrue, DomainsKept, Kept, NewStays, OrderTyped, OrderTrue, Told

LEMMA SubmitKeeps ==
  ASSUME OrdersTrue, NEW b \in Bundle, BundleTrue(b), Submit(b)
  PROVE  /\ DomainsKept /\ \A o \in Order : Kept(o)
         /\ \A o \in Order \ Orders(b) : order'[o] = order[o]
<1>1. \A o \in Orders(b) : order[o].at = "new"
  BY DEF BundleTrue, Submit
<1>2. report' = report
  BY DEF Submit
<1>3. CASE connected
  <2>1. /\ order' = [o \in Order |-> IF o \notin Orders(b) THEN order[o]
                         ELSE [order[o] EXCEPT !.at = IF link = "open" /\ paused
                                                      THEN "draining" ELSE "waiting"]]
        /\ market' = [o \in Order |-> IF o \in Orders(b) /\ link = "open" THEN "held"
                                      ELSE market[o]]
    BY <1>3 DEF Submit
  <2>2. ASSUME NEW o \in Order PROVE Kept(o)
    <3>1. CASE o \in Orders(b)
      <4>1. /\ order[o].at = "new" /\ order[o].fut = "open" /\ order[o].result = "none"
            /\ market[o] = "none" /\ Told(o)
        BY <1>1, <3>1 DEF OrdersTrue, OrderTrue
      <4>2. /\ order'[o].at \in {"draining", "waiting"}
            /\ order'[o].fut = "open" /\ order'[o].result = "none"
            /\ order'[o] \in [at : {"new", "draining", "waiting", "ended"},
                              fut : {"open"} \cup Answer, result : {"none"} \cup Outcome]
        BY <2>1, <3>1, <4>1 DEF OrdersTrue, OrderTyped
      <4>3. market'[o] \in {"none", "held"} /\ report'[o] = <<>>
        BY <1>2, <2>1, <3>1, <4>1 DEF Told
      <4> QED BY <4>1, <4>2, <4>3 DEF Kept, OrderTyped, OrderTrue, Told
    <3>2. CASE o \notin Orders(b)
      <4>1. order'[o] = order[o] /\ market'[o] = market[o] /\ report'[o] = report[o]
        BY <1>2, <2>1, <3>2
      <4> QED BY <4>1 DEF OrdersTrue, Kept, OrderTyped, OrderTrue, Told
    <3> QED BY <3>1, <3>2
  <2> QED BY <1>2, <2>1, <2>2 DEF DomainsKept, OrdersTrue
<1>4. CASE ~connected
  <2>1. /\ order' = [o \in Order |-> IF o \in Orders(b) THEN Ended(o, "refused") ELSE order[o]]
        /\ market' = market
    BY <1>4 DEF Submit
  <2>2. ASSUME NEW o \in Order PROVE Kept(o)
    <3>1. CASE o \in Orders(b)
      <4>1. order'[o] = Ended(o, "refused") /\ market'[o] = market[o] /\ report'[o] = report[o]
        BY <1>2, <2>1, <3>1
      <4>2. order[o].at = "new" /\ market[o] = "none" /\ OrderTyped(o) /\ OrderTrue(o)
        BY <1>1, <3>1 DEF OrdersTrue, OrderTrue
      <4> QED BY <4>1, <4>2 DEF Kept, OrderTyped, OrderTrue, Told, Ended, Outcome
    <3>2. CASE o \notin Orders(b)
      <4>1. order'[o] = order[o] /\ market'[o] = market[o] /\ report'[o] = report[o]
        BY <1>2, <2>1, <3>2
      <4> QED BY <4>1 DEF OrdersTrue, Kept, OrderTyped, OrderTrue, Told
    <3> QED BY <3>1, <3>2
  <2> QED BY <1>2, <2>1, <2>2 DEF DomainsKept, OrdersTrue
<1> QED BY <1>3, <1>4

\* Ending an order, or resolving its future, with what the exchange did or with
\* an answer of the client's own.
LEMMA ResolvedIsTrue ==
  ASSUME NEW o \in Order, OrderTyped(o), OrderTrue(o), Pending(o),
         NEW answer \in Answer, answer \in {"filled", "killed"} => market[o] = answer,
         order'[o] = Resolved(o, answer), market'[o] = market[o], Told(o)'
  PROVE  Kept(o) /\ (order[o].at = "new" => order'[o].at = "new")
<1>1. order[o].at \in {"draining", "waiting"} /\ order[o].fut = "open"
  BY DEF Pending
<1>2. CASE order[o].at = "waiting"
  <2>1. order'[o] = [order[o] EXCEPT !.at = "ended", !.result = answer]
    BY <1>2 DEF Resolved, Ended
  <2> QED BY <1>2, <1>1, <2>1 DEF Kept, OrderTyped, OrderTrue, Outcome, Answer
<1>3. CASE order[o].at = "draining"
  <2>1. order'[o] = [order[o] EXCEPT !.fut = answer]
    BY <1>3 DEF Resolved
  <2> QED BY <1>3, <1>1, <2>1 DEF Kept, OrderTyped, OrderTrue, Outcome, Answer
<1> QED BY <1>1, <1>2, <1>3

LEMMA TimeoutKeeps ==
  ASSUME OrdersTrue, NEW o \in Order, Timeout(o)
  PROVE  DomainsKept /\ (\A p \in Order : Kept(p)) /\ NewStays
<1>1. /\ order[o].at = "waiting" /\ market' = market /\ report' = report
      /\ order' = [order EXCEPT ![o] = Ended(o, "timeout")]
  BY DEF Timeout
<1>2. ASSUME NEW p \in Order PROVE Kept(p) /\ (order[p].at = "new" => order'[p].at = "new")
  <2>1. OrderTyped(p) /\ OrderTrue(p)
    BY DEF OrdersTrue
  <2>2. CASE p = o
    <3>1. order'[p] = Ended(o, "timeout")
      BY <1>1, <2>2 DEF OrdersTrue
    <3>2. /\ order'[p].at = "ended" /\ order'[p].fut = order[p].fut
          /\ order'[p].result = "timeout"
          /\ order'[p] \in [at : {"new", "draining", "waiting", "ended"},
                            fut : {"open"} \cup Answer, result : {"none"} \cup Outcome]
      BY <2>1, <2>2, <3>1 DEF OrderTyped, Ended, Outcome
    <3> QED BY <1>1, <2>1, <2>2, <3>2 DEF Kept, OrderTyped, OrderTrue, Told
  <2>3. CASE p # o
    BY <1>1, <2>1, <2>3 DEF OrdersTrue, Kept, OrderTyped, OrderTrue, Told
  <2> QED BY <2>2, <2>3
<1> QED BY <1>1, <1>2 DEF DomainsKept, OrdersTrue, NewStays

LEMMA DecideKeeps ==
  ASSUME OrdersTrue, NEW o \in Order, Decide(o)
  PROVE  DomainsKept /\ (\A p \in Order : Kept(p)) /\ NewStays
<1>1. PICK told \in {<<"partial", "filled">>, <<"new", "killed">>} :
        /\ market' = [market EXCEPT ![o] = told[Len(told)]]
        /\ report' = [report EXCEPT ![o] = IF market[o] = "held" THEN told ELSE <<>>]
  BY DEF Decide
<1>2. market[o] \in {"held", "orphan"} /\ order' = order
  BY DEF Decide
<1>3. ASSUME NEW p \in Order PROVE Kept(p)
  <2>1. OrderTyped(p) /\ OrderTrue(p)
    BY DEF OrdersTrue
  <2>2. CASE p = o
    <3>1. /\ order[o].at # "new" /\ order[o].result \notin {"filled", "killed", "refused"}
          /\ order[o].fut \notin {"filled", "killed"}
      BY <1>2, <2>1, <2>2 DEF OrderTrue
    <3>2. /\ market'[o] = told[Len(told)]
          /\ report'[o] = IF market[o] = "held" THEN told ELSE <<>>
      BY <1>1 DEF OrdersTrue
    <3>3. CASE told = <<"partial", "filled">>
      <4>1. market'[o] = "filled" /\ report'[o] \in {<<>>, <<"partial", "filled">>}
        BY <3>2, <3>3
      <4> QED BY <1>2, <2>1, <2>2, <3>1, <4>1 DEF Kept, OrderTyped, OrderTrue, Told
    <3>4. CASE told = <<"new", "killed">>
      <4>1. market'[o] = "killed" /\ report'[o] \in {<<>>, <<"new", "killed">>}
        BY <3>2, <3>4
      <4> QED BY <1>2, <2>1, <2>2, <3>1, <4>1 DEF Kept, OrderTyped, OrderTrue, Told
    <3> QED BY <3>3, <3>4
  <2>3. CASE p # o
    <3>1. market'[p] = market[p] /\ report'[p] = report[p] /\ order'[p] = order[p]
      BY <1>1, <1>2, <2>3 DEF OrdersTrue
    <3> QED BY <2>1, <3>1 DEF Kept, OrderTyped, OrderTrue, Told
  <2> QED BY <2>2, <2>3
<1> QED BY <1>1, <1>2, <1>3 DEF DomainsKept, OrdersTrue, NewStays

LEMMA ReportKeeps ==
  ASSUME OrdersTrue, NEW o \in Order, Report(o)
  PROVE  DomainsKept /\ (\A p \in Order : Kept(p)) /\ NewStays
<1>1. /\ report[o] # <<>> /\ market' = market
      /\ report' = [report EXCEPT ![o] = Tail(@)]
      /\ order' = IF Pending(o) /\ Says(Head(report[o])) # "open"
                  THEN [order EXCEPT ![o] = Resolved(o, Says(Head(report[o])))] ELSE order
  BY DEF Report
<1>2. /\ Told(o)'
      /\ Says(Head(report[o])) # "open" =>
           /\ Says(Head(report[o])) \in {"filled", "killed"}
           /\ market[o] = Says(Head(report[o]))
  <2>1. CASE market[o] = "filled" /\ report[o] = <<"partial", "filled">>
    <3>1. Head(report[o]) = "partial" /\ Tail(report[o]) = <<"filled">>
      BY <2>1
    <3> QED BY <1>1, <2>1, <3>1 DEF Told, Says, OrdersTrue
  <2>2. CASE market[o] = "filled" /\ report[o] = <<"filled">>
    <3>1. Head(report[o]) = "filled" /\ Tail(report[o]) = <<>>
      BY <2>2
    <3> QED BY <1>1, <2>2, <3>1 DEF Told, Says, OrdersTrue
  <2>3. CASE market[o] = "killed" /\ report[o] = <<"new", "killed">>
    <3>1. Head(report[o]) = "new" /\ Tail(report[o]) = <<"killed">>
      BY <2>3
    <3> QED BY <1>1, <2>3, <3>1 DEF Told, Says, OrdersTrue
  <2>4. CASE market[o] = "killed" /\ report[o] = <<"killed">>
    <3>1. Head(report[o]) = "killed" /\ Tail(report[o]) = <<>>
      BY <2>4
    <3> QED BY <1>1, <2>4, <3>1 DEF Told, Says, OrdersTrue
  <2>5. Told(o)
    BY DEF OrdersTrue, OrderTrue
  <2> QED BY <1>1, <2>1, <2>2, <2>3, <2>4, <2>5 DEF Told
<1>3. ASSUME NEW p \in Order PROVE Kept(p) /\ (order[p].at = "new" => order'[p].at = "new")
  <2>1. OrderTyped(p) /\ OrderTrue(p)
    BY DEF OrdersTrue
  <2>2. CASE p = o /\ Pending(o) /\ Says(Head(report[o])) # "open"
    <3>1. order'[o] = Resolved(o, Says(Head(report[o]))) /\ market'[o] = market[o]
      BY <1>1, <2>2 DEF OrdersTrue
    <3>2. Says(Head(report[o])) \in Answer
      BY <1>2, <2>2 DEF Answer
    <3> QED BY <1>2, <2>1, <2>2, <3>1, <3>2, ResolvedIsTrue
  <2>3. CASE p = o /\ ~(Pending(o) /\ Says(Head(report[o])) # "open")
    BY <1>1, <1>2, <2>1, <2>3 DEF Kept, OrderTyped, OrderTrue
  <2>4. CASE p # o
    <3>1. market'[p] = market[p] /\ report'[p] = report[p] /\ order'[p] = order[p]
      BY <1>1, <2>4 DEF OrdersTrue
    <3> QED BY <2>1, <3>1 DEF Kept, OrderTyped, OrderTrue, Told
  <2> QED BY <2>2, <2>3, <2>4
<1> QED BY <1>1, <1>3 DEF DomainsKept, OrdersTrue, NewStays

LEMMA SessionMovesKeeps ==
  ASSUME OrdersTrue, SessionMoves
  PROVE  DomainsKept /\ (\A p \in Order : Kept(p)) /\ NewStays
<1>1. order' = order
  BY DEF SessionMoves
<1>2. CASE UNCHANGED <<market, report>>
  BY <1>1, <1>2, IdleKeeps
<1>3. CASE Gone
  <2>1. ASSUME NEW p \in Order PROVE Kept(p)
    <3>1. /\ order'[p] = order[p] /\ report'[p] = <<>>
          /\ market'[p] = IF market[p] = "held" THEN "orphan" ELSE market[p]
      BY <1>1, <1>3 DEF Gone
    <3> QED BY <3>1 DEF OrdersTrue, Kept, OrderTyped, OrderTrue, Told
  <2> QED BY <1>1, <1>3, <2>1 DEF DomainsKept, Gone, NewStays, OrdersTrue
<1> QED BY <1>2, <1>3 DEF SessionMoves

\* An order whose drain() returns goes on with what it has been told so far.
LEMMA SentKeeps ==
  ASSUME OrdersTrue, NEW p \in Order, order[p].at = "draining",
         order'[p] \in {Sent(p), Ended(p, "raised")},
         market'[p] = market[p] \/ (market[p] = "held" /\ market'[p] = "orphan"),
         report'[p] \in {report[p], <<>>}
  PROVE  Kept(p)
<1>1. OrderTyped(p) /\ OrderTrue(p)
  BY DEF OrdersTrue
<1>2. order'[p] \in [at : {"new", "draining", "waiting", "ended"},
                     fut : {"open"} \cup Answer, result : {"none"} \cup Outcome]
  BY <1>1 DEF OrderTyped, Sent, Ended, Outcome, Answer
<1>3. market'[p] \in {"none", "held", "orphan", "filled", "killed"}
  BY <1>1 DEF OrderTyped
<1>4. Told(p)'
  BY <1>1 DEF OrderTrue, Told
<1>5. \/ order'[p].at = "waiting" /\ order'[p].fut = order[p].fut /\ order'[p].result = "none"
      \/ order'[p].at = "ended" /\ order'[p].fut = order[p].fut
         /\ order'[p].result \in {order[p].fut, "raised"} /\ order'[p].result # "none"
         /\ order'[p].result # "refused"
  BY <1>1 DEF OrderTyped, OrderTrue, Sent, Ended, Answer, Outcome
<1> QED BY <1>1, <1>2, <1>3, <1>4, <1>5 DEF Kept, OrderTyped, OrderTrue

LEMMA ReleasedKeeps ==
  ASSUME OrdersTrue, SendersTrue, Released
  PROVE  DomainsKept /\ (\A p \in Order : Kept(p)) /\ NewStays
<1>1. /\ order' = [o \in Order |-> IF o \in draining THEN Sent(o) ELSE order[o]]
      /\ Gone \/ UNCHANGED <<market, report>>
  BY DEF Released
<1>2. ASSUME NEW p \in Order PROVE Kept(p) /\ (order[p].at = "new" => order'[p].at = "new")
  <2>1. /\ order'[p] = IF p \in draining THEN Sent(p) ELSE order[p]
        /\ market'[p] = market[p] \/ (market[p] = "held" /\ market'[p] = "orphan")
        /\ report'[p] \in {report[p], <<>>}
    BY <1>1 DEF Gone
  <2>2. CASE p \in draining
    <3>1. order[p].at = "draining"
      BY <2>2 DEF SendersTrue
    <3> QED BY <2>1, <2>2, <3>1, SentKeeps
  <2>3. CASE p \notin draining
    BY <2>1, <2>3 DEF OrdersTrue, Kept, OrderTyped, OrderTrue, Told
  <2> QED BY <2>2, <2>3
<1> QED BY <1>1, <1>2 DEF DomainsKept, Gone, NewStays, OrdersTrue

LEMMA WokenKeeps ==
  ASSUME OrdersTrue, SendersTrue, NEW x \in straying, Woken(x)
  PROVE  DomainsKept /\ (\A p \in Order : Kept(p)) /\ NewStays
<1>1. PICK returns \in BOOLEAN :
        order' = [o \in Order |-> IF o # x THEN order[o]
                                  ELSE IF returns THEN Sent(o) ELSE Ended(o, "raised")]
  BY DEF Woken
<1>2. UNCHANGED <<market, report>>
  BY DEF Woken
<1>3. ASSUME NEW p \in Order PROVE Kept(p) /\ (order[p].at = "new" => order'[p].at = "new")
  <2>1. market'[p] = market[p] /\ report'[p] = report[p]
    BY <1>2
  <2>2. CASE p = x
    <3>1. order'[p] \in {Sent(p), Ended(p, "raised")} /\ order[p].at = "draining"
      BY <1>1, <2>2 DEF SendersTrue
    <3> QED BY <2>1, <3>1, SentKeeps
  <2>3. CASE p # x
    <3>1. order'[p] = order[p]
      BY <1>1, <2>3
    <3> QED BY <2>1, <3>1 DEF OrdersTrue, Kept, OrderTyped, OrderTrue, Told
  <2> QED BY <2>2, <2>3
<1> QED BY <1>1, <1>2, <1>3 DEF DomainsKept, NewStays, OrdersTrue

LEMMA ClosedKeeps ==
  ASSUME OrdersTrue, Closed
  PROVE  DomainsKept /\ (\A p \in Order : Kept(p)) /\ NewStays
<1>1. ASSUME NEW p \in Order PROVE Kept(p) /\ (order[p].at = "new" => order'[p].at = "new")
  <2>1. OrderTyped(p) /\ OrderTrue(p)
    BY DEF OrdersTrue
  <2>2. /\ order'[p] = IF Pending(p) THEN Resolved(p, "closed") ELSE order[p]
        /\ market'[p] = market[p] /\ report'[p] = report[p]
    BY DEF Closed
  <2>3. Told(p)'
    BY <2>1, <2>2 DEF OrderTrue, Told
  <2>4. CASE Pending(p)
    <3>1. "closed" \in Answer /\ "closed" \notin {"filled", "killed"}
      BY DEF Answer
    <3> QED BY <2>1, <2>2, <2>3, <2>4, <3>1, ResolvedIsTrue
  <2>5. CASE ~Pending(p)
    BY <2>1, <2>2, <2>5 DEF Kept, OrderTyped, OrderTrue, Told
  <2> QED BY <2>4, <2>5
<1> QED BY <1>1 DEF DomainsKept, Closed, NewStays, OrdersTrue

-----------------------------------------------------------------------------
(* The bundles.                                                            *)

LEMMA OrderNames ==
  /\ \A o \in Order : o[1] \in Bundle /\ o \in Orders(o[1])
  /\ \A b \in Bundle : Orders(b) \subseteq Order /\ \A o \in Orders(b) : o[1] = b
  /\ \A b \in Bundle : Orders(b) # {}
<1>1. \A b \in Bundle : \A o \in Orders(b) : o[1] = b
  BY DEF Orders
<1>2. \A b \in Bundle : Orders(b) \subseteq Order
  BY DEF Order
<1>3. ASSUME NEW o \in Order PROVE o[1] \in Bundle /\ o \in Orders(o[1])
  <2>1. PICK b \in Bundle : o \in Orders(b)
    BY DEF Order
  <2> QED BY <1>1, <2>1
<1>4. ASSUME NEW b \in Bundle PROVE Orders(b) # {}
  <2>1. PICK l : l \in LegsOf[b]
    BY BundlesFinite
  <2>2. <<b, l>> \in Orders(b)
    BY <2>1 DEF Orders
  <2> QED BY <2>2
<1> QED BY <1>1, <1>2, <1>3, <1>4

\* What keeps the orders true keeps the bundles true that stay as they are.
LEMMA BundleStays ==
  ASSUME NEW b \in Bundle, BundleTrue(b), bundle'[b] = bundle[b], OrdersTrue,
         \A o \in Orders(b) : Kept(o),
         \A o \in Orders(b) : order[o].at = "new" => order'[o].at = "new"
  PROVE  BundleTrue(b)'
<1>1. \A o \in Orders(b) : o \in Order
  BY OrderNames
<1>2. \A o \in Orders(b) : order[o].result # "none" => order'[o] = order[o]
  BY <1>1 DEF OrdersTrue, OrderTrue, Kept
<1>3. Orders(b)' = Orders(b)
  BY DEF Orders
<1> QED BY <1>1, <1>2, <1>3 DEF BundleTrue, OrdersTrue, OrderTrue, Kept

OrdersStep ==
  \/ SessionMoves \/ Released \/ (\E x \in straying : Woken(x)) \/ Closed
  \/ \E o \in Order : OrderStep(o)

\* A step that is none of buy_bundle_fok's own.
LEMMA OrdersStepKeeps ==
  ASSUME OrdersTrue, SendersTrue, OrdersStep
  PROVE  /\ DomainsKept /\ (\A o \in Order : Kept(o)) /\ NewStays
         /\ UNCHANGED <<bundle, spend, beside>>
<1>1. CASE SessionMoves
  BY <1>1, SessionMovesKeeps DEF SessionMoves
<1>3. CASE Released
  BY <1>3, ReleasedKeeps DEF Released
<1>4. ASSUME NEW x \in straying, Woken(x)
      PROVE  /\ DomainsKept /\ (\A o \in Order : Kept(o)) /\ NewStays
             /\ UNCHANGED <<bundle, spend, beside>>
  BY <1>4, WokenKeeps DEF Woken
<1>5. CASE Closed
  BY <1>5, ClosedKeeps DEF Closed
<1>6. CASE \E o \in Order : OrderStep(o)
  <2>1. PICK o \in Order : OrderStep(o)
    BY <1>6
  <2>2. UNCHANGED <<bundle, spend, beside>>
    BY <2>1 DEF OrderStep, Timeout, Decide, Report
  <2>3. CASE Timeout(o)
    BY <2>2, <2>3, TimeoutKeeps
  <2>4. CASE Decide(o)
    BY <2>2, <2>4, DecideKeeps
  <2>5. CASE Report(o)
    BY <2>2, <2>5, ReportKeeps
  <2> QED BY <2>1, <2>3, <2>4, <2>5 DEF OrderStep
<1> QED BY <1>1, <1>3, <1>4, <1>5, <1>6 DEF OrdersStep

-----------------------------------------------------------------------------
(* Who awaits drain().                                                     *)

LEMMA OwnSenders ==
  Beat \notin Order /\ TestAnswer \notin Order /\ Logout \notin Order
<1>1. \A o \in Order : o[1] # "session"
  BY OrderNames, BundlesFinite
<1> QED BY <1>1 DEF Beat, TestAnswer, Logout

\* Senders join those that are held back, and no others.
LEMMA SendDrains ==
  ASSUME NEW X, Send(X)
  PROVE  /\ draining \subseteq draining' /\ draining' \subseteq draining \cup X
         /\ link # "open" \/ ~paused => draining' = draining
         /\ straying' = straying
BY DEF Send

\* Orders move between the two sets, or leave them, but only Submit adds one.
LEMMA SendersMove ==
  ASSUME SessionMoves
  PROVE  \A o \in Order :
           /\ o \in draining' \cup straying' => o \in draining \cup straying
           /\ o \in draining' /\ o \in straying' => o \in draining /\ o \in straying
<1>1. CASE HeartbeatStarts \/ LogonAnswer \/ PauseWriting \/ Open("starting")
  BY <1>1 DEF HeartbeatStarts, LogonAnswer, PauseWriting, Open
<1>2. CASE Heartbeat \/ TestRequest
  <2>1. Send({Beat}) \/ Send({TestAnswer})
    BY <1>2 DEF Heartbeat, TestRequest
  <2>2. draining' \subseteq draining \cup {Beat, TestAnswer} /\ straying' = straying
    BY <2>1, SendDrains
  <2> QED BY <2>2, OwnSenders
<1>3. CASE Lose \/ ReadingEnds
  <2>1. straying' \subseteq straying \cup draining /\ draining' = {}
    BY <1>3 DEF Lose, ReadingEnds, Adrift
  <2> QED BY <2>1
<1>4. CASE Notice
  BY <1>4 DEF Notice
<1>5. CASE Close
  <2>1. \/ /\ draining' \subseteq draining \cup {Logout} /\ straying' = straying
        \/ /\ draining' = draining /\ straying' = straying \cup {Logout}
    BY <1>5, SendDrains DEF Close
  <2> QED BY <2>1, OwnSenders
<1> QED BY <1>1, <1>2, <1>3, <1>4, <1>5 DEF SessionMoves, SessionStep

LEMMA SendersKept ==
  ASSUME OrdersTrue, SendersTrue, OrdersStep
  PROVE  SendersTrue'
<1>1. CASE SessionMoves
  <2>1. order' = order
    BY <1>1 DEF SessionMoves
  <2> QED BY <1>1, <2>1, SendersMove DEF SendersTrue
<1>2. CASE Released
  <2>1. /\ draining' = {} /\ straying' = straying
        /\ \A o \in Order \ draining : order'[o] = order[o]
    BY <1>2 DEF Released, ResumeWriting
  <2> QED BY <2>1 DEF SendersTrue
<1>3. ASSUME NEW x \in straying, Woken(x) PROVE SendersTrue'
  <2>1. /\ draining' = draining /\ straying' = straying \ {x}
        /\ \A o \in Order \ {x} : order'[o] = order[o]
    BY <1>3 DEF Woken, Wake
  <2> QED BY <1>3, <2>1 DEF SendersTrue
<1>4. ASSUME UNCHANGED session,
             \A o \in Order : order[o].at = "draining" => order'[o].at = "draining"
      PROVE  SendersTrue'
  BY <1>4 DEF SendersTrue, session
<1>5. ASSUME NEW o \in Order, NEW answer, order[o].at = "draining",
             OrderTyped(o)
      PROVE  Resolved(o, answer).at = "draining"
  BY <1>5 DEF Resolved, OrderTyped
<1>6. CASE Closed
  <2>1. /\ UNCHANGED session
        /\ \A o \in Order : order'[o] = IF Pending(o) THEN Resolved(o, "closed") ELSE order[o]
    BY <1>6 DEF Closed
  <2> QED BY <1>4, <1>5, <2>1 DEF OrdersTrue
<1>7. ASSUME NEW o \in Order, OrderStep(o) PROVE SendersTrue'
  <2>1. UNCHANGED session
    BY <1>7 DEF OrderStep, Timeout, Decide, Report
  <2>2. CASE Decide(o)
    BY <1>4, <2>1, <2>2 DEF Decide
  <2>3. CASE Timeout(o)
    <3>1. order[o].at = "waiting" /\ \A q \in Order \ {o} : order'[q] = order[q]
      BY <2>3 DEF Timeout, OrdersTrue
    <3> QED BY <1>4, <2>1, <3>1
  <2>4. CASE Report(o)
    <3>1. \A q \in Order : order'[q] = order[q] \/ \E answer : order'[q] = Resolved(q, answer)
      BY <2>4 DEF Report, OrdersTrue
    <3> QED BY <1>4, <1>5, <2>1, <3>1 DEF OrdersTrue
  <2> QED BY <1>7, <2>2, <2>3, <2>4 DEF OrderStep
<1> QED BY <1>1, <1>2, <1>3, <1>6, <1>7 DEF OrdersStep

-----------------------------------------------------------------------------
(* The spend.                                                              *)

\* The bundles counted so far, and those under way.
Counted == {b \in Bundle : bundle[b] = "success"}
Going == {b \in Bundle : bundle[b] \in {"starting", "posting"}}

SpendTrue == spend = Cardinality(Counted)

CapTrue == beside \in Nat /\ spend + Cardinality(Going) <= MaxSession + beside

Inv == OrdersTrue /\ BundlesTrue /\ SendersTrue /\ SpendTrue /\ CapTrue

LEMMA BundleSets ==
  ASSUME NEW S \in SUBSET Bundle
  PROVE  IsFiniteSet(S) /\ Cardinality(S) \in Nat
BY BundlesFinite, FS_Subset, FS_CardinalityType

LEMMA OrdersFinite == \A b \in Bundle : IsFiniteSet(Orders(b))
BY BundlesFinite, FS_Singleton, FS_Product DEF Orders

LEMMA BuyKeeps ==
  ASSUME Inv, NEW b \in Bundle, Buy(b)
  PROVE  Inv'
<1>1. /\ bundle[b] = "idle" /\ UNCHANGED <<session, order, market, report, spend>>
      /\ \/ bundle' = [bundle EXCEPT ![b] = "refused"] /\ UNCHANGED beside
         \/ /\ spend + 1 <= MaxSession /\ bundle' = [bundle EXCEPT ![b] = "starting"]
            /\ beside' = IF Cardinality(Going) > beside THEN Cardinality(Going) ELSE beside
  <2>1. spend \in Nat /\ MaxSession \in Nat
    BY BundleSets, BundlesFinite DEF Inv, SpendTrue, Counted
  <2> QED BY <2>1 DEF Buy, Enters, UnderWay, Going
<1>2. OrdersTrue'
  BY <1>1, IdleKeeps DEF Inv, OrdersTrue, DomainsKept, Kept
<1>3. BundlesTrue'
  <2>1. DOMAIN bundle' = Bundle
    BY <1>1 DEF Inv, BundlesTrue
  <2>2. ASSUME NEW c \in Bundle PROVE BundleTrue(c)'
    BY <1>1 DEF Inv, BundlesTrue, BundleTrue, Orders
  <2> QED BY <2>1, <2>2 DEF BundlesTrue
<1>4. Counted' = Counted
  BY <1>1 DEF Counted, Inv, BundlesTrue
<1>5. SendersTrue'
  BY <1>1 DEF Inv, SendersTrue, session
<1>6. spend \in Nat /\ beside \in Nat /\ Cardinality(Going) \in Nat /\ MaxSession \in Nat
      /\ IsFiniteSet(Going) /\ b \notin Going
  BY <1>1, BundleSets, BundlesFinite DEF Inv, SpendTrue, CapTrue, Counted, Going
<1>7. CapTrue'
  <2>1. CASE bundle' = [bundle EXCEPT ![b] = "refused"] /\ UNCHANGED beside
    <3>1. Going' = Going
      BY <1>1, <2>1 DEF Going, Inv, BundlesTrue
    <3> QED BY <1>1, <2>1, <3>1 DEF Inv, CapTrue
  <2>2. CASE /\ spend + 1 <= MaxSession /\ bundle' = [bundle EXCEPT ![b] = "starting"]
             /\ beside' = IF Cardinality(Going) > beside THEN Cardinality(Going) ELSE beside
    <3>1. Going' = Going \cup {b}
      BY <1>1, <2>2 DEF Going, Inv, BundlesTrue
    <3>2. Cardinality(Going \cup {b}) = Cardinality(Going) + 1
      BY <1>6, FS_AddElement
    <3> QED BY <1>1, <1>6, <2>2, <3>1, <3>2 DEF CapTrue
  <2> QED BY <1>1, <2>1, <2>2
<1> QED BY <1>1, <1>2, <1>3, <1>4, <1>5, <1>7 DEF Inv, SpendTrue

LEMMA SubmitKeepsInv ==
  ASSUME Inv, NEW b \in Bundle, Submit(b)
  PROVE  Inv'
<1>1. BundleTrue(b) /\ OrdersTrue /\ DOMAIN bundle = Bundle
  BY DEF Inv, BundlesTrue
<1>2. /\ DomainsKept /\ \A o \in Order : Kept(o)
      /\ \A o \in Order \ Orders(b) : order'[o] = order[o]
  BY <1>1, SubmitKeeps
<1>3. bundle[b] = "starting" /\ bundle' = [bundle EXCEPT ![b] = "posting"] /\ spend' = spend
  BY DEF Submit
<1>4. ASSUME NEW c \in Bundle PROVE BundleTrue(c)'
  <2>1. CASE c = b
    <3>1. bundle'[c] = "posting"
      BY <1>1, <1>3, <2>1
    <3> QED BY <3>1 DEF BundleTrue
  <2>2. CASE c # b
    <3>1. bundle'[c] = bundle[c] /\ BundleTrue(c)
      BY <1>3, <2>2 DEF Inv, BundlesTrue
    <3>2. \A o \in Orders(c) : o \in Order \ Orders(b)
      BY <2>2, OrderNames
    <3>3. \A o \in Orders(c) : Kept(o) /\ order'[o] = order[o]
      BY <1>2, <3>2
    <3> QED BY <1>1, <3>1, <3>3, BundleStays
  <2> QED BY <2>1, <2>2
<1>5. OrdersTrue'
  BY <1>2 DEF OrdersTrue, DomainsKept, Kept
<1>6. BundlesTrue'
  BY <1>1, <1>3, <1>4 DEF BundlesTrue
<1>7. Counted' = Counted /\ Going' = Going /\ beside' = beside
  BY <1>1, <1>3 DEF Counted, Going, Submit
<1>8. SendersTrue'
  <2>1. \A o \in Orders(b) : o \notin draining \cup straying
    BY <1>1, <1>3, OrderNames DEF Inv, SendersTrue, BundleTrue
  <2>2. CASE ~connected
    <3>1. UNCHANGED <<draining, straying>>
      BY <2>2 DEF Submit, session
    <3> QED BY <1>2, <2>1, <3>1 DEF Inv, SendersTrue
  <2>3. CASE connected
    <3>1. /\ Send(Orders(b)) /\ \A o \in Orders(b) : o \in Order /\ order[o].at = "new"
      BY <1>1, <1>3, <2>3, OrderNames DEF Submit, BundleTrue
    <3>2. /\ draining' \subseteq draining \cup Orders(b) /\ straying' = straying
          /\ link # "open" \/ ~paused => draining' = draining
      BY <3>1, SendDrains
    <3>3. link = "open" /\ paused => \A o \in Orders(b) : order'[o].at = "draining"
      BY <1>1, <2>3, <3>1 DEF Submit, OrdersTrue, OrderTyped
    <3> QED BY <1>2, <2>1, <3>2, <3>3 DEF Inv, SendersTrue
  <2> QED BY <2>2, <2>3
<1> QED BY <1>3, <1>5, <1>6, <1>7, <1>8 DEF Inv, SpendTrue, CapTrue

LEMMA ReturnsKeeps ==
  ASSUME Inv, NEW b \in Bundle, BundleReturns(b)
  PROVE  Inv'
<1> DEFINE raised == \E o \in Orders(b) : order[o].result = "raised"
           filled == \A o \in Orders(b) : order[o].result = "filled"
           to == IF raised THEN "raised" ELSE IF filled THEN "success" ELSE "failed"
<1>1. /\ bundle[b] = "posting" /\ UNCHANGED <<session, order, market, report, beside>>
      /\ raised \/ \A o \in Orders(b) : order[o].at = "ended"
      /\ bundle' = [bundle EXCEPT ![b] = to]
      /\ spend' = IF filled THEN spend + 1 ELSE spend
  BY DEF BundleReturns
<1>2. OrdersTrue'
  BY <1>1, IdleKeeps DEF Inv, OrdersTrue, DomainsKept, Kept
<1>3. DOMAIN bundle = Bundle /\ OrdersTrue
  BY DEF Inv, BundlesTrue
<1>4. ASSUME NEW c \in Bundle PROVE BundleTrue(c)'
  <2>1. CASE c = b
    <3>1. bundle'[b] = to /\ order' = order /\ Orders(b)' = Orders(b)
      BY <1>1, <1>3 DEF Orders
    <3> QED BY <1>1, <2>1, <3>1 DEF BundleTrue
  <2>2. CASE c # b
    <3>1. bundle'[c] = bundle[c] /\ order' = order /\ Orders(c)' = Orders(c)
      BY <1>1, <2>2 DEF Orders
    <3> QED BY <3>1 DEF Inv, BundlesTrue, BundleTrue
  <2> QED BY <2>1, <2>2
<1>5. BundlesTrue'
  BY <1>1, <1>3, <1>4 DEF BundlesTrue
<1>6. SendersTrue'
  BY <1>1 DEF Inv, SendersTrue, session
<1>7. SpendTrue'
  <2>1. CASE ~filled
    <3>1. Counted' = Counted
      BY <1>1, <1>3, <2>1 DEF Counted
    <3> QED BY <1>1, <2>1, <3>1 DEF Inv, SpendTrue
  <2>2. CASE filled
    <3>1. ~raised
      BY <2>2, OrderNames
    <3>2. Counted' = Counted \cup {b} /\ b \notin Counted
      BY <1>1, <1>3, <2>2, <3>1 DEF Counted
    <3>3. IsFiniteSet(Counted)
      BY BundleSets DEF Counted
    <3> QED BY <1>1, <2>2, <3>2, <3>3, FS_AddElement DEF Inv, SpendTrue
  <2> QED BY <2>1, <2>2
<1>8. CapTrue'
  <2>1. Going' = Going \ {b} /\ b \in Going
    BY <1>1, <1>3 DEF Going
  <2>2. IsFiniteSet(Going) /\ Cardinality(Going) \in Nat
        /\ spend \in Nat /\ beside \in Nat /\ MaxSession \in Nat
    BY BundleSets, BundlesFinite DEF Going, Inv, SpendTrue, Counted, CapTrue
  <2>3. Cardinality(Going \ {b}) = Cardinality(Going) - 1
    BY <2>1, <2>2, FS_RemoveElement
  <2> QED BY <1>1, <2>1, <2>2, <2>3 DEF Inv, CapTrue
<1> QED BY <1>2, <1>5, <1>6, <1>7, <1>8 DEF Inv

-----------------------------------------------------------------------------
(* The inductive invariant.                                                *)

LEMMA InitInv == Init => Inv
<1> SUFFICES ASSUME Init PROVE Inv
  OBVIOUS
<1>1. OrdersTrue
  BY DEF Init, OrdersTrue, OrderTyped, OrderTrue, Told
<1>2. BundlesTrue
  BY OrderNames DEF Init, BundlesTrue, BundleTrue
<1>3. SendersTrue
  BY DEF Init, SessionInit, SendersTrue
<1>4. Counted = {} /\ Going = {} /\ Cardinality({}) = 0
  BY FS_EmptySet DEF Init, Counted, Going
<1>5. SpendTrue /\ CapTrue
  BY <1>4, BundlesFinite DEF Init, SpendTrue, CapTrue
<1> QED BY <1>1, <1>2, <1>3, <1>5 DEF Inv

LEMMA NextInv == Inv /\ [Next]_vars => Inv'
<1> SUFFICES ASSUME Inv, [Next]_vars PROVE Inv'
  OBVIOUS
<1>1. ASSUME /\ DomainsKept /\ (\A o \in Order : Kept(o)) /\ NewStays
             /\ SendersTrue' /\ UNCHANGED <<bundle, spend, beside>>
      PROVE  Inv'
  <2>1. OrdersTrue'
    BY <1>1 DEF OrdersTrue, DomainsKept, Kept
  <2>2. ASSUME NEW b \in Bundle PROVE BundleTrue(b)'
    <3>1. BundleTrue(b) /\ bundle'[b] = bundle[b] /\ OrdersTrue
      BY <1>1 DEF Inv, BundlesTrue
    <3>2. \A o \in Orders(b) : Kept(o) /\ (order[o].at = "new" => order'[o].at = "new")
      BY <1>1, OrderNames DEF NewStays
    <3> QED BY <3>1, <3>2, BundleStays
  <2>3. BundlesTrue'
    BY <1>1, <2>2 DEF Inv, BundlesTrue
  <2>4. Counted' = Counted /\ Going' = Going
    BY <1>1 DEF Counted, Going
  <2> QED BY <1>1, <2>1, <2>3, <2>4 DEF Inv, SpendTrue, CapTrue
<1>2. CASE UNCHANGED vars
  <2>1. UNCHANGED <<order, market, report>> /\ UNCHANGED <<bundle, spend, beside>>
        /\ UNCHANGED <<draining, straying>>
    BY <1>2 DEF vars, session
  <2>2. SendersTrue'
    BY <2>1 DEF Inv, SendersTrue
  <2> QED BY <1>1, <2>1, <2>2, IdleKeeps DEF Inv
<1>3. CASE OrdersStep
  BY <1>1, <1>3, OrdersStepKeeps, SendersKept DEF Inv
<1>4. CASE \E b \in Bundle : Buy(b) \/ Submit(b) \/ BundleReturns(b)
  BY <1>4, BuyKeeps, SubmitKeepsInv, ReturnsKeeps
<1> QED BY <1>2, <1>3, <1>4 DEF Next, OrdersStep

\* Orders, bundles and spend agree after every step of buy_bundle_fok, of the
\* session and of the exchange.
THEOREM OrdersInvariant == Spec => []Inv
BY InitInv, NextInv, PTL DEF Spec

-----------------------------------------------------------------------------
(***************************************************************************)
(* What submit_fok_order says of an order is what the exchange did: for    *)
(* any number of bundles and legs, through timeouts, lost sessions, held   *)
(* writers and close().                                                    *)
(***************************************************************************)
THEOREM AnswersAlwaysTrue == Spec => []AnswersTrue
<1>1. Inv => AnswersTrue
  BY DEF Inv, OrdersTrue, OrderTrue, AnswersTrue
<1> QED BY <1>1, OrdersInvariant, PTL

(***************************************************************************)
(* buy_bundle_fok's session_requested_spend is that of the bundles          *)
(* that answered success, which are filled in full; a filled bundle that   *)
(* is not counted has a leg whose answer was lost.                         *)
(***************************************************************************)
THEOREM CountedIsAlwaysFilled == Spec => []CountedIsFilled
<1>1. ASSUME Inv PROVE CountedIsFilled
  <2>1. spend = Cardinality(Counted)
    BY <1>1 DEF Inv, SpendTrue
  <2>2. ASSUME NEW b \in Bundle, \A o \in Orders(b) : market[o] = "filled"
        PROVE  \/ bundle[b] \in {"posting", "success"}
               \/ \E o \in Orders(b) : order[o].result \in {"timeout", "raised", "closed"}
    <3>1. \A o \in Orders(b) : OrderTyped(o) /\ OrderTrue(o)
      BY <1>1, OrderNames DEF Inv, OrdersTrue
    <3>2. BundleTrue(b)
      BY <1>1 DEF Inv, BundlesTrue
    <3>3. bundle[b] \notin {"idle", "starting", "refused"}
      BY <2>2, <3>1, <3>2, OrderNames DEF BundleTrue, OrderTrue
    <3>4. CASE bundle[b] = "failed"
      <4>1. PICK o \in Orders(b) : order[o].result # "filled" /\ order[o].at = "ended"
        BY <3>2, <3>4 DEF BundleTrue
      <4>2. order[o].result \notin {"killed", "refused", "none", "filled"}
        BY <2>2, <3>1, <4>1 DEF OrderTrue
      <4> QED BY <3>1, <4>2 DEF OrderTyped, Outcome, Answer
    <3>5. CASE bundle[b] = "raised"
      BY <3>2, <3>5 DEF BundleTrue
    <3> QED BY <3>2, <3>3, <3>4, <3>5 DEF BundleTrue
  <2>3. \A b \in Counted : \A o \in Orders(b) : market[o] = "filled"
    <3> SUFFICES ASSUME NEW b \in Counted, NEW o \in Orders(b) PROVE market[o] = "filled"
      OBVIOUS
    <3>1. b \in Bundle /\ order[o].result = "filled"
      BY <1>1 DEF Counted, Inv, BundlesTrue, BundleTrue
    <3>2. OrderTrue(o)
      BY <1>1, <3>1, OrderNames DEF Inv, OrdersTrue
    <3> QED BY <3>1, <3>2 DEF OrderTrue
  <2> QED BY <2>1, <2>2, <2>3 DEF CountedIsFilled, Counted
<1> QED BY <1>1, OrdersInvariant, PTL

(***************************************************************************)
(* buy_bundle_fok compares the cap with what has been counted; what is     *)
(* counted and under way exceeds it at most by what was under way beside a *)
(* bundle that was let in, for any number of bundles and any cap.          *)
(***************************************************************************)
THEOREM OverrunIsBeside == Spec => []CapOverrun
<1>1. Inv => CapOverrun
  BY DEF Inv, CapTrue, CapOverrun, UnderWay, Going
<1> QED BY <1>1, OrdersInvariant, PTL

-----------------------------------------------------------------------------
(* The session's sequence numbers.                                         *)

\* Who is held back has yet to count; nobody is on a connection that is gone.
Numbered ==
  /\ seq \in Nat /\ expected \in Nat /\ strayed \in Nat /\ IsFiniteSet(draining)
  /\ link # "open" \/ ~paused => draining = {}
  /\ ~stopping => Logout \notin draining
  /\ link = "open" =>
       /\ seq + Cardinality(draining) = expected + strayed
       /\ ~shared => Cardinality(draining) <= 1
       /\ ~shared /\ strayed = 0 => orderly

\* What Send writes, said without its conditionals.
LEMMA SendWrites ==
  ASSUME NEW X, Send(X)
  PROVE  /\ strayed' = strayed
         /\ link = "open" => /\ expected' = expected + Cardinality(X)
                             /\ seq' = IF paused THEN seq ELSE seq + Cardinality(X)
                             /\ draining' = IF paused THEN draining \cup X ELSE draining
         /\ link # "open" => /\ seq' = seq + Cardinality(X)
                             /\ UNCHANGED <<draining, shared, expected, orderly>>
BY DEF Send

LEMMA SendNumbered ==
  ASSUME Numbered, NEW X, IsFiniteSet(X), X \cap draining = {}, Send(X),
         UNCHANGED <<link, paused>>, ~stopping' => Logout \notin X /\ ~stopping
  PROVE  Numbered'
<1>1. /\ Cardinality(X) \in Nat /\ Cardinality(draining) \in Nat
      /\ seq \in Nat /\ expected \in Nat /\ strayed \in Nat
      /\ Cardinality(X) = 0 <=> X = {}
  BY FS_CardinalityType, FS_EmptySet DEF Numbered
<1>2. IsFiniteSet(draining \cup X)
      /\ Cardinality(draining \cup X) = Cardinality(draining) + Cardinality(X)
  <2>1. Cardinality(draining \cap X) = 0
    BY FS_EmptySet
  <2>2. /\ IsFiniteSet(draining \cup X)
        /\ Cardinality(draining \cup X)
             = Cardinality(draining) + Cardinality(X) - Cardinality(draining \cap X)
    BY FS_Union DEF Numbered
  <2> QED BY <1>1, <2>1, <2>2
<1>3. ~stopping' => Logout \notin draining'
  BY SendDrains DEF Numbered
<1>4. IsFiniteSet(draining') /\ (link' # "open" \/ ~paused' => draining' = {})
  BY <1>2, SendWrites DEF Numbered
<1>5. CASE link = "open"
  <2>1. seq + Cardinality(draining) = expected + strayed
        /\ (~shared => Cardinality(draining) <= 1) /\ (~shared /\ strayed = 0 => orderly)
    BY <1>5 DEF Numbered
  <2>2. /\ shared' = (shared \/ (paused /\ X # {} /\ Cardinality(draining \cup X) > 1))
        /\ orderly' = (orderly /\ (X # {} => seq = expected)
                               /\ (paused => Cardinality(X) <= 1))
    BY <1>5, Zenon DEF Send
  <2>3. ~paused => Cardinality(draining) = 0
    BY FS_EmptySet DEF Numbered
  <2>4. ASSUME ~shared'
        PROVE  /\ ~shared
               /\ paused /\ X # {} => Cardinality(draining) = 0 /\ Cardinality(X) = 1
    <3>1. ~shared /\ (paused /\ X # {} => ~(Cardinality(draining \cup X) > 1))
      BY <2>2, <2>4, Zenon
    <3> QED BY <1>1, <1>2, <3>1
  <2>5. ASSUME ~shared', strayed = 0 PROVE orderly'
    <3>1. orderly /\ (X # {} => seq = expected)
      BY <1>1, <2>1, <2>3, <2>4, <2>5
    <3>2. paused => Cardinality(X) <= 1
      BY <1>1, <2>4, <2>5
    <3> QED BY <2>2, <3>1, <3>2, Zenon
  <2>6. ~shared' => Cardinality(draining') <= 1
    <3>1. CASE paused /\ X # {}
      BY <1>2, <1>5, <2>4, <3>1, SendWrites
    <3>2. CASE ~paused \/ X = {}
      <4>1. draining' = draining
        BY <1>5, <3>2, SendWrites
      <4> QED BY <2>1, <2>4, <4>1
    <3> QED BY <3>1, <3>2
  <2>7. seq' + Cardinality(draining') = expected' + strayed'
    <3>1. CASE paused
      BY <1>1, <1>2, <1>5, <2>1, <3>1, SendWrites
    <3>2. CASE ~paused
      BY <1>1, <1>5, <2>1, <3>2, SendWrites
    <3> QED BY <3>1, <3>2
  <2>8. seq' \in Nat /\ expected' \in Nat /\ strayed' \in Nat
    BY <1>1, <1>5, SendWrites
  <2>9. ~shared' /\ strayed' = 0 => orderly'
    BY <2>5, SendWrites
  <2> QED BY <1>3, <1>4, <1>5, <2>6, <2>7, <2>8, <2>9 DEF Numbered
<1>6. CASE link # "open"
  BY <1>1, <1>3, <1>4, <1>6, SendWrites DEF Numbered
<1> QED BY <1>5, <1>6

LEMMA SendOneNumbered ==
  ASSUME Numbered, NEW x, Send({x}), x \notin draining, x # Logout \/ stopping',
         UNCHANGED <<link, paused>>, ~stopping' => ~stopping
  PROVE  Numbered'
<1>1. IsFiniteSet({x}) /\ {x} \cap draining = {}
  BY FS_Singleton
<1> QED BY <1>1, SendNumbered

\* A connection that goes takes its numbers with it.
LEMMA GoneNumbered ==
  ASSUME Numbered, link' # "open", draining' = {}, seq' \in Nat,
         expected' \in Nat, strayed' \in Nat
  PROVE  Numbered'
BY FS_EmptySet DEF Numbered

LEMMA CloseNumbered == Numbered /\ Close => Numbered'
<1> SUFFICES ASSUME Numbered, Close PROVE Numbered'
  OBVIOUS
<1>1. UNCHANGED paused /\ ~stopping /\ stopping'
  BY DEF Close, stopping
<1>2. CASE link = "open" /\ paused /\ Send({Logout}) /\ UNCHANGED link
  BY <1>1, <1>2, SendOneNumbered DEF Numbered
<1>3. CASE link = "open" /\ ~paused /\ seq' = seq + 1 /\ link' = "lost" /\ UNCHANGED draining
           /\ Forgotten
  BY <1>3, GoneNumbered DEF Numbered, Forgotten
<1>4. CASE link # "open" /\ UNCHANGED <<link, seq, draining, expected, strayed>>
  BY <1>4, GoneNumbered DEF Numbered
<1> QED BY <1>2, <1>3, <1>4 DEF Close

LEMMA SessionNumbered == Numbered /\ SessionMoves => Numbered'
<1> SUFFICES ASSUME Numbered, SessionMoves PROVE Numbered'
  OBVIOUS
<1>1. CASE HeartbeatStarts \/ LogonAnswer \/ PauseWriting
  BY <1>1 DEF HeartbeatStarts, LogonAnswer, PauseWriting, Numbered, stopping
<1>2. CASE Heartbeat \/ TestRequest
  <2>1. Beat # Logout /\ TestAnswer # Logout
    BY DEF Beat, TestAnswer, Logout
  <2> QED BY <1>2, <2>1, SendOneNumbered DEF Heartbeat, TestRequest, stopping
<1>3. CASE Open("starting")
  <2>1. draining = {} /\ Cardinality({}) = 0
    BY <1>3, FS_EmptySet DEF Open, Numbered
  <2> QED BY <1>3, <2>1 DEF Open, Numbered, stopping
<1>4. CASE Lose \/ ReadingEnds
  <2>1. link' # "open" /\ draining' = {} /\ seq' = seq /\ expected' = 1 /\ strayed' = 0
    BY <1>4 DEF Lose, ReadingEnds, Cleared, Adrift, Forgotten
  <2> QED BY <2>1, GoneNumbered DEF Numbered
<1>5. CASE Notice
  <2>1. link = "lost" /\ link' = "down" /\ UNCHANGED <<seq, draining, expected, strayed>>
    BY <1>5 DEF Notice, Cleared
  <2> QED BY <2>1, GoneNumbered DEF Numbered
<1>6. CASE Close
  BY <1>6, CloseNumbered
<1> QED BY <1>1, <1>2, <1>3, <1>4, <1>5, <1>6 DEF SessionMoves, SessionStep

LEMMA ResumeNumbered == Numbered /\ ResumeWriting => Numbered'
<1> SUFFICES ASSUME Numbered, ResumeWriting PROVE Numbered'
  OBVIOUS
<1>1. /\ Cardinality(draining) \in Nat /\ IsFiniteSet({}) /\ Cardinality({}) = 0
      /\ draining = {} \/ link = "open"
  BY FS_CardinalityType, FS_EmptySet DEF Numbered
<1>2. seq' = seq + Cardinality(draining) /\ draining' = {} /\ paused' = FALSE
  BY DEF ResumeWriting
<1>3. CASE Logout \in draining
  <2>1. link' = "lost" /\ expected' = 1 /\ strayed' = 0
    BY <1>3 DEF ResumeWriting, Forgotten
  <2>2. seq' \in Nat
    BY <1>1, <1>2 DEF Numbered
  <2> QED BY <1>2, <2>1, <2>2, GoneNumbered
<1>4. CASE Logout \notin draining
  <2>1. UNCHANGED <<link, closing, expected, orderly, shared, strayed>>
    BY <1>4 DEF ResumeWriting
  <2> QED BY <1>1, <1>2, <2>1 DEF Numbered
<1> QED BY <1>3, <1>4

LEMMA WakeNumbered ==
  ASSUME Numbered, NEW x, NEW returns \in BOOLEAN, Wake(x, returns)
  PROVE  Numbered'
<1>1. /\ seq' = IF returns THEN seq + 1 ELSE seq
      /\ strayed' = IF returns /\ link = "open" THEN strayed + 1 ELSE strayed
      /\ UNCHANGED <<link, draining, paused, expected, orderly, shared>>
      /\ stopping => stopping'
  BY DEF Wake, stopping
<1>2. Cardinality(draining) \in Nat
  BY FS_CardinalityType DEF Numbered
<1> QED BY <1>1, <1>2 DEF Numbered

LEMMA NextNumbered == Inv /\ Numbered /\ [Next]_vars => Numbered'
<1> SUFFICES ASSUME Inv, Numbered, [Next]_vars PROVE Numbered'
  OBVIOUS
<1>1. ASSUME UNCHANGED session PROVE Numbered'
  BY <1>1 DEF Numbered, session, stopping
<1>2. CASE UNCHANGED vars
  BY <1>1, <1>2 DEF vars
<1>3. CASE SessionMoves
  BY <1>3, SessionNumbered
<1>4. CASE Released
  BY <1>4, ResumeNumbered DEF Released
<1>5. CASE \E x \in straying : Woken(x)
  BY <1>5, WakeNumbered DEF Woken
<1>6. CASE Closed
  BY <1>1, <1>6 DEF Closed
<1>7. ASSUME NEW b \in Bundle, Buy(b) \/ BundleReturns(b) PROVE Numbered'
  BY <1>1, <1>7 DEF Buy, BundleReturns
<1>8. ASSUME NEW b \in Bundle, Submit(b) PROVE Numbered'
  <2>1. CASE connected
    <3>1. Send(Orders(b)) /\ UNCHANGED <<link, paused, closing>>
      BY <1>8, <2>1 DEF Submit
    <3>2. \A o \in Orders(b) : o \in Order /\ order[o].at = "new"
      BY <1>8, OrderNames DEF Submit, Inv, BundlesTrue, BundleTrue
    <3>3. Orders(b) \cap draining = {} /\ Logout \notin Orders(b)
      BY <3>2, OwnSenders DEF Inv, SendersTrue
    <3> QED BY <3>1, <3>3, SendNumbered, OrdersFinite DEF stopping
  <2>2. CASE ~connected
    BY <1>1, <1>8, <2>2 DEF Submit
  <2> QED BY <2>1, <2>2
<1>9. CASE \E o \in Order : OrderStep(o)
  BY <1>1, <1>9 DEF OrderStep, Timeout, Decide, Report
<1> QED BY <1>2, <1>3, <1>4, <1>5, <1>6, <1>7, <1>8, <1>9 DEF Next

(***************************************************************************)
(* On every connection, once the senders that drain() holds back have      *)
(* counted, the client's next number is the one the exchange waits for,    *)
(* but for senders of an earlier connection that counted on this one; and  *)
(* the exchange has read every number in order unless one of those did or  *)
(* senders shared a number (_send), for orders of any number of bundles.   *)
(***************************************************************************)
THEOREM NumbersInOrder == Spec => []SequenceHolds
<1>1. Init => Numbered
  BY FS_EmptySet DEF Init, SessionInit, Numbered
<1>2. Numbered => SequenceHolds
  BY DEF Numbered, SequenceHolds
<1> QED BY <1>1, <1>2, NextNumbered, OrdersInvariant, PTL DEF Spec
=============================================================================
