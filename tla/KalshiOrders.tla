----------------------------- MODULE KalshiOrders -----------------------------
(***************************************************************************)
(* Live orders on Kalshi: KalshiLiveTrader.buy_bundle_fok                  *)
(* (src/kalshi/live_trader.py) over the order-entry client of              *)
(* src/kalshi/fix_order_entry.py.  Background entries place their bundles  *)
(* at the same time; the legs of a bundle are separate fill-or-kill orders *)
(* whose answers come back over one FIX session, or do not.                *)
(***************************************************************************)
EXTENDS FixSession, Sequences

CONSTANTS
  Bundle,     \* calls of buy_bundle_fok, each of the same notional, the unit of spend
  LegsOf,     \* the legs of each bundle
  MaxSession, \* max_session_spend
  MaxOrders   \* bound: orders of the bundles that are called

ASSUME BundlesFinite ==
  /\ IsFiniteSet(Bundle) /\ "session" \notin Bundle /\ MaxSession \in Nat
  /\ \A b \in Bundle : IsFiniteSet(LegsOf[b]) /\ LegsOf[b] # {}

Orders(b) == {b} \X LegsOf[b]
Order == UNION {Orders(b) : b \in Bundle}

VARIABLES
  bundle,  \* how far each call is
  order,   \* submit_fok_order: where it is, what its future and it itself say
  market,  \* the exchange: what became of an order
  report,  \* execution reports on their way on the present session
  spend,   \* session_requested_spend
  beside   \* history: the most that was under way beside a bundle that was let in

vars == <<session, bundle, order, market, report, spend, beside>>

Answer == {"filled", "killed", "closed"}
Outcome == Answer \cup {"timeout", "raised", "refused"}

TypeOK ==
  /\ SessionTypeOK /\ draining \cup straying \subseteq Order \cup {Beat, TestAnswer, Logout}
  /\ bundle \in [Bundle -> {"idle", "starting", "posting", "success", "failed", "raised", "refused"}]
  /\ order \in [Order -> [at : {"new", "draining", "waiting", "ended"},
                          fut : {"open"} \cup Answer, result : {"none"} \cup Outcome]]
  /\ market \in [Order -> {"none", "held", "orphan", "filled", "killed"}]
  /\ spend \in Nat /\ beside \in Nat

Init ==
  /\ SessionInit
  /\ bundle = [b \in Bundle |-> "idle"]
  /\ order = [o \in Order |-> [at |-> "new", fut |-> "open", result |-> "none"]]
  /\ market = [o \in Order |-> "none"] /\ report = [o \in Order |-> <<>>]
  /\ spend = 0 /\ beside = 0

Ended(o, result) == [order[o] EXCEPT !.at = "ended", !.result = result]

-----------------------------------------------------------------------------
(* buy_bundle_fok.                                                         *)

\* The notional of the bundles that were let in and have not returned.
UnderWay == Cardinality({b \in Bundle : bundle[b] \in {"starting", "posting"}})

Called == {o \in Order : bundle[o[1]] # "idle"}

Enters(b) ==
  /\ bundle' = [bundle EXCEPT ![b] = "starting"]
  /\ beside' = IF UnderWay > beside THEN UnderWay ELSE beside

\* Mutant: the bundle itself is not counted against the cap.
BuyUpToTheCap(b) ==
  /\ bundle[b] = "idle" /\ Cardinality(Called \cup Orders(b)) <= MaxOrders
  /\ IF spend > MaxSession \/ ~connected
     THEN bundle' = [bundle EXCEPT ![b] = "refused"] /\ UNCHANGED beside
     ELSE Enters(b)
  /\ UNCHANGED <<session, order, market, report, spend>>

\* The cap is compared before anything is awaited, and the session has to stand.
Buy(b) ==
  /\ bundle[b] = "idle" /\ Cardinality(Called \cup Orders(b)) <= MaxOrders
  /\ IF spend + 1 > MaxSession \/ ~connected
     THEN bundle' = [bundle EXCEPT ![b] = "refused"] /\ UNCHANGED beside
     ELSE Enters(b)
  /\ UNCHANGED <<session, order, market, report, spend>>

\* gather() runs every leg up to its first real wait; a leg checks the session again.
Submit(b) ==
  /\ bundle[b] = "starting"
  /\ bundle' = [bundle EXCEPT ![b] = "posting"]
  /\ IF connected
     THEN /\ Send(Orders(b))
          /\ order' = [o \in Order |-> IF o \notin Orders(b) THEN order[o]
                         ELSE [order[o] EXCEPT !.at = IF link = "open" /\ paused
                                                      THEN "draining" ELSE "waiting"]]
          /\ market' = [o \in Order |-> IF o \in Orders(b) /\ link = "open" THEN "held"
                                        ELSE market[o]]
     ELSE /\ order' = [o \in Order |-> IF o \in Orders(b) THEN Ended(o, "refused") ELSE order[o]]
          /\ UNCHANGED <<session, market>>
  /\ UNCHANGED <<report, spend, beside>>
  /\ UNCHANGED <<link, connected, closing, hb, paused, bound>>

\* The future is resolved.  Its order returns, or when it has been sent.
Resolved(o, answer) ==
  IF order[o].at = "waiting" THEN Ended(o, answer) ELSE [order[o] EXCEPT !.fut = answer]

\* wait_for gives up; the order is no longer pending.
Timeout(o) ==
  /\ order[o].at = "waiting"
  /\ order' = [order EXCEPT ![o] = Ended(o, "timeout")]
  /\ UNCHANGED <<session, bundle, market, report, spend, beside>>

\* Mutant: the spend is counted when the bundle has been sent, whatever the answers.
BundleReturnsCounted(b) ==
  /\ bundle[b] = "posting" /\ \A o \in Orders(b) : order[o].at = "ended"
  /\ bundle' = [bundle EXCEPT ![b] =
                  IF \A o \in Orders(b) : order[o].result = "filled" THEN "success" ELSE "failed"]
  /\ spend' = spend + 1
  /\ UNCHANGED <<session, order, market, report, beside>>

\* Mutant: the call returns only when every leg is filled.
BundleReturnsFilled(b) ==
  /\ bundle[b] = "posting" /\ \A o \in Orders(b) : order[o].result = "filled"
  /\ bundle' = [bundle EXCEPT ![b] = "success"] /\ spend' = spend + 1
  /\ UNCHANGED <<session, order, market, report, beside>>

\* Every leg has answered, or the first one has raised while others go on.
BundleReturns(b) ==
  /\ bundle[b] = "posting"
  /\ LET raised == \E o \in Orders(b) : order[o].result = "raised"
         filled == \A o \in Orders(b) : order[o].result = "filled"
     IN /\ raised \/ \A o \in Orders(b) : order[o].at = "ended"
        /\ bundle' = [bundle EXCEPT ![b] =
                        IF raised THEN "raised" ELSE IF filled THEN "success" ELSE "failed"]
        /\ spend' = IF filled THEN spend + 1 ELSE spend
  /\ UNCHANGED <<session, order, market, report, beside>>

-----------------------------------------------------------------------------
(* The exchange (external) and its reports.                                *)

Decide(o) ==
  /\ market[o] \in {"held", "orphan"}
  /\ \E told \in {<<"partial", "filled">>, <<"new", "killed">>} :
       /\ market' = [market EXCEPT ![o] = told[Len(told)]]
       /\ report' = [report EXCEPT ![o] = IF market[o] = "held" THEN told ELSE <<>>]
  /\ UNCHANGED <<session, bundle, order, spend, beside>>

Pending(o) == order[o].at \in {"draining", "waiting"} /\ order[o].fut = "open"

\* Mutant: an acknowledgement counts as a fill.
SaysNew(status) == IF status \in {"partial", "new"} THEN "filled" ELSE status

\* A partial execution of a fill-or-kill order counts as its fill; an
\* acknowledgement is not an answer.
Says(status) == IF status = "partial" THEN "filled" ELSE IF status = "new" THEN "open" ELSE status

\* A report whose order is not pending any more, or answered, is dropped.
Report(o) ==
  /\ link = "open" /\ report[o] # <<>>
  /\ report' = [report EXCEPT ![o] = Tail(@)]
  /\ order' = IF Pending(o) /\ Says(Head(report[o])) # "open"
              THEN [order EXCEPT ![o] = Resolved(o, Says(Head(report[o])))] ELSE order
  /\ UNCHANGED <<session, bundle, market, spend, beside>>

-----------------------------------------------------------------------------
(* The session's steps, with what they do to the orders that await it.     *)

\* submit_fok_order goes on when its message has been drained.
Sent(o) ==
  IF order[o].fut = "open" THEN [order[o] EXCEPT !.at = "waiting"] ELSE Ended(o, order[o].fut)

\* What was on the wire is gone when the connection is; the exchange keeps the
\* orders it has.
Gone ==
  /\ market' = [o \in Order |-> IF market[o] = "held" THEN "orphan" ELSE market[o]]
  /\ report' = [o \in Order |-> <<>>]

SessionMoves ==
  /\ SessionStep \/ Open("starting") \/ Lose \/ Notice \/ ReadingEnds \/ Close
  /\ IF link = "open" /\ link' # "open" THEN Gone ELSE UNCHANGED <<market, report>>
  /\ UNCHANGED <<bundle, order, spend, beside>>

Released ==
  /\ ResumeWriting
  /\ order' = [o \in Order |-> IF o \in draining THEN Sent(o) ELSE order[o]]
  /\ IF link' # link THEN Gone ELSE UNCHANGED <<market, report>>
  /\ UNCHANGED <<bundle, spend, beside>>

\* A sender that awaited a connection that is gone: its order goes on, or has raised.
Woken(x) ==
  /\ \E returns \in BOOLEAN :
       /\ Wake(x, returns)
       /\ order' = [o \in Order |-> IF o # x THEN order[o]
                                    ELSE IF returns THEN Sent(o) ELSE Ended(o, "raised")]
  /\ UNCHANGED <<bundle, market, report, spend, beside>>

\* close() has waited for the runner: the orders still pending are told so.
Closed ==
  /\ closing = "hung up" /\ link = "down" /\ \E o \in Order : Pending(o)
  /\ order' = [o \in Order |-> IF Pending(o) THEN Resolved(o, "closed") ELSE order[o]]
  /\ UNCHANGED <<session, bundle, market, report, spend, beside>>

OrderStep(o) == Timeout(o) \/ Decide(o) \/ Report(o)

Next ==
  \/ SessionMoves \/ Released \/ (\E x \in straying : Woken(x)) \/ Closed
  \/ \E b \in Bundle : Buy(b) \/ Submit(b) \/ BundleReturns(b)
  \/ \E o \in Order : OrderStep(o)

Spec == Init /\ [][Next]_vars

(***************************************************************************)
(* The event loop runs what is ready, clocks go on, and a connection that  *)
(* holds writers back takes their bytes in the end or is lost (TCP), the   *)
(* one that is gone too.                                                   *)
(***************************************************************************)
Fairness ==
  /\ WF_vars(Released) /\ WF_vars(\E x \in straying : Woken(x))
  /\ \A b \in Bundle : WF_vars(Submit(b)) /\ WF_vars(BundleReturns(b))
  /\ \A o \in Order : WF_vars(Timeout(o))

FairSpec == Spec /\ Fairness

-----------------------------------------------------------------------------
(* Properties.                                                             *)

(***************************************************************************)
(* What submit_fok_order says of an order is what the exchange did with    *)
(* it, although reports of several orders share a session, sessions end    *)
(* under them and answers come late: a fill or a kill that is reported is  *)
(* real, and an order that was refused never reached the exchange.         *)
(***************************************************************************)
AnswersTrue ==
  \A o \in Order :
    /\ order[o].result \in {"filled", "killed"} => market[o] = order[o].result
    /\ order[o].result = "refused" => market[o] = "none"

(***************************************************************************)
(* The session's spend is that of the bundles that answered                *)
(* success, each filled in full.  A bundle that is filled in full and not  *)
(* counted has lost an answer to a timeout, a lost session or close().     *)
(***************************************************************************)
CountedIsFilled ==
  LET counted == {b \in Bundle : bundle[b] = "success"}
  IN /\ spend = Cardinality(counted)
     /\ \A b \in Bundle : (\A o \in Orders(b) : market[o] = "filled") =>
          \/ bundle[b] \in {"posting", "success"}
          \/ \E o \in Orders(b) : order[o].result \in {"timeout", "raised", "closed"}
     /\ \A b \in counted : \A o \in Orders(b) : market[o] = "filled"

(***************************************************************************)
(* The cap is compared with what has been counted, while other bundles are *)
(* under way (buy_bundle_fok).  So what is counted and under way exceeds   *)
(* the cap at most by what was under way beside a bundle that was let in:  *)
(* bundles one after the other stay within it.                             *)
(***************************************************************************)
CapOverrun == spend + UnderWay <= MaxSession + beside

\* A bundle that has been posted comes to an end, whatever happens to the
\* session: no leg waits for a report that was lost with it.
BundleEnds == \A b \in Bundle : bundle[b] = "posting" ~> bundle[b] \notin {"starting", "posting"}
=============================================================================
