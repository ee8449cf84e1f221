---------------------------- MODULE SignalBridge ----------------------------
(***************************************************************************)
(* The UDP bridge of network/signal_bridge.py: a sender stamps and fires   *)
(* signals, the network loses, delays, duplicates and reorders them, and   *)
(* the receiver acts on the ones that its clock finds fresh and that it    *)
(* does not remember.  A datagram that does not verify or parse is         *)
(* dropped without a trace and is left out.                                *)
(***************************************************************************)
EXTENDS Integers

CONSTANTS
  Id,      \* signal ids
  MaxAge,  \* _MAX_AGE_NS: 5 s
  Keep,    \* how long an id is remembered: 10 s
  Skew,    \* bound: how far the receiver's clock may be ahead of the sender's
  MaxTime  \* bound: the clock

VARIABLES
  now,        \* the sender's wall clock
  skew,       \* the receiver's clock is ahead by this much
  sent,       \* the ids sent and their time stamps
  listening,  \* whether the receiver has its protocol
  seen,       \* _seen_ids: ids and when they were received
  dispatched  \* history: how often the protocol has acted on an id

vars == <<now, skew, sent, listening, seen, dispatched>>

Init ==
  /\ now = 0 /\ skew \in Skew
  /\ sent = <<>> /\ listening = FALSE
  /\ seen = <<>> /\ dispatched = [i \in Id |-> 0]

Distance(a, b) == IF a > b THEN a - b ELSE b - a

\* A function with one more argument, or another value for it.
With(f, x, y) == [z \in DOMAIN f \cup {x} |-> IF z = x THEN y ELSE f[z]]

\* send_opportunity and _pack
Send(i) ==
  /\ i \notin DOMAIN sent
  /\ sent' = With(sent, i, now)
  /\ UNCHANGED <<now, skew, listening, seen, dispatched>>

\* listen makes a protocol, which remembers nothing.
Listen ==
  /\ ~listening /\ listening' = TRUE
  /\ seen' = <<>> /\ dispatched' = [i \in Id |-> 0]
  /\ UNCHANGED <<now, skew, sent>>

\* stop closes the transport.
Stop ==
  /\ listening /\ listening' = FALSE
  /\ UNCHANGED <<now, skew, sent, seen, dispatched>>

\* _unpack: the distance of the clocks, whichever is ahead.
Fresh(i) == Distance(now + skew, sent[i]) <= MaxAge

\* Mutant: ids are remembered for as long as signals are fresh.
RememberedForMaxAge == {i \in DOMAIN seen : now - seen[i] < MaxAge}

Remembered == {i \in DOMAIN seen : now - seen[i] < Keep}

\* datagram_received, of a copy that took at least one tick: the id is looked
\* up before old ones are forgotten.
Receive(i) ==
  /\ listening /\ i \in DOMAIN sent /\ now > sent[i]
  /\ Fresh(i) /\ i \notin DOMAIN seen
  /\ seen' = [k \in Remembered \cup {i} |-> IF k = i THEN now ELSE seen[k]]
  /\ dispatched' = [dispatched EXCEPT ![i] = @ + 1]
  /\ UNCHANGED <<now, skew, sent, listening>>

Tick ==
  /\ now < MaxTime /\ now' = now + 1
  /\ UNCHANGED <<skew, sent, listening, seen, dispatched>>

Next == Tick \/ Listen \/ Stop \/ \E i \in Id : Send(i) \/ Receive(i)

Spec == Init /\ [][Next]_vars

-----------------------------------------------------------------------------
(***************************************************************************)
(* While it listens, the receiver acts on a signal at most once, however   *)
(* often and late the network delivers it: an id is forgotten only when no *)
(* copy of its datagram can be fresh any more (datagram_received, _unpack).*)
(* The age being a distance, a datagram stays fresh for up to twice MaxAge *)
(* when the receiver's clock is behind; a clock behind by more than MaxAge *)
(* is left out (it may forget an id in the very instant a copy of that age *)
(* comes).                                                                 *)
(***************************************************************************)
AtMostOnce == \A i \in Id : dispatched[i] <= 1
=============================================================================
