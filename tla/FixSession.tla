------------------------------ MODULE FixSession ------------------------------
(***************************************************************************)
(* The FIX session under both Kalshi clients: src/kalshi/fix_order_entry.py *)
(* and src/kalshi/fix_client.py keep the same connection loop, sender and   *)
(* heartbeat loop.  They differ in when they call themselves connected:    *)
(* order entry when the exchange answers the logon, market data as soon as *)
(* the logon has been sent.                                                *)
(*                                                                         *)
(* A message is its sender and its MsgSeqNum; what it carries belongs to   *)
(* the modules that extend this one.                                       *)
(***************************************************************************)
EXTENDS Naturals, FiniteSets

CONSTANTS
  AwaitsLogon,  \* order entry; FALSE for market data
  MaxDrops,     \* bound: connections lost or logged out
  MaxPauses,    \* bound: times the write buffer is full
  MaxBeats      \* bound: heartbeats and test requests

VARIABLES
  link,       \* "down", "open", or "lost" and _run has not noticed yet
  connected,  \* self.connected
  closing,    \* close(): not called, awaiting its logout, past it, or ended by an exception
  seq,        \* self._seq
  draining,   \* senders that await drain() of the open connection
  straying,   \* senders that await drain() of a connection that is gone
  hb,         \* the heartbeat task
  paused,     \* the transport holds writers back
  expected,   \* the exchange: the number it waits for
  orderly,    \* the exchange: so far every number was the expected one
  shared,     \* history: a message was written while another sender was held back
  strayed,    \* history: senders of a connection that is gone that counted on this one
  bound       \* what is left of the bounds

session == <<link, connected, closing, seq, draining, straying, hb, paused,
             expected, orderly, shared, strayed, bound>>

SessionInit ==
  /\ link = "down" /\ connected = FALSE /\ closing = "no"
  /\ seq = 1 /\ draining = {} /\ straying = {}
  /\ hb = "none" /\ paused = FALSE /\ expected = 1 /\ orderly = TRUE
  /\ shared = FALSE /\ strayed = 0
  /\ bound = [drops |-> MaxDrops, pauses |-> MaxPauses, beats |-> MaxBeats]

SessionTypeOK ==
  /\ link \in {"down", "open", "lost"} /\ closing \in {"no", "logout", "hung up", "raised"}
  /\ {seq, expected, strayed} \subseteq Nat
  /\ hb \in {"none", "starting", "sleeping", "ended"}
  /\ {connected, paused, orderly, shared} \subseteq BOOLEAN
  /\ bound \in [{"drops", "pauses", "beats"} -> Nat]

\* self._stop_requested
stopping == closing # "no"

\* The senders of the session's own messages, one of each at a time.
Beat == <<"session", 1>>
TestAnswer == <<"session", 2>>
Logout == <<"session", 3>>

Spend(b) == bound[b] > 0 /\ bound' = [bound EXCEPT ![b] = @ - 1]

(***************************************************************************)
(* Senders X write one message each, in one turn of the event loop.  The   *)
(* number is read when the message is built and counted after the drain,   *)
(* so senders that are held back share it.  On a lost connection nothing   *)
(* is written, yet counted.                                                *)
(***************************************************************************)
Send(X) ==
  /\ seq' = IF link = "open" /\ paused THEN seq ELSE seq + Cardinality(X)
  /\ IF link = "open"
     THEN /\ draining' = IF paused THEN draining \cup X ELSE draining
          /\ shared' = (shared \/ (paused /\ X # {} /\ Cardinality(draining \cup X) > 1))
          /\ expected' = expected + Cardinality(X)
          /\ orderly' = (orderly /\ (X # {} => seq = expected)
                                 /\ (paused => Cardinality(X) <= 1))
     ELSE UNCHANGED <<draining, shared, expected, orderly>>
  /\ UNCHANGED <<straying, strayed>>

\* Mutant: the numbers go on where the lost connection left them.
OpenKeepsSeq(beat) ==
  /\ link = "down" /\ ~stopping
  /\ link' = "open" /\ connected' = ~AwaitsLogon
  /\ seq' = seq + 1 /\ expected' = 2 /\ orderly' = (seq = 1) /\ shared' = FALSE /\ strayed' = 0
  /\ hb' = beat
  /\ UNCHANGED <<closing, draining, straying, paused, bound>>

\* _run dials, numbers start again and the logon takes the first.
Open(beat) ==
  /\ link = "down" /\ ~stopping
  /\ link' = "open" /\ connected' = ~AwaitsLogon
  /\ seq' = 2 /\ expected' = 2 /\ orderly' = TRUE /\ shared' = FALSE /\ strayed' = 0
  /\ hb' = beat
  /\ UNCHANGED <<closing, draining, straying, paused, bound>>

\* The task that was created before the read loop runs before any answer is read.
HeartbeatStarts ==
  /\ hb = "starting"
  /\ hb' = IF connected THEN "sleeping" ELSE "ended"
  /\ UNCHANGED <<link, connected, closing, seq, draining, straying, paused,
                 expected, orderly, shared, strayed, bound>>

Heartbeat ==
  /\ hb = "sleeping" /\ connected /\ Beat \notin draining \cup straying
  /\ Spend("beats") /\ Send({Beat})
  /\ UNCHANGED <<link, connected, closing, hb, paused>>

\* The exchange asks; a task of its own answers.
TestRequest ==
  /\ link = "open" /\ TestAnswer \notin draining \cup straying
  /\ Spend("beats") /\ Send({TestAnswer})
  /\ UNCHANGED <<link, connected, closing, hb, paused>>

LogonAnswer ==
  /\ AwaitsLogon /\ link = "open" /\ ~connected /\ hb # "starting"
  /\ connected' = TRUE
  /\ UNCHANGED <<link, closing, seq, draining, straying, hb, paused,
                 expected, orderly, shared, strayed, bound>>

PauseWriting ==
  /\ link = "open" /\ ~paused /\ Spend("pauses")
  /\ paused' = TRUE
  /\ UNCHANGED <<link, connected, closing, seq, draining, straying, hb,
                 expected, orderly, shared, strayed>>

\* The exchange expects nothing more on the connection.
Forgotten == expected' = 1 /\ orderly' = TRUE /\ shared' = FALSE /\ strayed' = 0

\* Every sender that was held back wakes and counts its message; close() hangs up.
ResumeWriting ==
  /\ paused
  /\ seq' = seq + Cardinality(draining) /\ draining' = {} /\ paused' = FALSE
  /\ IF Logout \in draining THEN link' = "lost" /\ closing' = "hung up" /\ Forgotten
     ELSE UNCHANGED <<link, closing, expected, orderly, shared, strayed>>
  /\ UNCHANGED <<connected, straying, hb, bound>>

\* The connection is gone; whoever awaits its drain() goes on awaiting it.
Adrift(senders) ==
  /\ straying' = straying \cup senders /\ draining' = {} /\ paused' = FALSE /\ Forgotten

Lose ==
  /\ link = "open" /\ Spend("drops")
  /\ link' = "lost" /\ Adrift(draining)
  /\ UNCHANGED <<connected, closing, seq, hb>>

\* _run's handlers clear the session and cancel the heartbeat, awaiting drain() or not.
Cleared == link' = "down" /\ connected' = FALSE /\ hb' = "ended"

\* The read loop finds the connection lost.
Notice ==
  /\ link = "lost" /\ Cleared
  /\ straying' = straying \ {Beat}
  /\ UNCHANGED <<closing, seq, draining, paused, expected, orderly, shared, strayed, bound>>

(***************************************************************************)
(* The read loop ends by itself, when the exchange logs the session out or *)
(* at the first message after close() was called.  Nobody closes the       *)
(* transport.                                                              *)
(***************************************************************************)
ReadingEnds ==
  /\ link = "open" /\ hb # "none" /\ (AwaitsLogon => hb # "starting")
  /\ IF stopping THEN UNCHANGED bound ELSE Spend("drops")
  /\ Cleared /\ Adrift(draining \ {Beat})
  /\ UNCHANGED <<closing, seq>>

(***************************************************************************)
(* drain() of a connection that is gone returns, and the message is        *)
(* counted on whatever connection there is by then, or raises.  close()    *)
(* then finds a writer to close, or none and raises.                       *)
(***************************************************************************)
Wake(x, returns) ==
  /\ x \in straying /\ straying' = straying \ {x}
  /\ seq' = IF returns THEN seq + 1 ELSE seq
  /\ strayed' = IF returns /\ link = "open" THEN strayed + 1 ELSE strayed
  /\ hb' = IF x = Beat /\ ~returns THEN "ended" ELSE hb
  /\ IF x = Logout THEN closing' \in {"hung up", "raised"} ELSE UNCHANGED closing
  /\ UNCHANGED <<link, connected, draining, paused, expected, orderly, shared, bound>>

\* close(): no more dialing; the logout goes out, to whatever writer is left,
\* and once it is drained the transport is closed.
Close ==
  /\ ~stopping
  /\ \/ /\ link = "open" /\ paused /\ Send({Logout})
        /\ closing' = "logout" /\ UNCHANGED link
     \/ /\ link = "open" /\ ~paused /\ seq' = seq + 1 /\ Forgotten
        /\ closing' = "hung up" /\ link' = "lost" /\ UNCHANGED <<draining, straying>>
     \/ /\ link # "open" /\ closing' = "hung up"
        /\ UNCHANGED <<link, seq, draining, straying, expected, orderly, shared, strayed>>
     \/ /\ link # "open" /\ straying # {} /\ closing' = "logout"
        /\ straying' = straying \cup {Logout}
        /\ UNCHANGED <<link, seq, draining, expected, orderly, shared, strayed>>
  /\ UNCHANGED <<connected, hb, paused, bound>>

SessionStep ==
  HeartbeatStarts \/ Heartbeat \/ TestRequest \/ LogonAnswer \/ PauseWriting

(***************************************************************************)
(* Whatever senders overlap (orders of several bundles, heartbeats,        *)
(* answers to test requests, subscriptions, the logout), on every          *)
(* connection the client's number is the one the exchange waits for, once  *)
(* the senders that drain() holds back have counted, and but for senders   *)
(* of an earlier connection that counted on this one.  The exchange reads  *)
(* 1, 2, 3 ... unless one of those did, or a message was written while     *)
(* another sender was held back between reading the number and counting it *)
(* (_send).                                                                *)
(***************************************************************************)
SequenceHolds ==
  link = "open" =>
    /\ seq + Cardinality(draining) = expected + strayed
    /\ ~shared /\ strayed = 0 => orderly

\* A connection whose session is up has a heartbeat loop ("Maintains a
\* persistent FIX session", fix_order_entry.py; fix_client.py).
\* Does not hold: README.md, section 6.
HeartbeatAlive == link = "open" /\ connected /\ hb # "none" => hb # "ended"
=============================================================================
