------------------------------- MODULE MCFeeds -------------------------------
(* The feeds for TLC.  Their parts share nothing, so each behaviour is one *)
(* of one of them, while the others rest.                                  *)
EXTENDS Feeds, TLC

CONSTANTS a, c, k, s0, s1, i, j

VARIABLE part

FeedsInit ==
  /\ part \in {"polymarket", "kalshi", "book", "snapshot", "bridge"}
  /\ Polymarket!Init /\ Kalshi!Init /\ Init /\ Snapshot!Init /\ Bridge!Init
  /\ part # "polymarket" => backend = "rust"
  /\ part # "kalshi" => kalshiDesired = {}
  /\ part # "snapshot" => client = "rust"
  /\ part # "bridge" => skew = 0

FeedsNext ==
  /\ UNCHANGED part
  /\ \/ /\ part = "polymarket" /\ Polymarket!Next
        /\ UNCHANGED <<kalshiVars, vars, snapshotVars, bridgeVars>>
     \/ /\ part = "kalshi" /\ Kalshi!Next
        /\ UNCHANGED <<polymarketVars, vars, snapshotVars, bridgeVars>>
     \/ /\ part = "book" /\ Next
        /\ UNCHANGED <<polymarketVars, kalshiVars, snapshotVars, bridgeVars>>
     \/ /\ part = "snapshot" /\ Snapshot!Next
        /\ UNCHANGED <<polymarketVars, kalshiVars, vars, bridgeVars>>
     \/ /\ part = "bridge" /\ Bridge!Next
        /\ UNCHANGED <<polymarketVars, kalshiVars, vars, snapshotVars>>

FeedsSpec ==
  FeedsInit /\ [][FeedsNext]_<<part, polymarketVars, kalshiVars, vars, snapshotVars, bridgeVars>>

MCSkew == {-2, -1, 0, 1}

SlotsAlike == Permutations({s0, s1})
=============================================================================
