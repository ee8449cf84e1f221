----------------------------- MODULE MCDirtyScan -----------------------------
(* The scan for TLC: the dirty set, with two pairs that share a token, and *)
(* the sizing of what it finds, the third leg on a book of one level.      *)
(* Each behaviour is one of one of them, while the other rests.            *)
EXTENDS DirtyScan, Sizing, TLC

CONSTANTS a, b, c, p1, p2

MCLegs == (p1 :> {a, b}) @@ (p2 :> {b, c})

VARIABLE part

ScanInit ==
  /\ part \in {"scan", "sizing"} /\ Init /\ SizingInit
  /\ part = "scan" => limit = 5 /\ \A l \in Leg : asks[l] = <<>>
  /\ part = "sizing" => left = MaxEvents /\ Cardinality(DOMAIN asks[3]) < 2

ScanNext ==
  \/ part = "scan" /\ Next /\ UNCHANGED <<part, sizingVars>>
  \/ part = "sizing" /\ SizingNext /\ UNCHANGED <<part, vars>>

ScanSpec == ScanInit /\ [][ScanNext]_<<part, vars, sizingVars>>

\* The instance is the same seen from either pair.
Mirror == {(a :> c) @@ (c :> a) @@ (p1 :> p2) @@ (p2 :> p1)}
=============================================================================
