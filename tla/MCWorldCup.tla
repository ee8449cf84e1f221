----------------------------- MODULE MCWorldCup -----------------------------
(* The bundles the program believes riskless: two games with a team in     *)
(* common, one of them with an event for its first half, and lists of      *)
(* markets for each builder of relations; and the N-leg specs of the       *)
(* watchlist.  A behaviour is one of the engine or of the derivation of    *)
(* specs, which share nothing, while the other rests.                      *)
EXTENDS RisklessBundles

CONSTANTS home, away, guest, none

VARIABLE part

MCInit ==
    /\ part \in {"engine", "chains"}
    /\ Init /\ Chains!Init
    /\ part # "engine" => mode = "paper" /\ enabled = {}

MCNext ==
    \/ part = "engine" /\ Next /\ UNCHANGED <<part, chainVars>>
    \/ part = "chains" /\ Chains!Next /\ UNCHANGED <<part, vars>>

MCSpec == MCInit /\ [][MCNext]_<<part, vars, chainVars>>

MCSlug == <<"later", "match", "match-half">>
MCHalf == {"match-half"}
MCGameOf == [e \in {"later", "match", "match-half"} |-> IF e = "later" THEN 2 ELSE 1]
MCTeamsOf == <<<<home, away>>, <<home, guest>>>>

On(event, says, number, team) == [event |-> event, says |-> says, number |-> number, team |-> team]

Win(event, team) == On(event, "win", 0, team)
Draw == On("match", "draw", 0, none)
Over(event, n) == On(event, "over", n, none)
Under(event, n) == On(event, "under", n, none)
Exactly(n) == On("match", "exactly", n, none)
Plus(n) == On("match", "plus", n, none)
Covers(n) == On("match", "covers", n, home)
Score(event, score) == On(event, "score", score, none)
Both == On("match", "both", 0, none)

MCGames ==
    {<<Win("match", home), Draw, Win("match", away)>>,
     <<Win("match", home), Draw, Win("match-half", away)>>,
     <<Win("match", home), Win("match", away)>>,
     <<Over("match", 2), Over("match", 0), Over("match", 1)>>,
     <<Under("match", 1), Over("match-half", 0), Under("match", 2)>>,
     <<Over("match-half", 1), Over("match", 2), Under("match", 2)>>,
     <<Plus(3), Plus(1), Covers(0), Covers(1)>>,
     <<Exactly(1), Over("match", 1), Exactly(2), Plus(3)>>,
     <<Over("match", 1), Over("match-half", 0), Under("match", 2), Score("match", <<1, 1>>)>>,
     <<Both, Score("match", <<1, 1>>)>>,
     <<Both, Score("match-half", <<0, 0>>)>>,
     <<Over("later", 0), Under("later", 0), Over("match", 1), Over("match", 2)>>}

\* Exact counts up to two and "three or more" beside Over 1.5.
BinGames == {<<Over("match", 1), Exactly(0), Exactly(1), Exactly(2), Plus(3)>>}
=============================================================================
