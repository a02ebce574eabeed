---------------------------- MODULE MCRiskScorer ----------------------------
(* Scores in units of ten points: the defaults of NewRiskScorer are 10, 8  *)
(* and 5, two hits to fill the bucket and, to let it leak within the bound *)
(* on time, five seconds to empty it.                                      *)
EXTENDS RiskScorer, TLC

Attack(u) == [supi |-> u, attack |-> TRUE]
Calm(u) == [supi |-> u, attack |-> FALSE]

\* One UE alone, or twice in a batch (two sessions of one SUPI).
OneUE == UNION {{<<Attack(u)>>, <<Calm(u)>>, <<Attack(u), Attack(u)>>} : u \in UEs}

\* Without a block threshold and with an unblock threshold above the default;
\* and with a block threshold below the default unblock threshold, which is
\* put above it.
TwoFiles == {[block |-> 0, unblock |-> 9], [block |-> 4, unblock |-> 0]}

WorkersAreAlike == Permutations(Workers)
=============================================================================
