------------------------- MODULE MCAggregatorRounds -------------------------
(* The small instances of AggregatorRounds that TLC explores.               *)
EXTENDS AggregatorRounds, TLC

CONSTANTS r1, r2, a, b, c, d, e, h1, h2

\* The holders of registered keys, the rounds and the handlers are alike. Not
\* used for the liveness run.
MCSymmetry == Permutations(Rounds) \cup Permutations(Handlers) \cup Permutations(Voters)

=============================================================================
