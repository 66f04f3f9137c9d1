------------------------ MODULE MCPredictionMarket ------------------------
(***************************************************************************)
(* Model-checking instance of PredictionMarket, and what the repository's   *)
(* documentation says of winners.                                           *)
(***************************************************************************)
EXTENDS PredictionMarket, TLC

MCSymmetry ==
  Permutations(Markets) \cup Permutations(Positions)
    \cup Permutations(Traders) \cup Permutations(FeeConfigs)

\* "Winner -> redeem_position(shares)": every position on the winning side of
\* a resolved market can be redeemed there (none of its transactions aborts).
WinnersRedeemable ==
  \A m \in Markets \ mispresented : \A p \in Held :
    (/\ status[m] = "RESOLVED"
     /\ position[p].market = m
     /\ position[p].side = outcome[m])
      => GrossPayout(m, p) <= pool[m][outcome[m]]

=============================================================================
