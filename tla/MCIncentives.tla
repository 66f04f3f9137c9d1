---------------------------- MODULE MCIncentives ----------------------------
(***************************************************************************)
(* Model-checking instance of Incentives, and what the package's README    *)
(* says of slashing.                                                       *)
(***************************************************************************)
EXTENDS Incentives, TLC

CONSTANTS admin, agent, slashTreasury, s1, s2

\* AgentStake ids are alike.
IncentivesSymmetry == Permutations(StakeIds)

\* README.md of the package calls AgentStake shared and the event of a slash
\* "Byzantine agent penalized": every stake can be slashed by every holder of a
\* cap (as long as the run counts its slashes). The code does not keep that:
\* stake transfers the object to the agent, whose transactions alone can be
\* given it, so that a stake is slashed only if its agent holds a cap and asks.
PenaltyReachesAll ==
  \A a \in caps, s \in Live :
    agentStake[s].slash_count < MaxSlashes =>
      ENABLED (\E amount \in SlashAmounts, r \in Agents : SlashAgent(a, s, amount, r))

=============================================================================
