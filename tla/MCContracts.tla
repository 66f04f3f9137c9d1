---------------------------- MODULE MCContracts ----------------------------
(***************************************************************************)
(* The instance of the two contracts that hold money, which TLC explores   *)
(* one at a time: they are modules of one package, but no entry of one is  *)
(* given an object of the other, so that their interleavings would show    *)
(* nothing. A behaviour is one of the contract that it starts with, whose  *)
(* specification and properties are those of its module.                   *)
(***************************************************************************)
EXTENDS MCPredictionMarket, MCIncentives

VARIABLE contract

contracts == <<contract, vars, incentivesVars>>

\* The treasury of a fee configuration is open only if markets are explored.
ContractsInit ==
  /\ contract \in {"markets", "incentives"}
  /\ Init /\ IncentivesInit
  /\ contract # "markets" =>
       \A c, d \in FeeConfigs : treasury_address[c] = treasury_address[d]

ContractsNext ==
  /\ UNCHANGED contract
  /\ \/ contract = "markets" /\ Next /\ UNCHANGED incentivesVars
     \/ contract = "incentives" /\ IncentivesNext /\ UNCHANGED vars

ContractsSpec == ContractsInit /\ [][ContractsNext]_contracts

\* The balances and records of both contracts keep their types: no pool, wallet
\* or stake is negative, and no fee rate exceeds the cap.
ContractsTypeOK == TypeOK /\ IncentivesTypeOK

ContractsSymmetry == MCSymmetry \cup IncentivesSymmetry

=============================================================================
