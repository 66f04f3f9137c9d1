----------------------------- MODULE Incentives -----------------------------
(***************************************************************************)
(* The Move package agents/onchain-registry/sources/incentives.move: agents*)
(* lock SUI in an AgentStake object, the holder of an IncentivesCap slashes*)
(* and rewards stakes and records reports, and an agent takes its stake    *)
(* back after a cooldown. A transaction is one atomic step; an assertion   *)
(* or an overflow aborts it, so an abort is an action that is not enabled. *)
(*                                                                         *)
(* AgentStake and IncentivesCap are owned objects: a transaction can only  *)
(* be given the ones its sender owns. ReputationRegistry and RiskParameters*)
(* are shared, and no entry checks which registry, parameters and cap      *)
(* belong together.                                                        *)
(***************************************************************************)
EXTENDS Integers, FiniteSets, Sums

CONSTANTS
  Agents,           \* addresses
  Admins,           \* those of them that call init_reputation_registry
  SlashTreasuries,  \* addresses handed to update_treasury
  StakeIds,         \* object ids of AgentStake objects
  StakeCoins, RewardCoins,         \* values of the coins handed in
  SlashAmounts,     \* amounts handed to slash_agent
  MinReputations, Cooldowns,       \* values handed to update_risk_params
  InitialFunds,     \* SUI each agent owns at the start
  min_stake_mist, UNSTAKE_COOLDOWN_MS, MAX_U64,
  MaxReports, MaxCorrect, MaxSlashes,   \* bounds: the counts of one stake
  MaxTime,          \* bound: reading of the clock
  Unstaked, Deleted \* an AgentStake id not used yet, and one deleted again

AgentStakeObject ==
  [agent : Agents, stake : Nat, reputation : 0 .. 100, total_reports : Nat,
   correct_reports : Nat, slash_count : Nat, unstake_request_epoch : Nat]
Counters == {"agents", "rewards", "slashes", "slashed"}
Holders == Agents \cup SlashTreasuries

ASSUME IncentivesAssumption ==
  /\ IsFiniteSet(Agents) /\ IsFiniteSet(SlashTreasuries) /\ IsFiniteSet(StakeIds)
  /\ Admins \subseteq Agents
  /\ StakeCoins \cup RewardCoins \cup SlashAmounts \cup Cooldowns
       \cup MinReputations \subseteq Nat
  /\ InitialFunds \in Nat /\ min_stake_mist \in Nat
  /\ UNSTAKE_COOLDOWN_MS \in Nat /\ MAX_U64 \in Nat
  /\ {MaxReports, MaxCorrect, MaxSlashes} \subseteq Nat /\ MaxTime \in Nat \ {0}
  /\ {Unstaked, Deleted} \cap AgentStakeObject = {}
  /\ Unstaked # Deleted

VARIABLES
  clock,
  caps,             \* holders of an IncentivesCap: those who made a registry
  registry,         \* per registry (named by who made it): its totals
  slash_treasury_address,          \* treasury_address, per registry
  min_unstake_reputation, unstake_cooldown_ms,   \* the RiskParameters object
  agentStake,       \* per AgentStake id: Unstaked, the object, or Deleted
  funds,            \* SUI owned by each account
  deposit,          \* history: the coin each AgentStake began with
  withdrawn         \* history: SUI paid out by unstake

registryVars == <<caps, registry, slash_treasury_address>>
paramVars == <<min_unstake_reputation, unstake_cooldown_ms>>
incentivesVars == <<clock, registryVars, paramVars, agentStake, funds, deposit, withdrawn>>

Live == {s \in StakeIds : agentStake[s] \notin {Unstaked, Deleted}}

IncentivesInit ==
  /\ clock = 1
  /\ caps = {}
  /\ registry = [a \in Agents |-> [c \in Counters |-> 0]]
  /\ slash_treasury_address = [a \in Agents |-> a]
  /\ min_unstake_reputation = 50
  /\ unstake_cooldown_ms = UNSTAKE_COOLDOWN_MS
  /\ agentStake = [s \in StakeIds |-> Unstaked]
  /\ funds = [a \in Holders |-> IF a \in Agents THEN InitialFunds ELSE 0]
  /\ deposit = [s \in StakeIds |-> 0]
  /\ withdrawn = 0

\* What a transaction of sender may be given: a cap of its own, and stakes of
\* its own.
Authorised(sender, s) == sender \in caps /\ s \in Live /\ agentStake[s].agent = sender

Tick ==
  /\ clock < MaxTime
  /\ clock' = clock + 1
  /\ UNCHANGED <<registryVars, paramVars, agentStake, funds, deposit, withdrawn>>

InitReputationRegistry(admin) ==
  /\ admin \notin caps
  /\ caps' = caps \cup {admin}
  /\ UNCHANGED <<clock, registry, slash_treasury_address, paramVars, agentStake, funds,
                 deposit, withdrawn>>

UpdateTreasury(r, treasury) ==
  /\ r \in caps
  /\ slash_treasury_address' = [slash_treasury_address EXCEPT ![r] = treasury]
  /\ UNCHANGED <<clock, caps, registry, paramVars, agentStake, funds, deposit,
                 withdrawn>>

\* max_slash_amount_percent is stored too; no entry reads it.
UpdateRiskParams(reputation, cooldown) ==
  /\ caps # {}
  /\ min_unstake_reputation' = reputation
  /\ unstake_cooldown_ms' = cooldown
  /\ UNCHANGED <<clock, registryVars, agentStake, funds, deposit, withdrawn>>

Stake(a, amount, r, s) ==
  /\ r \in caps
  /\ agentStake[s] = Unstaked
  /\ amount <= funds[a]
  /\ amount >= min_stake_mist
  /\ funds' = [funds EXCEPT ![a] = @ - amount]
  /\ agentStake' = [agentStake EXCEPT ![s] =
       [agent |-> a, stake |-> amount, reputation |-> 50, total_reports |-> 0,
        correct_reports |-> 0, slash_count |-> 0, unstake_request_epoch |-> 0]]
  /\ registry' = [registry EXCEPT ![r]["agents"] = @ + 1]
  /\ deposit' = [deposit EXCEPT ![s] = amount]
  /\ UNCHANGED <<clock, caps, slash_treasury_address, paramVars, withdrawn>>

\* Mutant: the maximum is not applied.
RaisedFreely(reputation, gain) == reputation + gain
Raised(reputation, gain) ==
  IF reputation + gain > 100 THEN 100 ELSE reputation + gain

\* Mutant: the comparison is inverted.
LoweredInverted(reputation, penalty) ==
  IF reputation > penalty THEN 0 ELSE reputation
Lowered(reputation, penalty) ==
  IF reputation > penalty THEN reputation - penalty ELSE 0

\* Mutant: the cap of a slash is left out.
SlashUncapped(available, amount) == IF amount > available THEN available ELSE amount

\* The cap is 20 percent whatever the parameters say; the product with the
\* number of slashes is computed, may overflow, and is otherwise not used.
ActualSlash(available, amount) ==
  LET max_slash == (available * 20) \div 100
  IN IF amount > max_slash THEN max_slash ELSE amount

SlashAgent(admin, s, amount, r) ==
  LET st == agentStake[s]
      actual == ActualSlash(st.stake, amount)
  IN
  /\ Authorised(admin, s) /\ r \in caps
  /\ st.slash_count < MaxSlashes
  /\ st.stake * registry[r]["slashes"] <= MAX_U64 /\ st.stake * 20 <= MAX_U64
  /\ agentStake' = [agentStake EXCEPT ![s] =
       [st EXCEPT !.stake = @ - actual, !.reputation = Lowered(@, 15),
                  !.slash_count = @ + 1]]
  /\ registry' = [registry EXCEPT ![r]["slashes"] = @ + 1,
                                  ![r]["slashed"] = @ + actual]
  /\ funds' = [funds EXCEPT ![slash_treasury_address[r]] = @ + actual]
  /\ UNCHANGED <<clock, caps, slash_treasury_address, paramVars, deposit, withdrawn>>

RewardHonestAgent(admin, s, reward, r) ==
  LET st == agentStake[s] IN
  /\ Authorised(admin, s) /\ r \in caps
  /\ reward <= funds[admin]
  /\ st.correct_reports < MaxCorrect
  /\ funds' = [funds EXCEPT ![admin] = @ - reward]
  /\ agentStake' = [agentStake EXCEPT ![s] =
       [st EXCEPT !.stake = @ + reward, !.reputation = Raised(@, 5),
                  !.correct_reports = @ + 1]]
  /\ registry' = [registry EXCEPT ![r]["rewards"] = @ + reward]
  /\ UNCHANGED <<clock, caps, slash_treasury_address, paramVars, deposit, withdrawn>>

RecordReport(admin, s, was_correct) ==
  LET st == agentStake[s] IN
  /\ Authorised(admin, s)
  /\ st.total_reports < MaxReports
  /\ agentStake' = [agentStake EXCEPT ![s] =
       [st EXCEPT !.total_reports = @ + 1,
                  !.correct_reports = IF was_correct THEN @ + 1 ELSE @,
                  !.reputation = IF was_correct THEN Raised(@, 2) ELSE Lowered(@, 5)]]
  /\ UNCHANGED <<clock, registryVars, paramVars, funds, deposit, withdrawn>>

RequestUnstake(s) ==
  /\ s \in Live
  /\ agentStake[s].reputation >= min_unstake_reputation
  /\ agentStake' = [agentStake EXCEPT ![s].unstake_request_epoch = clock]
  /\ UNCHANGED <<clock, registryVars, paramVars, funds, deposit, withdrawn>>

\* Mutant: the agent is given the coin it once staked.
PaidDeposit(s) == deposit[s]
PaidOut(s) == agentStake[s].stake

\* total_agents of the registry is not lowered.
Unstake(s) ==
  LET st == agentStake[s] IN
  /\ s \in Live
  /\ st.reputation >= min_unstake_reputation
  /\ st.unstake_request_epoch > 0
  /\ clock - st.unstake_request_epoch >= unstake_cooldown_ms
  /\ agentStake' = [agentStake EXCEPT ![s] = Deleted]
  /\ funds' = [funds EXCEPT ![st.agent] = @ + PaidOut(s)]
  /\ withdrawn' = withdrawn + PaidOut(s)
  /\ UNCHANGED <<clock, registryVars, paramVars, deposit>>

AdministerStakes ==
  \/ \E a \in Admins : InitReputationRegistry(a)
  \/ \E r \in Agents, t \in SlashTreasuries : UpdateTreasury(r, t)
  \/ \E reputation \in MinReputations, cooldown \in Cooldowns :
       UpdateRiskParams(reputation, cooldown)
  \/ \E admin \in Admins, s \in StakeIds, r \in Agents :
       \/ \E amount \in SlashAmounts : SlashAgent(admin, s, amount, r)
       \/ \E reward \in RewardCoins : RewardHonestAgent(admin, s, reward, r)
  \/ \E admin \in Admins, s \in StakeIds, correct \in BOOLEAN :
       RecordReport(admin, s, correct)

IncentivesNext ==
  \/ Tick
  \/ AdministerStakes
  \/ \E s \in StakeIds :
       \/ \E a \in Agents, amount \in StakeCoins, r \in Agents : Stake(a, amount, r, s)
       \/ RequestUnstake(s)
       \/ Unstake(s)

IncentivesSpec == IncentivesInit /\ [][IncentivesNext]_incentivesVars

-----------------------------------------------------------------------------
IncentivesTypeOK ==
  /\ clock \in 1 .. MaxTime
  /\ caps \subseteq Admins
  /\ registry \in [Agents -> [Counters -> Nat]]
  /\ slash_treasury_address \in [Agents -> Holders]
  /\ min_unstake_reputation \in Nat /\ unstake_cooldown_ms \in Nat
  /\ agentStake \in [StakeIds -> AgentStakeObject \cup {Unstaked, Deleted}]
  /\ funds \in [Holders -> Nat]
  /\ deposit \in [StakeIds -> Nat]
  /\ withdrawn \in Nat

Funds == SumOver(funds, Holders)
Locked == SumOver([s \in Live |-> agentStake[s].stake], Live)
Total(counter) == SumOver([r \in Agents |-> registry[r][counter]], Agents)
Minted == {s \in StakeIds : agentStake[s] # Unstaked}

\* No SUI is made or lost: wallets, treasuries and stakes add up to what there
\* was; and the registries' totals, taken together, explain what the stakes
\* hold: the coins staked and rewarded, less what was slashed and withdrawn.
LedgerBalances ==
  /\ Funds + Locked = Cardinality(Agents) * InitialFunds
  /\ Locked + withdrawn + Total("slashed")
       = SumOver(deposit, StakeIds) + Total("rewards")
  /\ Total("agents") = Cardinality(Minted)

\* A reputation is what the stake's record explains: at most 5 above the
\* starting 50 for each report counted correct, at least 50 less 15 for each
\* slash and 5 for each report, in whatever order slashes, rewards and reports
\* come and however often the bounds 0 and 100 cut a change short.
ReputationExplained ==
  \A s \in Live :
    /\ agentStake[s].reputation <= 50 + 5 * agentStake[s].correct_reports
    /\ agentStake[s].reputation >=
         50 - 15 * agentStake[s].slash_count - 5 * agentStake[s].total_reports

\* After k slashes, each of at most a fifth rounded down, a stake is worth at
\* least (4/5)^k of the coin it began with: no sequence of slashes, by whichever
\* registry, empties a stake.
StakeSurvivesSlashes ==
  \A s \in Live :
    agentStake[s].stake * Power(5, agentStake[s].slash_count)
      >= deposit[s] * Power(4, agentStake[s].slash_count)

=============================================================================
