-------------------------- MODULE IncentivesProofs --------------------------
(***************************************************************************)
(* Proofs about Incentives, for any number of agents, stakes, registries   *)
(* and administrators, any amounts and any length of the record.           *)
(***************************************************************************)
EXTENDS Incentives, SumTheorems

\* What a fifth of a stake, rounded down, leaves of it.
LEMMA ActualSlashBounds ==
  ASSUME NEW available \in Nat, NEW amount \in Nat
  PROVE  /\ ActualSlash(available, amount) \in 0 .. available
         /\ 5 * ActualSlash(available, amount) <= available
<1>1. /\ (available * 20) \div 100 \in 0 .. available
      /\ 5 * ((available * 20) \div 100) <= available
  OBVIOUS
<1>. QED  BY <1>1 DEF ActualSlash

\* Reputation stays between its bounds.
LEMMA Clamps ==
  ASSUME NEW reputation \in 0 .. 100, NEW change \in Nat
  PROVE  /\ Raised(reputation, change) \in 0 .. 100
         /\ Raised(reputation, change) >= reputation
         /\ Raised(reputation, change) <= reputation + change
         /\ Lowered(reputation, change) \in 0 .. 100
         /\ Lowered(reputation, change) <= reputation
         /\ Lowered(reputation, change) >= reputation - change
BY DEF Raised, Lowered

\* A stake that is live is an object.
LEMMA LiveIsObject ==
  ASSUME IncentivesTypeOK, NEW s \in Live
  PROVE  s \in StakeIds /\ agentStake[s] \in AgentStakeObject
BY DEF Live, IncentivesTypeOK

-----------------------------------------------------------------------------
\* What one transaction on a stake leaves of it: still the object of the same
\* agent, with a record that only grows and a reputation that moves by no more
\* than what the record grew by.
Judged(old, new) ==
  /\ new \in AgentStakeObject
  /\ new.agent = old.agent
  /\ new.reputation <= old.reputation + 5 * (new.correct_reports - old.correct_reports)
  /\ new.reputation >= old.reputation - 15 * (new.slash_count - old.slash_count)
                                      - 5 * (new.total_reports - old.total_reports)

LEMMA SlashJudges ==
  ASSUME IncentivesTypeOK, NEW admin \in Admins, NEW s \in StakeIds, NEW amount \in SlashAmounts,
         NEW r \in Agents, SlashAgent(admin, s, amount, r)
  PROVE  \E actual \in Nat, new \in AgentStakeObject :
           /\ Judged(agentStake[s], new)
           /\ new.stake = agentStake[s].stake - actual
           /\ 5 * actual <= agentStake[s].stake
           /\ new.slash_count = agentStake[s].slash_count + 1
           /\ agentStake' = [agentStake EXCEPT ![s] = new]
           /\ registry' = [registry EXCEPT ![r]["slashes"] = @ + 1,
                                           ![r]["slashed"] = @ + actual]
           /\ funds' = [funds EXCEPT ![slash_treasury_address[r]] = @ + actual]
<1>. DEFINE st == agentStake[s]
            actual == ActualSlash(st.stake, amount)
            new == [st EXCEPT !.stake = @ - actual, !.reputation = Lowered(@, 15),
                              !.slash_count = @ + 1]
<1>1. st \in AgentStakeObject
  BY LiveIsObject DEF SlashAgent, Authorised
<1>2. actual \in Nat /\ 5 * actual <= st.stake /\ st.stake \in Nat
  <2>1. st.stake \in Nat /\ amount \in Nat
    BY <1>1, IncentivesAssumption DEF AgentStakeObject
  <2>2. actual \in 0 .. st.stake /\ 5 * actual <= st.stake
    BY <2>1, ActualSlashBounds
  <2>. QED  BY <2>1, <2>2
<1>3. /\ Lowered(st.reputation, 15) \in 0 .. 100
      /\ Lowered(st.reputation, 15) <= st.reputation
      /\ Lowered(st.reputation, 15) >= st.reputation - 15
  BY <1>1, Clamps DEF AgentStakeObject
<1>4. Judged(st, new)
  <2>. HIDE DEF actual, st
  <2>1. new \in AgentStakeObject
    <3>. DEFINE stake == st.stake - actual
                reputation == Lowered(st.reputation, 15)
                slashes == st.slash_count + 1
    <3>1. stake \in Nat /\ reputation \in 0 .. 100 /\ slashes \in Nat
      BY <1>1, <1>2, <1>3 DEF AgentStakeObject
    <3>. HIDE DEF stake, reputation, slashes
    <3>2. [st EXCEPT !.stake = stake, !.reputation = reputation,
                     !.slash_count = slashes] \in AgentStakeObject
      BY <1>1, <3>1 DEF AgentStakeObject
    <3>. QED  BY <3>2 DEF stake, reputation, slashes
  <2>2. /\ new.agent = st.agent /\ new.reputation = Lowered(st.reputation, 15)
        /\ new.correct_reports = st.correct_reports
        /\ new.total_reports = st.total_reports
        /\ new.slash_count = st.slash_count + 1
    BY <1>1 DEF AgentStakeObject
  <2>. HIDE DEF new
  <2>. QED  BY <1>1, <1>3, <2>1, <2>2 DEF Judged, AgentStakeObject
<1>5. new \in AgentStakeObject
  BY <1>4 DEF Judged
<1>6. /\ agentStake' = [agentStake EXCEPT ![s] = new]
      /\ registry' = [registry EXCEPT ![r]["slashes"] = @ + 1,
                                      ![r]["slashed"] = @ + actual]
      /\ funds' = [funds EXCEPT ![slash_treasury_address[r]] = @ + actual]
  BY DEF SlashAgent
<1>7. new.stake = st.stake - actual /\ new.slash_count = st.slash_count + 1
  BY <1>1 DEF AgentStakeObject
<1>. HIDE DEF new, actual
<1>. QED  BY <1>2, <1>4, <1>5, <1>6, <1>7

LEMMA RewardJudges ==
  ASSUME IncentivesTypeOK, NEW admin \in Admins, NEW s \in StakeIds, NEW reward \in RewardCoins,
         NEW r \in Agents, RewardHonestAgent(admin, s, reward, r)
  PROVE  \E new \in AgentStakeObject :
           /\ Judged(agentStake[s], new)
           /\ new.stake = agentStake[s].stake + reward
           /\ new.slash_count = agentStake[s].slash_count
           /\ agentStake' = [agentStake EXCEPT ![s] = new]
<1>. DEFINE st == agentStake[s]
            new == [st EXCEPT !.stake = @ + reward, !.reputation = Raised(@, 5),
                              !.correct_reports = @ + 1]
<1>1. st \in AgentStakeObject /\ reward \in Nat
  BY LiveIsObject, IncentivesAssumption DEF RewardHonestAgent, Authorised
<1>2. /\ Raised(st.reputation, 5) \in 0 .. 100
      /\ Raised(st.reputation, 5) >= st.reputation
      /\ Raised(st.reputation, 5) <= st.reputation + 5
  BY <1>1, Clamps DEF AgentStakeObject
<1>3. Judged(st, new)
  <2>. HIDE DEF st
  <2>1. new \in AgentStakeObject
    <3>. DEFINE stake == st.stake + reward
                reputation == Raised(st.reputation, 5)
                correct == st.correct_reports + 1
    <3>1. stake \in Nat /\ reputation \in 0 .. 100 /\ correct \in Nat
      BY <1>1, <1>2 DEF AgentStakeObject
    <3>. HIDE DEF stake, reputation, correct
    <3>2. [st EXCEPT !.stake = stake, !.reputation = reputation,
                     !.correct_reports = correct] \in AgentStakeObject
      BY <1>1, <3>1 DEF AgentStakeObject
    <3>. QED  BY <3>2 DEF stake, reputation, correct
  <2>2. /\ new.agent = st.agent /\ new.reputation = Raised(st.reputation, 5)
        /\ new.correct_reports = st.correct_reports + 1
        /\ new.total_reports = st.total_reports
        /\ new.slash_count = st.slash_count
    BY <1>1 DEF AgentStakeObject
  <2>. HIDE DEF new
  <2>. QED  BY <1>1, <1>2, <2>1, <2>2 DEF Judged, AgentStakeObject
<1>4. agentStake' = [agentStake EXCEPT ![s] = new]
  BY DEF RewardHonestAgent
<1>5. new \in AgentStakeObject
  BY <1>3 DEF Judged
<1>6. new.stake = st.stake + reward /\ new.slash_count = st.slash_count
  BY <1>1 DEF AgentStakeObject
<1>. HIDE DEF new
<1>. QED  BY <1>3, <1>4, <1>5, <1>6

LEMMA ReportJudges ==
  ASSUME IncentivesTypeOK, NEW admin \in Admins, NEW s \in StakeIds, NEW correct \in BOOLEAN,
         RecordReport(admin, s, correct)
  PROVE  \E new \in AgentStakeObject :
           /\ Judged(agentStake[s], new)
           /\ new.stake = agentStake[s].stake
           /\ new.slash_count = agentStake[s].slash_count
           /\ agentStake' = [agentStake EXCEPT ![s] = new]
<1>. DEFINE st == agentStake[s]
            new == [st EXCEPT !.total_reports = @ + 1,
                     !.correct_reports = IF correct THEN @ + 1 ELSE @,
                     !.reputation = IF correct THEN Raised(@, 2) ELSE Lowered(@, 5)]
<1>1. st \in AgentStakeObject
  BY LiveIsObject DEF RecordReport, Authorised
<1>2. /\ Raised(st.reputation, 2) \in 0 .. 100
      /\ Raised(st.reputation, 2) >= st.reputation
      /\ Raised(st.reputation, 2) <= st.reputation + 2
      /\ Lowered(st.reputation, 5) \in 0 .. 100
      /\ Lowered(st.reputation, 5) <= st.reputation
      /\ Lowered(st.reputation, 5) >= st.reputation - 5
  BY <1>1, Clamps DEF AgentStakeObject
<1>3. Judged(st, new)
  <2>. DEFINE total == st.total_reports + 1
              right == IF correct THEN st.correct_reports + 1 ELSE st.correct_reports
              reputation == IF correct THEN Raised(st.reputation, 2)
                                       ELSE Lowered(st.reputation, 5)
  <2>. HIDE DEF st
  <2>1. /\ total \in Nat /\ right \in Nat
        /\ total = st.total_reports + 1
        /\ right \in {st.correct_reports, st.correct_reports + 1}
    BY <1>1 DEF AgentStakeObject
  <2>2. /\ reputation \in 0 .. 100
        /\ reputation <= st.reputation + 5 * (right - st.correct_reports)
        /\ reputation >= st.reputation - 5
    BY <1>1, <1>2 DEF AgentStakeObject
  <2>3. new = [st EXCEPT !.total_reports = total, !.correct_reports = right,
                         !.reputation = reputation]
    OBVIOUS
  <2>. HIDE DEF new, total, right, reputation
  <2>4. /\ new \in AgentStakeObject
        /\ new.agent = st.agent /\ new.reputation = reputation
        /\ new.correct_reports = right /\ new.total_reports = total
        /\ new.slash_count = st.slash_count
    BY <1>1, <2>1, <2>2, <2>3 DEF AgentStakeObject
  <2>. QED  BY <1>1, <2>1, <2>2, <2>4 DEF Judged, AgentStakeObject
<1>4. agentStake' = [agentStake EXCEPT ![s] = new]
  BY DEF RecordReport
<1>5. new \in AgentStakeObject
  BY <1>3 DEF Judged
<1>6. new.stake = st.stake /\ new.slash_count = st.slash_count
  BY <1>1 DEF AgentStakeObject
<1>. HIDE DEF new
<1>. QED  BY <1>3, <1>4, <1>5, <1>6

LEMMA RequestJudges ==
  ASSUME IncentivesTypeOK, NEW s \in StakeIds, RequestUnstake(s)
  PROVE  \E new \in AgentStakeObject :
           /\ Judged(agentStake[s], new)
           /\ new.stake = agentStake[s].stake
           /\ new.slash_count = agentStake[s].slash_count
           /\ agentStake' = [agentStake EXCEPT ![s] = new]
<1>. DEFINE st == agentStake[s]
            new == [st EXCEPT !.unstake_request_epoch = clock]
<1>1. st \in AgentStakeObject /\ clock \in Nat
  BY LiveIsObject, IncentivesAssumption DEF RequestUnstake, IncentivesTypeOK
<1>2. Judged(st, new)
  <2>. HIDE DEF st
  <2>. QED  BY <1>1 DEF Judged, AgentStakeObject
<1>3. agentStake' = [agentStake EXCEPT ![s] = new]
  BY <1>1 DEF RequestUnstake
<1>4. new \in AgentStakeObject
  BY <1>2 DEF Judged
<1>5. new.stake = st.stake /\ new.slash_count = st.slash_count
  BY <1>1 DEF AgentStakeObject
<1>. HIDE DEF new
<1>. QED  BY <1>2, <1>3, <1>4, <1>5

-----------------------------------------------------------------------------
LEMMA InitialTypes == IncentivesInit => IncentivesTypeOK
<1>. SUFFICES ASSUME IncentivesInit  PROVE IncentivesTypeOK
  OBVIOUS
<1>1. clock \in 1 .. MaxTime /\ caps \subseteq Admins
  BY IncentivesAssumption DEF IncentivesInit
<1>2. registry \in [Agents -> [Counters -> Nat]]
  BY DEF IncentivesInit
<1>3. slash_treasury_address \in [Agents -> Holders]
  BY DEF IncentivesInit, Holders
<1>4. min_unstake_reputation \in Nat /\ unstake_cooldown_ms \in Nat
  BY IncentivesAssumption DEF IncentivesInit
<1>5. agentStake \in [StakeIds -> AgentStakeObject \cup {Unstaked, Deleted}]
  BY DEF IncentivesInit
<1>6. funds \in [Holders -> Nat]
  BY IncentivesAssumption DEF IncentivesInit
<1>7. deposit \in [StakeIds -> Nat] /\ withdrawn \in Nat
  BY DEF IncentivesInit
<1>. QED  BY <1>1, <1>2, <1>3, <1>4, <1>5, <1>6, <1>7 DEF IncentivesTypeOK

\* Types: balances are never negative, reputations between 0 and 100, and every
\* stake is unused, an object, or deleted (IncentivesTypeOK of Incentives).
THEOREM TypeCorrect == IncentivesSpec => []IncentivesTypeOK
<1>1. IncentivesTypeOK /\ [IncentivesNext]_incentivesVars => IncentivesTypeOK'
  <2>. SUFFICES ASSUME IncentivesTypeOK, [IncentivesNext]_incentivesVars  PROVE IncentivesTypeOK'
    OBVIOUS
  <2>1. CASE Tick
    BY <2>1, IncentivesAssumption DEF Tick, IncentivesTypeOK, registryVars, paramVars
  <2>2. ASSUME NEW a \in Admins, InitReputationRegistry(a)  PROVE IncentivesTypeOK'
    BY <2>2 DEF InitReputationRegistry, IncentivesTypeOK, paramVars
  <2>3. ASSUME NEW r \in Agents, NEW t \in SlashTreasuries, UpdateTreasury(r, t)
        PROVE  IncentivesTypeOK'
    BY <2>3 DEF UpdateTreasury, IncentivesTypeOK, paramVars, Holders
  <2>4. ASSUME NEW reputation \in MinReputations, NEW cooldown \in Cooldowns,
               UpdateRiskParams(reputation, cooldown)
        PROVE  IncentivesTypeOK'
    BY <2>4, IncentivesAssumption DEF UpdateRiskParams, IncentivesTypeOK, registryVars
  <2>5. ASSUME NEW s \in StakeIds, NEW a \in Agents, NEW amount \in StakeCoins,
               NEW r \in Agents, Stake(a, amount, r, s)
        PROVE  IncentivesTypeOK'
    <3>1. amount \in Nat /\ a \in Holders
      BY IncentivesAssumption DEF Holders
    <3>2. funds' \in [Holders -> Nat]
      BY <2>5, <3>1 DEF Stake, IncentivesTypeOK
    <3>3. agentStake' \in [StakeIds -> AgentStakeObject \cup {Unstaked, Deleted}]
      <4>. DEFINE new == [agent |-> a, stake |-> amount, reputation |-> 50,
             total_reports |-> 0, correct_reports |-> 0, slash_count |-> 0,
             unstake_request_epoch |-> 0]
      <4>1. new \in AgentStakeObject
        BY <3>1 DEF AgentStakeObject
      <4>2. agentStake' = [agentStake EXCEPT ![s] = new]
        BY <2>5 DEF Stake
      <4>. HIDE DEF new
      <4>. QED  BY <4>1, <4>2 DEF IncentivesTypeOK
    <3>4. registry' \in [Agents -> [Counters -> Nat]]
      BY <2>5 DEF Stake, IncentivesTypeOK, Counters
    <3>5. deposit' \in [StakeIds -> Nat]
      BY <2>5, <3>1 DEF Stake, IncentivesTypeOK
    <3>. QED  BY <2>5, <3>2, <3>3, <3>4, <3>5 DEF Stake, IncentivesTypeOK, paramVars
  <2>6. ASSUME NEW admin \in Admins, NEW s \in StakeIds, NEW amount \in SlashAmounts,
               NEW r \in Agents, SlashAgent(admin, s, amount, r)
        PROVE  IncentivesTypeOK'
    <3>1. PICK actual \in Nat, new \in AgentStakeObject :
            /\ agentStake' = [agentStake EXCEPT ![s] = new]
            /\ registry' = [registry EXCEPT ![r]["slashes"] = @ + 1,
                                            ![r]["slashed"] = @ + actual]
            /\ funds' = [funds EXCEPT ![slash_treasury_address[r]] = @ + actual]
      BY <2>6, SlashJudges
    <3>2. agentStake' \in [StakeIds -> AgentStakeObject \cup {Unstaked, Deleted}]
      BY <3>1 DEF IncentivesTypeOK
    <3>3. registry' \in [Agents -> [Counters -> Nat]]
      BY <3>1 DEF IncentivesTypeOK, Counters
    <3>4. funds' \in [Holders -> Nat]
      BY <3>1 DEF IncentivesTypeOK
    <3>. QED  BY <2>6, <3>2, <3>3, <3>4 DEF SlashAgent, IncentivesTypeOK, paramVars
  <2>7. ASSUME NEW admin \in Admins, NEW s \in StakeIds, NEW reward \in RewardCoins,
               NEW r \in Agents, RewardHonestAgent(admin, s, reward, r)
        PROVE  IncentivesTypeOK'
    <3>1. agentStake' \in [StakeIds -> AgentStakeObject \cup {Unstaked, Deleted}]
      BY <2>7, RewardJudges DEF IncentivesTypeOK
    <3>2. reward \in Nat /\ admin \in Holders
      BY IncentivesAssumption DEF Holders
    <3>3. registry' \in [Agents -> [Counters -> Nat]]
      BY <2>7, <3>2 DEF RewardHonestAgent, IncentivesTypeOK, Counters
    <3>4. funds' \in [Holders -> Nat]
      BY <2>7, <3>2 DEF RewardHonestAgent, IncentivesTypeOK
    <3>. QED  BY <2>7, <3>1, <3>3, <3>4 DEF RewardHonestAgent, IncentivesTypeOK, paramVars
  <2>8. ASSUME NEW admin \in Admins, NEW s \in StakeIds, NEW correct \in BOOLEAN,
               RecordReport(admin, s, correct)
        PROVE  IncentivesTypeOK'
    <3>1. agentStake' \in [StakeIds -> AgentStakeObject \cup {Unstaked, Deleted}]
      BY <2>8, ReportJudges DEF IncentivesTypeOK
    <3>. QED  BY <2>8, <3>1 DEF RecordReport, IncentivesTypeOK, registryVars, paramVars
  <2>9. ASSUME NEW s \in StakeIds, RequestUnstake(s)  PROVE IncentivesTypeOK'
    <3>1. agentStake' \in [StakeIds -> AgentStakeObject \cup {Unstaked, Deleted}]
      BY <2>9, RequestJudges DEF IncentivesTypeOK
    <3>. QED  BY <2>9, <3>1 DEF RequestUnstake, IncentivesTypeOK, registryVars, paramVars
  <2>10. ASSUME NEW s \in StakeIds, Unstake(s)  PROVE IncentivesTypeOK'
    <3>1. agentStake[s] \in AgentStakeObject
      BY <2>10, LiveIsObject DEF Unstake
    <3>2. PaidOut(s) \in Nat
      BY <3>1 DEF PaidOut, AgentStakeObject
    <3>3. agentStake' \in [StakeIds -> AgentStakeObject \cup {Unstaked, Deleted}]
      BY <2>10 DEF Unstake, IncentivesTypeOK
    <3>4. funds' \in [Holders -> Nat] /\ withdrawn' \in Nat
      <4>1. agentStake[s].agent \in Holders
        BY <3>1 DEF AgentStakeObject, Holders
      <4>2. /\ funds' = [funds EXCEPT ![agentStake[s].agent] = @ + PaidOut(s)]
            /\ withdrawn' = withdrawn + PaidOut(s)
        BY <2>10 DEF Unstake
      <4>. QED  BY <3>2, <4>1, <4>2 DEF IncentivesTypeOK
    <3>. QED  BY <2>10, <3>3, <3>4 DEF Unstake, IncentivesTypeOK, registryVars, paramVars
  <2>11. CASE UNCHANGED incentivesVars
    BY <2>11 DEF incentivesVars, registryVars, paramVars, IncentivesTypeOK
  <2>. QED  BY <2>1, <2>2, <2>3, <2>4, <2>5, <2>6, <2>7, <2>8, <2>9, <2>10, <2>11
            DEF IncentivesNext, AdministerStakes
<1>. QED  BY InitialTypes, <1>1, PTL DEF IncentivesSpec

-----------------------------------------------------------------------------
\* A transaction that replaces one stake by one its record explains.
LEMMA JudgedIsExplained ==
  ASSUME IncentivesTypeOK, ReputationExplained, NEW s \in Live, NEW new, Judged(agentStake[s], new),
         agentStake' = [agentStake EXCEPT ![s] = new]
  PROVE  ReputationExplained'
<1>. SUFFICES ASSUME NEW q \in Live'
              PROVE  /\ agentStake'[q].reputation <= 50 + 5 * agentStake'[q].correct_reports
                     /\ agentStake'[q].reputation >= 50 - 15 * agentStake'[q].slash_count
                                                      - 5 * agentStake'[q].total_reports
  BY DEF ReputationExplained
<1>1. CASE q = s
  <2>. DEFINE old == agentStake[s]
  <2>1. agentStake'[q] = new
    BY <1>1 DEF IncentivesTypeOK, Live
  <2>2. old \in AgentStakeObject
    BY LiveIsObject
  <2>3. /\ old.reputation <= 50 + 5 * old.correct_reports
        /\ old.reputation >= 50 - 15 * old.slash_count - 5 * old.total_reports
    BY DEF ReputationExplained
  <2>. HIDE DEF old
  <2>4. Judged(old, new)
    BY DEF old
  <2>5. /\ new.reputation \in Int /\ new.correct_reports \in Int
        /\ new.slash_count \in Int /\ new.total_reports \in Int
        /\ old.reputation \in Int /\ old.correct_reports \in Int
        /\ old.slash_count \in Int /\ old.total_reports \in Int
    BY <2>2, <2>4 DEF Judged, AgentStakeObject
  <2>. QED  BY <2>1, <2>3, <2>4, <2>5 DEF Judged
<1>2. CASE q # s
  <2>1. agentStake'[q] = agentStake[q] /\ q \in Live
    BY <1>2 DEF IncentivesTypeOK, Live
  <2>. QED  BY <2>1 DEF ReputationExplained
<1>. QED  BY <1>1, <1>2

\* Reputations are explained by the record of slashes, rewards and reports,
\* whatever their order and number (ReputationExplained of Incentives).
THEOREM ReputationsAreExplained == IncentivesSpec => []ReputationExplained
<1>1. IncentivesInit => ReputationExplained
  BY DEF IncentivesInit, ReputationExplained, Live
<1>2. IncentivesTypeOK /\ ReputationExplained /\ [IncentivesNext]_incentivesVars => ReputationExplained'
  <2>. SUFFICES ASSUME IncentivesTypeOK, ReputationExplained, [IncentivesNext]_incentivesVars
                PROVE  ReputationExplained'
    OBVIOUS
  <2>1. ASSUME UNCHANGED agentStake  PROVE ReputationExplained'
    BY <2>1 DEF ReputationExplained, Live
  <2>2. ASSUME NEW s \in StakeIds, NEW a \in Agents, NEW amount \in StakeCoins,
               NEW r \in Agents, Stake(a, amount, r, s)
        PROVE  ReputationExplained'
    <3>. SUFFICES ASSUME NEW q \in Live'
                  PROVE  /\ agentStake'[q].reputation
                              <= 50 + 5 * agentStake'[q].correct_reports
                         /\ agentStake'[q].reputation
                              >= 50 - 15 * agentStake'[q].slash_count
                                    - 5 * agentStake'[q].total_reports
      BY DEF ReputationExplained
    <3>1. CASE q = s
      BY <2>2, <3>1 DEF Stake, IncentivesTypeOK
    <3>2. CASE q # s
      <4>1. agentStake'[q] = agentStake[q] /\ q \in Live
        BY <2>2, <3>2 DEF Stake, IncentivesTypeOK, Live
      <4>. QED  BY <4>1 DEF ReputationExplained
    <3>. QED  BY <3>1, <3>2
  <2>3. ASSUME NEW admin \in Admins, NEW s \in StakeIds, NEW amount \in SlashAmounts,
               NEW r \in Agents, SlashAgent(admin, s, amount, r)
        PROVE  ReputationExplained'
    <3>1. s \in Live
      BY <2>3 DEF SlashAgent, Authorised
    <3>. QED  BY <2>3, <3>1, SlashJudges, JudgedIsExplained
  <2>4. ASSUME NEW admin \in Admins, NEW s \in StakeIds, NEW reward \in RewardCoins,
               NEW r \in Agents, RewardHonestAgent(admin, s, reward, r)
        PROVE  ReputationExplained'
    <3>1. s \in Live
      BY <2>4 DEF RewardHonestAgent, Authorised
    <3>. QED  BY <2>4, <3>1, RewardJudges, JudgedIsExplained
  <2>5. ASSUME NEW admin \in Admins, NEW s \in StakeIds, NEW correct \in BOOLEAN,
               RecordReport(admin, s, correct)
        PROVE  ReputationExplained'
    <3>1. s \in Live
      BY <2>5 DEF RecordReport, Authorised
    <3>. QED  BY <2>5, <3>1, ReportJudges, JudgedIsExplained
  <2>6. ASSUME NEW s \in StakeIds, RequestUnstake(s)  PROVE ReputationExplained'
    <3>1. s \in Live
      BY <2>6 DEF RequestUnstake
    <3>. QED  BY <2>6, <3>1, RequestJudges, JudgedIsExplained
  <2>7. ASSUME NEW s \in StakeIds, Unstake(s)  PROVE ReputationExplained'
    <3>. SUFFICES ASSUME NEW q \in Live'
                  PROVE  q \in Live /\ agentStake'[q] = agentStake[q]
      BY DEF ReputationExplained
    <3>1. q # s
      BY <2>7 DEF Unstake, Live, IncentivesTypeOK
    <3>. QED  BY <2>7, <3>1 DEF Unstake, Live, IncentivesTypeOK
  <2>8. CASE UNCHANGED incentivesVars \/ Tick
    BY <2>1, <2>8 DEF incentivesVars, Tick
  <2>9. ASSUME NEW a \in Admins, InitReputationRegistry(a)  PROVE ReputationExplained'
    BY <2>1, <2>9 DEF InitReputationRegistry
  <2>10. ASSUME NEW r \in Agents, NEW t \in SlashTreasuries, UpdateTreasury(r, t)
         PROVE  ReputationExplained'
    BY <2>1, <2>10 DEF UpdateTreasury
  <2>11. ASSUME NEW reputation \in MinReputations, NEW cooldown \in Cooldowns,
                UpdateRiskParams(reputation, cooldown)
         PROVE  ReputationExplained'
    BY <2>1, <2>11 DEF UpdateRiskParams
  <2>. QED  BY <2>2, <2>3, <2>4, <2>5, <2>6, <2>7, <2>8, <2>9, <2>10, <2>11
            DEF IncentivesNext, AdministerStakes
<1>. QED  BY <1>1, <1>2, TypeCorrect, PTL DEF IncentivesSpec

-----------------------------------------------------------------------------
(* The ledger: what a transaction does to each of its sums.                 *)

LEMMA FiniteParts ==
  /\ IsFiniteSet(Agents) /\ IsFiniteSet(StakeIds) /\ IsFiniteSet(Holders)
  /\ IsFiniteSet(Live) /\ IsFiniteSet(Minted)
<1>1. IsFiniteSet(Agents) /\ IsFiniteSet(SlashTreasuries) /\ IsFiniteSet(StakeIds)
  BY IncentivesAssumption
<1>2. IsFiniteSet(Agents \cup SlashTreasuries)
  BY <1>1, FS_Union
<1>3. Live \subseteq StakeIds /\ Minted \subseteq StakeIds
  BY DEF Live, Minted
<1>4. IsFiniteSet(Live) /\ IsFiniteSet(Minted)
  BY <1>1, <1>3, FS_Subset
<1>. QED  BY <1>1, <1>2, <1>4 DEF Holders

\* What one account gains or loses, the wallets do.
LEMMA WalletsChange ==
  ASSUME IncentivesTypeOK, NEW a \in Holders, NEW amount \in Int, funds[a] + amount >= 0,
         funds' = [funds EXCEPT ![a] = @ + amount]
  PROVE  Funds \in Nat /\ Funds' = Funds + amount
<1>. DEFINE old == funds
            new == funds'
<1>1. Summable(old, Holders)
  BY FiniteParts DEF Summable, IncentivesTypeOK
<1>2. new[a] = old[a] + amount /\ old[a] \in Nat /\ new[a] \in Nat
  BY DEF IncentivesTypeOK
<1>3. \A b \in Holders \ {a} : new[b] = old[b]
  BY DEF IncentivesTypeOK
<1>4. Funds = SumOver(old, Holders) /\ Funds' = SumOver(new, Holders)
  BY DEF Funds
<1>. HIDE DEF old, new
<1>5. SumOver(new, Holders) = SumOver(old, Holders) + (new[a] - old[a])
  BY <1>1, <1>2, <1>3, SumChanged
<1>6. SumOver(old, Holders) \in Nat
  BY <1>1, SumType
<1>. QED  BY <1>2, <1>4, <1>5, <1>6

\* What one registry counts, all of them together do.
LEMMA TotalChanges ==
  ASSUME IncentivesTypeOK, NEW counter \in Counters, NEW r \in Agents, NEW amount \in Nat,
         registry'[r][counter] = registry[r][counter] + amount,
         \A q \in Agents \ {r} : registry'[q][counter] = registry[q][counter]
  PROVE  Total(counter) \in Nat /\ Total(counter)' = Total(counter) + amount
<1>. DEFINE old == [q \in Agents |-> registry[q][counter]]
            new == [q \in Agents |-> registry'[q][counter]]
<1>1. Summable(old, Agents)
  BY FiniteParts DEF Summable, IncentivesTypeOK
<1>2. old[r] \in Nat /\ new[r] = old[r] + amount
  BY DEF IncentivesTypeOK
<1>3. \A q \in Agents \ {r} : new[q] = old[q]
  OBVIOUS
<1>4. Total(counter) = SumOver(old, Agents) /\ Total(counter)' = SumOver(new, Agents)
  BY DEF Total
<1>. HIDE DEF old, new
<1>5. new[r] \in Nat
  BY <1>2
<1>6. SumOver(new, Agents) = SumOver(old, Agents) + (new[r] - old[r])
  BY <1>1, <1>3, <1>5, SumChanged, ZenonT(60)
<1>7. SumOver(old, Agents) \in Nat
  BY <1>1, SumType
<1>. QED  BY <1>2, <1>4, <1>6, <1>7

\* A counter that no registry moves.
LEMMA TotalStays ==
  ASSUME NEW counter \in Counters,
         \A q \in Agents : registry'[q][counter] = registry[q][counter]
  PROVE  Total(counter)' = Total(counter)
BY DEF Total

\* A stake that is minted adds its coins to what is locked.
LEMMA MintLocks ==
  ASSUME IncentivesTypeOK, NEW s \in StakeIds, agentStake[s] = Unstaked,
         NEW new \in AgentStakeObject, agentStake' = [agentStake EXCEPT ![s] = new]
  PROVE  /\ Locked \in Nat /\ Locked' = Locked + new.stake
         /\ Cardinality(Minted)' = Cardinality(Minted) + 1
<1>. DEFINE old == [q \in Live |-> agentStake[q].stake]
            after == [q \in Live' |-> agentStake'[q].stake]
<1>1. /\ agentStake'[s] = new /\ new \notin {Unstaked, Deleted}
      /\ \A q \in StakeIds \ {s} : agentStake'[q] = agentStake[q]
  BY IncentivesAssumption DEF IncentivesTypeOK
<1>2. s \notin Live /\ Live' = Live \cup {s}
  BY <1>1 DEF Live
<1>3. s \notin Minted /\ Minted' = Minted \cup {s}
  BY <1>1 DEF Minted
<1>4. Cardinality(Minted') = Cardinality(Minted) + 1
  BY <1>3, FiniteParts, FS_AddElement
<1>5. \A q \in Live : agentStake[q] \in AgentStakeObject
  BY LiveIsObject
<1>6. Summable(old, Live)
  BY <1>5, FiniteParts DEF Summable, AgentStakeObject
<1>7. \A q \in Live : after[q] = old[q]
  BY <1>1, <1>2 DEF Live
<1>8. after[s] = new.stake /\ new.stake \in Nat
  BY <1>1, <1>2 DEF AgentStakeObject
<1>9. Locked = SumOver(old, Live) /\ Locked' = SumOver(after, Live')
  BY DEF Locked
<1>. HIDE DEF old, after
<1>10. SumOver(after, Live) = SumOver(old, Live) /\ SumOver(old, Live) \in Nat
  BY <1>6, <1>7, SumSame, SumType
<1>11. Summable(after, Live)
  BY <1>6, <1>7 DEF Summable
<1>12. SumOver(after, Live \cup {s}) = SumOver(after, Live) + after[s]
  BY <1>2, <1>8, <1>11, SumMore
<1>13. Locked \in Nat /\ Locked' = Locked + new.stake
  BY <1>2, <1>8, <1>9, <1>10, <1>12
<1>. QED  BY <1>4, <1>13

\* A stake that is replaced changes what is locked by what it changes.
LEMMA JudgementLocks ==
  ASSUME IncentivesTypeOK, NEW s \in Live, NEW new \in AgentStakeObject,
         agentStake' = [agentStake EXCEPT ![s] = new]
  PROVE  /\ Locked \in Nat /\ Locked' = Locked + (new.stake - agentStake[s].stake)
         /\ Minted' = Minted
<1>. DEFINE old == [q \in Live |-> agentStake[q].stake]
            after == [q \in Live' |-> agentStake'[q].stake]
<1>1. /\ s \in StakeIds /\ agentStake[s] \in AgentStakeObject
      /\ agentStake'[s] = new /\ new \notin {Unstaked, Deleted}
      /\ \A q \in StakeIds \ {s} : agentStake'[q] = agentStake[q]
  BY IncentivesAssumption, LiveIsObject DEF IncentivesTypeOK
<1>2. Live' = Live
  BY <1>1 DEF Live
<1>3. Minted' = Minted
  BY <1>1, IncentivesAssumption DEF Minted
<1>4. \A q \in Live : agentStake[q] \in AgentStakeObject
  BY LiveIsObject
<1>5. Summable(old, Live)
  BY <1>4, FiniteParts DEF Summable, AgentStakeObject
<1>6. \A q \in Live \ {s} : after[q] = old[q]
  BY <1>1, <1>2 DEF Live
<1>7. after[s] = new.stake /\ new.stake \in Nat /\ old[s] = agentStake[s].stake
        /\ agentStake[s].stake \in Nat
  BY <1>1, <1>2 DEF AgentStakeObject
<1>8. Locked = SumOver(old, Live) /\ Locked' = SumOver(after, Live)
  BY <1>2 DEF Locked
<1>. HIDE DEF old, after
<1>9. SumOver(after, Live) = SumOver(old, Live) + (after[s] - old[s])
  BY <1>5, <1>6, <1>7, SumChanged
<1>10. SumOver(old, Live) \in Nat
  BY <1>5, SumType
<1>. QED  BY <1>3, <1>7, <1>8, <1>9, <1>10

\* A stake that is paid out is locked no more.
LEMMA UnstakeLocks ==
  ASSUME IncentivesTypeOK, NEW s \in Live, agentStake' = [agentStake EXCEPT ![s] = Deleted]
  PROVE  /\ Locked' \in Nat /\ Locked = Locked' + agentStake[s].stake
         /\ agentStake[s].stake \in Nat /\ Minted' = Minted
<1>. DEFINE old == [q \in Live |-> agentStake[q].stake]
            after == [q \in Live' |-> agentStake'[q].stake]
<1>1. /\ s \in StakeIds /\ agentStake[s] \in AgentStakeObject
      /\ agentStake'[s] = Deleted
      /\ \A q \in StakeIds \ {s} : agentStake'[q] = agentStake[q]
  BY LiveIsObject DEF IncentivesTypeOK
<1>2. Live' = Live \ {s}
  BY <1>1 DEF Live
<1>3. Minted' = Minted
  BY <1>1, IncentivesAssumption DEF Minted, Live
<1>4. \A q \in Live : agentStake[q] \in AgentStakeObject
  BY LiveIsObject
<1>5. Summable(old, Live)
  BY <1>4, FiniteParts DEF Summable, AgentStakeObject
<1>6. \A q \in Live \ {s} : after[q] = old[q]
  BY <1>1, <1>2 DEF Live
<1>7. old[s] = agentStake[s].stake /\ agentStake[s].stake \in Nat
  BY <1>1 DEF AgentStakeObject
<1>8. Locked = SumOver(old, Live) /\ Locked' = SumOver(after, Live \ {s})
  BY <1>2 DEF Locked
<1>. HIDE DEF old, after
<1>9. /\ Summable(old, Live \ {s})
      /\ SumOver(old, Live) = SumOver(old, Live \ {s}) + old[s]
  BY <1>5, SumLess
<1>10. SumOver(after, Live \ {s}) = SumOver(old, Live \ {s})
  BY <1>6, SumSame
<1>11. SumOver(old, Live \ {s}) \in Nat
  BY <1>9, SumType
<1>. QED  BY <1>3, <1>7, <1>8, <1>9, <1>10, <1>11

\* A stake id that was never minted has no coin of its own yet. LedgerBalances
\* needs it: the coin a new stake begins with is all that its id ever adds to
\* the deposits.
UnmintedEmpty == \A s \in StakeIds : agentStake[s] = Unstaked => deposit[s] = 0

LedgerInv == LedgerBalances /\ UnmintedEmpty

\* What the sums are, as far as arithmetic needs to know it.
LEMMA SumsAreNumbers ==
  ASSUME IncentivesTypeOK
  PROVE  /\ Funds \in Nat /\ Locked \in Nat /\ withdrawn \in Nat
         /\ Cardinality(Minted) \in Nat /\ SumOver(deposit, StakeIds) \in Nat
         /\ \A counter \in Counters : Total(counter) \in Nat
<1>1. Summable(funds, Holders) /\ Summable(deposit, StakeIds)
  BY FiniteParts DEF Summable, IncentivesTypeOK
<1>2. \A s \in Live : agentStake[s] \in AgentStakeObject
  BY LiveIsObject
<1>3. Summable([s \in Live |-> agentStake[s].stake], Live)
  BY <1>2, FiniteParts DEF Summable, AgentStakeObject
<1>4. ASSUME NEW counter \in Counters
      PROVE  Summable([r \in Agents |-> registry[r][counter]], Agents)
  BY FiniteParts DEF Summable, IncentivesTypeOK
<1>5. \A counter \in Counters : Total(counter) \in Nat
  BY <1>4, SumType DEF Total
<1>6. Funds \in Nat /\ Locked \in Nat /\ SumOver(deposit, StakeIds) \in Nat
  BY <1>1, <1>3, SumType DEF Funds, Locked
<1>. QED  BY <1>5, <1>6, FiniteParts, FS_CardinalityType DEF IncentivesTypeOK

\* Staking moves the coin from the funds of the agent into its new stake.
LEMMA StakeBalances ==
  ASSUME IncentivesTypeOK, LedgerInv, NEW a \in Agents, NEW amount \in StakeCoins,
         NEW r \in Agents, NEW s \in StakeIds, Stake(a, amount, r, s)
  PROVE  LedgerInv'
<1>. DEFINE new == [agent |-> a, stake |-> amount, reputation |-> 50,
             total_reports |-> 0, correct_reports |-> 0, slash_count |-> 0,
             unstake_request_epoch |-> 0]
            coins == deposit
            coinsAfter == deposit'
<1>1. amount \in Nat /\ a \in Holders /\ amount <= funds[a]
  BY IncentivesAssumption DEF Holders, Stake
<1>2. new \in AgentStakeObject /\ new.stake = amount
  BY <1>1 DEF AgentStakeObject
<1>3. /\ agentStake[s] = Unstaked /\ agentStake' = [agentStake EXCEPT ![s] = new]
      /\ funds' = [funds EXCEPT ![a] = @ - amount]
      /\ registry' = [registry EXCEPT ![r]["agents"] = @ + 1]
      /\ deposit' = [deposit EXCEPT ![s] = amount]
      /\ withdrawn' = withdrawn
  BY DEF Stake
<1>. HIDE DEF new
<1>4. funds' = [funds EXCEPT ![a] = @ + (-amount)]
  <2>1. funds[a] - amount = funds[a] + (-amount)
    BY <1>1 DEF IncentivesTypeOK
  <2>. QED  BY <1>3, <2>1
<1>5. -amount \in Int /\ funds[a] + (-amount) >= 0
  BY <1>1 DEF IncentivesTypeOK
<1>6. Funds' = Funds + (-amount)
  BY <1>1, <1>4, <1>5, WalletsChange
<1>7. Locked' = Locked + amount /\ Cardinality(Minted)' = Cardinality(Minted) + 1
  BY <1>2, <1>3, MintLocks
<1>8. /\ Total("agents")' = Total("agents") + 1
      /\ Total("slashed")' = Total("slashed") /\ Total("rewards")' = Total("rewards")
  <2>1. {"agents", "slashed", "rewards"} \subseteq Counters
    BY DEF Counters
  <2>2. /\ registry'[r]["agents"] = registry[r]["agents"] + 1
        /\ \A q \in Agents \ {r} : registry'[q]["agents"] = registry[q]["agents"]
        /\ \A q \in Agents : registry'[q]["slashed"] = registry[q]["slashed"]
        /\ \A q \in Agents : registry'[q]["rewards"] = registry[q]["rewards"]
    BY <1>3, <2>1 DEF IncentivesTypeOK
  <2>. QED  BY <2>1, <2>2, TotalChanges, TotalStays
<1>9. SumOver(coinsAfter, StakeIds) = SumOver(coins, StakeIds) + amount
  <2>1. Summable(coins, StakeIds)
    BY FiniteParts DEF Summable, IncentivesTypeOK
  <2>2. coins[s] = 0 /\ coinsAfter[s] = amount
    BY <1>3 DEF LedgerInv, UnmintedEmpty, IncentivesTypeOK
  <2>3. \A q \in StakeIds \ {s} : coinsAfter[q] = coins[q]
    BY <1>3 DEF IncentivesTypeOK
  <2>. HIDE DEF coins, coinsAfter
  <2>4. SumOver(coinsAfter, StakeIds) = SumOver(coins, StakeIds) + (coinsAfter[s] - coins[s])
    BY <1>1, <2>1, <2>2, <2>3, SumChanged
  <2>. QED  BY <1>1, <2>1, <2>2, <2>4, SumType
<1>10. UnmintedEmpty'
  BY <1>2, <1>3, IncentivesAssumption DEF LedgerInv, UnmintedEmpty, IncentivesTypeOK
<1>11. LedgerBalances'
  BY <1>1, <1>3, <1>6, <1>7, <1>8, <1>9, SumsAreNumbers
     DEF LedgerInv, LedgerBalances, Counters
<1>. QED  BY <1>10, <1>11 DEF LedgerInv

\* Slashing moves coins from a stake to the treasury the registry names.
LEMMA SlashBalances ==
  ASSUME IncentivesTypeOK, LedgerInv, NEW admin \in Admins, NEW s \in StakeIds,
         NEW amount \in SlashAmounts, NEW r \in Agents, SlashAgent(admin, s, amount, r)
  PROVE  LedgerInv'
<1>1. s \in Live /\ UNCHANGED <<deposit, withdrawn>>
  BY DEF SlashAgent, Authorised
<1>2. PICK actual \in Nat, new \in AgentStakeObject :
        /\ new.stake = agentStake[s].stake - actual
        /\ agentStake' = [agentStake EXCEPT ![s] = new]
        /\ registry' = [registry EXCEPT ![r]["slashes"] = @ + 1,
                                        ![r]["slashed"] = @ + actual]
        /\ funds' = [funds EXCEPT ![slash_treasury_address[r]] = @ + actual]
  BY SlashJudges
<1>3. agentStake[s].stake \in Nat
  BY <1>1, LiveIsObject DEF AgentStakeObject
<1>4. /\ slash_treasury_address[r] \in Holders /\ actual \in Int
      /\ funds[slash_treasury_address[r]] + actual >= 0
  BY DEF IncentivesTypeOK
<1>5. Funds' = Funds + actual
  BY <1>2, <1>4, WalletsChange
<1>6. Locked' = Locked + (new.stake - agentStake[s].stake) /\ Minted' = Minted
  BY <1>1, <1>2, JudgementLocks
<1>7. /\ Total("slashed")' = Total("slashed") + actual
      /\ Total("agents")' = Total("agents") /\ Total("rewards")' = Total("rewards")
  <2>1. {"agents", "slashed", "slashes", "rewards"} \subseteq Counters
    BY DEF Counters
  <2>2. /\ registry'[r]["slashed"] = registry[r]["slashed"] + actual
        /\ \A q \in Agents \ {r} : registry'[q]["slashed"] = registry[q]["slashed"]
        /\ \A q \in Agents : registry'[q]["agents"] = registry[q]["agents"]
        /\ \A q \in Agents : registry'[q]["rewards"] = registry[q]["rewards"]
    BY <1>2, <2>1 DEF IncentivesTypeOK
  <2>. QED  BY <2>1, <2>2, TotalChanges, TotalStays
<1>8. UnmintedEmpty'
  BY <1>1, <1>2, IncentivesAssumption DEF LedgerInv, UnmintedEmpty, IncentivesTypeOK
<1>9. LedgerBalances'
  <2>1. Locked' = Locked - actual
    BY <1>2, <1>3, <1>6, SumsAreNumbers
  <2>. QED  BY <1>1, <1>5, <1>6, <1>7, <2>1, SumsAreNumbers
            DEF LedgerInv, LedgerBalances, Counters
<1>. QED  BY <1>8, <1>9 DEF LedgerInv

\* A reward moves coins from the funds of the admin into a stake.
LEMMA RewardBalances ==
  ASSUME IncentivesTypeOK, LedgerInv, NEW admin \in Admins, NEW s \in StakeIds,
         NEW reward \in RewardCoins, NEW r \in Agents,
         RewardHonestAgent(admin, s, reward, r)
  PROVE  LedgerInv'
<1>1. s \in Live /\ UNCHANGED <<deposit, withdrawn>>
  BY DEF RewardHonestAgent, Authorised
<1>2. reward \in Nat /\ admin \in Holders /\ reward <= funds[admin]
  BY IncentivesAssumption DEF RewardHonestAgent, Holders
<1>3. PICK new \in AgentStakeObject :
        /\ new.stake = agentStake[s].stake + reward
        /\ agentStake' = [agentStake EXCEPT ![s] = new]
  BY RewardJudges
<1>4. agentStake[s].stake \in Nat
  BY <1>1, LiveIsObject DEF AgentStakeObject
<1>5. funds' = [funds EXCEPT ![admin] = @ + (-reward)]
  <2>1. funds[admin] - reward = funds[admin] + (-reward)
    BY <1>2 DEF IncentivesTypeOK
  <2>. QED  BY <2>1 DEF RewardHonestAgent
<1>6. -reward \in Int /\ funds[admin] + (-reward) >= 0
  BY <1>2 DEF IncentivesTypeOK
<1>7. Funds' = Funds + (-reward)
  BY <1>2, <1>5, <1>6, WalletsChange
<1>8. Locked' = Locked + (new.stake - agentStake[s].stake) /\ Minted' = Minted
  BY <1>1, <1>3, JudgementLocks
<1>9. /\ Total("rewards")' = Total("rewards") + reward
      /\ Total("agents")' = Total("agents") /\ Total("slashed")' = Total("slashed")
  <2>1. {"agents", "slashed", "rewards"} \subseteq Counters
    BY DEF Counters
  <2>2. registry' = [registry EXCEPT ![r]["rewards"] = @ + reward]
    BY DEF RewardHonestAgent
  <2>3. /\ registry'[r]["rewards"] = registry[r]["rewards"] + reward
        /\ \A q \in Agents \ {r} : registry'[q]["rewards"] = registry[q]["rewards"]
        /\ \A q \in Agents : registry'[q]["agents"] = registry[q]["agents"]
        /\ \A q \in Agents : registry'[q]["slashed"] = registry[q]["slashed"]
    BY <2>1, <2>2 DEF IncentivesTypeOK
  <2>. QED  BY <1>2, <2>1, <2>3, TotalChanges, TotalStays
<1>10. UnmintedEmpty'
  BY <1>1, <1>3, IncentivesAssumption DEF LedgerInv, UnmintedEmpty, IncentivesTypeOK
<1>11. LedgerBalances'
  <2>1. Locked' = Locked + reward
    BY <1>2, <1>3, <1>4, <1>8, SumsAreNumbers
  <2>. QED  BY <1>1, <1>2, <1>7, <1>8, <1>9, <2>1, SumsAreNumbers
            DEF LedgerInv, LedgerBalances, Counters
<1>. QED  BY <1>10, <1>11 DEF LedgerInv

\* Unstaking pays out all that the stake holds by then.
LEMMA UnstakeBalances ==
  ASSUME IncentivesTypeOK, LedgerInv, NEW s \in StakeIds, Unstake(s)
  PROVE  LedgerInv'
<1>1. /\ s \in Live /\ UNCHANGED <<registry, deposit>>
      /\ agentStake' = [agentStake EXCEPT ![s] = Deleted]
      /\ funds' = [funds EXCEPT ![agentStake[s].agent] = @ + agentStake[s].stake]
      /\ withdrawn' = withdrawn + agentStake[s].stake
  BY DEF Unstake, PaidOut, registryVars
<1>2. /\ Locked' \in Nat /\ Locked = Locked' + agentStake[s].stake
      /\ agentStake[s].stake \in Nat /\ Minted' = Minted
  BY <1>1, UnstakeLocks
<1>3. agentStake[s].agent \in Holders
  BY <1>1, LiveIsObject DEF AgentStakeObject, Holders
<1>4. agentStake[s].stake \in Int /\ funds[agentStake[s].agent] + agentStake[s].stake >= 0
  BY <1>2, <1>3 DEF IncentivesTypeOK
<1>5. Funds' = Funds + agentStake[s].stake
  BY <1>1, <1>3, <1>4, WalletsChange
<1>6. \A counter : Total(counter)' = Total(counter)
  BY <1>1 DEF Total
<1>7. UnmintedEmpty'
  BY <1>1, IncentivesAssumption DEF LedgerInv, UnmintedEmpty, IncentivesTypeOK
<1>8. LedgerBalances'
  BY <1>1, <1>2, <1>5, <1>6, SumsAreNumbers DEF LedgerInv, LedgerBalances, Counters
<1>. QED  BY <1>7, <1>8 DEF LedgerInv

\* No SUI is made or lost by the contract, and the totals of the registries
\* explain what the stakes hold (LedgerBalances of Incentives).
THEOREM LedgerIsBalanced == IncentivesSpec => []LedgerBalances
<1>1. IncentivesInit => LedgerInv
  <2>. SUFFICES ASSUME IncentivesInit  PROVE LedgerInv
    OBVIOUS
  <2>1. Funds = Cardinality(Agents) * InitialFunds
    <3>1. /\ Agents \subseteq Holders /\ IsFiniteSet(Agents) /\ InitialFunds \in Nat
          /\ \A a \in Holders : funds[a] = IF a \in Agents THEN InitialFunds ELSE 0
      BY IncentivesAssumption DEF IncentivesInit, Holders
    <3>. QED  BY <3>1, SumEqualParts DEF Funds
  <2>2. Live = {} /\ Minted = {}
    BY DEF IncentivesInit, Live, Minted
  <2>3. Locked = 0
    <3>1. \A s \in Live : [q \in Live |-> agentStake[q].stake][s] = 0
      BY <2>2
    <3>. QED  BY <3>1, SumOfNothing DEF Locked
  <2>4. \A counter \in Counters : Total(counter) = 0
    <3>1. ASSUME NEW counter \in Counters  PROVE Total(counter) = 0
      <4>1. \A r \in Agents : [q \in Agents |-> registry[q][counter]][r] = 0
        BY DEF IncentivesInit
      <4>. QED  BY <4>1, SumOfNothing DEF Total
    <3>. QED  BY <3>1
  <2>5. SumOver(deposit, StakeIds) = 0 /\ UnmintedEmpty /\ withdrawn = 0
    <3>1. \A s \in StakeIds : deposit[s] = 0
      BY DEF IncentivesInit
    <3>. QED  BY <3>1, SumOfNothing DEF UnmintedEmpty, IncentivesInit
  <2>6. Cardinality(Agents) * InitialFunds \in Nat
    BY IncentivesAssumption, FS_CardinalityType
  <2>. QED  BY <2>1, <2>2, <2>3, <2>4, <2>5, <2>6, FS_EmptySet
            DEF LedgerInv, LedgerBalances, Counters
<1>2. IncentivesTypeOK /\ LedgerInv /\ [IncentivesNext]_incentivesVars => LedgerInv'
  <2>. SUFFICES ASSUME IncentivesTypeOK, LedgerInv, [IncentivesNext]_incentivesVars  PROVE LedgerInv'
    OBVIOUS
  <2>1. ASSUME UNCHANGED <<funds, agentStake, registry, deposit, withdrawn>>
        PROVE  LedgerInv'
    BY <2>1 DEF LedgerInv, LedgerBalances, UnmintedEmpty, Funds, Locked, Total,
                Minted, Live
  <2>2. ASSUME NEW s \in Live, NEW new \in AgentStakeObject,
               new.stake = agentStake[s].stake,
               agentStake' = [agentStake EXCEPT ![s] = new],
               UNCHANGED <<funds, registry, deposit, withdrawn>>
        PROVE  LedgerInv'
    <3>1. Locked \in Nat /\ Locked' = Locked + (new.stake - agentStake[s].stake)
            /\ Minted' = Minted
      BY <2>2, JudgementLocks
    <3>2. Locked' = Locked
      BY <2>2, <3>1 DEF AgentStakeObject
    <3>3. UnmintedEmpty'
      BY <2>2, IncentivesAssumption DEF LedgerInv, UnmintedEmpty, IncentivesTypeOK, Live
    <3>. QED  BY <2>2, <3>1, <3>2, <3>3 DEF LedgerInv, LedgerBalances, Funds, Total
  <2>3. CASE Tick
    BY <2>1, <2>3 DEF Tick, registryVars
  <2>4. ASSUME NEW a \in Admins, InitReputationRegistry(a)  PROVE LedgerInv'
    BY <2>1, <2>4 DEF InitReputationRegistry
  <2>5. ASSUME NEW r \in Agents, NEW t \in SlashTreasuries, UpdateTreasury(r, t)
        PROVE  LedgerInv'
    BY <2>1, <2>5 DEF UpdateTreasury
  <2>6. ASSUME NEW reputation \in MinReputations, NEW cooldown \in Cooldowns,
               UpdateRiskParams(reputation, cooldown)
        PROVE  LedgerInv'
    BY <2>1, <2>6 DEF UpdateRiskParams, registryVars
  <2>7. ASSUME NEW admin \in Admins, NEW s \in StakeIds, NEW correct \in BOOLEAN,
               RecordReport(admin, s, correct)
        PROVE  LedgerInv'
    <3>1. s \in Live /\ UNCHANGED <<funds, registry, deposit, withdrawn>>
      BY <2>7 DEF RecordReport, Authorised, registryVars
    <3>. QED  BY <2>2, <2>7, <3>1, ReportJudges
  <2>8. ASSUME NEW s \in StakeIds, RequestUnstake(s)  PROVE LedgerInv'
    <3>1. s \in Live /\ UNCHANGED <<funds, registry, deposit, withdrawn>>
      BY <2>8 DEF RequestUnstake, registryVars
    <3>. QED  BY <2>2, <2>8, <3>1, RequestJudges
  <2>9. CASE UNCHANGED incentivesVars
    BY <2>1, <2>9 DEF incentivesVars, registryVars
  <2>. QED  BY <2>3, <2>4, <2>5, <2>6, <2>7, <2>8, <2>9, StakeBalances, SlashBalances,
               RewardBalances, UnstakeBalances DEF IncentivesNext, AdministerStakes
<1>3. LedgerInv => LedgerBalances
  BY DEF LedgerInv
<1>. QED  BY <1>1, <1>2, <1>3, TypeCorrect, PTL DEF IncentivesSpec

-----------------------------------------------------------------------------
\* A slash of at most a fifth keeps what k + 1 slashes must leave, when what k
\* slashes must leave was there.
LEMMA SlashSurvived ==
  ASSUME NEW before \in Nat, NEW after \in Nat, NEW coin \in Nat, NEW k \in Nat,
         5 * after >= 4 * before,
         before * Power(5, k) >= coin * Power(4, k)
  PROVE  after * Power(5, k + 1) >= coin * Power(4, k + 1)
<1>. DEFINE five == Power(5, k)
            four == Power(4, k)
            left == before * five
            owed == coin * four
            worth == after * five
<1>1. five \in Nat /\ four \in Nat
  BY PowerType
<1>2. Power(5, k + 1) = five * 5 /\ Power(4, k + 1) = four * 4
  BY PowerNext
<1>. HIDE DEF five, four
<1>3. left \in Nat /\ owed \in Nat /\ worth \in Nat /\ left >= owed
  BY <1>1 DEF five, four
<1>4. five * (4 * before) <= five * (5 * after)
  <2>1. 4 * before \in Nat /\ 5 * after \in Nat /\ 4 * before <= 5 * after
    OBVIOUS
  <2>. QED  BY <1>1, <2>1, ProductBounded
<1>5. five * (4 * before) = 4 * left /\ five * (5 * after) = 5 * worth
  BY <1>1
<1>6. after * (five * 5) = 5 * worth /\ coin * (four * 4) = 4 * owed
  BY <1>1
<1>. HIDE DEF left, owed, worth
<1>7. 5 * worth >= 4 * owed
  BY <1>3, <1>4, <1>5
<1>. QED  BY <1>2, <1>6, <1>7

\* What one stake must still hold.
Survives(st, coin) == st.stake * Power(5, st.slash_count) >= coin * Power(4, st.slash_count)

\* A transaction that takes nothing from a stake and counts no slash.
LEMMA NothingTaken ==
  ASSUME NEW old \in AgentStakeObject, NEW new \in AgentStakeObject, NEW coin \in Nat,
         new.stake >= old.stake, new.slash_count = old.slash_count, Survives(old, coin)
  PROVE  Survives(new, coin)
<1>. DEFINE five == Power(5, old.slash_count)
            four == Power(4, old.slash_count)
<1>1. old.stake \in Nat /\ new.stake \in Nat /\ old.slash_count \in Nat
  BY DEF AgentStakeObject
<1>2. five \in Nat /\ four \in Nat
  BY <1>1, PowerType
<1>3. old.stake * five >= coin * four
  BY DEF Survives
<1>. HIDE DEF five, four
<1>4. five * old.stake <= five * new.stake
  BY <1>1, <1>2, ProductBounded
<1>5. five * old.stake = old.stake * five /\ five * new.stake = new.stake * five
  BY <1>1, <1>2
<1>6. old.stake * five \in Nat /\ new.stake * five \in Nat /\ coin * four \in Nat
  BY <1>1, <1>2
<1>7. new.stake * five >= coin * four
  BY <1>3, <1>4, <1>5, <1>6
<1>. QED  BY <1>7 DEF Survives, five, four

\* Replacing one stake by one that holds enough.
LEMMA ReplacedSurvives ==
  ASSUME IncentivesTypeOK, StakeSurvivesSlashes, NEW s \in Live, NEW new \in AgentStakeObject,
         Survives(new, deposit[s]), agentStake' = [agentStake EXCEPT ![s] = new],
         deposit' = deposit
  PROVE  StakeSurvivesSlashes'
<1>. SUFFICES ASSUME NEW q \in Live'
              PROVE  Survives(agentStake'[q], deposit'[q])
  BY DEF StakeSurvivesSlashes, Survives
<1>1. CASE q = s
  BY <1>1 DEF IncentivesTypeOK, Live
<1>2. CASE q # s
  <2>1. agentStake'[q] = agentStake[q] /\ q \in Live
    BY <1>2 DEF IncentivesTypeOK, Live
  <2>. QED  BY <2>1 DEF StakeSurvivesSlashes, Survives
<1>. QED  BY <1>1, <1>2

\* However often a stake is slashed, at least (4/5)^k of the coin it began with
\* is left after k slashes (StakeSurvivesSlashes of Incentives).
THEOREM StakesSurviveSlashes == IncentivesSpec => []StakeSurvivesSlashes
<1>1. IncentivesInit => StakeSurvivesSlashes
  BY DEF IncentivesInit, StakeSurvivesSlashes, Live
<1>2. IncentivesTypeOK /\ StakeSurvivesSlashes /\ [IncentivesNext]_incentivesVars => StakeSurvivesSlashes'
  <2>. SUFFICES ASSUME IncentivesTypeOK, StakeSurvivesSlashes, [IncentivesNext]_incentivesVars
                PROVE  StakeSurvivesSlashes'
    OBVIOUS
  <2>1. \A s \in Live : /\ s \in StakeIds /\ deposit[s] \in Nat
                        /\ agentStake[s] \in AgentStakeObject
                        /\ Survives(agentStake[s], deposit[s])
    BY LiveIsObject DEF StakeSurvivesSlashes, Survives, IncentivesTypeOK
  <2>2. ASSUME UNCHANGED <<agentStake, deposit>>  PROVE StakeSurvivesSlashes'
    BY <2>2 DEF StakeSurvivesSlashes, Live
  <2>3. ASSUME NEW s \in StakeIds, NEW a \in Agents, NEW amount \in StakeCoins,
               NEW r \in Agents, Stake(a, amount, r, s)
        PROVE  StakeSurvivesSlashes'
    <3>. SUFFICES ASSUME NEW q \in Live'
                  PROVE  Survives(agentStake'[q], deposit'[q])
      BY DEF StakeSurvivesSlashes, Survives
    <3>1. CASE q = s
      <4>1. /\ agentStake'[q].stake = amount /\ agentStake'[q].slash_count = 0
            /\ deposit'[q] = amount
        BY <2>3, <3>1 DEF Stake, IncentivesTypeOK
      <4>2. Power(5, 0) = 1 /\ Power(4, 0) = 1
        BY PowerOfZero
      <4>3. amount * 1 >= amount * 1
        BY IncentivesAssumption
      <4>. QED  BY <4>1, <4>2, <4>3 DEF Survives
    <3>2. CASE q # s
      <4>1. agentStake'[q] = agentStake[q] /\ deposit'[q] = deposit[q] /\ q \in Live
        BY <2>3, <3>2 DEF Stake, IncentivesTypeOK, Live
      <4>. QED  BY <2>1, <4>1
    <3>. QED  BY <3>1, <3>2
  <2>4. ASSUME NEW admin \in Admins, NEW s \in StakeIds, NEW amount \in SlashAmounts,
               NEW r \in Agents, SlashAgent(admin, s, amount, r)
        PROVE  StakeSurvivesSlashes'
    <3>1. s \in Live /\ deposit' = deposit
      BY <2>4 DEF SlashAgent, Authorised
    <3>2. PICK actual \in Nat, new \in AgentStakeObject :
            /\ Judged(agentStake[s], new)
            /\ new.stake = agentStake[s].stake - actual
            /\ 5 * actual <= agentStake[s].stake
            /\ new.slash_count = agentStake[s].slash_count + 1
            /\ agentStake' = [agentStake EXCEPT ![s] = new]
            /\ registry' = [registry EXCEPT ![r]["slashes"] = @ + 1,
                                            ![r]["slashed"] = @ + actual]
            /\ funds' = [funds EXCEPT ![slash_treasury_address[r]] = @ + actual]
      BY <2>4, SlashJudges
    <3>. DEFINE before == agentStake[s].stake
                k == agentStake[s].slash_count
    <3>3. before \in Nat /\ k \in Nat /\ new.stake \in Nat
      BY <2>1, <3>1 DEF AgentStakeObject
    <3>4. before * Power(5, k) >= deposit[s] * Power(4, k)
      BY <2>1, <3>1 DEF Survives
    <3>5. deposit[s] \in Nat
      BY <2>1, <3>1
    <3>6. new.stake = before - actual /\ 5 * actual <= before /\ new.slash_count = k + 1
      BY <3>2
    <3>. HIDE DEF before, k
    <3>7. 5 * new.stake >= 4 * before
      BY <3>3, <3>6
    <3>8. new.stake * Power(5, k + 1) >= deposit[s] * Power(4, k + 1)
      BY <3>3, <3>4, <3>5, <3>7, SlashSurvived
    <3>9. Survives(new, deposit[s])
      BY <3>6, <3>8 DEF Survives
    <3>. QED  BY <3>1, <3>2, <3>9, ReplacedSurvives
  <2>5. ASSUME NEW s \in Live, NEW new \in AgentStakeObject,
               new.stake >= agentStake[s].stake,
               new.slash_count = agentStake[s].slash_count,
               agentStake' = [agentStake EXCEPT ![s] = new], deposit' = deposit
        PROVE  StakeSurvivesSlashes'
    <3>1. Survives(new, deposit[s])
      BY <2>1, <2>5, NothingTaken
    <3>. QED  BY <2>5, <3>1, ReplacedSurvives
  <2>6. ASSUME NEW admin \in Admins, NEW s \in StakeIds, NEW reward \in RewardCoins,
               NEW r \in Agents, RewardHonestAgent(admin, s, reward, r)
        PROVE  StakeSurvivesSlashes'
    <3>1. s \in Live /\ deposit' = deposit
      BY <2>6 DEF RewardHonestAgent, Authorised
    <3>2. PICK new \in AgentStakeObject :
            /\ new.stake = agentStake[s].stake + reward
            /\ new.slash_count = agentStake[s].slash_count
            /\ agentStake' = [agentStake EXCEPT ![s] = new]
      BY <2>6, RewardJudges
    <3>3. agentStake[s].stake \in Nat /\ reward \in Nat
      BY <2>1, <3>1, IncentivesAssumption DEF AgentStakeObject
    <3>4. new.stake >= agentStake[s].stake
      BY <3>2, <3>3
    <3>. QED  BY <2>5, <3>1, <3>2, <3>4
  <2>7. ASSUME NEW s \in Live, deposit' = deposit,
               \E new \in AgentStakeObject :
                 /\ new.stake = agentStake[s].stake
                 /\ new.slash_count = agentStake[s].slash_count
                 /\ agentStake' = [agentStake EXCEPT ![s] = new]
        PROVE  StakeSurvivesSlashes'
    <3>1. PICK new \in AgentStakeObject :
            /\ new.stake = agentStake[s].stake
            /\ new.slash_count = agentStake[s].slash_count
            /\ agentStake' = [agentStake EXCEPT ![s] = new]
      BY <2>7
    <3>2. new.stake >= agentStake[s].stake
      BY <3>1 DEF AgentStakeObject
    <3>. QED  BY <2>5, <2>7, <3>1, <3>2
  <2>8. ASSUME NEW admin \in Admins, NEW s \in StakeIds, NEW correct \in BOOLEAN,
               RecordReport(admin, s, correct)
        PROVE  StakeSurvivesSlashes'
    <3>1. s \in Live /\ deposit' = deposit
      BY <2>8 DEF RecordReport, Authorised
    <3>. QED  BY <2>7, <2>8, <3>1, ReportJudges
  <2>9. ASSUME NEW s \in StakeIds, RequestUnstake(s)  PROVE StakeSurvivesSlashes'
    <3>1. s \in Live /\ deposit' = deposit
      BY <2>9 DEF RequestUnstake
    <3>. QED  BY <2>7, <2>9, <3>1, RequestJudges
  <2>10. ASSUME NEW s \in StakeIds, Unstake(s)  PROVE StakeSurvivesSlashes'
    <3>. SUFFICES ASSUME NEW q \in Live'
                  PROVE  Survives(agentStake'[q], deposit'[q])
      BY DEF StakeSurvivesSlashes, Survives
    <3>1. q # s
      BY <2>10 DEF Unstake, Live, IncentivesTypeOK
    <3>2. q \in Live /\ agentStake'[q] = agentStake[q] /\ deposit' = deposit
      BY <2>10, <3>1 DEF Unstake, Live, IncentivesTypeOK
    <3>. QED  BY <2>1, <3>2
  <2>11. CASE UNCHANGED incentivesVars \/ Tick
    BY <2>2, <2>11 DEF incentivesVars, Tick
  <2>12. ASSUME NEW a \in Admins, InitReputationRegistry(a)
         PROVE  StakeSurvivesSlashes'
    BY <2>2, <2>12 DEF InitReputationRegistry
  <2>13. ASSUME NEW r \in Agents, NEW t \in SlashTreasuries, UpdateTreasury(r, t)
         PROVE  StakeSurvivesSlashes'
    BY <2>2, <2>13 DEF UpdateTreasury
  <2>14. ASSUME NEW reputation \in MinReputations, NEW cooldown \in Cooldowns,
                UpdateRiskParams(reputation, cooldown)
         PROVE  StakeSurvivesSlashes'
    BY <2>2, <2>14 DEF UpdateRiskParams
  <2>. QED  BY <2>3, <2>4, <2>6, <2>8, <2>9, <2>10, <2>11, <2>12, <2>13, <2>14
            DEF IncentivesNext, AdministerStakes
<1>. QED  BY <1>1, <1>2, TypeCorrect, PTL DEF IncentivesSpec

=============================================================================
