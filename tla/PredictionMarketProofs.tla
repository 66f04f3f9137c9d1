----------------------- MODULE PredictionMarketProofs -----------------------
(***************************************************************************)
(* Proofs about PredictionMarket for every set of markets, positions,       *)
(* configurations and traders, and every stake the entries accept.          *)
(***************************************************************************)
EXTENDS PredictionMarket, SumTheorems

\* A fee of at most 10%, a truncated division by 10000, never exceeds the
\* amount it is taken from, so "stake_val - fee_amount" cannot underflow.
LEMMA FeeBounded ==
  ASSUME NEW amount \in Nat, NEW bps \in 0 .. MAX_FEE_BASIS_POINTS
  PROVE  /\ FeeOn(amount, bps) \in 0 .. amount
         /\ amount > 0 => FeeOn(amount, bps) < amount
<1> DEFINE prod == amount * bps
<1>1. bps \in Nat /\ bps <= 1000 /\ 1000 \in Nat
  BY DEF MAX_FEE_BASIS_POINTS
<1>2. prod \in Nat /\ prod <= amount * 1000
  BY <1>1, ProductBounded
<1> HIDE DEF prod
<1>3. prod \div 10000 \in 0 .. amount /\ (amount > 0 => prod \div 10000 < amount)
  BY <1>2
<1> QED
  BY <1>3 DEF FeeOn, FEE_DENOMINATOR, prod

\* Crediting an account, or debiting it by no more than it holds, keeps every
\* account's coins a natural number.
LEMMA CreditType ==
  ASSUME NEW coins \in [Accounts -> Nat], NEW a \in Accounts, NEW amount \in Int,
         coins[a] + amount >= 0
  PROVE  Credit(coins, a, amount) \in [Accounts -> Nat]
BY DEF Credit

\* What is left of an accepted stake after the fee is positive.
LEMMA NetStakePositive ==
  ASSUME TypeOK, NEW m \in Markets, NEW p \in Positions, NEW c \in FeeConfigs,
         NEW t \in Traders, NEW side \in Outcomes, NEW stake \in Stakes,
         OpenPosition(m, c, t, side, stake, p)
  PROVE  NetStake(c, stake) \in Nat /\ NetStake(c, stake) > 0
<1>1. stake \in Nat /\ stake > 0
  BY ConstantsAssumption DEF OpenPosition
<1>2. fee_basis_points[c] \in 0 .. MAX_FEE_BASIS_POINTS
  BY DEF TypeOK
<1>3. FeeOn(stake, fee_basis_points[c]) \in 0 .. stake
         /\ FeeOn(stake, fee_basis_points[c]) < stake
  BY <1>1, <1>2, FeeBounded
<1> QED
  BY <1>1, <1>3 DEF NetStake

\* The gross payout of a redemption that does not abort is a natural number.
LEMMA GrossPayoutType ==
  ASSUME TypeOK, NEW m \in Markets, NEW p \in Positions, NEW c \in FeeConfigs,
         RedeemPosition(m, c, p)
  PROVE  outcome[m] \in Sides /\ GrossPayout(m, p) \in Nat
<1> DEFINE pot == position[p].shares * (pool[m]["YES"] + pool[m]["NO"])
           winning == shares_total[m][outcome[m]]
<1>1. position[p] \in PositionObject /\ outcome[m] \in Sides
  BY DEF RedeemPosition, TypeOK, Held, PositionObject
<1>2. position[p].shares \in Nat /\ pool[m]["YES"] + pool[m]["NO"] \in Nat
  BY <1>1 DEF TypeOK, PositionObject, Sides
<1>3. pot \in Nat
  BY <1>2
<1>4. winning \in Nat /\ winning > 0
  BY <1>1 DEF RedeemPosition, TypeOK
<1>5. GrossPayout(m, p) = pot \div winning
  BY DEF GrossPayout
<1> HIDE DEF pot, winning
<1> QED
  BY <1>1, <1>3, <1>4, <1>5

-----------------------------------------------------------------------------
\* Types are preserved: no entry stores a value outside the range its field has
\* in the Move structs, in particular no pool, wallet or counter underflows.
THEOREM TypeCorrect == Spec => []TypeOK
<1> USE ConstantsAssumption
<1>1. Init => TypeOK
  BY DEF Init, TypeOK, FEE_BASIS_POINTS, MAX_FEE_BASIS_POINTS, Statuses,
         Outcomes, Sides, Accounts
<1>2. TypeOK /\ [Next]_vars => TypeOK'
  <2> SUFFICES ASSUME TypeOK, [Next]_vars
               PROVE  TypeOK'
    OBVIOUS
  <2>1. ASSUME NEW c \in FeeConfigs, InitPredictionMarket(c)
        PROVE  TypeOK'
    BY <2>1 DEF TypeOK, InitPredictionMarket, lifecycleVars, tradeVars
  <2>2. ASSUME NEW c \in FeeConfigs, NEW bps \in FeeRates, NEW a \in Treasuries,
               UpdateFeeConfig(c, bps, a)
        PROVE  TypeOK'
    <3>1. bps \in 0 .. MAX_FEE_BASIS_POINTS
      BY <2>2 DEF UpdateFeeConfig, FeeAccepted, MAX_FEE_BASIS_POINTS
    <3> QED
      BY <2>2, <3>1 DEF TypeOK, UpdateFeeConfig, lifecycleVars, tradeVars
  <2>3. ASSUME NEW m \in Markets, CreateMarket(m)
        PROVE  TypeOK'
    BY <2>3 DEF TypeOK, CreateMarket, configVars, tradeVars, Statuses
  <2>4. ASSUME NEW m \in Markets, NEW result \in Outcomes, ResolveMarket(m, result)
        PROVE  TypeOK'
    BY <2>4 DEF TypeOK, ResolveMarket, configVars, tradeVars, Statuses
  <2>5. ASSUME NEW m \in Markets, TripCircuitBreaker(m)
        PROVE  TypeOK'
    BY <2>5 DEF TypeOK, TripCircuitBreaker, configVars, tradeVars
  <2>6. ASSUME NEW m \in Markets, HaltMarket(m)
        PROVE  TypeOK'
    BY <2>6 DEF TypeOK, HaltMarket, configVars, tradeVars, Statuses
  <2>7. ASSUME NEW m \in Markets, CancelMarket(m)
        PROVE  TypeOK'
    BY <2>7 DEF TypeOK, CancelMarket, configVars, tradeVars, Statuses
  <2>8. ASSUME NEW m \in Markets, NEW p \in Positions, NEW c \in FeeConfigs,
               NEW t \in Traders, NEW side \in Outcomes, NEW stake \in Stakes,
               OpenPosition(m, c, t, side, stake, p)
        PROVE  TypeOK'
    <3> DEFINE fee == FeeOn(stake, fee_basis_points[c])
               net == NetStake(c, stake)
    <3>1. stake \in Nat /\ fee \in 0 .. stake
      BY FeeBounded DEF TypeOK
    <3>2. net \in Nat
      BY <3>1 DEF NetStake
    <3>3. side \in Sides /\ stake <= wallet[t]
      BY <2>8 DEF OpenPosition
    <3> HIDE DEF fee, net
    <3>4. wallet' \in [Accounts -> Nat]
      <4> DEFINE paid == Credit(wallet, t, -stake)
      <4>1. wallet' = Credit(paid, treasury_address[c], fee)
        BY <2>8 DEF OpenPosition, fee
      <4>2. paid \in [Accounts -> Nat]
        <5>1. /\ wallet \in [Accounts -> Nat] /\ t \in Accounts
              /\ -stake \in Int /\ wallet[t] + (-stake) >= 0
          BY <3>1, <3>3 DEF TypeOK, Accounts
        <5> QED
          BY <5>1, CreditType
      <4>3. treasury_address[c] \in Accounts
        BY DEF TypeOK, Accounts
      <4> HIDE DEF paid
      <4>4. fee \in Int /\ paid[treasury_address[c]] + fee >= 0
        BY <4>2, <4>3, <3>1
      <4> QED
        BY <4>1, <4>2, <4>3, <4>4, CreditType
    <3>5. /\ total_fees_collected' \in [FeeConfigs -> Nat]
          /\ fees_collected' \in [Markets -> Nat]
      <4>1. /\ total_fees_collected' = [total_fees_collected EXCEPT ![c] = @ + fee]
            /\ fees_collected' = [fees_collected EXCEPT ![m] = @ + fee]
        BY <2>8 DEF OpenPosition, fee
      <4> QED
        BY <4>1, <3>1 DEF TypeOK
    <3>6. /\ pool' \in [Markets -> [Sides -> Nat]]
          /\ shares_total' \in [Markets -> [Sides -> Nat]]
      <4>1. /\ pool' = [pool EXCEPT ![m][side] = @ + net]
            /\ shares_total' = [shares_total EXCEPT ![m][side] = @ + net]
        BY <2>8 DEF OpenPosition, net, Shares
      <4> QED
        BY <4>1, <3>2, <3>3 DEF TypeOK
    <3>7. position' \in [Positions -> PositionObject \cup {Unminted, Burned}]
      <4>1. position' = [position EXCEPT ![p] =
                [market |-> m, trader |-> t, side |-> side, shares |-> net]]
        BY <2>8 DEF OpenPosition, net, Shares
      <4> QED
        BY <4>1, <3>2, <3>3 DEF TypeOK, PositionObject
    <3>8. total_trades' \in [Markets -> Nat]
      BY <2>8 DEF OpenPosition, TypeOK
    <3> QED
      BY <2>8, <3>4, <3>5, <3>6, <3>7, <3>8 DEF TypeOK, OpenPosition, lifecycleVars
  <2>9. ASSUME NEW m \in Markets, NEW p \in Positions, NEW c \in FeeConfigs,
               RedeemPosition(m, c, p)
        PROVE  TypeOK'
    <3> DEFINE gross == GrossPayout(m, p)
               fee == FeeOn(gross, fee_basis_points[c])
    <3>1. position[p] \in PositionObject /\ outcome[m] \in Sides
      BY <2>9 DEF RedeemPosition, TypeOK, Held, PositionObject
    <3>2. gross \in Nat
      BY <2>9, GrossPayoutType
    <3>3. fee \in 0 .. gross
      BY <3>2, FeeBounded DEF TypeOK
    <3>4. gross <= pool[m][outcome[m]]
      BY <2>9 DEF RedeemPosition
    <3> HIDE DEF gross, fee
    <3>5. pool' \in [Markets -> [Sides -> Nat]]
      <4>1. pool' = [pool EXCEPT ![m][outcome[m]] = @ - fee - (gross - fee)]
        BY <2>9 DEF RedeemPosition, gross, fee
      <4> QED
        BY <4>1, <3>1, <3>2, <3>3, <3>4 DEF TypeOK
    <3>6. wallet' \in [Accounts -> Nat]
      <4> DEFINE taxed == Credit(wallet, treasury_address[c], fee)
      <4>1. wallet' = Credit(taxed, position[p].trader, gross - fee)
        BY <2>9 DEF RedeemPosition, gross, fee
      <4>2. position[p].trader \in Accounts /\ treasury_address[c] \in Accounts
        BY <3>1 DEF PositionObject, Accounts, TypeOK
      <4>3. taxed \in [Accounts -> Nat]
        <5>1. fee \in Int /\ wallet[treasury_address[c]] + fee >= 0
          BY <4>2, <3>2, <3>3 DEF TypeOK
        <5> QED
          BY <4>2, <5>1, CreditType DEF TypeOK
      <4> HIDE DEF taxed
      <4>4. gross - fee \in Int /\ taxed[position[p].trader] + (gross - fee) >= 0
        BY <4>2, <4>3, <3>2, <3>3
      <4> QED
        BY <4>1, <4>2, <4>3, <4>4, CreditType
    <3> QED
      BY <2>9, <3>5, <3>6 DEF TypeOK, RedeemPosition, Present, configVars,
                              lifecycleVars, tradeVars
  <2>10. ASSUME NEW m \in Markets, NEW p \in Positions, CancelPosition(m, p)
         PROVE  TypeOK'
    <3>1. position[p] \in PositionObject
      BY <2>10 DEF CancelPosition, TypeOK, Held
    <3>2. pool' \in [Markets -> [Sides -> Nat]]
      BY <2>10, <3>1 DEF CancelPosition, TypeOK, PositionObject
    <3>3. wallet' \in [Accounts -> Nat]
      <4>1. /\ position[p].shares \in Int
            /\ position[p].trader \in Accounts
            /\ wallet[position[p].trader] + position[p].shares >= 0
        BY <3>1 DEF TypeOK, PositionObject, Accounts
      <4> QED
        BY <2>10, <4>1, CreditType DEF CancelPosition, TypeOK
    <3> QED
      BY <2>10, <3>2, <3>3 DEF TypeOK, CancelPosition, Present, configVars,
                               lifecycleVars, tradeVars
  <2>11. CASE UNCHANGED vars
    BY <2>11 DEF TypeOK, vars, configVars, lifecycleVars, tradeVars
  <2> QED
    BY <2>1, <2>2, <2>3, <2>4, <2>5, <2>6, <2>7, <2>8, <2>9, <2>10, <2>11
       DEF Next, Administer, Trade
<1> QED
  BY <1>1, <1>2, PTL DEF Spec

-----------------------------------------------------------------------------
\* Every pool is backed share by share in every reachable state: EscrowBacked is
\* inductive relative to the types. Opening adds the same amount to a pool and
\* to its share total and needs an open market, so no outcome; redeeming takes
\* from the winning pool only; cancelling needs a cancelled market.
THEOREM EscrowIsBacked == Spec => []EscrowBacked
<1>1. Init => EscrowBacked
  BY DEF Init, EscrowBacked
<1>2. TypeOK /\ EscrowBacked /\ [Next]_vars => EscrowBacked'
  <2> SUFFICES ASSUME TypeOK, EscrowBacked, [Next]_vars
               PROVE  EscrowBacked'
    OBVIOUS
  <2>1. ASSUME UNCHANGED <<lifecycleVars, pool, shares_total>>
        PROVE  EscrowBacked'
    BY <2>1 DEF EscrowBacked, lifecycleVars
  <2>2. ASSUME NEW c \in FeeConfigs, InitPredictionMarket(c)
        PROVE  EscrowBacked'
    BY <2>1, <2>2 DEF InitPredictionMarket, tradeVars
  <2>3. ASSUME NEW c \in FeeConfigs, NEW bps \in FeeRates, NEW a \in Treasuries,
               UpdateFeeConfig(c, bps, a)
        PROVE  EscrowBacked'
    BY <2>1, <2>3 DEF UpdateFeeConfig, tradeVars
  <2>4. ASSUME NEW m \in Markets, CreateMarket(m)
        PROVE  EscrowBacked'
    BY <2>4 DEF EscrowBacked, CreateMarket, tradeVars, TypeOK
  <2>5. ASSUME NEW m \in Markets, NEW result \in Outcomes, ResolveMarket(m, result)
        PROVE  EscrowBacked'
    BY <2>5 DEF EscrowBacked, ResolveMarket, tradeVars, TypeOK, Sides
  <2>6. ASSUME NEW m \in Markets, TripCircuitBreaker(m)
        PROVE  EscrowBacked'
    BY <2>6 DEF EscrowBacked, TripCircuitBreaker, tradeVars
  <2>7. ASSUME NEW m \in Markets, HaltMarket(m)
        PROVE  EscrowBacked'
    BY <2>7 DEF EscrowBacked, HaltMarket, tradeVars, TypeOK
  <2>8. ASSUME NEW m \in Markets, CancelMarket(m)
        PROVE  EscrowBacked'
    BY <2>8 DEF EscrowBacked, CancelMarket, tradeVars, TypeOK
  <2>9. ASSUME NEW m \in Markets, NEW p \in Positions, NEW c \in FeeConfigs,
               NEW t \in Traders, NEW side \in Outcomes, NEW stake \in Stakes,
               OpenPosition(m, c, t, side, stake, p)
        PROVE  EscrowBacked'
    <3> DEFINE net == NetStake(c, stake)
    <3>1. net \in Int
      <4>1. stake \in Nat /\ fee_basis_points[c] \in 0 .. MAX_FEE_BASIS_POINTS
        BY ConstantsAssumption DEF TypeOK
      <4> QED
        BY <4>1, FeeBounded DEF NetStake
    <3>2. /\ status[m] = "OPEN" /\ side \in Sides
          /\ pool' = [pool EXCEPT ![m][side] = @ + net]
          /\ shares_total' = [shares_total EXCEPT ![m][side] = @ + net]
          /\ UNCHANGED lifecycleVars
      BY <2>9 DEF OpenPosition, Shares, AcceptsTrades
    <3> HIDE DEF net
    <3>3. pool[m][side] = shares_total[m][side] /\ outcome[m] = "NONE"
      BY <3>2 DEF EscrowBacked, Sides
    <3> QED
      BY <3>1, <3>2, <3>3 DEF EscrowBacked, TypeOK, lifecycleVars
  <2>10. ASSUME NEW m \in Markets, NEW p \in Positions, NEW c \in FeeConfigs,
                RedeemPosition(m, c, p)
         PROVE  EscrowBacked'
    <3> DEFINE gross == GrossPayout(m, p)
               fee == FeeOn(gross, fee_basis_points[c])
    <3>1. /\ gross \in Nat /\ fee \in 0 .. gross /\ outcome[m] \in Sides
      <4>1. outcome[m] \in Sides /\ gross \in Nat
        BY <2>10, GrossPayoutType
      <4> QED
        BY <4>1, FeeBounded DEF TypeOK
    <3>2. /\ pool' = [pool EXCEPT ![m][outcome[m]] = @ - fee - (gross - fee)]
          /\ UNCHANGED <<lifecycleVars, shares_total>>
      BY <2>10 DEF RedeemPosition, tradeVars
    <3> HIDE DEF gross, fee
    <3> QED
      BY <3>1, <3>2 DEF EscrowBacked, TypeOK, lifecycleVars
  <2>11. ASSUME NEW m \in Markets, NEW p \in Positions, CancelPosition(m, p)
         PROVE  EscrowBacked'
    <3>1. position[p] \in PositionObject
      BY <2>11 DEF CancelPosition, TypeOK, Held
    <3>2. /\ pool' = [pool EXCEPT ![m][position[p].side] = @ - position[p].shares]
          /\ status[m] = "CANCELLED"
          /\ UNCHANGED <<lifecycleVars, shares_total>>
      BY <2>11 DEF CancelPosition, PaysRefunds, tradeVars
    <3>3. position[p].shares \in Nat /\ position[p].side \in Sides
      BY <3>1 DEF PositionObject
    <3> QED
      BY <3>2, <3>3 DEF EscrowBacked, TypeOK, lifecycleVars
  <2>12. CASE UNCHANGED vars
    BY <2>1, <2>12 DEF vars, tradeVars
  <2> QED
    BY <2>2, <2>3, <2>4, <2>5, <2>6, <2>7, <2>8, <2>9, <2>10, <2>11, <2>12
       DEF Next, Administer, Trade
<1> QED
  BY <1>1, <1>2, TypeCorrect, PTL DEF Spec

-----------------------------------------------------------------------------
\* No step, of any entry with any arguments, alters a market that is closed or
\* sells shares of one whose circuit breaker is tripped.
THEOREM ClosedMarketsAreFrozen == Spec => ClosedMarketFrozen
<1>1. TypeOK /\ [Next]_vars => [\A m \in Markets : ClosedMarketStep(m)]_vars
  <2> SUFFICES ASSUME TypeOK, Next, NEW n \in Markets
               PROVE  ClosedMarketStep(n)
    BY DEF vars
  <2>1. ASSUME UNCHANGED <<lifecycleVars, tradeVars>>
        PROVE  ClosedMarketStep(n)
    BY <2>1 DEF ClosedMarketStep, lifecycleVars, tradeVars
  <2>2. ASSUME NEW c \in FeeConfigs, InitPredictionMarket(c)
        PROVE  ClosedMarketStep(n)
    BY <2>1, <2>2 DEF InitPredictionMarket
  <2>3. ASSUME NEW c \in FeeConfigs, NEW bps \in FeeRates, NEW a \in Treasuries,
               UpdateFeeConfig(c, bps, a)
        PROVE  ClosedMarketStep(n)
    BY <2>1, <2>3 DEF UpdateFeeConfig
  <2>4. ASSUME NEW m \in Markets,
               \/ CreateMarket(m) \/ HaltMarket(m) \/ CancelMarket(m)
               \/ \E result \in Outcomes : ResolveMarket(m, result)
        PROVE  ClosedMarketStep(n)
    BY <2>4 DEF ClosedMarketStep, CreateMarket, ResolveMarket, HaltMarket,
                CancelMarket, TypeOK, tradeVars
  <2>5. ASSUME NEW m \in Markets, TripCircuitBreaker(m)
        PROVE  ClosedMarketStep(n)
    BY <2>5 DEF ClosedMarketStep, TripCircuitBreaker, TypeOK, tradeVars
  <2>6. ASSUME NEW m \in Markets, NEW p \in Positions, NEW c \in FeeConfigs,
               NEW t \in Traders, NEW side \in Outcomes, NEW stake \in Stakes,
               OpenPosition(m, c, t, side, stake, p)
        PROVE  ClosedMarketStep(n)
    <3>1. CASE n = m
      BY <2>6, <3>1 DEF ClosedMarketStep, OpenPosition, AcceptsTrades, lifecycleVars
    <3>2. CASE n # m
      BY <2>6, <3>2 DEF ClosedMarketStep, OpenPosition, AcceptsTrades, lifecycleVars, TypeOK
    <3> QED
      BY <3>1, <3>2
  <2>7. ASSUME NEW m \in Markets, NEW p \in Positions, NEW c \in FeeConfigs,
               RedeemPosition(m, c, p)
        PROVE  ClosedMarketStep(n)
    BY <2>1, <2>7 DEF RedeemPosition
  <2>8. ASSUME NEW m \in Markets, NEW p \in Positions, CancelPosition(m, p)
        PROVE  ClosedMarketStep(n)
    BY <2>1, <2>8 DEF CancelPosition
  <2> QED
    BY <2>2, <2>3, <2>4, <2>5, <2>6, <2>7, <2>8 DEF Next, Administer, Trade
<1> QED
  BY <1>1, TypeCorrect, PTL DEF Spec, ClosedMarketFrozen

-----------------------------------------------------------------------------
\* What the escrow holds for a market under the refinement mapping.
HeldBy(m) == pool[m]["YES"] + pool[m]["NO"]

\* The Move package implements the custody promise of MarketEscrow: every step
\* of it is an escrow step or leaves phase and held alone. A deposit is positive
\* because the smallest stake is and no fee takes more than a tenth of it.
THEOREM ImplementsEscrow == Spec => EscrowSpec
<1>1. Init => Escrow!Init
  BY DEF Init, Escrow!Init, Sides
<1>2. TypeOK /\ [Next]_vars => [Escrow!Next]_(Escrow!vars)
  <2> SUFFICES ASSUME TypeOK, [Next]_vars
               PROVE  Escrow!Next \/ UNCHANGED Escrow!vars
    OBVIOUS
  <2>1. ASSUME UNCHANGED <<status, pool>>
        PROVE  UNCHANGED Escrow!vars
    BY <2>1 DEF Escrow!vars
  <2>2. ASSUME NEW c \in FeeConfigs, InitPredictionMarket(c)
        PROVE  UNCHANGED Escrow!vars
    BY <2>1, <2>2 DEF InitPredictionMarket, lifecycleVars
  <2>3. ASSUME NEW c \in FeeConfigs, NEW bps \in FeeRates, NEW a \in Treasuries,
               UpdateFeeConfig(c, bps, a)
        PROVE  UNCHANGED Escrow!vars
    BY <2>1, <2>3 DEF UpdateFeeConfig, lifecycleVars
  <2>4. ASSUME NEW m \in Markets, TripCircuitBreaker(m)
        PROVE  UNCHANGED Escrow!vars
    BY <2>1, <2>4 DEF TripCircuitBreaker
  <2>5. CASE UNCHANGED vars
    BY <2>1, <2>5 DEF vars, lifecycleVars
  <2>6. ASSUME NEW m \in Markets, CreateMarket(m)
        PROVE  Escrow!Next
    <3>1. Escrow!Open(m)
      BY <2>6 DEF CreateMarket, Escrow!Open
    <3> QED
      BY <3>1 DEF Escrow!Next
  <2>7. ASSUME NEW m \in Markets,
               \/ HaltMarket(m) \/ CancelMarket(m)
               \/ \E result \in Outcomes : ResolveMarket(m, result)
        PROVE  Escrow!Next
    <3>1. Escrow!Close(m)
      BY <2>7 DEF ResolveMarket, HaltMarket, CancelMarket, Escrow!Close, Escrow!Closed
    <3> QED
      BY <3>1 DEF Escrow!Next
  <2>8. ASSUME NEW m \in Markets, NEW p \in Positions, NEW c \in FeeConfigs,
               NEW t \in Traders, NEW side \in Outcomes, NEW stake \in Stakes,
               OpenPosition(m, c, t, side, stake, p)
        PROVE  Escrow!Next
    <3> DEFINE net == NetStake(c, stake)
    <3>1. net \in Nat /\ net > 0
      BY <2>8, NetStakePositive
    <3>2. /\ status[m] = "OPEN" /\ side \in Sides
          /\ pool' = [pool EXCEPT ![m][side] = @ + net]
          /\ UNCHANGED status
      BY <2>8 DEF OpenPosition, AcceptsTrades, lifecycleVars
    <3> HIDE DEF net
    <3>3. /\ HeldBy(m)' > HeldBy(m)
          /\ \A n \in Markets \ {m} : HeldBy(n)' = HeldBy(n)
      BY <3>1, <3>2 DEF HeldBy, TypeOK, Sides
    <3>4. status[m] = "OPEN" /\ UNCHANGED status
      BY <3>2
    <3>5. Escrow!Deposit(m)
      BY <3>3, <3>4 DEF HeldBy, Escrow!Deposit
    <3> QED
      BY <3>5 DEF Escrow!Next
  <2>9. ASSUME NEW m \in Markets, status[m] \in {"RESOLVED", "CANCELLED"},
               HeldBy(m)' \in 0 .. HeldBy(m),
               \A n \in Markets \ {m} : HeldBy(n)' = HeldBy(n),
               UNCHANGED status
        PROVE  Escrow!Next
    <3>1. Escrow!Release(m)
      BY <2>9 DEF HeldBy, Escrow!Release
    <3> QED
      BY <3>1 DEF Escrow!Next
  <2>10. ASSUME NEW m \in Markets, NEW p \in Positions, NEW c \in FeeConfigs,
                RedeemPosition(m, c, p)
         PROVE  Escrow!Next
    <3> DEFINE gross == GrossPayout(m, p)
               fee == FeeOn(gross, fee_basis_points[c])
    <3>1. outcome[m] \in Sides /\ gross \in Nat
      BY <2>10, GrossPayoutType
    <3>2. fee \in 0 .. gross
      BY <3>1, FeeBounded DEF TypeOK
    <3>3. /\ pool' = [pool EXCEPT ![m][outcome[m]] = @ - fee - (gross - fee)]
          /\ gross <= pool[m][outcome[m]]
          /\ status[m] = "RESOLVED" /\ UNCHANGED status
      BY <2>10 DEF RedeemPosition, lifecycleVars
    <3> HIDE DEF gross, fee
    <3>4. /\ HeldBy(m)' \in 0 .. HeldBy(m)
          /\ \A n \in Markets \ {m} : HeldBy(n)' = HeldBy(n)
      BY <3>1, <3>2, <3>3 DEF HeldBy, TypeOK, Sides
    <3> QED
      BY <2>9, <3>3, <3>4
  <2>11. ASSUME NEW m \in Markets, NEW p \in Positions, CancelPosition(m, p)
         PROVE  Escrow!Next
    <3>1. position[p].shares \in Nat /\ position[p].side \in Sides
      BY <2>11 DEF CancelPosition, TypeOK, Held, PositionObject
    <3>2. /\ pool' = [pool EXCEPT ![m][position[p].side] = @ - position[p].shares]
          /\ position[p].shares <= pool[m][position[p].side]
          /\ status[m] = "CANCELLED" /\ UNCHANGED status
      BY <2>11 DEF CancelPosition, PaysRefunds, lifecycleVars
    <3>3. /\ HeldBy(m)' \in 0 .. HeldBy(m)
          /\ \A n \in Markets \ {m} : HeldBy(n)' = HeldBy(n)
      BY <3>1, <3>2 DEF HeldBy, TypeOK, Sides
    <3> QED
      BY <2>9, <3>2, <3>3
  <2> QED
    BY <2>2, <2>3, <2>4, <2>5, <2>6, <2>7, <2>8, <2>10, <2>11
       DEF Next, Administer, Trade
<1> QED
  BY <1>1, <1>2, TypeCorrect, PTL DEF Spec, EscrowSpec, Escrow!Spec

-----------------------------------------------------------------------------
(* Money. SumTheorems gives what each entry does to the two sums.           *)

Slots == Markets \X Sides

\* Accounts and the slots of the pools are finite.
LEMMA FiniteAccounts == IsFiniteSet(Accounts) /\ IsFiniteSet(Slots)
<1>1. IsFiniteSet(Accounts)
  BY ConstantsAssumption, FS_Union DEF Accounts
<1>2. IsFiniteSet({"YES"}) /\ IsFiniteSet({"NO"})
  BY FS_Singleton
<1>3. IsFiniteSet({"YES"} \cup {"NO"})
  BY <1>2, FS_Union
<1>4. Sides = {"YES"} \cup {"NO"}
  BY DEF Sides
<1>5. IsFiniteSet(Slots)
  BY <1>3, <1>4, ConstantsAssumption, FS_Product DEF Slots
<1> QED
  BY <1>1, <1>5

\* A credit adds to the sum what it adds to the account.
LEMMA CreditSum ==
  ASSUME NEW coins \in [Accounts -> Nat], NEW a \in Accounts, NEW amount \in Int,
         coins[a] + amount >= 0
  PROVE  /\ SumOver(coins, Accounts) \in Nat
         /\ SumOver(Credit(coins, a, amount), Accounts)
              = SumOver(coins, Accounts) + amount
<1> DEFINE after == Credit(coins, a, amount)
<1>1. Summable(coins, Accounts)
  BY FiniteAccounts DEF Summable
<1>2. after[a] = coins[a] + amount /\ \A b \in Accounts \ {a} : after[b] = coins[b]
  BY DEF Credit
<1>3. coins[a] \in Nat /\ after[a] \in Nat
  BY <1>2
<1> HIDE DEF after
<1>4. SumOver(after, Accounts) = SumOver(coins, Accounts) + (after[a] - coins[a])
  BY <1>1, <1>2, <1>3, SumChanged
<1>5. SumOver(coins, Accounts) \in Nat
  BY <1>1, SumType
<1> QED
  BY <1>2, <1>3, <1>4, <1>5 DEF after

\* A change of one pool changes what all of them hold by as much.
LEMMA PooledChanges ==
  ASSUME TypeOK, NEW m \in Markets, NEW side \in Sides, NEW amount \in Int,
         pool[m][side] + amount >= 0,
         pool' = [pool EXCEPT ![m][side] = @ + amount]
  PROVE  Pooled \in Nat /\ Pooled' = Pooled + amount
<1> DEFINE old == [ms \in Slots |-> pool[ms[1]][ms[2]]]
           new == [ms \in Slots |-> pool'[ms[1]][ms[2]]]
           slot == <<m, side>>
<1>1. Pooled = SumOver(old, Slots) /\ Pooled' = SumOver(new, Slots)
  BY DEF Pooled, Slots
<1>2. slot \in Slots
  BY DEF Slots
<1>3. Summable(old, Slots)
  BY FiniteAccounts DEF Summable, Slots, TypeOK
<1>4. new[slot] = old[slot] + amount /\ old[slot] = pool[m][side]
  BY <1>2 DEF Slots, TypeOK
<1>5. \A x \in Slots \ {slot} : new[x] = old[x]
  <2>1. ASSUME NEW x \in Slots \ {slot}
        PROVE  new[x] = old[x]
    <3>1. PICK n \in Markets, other \in Sides : x = <<n, other>>
      BY DEF Slots
    <3>2. n # m \/ other # side
      BY <3>1
    <3>3. pool'[n][other] = pool[n][other]
      BY <3>2 DEF TypeOK
    <3> QED
      BY <3>1, <3>3
  <2> QED
    BY <2>1
<1>6. old[slot] \in Nat /\ new[slot] \in Nat
  BY <1>4 DEF TypeOK
<1> HIDE DEF old, new, slot
<1>7. SumOver(new, Slots) = SumOver(old, Slots) + (new[slot] - old[slot])
  BY <1>2, <1>3, <1>5, <1>6, SumChanged
<1>8. SumOver(old, Slots) \in Nat
  BY <1>3, SumType
<1> QED
  BY <1>1, <1>4, <1>6, <1>7, <1>8

\* Opening: the stake leaves the trader, the fee reaches a treasury and the rest
\* the pool.
LEMMA OpenConserves ==
  ASSUME TypeOK, NEW m \in Markets, NEW p \in Positions, NEW c \in FeeConfigs,
         NEW t \in Traders, NEW side \in Outcomes, NEW stake \in Stakes,
         OpenPosition(m, c, t, side, stake, p)
  PROVE  Wallets' + Pooled' = Wallets + Pooled
<1> DEFINE fee == FeeOn(stake, fee_basis_points[c])
           net == NetStake(c, stake)
           paid == Credit(wallet, t, -stake)
<1>1. stake \in Nat /\ fee \in 0 .. stake /\ net = stake - fee
  BY ConstantsAssumption, FeeBounded DEF TypeOK, NetStake
<1>2. side \in Sides /\ stake <= wallet[t]
  BY DEF OpenPosition
<1>3. wallet' = Credit(paid, treasury_address[c], fee)
  BY DEF OpenPosition
<1>4. pool' = [pool EXCEPT ![m][side] = @ + net]
  BY DEF OpenPosition
<1>5. /\ wallet \in [Accounts -> Nat] /\ t \in Accounts /\ -stake \in Int
      /\ wallet[t] + (-stake) >= 0 /\ treasury_address[c] \in Accounts
  BY <1>1, <1>2 DEF TypeOK, Accounts
<1> HIDE DEF fee, net
<1>6. paid \in [Accounts -> Nat]
  BY <1>5, CreditType
<1>7. Wallets \in Nat /\ SumOver(paid, Accounts) = Wallets + (-stake)
  BY <1>5, CreditSum DEF Wallets
<1> HIDE DEF paid
<1>8. fee \in Int /\ paid[treasury_address[c]] + fee >= 0
  BY <1>1, <1>5, <1>6
<1>9. Wallets' = SumOver(paid, Accounts) + fee
  BY <1>3, <1>5, <1>6, <1>8, CreditSum DEF Wallets
<1>10. net \in Int /\ pool[m][side] + net >= 0
  BY <1>1, <1>2 DEF TypeOK
<1>11. Pooled \in Nat /\ Pooled' = Pooled + net
  BY <1>2, <1>4, <1>10, PooledChanges
<1> QED
  BY <1>1, <1>7, <1>8, <1>9, <1>10, <1>11

\* Redeeming: what leaves the winning pool is the fee of a treasury and the
\* payout of a trader.
LEMMA RedeemConserves ==
  ASSUME TypeOK, NEW m \in Markets, NEW p \in Positions, NEW c \in FeeConfigs,
         RedeemPosition(m, c, p)
  PROVE  Wallets' + Pooled' = Wallets + Pooled
<1> DEFINE gross == GrossPayout(m, p)
           fee == FeeOn(gross, fee_basis_points[c])
           taxed == Credit(wallet, treasury_address[c], fee)
           side == outcome[m]
<1>1. gross \in Nat /\ side \in Sides
  BY GrossPayoutType
<1>2. fee \in 0 .. gross
  BY <1>1, FeeBounded DEF TypeOK
<1>3. wallet' = Credit(taxed, position[p].trader, gross - fee)
  BY DEF RedeemPosition
<1>4. gross <= pool[m][side] /\ pool' = [pool EXCEPT ![m][side] = @ - fee - (gross - fee)]
  BY DEF RedeemPosition
<1>5. position[p] \in PositionObject
  BY DEF RedeemPosition, TypeOK, Held
<1>6. /\ wallet \in [Accounts -> Nat] /\ treasury_address[c] \in Accounts
      /\ position[p].trader \in Accounts
  BY <1>5 DEF TypeOK, Accounts, PositionObject
<1> HIDE DEF gross, fee, side
<1>7. /\ fee \in Int /\ gross - fee \in Nat
      /\ wallet[treasury_address[c]] + fee >= 0
  BY <1>1, <1>2, <1>6
<1>8. taxed \in [Accounts -> Nat]
  BY <1>6, <1>7, CreditType
<1>9. Wallets \in Nat /\ SumOver(taxed, Accounts) = Wallets + fee
  BY <1>6, <1>7, CreditSum DEF Wallets
<1> HIDE DEF taxed
<1>10. taxed[position[p].trader] + (gross - fee) >= 0
  BY <1>6, <1>7, <1>8
<1>11. Wallets' = SumOver(taxed, Accounts) + (gross - fee)
  BY <1>3, <1>6, <1>7, <1>8, <1>10, CreditSum DEF Wallets
<1>12. pool' = [pool EXCEPT ![m][side] = @ + (-gross)]
  <2>1. pool[m][side] \in Int /\ fee \in Int /\ gross \in Int
    BY <1>1, <1>2 DEF TypeOK
  <2>2. pool[m][side] - fee - (gross - fee) = pool[m][side] + (-gross)
    BY <2>1
  <2> QED
    BY <1>4, <2>2
<1>13. -gross \in Int /\ pool[m][side] + (-gross) >= 0
  BY <1>1, <1>4 DEF TypeOK
<1>14. Pooled \in Nat /\ Pooled' = Pooled + (-gross)
  BY <1>1, <1>12, <1>13, PooledChanges
<1> QED
  BY <1>1, <1>2, <1>9, <1>11, <1>14

\* A refund moves the shares of the position from a pool to its trader.
LEMMA RefundConserves ==
  ASSUME TypeOK, NEW m \in Markets, NEW p \in Positions, CancelPosition(m, p)
  PROVE  Wallets' + Pooled' = Wallets + Pooled
<1> DEFINE refund == position[p].shares
           side == position[p].side
<1>1. position[p] \in PositionObject
  BY DEF CancelPosition, TypeOK, Held
<1>2. refund \in Nat /\ side \in Sides /\ position[p].trader \in Accounts
  BY <1>1 DEF PositionObject, Accounts
<1>3. /\ refund <= pool[m][side] /\ pool' = [pool EXCEPT ![m][side] = @ - refund]
      /\ wallet' = Credit(wallet, position[p].trader, refund)
  BY DEF CancelPosition
<1> HIDE DEF refund, side
<1>4. /\ wallet \in [Accounts -> Nat] /\ refund \in Int
      /\ wallet[position[p].trader] + refund >= 0
  BY <1>2 DEF TypeOK
<1>5. Wallets \in Nat /\ Wallets' = Wallets + refund
  BY <1>2, <1>3, <1>4, CreditSum DEF Wallets
<1>6. pool' = [pool EXCEPT ![m][side] = @ + (-refund)]
  BY <1>2, <1>3 DEF TypeOK
<1>7. -refund \in Int /\ pool[m][side] + (-refund) >= 0
  BY <1>2, <1>3 DEF TypeOK
<1>8. Pooled \in Nat /\ Pooled' = Pooled + (-refund)
  BY <1>2, <1>6, <1>7, PooledChanges
<1> QED
  BY <1>2, <1>5, <1>8

\* No entry makes or loses SUI: what the traders start with is always in the
\* wallets and the pools. Every abort of the code is needed for it: an
\* underflow would leave a split larger than what it is taken from.
THEOREM NoSuiIsMadeOrLost == Spec => []SuiConserved
<1>1. Init => SuiConserved
  <2> SUFFICES ASSUME Init
               PROVE  SuiConserved
    OBVIOUS
  <2>1. Wallets = Cardinality(Traders) * InitialCoins
    <3>1. /\ Traders \subseteq Accounts /\ IsFiniteSet(Traders) /\ InitialCoins \in Nat
          /\ \A a \in Accounts : wallet[a] = IF a \in Traders THEN InitialCoins ELSE 0
      BY ConstantsAssumption DEF Init, Accounts
    <3> QED
      BY <3>1, SumEqualParts DEF Wallets
  <2>2. Pooled = 0
    <3> DEFINE slots == [ms \in Slots |-> pool[ms[1]][ms[2]]]
    <3>1. \A ms \in Slots : slots[ms] = 0
      BY DEF Init, Slots
    <3> HIDE DEF slots
    <3>2. SumOver(slots, Slots) = 0
      BY <3>1, SumOfNothing
    <3> QED
      BY <3>2 DEF Pooled, Slots, slots
  <2>3. Cardinality(Traders) * InitialCoins \in Nat
    BY ConstantsAssumption, FS_CardinalityType
  <2> QED
    BY <2>1, <2>2, <2>3 DEF SuiConserved
<1>2. TypeOK /\ SuiConserved /\ [Next]_vars => SuiConserved'
  <2> SUFFICES ASSUME TypeOK, SuiConserved, [Next]_vars
               PROVE  SuiConserved'
    OBVIOUS
  <2>1. ASSUME UNCHANGED <<wallet, pool>>
        PROVE  SuiConserved'
    BY <2>1 DEF SuiConserved, Wallets, Pooled
  <2>2. ASSUME Administer
        PROVE  SuiConserved'
    BY <2>1, <2>2 DEF Administer, InitPredictionMarket, UpdateFeeConfig, CreateMarket,
       ResolveMarket, TripCircuitBreaker, HaltMarket, CancelMarket
  <2>3. ASSUME Trade
        PROVE  Wallets' + Pooled' = Wallets + Pooled
    BY <2>3, OpenConserves, RedeemConserves, RefundConserves DEF Trade
  <2>4. CASE UNCHANGED vars
    BY <2>1, <2>4 DEF vars
  <2> QED
    BY <2>2, <2>3, <2>4 DEF Next, SuiConserved
<1> QED
  BY <1>1, <1>2, TypeCorrect, PTL DEF Spec

-----------------------------------------------------------------------------
(* Refunds.                                                                 *)

\* The positions outstanding on a side are finite in number, and their shares
\* natural numbers.
LEMMA OutstandingSummable ==
  ASSUME TypeOK, NEW m, NEW side
  PROVE  Summable([q \in Held |-> position[q].shares], Outstanding(m, side))
<1>1. Outstanding(m, side) \subseteq Positions /\ Outstanding(m, side) \subseteq Held
  BY DEF Outstanding, Held
<1>2. IsFiniteSet(Outstanding(m, side))
  BY <1>1, FS_Subset, ConstantsAssumption
<1>3. \A q \in Held : position[q] \in PositionObject
  BY DEF Held, TypeOK
<1>4. \A q \in Held : position[q].shares \in Nat
  BY <1>3 DEF PositionObject
<1> QED
  BY <1>1, <1>2, <1>4 DEF Summable

\* A position that is burned is outstanding no more: nothing else about the
\* outstanding shares changes.
LEMMA BurnedShares ==
  ASSUME TypeOK, NEW p \in Held, position' = [position EXCEPT ![p] = Burned],
         NEW m, NEW side
  PROVE  /\ OutstandingShares(m, side) \in Nat
         /\ OutstandingShares(m, side)' \in Nat
         /\ OutstandingShares(m, side)' <= OutstandingShares(m, side)
         /\ (position[p].market = m /\ position[p].side = side) =>
              OutstandingShares(m, side) = OutstandingShares(m, side)' + position[p].shares
<1> DEFINE shares == [q \in Held |-> position[q].shares]
           after == [q \in Held' |-> position'[q].shares]
           old == Outstanding(m, side)
           new == Outstanding(m, side)'
<1>1. p \in Positions /\ position[p] \in PositionObject
  BY DEF Held, TypeOK
<1>2. Held' = Held \ {p}
  BY <1>1 DEF Held, TypeOK
<1>3. \A q \in Held' : position'[q] = position[q]
  BY <1>2 DEF Held, TypeOK
<1>4. new = old \ {p}
  BY <1>2, <1>3 DEF Outstanding
<1>5. \A q \in new : after[q] = shares[q]
  <2>1. \A q \in new : q \in Held' /\ q \in Held
    BY <1>2 DEF Outstanding
  <2> QED
    BY <1>3, <2>1
<1>6. OutstandingShares(m, side) = SumOver(shares, old)
  BY DEF OutstandingShares
<1>7. OutstandingShares(m, side)' = SumOver(after, new)
  BY DEF OutstandingShares
<1>8. Summable(shares, old)
  BY OutstandingSummable
<1>9. SumOver(after, new) = SumOver(shares, old \ {p})
  BY <1>4, <1>5, SumSame
<1>10. (p \in old) <=> (position[p].market = m /\ position[p].side = side)
  BY DEF Outstanding
<1>11. shares[p] = position[p].shares /\ position[p].shares \in Nat
  BY <1>1 DEF PositionObject
<1>12. CASE p \in old
  <2> HIDE DEF shares, after, old, new
  <2>1. Summable(shares, old \ {p}) /\ SumOver(shares, old) = SumOver(shares, old \ {p}) + shares[p]
    BY <1>8, <1>12, SumLess
  <2>2. SumOver(shares, old \ {p}) \in Nat
    BY <2>1, SumType
  <2> QED
    BY <1>6, <1>7, <1>9, <1>11, <2>1, <2>2
<1>13. CASE p \notin old
  <2>1. old \ {p} = old
    BY <1>13
  <2> HIDE DEF shares, after, old, new
  <2>2. SumOver(shares, old) \in Nat
    BY <1>8, SumType
  <2> QED
    BY <1>6, <1>7, <1>9, <1>10, <1>13, <2>1, <2>2
<1> QED
  BY <1>12, <1>13

\* A position that is opened adds its shares to its side of its market, and to
\* no other.
LEMMA OpenedShares ==
  ASSUME TypeOK, NEW p \in Positions, position[p] = Unminted,
         NEW object \in PositionObject,
         position' = [position EXCEPT ![p] = object],
         NEW m, NEW side
  PROVE  /\ OutstandingShares(m, side) \in Nat
         /\ OutstandingShares(m, side)' =
              OutstandingShares(m, side)
                + (IF object.market = m /\ object.side = side THEN object.shares ELSE 0)
<1> DEFINE shares == [q \in Held |-> position[q].shares]
           after == [q \in Held' |-> position'[q].shares]
           old == Outstanding(m, side)
           new == Outstanding(m, side)'
<1>1. position'[p] = object /\ object \notin {Unminted, Burned}
  BY ConstantsAssumption DEF TypeOK
<1>2. p \notin Held /\ Held' = Held \cup {p}
  BY <1>1 DEF Held, TypeOK
<1>3. \A q \in Held : position'[q] = position[q]
  BY <1>2 DEF Held, TypeOK
<1>4. new = IF object.market = m /\ object.side = side THEN old \cup {p} ELSE old
  BY <1>1, <1>2, <1>3 DEF Outstanding
<1>5. p \notin old /\ \A q \in old : after[q] = shares[q]
  BY <1>2, <1>3 DEF Outstanding
<1>6. after[p] = object.shares /\ object.shares \in Nat
  BY <1>1, <1>2 DEF PositionObject
<1>7. OutstandingShares(m, side) = SumOver(shares, old)
  BY DEF OutstandingShares
<1>8. OutstandingShares(m, side)' = SumOver(after, new)
  BY DEF OutstandingShares
<1>9. Summable(shares, old)
  BY OutstandingSummable
<1> HIDE DEF shares, after, old, new
<1>10. SumOver(after, old) = SumOver(shares, old) /\ SumOver(shares, old) \in Nat
  BY <1>5, <1>9, SumSame, SumType
<1>11. Summable(after, old)
  BY <1>5, <1>9 DEF Summable
<1>12. CASE object.market = m /\ object.side = side
  <2>1. SumOver(after, old \cup {p}) = SumOver(after, old) + after[p]
    BY <1>5, <1>6, <1>11, SumMore
  <2> QED
    BY <1>4, <1>6, <1>7, <1>8, <1>10, <1>12, <2>1
<1>13. CASE ~(object.market = m /\ object.side = side)
  BY <1>4, <1>7, <1>8, <1>10, <1>13
<1> QED
  BY <1>12, <1>13

\* Refunds never run out. Opening adds as many shares as it adds coins; a refund
\* takes as many of both from a market that is only given its own positions; a
\* redemption takes coins of resolved markets only, and a position that is given
\* to another market than its own leaves one claim less behind.
THEOREM RefundsAreCovered == Spec => []RefundsCovered
<1>1. Init => RefundsCovered
  <2> SUFFICES ASSUME Init, NEW m \in Markets, NEW side \in Sides
               PROVE  pool[m][side] >= OutstandingShares(m, side)
    BY DEF RefundsCovered
  <2>1. Outstanding(m, side) = {}
    BY DEF Init, Outstanding, Held
  <2>2. OutstandingShares(m, side) = 0
    <3> HIDE DEF Outstanding
    <3>1. \A x \in Outstanding(m, side) : [q \in Held |-> position[q].shares][x] = 0
      BY <2>1
    <3> QED
      BY <3>1, SumOfNothing DEF OutstandingShares
  <2>3. pool[m][side] = 0
    BY DEF Init
  <2> QED
    BY <2>2, <2>3
<1>2. TypeOK /\ RefundsCovered /\ [Next]_vars => RefundsCovered'
  <2> SUFFICES ASSUME TypeOK, RefundsCovered, [Next]_vars
               PROVE  RefundsCovered'
    OBVIOUS
  <2>1. ASSUME UNCHANGED <<pool, position, mispresented>>,
               \A m \in Markets : status[m] = "RESOLVED" => status'[m] = "RESOLVED"
        PROVE  RefundsCovered'
    <3>1. \A m, side : OutstandingShares(m, side)' = OutstandingShares(m, side)
      BY <2>1 DEF OutstandingShares, Outstanding, Held
    <3> QED
      BY <2>1, <3>1 DEF RefundsCovered
  <2>2. ASSUME Administer
        PROVE  RefundsCovered'
    <3>1. UNCHANGED <<pool, position, mispresented>>
      BY <2>2 DEF Administer, InitPredictionMarket, UpdateFeeConfig, CreateMarket,
         ResolveMarket, TripCircuitBreaker, HaltMarket, CancelMarket
    <3>2. \A m \in Markets : status[m] = "RESOLVED" => status'[m] = "RESOLVED"
      BY <2>2 DEF Administer, InitPredictionMarket, UpdateFeeConfig, CreateMarket,
         ResolveMarket, TripCircuitBreaker, HaltMarket, CancelMarket, lifecycleVars,
         TypeOK
    <3> QED
      BY <2>1, <3>1, <3>2
  <2>3. ASSUME NEW m \in Markets, NEW p \in Positions, NEW c \in FeeConfigs,
               NEW t \in Traders, NEW side \in Outcomes, NEW stake \in Stakes,
               OpenPosition(m, c, t, side, stake, p)
        PROVE  RefundsCovered'
    <3> DEFINE net == NetStake(c, stake)
               object == [market |-> m, trader |-> t, side |-> side, shares |-> net]
    <3>1. net \in Nat
      BY <2>3, NetStakePositive
    <3>2. /\ side \in Sides /\ position[p] = Unminted
          /\ pool' = [pool EXCEPT ![m][side] = @ + net]
          /\ position' = [position EXCEPT ![p] = object]
          /\ UNCHANGED <<status, mispresented>>
      BY <2>3 DEF OpenPosition, Shares, lifecycleVars
    <3>3. /\ object \in PositionObject
          /\ object.market = m /\ object.side = side /\ object.shares = net
      BY <3>1, <3>2 DEF PositionObject
    <3> HIDE DEF net, object
    <3> SUFFICES ASSUME NEW n \in Markets \ mispresented', NEW other \in Sides,
                        status'[n] # "RESOLVED"
                 PROVE  pool'[n][other] >= OutstandingShares(n, other)'
      BY DEF RefundsCovered
    <3>4. pool[n][other] >= OutstandingShares(n, other)
      BY <3>2 DEF RefundsCovered
    <3>5. /\ OutstandingShares(n, other) \in Nat
          /\ OutstandingShares(n, other)' =
               OutstandingShares(n, other) + (IF m = n /\ side = other THEN net ELSE 0)
      BY <3>2, <3>3, OpenedShares
    <3>6. pool'[n][other] = pool[n][other] + (IF m = n /\ side = other THEN net ELSE 0)
      BY <3>1, <3>2 DEF TypeOK
    <3>7. pool[n][other] \in Nat
      BY DEF TypeOK
    <3> QED
      BY <3>1, <3>4, <3>5, <3>6, <3>7
  <2>4. ASSUME NEW m \in Markets, NEW p \in Positions, NEW c \in FeeConfigs,
               RedeemPosition(m, c, p)
        PROVE  RefundsCovered'
    <3> SUFFICES ASSUME NEW n \in Markets \ mispresented', NEW other \in Sides,
                        status'[n] # "RESOLVED"
                 PROVE  pool'[n][other] >= OutstandingShares(n, other)'
      BY DEF RefundsCovered
    <3>1. /\ p \in Held /\ position' = [position EXCEPT ![p] = Burned]
          /\ status[m] = "RESOLVED" /\ status' = status
          /\ mispresented \subseteq mispresented'
      BY <2>4 DEF RedeemPosition, Present, lifecycleVars
    <3>2. n # m /\ n \in Markets \ mispresented /\ status[n] # "RESOLVED"
      BY <3>1
    <3>3. pool'[n][other] = pool[n][other]
      BY <2>4, <3>2 DEF RedeemPosition, TypeOK
    <3>4. pool[n][other] >= OutstandingShares(n, other) /\ pool[n][other] \in Nat
      BY <3>2 DEF RefundsCovered, TypeOK
    <3>5. /\ OutstandingShares(n, other) \in Nat /\ OutstandingShares(n, other)' \in Nat
          /\ OutstandingShares(n, other)' <= OutstandingShares(n, other)
      BY <3>1, BurnedShares
    <3> QED
      BY <3>3, <3>4, <3>5
  <2>5. ASSUME NEW m \in Markets, NEW p \in Positions, CancelPosition(m, p)
        PROVE  RefundsCovered'
    <3> SUFFICES ASSUME NEW n \in Markets \ mispresented', NEW other \in Sides,
                        status'[n] # "RESOLVED"
                 PROVE  pool'[n][other] >= OutstandingShares(n, other)'
      BY DEF RefundsCovered
    <3> DEFINE refund == position[p].shares
               side == position[p].side
    <3>1. /\ p \in Held /\ position' = [position EXCEPT ![p] = Burned]
          /\ status' = status /\ mispresented \subseteq mispresented'
          /\ position[p].market # m => m \in mispresented'
      BY <2>5 DEF CancelPosition, Present, lifecycleVars
    <3>2. position[p] \in PositionObject
      BY <3>1 DEF Held, TypeOK
    <3>3. refund \in Nat /\ side \in Sides
      BY <3>2 DEF PositionObject
    <3>4. pool' = [pool EXCEPT ![m][side] = @ - refund]
      BY <2>5 DEF CancelPosition
    <3>5. pool[n][other] >= OutstandingShares(n, other) /\ pool[n][other] \in Nat
      BY <3>1 DEF RefundsCovered, TypeOK
    <3>6. /\ OutstandingShares(n, other) \in Nat /\ OutstandingShares(n, other)' \in Nat
          /\ OutstandingShares(n, other)' <= OutstandingShares(n, other)
          /\ (position[p].market = n /\ side = other) =>
               OutstandingShares(n, other) = OutstandingShares(n, other)' + refund
      BY <3>1, BurnedShares
    <3>7. CASE n = m /\ side = other
      <4>1. position[p].market = n
        BY <3>1, <3>7
      <4>2. pool'[n][other] = pool[n][other] - refund
        BY <3>4, <3>7, <3>3 DEF TypeOK
      <4> HIDE DEF refund, side
      <4> QED
        BY <3>3, <3>5, <3>6, <3>7, <4>1, <4>2
    <3>8. CASE ~(n = m /\ side = other)
      <4>1. pool'[n][other] = pool[n][other]
        BY <3>4, <3>8, <3>3 DEF TypeOK
      <4> QED
        BY <3>5, <3>6, <4>1
    <3> QED
      BY <3>7, <3>8
  <2>6. CASE UNCHANGED vars
    BY <2>1, <2>6 DEF vars, lifecycleVars
  <2> QED
    BY <2>2, <2>3, <2>4, <2>5, <2>6 DEF Next, Trade
<1> QED
  BY <1>1, <1>2, TypeCorrect, PTL DEF Spec

=============================================================================
