-------------------------- MODULE PredictionMarket --------------------------
(***************************************************************************)
(* The Move package agents/onchain-registry/sources/prediction_market.move *)
(* : binary markets that hold traders' SUI in a YES pool and a NO pool,    *)
(* positions owned by traders, and fee configurations that send a share of *)
(* every stake and every redemption to a treasury address.                 *)
(*                                                                         *)
(* A transaction is one atomic step: an assertion that fails, an arithmetic*)
(* underflow or a balance::split larger than the balance aborts it and     *)
(* undoes all of it, so an abort is an action that is not enabled.         *)
(***************************************************************************)
EXTENDS Integers, FiniteSets, Sums

CONSTANTS
  Markets,            \* object ids of PredictionMarket objects
  Positions,          \* object ids of Position objects
  FeeConfigs,         \* object ids of FeeConfig objects
  Traders,            \* addresses that open positions
  Treasuries,         \* addresses a FeeConfig may pay its fees to
  Stakes,             \* values of the Coin<SUI> handed to open_position
  FeeRates,           \* basis points handed to update_fee_config
  InitialCoins,       \* SUI each trader owns at the start
  MIN_STAKE_MIST, MAX_POSITION_MIST,
  Unminted, Burned    \* a Position id not used yet, and one deleted again

FEE_BASIS_POINTS == 250
FEE_DENOMINATOR == 10000
MAX_FEE_BASIS_POINTS == 1000

Sides == {"YES", "NO"}
Outcomes == Sides \cup {"NONE"}
Statuses == {"ABSENT", "OPEN", "RESOLVED", "CANCELLED", "HALTED"}
Accounts == Traders \cup Treasuries

PositionObject == [market: Markets, trader: Traders, side: Sides, shares: Nat]

ASSUME ConstantsAssumption ==
  /\ IsFiniteSet(Markets) /\ IsFiniteSet(Positions)
  /\ IsFiniteSet(Traders) /\ IsFiniteSet(Treasuries)
  /\ Stakes \subseteq Nat
  /\ FeeRates \subseteq Nat
  /\ InitialCoins \in Nat
  /\ MIN_STAKE_MIST \in Nat \ {0}
  /\ MAX_POSITION_MIST \in Nat
  /\ Unminted \notin PositionObject
  /\ Burned \notin PositionObject
  /\ Unminted # Burned

VARIABLES
  configured,         \* the FeeConfig objects that exist
  fee_basis_points, treasury_address, total_fees_collected,  \* per FeeConfig
  status, outcome, circuit_breaker_tripped,                  \* per market
  pool,               \* yes_pool and no_pool, per market and side
  shares_total,       \* yes_shares_total and no_shares_total
  total_trades, fees_collected,                              \* per market
  position,           \* per Position id: Unminted, the object, or Burned
  wallet,             \* SUI owned by each account
  mispresented        \* history: the markets that were ever given a Position
                      \* opened in another market, which no entry checks

configVars == <<configured, fee_basis_points, treasury_address,
                total_fees_collected>>
lifecycleVars == <<status, outcome, circuit_breaker_tripped>>
tradeVars == <<shares_total, total_trades, fees_collected>>
vars == <<configVars, lifecycleVars, pool, tradeVars, position, wallet,
          mispresented>>

Held == {p \in Positions : position[p] \notin {Unminted, Burned}}
OtherSide(side) == IF side = "YES" THEN "NO" ELSE "YES"
FeeOn(amount, bps) == (amount * bps) \div FEE_DENOMINATOR
Credit(coins, account, amount) == [coins EXCEPT ![account] = @ + amount]

Init ==
  /\ configured = {}
  /\ fee_basis_points = [c \in FeeConfigs |-> FEE_BASIS_POINTS]
  /\ treasury_address \in [FeeConfigs -> Treasuries]
  /\ total_fees_collected = [c \in FeeConfigs |-> 0]
  /\ status = [m \in Markets |-> "ABSENT"]
  /\ outcome = [m \in Markets |-> "NONE"]
  /\ circuit_breaker_tripped = [m \in Markets |-> FALSE]
  /\ pool = [m \in Markets |-> [side \in Sides |-> 0]]
  /\ shares_total = [m \in Markets |-> [side \in Sides |-> 0]]
  /\ total_trades = [m \in Markets |-> 0]
  /\ fees_collected = [m \in Markets |-> 0]
  /\ position = [p \in Positions |-> Unminted]
  /\ wallet = [a \in Accounts |-> IF a \in Traders THEN InitialCoins ELSE 0]
  /\ mispresented = {}

-----------------------------------------------------------------------------
(* Administration. An AdminCap is good for every FeeConfig and a MarketCap  *)
(* for every market: the entries below never look at the capability's id.   *)

\* Anyone may call it, any number of times: each call shares one more
\* FeeConfig whose treasury is the caller.
InitPredictionMarket(c) ==
  /\ c \notin configured
  /\ configured' = configured \cup {c}
  /\ UNCHANGED <<fee_basis_points, treasury_address, total_fees_collected,
                 lifecycleVars, pool, tradeVars, position, wallet, mispresented>>

\* Mutant: the cap is off by one.
LooseFeeCap(bps) == bps <= MAX_FEE_BASIS_POINTS + 1
FeeAccepted(bps) == bps <= MAX_FEE_BASIS_POINTS

UpdateFeeConfig(c, bps, treasury) ==
  /\ c \in configured
  /\ FeeAccepted(bps)
  /\ fee_basis_points' = [fee_basis_points EXCEPT ![c] = bps]
  /\ treasury_address' = [treasury_address EXCEPT ![c] = treasury]
  /\ UNCHANGED <<configured, total_fees_collected, lifecycleVars, pool,
                 tradeVars, position, wallet, mispresented>>

CreateMarket(m) ==
  /\ status[m] = "ABSENT"
  /\ status' = [status EXCEPT ![m] = "OPEN"]
  /\ UNCHANGED <<configVars, outcome, circuit_breaker_tripped, pool, tradeVars,
                 position, wallet, mispresented>>

ResolveMarket(m, result) ==
  /\ status[m] = "OPEN"
  /\ result \in Sides
  /\ status' = [status EXCEPT ![m] = "RESOLVED"]
  /\ outcome' = [outcome EXCEPT ![m] = result]
  /\ UNCHANGED <<configVars, circuit_breaker_tripped, pool, tradeVars, position,
                 wallet, mispresented>>

TripCircuitBreaker(m) ==
  /\ status[m] = "OPEN"
  /\ circuit_breaker_tripped' = [circuit_breaker_tripped EXCEPT ![m] = TRUE]
  /\ UNCHANGED <<configVars, status, outcome, pool, tradeVars, position, wallet,
                 mispresented>>

HaltMarket(m) ==
  /\ status[m] = "OPEN"
  /\ status' = [status EXCEPT ![m] = "HALTED"]
  /\ UNCHANGED <<configVars, outcome, circuit_breaker_tripped, pool, tradeVars,
                 position, wallet, mispresented>>

CancelMarket(m) ==
  /\ status[m] = "OPEN"
  /\ status' = [status EXCEPT ![m] = "CANCELLED"]
  /\ UNCHANGED <<configVars, outcome, circuit_breaker_tripped, pool, tradeVars,
                 position, wallet, mispresented>>

-----------------------------------------------------------------------------
(* Trading.                                                                 *)

\* Mutant: the fee is sent to the treasury but not split off the stake.
FullStake(c, stake) == stake
NetStake(c, stake) == stake - FeeOn(stake, fee_basis_points[c])

\* Mutant: shares are issued for the stake before the fee.
SharesBeforeFee(c, stake) == stake
Shares(c, stake) == NetStake(c, stake)

\* Mutant: a tripped circuit breaker does not stop trading.
OpenIgnoringBreaker(m) == status[m] = "OPEN"
AcceptsTrades(m) == status[m] = "OPEN" /\ ~circuit_breaker_tripped[m]

\* Trader t stakes a coin on one side of m and is given the new Position p.
OpenPosition(m, c, t, side, stake, p) ==
  LET fee == FeeOn(stake, fee_basis_points[c])
      net == NetStake(c, stake)
      shares == Shares(c, stake)
  IN
  /\ c \in configured
  /\ position[p] = Unminted
  /\ stake <= wallet[t]
  /\ AcceptsTrades(m)
  /\ side \in Sides
  /\ stake \in MIN_STAKE_MIST .. MAX_POSITION_MIST
  /\ wallet' = Credit(Credit(wallet, t, -stake), treasury_address[c], fee)
  /\ total_fees_collected' = [total_fees_collected EXCEPT ![c] = @ + fee]
  /\ fees_collected' = [fees_collected EXCEPT ![m] = @ + fee]
  /\ pool' = [pool EXCEPT ![m][side] = @ + net]
  /\ shares_total' = [shares_total EXCEPT ![m][side] = @ + shares]
  /\ total_trades' = [total_trades EXCEPT ![m] = @ + 1]
  /\ position' = [position EXCEPT ![p] =
                    [market |-> m, trader |-> t, side |-> side, shares |-> shares]]
  /\ UNCHANGED <<configured, fee_basis_points, treasury_address, lifecycleVars,
                 mispresented>>

\* What a Position is worth in m when it is redeemed: its share of what is in
\* both pools at that moment, of which the fee is taken.
GrossPayout(m, p) ==
  (position[p].shares * (pool[m]["YES"] + pool[m]["NO"]))
    \div shares_total[m][outcome[m]]

\* The bookkeeping of a Position given to a market, its own or another one.
Present(m, p) ==
  /\ position' = [position EXCEPT ![p] = Burned]
  /\ mispresented' = IF position[p].market = m THEN mispresented
                                               ELSE mispresented \cup {m}

\* Fee and payout are both split from the pool of the winning side, so the
\* transaction aborts when the gross payout is larger than that pool.
RedeemPosition(m, c, p) ==
  LET gross == GrossPayout(m, p)
      fee == FeeOn(gross, fee_basis_points[c])
      net == gross - fee
  IN
  /\ c \in configured
  /\ p \in Held
  /\ status[m] = "RESOLVED"
  /\ position[p].side = outcome[m]
  /\ shares_total[m][outcome[m]] > 0
  /\ gross <= pool[m][outcome[m]]
  /\ pool' = [pool EXCEPT ![m][outcome[m]] = @ - fee - net]
  /\ wallet' = Credit(Credit(wallet, treasury_address[c], fee),
                      position[p].trader, net)
  /\ Present(m, p)
  /\ UNCHANGED <<configVars, lifecycleVars, tradeVars>>

\* Mutants: refunds are also paid by a halted market, and by an open one.
RefundsWhenHalted(m) == status[m] \in {"CANCELLED", "HALTED"}
RefundsWhenOpen(m) == status[m] \in {"CANCELLED", "OPEN"}
PaysRefunds(m) == status[m] = "CANCELLED"

CancelPosition(m, p) ==
  LET refund == position[p].shares
      side == position[p].side
  IN
  /\ p \in Held
  /\ PaysRefunds(m)
  /\ refund <= pool[m][side]
  /\ pool' = [pool EXCEPT ![m][side] = @ - refund]
  /\ wallet' = Credit(wallet, position[p].trader, refund)
  /\ Present(m, p)
  /\ UNCHANGED <<configVars, lifecycleVars, tradeVars>>

-----------------------------------------------------------------------------
Administer ==
  \/ \E c \in FeeConfigs : InitPredictionMarket(c)
  \/ \E c \in FeeConfigs, bps \in FeeRates, a \in Treasuries :
       UpdateFeeConfig(c, bps, a)
  \/ \E m \in Markets :
       \/ CreateMarket(m)
       \/ \E result \in Outcomes : ResolveMarket(m, result)
       \/ TripCircuitBreaker(m)
       \/ HaltMarket(m)
       \/ CancelMarket(m)

Trade ==
  \E m \in Markets, p \in Positions :
    \/ \E c \in FeeConfigs, t \in Traders, side \in Outcomes, stake \in Stakes :
         OpenPosition(m, c, t, side, stake, p)
    \/ \E c \in FeeConfigs : RedeemPosition(m, c, p)
    \/ CancelPosition(m, p)

Next == Administer \/ Trade

Spec == Init /\ [][Next]_vars

-----------------------------------------------------------------------------
(* What every market promises.                                              *)

TypeOK ==
  /\ configured \subseteq FeeConfigs
  /\ fee_basis_points \in [FeeConfigs -> 0 .. MAX_FEE_BASIS_POINTS]
  /\ treasury_address \in [FeeConfigs -> Treasuries]
  /\ total_fees_collected \in [FeeConfigs -> Nat]
  /\ status \in [Markets -> Statuses]
  /\ outcome \in [Markets -> Outcomes]
  /\ circuit_breaker_tripped \in [Markets -> BOOLEAN]
  /\ pool \in [Markets -> [Sides -> Nat]]
  /\ shares_total \in [Markets -> [Sides -> Nat]]
  /\ total_trades \in [Markets -> Nat]
  /\ fees_collected \in [Markets -> Nat]
  /\ position \in [Positions -> PositionObject \cup {Unminted, Burned}]
  /\ wallet \in [Accounts -> Nat]
  /\ mispresented \subseteq Markets

\* The escrow is backed share by share: a pool never holds more than the
\* shares sold on its side, and holds exactly as much while the market is open,
\* for good once it is halted, and for good on the losing side once it is
\* resolved. So whatever is redeemed, by whom and in which order, no loser's
\* stake ever leaves its pool (redeem_position splits the winning pool only).
EscrowBacked ==
  \A m \in Markets, side \in Sides :
    /\ pool[m][side] <= shares_total[m][side]
    /\ (status[m] # "CANCELLED" /\ side # outcome[m])
          => pool[m][side] = shares_total[m][side]
    /\ (outcome[m] # "NONE") <=> (status[m] = "RESOLVED")

\* No SUI is made or lost: wallets and pools together always hold what the
\* traders started with, through fees, payouts, refunds and positions that are
\* redeemed in a market they were not opened in.
Wallets == SumOver(wallet, Accounts)
Pooled == SumOver([ms \in Markets \X Sides |-> pool[ms[1]][ms[2]]], Markets \X Sides)
SuiConserved == Wallets + Pooled = Cardinality(Traders) * InitialCoins

Outstanding(m, side) ==
  {p \in Held : position[p].market = m /\ position[p].side = side}
OutstandingShares(m, side) ==
  SumOver([p \in Held |-> position[p].shares], Outstanding(m, side))

\* Refunds never run out: a market that was only ever given its own positions
\* and is not resolved holds, on each side, enough to refund every position
\* still outstanding there, in any order (cancel_position refunds the shares).
RefundsCovered ==
  \A m \in Markets \ mispresented, side \in Sides :
    status[m] # "RESOLVED" => pool[m][side] >= OutstandingShares(m, side)

\* What a step may not change of a market that has left OPEN, and of one whose
\* circuit breaker is tripped.
ClosedMarketStep(m) ==
  /\ status[m] \notin {"ABSENT", "OPEN"} =>
       /\ status'[m] = status[m] /\ outcome'[m] = outcome[m]
       /\ circuit_breaker_tripped'[m] = circuit_breaker_tripped[m]
       /\ total_trades'[m] = total_trades[m]
       /\ fees_collected'[m] = fees_collected[m]
       /\ shares_total'[m] = shares_total[m]
  /\ circuit_breaker_tripped[m] =>
       circuit_breaker_tripped'[m] /\ shares_total'[m] = shares_total[m]

\* A market that has left OPEN keeps its status, outcome, breaker flag, share
\* totals, trade count and fees for ever, and one whose breaker is tripped
\* sells no more shares and is never untripped.
ClosedMarketFrozen == [][\A m \in Markets : ClosedMarketStep(m)]_vars

\* Custody: seen from outside, each market is an escrow that takes money only
\* while it is open and pays money out only once it is resolved or cancelled
\* (MarketEscrow), whatever happens to positions, fees and share totals.
Escrow == INSTANCE MarketEscrow
            WITH phase <- status,
                 held <- [m \in Markets |-> pool[m]["YES"] + pool[m]["NO"]]
EscrowSpec == Escrow!Spec

=============================================================================
