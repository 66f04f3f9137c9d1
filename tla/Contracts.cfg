SPECIFICATION ContractsSpec
CONSTANTS
  Markets = {m1, m2}
  Positions = {p1, p2, p3}
  FeeConfigs = {c1, c2}
  Traders = {t1}
  Treasuries = {treasury}
  Stakes = {39, 40, 80, 81}
  FeeRates = {1000, 1001}
  InitialCoins = 120
  MIN_STAKE_MIST = 40
  MAX_POSITION_MIST = 80
  Unminted = Unminted
  Burned = Burned

  admin = admin  agent = agent  slashTreasury = slashTreasury
  s1 = s1  s2 = s2
  Unstaked = Unstaked  Deleted = Deleted
  Agents = {admin, agent}
  Admins = {admin}
  SlashTreasuries = {slashTreasury}
  StakeIds = {s1, s2}
  StakeCoins = {10}
  RewardCoins = {0, 5}
  SlashAmounts = {2}
  MinReputations = {0}
  Cooldowns = {0}
  InitialFunds = 15
  min_stake_mist = 10
  UNSTAKE_COOLDOWN_MS = 1
  MAX_U64 = 1000
  MaxReports = 1
  MaxCorrect = 11
  MaxSlashes = 3
  MaxTime = 2
SYMMETRY ContractsSymmetry
INVARIANTS
  ContractsTypeOK
  EscrowBacked
  SuiConserved
  RefundsCovered
  LedgerBalances
  ReputationExplained
  StakeSurvivesSlashes
PROPERTIES
  ClosedMarketFrozen
  EscrowSpec
