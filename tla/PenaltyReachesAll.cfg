SPECIFICATION IncentivesSpec
CONSTANTS
  admin = admin  agent = agent  slashTreasury = slashTreasury
  s1 = s1  s2 = s2
  Unstaked = Unstaked  Deleted = Deleted
  Agents = {admin, agent}
  Admins = {admin}
  SlashTreasuries = {slashTreasury}
  StakeIds = {s1, s2}
  StakeCoins = {10}
  RewardCoins = {0, 5}
  SlashAmounts = {2}
  MinReputations = {0}
  Cooldowns = {0}
  InitialFunds = 15
  min_stake_mist = 10
  UNSTAKE_COOLDOWN_MS = 1
  MAX_U64 = 1000
  MaxReports = 1
  MaxCorrect = 11
  MaxSlashes = 3
  MaxTime = 2
INVARIANT PenaltyReachesAll
CHECK_DEADLOCK FALSE
