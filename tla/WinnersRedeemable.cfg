SPECIFICATION Spec
CONSTANTS
  Markets = {m1, m2}
  Positions = {p1, p2, p3}
  FeeConfigs = {c1, c2}
  Traders = {t1}
  Treasuries = {treasury}
  Stakes = {39, 40, 80, 81}
  FeeRates = {1000, 1001}
  InitialCoins = 120
  MIN_STAKE_MIST = 40
  MAX_POSITION_MIST = 80
  Unminted = Unminted
  Burned = Burned
SYMMETRY MCSymmetry
INVARIANT
  WinnersRedeemable
