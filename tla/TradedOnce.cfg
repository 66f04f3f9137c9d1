SPECIFICATION TradeSpec
CONSTANTS
  Trades = {t1, t2}
  Orders = {o1, o2}
  RetryAttempts = 1
  MaxUnmounts = 1
  MaxGivenUp = 2
INVARIANT TradedOnce
CHECK_DEADLOCK FALSE
