SPECIFICATION RequestsSpec
CONSTANTS
  h1 = h1  h2 = h2  h3 = h3
  u1 = u1  u2 = u2  u3 = u3  u4 = u4  v1 = v1
  Handlers = {h1, h2, h3}
  Updates = {u1, u2, u3, u4}
  Proofs = {v1}
  AGG_COUNT = 2
  SEEN_CACHE_LIMIT = 4
  MaxMarks = 7

  t1 = t1  t2 = t2  o1 = o1  o2 = o2
  Trades = {t1, t2}
  Orders = {o1, o2}
  RetryAttempts = 1
  MaxUnmounts = 1
  MaxGivenUp = 1
SYMMETRY RequestsSymmetry
INVARIANTS
  TypeOK
  BufferBounded
  ExactlyOnceUnlessOverlapped
  TradesAccounted
PROPERTY ReplayNeedsEviction
CHECK_DEADLOCK FALSE
