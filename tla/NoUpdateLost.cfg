SPECIFICATION Spec
CONSTANTS
  h1 = h1  h2 = h2  h3 = h3
  u1 = u1  u2 = u2  u3 = u3  u4 = u4  v1 = v1
  Handlers = {h1, h2, h3}
  Updates = {u1, u2, u3, u4}
  Proofs = {v1}
  AGG_COUNT = 2
  SEEN_CACHE_LIMIT = 4
  MaxMarks = 7
SYMMETRY MCSymmetry
INVARIANT NoUpdateLost
CHECK_DEADLOCK FALSE
