SPECIFICATION Spec
CONSTANTS
  r1 = r1  r2 = r2
  a = a  b = b  c = c  d = d  e = e
  h1 = h1  h2 = h2
  Default = Default  Empty = Empty  Torn = Torn
  Keys = {a, b, c, d}
  InitialKeys = {a, b, c, d}
  Voters = {a, b}
  AGG_COUNT = 4
  VOTE_QUORUM = 0
  Rounds = {r1}
  Handlers = {h1}
  LateKeys = {}
  REQUIRE_ONCHAIN_COMMIT = TRUE
  MaxObjects = 1
  MaxCrashes = 0
INVARIANT FailedRoundNotApplied
CHECK_DEADLOCK FALSE
