SPECIFICATION ServicesSpec
CONSTANTS
  c1 = c1  c2 = c2  c3 = c3  c4 = c4  c5 = c5
  Calls = {c1, c2, c3, c4, c5}
  FailureThreshold = 2
  ResetTimeout = 1
  HalfOpenMaxCalls = 2
  MaxTime = 3

  worker1 = worker1  worker2 = worker2
  NumTasks = 2
  TaskAgents = {worker1, worker2}
  TaskCapacities = {1}
  ExecutionTimes = {1}
  Unset = Unset

  p1 = p1  p2 = p2  s1 = s1  s2 = s2  s3 = s3
  Peers = {p1, p2}
  Attempts = {s1, s2, s3}
  NoSession = NoSession
  InactivityTimeout = 0
  LastTime = 1

  i1 = i1  i2 = i2  i3 = i3  i4 = i4  u1 = u1  u2 = u2
  Intents = {i1, i2, i3, i4}
  FirstIntents = {i4}
  Users = {u1, u2}
  RateWindow = 1
  MaxPerWindow = 2
  EndOfTime = 2

  CooldownPeriod = 2
  MaxTriggers = 2
  LastMoment = 5

  k1 = k1  k2 = k2  k3 = k3
  Keys = {k1, k2, k3}
  ShortTTL = 1
  ReadTTL = 2
  LongTTL = 3
  MaxCacheSize = 2
  Horizon = 5

  d1 = d1  d2 = d2
  Digests = {d1, d2}
  NoDigest = NoDigest

  NumAgents = 2
  RoundSizes = {3}
  Confidences = {0, 5}
  MaxReports = 7

  a1 = a1  a2 = a2
  Administrators = {a1, a2}
  MaxAdditions = 4
INVARIANTS
  ServicesTypeOK
  ClosedBelowThreshold
  SlotsAreTrials
  SlotsAreWork
  SessionIsLatest
  IntentsLimited
  AlarmPassedOver
  CacheAccounted
  KeysBoundToMeasurement
  OvertakenRemovalHitsYounger
PROPERTIES
  AdmissionEarned
  HalfOpenIsDecided
  RiseIsEarned
CHECK_DEADLOCK FALSE
