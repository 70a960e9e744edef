SPECIFICATION Spec
CONSTANTS
  Humans = {h1}
  Keys = {k1}
  StaticBearers = {b1}
  StrayBearers = {}
  Cookies = {t1}
  Handshakes = {s1}
  Browsers = {v1}
  Arrivals = {a1}
  LoginTimeout = 1
  SessionTTL = 1
  MaxHour = 1
  MaxOutages = 1
  MaxDeactivated = 1
  ABSENT = ABSENT
  Queries = {q1, q2}
  Filters = {f1, f2}
  TTL = 1
  Budget = 1
  MaxEntries = 1
  MaxClock = 3
  MaxState = 1
  NOENTRY = NOENTRY
  Clients = {c1, c2}
  Calls = {r1, r2}
  Burst = 2
  SweepThreshold = 1
  MaxLimiters = 3
  MaxTick = 3
  MaxDebt = 2
  NONE = NONE
  Commits = {m1, m2}
  Finishes = {1, 2}
  MaxHistory = 4
  MinRuns = 2
  AlwaysFailingRate <- MCAlwaysFailingRate
  FlipRate <- MCFlipRate
  ErrorRate <- MCErrorRate
  MinErrors = 1
  LineKinds <- MCLineKinds
  MaxLines = 5
  Samples <- MCSamples
  maxControls = 2
  Checks = {c1, c2}
  Inputs = {i1}
  Blobs = {b1}
  Callers = {c1, c2}
  Batches <- MCBatches
  RowIds = {1,2,3}
  PageSize = 1
  MaxTime = 2
  MaxTries = 3
  MaxPurged = 1
  NOTOKEN = NOTOKEN
  NULL = NULL
  MaxWalked = 2
INVARIANTS CacheSound LimitedAsOneBucket RightlyAnswered  WalkComplete DraftRulesHold
PROPERTY VerdictsDecide
CHECK_DEADLOCK FALSE
