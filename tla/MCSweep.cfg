SPECIFICATION Spec
CONSTANTS
  Tests = {a, b}
  Invalid = {b}
  Watchers = {w1, w2}
  Ingesters = {i1}
  LockKnown = TRUE
  BatchSize = 1
  MaxMtime = 4
  MaxFaults = 1
  MaxCopies = 4
  NOPID = NOPID
  Humans = {h1}
  Keys = {}
  StaticBearers = {}
  StrayBearers = {}
  Cookies = {t1}
  Handshakes = {s1}
  Browsers = {v1}
  Arrivals = {a1}
  LoginTimeout = 1
  SessionTTL = 1
  MaxHour = 2
  MaxOutages = 1
  MaxDeactivated = 1
  ABSENT = ABSENT
  Matrices <- MCMatrices
  Similarities <- MCSimilarities
  Importers = {p1, p2}
  Archives <- MCArchives
  MaxImports = 3
  Callers = {c1, c2}
  Batches <- MCBatches
  RowIds = {1, 2, 3}
  PageSize = 1
  MaxTime = 1
  MaxTries = 3
  MaxWalked = 2
  MaxPurged = 1
  NOTOKEN = NOTOKEN
  NULL = NULL
  Kinds <- MCKinds
  Rules <- MCRules
  Refs = {"c1"}
  Digests = {"b1"}
  Filers = {f1}
  RecordIds = {1, 2}
  ScanSize = 1
  Grace = 1
  MaxDay = 2
  MaxErrors = 1
  ANY = ANY
  NOMEDIA = NOMEDIA
INVARIANT SafeOnLiveStore
CHECK_DEADLOCK FALSE
