CONSTANTS
  e1 = e1
  p1 = p1
  p2 = p2
  u1 = u1
  a1 = a1
  o1 = o1
  o2 = o2
  o3 = o3
  t1 = t1
  Checks = {c1}
  Inputs = {}
  Blobs = {b1}
  Executions = {e1}
  Procs = {p1, p2}
  Scenarios <- mcScenarios
  Actors = {u1, u2}
  ClientIds = {a1, a2}
  Ops = {o1, o2, o3}
  Edits <- mcEdits
  FinishTimes = {t1, t2}
  PackageAssets = {}
  DefaultMedia = {}
  DefaultInputs = {}
  MaxRevision = 12
  NULL = NULL
  Txs = {x1, x2}
  Requests <- mcRequests
  Run = e1
  Tester = u1
  LocalIds = {a1}
  LocalFinish = t1
  LocalEdits <- mcLocalEdits
  MaxFaults = 2
  MaxEvents = 2
SPECIFICATION mcSpec
INVARIANTS AnswersNeverReplaced
