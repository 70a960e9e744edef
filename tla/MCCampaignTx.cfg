CONSTANTS
  b1 = b1
  e1 = e1
  p1 = p1
  u1 = u1
  u2 = u2
  a1 = a1
  a2 = a2
  o1 = o1
  o2 = o2
  t1 = t1
  Checks = {c1}
  Inputs = {i1}
  Blobs = {b1}
  Executions = {e1}
  Procs = {p1}
  Scenarios <- mcOne
  Actors = {u1, u2}
  ClientIds = {a1, a2}
  Ops = {o1, o2}
  Edits <- mcEdits
  FinishTimes = {t1}
  PackageAssets = {}
  DefaultMedia = {}
  DefaultInputs = {}
  MaxRevision = 5
  NULL = NULL
  Txs = {x1, x2, x3}
  Requests <- mcRequests
SYMMETRY mcSymmetry
SPECIFICATION SceneSpec
INVARIANTS ReadsStayCurrent ClientsNeverDeadlock
PROPERTIES ImplementsCampaign
