CONSTANTS
  Checks = {c1}
  Inputs = {i1}
  Blobs = {b1, b2}
  Executions = {e1}
  Procs = {p1, p2}
  Actors = {u1}
  ClientIds = {a1, a2}
  Ops = {o1, o2}
  Edits <- mcEdits
  FinishTimes = {t1}
  PackageAssets = {b1}
  DefaultMedia = {b1}
  DefaultInputs = {}
  MaxRevision = 5
  NULL = NULL
SYMMETRY mcSymmetry
SPECIFICATION Spec
INVARIANTS TypeOK OneSharedDraft ClosedIsComplete EvidenceMatchesAttempt PassIsEarned
  RevisionIdentifiesWork AttachmentsKept
PROPERTIES FinalizedIsImmutable EnteredWorkSurvives
