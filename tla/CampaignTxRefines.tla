-------------------------- MODULE CampaignTxRefines --------------------------
(***************************************************************************)
(* What the commits of CampaignTx do to Campaign's tables, and what they   *)
(* leave alone: each commit is one step of Campaign that changes only rows *)
(* its transaction has locked, so what another transaction has read under  *)
(* its own locks stays as it was.                                          *)
(***************************************************************************)
EXTENDS CampaignTxInv, CampaignSteps

(* A request's kind tells its fields. *)
LEMMA RequestLemma ==
  ASSUME NEW r \in Requests \cap TxRequest
  PROVE  /\ r.kind = "start" => /\ r.execution \in Executions /\ r.id \in ClientIds
                                /\ r.ref \in Procs /\ r.actor \in Actors
         /\ r.kind = "save" => /\ r.id \in AttemptIds /\ r.actor \in Actors
                               /\ r.revision \in 1..MaxRevision /\ r.op \in Ops /\ r.data \in Edits
         /\ r.kind = "finalize" => /\ r.id \in AttemptIds /\ r.actor \in Actors
                                   /\ r.revision \in 1..MaxRevision /\ r.finished \in FinishTimes
         /\ r.kind = "state" => /\ r.execution \in Executions /\ r.actor \in Actors
                                /\ r.revision \in 1..MaxRevision /\ r.finished \in FinishTimes
                                /\ r.closed \in BOOLEAN
         /\ r.kind \in {"start", "save", "finalize", "state", "sweep", "retain"}
  BY Zenon DEF TxRequest, StartRequest, SaveRequest, FinalizeRequest, StateRequest, BackgroundRequest

(* A step that changes nothing changes nothing unlocked. *)
LEMMA QuietFootprint ==
  ASSUME UNCHANGED vars, NEW L
  PROVE  Footprint(L)
  <1>1. Referenced' = Referenced
    BY Zenon DEF vars, Referenced
  <1>2. QED
    BY <1>1, Zenon DEF vars, Footprint

(* touchExecution changes the row it is called for. *)
LEMMA TouchFootprint ==
  ASSUME TypeOK, NEW e \in Executions \cup {NULL}, touchExecution(e)
  PROVE  \A f \in Executions : execution'[f] = execution[f] \/ f = e
  BY NullAssumption, Zenon DEF touchExecution, TypeOK

(* CommitStart is StartExecutionAttempt. *)
LEMMA CommitStartRefines ==
  ASSUME IInv, NEW x \in Txs, TxLocal(x), CommitStart(x)
  PROVE  [Next]_vars /\ Footprint(locks[x])
  <1>1. CASE UNCHANGED vars
    BY <1>1, QuietFootprint, Zenon
  <1>2. CASE ~UNCHANGED vars
    <2> DEFINE r == req[x]
    <2>0. /\ r \in Requests \cap TxRequest /\ r.kind = "start" /\ pc[x] = "commit"
      BY Zenon DEF TxLocal, AtStatement, CommitStart
    <2>1. r.execution \in Executions /\ r.id \in ClientIds /\ r.ref \in Procs /\ r.actor \in Actors
      BY <2>0, RequestLemma, Zenon
    <2>2. /\ execution[r.execution] # NULL
          /\ ExecutionLock(r.execution) \in locks[x]
          /\ ~execution[r.execution].closed
          /\ DraftsOf(r.execution, r.ref) = {}
      BY <2>0, <2>1, NullAssumption, Zenon
         DEF TxLocal, ExecutionRead, CommitReady, AfterLock, NoTarget, TargetExecution
    <2>3. StartExecutionAttempt(r.execution, r.id, r.ref, r.actor)
      BY <1>2, <2>2, Zenon DEF CommitStart, StartExecutionAttempt
    <2>4. [Next]_vars
      BY <2>1, <2>3, Zenon DEF Next
    <2>5. r.id \in AttemptIds /\ TypeOK
      BY <2>1, Zenon DEF AttemptIds, IInv
    <2>6. /\ attempt[r.id] = NULL
          /\ attempt'[r.id].execution = r.execution
          /\ \A a \in AttemptIds \ {r.id} : attempt'[a] = attempt[a]
      BY <2>3, <2>5, Zenon DEF StartExecutionAttempt, TypeOK, NewAttempt
    <2>7. \A f \in Executions : execution'[f] = execution[f] \/ f = r.execution
      BY <2>1, <2>3, <2>5, TouchFootprint, Zenon DEF StartExecutionAttempt
    <2>8. Referenced' = Referenced /\ stored' = stored
      BY <2>3, Zenon DEF StartExecutionAttempt, Referenced
    <2>9. QED
      BY <2>2, <2>4, <2>6, <2>7, <2>8, Zenon DEF Footprint
  <1>3. QED
    BY <1>1, <1>2, Zenon

(* What a save or a finalization at its commit knows of its attempt. *)
LEMMA AtCommit ==
  ASSUME IInv, NEW x \in Txs, TxLocal(x), pc[x] = "commit", req[x].kind \in {"save", "finalize"}
  PROVE  /\ req[x] \in Requests \cap TxRequest
         /\ req[x].id \in AttemptIds /\ attempt[req[x].id] \in AttemptRow /\ Draft(req[x].id)
         /\ attempt[req[x].id].execution \in Executions \cup {NULL}
         /\ AttemptLock(req[x].id) \in locks[x] /\ SharedSweepLock \in locks[x]
         /\ attempt[req[x].id].execution # NULL =>
              /\ ExecutionLock(attempt[req[x].id].execution) \in locks[x]
              /\ seen[x] = execution[attempt[req[x].id].execution]
              /\ execution[attempt[req[x].id].execution] # NULL
  <1>1. req[x] \in Requests \cap TxRequest /\ req[x].id \in AttemptIds
    BY RequestLemma, Zenon DEF TxLocal, AtStatement
  <1>2. Draft(req[x].id) /\ AttemptLock(req[x].id) \in locks[x] /\ SharedSweepLock \in locks[x]
    BY Zenon DEF TxLocal, AttemptRead, HasAttempt, SweepHeld
  <1>3. /\ attempt[req[x].id] \in AttemptRow
        /\ attempt[req[x].id].execution \in Executions \cup {NULL}
    BY <1>1, <1>2, Zenon DEF IInv, TypeOK, Draft, AttemptRow
  <1>4. attempt[req[x].id].execution # NULL =>
              /\ ExecutionLock(attempt[req[x].id].execution) \in locks[x]
              /\ seen[x] = execution[attempt[req[x].id].execution]
    BY Zenon DEF TxLocal, ExecutionRead, AfterLock, TargetExecution
  <1>5. attempt[req[x].id].execution # NULL => execution[attempt[req[x].id].execution] # NULL
    BY <1>1, <1>2, Zenon DEF IInv, ExecutionExists, Draft
  <1>6. QED
    BY <1>1, <1>2, <1>3, <1>4, <1>5, Zenon

(* One locked draft and its execution make a footprint. *)
LEMMA DraftFootprint ==
  ASSUME IInv, NEW L, NEW a \in AttemptIds, Draft(a),
         AttemptLock(a) \in L, SharedSweepLock \in L,
         attempt[a].execution # NULL => ExecutionLock(attempt[a].execution) \in L,
         touchExecution(attempt[a].execution),
         \A b \in AttemptIds \ {a} : attempt'[b] = attempt[b],
         stored' = stored
  PROVE  Footprint(L)
  <1>1. attempt[a].execution \in Executions \cup {NULL} /\ TypeOK
    BY Zenon DEF IInv, TypeOK, Draft, AttemptRow
  <1>2. \A f \in Executions : execution'[f] = execution[f] \/ f = attempt[a].execution
    BY <1>1, TouchFootprint, Zenon
  <1>3. \A f \in Executions : execution'[f] = execution[f] \/ ExecutionLock(f) \in L
    BY <1>2, NullAssumption, Zenon
  <1>4. QED
    BY <1>3, Zenon DEF Footprint

(* CommitSave is SaveAttempt: the row it updates is the row it has read. *)
LEMMA CommitSaveRefines ==
  ASSUME IInv, NEW x \in Txs, TxLocal(x), CommitSave(x)
  PROVE  [Next]_vars /\ Footprint(locks[x])
  <1> DEFINE r == req[x]
  <1>0. pc[x] = "commit" /\ r.kind = "save"
    BY Zenon DEF CommitSave
  <1>1. /\ r.id \in AttemptIds /\ attempt[r.id] \in AttemptRow /\ Draft(r.id)
        /\ attempt[r.id].execution \in Executions \cup {NULL}
        /\ AttemptLock(r.id) \in locks[x] /\ SharedSweepLock \in locks[x]
        /\ attempt[r.id].execution # NULL =>
             /\ ExecutionLock(attempt[r.id].execution) \in locks[x]
             /\ seen[x] = execution[attempt[r.id].execution]
    BY <1>0, AtCommit, Zenon
  <1>2. /\ r.actor \in Actors /\ r.revision \in 1..MaxRevision /\ r.op \in Ops /\ r.data \in Edits
    BY <1>0, AtCommit, RequestLemma, Zenon
  <1>3. ~SaveRefused(r) /\ r.data.media \subseteq stored
    BY <1>0, Zenon DEF TxLocal, AttemptRead, HasAttempt, CommitReady
  <1>4. ExecutionOpen(r.id)
    BY <1>0, <1>1, Zenon
       DEF TxLocal, ExecutionRead, AfterLock, TargetExecution, RefusedByExecution, ExecutionOpen
  <1>5. /\ Visible(r.id, r.actor) /\ ~Finalized(r.id) /\ attempt[r.id].lastOp # r.op
        /\ attempt[r.id].revision = r.revision
        /\ r.revision < MaxRevision
    BY <1>2, <1>3, BoundAssumption DEF SaveRefused
  <1>6. attempt' = [attempt EXCEPT ![r.id] =
                      [attempt[r.id] EXCEPT !.data = r.data, !.revision = r.revision + 1,
                                            !.lastOp = r.op, !.lastBase = r.revision]]
    <2>1. attempt' = [attempt EXCEPT ![r.id] =
                        [attempt[r.id] EXCEPT !.data = r.data,
                                              !.revision = attempt[r.id].revision + 1,
                                              !.lastOp = r.op, !.lastBase = r.revision]]
      BY Zenon DEF CommitSave
    <2>2. QED
      BY <1>5, <2>1, Zenon
  <1>7. SaveAttempt(r.id, r.actor, r.revision, r.op, r.data)
    BY <1>1, <1>3, <1>4, <1>5, <1>6, Zenon DEF CommitSave, SaveAttempt, Draft
  <1>8. [Next]_vars
    BY <1>1, <1>2, <1>7, Zenon DEF Next
  <1>9. /\ touchExecution(attempt[r.id].execution) /\ stored' = stored
        /\ \A b \in AttemptIds \ {r.id} : attempt'[b] = attempt[b]
    BY <1>1, <1>7, Zenon DEF SaveAttempt, IInv, TypeOK
  <1>10. QED
    BY <1>1, <1>8, <1>9, DraftFootprint, Zenon

(* CommitFinalize is FinalizeAttempt: the evidence is built from the row   *)
(* that is updated.                                                        *)
LEMMA CommitFinalizeRefines ==
  ASSUME IInv, NEW x \in Txs, TxLocal(x), CommitFinalize(x)
  PROVE  [Next]_vars /\ Footprint(locks[x])
  <1> DEFINE r == req[x]
  <1>0. pc[x] = "commit" /\ r.kind = "finalize"
    BY Zenon DEF CommitFinalize
  <1>1. /\ r.id \in AttemptIds /\ attempt[r.id] \in AttemptRow /\ Draft(r.id)
        /\ attempt[r.id].execution \in Executions \cup {NULL}
        /\ AttemptLock(r.id) \in locks[x] /\ SharedSweepLock \in locks[x]
        /\ attempt[r.id].execution # NULL =>
             /\ ExecutionLock(attempt[r.id].execution) \in locks[x]
             /\ seen[x] = execution[attempt[r.id].execution]
             /\ execution[attempt[r.id].execution] # NULL
    BY <1>0, AtCommit, Zenon
  <1>2. r.actor \in Actors /\ r.revision \in 1..MaxRevision /\ r.finished \in FinishTimes
    BY <1>0, AtCommit, RequestLemma, Zenon
  <1>3. ~FinalizeRefused(r, seen[x]) /\ work[x] = {[id |-> r.id, row |-> attempt[r.id]]}
    BY <1>0, Zenon DEF TxLocal, AttemptRead, HasAttempt
  <1>4. /\ Visible(r.id, r.actor) /\ ~Finalized(r.id)
        /\ attempt[r.id].revision = r.revision
        /\ ValidateFinalization(attempt[r.id].data) /\ EvidenceCreate(attempt[r.id].data)
        /\ ExecutionOpen(r.id)
    BY <1>1, <1>3, Zenon DEF FinalizeRefused, ExecutionOpen
  <1>5. FinalizeAttempt(r.id, r.actor, r.revision, r.finished)
    <2>1. PICK w \in work[x] :
            /\ attempt' = [attempt EXCEPT ![w.id] = FinalRow(attempt[w.id], w.id, req[x].finished)]
            /\ evidence' = evidence \cup {EvidenceOf(w.row, w.id, NULL)}
            /\ filed' = [filed EXCEPT ![w.id] = @ + 1]
            /\ draftRef' = [draftRef EXCEPT ![w.id] = {}]
            /\ touchExecution(attempt[w.id].execution)
      BY Zenon DEF CommitFinalize
    <2>2. w.id = r.id /\ w.row = attempt[r.id]
      BY <1>3, <2>1
    <2>3. UNCHANGED <<event, stored, view>>
      BY Zenon DEF CommitFinalize
    <2>4. QED
      BY <1>1, <1>4, <2>1, <2>2, <2>3, Zenon DEF FinalizeAttempt, Draft
  <1>6. [Next]_vars
    BY <1>1, <1>2, <1>5, Zenon DEF Next
  <1>7. /\ touchExecution(attempt[r.id].execution) /\ stored' = stored
        /\ \A b \in AttemptIds \ {r.id} : attempt'[b] = attempt[b]
    BY <1>1, <1>5, Zenon DEF FinalizeAttempt, IInv, TypeOK
  <1>8. QED
    BY <1>1, <1>6, <1>7, DraftFootprint, Zenon

(* A closure that has scanned every procedure disposes of exactly what     *)
(* closeUnfinished must dispose of.                                        *)
LEMMA ScanComplete ==
  ASSUME NEW x \in Txs, TxLocal(x), pc[x] = "commit", req[x].kind = "state", req[x].closed
  PROVE  /\ \A w \in work[x] : /\ w.id \in Unfinished(req[x].execution)
                               /\ w.row = SkippedRow(req[x].execution, w.id, req[x].actor)
                               /\ EvidenceCreate(w.row.data)
         /\ \A a \in Unfinished(req[x].execution) :
              [id |-> a, row |-> SkippedRow(req[x].execution, a, req[x].actor)] \in work[x]
  <1> DEFINE e == req[x].execution
             u == req[x].actor
  <1>1. Closing(x) /\ Rest(x) = {}
    BY DEF TxLocal, ScanReady, Closing, Rest, Entries
  <1>2. ASSUME NEW w \in work[x]
        PROVE  /\ w = [id |-> w.id, row |-> w.row] /\ w.row = SkippedRow(e, w.id, u)
               /\ w.id \in Unfinished(e) /\ EvidenceCreate(w.row.data)
    BY <1>1, Zenon DEF TxLocal, ScanReady
  <1>3. ASSUME NEW p \in Procs
        PROVE  /\ DraftsOf(e, p) \subseteq {w.id : w \in work[x]}
               /\ AttemptsOf(e, p) = {} => GeneratedId(e, p) \in {w.id : w \in work[x]}
    BY <1>1, Zenon DEF TxLocal, ScanReady
  <1>4. ASSUME NEW a \in Unfinished(e) PROVE [id |-> a, row |-> SkippedRow(e, a, u)] \in work[x]
    <2>1. PICK w \in work[x] : w.id = a
      BY <1>3, Zenon DEF Unfinished
    <2>2. QED
      BY <1>2, <2>1, Zenon
  <1>5. QED
    BY <1>2, <1>4, Zenon

(* CommitState of a closure is CloseExecution. *)
LEMMA CommitCloseRefines ==
  ASSUME IInv, NEW x \in Txs, TxLocal(x), CommitState(x), req[x].closed
  PROVE  [Next]_vars /\ Footprint(locks[x])
  <1> DEFINE r == req[x]
             e == req[x].execution
             u == req[x].actor
             rev == req[x].revision
             t == req[x].finished
             ids == {w.id : w \in work[x]}
             rowOf(a) == (CHOOSE w \in work[x] : w.id = a).row
  <1>0. pc[x] = "commit" /\ r.kind = "state" /\ r \in Requests \cap TxRequest
    BY Zenon DEF CommitState, TxLocal, AtStatement
  <1>1. e \in Executions /\ u \in Actors /\ rev \in 1..MaxRevision /\ t \in FinishTimes
    BY <1>0, RequestLemma, Zenon
  <1>2. /\ execution[e] # NULL /\ ExecutionLock(e) \in locks[x] /\ seen[x] = execution[e]
        /\ ~RefusedByExecution(r, execution[e])
    BY <1>0, <1>1, NullAssumption, Zenon
       DEF TxLocal, ExecutionRead, AfterLock, NoTarget, TargetExecution
  <1>2a. r.closed = TRUE /\ execution[e].closed \in BOOLEAN
    BY <1>0, <1>1, <1>2, RequestLemma, Zenon DEF IInv, TypeOK, ExecutionRow
  <1>3. /\ execution[e].revision = rev /\ ~execution[e].closed /\ rev < MaxRevision
    <2>1. /\ execution[e].revision = rev /\ execution[e].closed # r.closed
          /\ ~(execution[e].revision >= MaxRevision)
      BY <1>0, <1>2, Zenon DEF RefusedByExecution
    <2>2. ~execution[e].closed
      BY <1>2a, <2>1, Zenon
    <2>3. QED
      BY <1>1, <2>1, <2>2, BoundAssumption
  <1>4. /\ \A w \in work[x] : /\ w.id \in Unfinished(e) /\ w.row = SkippedRow(e, w.id, u)
                              /\ EvidenceCreate(w.row.data)
        /\ \A a \in Unfinished(e) : [id |-> a, row |-> SkippedRow(e, a, u)] \in work[x]
    BY <1>0, ScanComplete, Zenon
  <1>5. ids = Unfinished(e)
    <2>1. ASSUME NEW a \in Unfinished(e) PROVE a \in ids
      <3>1. [id |-> a, row |-> SkippedRow(e, a, u)] \in work[x]
        BY <1>4, Zenon
      <3>2. QED
        BY <3>1
    <2>2. QED
      BY <1>4, <2>1, Zenon
  <1>6. ASSUME NEW a \in Unfinished(e)
        PROVE  rowOf(a) = SkippedRow(e, a, u) /\ EvidenceCreate(SkippedRow(e, a, u).data)
    <2>1. \E w \in work[x] : w.id = a
      BY <1>5, Zenon
    <2>2. PICK w \in work[x] : w.id = a /\ w.row = rowOf(a)
      BY <2>1, Zenon
    <2>3. QED
      BY <1>4, <2>2, Zenon
  <1>7. {EvidenceOf(w.row, w.id, seen[x].revision + 1) : w \in work[x]}
          = {EvidenceOf(SkippedRow(e, a, u), a, rev + 1) : a \in Unfinished(e)}
    <2>1. ASSUME NEW w \in work[x]
          PROVE  EvidenceOf(w.row, w.id, seen[x].revision + 1)
                   = EvidenceOf(SkippedRow(e, w.id, u), w.id, rev + 1) /\ w.id \in Unfinished(e)
      BY <1>2, <1>3, <1>4, Zenon
    <2>2. ASSUME NEW a \in Unfinished(e)
          PROVE  \E w \in work[x] : w.id = a
      BY <1>5, Zenon
    <2>3. QED
      BY <2>1, <2>2
  <1>8. /\ attempt' = [a \in AttemptIds |-> IF a \in ids THEN FinalRow(rowOf(a), a, t) ELSE attempt[a]]
        /\ evidence' = evidence \cup {EvidenceOf(w.row, w.id, seen[x].revision + 1) : w \in work[x]}
        /\ filed' = [a \in AttemptIds |-> IF a \in ids THEN filed[a] + 1 ELSE filed[a]]
        /\ draftRef' = [a \in AttemptIds |-> IF a \in ids THEN {} ELSE draftRef[a]]
        /\ SetLifecycle(e, r.closed)
        /\ UNCHANGED <<stored, view>>
    BY Zenon DEF CommitState
  <1>9. CloseExecution(e, rev, u, t)
    <2>1. attempt' = [a \in AttemptIds |-> IF a \in Unfinished(e) THEN FinalRow(SkippedRow(e, a, u), a, t)
                                                              ELSE attempt[a]]
      BY <1>5, <1>6, <1>8
    <2>2. SetLifecycle(e, TRUE)
      BY <1>8, Zenon DEF SetLifecycle
    <2>3. QED
      BY <1>2, <1>3, <1>5, <1>6, <1>7, <1>8, <2>1, <2>2, ZenonT(60) DEF CloseExecution
  <1>10. [Next]_vars
    BY <1>1, <1>9, Zenon DEF Next
  <1>11. \A f \in Executions : execution'[f] = execution[f] \/ f = e
    BY <1>1, <1>8, Zenon DEF SetLifecycle, IInv, TypeOK
  <1>12. SharedSweepLock \in locks[x]
    BY <1>0, Zenon DEF TxLocal, SweepHeld, Closing
  <1>13. QED
    <2>1. ASSUME NEW a \in AttemptIds, attempt'[a] # attempt[a]
          PROVE  \/ /\ attempt[a] = NULL
                    /\ ExecutionLock(attempt'[a].execution) \in locks[x]
                 \/ /\ Draft(a) /\ attempt[a].execution # NULL
                    /\ ExecutionLock(attempt[a].execution) \in locks[x]
      <3>1. a \in Unfinished(e) /\ attempt'[a] = FinalRow(SkippedRow(e, a, u), a, t)
        BY <1>9, <2>1, Zenon DEF CloseExecution
      <3>2. CASE attempt[a] # NULL
        BY <1>1, <1>2, <3>1, <3>2, UnfinishedDraftLemma, NullAssumption DEF IInv
      <3>3. CASE attempt[a] = NULL
        <4>1. SkippedRow(e, a, u) \in AttemptRow /\ SkippedRow(e, a, u).execution = e
          BY <1>1, <3>1, <3>3, SkippedRowLemma, Zenon DEF IInv
        <4>2. attempt'[a].execution = e
          BY <1>1, <3>1, <4>1, FinalRowLemma DEF IInv, TypeOK
        <4>3. QED
          BY <1>2, <3>3, <4>2, Zenon
      <3>4. QED
        BY <3>2, <3>3, Zenon
    <2>2. QED
      BY <1>2, <1>8, <1>10, <1>11, <1>12, <2>1, Zenon DEF Footprint

(* CommitState of a request to reopen is ReopenExecution. *)
LEMMA CommitReopenRefines ==
  ASSUME IInv, NEW x \in Txs, TxLocal(x), CommitState(x), ~req[x].closed
  PROVE  [Next]_vars /\ Footprint(locks[x])
  <1> DEFINE r == req[x]
             e == req[x].execution
             rev == req[x].revision
  <1>0. pc[x] = "commit" /\ r.kind = "state" /\ r \in Requests \cap TxRequest
    BY Zenon DEF CommitState, TxLocal, AtStatement
  <1>1. e \in Executions /\ rev \in 1..MaxRevision /\ r.closed = FALSE
    BY <1>0, RequestLemma, Zenon
  <1>2. /\ execution[e] # NULL /\ ExecutionLock(e) \in locks[x]
        /\ ~RefusedByExecution(r, execution[e])
        /\ execution[e].closed \in BOOLEAN
    BY <1>0, <1>1, NullAssumption, Zenon
       DEF TxLocal, ExecutionRead, AfterLock, NoTarget, TargetExecution, IInv, TypeOK, ExecutionRow
  <1>3. execution[e].revision = rev /\ execution[e].closed /\ rev < MaxRevision
    <2>1. /\ execution[e].revision = rev /\ execution[e].closed # r.closed
          /\ ~(execution[e].revision >= MaxRevision)
      BY <1>0, <1>2, Zenon DEF RefusedByExecution
    <2>2. execution[e].closed
      BY <1>1, <1>2, <2>1, Zenon
    <2>3. QED
      BY <1>1, <2>1, <2>2, BoundAssumption
  <1>4. work[x] = {}
    BY <1>0, Zenon DEF TxLocal, CommitReady
  <1>5. /\ attempt' = [a \in AttemptIds |-> attempt[a]]
        /\ evidence' = evidence
        /\ filed' = [a \in AttemptIds |-> filed[a]]
        /\ draftRef' = [a \in AttemptIds |-> draftRef[a]]
    BY <1>4, Zenon DEF CommitState
  <1>6. UNCHANGED <<attempt, draftRef, evidence, stored, filed, view>>
    BY <1>5, Zenon DEF CommitState, IInv, TypeOK
  <1>7. SetLifecycle(e, FALSE)
    BY <1>1, Zenon DEF CommitState
  <1>8. ReopenExecution(e, rev)
    BY <1>2, <1>3, <1>6, <1>7, ZenonT(60) DEF ReopenExecution
  <1>9. [Next]_vars
    BY <1>1, <1>8, Zenon DEF Next
  <1>10. \A f \in Executions : execution'[f] = execution[f] \/ f = e
    BY <1>1, <1>7, Zenon DEF SetLifecycle, IInv, TypeOK
  <1>11. Referenced' = Referenced
    BY <1>6, Zenon DEF Referenced
  <1>12. QED
    BY <1>2, <1>6, <1>9, <1>10, <1>11, Zenon DEF Footprint

(* DeleteBlob is SweepBlob, or the end of the loop. *)
LEMMA DeleteBlobRefines ==
  ASSUME IInv, NEW x \in Txs, TxLocal(x), DeleteBlob(x)
  PROVE  [Next]_vars /\ Footprint(locks[x])
  <1>1. pc[x] = "delete" /\ SweepLock \in locks[x]
    BY Zenon DEF DeleteBlob, TxLocal, SweepHeld
  <1>2. work[x] \subseteq Blobs /\ work[x] \cap Referenced = {}
    BY <1>1, Zenon DEF TxLocal, CommitReady
  <1>3. UNCHANGED <<execution, attempt, draftRef, evidence, event, filed, view>>
    BY Zenon DEF DeleteBlob
  <1>4. Referenced' = Referenced
    BY <1>3, Zenon DEF Referenced
  <1>5. UNCHANGED stored \/ \E b \in work[x] : stored' = stored \ {b}
    BY Zenon DEF DeleteBlob
  <1>6. CASE UNCHANGED stored
    BY <1>3, <1>6, QuietFootprint, Zenon DEF vars
  <1>7. ASSUME NEW b \in work[x], stored' = stored \ {b}, b \in stored PROVE [Next]_vars
    BY <1>2, <1>3, <1>7, Zenon DEF Next, SweepBlob
  <1>8. ASSUME NEW b \in work[x], stored' = stored \ {b}, b \notin stored PROVE UNCHANGED vars
    BY <1>3, <1>8, Zenon DEF vars
  <1>9. [Next]_vars
    BY <1>3, <1>5, <1>7, <1>8, Zenon DEF vars
  <1>10. Footprint(locks[x])
    BY <1>1, <1>3, <1>4, Zenon DEF Footprint
  <1>11. QED
    BY <1>9, <1>10, Zenon

(* CommitExpired is DeleteBatch: it changes finalized attempts only. *)
LEMMA CommitExpiredRefines ==
  ASSUME IInv, NEW x \in Txs, TxLocal(x), CommitExpired(x)
  PROVE  [Next]_vars /\ Footprint(locks[x])
  <1>1. PICK batch \in SUBSET evidence : DeleteBatch(batch)
    BY Zenon DEF CommitExpired
  <1>2. [Next]_vars
    <2>1. CASE batch = {}
      <3>1. /\ attempt' = [a \in AttemptIds |-> attempt[a]] /\ evidence' = evidence
            /\ UNCHANGED <<execution, draftRef, event, stored, filed, view>>
        BY <1>1, <2>1, Zenon DEF DeleteBatch
      <3>2. attempt' = attempt
        BY <3>1, Zenon DEF IInv, TypeOK
      <3>3. QED
        BY <3>1, <3>2, Zenon DEF vars
    <2>2. CASE batch # {}
      <3>1. batch \in (SUBSET evidence) \ {{}}
        BY <2>2, Zenon
      <3>2. QED
        BY <1>1, <3>1, Zenon DEF Next
    <2>3. QED
      BY <2>1, <2>2, Zenon
  <1>3. ASSUME NEW a \in AttemptIds, attempt'[a] # attempt[a]
        PROVE  attempt[a] # NULL /\ Finalized(a)
    <2>1. PICK ev \in batch : ev.attempt = a
      BY <1>1, <1>3, Zenon DEF DeleteBatch
    <2>2. QED
      BY <1>1, <2>1, Zenon DEF IInv, EvidenceIsFinal
  <1>4. Referenced' \subseteq Referenced
    <2>1. /\ \A a \in AttemptIds : draftRef'[a] \subseteq Referenced
          /\ \A ev \in evidence' : ev.refs \subseteq Referenced
          /\ PackageAssets \subseteq Referenced
      BY <1>1, ReferencedLemma, Zenon DEF DeleteBatch
    <2>2. QED
      BY <2>1, ReferencedAfterLemma, Zenon
  <1>5. QED
    BY <1>1, <1>2, <1>3, <1>4, Zenon DEF Footprint, DeleteBatch

(* A request of one statement, and the creation of an execution, change    *)
(* only what is new.                                                       *)
LEMMA SimpleRefines ==
  ASSUME IInv,
         \/ \E e \in Executions : CreateExecution(e)
         \/ \E r \in Requests \cap SimpleRequest : SingleStatement(r)
  PROVE  [Next]_vars /\ Footprint({})
  <1>1. ASSUME NEW e \in Executions, CreateExecution(e) PROVE [Next]_vars /\ Footprint({})
    <2>1. Referenced' = Referenced
      BY <1>1, Zenon DEF CreateExecution, Referenced
    <2>2. \A f \in Executions : execution[f] = NULL \/ execution'[f] = execution[f]
      BY <1>1, Zenon DEF CreateExecution, IInv, TypeOK
    <2>3. [Next]_vars
      BY <1>1, Zenon DEF Next
    <2>4. QED
      BY <1>1, <2>1, <2>2, <2>3, Zenon DEF Footprint, CreateExecution
  <1>2. ASSUME NEW r \in Requests \cap SimpleRequest, SingleStatement(r)
        PROVE  [Next]_vars /\ Footprint({})
    <2>1. CASE r.kind = "get" /\ GetExecution(r.execution)
      <3>1. r.execution \in Executions
        BY <2>1, Zenon DEF SimpleRequest, GetRequest, CreateRequest, PutRequest
      <3>2. Referenced' = Referenced
        BY <2>1, Zenon DEF GetExecution, Referenced
      <3>3. [Next]_vars
        BY <2>1, <3>1, Zenon DEF Next
      <3>4. QED
        BY <2>1, <3>2, <3>3, Zenon DEF Footprint, GetExecution
    <2>2. ASSUME r.kind = "create", NEW ctx \in PriorContexts(r.actor),
                 CreateAttempt(r.id, r.ref, r.actor, ctx)
          PROVE  [Next]_vars /\ Footprint({})
      <3>1. r.id \in ClientIds /\ r.ref \in Procs /\ r.actor \in Actors /\ r.id \in AttemptIds
        BY <2>2, Zenon DEF SimpleRequest, GetRequest, CreateRequest, PutRequest, AttemptIds
      <3>2. Referenced' = Referenced
        BY <2>2, Zenon DEF CreateAttempt, Referenced
      <3>3. /\ attempt[r.id] = NULL /\ attempt'[r.id].execution = NULL
            /\ \A a \in AttemptIds \ {r.id} : attempt'[a] = attempt[a]
        BY <2>2, <3>1, Zenon DEF CreateAttempt, NewAttempt, IInv, TypeOK
      <3>4. [Next]_vars
        BY <2>2, <3>1, Zenon DEF Next
      <3>5. QED
        BY <2>2, <3>2, <3>3, <3>4, Zenon DEF Footprint, CreateAttempt
    <2>3. CASE r.kind = "put" /\ PutBlob(r.digest)
      <3>1. r.digest \in Blobs
        BY <2>3, Zenon DEF SimpleRequest, GetRequest, CreateRequest, PutRequest
      <3>2. Referenced' = Referenced
        BY <2>3, Zenon DEF PutBlob, Referenced
      <3>3. [Next]_vars
        BY <2>3, <3>1, Zenon DEF Next
      <3>4. QED
        BY <2>3, <3>2, <3>3, Zenon DEF Footprint, PutBlob
    <2>4. QED
      BY <1>2, <2>1, <2>2, <2>3, Zenon DEF SingleStatement
  <1>3. QED
    BY <1>1, <1>2, Zenon

(***************************************************************************)
(* Steps of the others: what a transaction has locked stays as it is.      *)
(***************************************************************************)
(* The row and the unfinished work of an execution that is locked against  *)
(* the step.                                                               *)
LEMMA ExecutionFrozen ==
  ASSUME IInv, IInv', [Next]_vars, NEW L, Footprint(L), NEW e \in Executions,
         ExecutionLock(e) \notin L, execution[e] # NULL
  PROVE  /\ execution'[e] = execution[e]
         /\ \A p \in Procs : AttemptsOf(e, p)' = AttemptsOf(e, p) /\ DraftsOf(e, p)' = DraftsOf(e, p)
         /\ Unfinished(e)' = Unfinished(e)
         /\ \A a \in Unfinished(e) : attempt'[a] = attempt[a]
  <1>0. TypeOK /\ EvidenceMatchesAttempt /\ AttemptStep /\ e # NULL
    BY AttemptStepLemma, NullAssumption, Zenon DEF IInv
  <1>1. execution'[e] = execution[e]
    BY Zenon DEF Footprint
  <1>2. ASSUME NEW a \in AttemptIds
        PROVE  /\ attempt[a] # NULL /\ attempt[a].execution = e =>
                    /\ attempt'[a] # NULL /\ attempt'[a].execution = e
                    /\ attempt'[a].ref = attempt[a].ref
                    /\ Finalized(a) = Finalized(a)'
                    /\ Draft(a) => attempt'[a] = attempt[a]
               /\ attempt'[a] # NULL /\ attempt'[a].execution = e => attempt[a] # NULL
    <2>1. CASE attempt'[a] = attempt[a]
      BY <2>1, Zenon DEF Finalized
    <2>2. CASE attempt[a] = NULL
      BY <1>0, <2>2, Zenon DEF Footprint, Draft
    <2>3. CASE attempt'[a] # attempt[a] /\ attempt[a] # NULL
      <3>1. attempt[a].execution = e => Finalized(a)
        BY <1>0, <2>3, Zenon DEF Footprint, Draft
      <3>2. /\ attempt'[a] # NULL /\ attempt'[a].execution = attempt[a].execution
            /\ attempt'[a].ref = attempt[a].ref
            /\ Finalized(a) => attempt'[a].finalizedRevision = attempt[a].finalizedRevision
        BY <1>0, <2>3, AttemptsStay, Zenon
      <3>3. QED
        BY <2>3, <3>1, <3>2, Zenon DEF Finalized, Draft
    <2>4. QED
      BY <2>1, <2>2, <2>3, Zenon
  <1>3. ASSUME NEW p \in Procs
        PROVE  AttemptsOf(e, p)' = AttemptsOf(e, p) /\ DraftsOf(e, p)' = DraftsOf(e, p)
    <2>1. ASSUME NEW a \in AttemptIds, attempt'[a] # NULL, attempt'[a].execution = e
          PROVE  /\ attempt[a] # NULL /\ attempt[a].execution = e /\ attempt[a].ref = attempt'[a].ref
      BY <1>0, <1>2, <2>1, AttemptsStay, Zenon
    <2>2. AttemptsOf(e, p)' = AttemptsOf(e, p)
      BY <1>2, <2>1, Zenon DEF AttemptsOf
    <2>3. \A a \in AttemptsOf(e, p) : Finalized(a) = Finalized(a)'
      BY <1>2, Zenon DEF AttemptsOf
    <2>4. QED
      BY <2>2, <2>3, Zenon DEF DraftsOf
  <1>4. Unfinished(e)' = Unfinished(e)
    BY <1>3, Zenon DEF Unfinished, GeneratedId
  <1>5. ASSUME NEW a \in Unfinished(e) PROVE attempt'[a] = attempt[a]
    <2>1. a \in AttemptIds
      BY Zenon DEF Unfinished
    <2>2. CASE \E p \in Procs : a \in DraftsOf(e, p)
      BY <1>2, <2>1, <2>2, Zenon DEF DraftsOf, AttemptsOf, Draft
    <2>3. ASSUME NEW p \in Procs, a = GeneratedId(e, p), AttemptsOf(e, p) = {}
          PROVE  attempt'[a] = attempt[a]
      <3>1. attempt[a] = NULL
        BY <2>1, <2>3, Zenon DEF IInv, GeneratedIdIsOwn, AttemptsOf
      <3>2. attempt'[a] = NULL
        <4>1. attempt'[a] # NULL => attempt'[a].execution = e
          BY <2>3, Zenon DEF IInv, GeneratedIdIsOwn, GeneratedId
        <4>2. QED
          BY <1>2, <2>1, <3>1, <4>1, Zenon
      <3>3. QED
        BY <3>1, <3>2, Zenon
    <2>4. QED
      BY <2>2, <2>3, Zenon DEF Unfinished
  <1>6. QED
    BY <1>1, <1>3, <1>4, <1>5, Zenon

(* A draft that is locked against the step. *)
LEMMA DraftFrozen ==
  ASSUME NEW L, Footprint(L), NEW a \in AttemptIds, Draft(a), AttemptLock(a) \notin L,
         attempt[a].execution # NULL => ExecutionLock(attempt[a].execution) \notin L
  PROVE  attempt'[a] = attempt[a]
  BY Zenon DEF Footprint, Draft

(* Rows are never deleted and attempts keep their execution: a request's   *)
(* target stays its target.                                                *)
LEMMA TargetStays ==
  ASSUME IInv, [Next]_vars, NEW r \in Requests \cap TxRequest,
         r.kind \in {"start", "save", "finalize", "state"}, ~NoTarget(r)
  PROVE  /\ ~NoTarget(r)' /\ TargetExecution(r)' = TargetExecution(r)
         /\ TargetExecution(r) \in Executions \cup {NULL}
         /\ TargetExecution(r) # NULL => execution[TargetExecution(r)] # NULL
  <1>0. TypeOK /\ ExecutionExists /\ EvidenceMatchesAttempt /\ AttemptStep
    BY AttemptStepLemma, Zenon DEF IInv
  <1>1. CASE r.kind \in {"start", "state"}
    <2>1. r.execution \in Executions /\ execution[r.execution] # NULL
      BY <1>1, RequestLemma, Zenon DEF NoTarget
    <2>2. execution'[r.execution] # NULL
      BY <1>0, <2>1, ExecutionStepLemma, Zenon
    <2>3. QED
      BY <1>1, <2>1, <2>2, Zenon DEF NoTarget, TargetExecution
  <1>2. CASE r.kind \in {"save", "finalize"}
    <2>1. r.id \in AttemptIds /\ attempt[r.id] # NULL
      BY <1>2, RequestLemma, Zenon DEF NoTarget
    <2>2. attempt'[r.id] # NULL /\ attempt'[r.id].execution = attempt[r.id].execution
      BY <1>0, <2>1, AttemptsStay, Zenon
    <2>3. attempt[r.id].execution \in Executions \cup {NULL}
      BY <1>0, <2>1, Zenon DEF TypeOK, AttemptRow
    <2>4. QED
      BY <1>0, <1>2, <2>1, <2>2, <2>3, Zenon DEF NoTarget, TargetExecution, ExecutionExists
  <1>3. QED
    BY <1>1, <1>2, Zenon

(* The locks that matter. *)
LEMMA CompatibleLemma ==
  ASSUME NEW y \in Txs, NEW L, Compatible(y, L)
  PROVE  /\ \A e : ExecutionLock(e) \in locks[y] => ExecutionLock(e) \notin L
         /\ \A a : AttemptLock(a) \in locks[y] => AttemptLock(a) \notin L
         /\ SharedSweepLock \in locks[y] => SweepLock \notin L
         /\ SweepLock \in locks[y] => SharedSweepLock \notin L
  <1>1. ASSUME NEW l, l \in locks[y], NEW m, m \in Conflicting(l) PROVE m \notin L
    BY <1>1, Zenon DEF Compatible
  <1>2. /\ \A e : Conflicting(ExecutionLock(e)) = {ExecutionLock(e)}
        /\ \A a : Conflicting(AttemptLock(a)) = {AttemptLock(a)}
        /\ Conflicting(SharedSweepLock) = {SweepLock}
        /\ Conflicting(SweepLock) = {SweepLock, SharedSweepLock}
    BY Zenon DEF Conflicting, ExecutionLock, AttemptLock, SharedSweepLock, SweepLock
  <1>3. QED
    BY <1>1, <1>2, Zenon

(* The execution row a transaction has read does not change. *)
LEMMA OtherExecutionRead ==
  ASSUME IInv, IInv', [Next]_vars, NEW y \in Txs, TxLocal(y), Keeps(y), NEW L, Footprint(L),
         Compatible(y, L)
  PROVE  /\ ExecutionRead(y)'
         /\ pc[y] \in AfterLock => TargetExecution(req[y])' = TargetExecution(req[y])
  <1>1. CASE pc[y] \notin AfterLock
    BY <1>1, Zenon DEF Keeps, TxLocal, ExecutionRead
  <1>2. CASE pc[y] \in AfterLock
    <2>0. PICK r : r = req[y]
      BY Zenon
    <2>1. /\ r \in Requests \cap TxRequest /\ r.kind \in {"start", "save", "finalize", "state"}
          /\ ~NoTarget(r)
      BY <1>2, <2>0, Zenon DEF TxLocal, AtStatement, ExecutionRead, AfterLock
    <2>2. /\ ~NoTarget(r)' /\ TargetExecution(r)' = TargetExecution(r)
          /\ TargetExecution(r) \in Executions \cup {NULL}
          /\ TargetExecution(r) # NULL => execution[TargetExecution(r)] # NULL
      BY <2>1, TargetStays, Zenon
    <2>3. PICK e : e = TargetExecution(r)
      BY Zenon
    <2>4. CASE e = NULL
      BY <1>2, <2>0, <2>2, <2>3, <2>4, Zenon DEF Keeps, TxLocal, ExecutionRead
    <2>5. CASE e # NULL
      <3>1. /\ ExecutionLock(e) \in locks[y] /\ seen[y] = execution[e]
            /\ ~RefusedByExecution(r, seen[y])
        BY <1>2, <2>0, <2>3, <2>5, Zenon DEF TxLocal, ExecutionRead
      <3>2. execution'[e] = execution[e]
        BY <2>2, <2>3, <2>5, <3>1, CompatibleLemma, Zenon DEF Footprint
      <3>3. RefusedByExecution(r, seen[y])' = RefusedByExecution(r, seen[y])
        BY Zenon DEF Keeps
      <3>4. QED
        BY <1>2, <2>0, <2>2, <2>3, <2>5, <3>1, <3>2, <3>3, Zenon DEF Keeps, ExecutionRead
    <2>6. TargetExecution(req[y])' = TargetExecution(r)'
      BY <2>0, Zenon DEF Keeps, TargetExecution
    <2>7. QED
      BY <2>0, <2>2, <2>4, <2>5, <2>6, Zenon
  <1>3. QED
    BY <1>1, <1>2, Zenon

(* Nor does the attempt. *)
LEMMA OtherAttemptRead ==
  ASSUME IInv, NEW y \in Txs, TxLocal(y), Keeps(y), NEW L, Footprint(L), Compatible(y, L)
  PROVE  AttemptRead(y)'
  <1>1. SUFFICES ASSUME HasAttempt(y) PROVE AttemptRead(y)'
    BY Zenon DEF Keeps, HasAttempt, AttemptRead
  <1>2. PICK r : r = req[y]
    BY Zenon
  <1>3. /\ r \in Requests \cap TxRequest /\ r.kind \in {"save", "finalize"} /\ pc[y] \in AfterLock
    BY <1>1, <1>2, Zenon DEF TxLocal, AtStatement, HasAttempt, AfterLock
  <1>4. /\ r.id \in AttemptIds /\ AttemptLock(r.id) \in locks[y] /\ Draft(r.id)
        /\ attempt[r.id].execution # NULL => ExecutionLock(attempt[r.id].execution) \in locks[y]
    BY <1>1, <1>2, <1>3, RequestLemma, Zenon
       DEF TxLocal, AttemptRead, ExecutionRead, TargetExecution
  <1>5. attempt'[r.id] = attempt[r.id]
    <2>1. /\ AttemptLock(r.id) \notin L
          /\ attempt[r.id].execution # NULL => ExecutionLock(attempt[r.id].execution) \notin L
      BY <1>4, CompatibleLemma, Zenon
    <2>2. QED
      BY <1>4, <2>1, DraftFrozen, Zenon
  <1>6. /\ Draft(r.id)' = Draft(r.id)
        /\ SaveRefused(r)' = SaveRefused(r)
        /\ FinalizeRefused(r, seen[y])' = FinalizeRefused(r, seen[y])
    BY <1>5, Zenon DEF Keeps, Draft, SaveRefused, FinalizeRefused, Visible, Finalized
  <1>7. /\ r.kind = "save" => ~SaveRefused(r)
        /\ r.kind = "finalize" => ~FinalizeRefused(r, seen[y])
        /\ work[y] = {[id |-> r.id, row |-> attempt[r.id]]}
    BY <1>1, <1>2, Zenon DEF TxLocal, AttemptRead
  <1>8. QED
    BY <1>2, <1>4, <1>5, <1>6, <1>7, ZenonT(60) DEF Keeps, AttemptRead

(* What its commit relies on stays so. *)
LEMMA OtherCommitReady ==
  ASSUME IInv, IInv', [Next]_vars, NEW y \in Txs, TxLocal(y), Keeps(y), NEW L, Footprint(L),
         Compatible(y, L)
  PROVE  CommitReady(y)'
  <1>0. PICK r : r = req[y]
    BY Zenon
  <1>1. ASSUME pc[y] = "commit", r.kind = "start" PROVE DraftsOf(r.execution, r.ref)' = {}
    <2>1. /\ r \in Requests \cap TxRequest /\ r.execution \in Executions /\ r.ref \in Procs
      BY <1>0, <1>1, RequestLemma, Zenon DEF TxLocal, AtStatement
    <2>2. execution[r.execution] # NULL /\ ExecutionLock(r.execution) \in locks[y]
      BY <1>0, <1>1, <2>1, NullAssumption, Zenon
         DEF TxLocal, ExecutionRead, AfterLock, NoTarget, TargetExecution
    <2>3. DraftsOf(r.execution, r.ref)' = DraftsOf(r.execution, r.ref)
      <3>1. ExecutionLock(r.execution) \notin L
        BY <2>2, CompatibleLemma, ZenonT(60)
      <3>2. QED
        BY <2>1, <2>2, <3>1, ExecutionFrozen, Zenon
    <2>4. QED
      BY <1>0, <1>1, <2>3, Zenon DEF TxLocal, CommitReady
  <1>2. ASSUME pc[y] = "commit", r.kind = "save" PROVE r.data.media \subseteq stored'
    <2>1. SharedSweepLock \in locks[y] /\ r.data.media \subseteq stored
      BY <1>0, <1>2, Zenon DEF TxLocal, CommitReady, SweepHeld, HasAttempt
    <2>2. QED
      BY <2>1, CompatibleLemma, Zenon DEF Footprint
  <1>3. ASSUME pc[y] = "delete" PROVE work[y] \cap Referenced' = {}
    <2>1. SweepLock \in locks[y] /\ work[y] \cap Referenced = {}
      BY <1>3, Zenon DEF TxLocal, CommitReady, SweepHeld
    <2>2. Referenced' \subseteq Referenced
      BY <2>1, CompatibleLemma, Zenon DEF Footprint
    <2>3. QED
      BY <2>1, <2>2, Zenon
  <1>4. /\ pc[y] = "commit" /\ req[y].kind = "start" => ~seen[y].closed
        /\ pc[y] \in {"idle", "execution", "find", "sweeplock", "attempt"} => work[y] = {}
        /\ pc[y] = "commit" /\ req[y].kind = "state" /\ ~req[y].closed => work[y] = {}
        /\ pc[y] \in {"exclusive", "reachable", "delete"} => work[y] \subseteq Blobs
    BY Zenon DEF TxLocal, CommitReady
  <1>5. (DraftsOf(req[y].execution, req[y].ref))' = DraftsOf(r.execution, r.ref)'
    BY <1>0, Zenon DEF Keeps, DraftsOf, AttemptsOf, Finalized
  <1>6. QED
    BY <1>0, <1>1, <1>2, <1>3, <1>4, <1>5, Zenon DEF Keeps, CommitReady

(* Nor does what a closure has collected. *)
LEMMA OtherScanReady ==
  ASSUME IInv, IInv', [Next]_vars, NEW y \in Txs, TxLocal(y), Keeps(y), NEW L, Footprint(L),
         Compatible(y, L)
  PROVE  ScanReady(y)'
  <1>1. SUFFICES ASSUME Closing(y) PROVE ScanReady(y)'
    BY Zenon DEF Keeps, Closing, ScanReady
  <1>2. PICK r : r = req[y]
    BY Zenon
  <1>3. r \in Requests \cap TxRequest /\ r.kind = "state" /\ r.closed /\ pc[y] \in AfterLock
    BY <1>1, <1>2, Zenon DEF TxLocal, AtStatement, Closing, AfterLock
  <1>4. r.execution \in Executions
    BY <1>3, RequestLemma, Zenon
  <1>5. execution[r.execution] # NULL /\ ExecutionLock(r.execution) \in locks[y]
    BY <1>2, <1>3, <1>4, NullAssumption, Zenon
       DEF TxLocal, ExecutionRead, NoTarget, TargetExecution
  <1>6. /\ \A p \in Procs : /\ AttemptsOf(r.execution, p)' = AttemptsOf(r.execution, p)
                            /\ DraftsOf(r.execution, p)' = DraftsOf(r.execution, p)
        /\ Unfinished(r.execution)' = Unfinished(r.execution)
        /\ \A a \in Unfinished(r.execution) : attempt'[a] = attempt[a]
    <2>1. ExecutionLock(r.execution) \notin L
      BY <1>5, CompatibleLemma, Zenon
    <2>2. QED
      BY <1>4, <1>5, <2>1, ExecutionFrozen, Zenon
  <1>7. \A a \in Unfinished(r.execution) :
          SkippedRow(r.execution, a, r.actor)' = SkippedRow(r.execution, a, r.actor)
    BY <1>6, Zenon DEF SkippedRow, GeneratedRow
  <1>8. Rest(y)' = Rest(y) /\ Closing(y)'
    BY <1>1, Zenon DEF Keeps, Rest, Closing
  <1>9. /\ pc[y] = "scan" => todo[y] \in Seq(Procs) \ {<<>>}
        /\ pc[y] = "commit" => todo[y] = <<>>
        /\ \A w \in work[y] : /\ w = [id |-> w.id, row |-> w.row]
                              /\ w.row = SkippedRow(r.execution, w.id, r.actor)
                              /\ w.id \in Unfinished(r.execution)
                              /\ EvidenceCreate(w.row.data)
        /\ \A p \in Procs : p \in Rest(y) \/
             /\ DraftsOf(r.execution, p) \subseteq {w.id : w \in work[y]}
             /\ AttemptsOf(r.execution, p) = {} => GeneratedId(r.execution, p) \in {w.id : w \in work[y]}
    BY <1>1, <1>2, Zenon DEF TxLocal, ScanReady
  <1>10. /\ \A p \in Procs : /\ AttemptsOf(req[y].execution, p)' = AttemptsOf(r.execution, p)'
                             /\ DraftsOf(req[y].execution, p)' = DraftsOf(r.execution, p)'
         /\ Unfinished(req[y].execution)' = Unfinished(r.execution)'
         /\ \A a : SkippedRow(req[y].execution, a, req[y].actor)' = SkippedRow(r.execution, a, r.actor)'
    <2>0. req'[y] = r
      BY <1>2, Zenon DEF Keeps
    <2>1. \A p \in Procs : /\ AttemptsOf(req[y].execution, p)' = AttemptsOf(r.execution, p)'
                            /\ DraftsOf(req[y].execution, p)' = DraftsOf(r.execution, p)'
      BY <2>0, Zenon DEF DraftsOf, AttemptsOf, Finalized
    <2>2. Unfinished(req[y].execution)' = Unfinished(r.execution)'
      BY <2>0, Zenon DEF DraftsOf, AttemptsOf, Finalized, Unfinished, GeneratedId
    <2>3. \A a : SkippedRow(req[y].execution, a, req[y].actor)' = SkippedRow(r.execution, a, r.actor)'
      BY <2>0
         DEF SkippedRow, GeneratedRow, SkipRow, SkipUnfinished, NewAttempt, InitialDraft, Cleared
    <2>4. QED
      BY <2>1, <2>2, <2>3, Zenon
  <1>11. /\ \A w \in work[y] :
              w.row = SkippedRow(req[y].execution, w.id, req[y].actor)'
                /\ w.id \in Unfinished(req[y].execution)'
         /\ \A p \in Procs : p \in Rest(y) \/
              /\ DraftsOf(req[y].execution, p)' \subseteq {w.id : w \in work[y]}
              /\ AttemptsOf(req[y].execution, p)' = {} =>
                   GeneratedId(req[y].execution, p)' \in {w.id : w \in work[y]}
    BY <1>2, <1>6, <1>7, <1>9, <1>10, ZenonT(60) DEF Keeps, GeneratedId
  <1>12. QED
    BY <1>8, <1>9, <1>11, Zenon DEF Keeps, ScanReady

(* Its locks stay the ones it may have. *)
LEMMA OtherLocksAtMost ==
  ASSUME IInv, IInv', [Next]_vars, NEW y \in Txs, TxLocal(y), Keeps(y), NEW L, Footprint(L),
         Compatible(y, L)
  PROVE  LocksAtMost(y)'
  <1>1. pc[y] \in AfterLock => TargetExecution(req[y])' = TargetExecution(req[y])
    BY OtherExecutionRead, Zenon
  <1>2. ASSUME pc[y] = "scan", NEW a \in AttemptIds, AttemptLock(a) \in locks[y]
        PROVE  attempt'[a] # NULL /\ attempt'[a].execution = req[y].execution
    <2>1. attempt[a] # NULL /\ attempt[a].execution = req[y].execution
      BY <1>2, Zenon DEF TxLocal, LocksAtMost
    <2>2. QED
      BY <2>1, AttemptStepLemma, AttemptsStay, Zenon DEF IInv
  <1>3. LocksAtMost(y)
    BY Zenon DEF TxLocal
  <1>4. /\ ExecutionLock(TargetExecution(req[y]))' = ExecutionLock(TargetExecution(req[y])')
        /\ \A a : AttemptLock(a)' = AttemptLock(a)
        /\ SweepLock' = SweepLock /\ SharedSweepLock' = SharedSweepLock
    BY Zenon DEF ExecutionLock, AttemptLock, SweepLock, SharedSweepLock
  <1>5. QED
    BY <1>1, <1>2, <1>3, <1>4, Zenon DEF Keeps, LocksAtMost, AfterLock

(* Together: a step of one transaction preserves the others' invariants. *)
LEMMA OtherKeeps ==
  ASSUME IInv, IInv', [Next]_vars, NEW y \in Txs, TxLocal(y), Keeps(y), NEW L, Footprint(L),
         Compatible(y, L)
  PROVE  TxLocal(y)'
  <1>1. AtStatement(y)'
    BY Zenon DEF Keeps, TxLocal, AtStatement
  <1>2. SweepHeld(y)'
    BY Zenon DEF Keeps, TxLocal, SweepHeld, HasAttempt, Closing
  <1>3. QED
    BY <1>1, <1>2, OtherExecutionRead, OtherAttemptRead, OtherCommitReady, OtherScanReady,
       OtherLocksAtMost, Zenon DEF TxLocal
==============================================================================
