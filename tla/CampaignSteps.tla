--------------------------- MODULE CampaignSteps ---------------------------
(***************************************************************************)
(* Lemmas about Campaign: every step keeps the types, and is one of a few  *)
(* kinds of step to the attempts and their evidence.                       *)
(***************************************************************************)
EXTENDS CampaignInv, TLAPS

(***************************************************************************)
(* Rows.                                                                   *)
(***************************************************************************)
(* What closure, expiry and initialisation make of draft data is draft     *)
(* data, and closure keeps the attachments.                                *)
LEMMA DraftDataLemma ==
  /\ Cleared \in DraftData /\ Cleared.media = {}
  /\ \A ctx \in Text : /\ InitialDraft(ctx, DefaultInputs, DefaultMedia) \in DraftData
                        /\ InitialDraft(ctx, DefaultInputs, DefaultMedia).media = DefaultMedia
  /\ \A d \in DraftData : SkipUnfinished(d) \in DraftData /\ SkipUnfinished(d).media = d.media
  BY PackageAssumption, ZenonT(60)
     DEF Cleared, InitialDraft, SkipUnfinished, DraftData, Text, Results, Outcomes

(* What finalizing must keep of what a tester entered. *)
WorkKept(old, new) ==
  /\ new.ctx = old.ctx /\ new.inputs = old.inputs /\ new.media = old.media
  /\ \A c \in Checks : old.checks[c] # "" => new.checks[c] = old.checks[c]

(* Closure keeps it. *)
LEMMA SkipKeepsWork ==
  \A d \in DraftData : WorkKept(d, SkipUnfinished(d))
  BY ZenonT(60) DEF WorkKept, SkipUnfinished, DraftData

(* A new attempt is a draft with the data it is given. *)
LEMMA NewAttemptLemma ==
  ASSUME NEW e \in Executions \cup {NULL}, NEW p \in Procs, NEW u \in Actors, NEW d \in DraftData
  PROVE  /\ NewAttempt(e, p, u, d) \in AttemptRow
         /\ NewAttempt(e, p, u, d).execution = e
         /\ NewAttempt(e, p, u, d).ref = p
         /\ NewAttempt(e, p, u, d).data = d
         /\ NewAttempt(e, p, u, d).revision = 1
         /\ NewAttempt(e, p, u, d).finalizedRevision = NULL
  BY Zenon DEF NewAttempt, AttemptRow

(* Finalizing keeps identity and data, and sets every finalization column. *)
LEMMA FinalRowLemma ==
  ASSUME NEW row \in AttemptRow, NEW a \in AttemptIds, NEW t \in FinishTimes,
         filed \in [AttemptIds -> Nat]
  PROVE  /\ FinalRow(row, a, t) \in AttemptRow
         /\ FinalRow(row, a, t).execution = row.execution
         /\ FinalRow(row, a, t).ref = row.ref
         /\ FinalRow(row, a, t).data = row.data
         /\ FinalRow(row, a, t).revision = row.revision + 1
         /\ FinalRow(row, a, t).finalizedRevision # NULL
         /\ FinalRow(row, a, t).evidence = EvidenceId(a)
  <1>1. EvidenceId(a) \in AttemptIds \X Nat
    BY DEF EvidenceId
  <1>2. row.revision \in Nat /\ row.revision + 1 \in Nat
    BY DEF AttemptRow
  <1>3. QED
    BY <1>1, <1>2, NullAssumption, ZenonT(60) DEF FinalRow, AttemptRow

(* Closure changes an attempt's data and nothing else. *)
LEMMA SkipRowLemma ==
  ASSUME NEW row \in AttemptRow
  PROVE  /\ SkipRow(row) \in AttemptRow
         /\ SkipRow(row).execution = row.execution
         /\ SkipRow(row).ref = row.ref
         /\ SkipRow(row).revision = row.revision
         /\ SkipRow(row).data = SkipUnfinished(row.data)
  BY DraftDataLemma, Zenon DEF SkipRow, AttemptRow

(* Expiry keeps identity, revision and the finalization columns. *)
LEMMA ExpiredRowLemma ==
  ASSUME NEW row \in AttemptRow
  PROVE  /\ ExpiredRow(row) \in AttemptRow
         /\ ExpiredRow(row).execution = row.execution
         /\ ExpiredRow(row).ref = row.ref
         /\ ExpiredRow(row).revision = row.revision
         /\ ExpiredRow(row).finalizedRevision = row.finalizedRevision
         /\ ExpiredRow(row).data = Cleared
         /\ ExpiredRow(row).evidence = NULL
  BY DraftDataLemma, ZenonT(60) DEF ExpiredRow, AttemptRow

(* The evidence of an attempt. *)
LEMMA EvidenceOfLemma ==
  ASSUME NEW row \in AttemptRow, NEW a \in AttemptIds, NEW c \in Nat \cup {NULL},
         filed \in [AttemptIds -> Nat]
  PROVE  /\ EvidenceOf(row, a, c) \in EvidenceRow
         /\ EvidenceOf(row, a, c).id = EvidenceId(a)
         /\ EvidenceOf(row, a, c).attempt = a
         /\ EvidenceOf(row, a, c).data = row.data
         /\ EvidenceOf(row, a, c).refs = row.data.media \cup PackageAssets
         /\ EvidenceOf(row, a, c).closure = c
  <1>1. EvidenceId(a) \in AttemptIds \X Nat
    BY DEF EvidenceId
  <1>2. row.data \in DraftData
    BY Zenon DEF AttemptRow
  <1>3. row.data.media \cup PackageAssets \subseteq Blobs
    BY <1>2, PackageAssumption, ZenonT(60) DEF DraftData
  <1>4. QED
    BY <1>1, <1>2, <1>3, Zenon DEF EvidenceOf, EvidenceRow

(* The attempts a closure disposes of are drafts of the execution, or new  *)
(* attempts of procedures that have none.                                  *)
LEMMA UnfinishedLemma ==
  ASSUME TypeOK, NEW e \in Executions, NEW a \in Unfinished(e)
  PROVE  /\ a \in AttemptIds
         /\ \/ /\ attempt[a] \in AttemptRow /\ Draft(a) /\ attempt[a].execution = e
               /\ \A u \in Actors : SkippedRow(e, a, u) = SkipRow(attempt[a])
            \/ \E p \in Procs : a = GeneratedId(e, p) /\ AttemptsOf(e, p) = {}
  <1>1. CASE \E p \in Procs : a \in DraftsOf(e, p)
    <2>1. a \in AttemptIds /\ Draft(a) /\ attempt[a].execution = e
      BY <1>1, Zenon DEF DraftsOf, AttemptsOf, Draft
    <2>2. attempt[a] \in AttemptRow
      BY <2>1, Zenon DEF TypeOK, Draft
    <2>3. QED
      BY <2>1, <2>2, Zenon DEF Draft, SkippedRow
  <1>2. CASE \E p \in Procs : a = GeneratedId(e, p) /\ AttemptsOf(e, p) = {}
    BY <1>2 DEF GeneratedId, GeneratedIds, AttemptIds
  <1>3. QED
    BY <1>1, <1>2, Zenon DEF Unfinished

(* Of those, the ones that exist are drafts of the execution: closure's    *)
(* own id for an untouched procedure is new.                               *)
LEMMA UnfinishedDraftLemma ==
  ASSUME TypeOK, GeneratedIdIsOwn, NEW e \in Executions, NEW a \in Unfinished(e),
         attempt[a] # NULL, NEW u \in Actors
  PROVE  /\ attempt[a] \in AttemptRow /\ Draft(a) /\ attempt[a].execution = e
         /\ SkippedRow(e, a, u) = SkipRow(attempt[a])
  <1>1. ASSUME NEW p \in Procs, a = GeneratedId(e, p) PROVE AttemptsOf(e, p) # {}
    <2>1. a \in AttemptIds
      BY UnfinishedLemma, Zenon
    <2>2. QED
      BY <1>1, <2>1, Zenon DEF GeneratedIdIsOwn, AttemptsOf
  <1>2. QED
    BY <1>1, UnfinishedLemma, Zenon

(* The row a closure finalizes for each of them. *)
LEMMA SkippedRowLemma ==
  ASSUME TypeOK, NEW e \in Executions, NEW a \in Unfinished(e), NEW u \in Actors
  PROVE  /\ SkippedRow(e, a, u) \in AttemptRow
         /\ SkippedRow(e, a, u).data.result = "SKIPPED"
         /\ attempt[a] = NULL =>
              /\ SkippedRow(e, a, u).execution = e
              /\ a = GeneratedId(e, SkippedRow(e, a, u).ref)
              /\ SkippedRow(e, a, u).data.media = DefaultMedia
  <1>1. CASE attempt[a] # NULL
    <2>1. attempt[a] \in AttemptRow /\ SkippedRow(e, a, u) = SkipRow(attempt[a])
      BY <1>1, UnfinishedLemma, Zenon DEF TypeOK, SkippedRow
    <2>2. attempt[a].data \in DraftData
      BY <2>1, Zenon DEF AttemptRow
    <2>3. SkipUnfinished(attempt[a].data).result = "SKIPPED"
      BY <2>2, ZenonT(60) DEF SkipUnfinished, DraftData
    <2>4. QED
      BY <1>1, <2>1, <2>3, SkipRowLemma, Zenon
  <1>2. CASE attempt[a] = NULL
    <2>1. PICK p \in Procs : a = GeneratedId(e, p)
      BY <1>2, UnfinishedLemma, NullAssumption, Zenon
    <2>2. a[2] = p /\ SkippedRow(e, a, u) = SkipRow(GeneratedRow(e, p, u))
      BY <1>2, <2>1, Zenon DEF GeneratedId, SkippedRow
    <2>3. InitialDraft("given", DefaultInputs, DefaultMedia) \in DraftData
      BY DraftDataLemma, ZenonT(60) DEF Text
    <2>4. /\ GeneratedRow(e, p, u) \in AttemptRow
          /\ GeneratedRow(e, p, u).execution = e
          /\ GeneratedRow(e, p, u).ref = p
          /\ GeneratedRow(e, p, u).data = InitialDraft("given", DefaultInputs, DefaultMedia)
      BY <2>3, NewAttemptLemma DEF GeneratedRow
    <2>5. InitialDraft("given", DefaultInputs, DefaultMedia).media = DefaultMedia
      BY DraftDataLemma, ZenonT(60) DEF Text
    <2>6. SkipUnfinished(InitialDraft("given", DefaultInputs, DefaultMedia)).result = "SKIPPED"
      BY <2>3, ZenonT(60) DEF SkipUnfinished, DraftData
    <2>7. QED
      BY <1>2, <2>1, <2>2, <2>3, <2>4, <2>5, <2>6, SkipRowLemma, DraftDataLemma
  <1>3. QED
    BY <1>1, <1>2, Zenon

(* The software context a personal attempt starts from. *)
LEMMA PriorContextsLemma ==
  ASSUME TypeOK, NEW u \in Actors
  PROVE  PriorContexts(u) \subseteq Text
  <1>1. ASSUME NEW c \in AttemptIds, attempt[c] # NULL PROVE attempt[c].data.ctx \in Text
    BY <1>1, ZenonT(60) DEF TypeOK, AttemptRow, DraftData
  <1>2. QED
    BY <1>1, ZenonT(60) DEF PriorContexts, Text

(***************************************************************************)
(* Type correctness.  That expiry finds an attempt to clear is part of     *)
(* EvidenceMatchesAttempt, so the two are carried together.                *)
(***************************************************************************)
(* Every step keeps every column's type. *)
LEMMA TypeStep ==
  TypeOK /\ ExecutionExists /\ EvidenceMatchesAttempt /\ [Next]_vars => TypeOK'
  <1> SUFFICES ASSUME TypeOK, ExecutionExists, EvidenceMatchesAttempt, [Next]_vars
               PROVE  TypeOK'
    BY Zenon
  <1> USE DEF TypeOK
  <1>1. ASSUME NEW e \in Executions, CreateExecution(e) PROVE TypeOK'
    <2>1. [revision |-> 1, closed |-> FALSE] \in ExecutionRow
      BY Zenon DEF ExecutionRow
    <2>2. QED
      BY <1>1, <2>1, Zenon DEF CreateExecution
  <1>2. ASSUME NEW e \in Executions, GetExecution(e) PROVE TypeOK'
    <2>1. Progress(e) \in ExecutionView
      <3>1. execution[e] \in ExecutionRow
        BY <1>2, Zenon DEF GetExecution
      <3>2. ASSUME NEW a \in AttemptIds, Draft(a)
            PROVE  [id |-> a, revision |-> attempt[a].revision, data |-> attempt[a].data] \in DraftView
        BY <3>2, Zenon DEF Draft, AttemptRow, DraftView
      <3>3. QED
        BY <3>1, <3>2 DEF Progress, ExecutionView, ExecutionRow
    <2>2. QED
      BY <1>2, <2>1, Zenon DEF GetExecution
  <1>3. ASSUME NEW e \in Executions, touchExecution(e), execution[e] # NULL
        PROVE  execution' \in [Executions -> ExecutionRow \cup {NULL}]
    <2>1. execution[e] \in ExecutionRow /\ [execution[e] EXCEPT !.revision = @ + 1] \in ExecutionRow
      BY <1>3 DEF ExecutionRow
    <2>2. QED
      BY <1>3, <2>1, NullAssumption, Zenon DEF touchExecution
  <1>4. ASSUME NEW e \in Executions, NEW a \in ClientIds, NEW p \in Procs, NEW u \in Actors,
               StartExecutionAttempt(e, a, p, u)
        PROVE  TypeOK'
    <2>1. NewAttempt(e, p, u, InitialDraft("given", DefaultInputs, DefaultMedia)) \in AttemptRow
      BY DraftDataLemma, NewAttemptLemma, ZenonT(60) DEF Text
    <2>2. QED
      BY <1>3, <1>4, <2>1, ZenonT(60) DEF StartExecutionAttempt
  <1>5. ASSUME NEW a \in ClientIds, NEW p \in Procs, NEW u \in Actors, NEW ctx \in PriorContexts(u),
               CreateAttempt(a, p, u, ctx)
        PROVE  TypeOK'
    <2>1. ctx \in Text
      BY PriorContextsLemma, Zenon
    <2>2. NewAttempt(NULL, p, u, InitialDraft(ctx, DefaultInputs, DefaultMedia)) \in AttemptRow
      BY <2>1, DraftDataLemma, NewAttemptLemma, ZenonT(60)
    <2>3. QED
      BY <1>5, <2>2, ZenonT(60) DEF CreateAttempt
  <1>6. ASSUME NEW a \in AttemptIds, attempt[a] # NULL, touchExecution(attempt[a].execution)
        PROVE  execution' \in [Executions -> ExecutionRow \cup {NULL}]
    <2>1. attempt[a].execution \in Executions \cup {NULL}
      BY <1>6, Zenon DEF AttemptRow
    <2>2. QED
      BY <1>3, <1>6, <2>1, ZenonT(60) DEF touchExecution, ExecutionExists
  <1>7. ASSUME NEW a \in AttemptIds, NEW u \in Actors, NEW rev \in 1..MaxRevision, NEW op \in Ops,
               NEW d \in Edits, SaveAttempt(a, u, rev, op, d)
        PROVE  TypeOK'
    <2>1. d \in DraftData /\ d.media \subseteq Blobs
      BY PackageAssumption, ZenonT(60) DEF DraftData
    <2>2. rev \in Nat /\ rev + 1 \in Nat
      BY BoundAssumption
    <2>3. attempt[a] \in AttemptRow
      BY <1>7, Zenon DEF SaveAttempt
    <2>4. [attempt[a] EXCEPT !.data = d, !.revision = rev + 1, !.lastOp = op, !.lastBase = rev]
            \in AttemptRow
      BY <2>1, <2>2, <2>3, ZenonT(60) DEF AttemptRow
    <2>5. QED
      BY <1>6, <1>7, <2>1, <2>4, Zenon DEF SaveAttempt
  <1>8. ASSUME NEW a \in AttemptIds, NEW u \in Actors, NEW rev \in 1..MaxRevision,
               NEW t \in FinishTimes, FinalizeAttempt(a, u, rev, t)
        PROVE  TypeOK'
    <2>1. attempt[a] \in AttemptRow
      BY <1>8, Zenon DEF FinalizeAttempt
    <2>2. FinalRow(attempt[a], a, t) \in AttemptRow /\ EvidenceOf(attempt[a], a, NULL) \in EvidenceRow
      BY <2>1, FinalRowLemma, EvidenceOfLemma, ZenonT(60)
    <2>3. execution' \in [Executions -> ExecutionRow \cup {NULL}]
      BY <1>6, <1>8, Zenon DEF FinalizeAttempt
    <2>4. QED
      BY <1>8, <2>2, <2>3 DEF FinalizeAttempt
  <1>9. ASSUME NEW e \in Executions, NEW closed \in BOOLEAN, execution[e] # NULL, SetLifecycle(e, closed)
        PROVE  /\ execution' \in [Executions -> ExecutionRow \cup {NULL}]
               /\ event' \subseteq EventRow
    <2>1. execution[e] \in ExecutionRow /\ execution[e].revision + 1 \in Nat
      BY <1>9 DEF ExecutionRow
    <2>2. [revision |-> execution[e].revision + 1, closed |-> closed] \in ExecutionRow
      BY <2>1, Zenon DEF ExecutionRow
    <2>3. [execution |-> e, revision |-> execution[e].revision + 1,
           action |-> IF closed THEN "closed" ELSE "reopened"] \in EventRow
      BY <2>1, Zenon DEF EventRow
    <2>4. QED
      BY <1>9, <2>2, <2>3, Zenon DEF SetLifecycle
  <1>10. ASSUME NEW e \in Executions, NEW rev \in 1..MaxRevision, NEW u \in Actors,
                NEW t \in FinishTimes, CloseExecution(e, rev, u, t)
         PROVE  TypeOK'
    <2>1. ASSUME NEW a \in Unfinished(e)
          PROVE  /\ FinalRow(SkippedRow(e, a, u), a, t) \in AttemptRow
                 /\ EvidenceOf(SkippedRow(e, a, u), a, rev + 1) \in EvidenceRow
      <3>1. a \in AttemptIds /\ rev + 1 \in Nat
        BY UnfinishedLemma, BoundAssumption
      <3>2. QED
        BY <3>1, SkippedRowLemma, FinalRowLemma, EvidenceOfLemma, Zenon
    <2>2. attempt' \in [AttemptIds -> AttemptRow \cup {NULL}]
      BY <1>10, <2>1, Zenon DEF CloseExecution
    <2>3. evidence' \subseteq EvidenceRow
      BY <1>10, <2>1, Zenon DEF CloseExecution
    <2>4. draftRef' \in [AttemptIds -> SUBSET Blobs] /\ filed' \in [AttemptIds -> Nat]
      BY <1>10 DEF CloseExecution
    <2>5. execution' \in [Executions -> ExecutionRow \cup {NULL}] /\ event' \subseteq EventRow
      BY <1>9, <1>10, ZenonT(60) DEF CloseExecution
    <2>6. QED
      BY <1>10, <2>2, <2>3, <2>4, <2>5, Zenon DEF CloseExecution
  <1>11. ASSUME NEW e \in Executions, NEW rev \in 1..MaxRevision, ReopenExecution(e, rev)
         PROVE  TypeOK'
    BY <1>9, <1>11, ZenonT(60) DEF ReopenExecution
  <1>12. ASSUME NEW batch \in SUBSET evidence, DeleteBatch(batch) PROVE TypeOK'
    <2>1. ASSUME NEW ev \in batch PROVE attempt[ev.attempt] \in AttemptRow
      BY Zenon DEF EvidenceMatchesAttempt, EvidenceRow
    <2>2. ASSUME NEW a \in AttemptIds, NEW ev \in batch, ev.attempt = a
          PROVE  ExpiredRow(attempt[a]) \in AttemptRow
      BY <2>1, <2>2, ExpiredRowLemma, Zenon
    <2>3. attempt' \in [AttemptIds -> AttemptRow \cup {NULL}]
      BY <1>12, <2>2, Zenon DEF DeleteBatch
    <2>4. QED
      BY <1>12, <2>3, Zenon DEF DeleteBatch
  <1>13. ASSUME NEW b \in Blobs, PutBlob(b) \/ SweepBlob(b) PROVE TypeOK'
    BY <1>13, Zenon DEF PutBlob, SweepBlob
  <1>14. CASE UNCHANGED vars
    BY <1>14, Zenon DEF vars
  <1>15. QED
    BY <1>1, <1>2, <1>4, <1>5, <1>7, <1>8, <1>10, <1>11, <1>12, <1>13, <1>14, Zenon DEF Next

(***************************************************************************)
(* What a step may do to one attempt.                                      *)
(***************************************************************************)
(* It is created as a draft in an open execution without another draft of  *)
(* its procedure, or as a personal attempt.                                *)
Created(a) ==
  /\ a \in ClientIds
  /\ attempt[a] = NULL
  /\ attempt'[a] \in AttemptRow
  /\ attempt'[a].finalizedRevision = NULL
  /\ attempt'[a].data.media \subseteq PackageAssets
  /\ attempt'[a].execution # NULL =>
       /\ execution[attempt'[a].execution] # NULL
       /\ ~execution[attempt'[a].execution].closed
       /\ DraftsOf(attempt'[a].execution, attempt'[a].ref) = {}
  /\ evidence' = evidence /\ filed' = filed /\ draftRef' = draftRef
  /\ \A b \in AttemptIds \ {a} : attempt'[b] = attempt[b]

(* A draft in an open execution, or a personal one, takes new data. *)
Saved(a) ==
  /\ Draft(a) /\ ExecutionOpen(a)
  /\ attempt'[a] \in AttemptRow
  /\ attempt'[a].finalizedRevision = NULL
  /\ attempt'[a].execution = attempt[a].execution
  /\ attempt'[a].ref = attempt[a].ref
  /\ attempt'[a].revision = attempt[a].revision + 1
  /\ attempt'[a].data.media \subseteq stored
  /\ draftRef' = [draftRef EXCEPT ![a] = attempt'[a].data.media]
  /\ evidence' = evidence /\ filed' = filed
  /\ \A b \in AttemptIds \ {a} : attempt'[b] = attempt[b]

(* Every attempt of S is finalized, with evidence of the same data. *)
FinalizedSet(S) ==
  /\ S \subseteq AttemptIds
  /\ \A a \in S :
       /\ attempt[a] # NULL => /\ Draft(a)
                               /\ attempt'[a].execution = attempt[a].execution
                               /\ attempt'[a].ref = attempt[a].ref
                               /\ attempt'[a].revision = attempt[a].revision + 1
                               /\ WorkKept(attempt[a].data, attempt'[a].data)
       /\ attempt[a] = NULL => /\ attempt'[a].data.media \subseteq PackageAssets
                               /\ a = GeneratedId(attempt'[a].execution, attempt'[a].ref)
       /\ attempt'[a] \in AttemptRow
       /\ attempt'[a].execution # NULL => execution[attempt'[a].execution] # NULL
       /\ attempt'[a].finalizedRevision # NULL
       /\ attempt'[a].evidence = EvidenceId(a)
       /\ \E ev \in evidence' :
            /\ ev.attempt = a /\ ev.id = EvidenceId(a) /\ ev.data = attempt'[a].data
            /\ ev.refs = attempt'[a].data.media \cup PackageAssets
  /\ \A ev \in evidence' : ev \in evidence \/
       /\ ev.attempt \in S /\ ev.id = EvidenceId(ev.attempt)
       /\ ev.data = attempt'[ev.attempt].data
       /\ ev.refs = attempt'[ev.attempt].data.media \cup PackageAssets
  /\ \A v, w \in evidence' \ evidence : v.attempt = w.attempt => v = w
  /\ evidence \subseteq evidence'
  /\ \A a \in AttemptIds : filed'[a] = IF a \in S THEN filed[a] + 1 ELSE filed[a]
  /\ \A a \in AttemptIds : draftRef'[a] = IF a \in S THEN {} ELSE draftRef[a]
  /\ \A a \in AttemptIds \ S : attempt'[a] = attempt[a]

(* The attempts of a batch of evidence are cleared. *)
Expired(batch) ==
  /\ evidence' = evidence \ batch
  /\ \A a \in AttemptIds : attempt'[a] = IF \E ev \in batch : ev.attempt = a
                                         THEN ExpiredRow(attempt[a]) ELSE attempt[a]
  /\ filed' = filed /\ draftRef' = draftRef

AttemptStep ==
  \/ UNCHANGED <<attempt, evidence, filed, draftRef>>
  \/ \E a \in AttemptIds : Created(a) \/ Saved(a)
  \/ \E S \in SUBSET AttemptIds : FinalizedSet(S)
  \/ \E batch \in SUBSET evidence : Expired(batch)

(* Every step of Campaign is one of these to the attempts and evidence. *)
LEMMA AttemptStepLemma ==
  TypeOK /\ ExecutionExists /\ GeneratedIdIsOwn /\ EvidenceMatchesAttempt /\ [Next]_vars
    => AttemptStep
  <1> SUFFICES ASSUME TypeOK, ExecutionExists, GeneratedIdIsOwn, EvidenceMatchesAttempt, [Next]_vars
               PROVE  AttemptStep
    BY Zenon
  <1>0. TypeOK'
    BY TypeStep, Zenon
  <1>1. ASSUME NEW e \in Executions, NEW a \in ClientIds, NEW p \in Procs, NEW u \in Actors,
               StartExecutionAttempt(e, a, p, u)
        PROVE  AttemptStep
    <2>1. a \in AttemptIds
      BY Zenon DEF AttemptIds
    <2>2. /\ InitialDraft("given", DefaultInputs, DefaultMedia) \in DraftData
          /\ InitialDraft("given", DefaultInputs, DefaultMedia).media \subseteq PackageAssets
      BY DraftDataLemma, PackageAssumption, ZenonT(60) DEF Text
    <2>3. attempt'[a] = NewAttempt(e, p, u, InitialDraft("given", DefaultInputs, DefaultMedia))
      BY <1>1, <2>1, Zenon DEF StartExecutionAttempt, TypeOK
    <2>4. attempt'[a].data.media \subseteq PackageAssets
      BY <2>2, <2>3, NewAttemptLemma
    <2>5. Created(a)
      BY <1>1, <2>1, <2>2, <2>3, <2>4, NewAttemptLemma DEF StartExecutionAttempt, Created, TypeOK
    <2>6. QED
      BY <2>1, <2>5, Zenon DEF AttemptStep
  <1>2. ASSUME NEW a \in ClientIds, NEW p \in Procs, NEW u \in Actors, NEW ctx \in PriorContexts(u),
               CreateAttempt(a, p, u, ctx)
        PROVE  AttemptStep
    <2>1. a \in AttemptIds
      BY Zenon DEF AttemptIds
    <2>2. /\ InitialDraft(ctx, DefaultInputs, DefaultMedia) \in DraftData
          /\ InitialDraft(ctx, DefaultInputs, DefaultMedia).media \subseteq PackageAssets
      BY DraftDataLemma, PriorContextsLemma, PackageAssumption, Zenon
    <2>3. attempt'[a] = NewAttempt(NULL, p, u, InitialDraft(ctx, DefaultInputs, DefaultMedia))
      BY <1>2, <2>1, Zenon DEF CreateAttempt, TypeOK
    <2>4. /\ attempt'[a] \in AttemptRow
          /\ attempt'[a].execution = NULL
          /\ attempt'[a].finalizedRevision = NULL
          /\ attempt'[a].data.media \subseteq PackageAssets
      BY <2>2, <2>3, NewAttemptLemma
    <2>5. Created(a)
      BY <1>2, <2>1, <2>4, Zenon DEF CreateAttempt, Created, TypeOK
    <2>6. QED
      BY <2>1, <2>5, Zenon DEF AttemptStep
  <1>3. ASSUME NEW a \in AttemptIds, NEW u \in Actors, NEW rev \in 1..MaxRevision, NEW op \in Ops,
               NEW d \in Edits, SaveAttempt(a, u, rev, op, d)
        PROVE  AttemptStep
    <2>1. attempt[a] \in AttemptRow
      BY <1>3, Zenon DEF SaveAttempt, TypeOK
    <2>2. attempt'[a] = [attempt[a] EXCEPT !.data = d, !.revision = rev + 1,
                                           !.lastOp = op, !.lastBase = rev]
      BY <1>3, Zenon DEF SaveAttempt, TypeOK
    <2>3. /\ attempt'[a].data = d
          /\ attempt'[a].revision = rev + 1
          /\ attempt'[a].execution = attempt[a].execution
          /\ attempt'[a].ref = attempt[a].ref
          /\ attempt'[a].finalizedRevision = attempt[a].finalizedRevision
      BY <2>1, <2>2, Zenon DEF AttemptRow
    <2>4. attempt'[a] # NULL
      <3>1. d \in DraftData /\ rev \in Nat /\ rev + 1 \in Nat
        BY PackageAssumption, BoundAssumption
      <3>2. attempt'[a] \in AttemptRow
        BY <2>1, <2>2, <3>1, ZenonT(60) DEF AttemptRow
      <3>3. QED
        BY <3>2, NullAssumption, Zenon
    <2>5. Saved(a)
      BY <1>0, <1>3, <2>3, <2>4, Zenon DEF SaveAttempt, Saved, Draft, Finalized, TypeOK
    <2>6. QED
      BY <2>5, Zenon DEF AttemptStep
  <1>4. ASSUME NEW a \in AttemptIds, NEW u \in Actors, NEW rev \in 1..MaxRevision,
               NEW t \in FinishTimes, FinalizeAttempt(a, u, rev, t)
        PROVE  AttemptStep
    <2>1. attempt[a] \in AttemptRow
      BY <1>4, Zenon DEF FinalizeAttempt, TypeOK
    <2>2. attempt'[a] = FinalRow(attempt[a], a, t)
      BY <1>4, Zenon DEF FinalizeAttempt, TypeOK
    <2>3. evidence' = evidence \cup {EvidenceOf(attempt[a], a, NULL)}
      BY <1>4, Zenon DEF FinalizeAttempt
    <2>4. /\ attempt'[a] \in AttemptRow
          /\ attempt'[a].execution = attempt[a].execution
          /\ attempt'[a].ref = attempt[a].ref
          /\ attempt'[a].data = attempt[a].data
          /\ attempt'[a].revision = attempt[a].revision + 1
          /\ attempt'[a].finalizedRevision # NULL
          /\ attempt'[a].evidence = EvidenceId(a)
      BY <2>1, <2>2, FinalRowLemma DEF TypeOK
    <2>5. /\ EvidenceOf(attempt[a], a, NULL).id = EvidenceId(a)
          /\ EvidenceOf(attempt[a], a, NULL).attempt = a
          /\ EvidenceOf(attempt[a], a, NULL).data = attempt'[a].data
          /\ EvidenceOf(attempt[a], a, NULL).refs = attempt'[a].data.media \cup PackageAssets
      <3>1. PICK row, c : row = attempt[a] /\ c = NULL
        BY Zenon
      <3>2. row \in AttemptRow /\ c \in Nat \cup {NULL} /\ filed \in [AttemptIds -> Nat]
        BY <2>1, <3>1, Zenon DEF TypeOK
      <3>3. /\ EvidenceOf(row, a, c).id = EvidenceId(a)
            /\ EvidenceOf(row, a, c).attempt = a
            /\ EvidenceOf(row, a, c).data = row.data
            /\ EvidenceOf(row, a, c).refs = row.data.media \cup PackageAssets
        BY <3>2, EvidenceOfLemma
      <3>4. QED
        BY <2>4, <3>1, <3>3, Zenon
    <2>6. /\ Draft(a) /\ attempt[a] # NULL
          /\ attempt[a].execution # NULL => execution[attempt[a].execution] # NULL
      BY <1>4, Zenon DEF FinalizeAttempt, Draft, ExecutionExists
    <2>7. /\ \A b \in AttemptIds : filed'[b] = IF b \in {a} THEN filed[b] + 1 ELSE filed[b]
          /\ \A b \in AttemptIds : draftRef'[b] = IF b \in {a} THEN {} ELSE draftRef[b]
          /\ \A b \in AttemptIds \ {a} : attempt'[b] = attempt[b]
      BY <1>4, Zenon DEF FinalizeAttempt, TypeOK
    <2>7a. WorkKept(attempt[a].data, attempt'[a].data)
      BY <2>4, ZenonT(60) DEF WorkKept
    <2>8. FinalizedSet({a})
      BY <2>3, <2>4, <2>5, <2>6, <2>7, <2>7a, ZenonT(60) DEF FinalizedSet
    <2>9. QED
      BY <2>8, Zenon DEF AttemptStep
  <1>5. ASSUME NEW e \in Executions, NEW rev \in 1..MaxRevision, NEW u \in Actors,
               NEW t \in FinishTimes, CloseExecution(e, rev, u, t)
        PROVE  AttemptStep
    <2>1. Unfinished(e) \subseteq AttemptIds /\ rev + 1 \in Nat /\ filed \in [AttemptIds -> Nat]
      BY BoundAssumption DEF Unfinished, TypeOK
    <2>2. ASSUME NEW a \in Unfinished(e)
          PROVE  /\ SkippedRow(e, a, u) \in AttemptRow
                 /\ attempt'[a] = FinalRow(SkippedRow(e, a, u), a, t)
                 /\ EvidenceOf(SkippedRow(e, a, u), a, rev + 1) \in evidence'
      BY <1>5, <2>1, SkippedRowLemma, Zenon DEF CloseExecution
    <2>3. ASSUME NEW a \in Unfinished(e)
          PROVE  /\ attempt'[a] \in AttemptRow
                 /\ attempt'[a].execution = SkippedRow(e, a, u).execution
                 /\ attempt'[a].ref = SkippedRow(e, a, u).ref
                 /\ attempt'[a].data = SkippedRow(e, a, u).data
                 /\ attempt'[a].revision = SkippedRow(e, a, u).revision + 1
                 /\ attempt'[a].finalizedRevision # NULL
                 /\ attempt'[a].evidence = EvidenceId(a)
      BY <2>1, <2>2, FinalRowLemma
    <2>4. ASSUME NEW a \in Unfinished(e)
          PROVE  /\ EvidenceOf(SkippedRow(e, a, u), a, rev + 1).id = EvidenceId(a)
                 /\ EvidenceOf(SkippedRow(e, a, u), a, rev + 1).attempt = a
                 /\ EvidenceOf(SkippedRow(e, a, u), a, rev + 1).data = attempt'[a].data
                 /\ EvidenceOf(SkippedRow(e, a, u), a, rev + 1).refs
                      = attempt'[a].data.media \cup PackageAssets
      BY <2>1, <2>2, <2>3, EvidenceOfLemma
    <2>5. ASSUME NEW a \in Unfinished(e), attempt[a] # NULL
          PROVE  /\ Draft(a)
                 /\ attempt[a].execution = e
                 /\ attempt'[a].execution = attempt[a].execution
                 /\ attempt'[a].ref = attempt[a].ref
                 /\ attempt'[a].revision = attempt[a].revision + 1
                 /\ WorkKept(attempt[a].data, attempt'[a].data)
      <3>1. attempt[a] \in AttemptRow /\ Draft(a) /\ attempt[a].execution = e
            /\ SkippedRow(e, a, u) = SkipRow(attempt[a])
        BY <2>5, UnfinishedDraftLemma, Zenon
      <3>2. attempt[a].data \in DraftData
        BY <3>1, Zenon DEF AttemptRow
      <3>3. QED
        BY <2>3, <3>1, <3>2, SkipRowLemma, SkipKeepsWork
    <2>6. ASSUME NEW a \in Unfinished(e), attempt[a] = NULL
          PROVE  /\ attempt'[a].execution = e
                 /\ a = GeneratedId(attempt'[a].execution, attempt'[a].ref)
                 /\ attempt'[a].data.media \subseteq PackageAssets
      BY <2>3, <2>6, SkippedRowLemma, PackageAssumption
    <2>7. ASSUME NEW a \in Unfinished(e)
          PROVE  attempt'[a].execution # NULL => execution[attempt'[a].execution] # NULL
      BY <1>5, <2>5, <2>6, Zenon DEF CloseExecution
    <2>8. ASSUME NEW ev \in evidence', ev \notin evidence
          PROVE  /\ ev.attempt \in Unfinished(e) /\ ev.id = EvidenceId(ev.attempt)
                 /\ ev.data = attempt'[ev.attempt].data
                 /\ ev.refs = attempt'[ev.attempt].data.media \cup PackageAssets
      <3>1. PICK a \in Unfinished(e) : ev = EvidenceOf(SkippedRow(e, a, u), a, rev + 1)
        BY <1>5, <2>8, Zenon DEF CloseExecution
      <3>2. QED
        BY <3>1, <2>4, ZenonT(60)
    <2>8a. \A v, w \in evidence' \ evidence : v.attempt = w.attempt => v = w
      <3>1. ASSUME NEW v \in evidence', NEW w \in evidence', v \notin evidence, w \notin evidence,
                   v.attempt = w.attempt
            PROVE  v = w
        <4>1. PICK a \in Unfinished(e) : v = EvidenceOf(SkippedRow(e, a, u), a, rev + 1)
          BY <1>5, <3>1, Zenon DEF CloseExecution
        <4>2. PICK b \in Unfinished(e) : w = EvidenceOf(SkippedRow(e, b, u), b, rev + 1)
          BY <1>5, <3>1, Zenon DEF CloseExecution
        <4>3. QED
          BY <3>1, <4>1, <4>2, <2>4, Zenon
      <3>2. QED
        BY <3>1, Zenon
    <2>9. /\ evidence \subseteq evidence'
          /\ \A a \in AttemptIds : filed'[a] = IF a \in Unfinished(e) THEN filed[a] + 1 ELSE filed[a]
          /\ \A a \in AttemptIds : draftRef'[a] = IF a \in Unfinished(e) THEN {} ELSE draftRef[a]
          /\ \A a \in AttemptIds \ Unfinished(e) : attempt'[a] = attempt[a]
      BY <1>5, Zenon DEF CloseExecution
    <2>9a. ASSUME NEW a \in Unfinished(e)
           PROVE  \E ev \in evidence' :
                    /\ ev.attempt = a /\ ev.id = EvidenceId(a) /\ ev.data = attempt'[a].data
                    /\ ev.refs = attempt'[a].data.media \cup PackageAssets
      BY <2>2, <2>4, Zenon
    <2>10. FinalizedSet(Unfinished(e))
      BY <2>1, <2>3, <2>5, <2>6, <2>7, <2>8, <2>8a, <2>9, <2>9a, ZenonT(60) DEF FinalizedSet
    <2>11. QED
      BY <2>1, <2>10, Zenon DEF AttemptStep
  <1>6. ASSUME NEW batch \in SUBSET evidence, DeleteBatch(batch) PROVE AttemptStep
    <2>1. Expired(batch)
      BY <1>6, Zenon DEF DeleteBatch, Expired
    <2>2. QED
      BY <2>1, Zenon DEF AttemptStep
  <1>7. ASSUME \/ UNCHANGED vars
               \/ \E e \in Executions : CreateExecution(e) \/ GetExecution(e)
               \/ \E e \in Executions, rev \in 1..MaxRevision : ReopenExecution(e, rev)
               \/ \E b \in Blobs : PutBlob(b) \/ SweepBlob(b)
        PROVE  AttemptStep
    BY <1>7, ZenonT(60)
       DEF AttemptStep, vars, CreateExecution, GetExecution, ReopenExecution, PutBlob, SweepBlob
  <1>8. QED
    BY <1>1, <1>2, <1>3, <1>4, <1>5, <1>6, <1>7, Zenon DEF Next

(***************************************************************************)
(* What no step takes back, and the references of a state.                 *)
(***************************************************************************)
(* Attempts stay, with their execution, procedure and finalization. *)
LEMMA AttemptsStay ==
  ASSUME TypeOK, EvidenceMatchesAttempt, AttemptStep, NEW a \in AttemptIds, attempt[a] # NULL
  PROVE  /\ attempt'[a] # NULL
         /\ attempt'[a].execution = attempt[a].execution
         /\ attempt'[a].ref = attempt[a].ref
         /\ Finalized(a) => attempt'[a].finalizedRevision = attempt[a].finalizedRevision
  <1>1. attempt[a] \in AttemptRow
    BY Zenon DEF TypeOK
  <1>2. CASE UNCHANGED <<attempt, evidence, filed, draftRef>>
    BY <1>2, Zenon
  <1>3. CASE \E b \in AttemptIds : Created(b) \/ Saved(b)
    BY <1>3, NullAssumption, Zenon DEF Created, Saved, Draft
  <1>4. CASE \E S \in SUBSET AttemptIds : FinalizedSet(S)
    BY <1>4, NullAssumption DEF FinalizedSet, Draft
  <1>5. CASE \E batch \in SUBSET evidence : Expired(batch)
    <2>1. attempt'[a] \in {attempt[a], ExpiredRow(attempt[a])}
      BY <1>5, Zenon DEF Expired
    <2>2. ExpiredRow(attempt[a]) # NULL
      BY <1>1, ExpiredRowLemma, NullAssumption, Zenon
    <2>3. QED
      BY <1>1, <2>1, <2>2, ExpiredRowLemma, ZenonT(60)
  <1>6. QED
    BY <1>2, <1>3, <1>4, <1>5, Zenon DEF AttemptStep

(* An execution stays, and it becomes closed only by CloseExecution. *)
LEMMA ExecutionStepLemma ==
  ASSUME TypeOK, ExecutionExists, [Next]_vars, NEW e \in Executions
  PROVE  /\ execution[e] # NULL => execution'[e] # NULL
         /\ execution'[e] # NULL /\ execution'[e].closed =>
              \/ execution[e] # NULL /\ execution[e].closed
              \/ \E rev \in 1..MaxRevision, u \in Actors, t \in FinishTimes :
                   CloseExecution(e, rev, u, t)
  <1> DEFINE Stays == /\ execution[e] # NULL => execution'[e] # NULL
                      /\ execution'[e] # NULL /\ execution'[e].closed =>
                           execution[e] # NULL /\ execution[e].closed
  <1>1. ASSUME NEW f \in Executions, CreateExecution(f) PROVE Stays
    BY <1>1, NullAssumption, Zenon DEF CreateExecution, TypeOK
  <1>2. ASSUME NEW f \in Executions \cup {NULL}, touchExecution(f), f # NULL => execution[f] # NULL
        PROVE  Stays
    <2>1. execution[e] # NULL => /\ execution[e] \in ExecutionRow
                                 /\ [execution[e] EXCEPT !.revision = @ + 1] \in ExecutionRow
                                 /\ [execution[e] EXCEPT !.revision = @ + 1].closed = execution[e].closed
      BY DEF TypeOK, ExecutionRow
    <2>2. execution'[e] = IF f = e THEN [execution[e] EXCEPT !.revision = @ + 1] ELSE execution[e]
      BY <1>2, NullAssumption, ZenonT(60) DEF touchExecution, TypeOK
    <2>3. QED
      BY <1>2, <2>1, <2>2, NullAssumption, Zenon
  <1>3. ASSUME NEW a \in AttemptIds, attempt[a] # NULL, touchExecution(attempt[a].execution)
        PROVE  Stays
    <2>1. /\ attempt[a].execution \in Executions \cup {NULL}
          /\ attempt[a].execution # NULL => execution[attempt[a].execution] # NULL
      BY <1>3, Zenon DEF TypeOK, AttemptRow, ExecutionExists
    <2>2. QED
      BY <1>2, <1>3, <2>1, Zenon
  <1>4. ASSUME NEW f \in Executions, NEW a \in ClientIds, NEW p \in Procs, NEW u \in Actors,
               StartExecutionAttempt(f, a, p, u)
        PROVE  Stays
    BY <1>2, <1>4, Zenon DEF StartExecutionAttempt
  <1>5. ASSUME NEW a \in AttemptIds, NEW u \in Actors, NEW rev \in 1..MaxRevision, NEW op \in Ops,
               NEW d \in Edits, SaveAttempt(a, u, rev, op, d)
        PROVE  Stays
    BY <1>3, <1>5, Zenon DEF SaveAttempt
  <1>6. ASSUME NEW a \in AttemptIds, NEW u \in Actors, NEW rev \in 1..MaxRevision,
               NEW t \in FinishTimes, FinalizeAttempt(a, u, rev, t)
        PROVE  Stays
    BY <1>3, <1>6, Zenon DEF FinalizeAttempt
  <1>7. ASSUME NEW f \in Executions, NEW closed \in BOOLEAN, execution[f] # NULL,
               SetLifecycle(f, closed)
        PROVE  /\ execution[e] # NULL => execution'[e] # NULL
               /\ e # f \/ ~closed => Stays
    <2>1. [revision |-> execution[f].revision + 1, closed |-> closed] \in ExecutionRow
      BY <1>7 DEF TypeOK, ExecutionRow
    <2>2. execution'[e] = IF f = e THEN [revision |-> execution[f].revision + 1, closed |-> closed]
                                   ELSE execution[e]
      BY <1>7, Zenon DEF SetLifecycle, TypeOK
    <2>3. QED
      BY <2>1, <2>2, NullAssumption
  <1>8. ASSUME NEW f \in Executions, NEW rev \in 1..MaxRevision, NEW u \in Actors,
               NEW t \in FinishTimes, CloseExecution(f, rev, u, t)
        PROVE  /\ execution[e] # NULL => execution'[e] # NULL
               /\ e # f => Stays
    BY <1>7, <1>8, ZenonT(60) DEF CloseExecution
  <1>9. ASSUME NEW f \in Executions, NEW rev \in 1..MaxRevision, ReopenExecution(f, rev)
        PROVE  Stays
    BY <1>7, <1>9, ZenonT(60) DEF ReopenExecution
  <1>10. ASSUME \/ UNCHANGED vars
                \/ \E f \in Executions : GetExecution(f)
                \/ \E a \in ClientIds, p \in Procs, u \in Actors : \E ctx \in PriorContexts(u) :
                     CreateAttempt(a, p, u, ctx)
                \/ \E batch \in (SUBSET evidence) \ {{}} : DeleteBatch(batch)
                \/ \E b \in Blobs : PutBlob(b) \/ SweepBlob(b)
         PROVE  Stays
    BY <1>10, Zenon DEF vars, GetExecution, CreateAttempt, DeleteBatch, PutBlob, SweepBlob
  <1>11. QED
    BY <1>1, <1>4, <1>5, <1>6, <1>8, <1>9, <1>10, Zenon DEF Next

(* All references are in a set when those of each table are. *)
LEMMA ReferencedLemma ==
  ASSUME NEW X, Referenced \subseteq X
  PROVE  /\ PackageAssets \subseteq X
         /\ \A a \in AttemptIds : draftRef[a] \subseteq X
         /\ \A ev \in evidence : ev.refs \subseteq X
  <1>1. PackageAssets \subseteq X
    BY Zenon DEF Referenced
  <1>2. ASSUME NEW a \in AttemptIds, NEW b \in draftRef[a] PROVE b \in X
    <2>1. draftRef[a] \in {draftRef[c] : c \in AttemptIds}
      BY Zenon
    <2>2. b \in UNION {draftRef[c] : c \in AttemptIds}
      BY <2>1, Zenon
    <2>3. QED
      BY <2>2, Zenon DEF Referenced
  <1>3. ASSUME NEW ev \in evidence, NEW b \in ev.refs PROVE b \in X
    <2>1. ev.refs \in {x.refs : x \in evidence}
      BY Zenon
    <2>2. b \in UNION {x.refs : x \in evidence}
      BY <2>1, Zenon
    <2>3. QED
      BY <2>2, Zenon DEF Referenced
  <1>4. QED
    BY <1>1, <1>2, <1>3, Zenon

(* The same, of the state after a step. *)
LEMMA ReferencedAfterLemma ==
  ASSUME NEW X,
         PackageAssets \subseteq X,
         \A a \in AttemptIds : draftRef'[a] \subseteq X,
         \A ev \in evidence' : ev.refs \subseteq X
  PROVE  Referenced' \subseteq X
  <1>1. UNION {draftRef'[a] : a \in AttemptIds} \subseteq X
    BY Zenon
  <1>2. UNION {ev.refs : ev \in evidence'} \subseteq X
    BY Zenon
  <1>3. QED
    BY <1>1, <1>2, Zenon DEF Referenced
=============================================================================
