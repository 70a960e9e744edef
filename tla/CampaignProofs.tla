---------------------------- MODULE CampaignProofs ----------------------------
(***************************************************************************)
(* Proofs about Campaign, for every set of executions, procedures, actors, *)
(* attempt ids, edits and digests, and every bound on revisions.           *)
(***************************************************************************)
EXTENDS CampaignSteps

(***************************************************************************)
(* The attempts of an execution.                                           *)
(***************************************************************************)
(* A draft after a step was one before, or has just been created. *)
LEMMA DraftsWere ==
  ASSUME TypeOK, EvidenceMatchesAttempt, AttemptStep, NEW a \in AttemptIds,
         attempt'[a] # NULL, attempt'[a].finalizedRevision = NULL
  PROVE  \/ /\ Draft(a)
            /\ attempt'[a].execution = attempt[a].execution
            /\ attempt'[a].ref = attempt[a].ref
         \/ Created(a)
  <1>1. CASE UNCHANGED <<attempt, evidence, filed, draftRef>>
    BY <1>1, Zenon DEF Draft, Finalized
  <1>2. CASE \E b \in AttemptIds : Created(b) \/ Saved(b)
    BY <1>2, ZenonT(60) DEF Created, Saved, Draft, Finalized
  <1>3. CASE \E S \in SUBSET AttemptIds : FinalizedSet(S)
    BY <1>3, Zenon DEF FinalizedSet, Draft, Finalized
  <1>4. CASE \E batch \in SUBSET evidence : Expired(batch)
    <2>1. PICK batch \in SUBSET evidence : Expired(batch)
      BY <1>4, Zenon
    <2>2. CASE \E ev \in batch : ev.attempt = a
      <3>1. attempt[a] \in AttemptRow
        BY <2>2, ZenonT(60) DEF TypeOK, EvidenceMatchesAttempt
      <3>2. QED
        BY <2>1, <2>2, <3>1, ExpiredRowLemma, NullAssumption, ZenonT(60) DEF Expired, Draft, Finalized
    <2>3. CASE ~\E ev \in batch : ev.attempt = a
      BY <2>1, <2>3, Zenon DEF Expired, Draft, Finalized
    <2>4. QED
      BY <2>2, <2>3, Zenon
  <1>5. QED
    BY <1>1, <1>2, <1>3, <1>4, Zenon DEF AttemptStep

(* A new attempt belongs to an execution that exists, and its id is one a  *)
(* client chose or closure's name for its procedure.                       *)
LEMMA AttemptBirth ==
  ASSUME TypeOK, EvidenceMatchesAttempt, AttemptStep, NEW a \in AttemptIds,
         attempt[a] = NULL, attempt'[a] # NULL
  PROVE  /\ attempt'[a].execution # NULL => execution[attempt'[a].execution] # NULL
         /\ a \in ClientIds \/ a = GeneratedId(attempt'[a].execution, attempt'[a].ref)
  <1>1. CASE \E b \in AttemptIds : Created(b) \/ Saved(b)
    BY <1>1, Zenon DEF Created, Saved, Draft
  <1>2. CASE \E S \in SUBSET AttemptIds : FinalizedSet(S)
    BY <1>2, Zenon DEF FinalizedSet
  <1>3. CASE \E batch \in SUBSET evidence : Expired(batch)
    BY <1>3, Zenon DEF Expired, EvidenceMatchesAttempt
  <1>4. QED
    BY <1>1, <1>2, <1>3, Zenon DEF AttemptStep

(* A procedure of an execution never gets a second draft. *)
LEMMA OneSharedDraftStep ==
  TypeOK /\ EvidenceMatchesAttempt /\ OneSharedDraft /\ AttemptStep => OneSharedDraft'
  <1> SUFFICES ASSUME TypeOK, EvidenceMatchesAttempt, OneSharedDraft, AttemptStep,
                      NEW e \in Executions, NEW p \in Procs,
                      NEW a \in DraftsOf(e, p)', NEW b \in DraftsOf(e, p)'
               PROVE  a = b
    BY Zenon DEF OneSharedDraft
  <1>0. e # NULL
    BY NullAssumption, Zenon
  <1>1. /\ a \in AttemptIds /\ attempt'[a] # NULL /\ attempt'[a].finalizedRevision = NULL
        /\ b \in AttemptIds /\ attempt'[b] # NULL /\ attempt'[b].finalizedRevision = NULL
        /\ attempt'[a].execution = e /\ attempt'[a].ref = p
        /\ attempt'[b].execution = e /\ attempt'[b].ref = p
    BY Zenon DEF DraftsOf, AttemptsOf, Finalized
  <1>2. CASE Draft(a) /\ Draft(b)
    <2>1. a \in DraftsOf(e, p) /\ b \in DraftsOf(e, p)
      BY <1>1, <1>2, AttemptsStay, Zenon DEF DraftsOf, AttemptsOf, Draft
    <2>2. QED
      BY <2>1, Zenon DEF OneSharedDraft
  <1>3. ASSUME NEW c \in {a, b}, Created(c) PROVE a = b
    <2>1. DraftsOf(e, p) = {}
      BY <1>0, <1>1, <1>3, Zenon DEF Created
    <2>2. ASSUME NEW d \in {a, b}, d # c PROVE FALSE
      <3>1. attempt'[d] = attempt[d]
        BY <1>1, <1>3, <2>2, Zenon DEF Created
      <3>2. d \in DraftsOf(e, p)
        BY <1>1, <3>1, Zenon DEF DraftsOf, AttemptsOf, Finalized
      <3>3. QED
        BY <2>1, <3>2, Zenon
    <2>3. QED
      BY <2>2
  <1>4. QED
    BY <1>1, <1>2, <1>3, DraftsWere, Zenon

(* Evidence and finalization come and go together. *)
LEMMA EvidenceStep ==
  TypeOK /\ TypeOK' /\ EvidenceMatchesAttempt /\ EvidenceIsFinal /\ AttemptStep
    => EvidenceMatchesAttempt' /\ EvidenceIsFinal'
  <1> SUFFICES ASSUME TypeOK, TypeOK', EvidenceMatchesAttempt, EvidenceIsFinal, AttemptStep
               PROVE  EvidenceMatchesAttempt' /\ EvidenceIsFinal'
    BY Zenon
  <1>0. /\ \A ev \in evidence : ev.attempt \in AttemptIds
        /\ \A ev \in evidence' : ev.attempt \in AttemptIds
        /\ \A a \in AttemptIds : filed[a] \in Nat
    BY Zenon DEF TypeOK, EvidenceRow
  <1>1. CASE UNCHANGED <<attempt, evidence, filed, draftRef>>
    BY <1>1, Zenon DEF EvidenceMatchesAttempt, EvidenceIsFinal, Finalized
  <1>2. CASE \E a \in AttemptIds : Created(a) \/ Saved(a)
    <2>1. PICK a \in AttemptIds : Created(a) \/ Saved(a)
      BY <1>2, Zenon
    <2>2. /\ evidence' = evidence /\ filed' = filed
          /\ attempt'[a] # NULL /\ attempt'[a].finalizedRevision = NULL
          /\ \A b \in AttemptIds \ {a} : attempt'[b] = attempt[b]
          /\ attempt[a] # NULL => ~Finalized(a)
      BY <2>1, NullAssumption, Zenon DEF Created, Saved, Draft
    <2>3. \A ev \in evidence : ev.attempt # a
      BY <2>2, Zenon DEF EvidenceIsFinal
    <2>4. \A b \in AttemptIds : filed'[b] = IF attempt'[b] # NULL /\ Finalized(b)' THEN 1 ELSE 0
      BY <2>2, Zenon DEF EvidenceMatchesAttempt, Finalized
    <2>5. EvidenceIsFinal'
      BY <1>0, <2>2, <2>3, ZenonT(60) DEF EvidenceIsFinal, Finalized
    <2>6. \A ev \in evidence' : /\ attempt'[ev.attempt] # NULL
                                /\ attempt'[ev.attempt].evidence = ev.id
                                /\ attempt'[ev.attempt].data = ev.data
      BY <1>0, <2>2, <2>3, ZenonT(60) DEF EvidenceMatchesAttempt
    <2>7. ASSUME NEW b \in AttemptIds, attempt'[b] # NULL, Finalized(b)'
          PROVE  \/ \E ev \in evidence' : ev.attempt = b
                 \/ attempt'[b].evidence = NULL /\ attempt'[b].data = Cleared
      BY <2>2, <2>7, Zenon DEF EvidenceMatchesAttempt, Finalized
    <2>8. QED
      BY <2>4, <2>5, <2>6, <2>7, Zenon DEF EvidenceMatchesAttempt
  <1>3. CASE \E S \in SUBSET AttemptIds : FinalizedSet(S)
    <2>1. PICK S \in SUBSET AttemptIds : FinalizedSet(S)
      BY <1>3, Zenon
    <2>2. \A ev \in evidence : ev.attempt \notin S
      BY <2>1, Zenon DEF FinalizedSet, EvidenceIsFinal, Draft
    <2>3. \A a \in S : /\ attempt'[a] # NULL /\ attempt'[a].finalizedRevision # NULL
                       /\ filed[a] = 0
      BY <2>1, NullAssumption, ZenonT(60) DEF FinalizedSet, EvidenceMatchesAttempt, Draft
    <2>4. \A b \in AttemptIds : filed'[b] = IF attempt'[b] # NULL /\ Finalized(b)' THEN 1 ELSE 0
      BY <2>1, <2>3 DEF FinalizedSet, EvidenceMatchesAttempt, Finalized
    <2>5. EvidenceIsFinal'
      BY <1>0, <2>1, <2>2, <2>3 DEF FinalizedSet, EvidenceIsFinal, Finalized
    <2>6. \A ev \in evidence' : /\ attempt'[ev.attempt] # NULL
                                /\ attempt'[ev.attempt].evidence = ev.id
                                /\ attempt'[ev.attempt].data = ev.data
      <3>1. ASSUME NEW ev \in evidence
            PROVE  /\ attempt'[ev.attempt] # NULL
                   /\ attempt'[ev.attempt].evidence = ev.id
                   /\ attempt'[ev.attempt].data = ev.data
        <4>1. attempt'[ev.attempt] = attempt[ev.attempt]
          BY <1>0, <2>1, <2>2, Zenon DEF FinalizedSet
        <4>2. QED
          BY <4>1, Zenon DEF EvidenceMatchesAttempt
      <3>2. ASSUME NEW ev \in evidence', ev \notin evidence
            PROVE  /\ attempt'[ev.attempt] # NULL
                   /\ attempt'[ev.attempt].evidence = ev.id
                   /\ attempt'[ev.attempt].data = ev.data
        <4>1. /\ ev.attempt \in S /\ ev.id = EvidenceId(ev.attempt)
              /\ ev.data = attempt'[ev.attempt].data
          BY <2>1, <3>2, Zenon DEF FinalizedSet
        <4>2. attempt'[ev.attempt].evidence = EvidenceId(ev.attempt)
          BY <2>1, <4>1, Zenon DEF FinalizedSet
        <4>3. QED
          BY <2>3, <4>1, <4>2, Zenon
      <3>3. QED
        BY <3>1, <3>2, Zenon
    <2>7. ASSUME NEW b \in AttemptIds, attempt'[b] # NULL, Finalized(b)'
          PROVE  \/ \E ev \in evidence' : ev.attempt = b
                 \/ attempt'[b].evidence = NULL /\ attempt'[b].data = Cleared
      BY <2>1, <2>7 DEF FinalizedSet, EvidenceMatchesAttempt, Finalized
    <2>8. QED
      BY <2>4, <2>5, <2>6, <2>7, Zenon DEF EvidenceMatchesAttempt
  <1>4. CASE \E batch \in SUBSET evidence : Expired(batch)
    <2>1. PICK batch \in SUBSET evidence : Expired(batch)
      BY <1>4, Zenon
    <2>2. ASSUME NEW ev \in batch
          PROVE  /\ attempt[ev.attempt] \in AttemptRow
                 /\ attempt'[ev.attempt] # NULL
                 /\ attempt'[ev.attempt].finalizedRevision = attempt[ev.attempt].finalizedRevision
                 /\ attempt'[ev.attempt].evidence = NULL
                 /\ attempt'[ev.attempt].data = Cleared
      <3>1. attempt[ev.attempt] \in AttemptRow
        BY <1>0, Zenon DEF TypeOK, EvidenceMatchesAttempt
      <3>2. attempt'[ev.attempt] = ExpiredRow(attempt[ev.attempt])
        BY <1>0, <2>1, Zenon DEF Expired
      <3>3. QED
        BY <3>1, <3>2, ExpiredRowLemma, NullAssumption, Zenon
    <2>3. ASSUME NEW a \in AttemptIds, ~\E ev \in batch : ev.attempt = a
          PROVE  attempt'[a] = attempt[a]
      BY <2>1, <2>3, Zenon DEF Expired
    <2>4. evidence' = evidence \ batch /\ filed' = filed
      BY <2>1, Zenon DEF Expired
    <2>5. \A b \in AttemptIds : filed'[b] = IF attempt'[b] # NULL /\ Finalized(b)' THEN 1 ELSE 0
      BY <2>2, <2>3, <2>4, NullAssumption DEF EvidenceMatchesAttempt, Finalized
    <2>6. ASSUME NEW ev \in evidence' PROVE attempt'[ev.attempt] = attempt[ev.attempt]
      BY <1>0, <2>3, <2>4, Zenon DEF EvidenceIsFinal
    <2>7. EvidenceIsFinal'
      BY <2>4, <2>6, Zenon DEF EvidenceIsFinal, Finalized
    <2>8. \A ev \in evidence' : /\ attempt'[ev.attempt] # NULL
                                /\ attempt'[ev.attempt].evidence = ev.id
                                /\ attempt'[ev.attempt].data = ev.data
      BY <2>4, <2>6, Zenon DEF EvidenceMatchesAttempt
    <2>9. ASSUME NEW b \in AttemptIds, attempt'[b] # NULL, Finalized(b)'
          PROVE  \/ \E ev \in evidence' : ev.attempt = b
                 \/ attempt'[b].evidence = NULL /\ attempt'[b].data = Cleared
      BY <2>2, <2>3, <2>4, <2>9 DEF EvidenceMatchesAttempt, Finalized
    <2>10. QED
      BY <2>5, <2>7, <2>8, <2>9, Zenon DEF EvidenceMatchesAttempt
  <1>5. QED
    BY <1>1, <1>2, <1>3, <1>4, Zenon DEF AttemptStep

(***************************************************************************)
(* Executions.                                                             *)
(***************************************************************************)
(* A shared attempt keeps its execution. *)
LEMMA ExecutionExistsStep ==
  (/\ TypeOK /\ TypeOK' /\ EvidenceMatchesAttempt /\ EvidenceIsFinal /\ ExecutionExists
   /\ AttemptStep /\ [Next]_vars)
    => ExecutionExists'
  <1> SUFFICES ASSUME TypeOK, TypeOK', EvidenceMatchesAttempt, EvidenceIsFinal, ExecutionExists,
                      AttemptStep, [Next]_vars,
                      NEW a \in AttemptIds, attempt'[a] # NULL, attempt'[a].execution # NULL
               PROVE  execution'[attempt'[a].execution] # NULL
    BY Zenon DEF ExecutionExists
  <1>1. attempt'[a].execution \in Executions
    BY Zenon DEF TypeOK, AttemptRow
  <1>2. execution[attempt'[a].execution] # NULL
    <2>1. CASE attempt[a] # NULL
      BY <2>1, AttemptsStay, Zenon DEF ExecutionExists
    <2>2. CASE attempt[a] = NULL
      BY <2>2, AttemptBirth, Zenon
    <2>3. QED
      BY <2>1, <2>2, Zenon
  <1>3. QED
    BY <1>1, <1>2, ExecutionStepLemma, Zenon

(* An attempt that closure creates is named after its procedure. *)
LEMMA GeneratedIdStep ==
  TypeOK /\ EvidenceMatchesAttempt /\ EvidenceIsFinal /\ GeneratedIdIsOwn /\ AttemptStep
    => GeneratedIdIsOwn'
  <1> SUFFICES ASSUME TypeOK, EvidenceMatchesAttempt, EvidenceIsFinal, GeneratedIdIsOwn, AttemptStep,
                      NEW e \in Executions, NEW p \in Procs, attempt'[GeneratedId(e, p)] # NULL
               PROVE  /\ attempt'[GeneratedId(e, p)].execution = e
                      /\ attempt'[GeneratedId(e, p)].ref = p
    BY Zenon DEF GeneratedIdIsOwn
  <1>1. GeneratedId(e, p) \in AttemptIds /\ GeneratedId(e, p) \notin ClientIds
    BY IdAssumption DEF GeneratedId, GeneratedIds, AttemptIds
  <1>2. CASE attempt[GeneratedId(e, p)] # NULL
    BY <1>1, <1>2, AttemptsStay, Zenon DEF GeneratedIdIsOwn
  <1>3. CASE attempt[GeneratedId(e, p)] = NULL
    BY <1>1, <1>3, AttemptBirth, Zenon DEF GeneratedId
  <1>4. QED
    BY <1>2, <1>3, Zenon

(* While an execution is closed it gets no draft, and closing it disposes  *)
(* of every draft and covers every procedure.                              *)
LEMMA ClosedIsCompleteStep ==
  (/\ TypeOK /\ ExecutionExists /\ GeneratedIdIsOwn /\ EvidenceMatchesAttempt /\ ClosedIsComplete
   /\ AttemptStep /\ [Next]_vars)
    => ClosedIsComplete'
  <1> SUFFICES ASSUME TypeOK, ExecutionExists, GeneratedIdIsOwn, EvidenceMatchesAttempt,
                      ClosedIsComplete, AttemptStep, [Next]_vars,
                      NEW e \in Executions, execution'[e] # NULL, execution'[e].closed,
                      NEW p \in Procs
               PROVE  AttemptsOf(e, p)' # {} /\ DraftsOf(e, p)' = {}
    BY Zenon DEF ClosedIsComplete
  <1>1. AttemptsOf(e, p) # {} => AttemptsOf(e, p)' # {}
    BY AttemptsStay, Zenon DEF AttemptsOf
  <1>2. CASE execution[e] # NULL /\ execution[e].closed
    <2>1. AttemptsOf(e, p) # {} /\ DraftsOf(e, p) = {}
      BY <1>2, Zenon DEF ClosedIsComplete
    <2>2. ASSUME NEW a \in DraftsOf(e, p)' PROVE FALSE
      <3>1. /\ a \in AttemptIds /\ attempt'[a] # NULL /\ attempt'[a].finalizedRevision = NULL
            /\ attempt'[a].execution = e /\ attempt'[a].ref = p
        BY Zenon DEF DraftsOf, AttemptsOf, Finalized
      <3>2. ~Created(a)
        BY <1>2, <3>1, NullAssumption, Zenon DEF Created
      <3>3. a \in DraftsOf(e, p)
        BY <3>1, <3>2, DraftsWere, Zenon DEF DraftsOf, AttemptsOf, Draft
      <3>4. QED
        BY <2>1, <3>3, Zenon
    <2>3. QED
      BY <1>1, <2>1, <2>2, Zenon
  <1>3. ASSUME NEW rev \in 1..MaxRevision, NEW u \in Actors, NEW t \in FinishTimes,
               CloseExecution(e, rev, u, t)
        PROVE  AttemptsOf(e, p)' # {} /\ DraftsOf(e, p)' = {}
    <2>1. ASSUME NEW a \in Unfinished(e)
          PROVE  /\ a \in AttemptIds
                 /\ attempt'[a] # NULL
                 /\ attempt'[a].finalizedRevision # NULL
                 /\ attempt[a] = NULL => /\ attempt'[a].execution = e
                                         /\ a = GeneratedId(e, attempt'[a].ref)
      <3>1. a \in AttemptIds /\ SkippedRow(e, a, u) \in AttemptRow
        BY UnfinishedLemma, SkippedRowLemma, ZenonT(60)
      <3>2. attempt'[a] = FinalRow(SkippedRow(e, a, u), a, t)
        BY <1>3, <3>1, Zenon DEF CloseExecution
      <3>3. filed \in [AttemptIds -> Nat]
        BY Zenon DEF TypeOK
      <3>4. QED
        BY <3>1, <3>2, <3>3, FinalRowLemma, SkippedRowLemma, NullAssumption
    <2>2. ASSUME NEW a \in DraftsOf(e, p)' PROVE FALSE
      <3>1. /\ a \in AttemptIds /\ attempt'[a] # NULL /\ attempt'[a].finalizedRevision = NULL
            /\ attempt'[a].execution = e /\ attempt'[a].ref = p
        BY Zenon DEF DraftsOf, AttemptsOf, Finalized
      <3>2. a \notin Unfinished(e)
        BY <2>1, <3>1, Zenon
      <3>3. attempt'[a] = attempt[a]
        BY <1>3, <3>1, <3>2, Zenon DEF CloseExecution
      <3>4. a \in DraftsOf(e, p)
        BY <3>1, <3>3, Zenon DEF DraftsOf, AttemptsOf, Finalized
      <3>5. QED
        BY <3>2, <3>4, Zenon DEF Unfinished, DraftsOf, AttemptsOf
    <2>3. CASE AttemptsOf(e, p) = {}
      <3>1. GeneratedId(e, p) \in AttemptIds
        BY Zenon DEF GeneratedId, GeneratedIds, AttemptIds
      <3>2. GeneratedId(e, p) \in Unfinished(e)
        BY <2>3, <3>1, Zenon DEF Unfinished
      <3>3. attempt[GeneratedId(e, p)] = NULL
        BY <2>3, <3>1, ZenonT(60) DEF GeneratedIdIsOwn, AttemptsOf
      <3>4. GeneratedId(e, p) \in AttemptsOf(e, p)'
        BY <2>1, <3>1, <3>2, <3>3, Zenon DEF AttemptsOf, GeneratedId
      <3>5. QED
        BY <2>2, <3>4, Zenon
    <2>4. QED
      BY <1>1, <2>2, <2>3, Zenon
  <1>4. QED
    BY <1>2, <1>3, ExecutionStepLemma, Zenon

(***************************************************************************)
(* Blob references.                                                        *)
(***************************************************************************)
(* A step that saves or finalizes registers what it mentions. *)
LEMMA MentionedStep ==
  TypeOK /\ EvidenceMatchesAttempt /\ MentionedIsReferenced /\ AttemptStep => MentionedIsReferenced'
  <1> SUFFICES ASSUME TypeOK, EvidenceMatchesAttempt, MentionedIsReferenced, AttemptStep
               PROVE  MentionedIsReferenced'
    BY Zenon
  <1>1. CASE UNCHANGED <<attempt, evidence, filed, draftRef>>
    BY <1>1, Zenon DEF MentionedIsReferenced, Finalized
  <1>2. CASE \E a \in AttemptIds : Created(a) \/ Saved(a)
    <2>1. PICK a \in AttemptIds : Created(a) \/ Saved(a)
      BY <1>2, Zenon
    <2>2. /\ evidence' = evidence
          /\ attempt'[a].data.media \subseteq draftRef'[a] \cup PackageAssets
          /\ \A b \in AttemptIds \ {a} : attempt'[b] = attempt[b] /\ draftRef'[b] = draftRef[b]
      BY <2>1, Zenon DEF Created, Saved, TypeOK
    <2>3. ASSUME NEW b \in AttemptIds, attempt'[b] # NULL, ~Finalized(b)'
          PROVE  attempt'[b].data.media \subseteq draftRef'[b] \cup PackageAssets
      BY <2>2, <2>3, Zenon DEF MentionedIsReferenced, Finalized
    <2>4. QED
      BY <2>2, <2>3, Zenon DEF MentionedIsReferenced
  <1>3. CASE \E S \in SUBSET AttemptIds : FinalizedSet(S)
    <2>1. PICK S \in SUBSET AttemptIds : FinalizedSet(S)
      BY <1>3, Zenon
    <2>2. ASSUME NEW b \in AttemptIds, attempt'[b] # NULL, ~Finalized(b)'
          PROVE  attempt'[b].data.media \subseteq draftRef'[b] \cup PackageAssets
      <3>1. b \notin S
        BY <2>1, <2>2, Zenon DEF FinalizedSet, Finalized
      <3>2. attempt'[b] = attempt[b] /\ draftRef'[b] = draftRef[b]
        BY <2>1, <3>1, Zenon DEF FinalizedSet
      <3>3. QED
        BY <2>2, <3>2, Zenon DEF MentionedIsReferenced, Finalized
    <2>3. ASSUME NEW ev \in evidence' PROVE ev.data.media \subseteq ev.refs
      <3>1. CASE ev \in evidence
        BY <3>1, Zenon DEF MentionedIsReferenced
      <3>2. CASE ev \notin evidence
        <4>1. /\ ev.data = attempt'[ev.attempt].data
              /\ ev.refs = attempt'[ev.attempt].data.media \cup PackageAssets
          BY <2>1, <3>2, Zenon DEF FinalizedSet
        <4>2. QED
          BY <4>1, Zenon
      <3>3. QED
        BY <3>1, <3>2, Zenon
    <2>4. QED
      BY <2>2, <2>3, Zenon DEF MentionedIsReferenced
  <1>4. CASE \E batch \in SUBSET evidence : Expired(batch)
    <2>1. PICK batch \in SUBSET evidence : Expired(batch)
      BY <1>4, Zenon
    <2>2. ASSUME NEW a \in AttemptIds, attempt'[a] # NULL, ~Finalized(a)'
          PROVE  attempt'[a].data.media \subseteq draftRef'[a] \cup PackageAssets
      <3>1. CASE \E ev \in batch : ev.attempt = a
        <4>1. attempt[a] \in AttemptRow
          BY <3>1 DEF TypeOK, EvidenceMatchesAttempt
        <4>2. attempt'[a].data = Cleared
          BY <2>1, <3>1, <4>1, ExpiredRowLemma DEF Expired
        <4>3. QED
          BY <4>2, DraftDataLemma, Zenon
      <3>2. CASE ~\E ev \in batch : ev.attempt = a
        BY <2>1, <2>2, <3>2, Zenon DEF Expired, MentionedIsReferenced, Finalized
      <3>3. QED
        BY <3>1, <3>2, Zenon
    <2>3. QED
      BY <2>1, <2>2, Zenon DEF Expired, MentionedIsReferenced
  <1>5. QED
    BY <1>1, <1>2, <1>3, <1>4, Zenon DEF AttemptStep

(* Steps other than a sweep delete no object, and a sweep no referenced    *)
(* one.                                                                    *)
LEMMA StoredStep ==
  ASSUME [Next]_vars
  PROVE  \/ stored \subseteq stored'
         \/ /\ UNCHANGED <<draftRef, evidence>>
            /\ \E b \in Blobs : b \notin Referenced /\ stored' = stored \ {b}
  BY ZenonT(60)
     DEF Next, vars, CreateExecution, GetExecution, StartExecutionAttempt, CreateAttempt, SaveAttempt,
         FinalizeAttempt, CloseExecution, ReopenExecution, DeleteBatch, PutBlob, SweepBlob

(* What a step comes to refer to was referenced before, or is stored. *)
LEMMA ReferencedStep ==
  TypeOK /\ EvidenceMatchesAttempt /\ MentionedIsReferenced /\ ReferencedIsStored /\ AttemptStep
    => Referenced' \subseteq stored
  <1> SUFFICES ASSUME TypeOK, EvidenceMatchesAttempt, MentionedIsReferenced, ReferencedIsStored, AttemptStep
               PROVE  Referenced' \subseteq stored
    BY Zenon
  <1>1. /\ PackageAssets \subseteq stored
        /\ \A a \in AttemptIds : draftRef[a] \subseteq stored
        /\ \A ev \in evidence : ev.refs \subseteq stored
    BY ReferencedLemma, Zenon DEF ReferencedIsStored
  <1>2. SUFFICES /\ \A a \in AttemptIds : draftRef'[a] \subseteq stored
                 /\ \A ev \in evidence' : ev.refs \subseteq stored
    BY <1>1, ReferencedAfterLemma, Zenon
  <1>3. CASE UNCHANGED <<attempt, evidence, filed, draftRef>>
    BY <1>1, <1>3, Zenon
  <1>4. CASE \E a \in AttemptIds : Created(a) \/ Saved(a)
    BY <1>1, <1>4, Zenon DEF Created, Saved, TypeOK
  <1>5. CASE \E S \in SUBSET AttemptIds : FinalizedSet(S)
    <2>1. PICK S \in SUBSET AttemptIds : FinalizedSet(S)
      BY <1>5, Zenon
    <2>2. ASSUME NEW a \in S PROVE attempt'[a].data.media \subseteq stored
      <3>1. CASE attempt[a] = NULL
        BY <1>1, <2>1, <3>1, Zenon DEF FinalizedSet
      <3>2. CASE attempt[a] # NULL
        <4>1. attempt'[a].data.media = attempt[a].data.media /\ ~Finalized(a)
          BY <2>1, <3>2, ZenonT(60) DEF FinalizedSet, Draft, WorkKept
        <4>2. QED
          BY <1>1, <3>2, <4>1, Zenon DEF MentionedIsReferenced
      <3>3. QED
        BY <3>1, <3>2, Zenon
    <2>3. ASSUME NEW a \in AttemptIds PROVE draftRef'[a] \subseteq stored
      BY <1>1, <2>1, Zenon DEF FinalizedSet
    <2>4. ASSUME NEW ev \in evidence', ev \notin evidence PROVE ev.refs \subseteq stored
      <3>1. /\ ev.attempt \in S
            /\ ev.refs = attempt'[ev.attempt].data.media \cup PackageAssets
        BY <2>1, <2>4, Zenon DEF FinalizedSet
      <3>2. QED
        BY <1>1, <2>2, <3>1, Zenon
    <2>5. QED
      BY <1>1, <2>3, <2>4, Zenon
  <1>6. CASE \E batch \in SUBSET evidence : Expired(batch)
    BY <1>1, <1>6, Zenon DEF Expired
  <1>7. QED
    BY <1>3, <1>4, <1>5, <1>6, Zenon DEF AttemptStep

(* No step deletes an object that is referenced after it. *)
LEMMA ReferencedIsStoredStep ==
  (/\ TypeOK /\ EvidenceMatchesAttempt /\ MentionedIsReferenced /\ ReferencedIsStored
   /\ AttemptStep /\ [Next]_vars)
    => ReferencedIsStored'
  <1> SUFFICES ASSUME TypeOK, EvidenceMatchesAttempt, MentionedIsReferenced, ReferencedIsStored,
                      AttemptStep, [Next]_vars
               PROVE  ReferencedIsStored'
    BY Zenon
  <1>1. CASE stored \subseteq stored'
    BY <1>1, ReferencedStep, Zenon DEF ReferencedIsStored
  <1>2. CASE /\ UNCHANGED <<draftRef, evidence>>
             /\ \E b \in Blobs : b \notin Referenced /\ stored' = stored \ {b}
    <2>1. Referenced' = Referenced
      BY <1>2, Zenon DEF Referenced
    <2>2. QED
      BY <1>2, <2>1, Zenon DEF ReferencedIsStored
  <1>3. QED
    BY <1>1, <1>2, StoredStep, Zenon

(***************************************************************************)
(* Results.                                                                *)
(***************************************************************************)
(* Only a tester's finalization files a PASS, and it is validated. *)
LEMMA PassIsEarnedStep ==
  TypeOK /\ PassIsEarned /\ [Next]_vars => PassIsEarned'
  <1> SUFFICES ASSUME TypeOK, PassIsEarned, [Next]_vars PROVE PassIsEarned'
    BY Zenon
  <1> DEFINE Earned(ev) ==
        /\ ev.closure # NULL => ev.data.result = "SKIPPED"
        /\ ev.data.result = "PASS" => /\ \A c \in Checks : ev.data.checks[c] = "PASS"
                                      /\ missingAnswers(ev.data) = {}
  <1>1. ASSUME NEW a \in AttemptIds, NEW u \in Actors, NEW rev \in 1..MaxRevision,
               NEW t \in FinishTimes, FinalizeAttempt(a, u, rev, t)
        PROVE  PassIsEarned'
    <2>1. attempt[a] \in AttemptRow
      BY <1>1, Zenon DEF FinalizeAttempt, TypeOK
    <2>2. Earned(EvidenceOf(attempt[a], a, NULL))
      <3>1. /\ EvidenceOf(attempt[a], a, NULL).closure = NULL
            /\ EvidenceOf(attempt[a], a, NULL).data = attempt[a].data
        BY Zenon DEF EvidenceOf
      <3>2. ValidateFinalization(attempt[a].data)
        BY <1>1, Zenon DEF FinalizeAttempt
      <3>3. QED
        BY <3>1, <3>2, ZenonT(60) DEF ValidateFinalization, FinalCheck
    <2>3. QED
      BY <1>1, <2>2, Zenon DEF FinalizeAttempt, PassIsEarned
  <1>2. ASSUME NEW e \in Executions, NEW rev \in 1..MaxRevision, NEW u \in Actors,
               NEW t \in FinishTimes, CloseExecution(e, rev, u, t)
        PROVE  PassIsEarned'
    <2>1. ASSUME NEW a \in Unfinished(e) PROVE Earned(EvidenceOf(SkippedRow(e, a, u), a, rev + 1))
      <3>1. a \in AttemptIds /\ rev + 1 \in Nat /\ filed \in [AttemptIds -> Nat]
        BY UnfinishedLemma, BoundAssumption DEF TypeOK
      <3>2. SkippedRow(e, a, u) \in AttemptRow /\ SkippedRow(e, a, u).data.result = "SKIPPED"
        BY SkippedRowLemma, Zenon
      <3>3. EvidenceOf(SkippedRow(e, a, u), a, rev + 1).data = SkippedRow(e, a, u).data
        BY <3>1, <3>2, EvidenceOfLemma
      <3>4. QED
        BY <3>2, <3>3, Zenon
    <2>2. ASSUME NEW ev \in evidence' PROVE Earned(ev)
      <3>1. CASE ev \in evidence
        BY <3>1, Zenon DEF PassIsEarned
      <3>2. CASE ev \notin evidence
        <4>1. PICK a \in Unfinished(e) : ev = EvidenceOf(SkippedRow(e, a, u), a, rev + 1)
          BY <1>2, <3>2, Zenon DEF CloseExecution
        <4>2. QED
          BY <2>1, <4>1, Zenon
      <3>3. QED
        BY <3>1, <3>2, Zenon
    <2>3. QED
      BY <2>2, Zenon DEF PassIsEarned
  <1>3. ASSUME evidence' \subseteq evidence PROVE PassIsEarned'
    BY <1>3, Zenon DEF PassIsEarned
  <1>4. QED
    BY <1>1, <1>2, <1>3, ZenonT(60)
       DEF Next, vars, CreateExecution, GetExecution, StartExecutionAttempt,
       CreateAttempt, SaveAttempt, ReopenExecution, DeleteBatch, PutBlob, SweepBlob

(***************************************************************************)
(* Revisions.                                                              *)
(***************************************************************************)
(* The drafts of an execution, before or after a step. *)
WorkOf(a, e) == Draft(a) /\ attempt[a].execution = e

(* An execution's revision never goes back, and while it stays the same so *)
(* do the drafts of the execution.                                         *)
LEMMA RevisionStep ==
  ASSUME TypeOK, ExecutionExists, GeneratedIdIsOwn, EvidenceMatchesAttempt, EvidenceIsFinal,
         [Next]_vars, NEW e \in Executions, execution[e] # NULL
  PROVE  /\ execution'[e] # NULL
         /\ execution'[e].revision >= execution[e].revision
         /\ execution'[e].revision = execution[e].revision =>
              \A a \in AttemptIds : WorkOf(a, e) \/ WorkOf(a, e)' => attempt'[a] = attempt[a]
  <1> DEFINE Kept == \A a \in AttemptIds : WorkOf(a, e) \/ WorkOf(a, e)' => attempt'[a] = attempt[a]
             Goal == /\ execution'[e] # NULL
                     /\ execution'[e].revision >= execution[e].revision
                     /\ execution'[e].revision = execution[e].revision => Kept
  <1>0. /\ execution[e] \in ExecutionRow /\ execution[e].revision \in Nat
        /\ execution'[e] # NULL
        /\ e # NULL
    BY ExecutionStepLemma, NullAssumption, Zenon DEF TypeOK, ExecutionRow
  <1>1. ASSUME execution'[e] = execution[e], Kept PROVE Goal
    BY <1>0, <1>1
  <1>2. ASSUME execution'[e].revision = execution[e].revision + 1 PROVE Goal
    BY <1>0, <1>2
  <1>3. ASSUME NEW f \in Executions \cup {NULL}, touchExecution(f),
               NEW b \in AttemptIds, attempt'[b] # NULL, attempt'[b].execution = f,
               attempt[b] # NULL => attempt[b].execution = f,
               \A a \in AttemptIds \ {b} : attempt'[a] = attempt[a]
        PROVE  Goal
    <2>1. CASE f = e
      <3>1. execution'[e].revision = execution[e].revision + 1
        BY <1>0, <1>3, <2>1, Zenon DEF touchExecution, TypeOK, ExecutionRow
      <3>2. QED
        BY <1>2, <3>1, Zenon
    <2>2. CASE f # e
      <3>1. execution'[e] = execution[e]
        BY <1>3, <2>2, Zenon DEF touchExecution, TypeOK
      <3>2. Kept
        BY <1>3, <2>2, Zenon DEF WorkOf, Draft
      <3>3. QED
        BY <1>1, <3>1, <3>2, Zenon
    <2>3. QED
      BY <2>1, <2>2, Zenon
  <1>4. ASSUME NEW f \in Executions, NEW a \in ClientIds, NEW p \in Procs, NEW u \in Actors,
               StartExecutionAttempt(f, a, p, u)
        PROVE  Goal
    <2>1. a \in AttemptIds
      BY Zenon DEF AttemptIds
    <2>2. attempt'[a] = NewAttempt(f, p, u, InitialDraft("given", DefaultInputs, DefaultMedia))
      BY <1>4, <2>1, Zenon DEF StartExecutionAttempt, TypeOK
    <2>2a. InitialDraft("given", DefaultInputs, DefaultMedia) \in DraftData
      BY DraftDataLemma, ZenonT(60) DEF Text
    <2>3. attempt'[a] \in AttemptRow /\ attempt'[a].execution = f
      BY <2>2, <2>2a, NewAttemptLemma
    <2>4. QED
      BY <1>3, <1>4, <2>1, <2>3, NullAssumption, Zenon DEF StartExecutionAttempt, TypeOK
  <1>5. ASSUME NEW a \in ClientIds, NEW p \in Procs, NEW u \in Actors, NEW ctx \in PriorContexts(u),
               CreateAttempt(a, p, u, ctx)
        PROVE  Goal
    <2>1. a \in AttemptIds
      BY Zenon DEF AttemptIds
    <2>2. attempt'[a] = NewAttempt(NULL, p, u, InitialDraft(ctx, DefaultInputs, DefaultMedia))
      BY <1>5, <2>1, Zenon DEF CreateAttempt, TypeOK
    <2>3. attempt'[a].execution = NULL
      BY <2>2 DEF NewAttempt
    <2>4. attempt[a] = NULL /\ \A b \in AttemptIds \ {a} : attempt'[b] = attempt[b]
      BY <1>5, <2>1, Zenon DEF CreateAttempt, TypeOK
    <2>5. Kept
      BY <1>0, <2>3, <2>4, Zenon DEF WorkOf, Draft
    <2>6. QED
      BY <1>1, <1>5, <2>5, Zenon DEF CreateAttempt
  <1>6. ASSUME NEW a \in AttemptIds, attempt[a] # NULL, attempt'[a] # NULL,
               attempt'[a].execution = attempt[a].execution,
               touchExecution(attempt[a].execution),
               \A b \in AttemptIds \ {a} : attempt'[b] = attempt[b]
        PROVE  Goal
    <2>1. attempt[a].execution \in Executions \cup {NULL}
      BY <1>6, Zenon DEF TypeOK, AttemptRow
    <2>2. QED
      BY <1>3, <1>6, <2>1, Zenon
  <1>7. ASSUME NEW a \in AttemptIds, NEW u \in Actors, NEW rev \in 1..MaxRevision, NEW op \in Ops,
               NEW d \in Edits, SaveAttempt(a, u, rev, op, d)
        PROVE  Goal
    <2>1. attempt'[a] # NULL /\ attempt'[a].execution = attempt[a].execution
      BY <1>7, AttemptStepLemma, AttemptsStay, ZenonT(60) DEF SaveAttempt
    <2>2. QED
      BY <1>6, <1>7, <2>1, Zenon DEF SaveAttempt, TypeOK
  <1>8. ASSUME NEW a \in AttemptIds, NEW u \in Actors, NEW rev \in 1..MaxRevision,
               NEW t \in FinishTimes, FinalizeAttempt(a, u, rev, t)
        PROVE  Goal
    <2>1. attempt'[a] # NULL /\ attempt'[a].execution = attempt[a].execution
      BY <1>8, AttemptStepLemma, AttemptsStay, ZenonT(60) DEF FinalizeAttempt
    <2>2. QED
      BY <1>6, <1>8, <2>1, Zenon DEF FinalizeAttempt, TypeOK
  <1>9. ASSUME NEW f \in Executions, NEW closed \in BOOLEAN, SetLifecycle(f, closed),
               f # e => Kept
        PROVE  Goal
    <2>1. CASE f = e
      <3>1. execution'[e].revision = execution[e].revision + 1
        BY <1>0, <1>9, <2>1, Zenon DEF SetLifecycle, TypeOK, ExecutionRow
      <3>2. QED
        BY <1>2, <3>1, Zenon
    <2>2. CASE f # e
      BY <1>1, <1>9, <2>2, Zenon DEF SetLifecycle, TypeOK
    <2>3. QED
      BY <2>1, <2>2, Zenon
  <1>10. ASSUME NEW f \in Executions, NEW rev \in 1..MaxRevision, NEW u \in Actors,
                NEW t \in FinishTimes, CloseExecution(f, rev, u, t)
         PROVE  Goal
    <2>1. ASSUME f # e, NEW a \in AttemptIds, WorkOf(a, e) \/ WorkOf(a, e)'
          PROVE  attempt'[a] = attempt[a]
      <3>1. CASE a \notin Unfinished(f)
        BY <1>10, <3>1, Zenon DEF CloseExecution
      <3>2. CASE a \in Unfinished(f)
        <4>1. /\ SkippedRow(f, a, u) \in AttemptRow
              /\ attempt'[a] = FinalRow(SkippedRow(f, a, u), a, t)
          BY <1>10, <3>2, SkippedRowLemma, Zenon DEF CloseExecution
        <4>2. attempt'[a].finalizedRevision # NULL
          BY <4>1, FinalRowLemma DEF TypeOK
        <4>3. WorkOf(a, e)
          BY <2>1, <4>2, Zenon DEF WorkOf, Draft, Finalized
        <4>4. QED
          BY <2>1, <3>2, <4>3, UnfinishedDraftLemma, ZenonT(60) DEF WorkOf, Draft
      <3>3. QED
        BY <3>1, <3>2, Zenon
    <2>2. QED
      BY <1>9, <1>10, <2>1, Zenon DEF CloseExecution
  <1>11. ASSUME NEW f \in Executions, NEW rev \in 1..MaxRevision, ReopenExecution(f, rev)
         PROVE  Goal
    BY <1>9, <1>11, ZenonT(60) DEF ReopenExecution
  <1>12. ASSUME NEW batch \in SUBSET evidence, DeleteBatch(batch) PROVE Goal
    <2>1. ASSUME NEW a \in AttemptIds, \E ev \in batch : ev.attempt = a
          PROVE  ~WorkOf(a, e) /\ ~WorkOf(a, e)'
      <3>1. attempt[a] \in AttemptRow /\ Finalized(a)
        BY <2>1 DEF EvidenceIsFinal, TypeOK
      <3>2. attempt'[a].finalizedRevision = attempt[a].finalizedRevision
        BY <1>12, <2>1, <3>1, ExpiredRowLemma, Zenon DEF DeleteBatch
      <3>3. QED
        BY <3>1, <3>2, Zenon DEF WorkOf, Draft, Finalized
    <2>2. Kept
      BY <1>12, <2>1, Zenon DEF DeleteBatch
    <2>3. QED
      BY <1>1, <1>12, <2>2, Zenon DEF DeleteBatch
  <1>13. ASSUME NEW f \in Executions, CreateExecution(f) PROVE Goal
    <2>1. execution'[e] = execution[e]
      BY <1>13, Zenon DEF CreateExecution, TypeOK
    <2>2. QED
      BY <1>1, <1>13, <2>1, Zenon DEF CreateExecution
  <1>14. ASSUME \/ UNCHANGED vars
                \/ \E f \in Executions : GetExecution(f)
                \/ \E b \in Blobs : PutBlob(b) \/ SweepBlob(b)
         PROVE  Goal
    <2>1. UNCHANGED <<execution, attempt>>
      BY <1>14, Zenon DEF vars, GetExecution, PutBlob, SweepBlob
    <2>2. QED
      BY <1>1, <2>1, Zenon
  <1>15. Goal
    BY <1>4, <1>5, <1>7, <1>8, <1>10, <1>11, <1>12, <1>13, <1>14, ZenonT(60) DEF Next
  <1>16. QED
    BY <1>15, Zenon

(* An attempt's revision never goes back, and while it stays the same an   *)
(* unfinished attempt is unchanged.                                        *)
LEMMA AttemptRevisionStep ==
  ASSUME TypeOK, EvidenceMatchesAttempt, EvidenceIsFinal, AttemptStep,
         NEW a \in AttemptIds, attempt[a] # NULL
  PROVE  /\ attempt'[a].revision >= attempt[a].revision
         /\ attempt'[a].revision = attempt[a].revision /\ Draft(a) => attempt'[a] = attempt[a]
  <1>1. attempt[a] \in AttemptRow /\ attempt[a].revision \in Nat
    BY Zenon DEF TypeOK, AttemptRow
  <1>2. CASE UNCHANGED <<attempt, evidence, filed, draftRef>>
    BY <1>1, <1>2
  <1>3. CASE \E b \in AttemptIds : Created(b) \/ Saved(b)
    BY <1>1, <1>3 DEF Created, Saved
  <1>4. CASE \E S \in SUBSET AttemptIds : FinalizedSet(S)
    <2>1. attempt'[a] = attempt[a] \/ attempt'[a].revision = attempt[a].revision + 1
      BY <1>4, Zenon DEF FinalizedSet
    <2>2. QED
      BY <1>1, <2>1
  <1>5. CASE \E batch \in SUBSET evidence : Expired(batch)
    <2>1. \/ attempt'[a] = attempt[a]
          \/ attempt'[a].revision = attempt[a].revision /\ ~Draft(a)
      BY <1>1, <1>5, ExpiredRowLemma DEF Expired, EvidenceIsFinal, Draft
    <2>2. QED
      BY <1>1, <2>1
  <1>6. QED
    BY <1>2, <1>3, <1>4, <1>5, Zenon DEF AttemptStep

(* So a revision that a caller holds keeps identifying what it has seen. *)
LEMMA RevisionIdentifiesWorkStep ==
  (/\ TypeOK /\ TypeOK' /\ ExecutionExists /\ GeneratedIdIsOwn /\ EvidenceMatchesAttempt
   /\ EvidenceIsFinal /\ RevisionIdentifiesWork /\ AttemptStep /\ [Next]_vars)
    => RevisionIdentifiesWork'
  <1> SUFFICES ASSUME TypeOK, TypeOK', ExecutionExists, GeneratedIdIsOwn, EvidenceMatchesAttempt,
                      EvidenceIsFinal, RevisionIdentifiesWork, AttemptStep, [Next]_vars,
                      NEW e \in Executions, view'[e] # NULL
               PROVE  /\ execution'[e] # NULL
                      /\ view'[e].revision <= execution'[e].revision
                      /\ view'[e].revision = execution'[e].revision => view'[e] = Progress(e)'
                      /\ \A d \in view'[e].drafts :
                           /\ attempt'[d.id] # NULL
                           /\ d.revision <= attempt'[d.id].revision
                           /\ d.revision = attempt'[d.id].revision =>
                                Draft(d.id)' /\ d.data = attempt'[d.id].data
    BY Zenon DEF RevisionIdentifiesWork
  <1>1. CASE view'[e] = view[e]
    <2>0. /\ view[e] \in ExecutionView /\ view[e].revision \in Nat
          /\ execution[e] # NULL /\ execution[e].revision \in Nat
          /\ view[e].revision <= execution[e].revision
          /\ view[e].revision = execution[e].revision => view[e] = Progress(e)
      BY <1>1, Zenon DEF RevisionIdentifiesWork, TypeOK, ExecutionView, ExecutionRow
    <2>1. /\ execution'[e] # NULL /\ execution'[e].revision \in Nat
          /\ execution'[e].revision >= execution[e].revision
      BY <2>0, RevisionStep, Zenon DEF TypeOK, ExecutionRow
    <2>2. ASSUME view[e].revision = execution'[e].revision PROVE view[e] = Progress(e)'
      <3>1. execution'[e].revision = execution[e].revision
        BY <2>0, <2>1, <2>2
      <3>2. \A a \in AttemptIds : WorkOf(a, e) \/ WorkOf(a, e)' => attempt'[a] = attempt[a]
        BY <2>0, <3>1, RevisionStep, Zenon
      <3>3. \A a \in AttemptIds : (Draft(a) /\ attempt[a].execution = e)
                                    <=> (Draft(a)' /\ attempt'[a].execution = e)
        BY <3>2, Zenon DEF WorkOf, Draft, Finalized
      <3>4. Progress(e)'.drafts = Progress(e).drafts
        BY <3>2, <3>3, ZenonT(60) DEF Progress, WorkOf
      <3>5. Progress(e)' = Progress(e)
        BY <3>1, <3>4, ZenonT(60) DEF Progress
      <3>6. QED
        BY <2>0, <3>1, <3>5, <2>2, Zenon
    <2>3. ASSUME NEW d \in view[e].drafts
          PROVE  /\ attempt'[d.id] # NULL
                 /\ d.revision <= attempt'[d.id].revision
                 /\ d.revision = attempt'[d.id].revision =>
                      Draft(d.id)' /\ d.data = attempt'[d.id].data
      <3>1. d \in DraftView /\ d.id \in AttemptIds /\ d.revision \in Nat
        BY <2>0, Zenon DEF ExecutionView, DraftView
      <3>2. /\ attempt[d.id] # NULL /\ attempt[d.id].revision \in Nat
            /\ d.revision <= attempt[d.id].revision
            /\ d.revision = attempt[d.id].revision => Draft(d.id) /\ d.data = attempt[d.id].data
        <4>1. /\ attempt[d.id] # NULL /\ d.revision <= attempt[d.id].revision
              /\ d.revision = attempt[d.id].revision => Draft(d.id) /\ d.data = attempt[d.id].data
          BY <1>1, Zenon DEF RevisionIdentifiesWork
        <4>2. attempt[d.id].revision \in Nat
          BY <3>1, <4>1, Zenon DEF TypeOK, AttemptRow
        <4>3. QED
          BY <4>1, <4>2, Zenon
      <3>3. /\ attempt'[d.id] # NULL /\ attempt'[d.id].revision \in Nat
            /\ attempt'[d.id].revision >= attempt[d.id].revision
            /\ attempt'[d.id].revision = attempt[d.id].revision /\ Draft(d.id) =>
                 attempt'[d.id] = attempt[d.id]
        <4>1. attempt'[d.id] # NULL
          BY <3>1, <3>2, AttemptsStay, Zenon
        <4>2. attempt'[d.id].revision \in Nat
          BY <3>1, <4>1, Zenon DEF TypeOK, AttemptRow
        <4>3. QED
          BY <3>1, <3>2, <4>1, <4>2, AttemptRevisionStep, Zenon
      <3>4. QED
        BY <3>1, <3>2, <3>3 DEF Draft, Finalized
    <2>4. QED
      BY <1>1, <2>0, <2>1, <2>2, <2>3
  <1>2. CASE view'[e] # view[e]
    <2>0. view' = view \/ \E f \in Executions : GetExecution(f)
      BY ZenonT(60) DEF Next, vars, CreateExecution, StartExecutionAttempt, CreateAttempt, SaveAttempt,
             FinalizeAttempt, CloseExecution, ReopenExecution, DeleteBatch, PutBlob, SweepBlob
    <2>1. /\ execution[e] # NULL /\ view'[e] = Progress(e)
          /\ UNCHANGED <<execution, attempt>>
      BY <1>2, <2>0, Zenon DEF GetExecution, TypeOK
    <2>2. Progress(e)' = Progress(e) /\ execution[e].revision \in Nat
          /\ view'[e].revision = execution[e].revision
      BY <2>1 DEF Progress, Draft, Finalized, TypeOK, ExecutionRow
    <2>3. ASSUME NEW d \in view'[e].drafts
          PROVE  /\ attempt[d.id] # NULL /\ d.revision = attempt[d.id].revision
                 /\ Draft(d.id) /\ d.data = attempt[d.id].data /\ attempt[d.id].revision \in Nat
      <3>1. PICK a \in AttemptIds :
              /\ Draft(a)
              /\ d = [id |-> a, revision |-> attempt[a].revision, data |-> attempt[a].data]
        BY <2>1, <2>3 DEF Progress
      <3>2. /\ d.id = a /\ d.revision = attempt[a].revision /\ d.data = attempt[a].data
            /\ attempt[a] # NULL
        BY <3>1, Zenon DEF Draft
      <3>3. attempt[a].revision \in Nat
        BY <3>2, Zenon DEF TypeOK, AttemptRow
      <3>4. QED
        BY <3>1, <3>2, <3>3, Zenon
    <2>4. QED
      BY <2>1, <2>2, <2>3 DEF Draft, Finalized
  <1>3. QED
    BY <1>1, <1>2, ZenonT(60)

(***************************************************************************)
(* The inductive invariant and the theorems.                               *)
(***************************************************************************)
(* The initial state satisfies it. *)
LEMMA IInvInit == Init => IInv
  <1> SUFFICES ASSUME Init PROVE IInv
    BY Zenon
  <1>1. TypeOK
    BY PackageAssumption, Zenon DEF Init, TypeOK
  <1>2. \A a \in AttemptIds : attempt[a] = NULL
    BY Zenon DEF Init
  <1>3. ExecutionExists /\ OneSharedDraft /\ ClosedIsComplete
    BY <1>2, Zenon DEF Init, ExecutionExists, OneSharedDraft, DraftsOf, AttemptsOf, ClosedIsComplete
  <1>4. GeneratedIdIsOwn
    BY <1>2, Zenon DEF GeneratedIdIsOwn, GeneratedId, GeneratedIds, AttemptIds
  <1>5. EvidenceMatchesAttempt /\ EvidenceIsFinal /\ PassIsEarned
    BY <1>2, Zenon DEF Init, EvidenceMatchesAttempt, EvidenceIsFinal, PassIsEarned
  <1>6. MentionedIsReferenced /\ ReferencedIsStored
    BY <1>2, Zenon DEF Init, MentionedIsReferenced, ReferencedIsStored, Referenced
  <1>7. RevisionIdentifiesWork
    BY Zenon DEF Init, RevisionIdentifiesWork
  <1>8. QED
    BY <1>1, <1>3, <1>4, <1>5, <1>6, <1>7, Zenon DEF IInv

(* Every step of every operation preserves it. *)
LEMMA IInvStep == IInv /\ [Next]_vars => IInv'
  <1> SUFFICES ASSUME IInv, [Next]_vars PROVE IInv'
    BY Zenon
  <1>1. TypeOK' /\ AttemptStep
    BY TypeStep, AttemptStepLemma, Zenon DEF IInv
  <1>2. EvidenceMatchesAttempt' /\ EvidenceIsFinal'
    BY <1>1, EvidenceStep, Zenon DEF IInv
  <1>3. ExecutionExists' /\ GeneratedIdIsOwn'
    BY <1>1, ExecutionExistsStep, GeneratedIdStep, Zenon DEF IInv
  <1>4. OneSharedDraft' /\ ClosedIsComplete'
    BY <1>1, OneSharedDraftStep, ClosedIsCompleteStep, Zenon DEF IInv
  <1>5. MentionedIsReferenced' /\ ReferencedIsStored' /\ PassIsEarned'
    BY <1>1, MentionedStep, ReferencedIsStoredStep, PassIsEarnedStep, Zenon DEF IInv
  <1>6. RevisionIdentifiesWork'
    BY <1>1, RevisionIdentifiesWorkStep, Zenon DEF IInv
  <1>7. QED
    BY <1>1, <1>2, <1>3, <1>4, <1>5, <1>6, Zenon DEF IInv

(* So it always holds. *)
LEMMA Inductive == Spec => []IInv
  BY IInvInit, IInvStep, PTL DEF Spec

(* Every row keeps its type, also through the chain of finalization,       *)
(* expiry and closure.                                                     *)
THEOREM TypeCorrect == Spec => []TypeOK
  <1>1. IInv => TypeOK
    BY Zenon DEF IInv
  <1>2. QED
    BY <1>1, Inductive, PTL

(* StartExecutionAttempt: concurrent starters of a procedure share one     *)
(* draft, for every set of ids they may choose.                            *)
THEOREM SharedDraftIsUnique == Spec => []OneSharedDraft
  <1>1. IInv => OneSharedDraft
    BY Zenon DEF IInv
  <1>2. QED
    BY <1>1, Inductive, PTL

(* SetExecutionClosed: a closed execution has no unfinished work and an    *)
(* attempt for every procedure.                                            *)
THEOREM ClosureIsComplete == Spec => []ClosedIsComplete
  <1>1. IInv => ClosedIsComplete
    BY Zenon DEF IInv
  <1>2. QED
    BY <1>1, Inductive, PTL

(* FinalizeAttempt: every finalized attempt was filed exactly once, and    *)
(* its evidence says what it says until it expires.                        *)
THEOREM EvidenceExactlyOnce == Spec => []EvidenceMatchesAttempt
  <1>1. IInv => EvidenceMatchesAttempt
    BY Zenon DEF IInv
  <1>2. QED
    BY <1>1, Inductive, PTL

(* The sweep never deletes an object that a package, a draft or an         *)
(* evidence record refers to.                                              *)
THEOREM SweepIsSafe == Spec => []AttachmentsKept
  <1>1. IInv => AttachmentsKept
    BY Zenon DEF IInv, AttachmentsKept
  <1>2. QED
    BY <1>1, Inductive, PTL

(* No PASS is filed that a tester has not earned, least of all by closing  *)
(* a campaign.                                                             *)
THEOREM PassNeverInvented == Spec => []PassIsEarned
  <1>1. IInv => PassIsEarned
    BY Zenon DEF IInv
  <1>2. QED
    BY <1>1, Inductive, PTL

(* GetExecution and the revision checks of SaveAttempt and                 *)
(* SetExecutionClosed: whoever holds a current revision has seen all the   *)
(* work it stands for.                                                     *)
THEOREM CurrentRevisionHasSeenAll == Spec => []RevisionIdentifiesWork
  <1>1. IInv => RevisionIdentifiesWork
    BY Zenon DEF IInv
  <1>2. QED
    BY <1>1, Inductive, PTL

(* A finalized attempt changes only by the expiry of its evidence. *)
THEOREM FinalizedStaysFinal == Spec => FinalizedIsImmutable
  <1>1. IInv /\ [Next]_vars =>
          [\A a \in AttemptIds : attempt[a] # NULL /\ Finalized(a) =>
             \/ attempt'[a] = attempt[a]
             \/ /\ \E ev \in evidence \ evidence' : ev.attempt = a
                /\ attempt'[a] = [attempt[a] EXCEPT !.data = Cleared, !.lastOp = NULL,
                                                    !.lastBase = NULL, !.evidence = NULL]]_vars
    <2> SUFFICES ASSUME IInv, [Next]_vars, NEW a \in AttemptIds, attempt[a] # NULL, Finalized(a)
                 PROVE  \/ attempt'[a] = attempt[a]
                        \/ /\ \E ev \in evidence \ evidence' : ev.attempt = a
                           /\ attempt'[a] = [attempt[a] EXCEPT !.data = Cleared, !.lastOp = NULL,
                                                               !.lastBase = NULL, !.evidence = NULL]
      BY ZenonT(60)
    <2>1. AttemptStep
      BY AttemptStepLemma, Zenon DEF IInv
    <2>2. \/ attempt'[a] = attempt[a]
          \/ /\ \E ev \in evidence \ evidence' : ev.attempt = a
             /\ attempt'[a] = ExpiredRow(attempt[a])
      <3>1. CASE \E b \in AttemptIds : Created(b) \/ Saved(b)
        BY <3>1, ZenonT(60) DEF Created, Saved, Draft
      <3>2. CASE \E S \in SUBSET AttemptIds : FinalizedSet(S)
        BY <3>2, Zenon DEF FinalizedSet, Draft
      <3>3. CASE \E batch \in SUBSET evidence : Expired(batch)
        BY <3>3, Zenon DEF Expired
      <3>4. QED
        BY <2>1, <3>1, <3>2, <3>3, Zenon DEF AttemptStep
    <2>3. QED
      BY <2>2, ZenonT(60) DEF ExpiredRow
  <1>2. QED
    BY <1>1, Inductive, PTL DEF Spec, FinalizedIsImmutable

(* finalizeAttemptTx and closeUnfinished keep what a tester has entered.   *)
THEOREM FinalizingKeepsWork == Spec => EnteredWorkSurvives
  <1>1. IInv /\ [Next]_vars =>
          [\A a \in AttemptIds : Draft(a) /\ attempt'[a].finalizedRevision # NULL =>
             WorkKept(attempt[a].data, attempt'[a].data)]_vars
    <2> SUFFICES ASSUME IInv, [Next]_vars, NEW a \in AttemptIds, Draft(a),
                        attempt'[a].finalizedRevision # NULL
                 PROVE  WorkKept(attempt[a].data, attempt'[a].data)
      BY ZenonT(60)
    <2>1. AttemptStep
      BY AttemptStepLemma, Zenon DEF IInv
    <2>2. CASE UNCHANGED <<attempt, evidence, filed, draftRef>>
      BY <2>2, Zenon DEF Draft, Finalized
    <2>3. CASE \E b \in AttemptIds : Created(b) \/ Saved(b)
      BY <2>3, Zenon DEF Created, Saved, Draft, Finalized
    <2>4. CASE \E S \in SUBSET AttemptIds : FinalizedSet(S)
      BY <2>4, ZenonT(60) DEF FinalizedSet, Draft, Finalized
    <2>5. CASE \E batch \in SUBSET evidence : Expired(batch)
      BY <2>5, Zenon DEF Expired, IInv, EvidenceIsFinal, Draft, Finalized
    <2>6. QED
      BY <2>1, <2>2, <2>3, <2>4, <2>5, Zenon DEF AttemptStep
  <1>2. QED
    BY <1>1, Inductive, PTL DEF Spec, EnteredWorkSurvives, WorkKept

=============================================================================
