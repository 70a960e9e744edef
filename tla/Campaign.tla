------------------------------- MODULE Campaign -------------------------------
(***************************************************************************)
(* Shared campaign executions, their attempts, and the evidence they       *)
(* produce.  Every operation of the campaign store is one atomic action:   *)
(* what a caller may rely on.  CampaignTx takes the same operations apart  *)
(* into the statements and locks of their database transactions and        *)
(* implements this module.                                                 *)
(*                                                                         *)
(* A request that only reports an earlier result or a conflict changes no  *)
(* row, and is a stuttering step here.                                     *)
(***************************************************************************)
EXTENDS CampaignDraft, Naturals

CONSTANTS
  Executions,     \* campaign_execution ids
  Procs,          \* procedure references of the imported package
  Actors,         \* authenticated subjects
  ClientIds,      \* attempt ids chosen by clients
  Ops,            \* operation ids of saves
  Edits,          \* draft contents a client may submit
  FinishTimes,    \* completion times a finalization may carry
  PackageAssets,  \* digests held by campaign_blob_ref
  DefaultMedia,   \* digests mentioned by the package's default metadata
  DefaultInputs,  \* inputs the procedure declares a default for
  MaxRevision,    \* bound on every revision counter
  NULL            \* SQL NULL

(* uuid.New() gives the attempt that closure creates for an untouched      *)
(* procedure.  A procedure has at most one, so the pair can be its name.   *)
GeneratedId(e, p) == <<e, p>>
GeneratedIds == Executions \X Procs
AttemptIds == ClientIds \cup GeneratedIds

(* validateDefaults does not reserve photo_uris, so a package may mention  *)
(* blobs in its defaults; that they are among its own assets is assumed.   *)
ASSUME PackageAssumption ==
  /\ Edits \subseteq DraftData
  /\ PackageAssets \subseteq Blobs
  /\ DefaultMedia \subseteq PackageAssets
  /\ DefaultInputs \subseteq Inputs

ASSUME IdAssumption == ClientIds \cap GeneratedIds = {}

ASSUME BoundAssumption == MaxRevision \in Nat

VARIABLES
  execution,  \* campaign_execution rows
  attempt,    \* campaign_attempt rows
  draftRef,   \* campaign_draft_blob_ref, by attempt
  evidence,   \* evidence rows of finalized attempts, with their blob_ref rows
  event,      \* campaign_execution_event rows
  stored,     \* objects in the blob store
  filed,      \* history: evidence rows ever inserted, by attempt
  view        \* the last GetExecution response somebody acts on

vars == <<execution, attempt, draftRef, evidence, event, stored, filed, view>>

ExecutionRow == [revision: Nat, closed: BOOLEAN]

AttemptRow ==
  [execution: Executions \cup {NULL}, ref: Procs, owner: Actors,
   data: DraftData, revision: Nat,
   lastOp: Ops \cup {NULL}, lastBase: Nat \cup {NULL},
   finalizedRevision: Nat \cup {NULL}, finishedAt: FinishTimes \cup {NULL},
   evidence: (AttemptIds \X Nat) \cup {NULL}]

EvidenceRow ==
  [id: AttemptIds \X Nat, attempt: AttemptIds, data: DraftData,
   refs: SUBSET Blobs, closure: Nat \cup {NULL}]

EventRow == [execution: Executions, revision: Nat, action: {"closed", "reopened"}]

DraftView == [id: AttemptIds, revision: Nat, data: DraftData]
ExecutionView == [revision: Nat, drafts: SUBSET DraftView]

(* NULL is none of the values a column can have, and no row. *)
ASSUME NullAssumption ==
  /\ NULL \notin Executions \cup Ops \cup FinishTimes \cup Nat
  /\ NULL \notin AttemptIds \X Nat
  /\ NULL \notin AttemptRow \cup ExecutionRow \cup ExecutionView

(***************************************************************************)
(* State functions.                                                        *)
(***************************************************************************)
Finalized(a) == attempt[a].finalizedRevision # NULL

Draft(a) == attempt[a] # NULL /\ ~Finalized(a)

(* The attempts of a procedure in an execution, and its unfinished ones. *)
AttemptsOf(e, p) ==
  {a \in AttemptIds : attempt[a] # NULL /\ attempt[a].execution = e /\ attempt[a].ref = p}

DraftsOf(e, p) == {a \in AttemptsOf(e, p) : ~Finalized(a)}

(* owner=$2 OR execution_id IS NOT NULL *)
Visible(a, u) == attempt[a].owner = u \/ attempt[a].execution # NULL

ExecutionOpen(a) ==
  attempt[a].execution # NULL => ~execution[attempt[a].execution].closed

(* The digests the sweep's reachability query finds. *)
Referenced ==
  PackageAssets \cup (UNION {draftRef[a] : a \in AttemptIds})
                \cup (UNION {ev.refs : ev \in evidence})

(* executionProgress: one entry per procedure, with its draft. *)
Progress(e) ==
  [revision |-> execution[e].revision,
   drafts |-> {[id |-> a, revision |-> attempt[a].revision, data |-> attempt[a].data] :
                a \in {b \in AttemptIds : Draft(b) /\ attempt[b].execution = e}}]

NewAttempt(e, p, u, d) ==
  [execution |-> e, ref |-> p, owner |-> u, data |-> d, revision |-> 1,
   lastOp |-> NULL, lastBase |-> NULL, finalizedRevision |-> NULL,
   finishedAt |-> NULL, evidence |-> NULL]

(* Mutant: the caller forgets to advance the execution's revision. *)
MutantUntouched(e) == UNCHANGED execution

touchExecution(e) ==
  /\ e # NULL => execution[e].revision < MaxRevision
  /\ execution' = IF e = NULL THEN execution
                  ELSE [execution EXCEPT ![e].revision = @ + 1]

(* finalizeAttemptTx: the row of a finalized attempt and its evidence. *)
EvidenceId(a) == <<a, filed[a] + 1>>

(* Mutant: the attempt gets no link to its evidence. *)
MutantUnlinked(row, a, t) ==
  [row EXCEPT !.finalizedRevision = row.revision, !.revision = @ + 1, !.finishedAt = t]

FinalRow(row, a, t) ==
  [row EXCEPT !.finalizedRevision = row.revision, !.revision = @ + 1,
              !.finishedAt = t, !.evidence = EvidenceId(a)]

EvidenceOf(row, a, closure) ==
  [id |-> EvidenceId(a), attempt |-> a, data |-> row.data,
   refs |-> row.data.media \cup PackageAssets, closure |-> closure]

(***************************************************************************)
(* Actions.                                                                *)
(***************************************************************************)
Init ==
  /\ execution = [e \in Executions |-> NULL]
  /\ attempt = [a \in AttemptIds |-> NULL]
  /\ draftRef = [a \in AttemptIds |-> {}]
  /\ evidence = {}
  /\ event = {}
  /\ stored = PackageAssets
  /\ filed = [a \in AttemptIds |-> 0]
  /\ view = [e \in Executions |-> NULL]

(* ON CONFLICT(id) DO NOTHING: a repeated creation changes nothing. *)
CreateExecution(e) ==
  /\ execution[e] = NULL
  /\ execution' = [execution EXCEPT ![e] = [revision |-> 1, closed |-> FALSE]]
  /\ UNCHANGED <<attempt, draftRef, evidence, event, stored, filed, view>>

(* Mutant: a start does not look for the procedure's draft. *)
MutantSecondDraft(e, a, p, u) ==
  /\ execution[e] # NULL
  /\ attempt[a] = NULL
  /\ ~execution[e].closed
  /\ attempt' = [attempt EXCEPT ![a] =
                   NewAttempt(e, p, u, InitialDraft("given", DefaultInputs, DefaultMedia))]
  /\ touchExecution(e)
  /\ UNCHANGED <<draftRef, evidence, event, stored, filed, view>>

(* A known id and an existing draft are returned as they are. *)
StartExecutionAttempt(e, a, p, u) ==
  /\ execution[e] # NULL
  /\ attempt[a] = NULL
  /\ ~execution[e].closed
  /\ DraftsOf(e, p) = {}
  /\ attempt' = [attempt EXCEPT ![a] =
                   NewAttempt(e, p, u, InitialDraft("given", DefaultInputs, DefaultMedia))]
  /\ touchExecution(e)
  /\ UNCHANGED <<draftRef, evidence, event, stored, filed, view>>

(* LatestSoftwareContext: the software context of an edited attempt of the *)
(* same owner; which one is the latest is left open.                       *)
PriorContexts(u) ==
  LET edited == {c \in AttemptIds : attempt[c] # NULL /\ attempt[c].owner = u
                                     /\ attempt[c].revision > 1}
      contexts == {attempt[c].data.ctx : c \in edited} \ {""}
  IN  IF contexts = {} THEN {""} ELSE contexts

(* A personal attempt: no execution, visible to its owner only. *)
CreateAttempt(a, p, u, ctx) ==
  /\ attempt[a] = NULL
  /\ attempt' = [attempt EXCEPT ![a] =
                   NewAttempt(NULL, p, u, InitialDraft(ctx, DefaultInputs, DefaultMedia))]
  /\ UNCHANGED <<execution, draftRef, evidence, event, stored, filed, view>>

(* The same operation id is a retry or a conflict; neither changes a row. *)
SaveAttempt(a, u, rev, op, d) ==
  /\ attempt[a] # NULL
  /\ ExecutionOpen(a)
  /\ Visible(a, u)
  /\ ~Finalized(a)
  /\ attempt[a].lastOp # op
  /\ attempt[a].revision = rev
  /\ d.media \subseteq stored
  /\ rev < MaxRevision
  /\ draftRef' = [draftRef EXCEPT ![a] = d.media]
  /\ attempt' = [attempt EXCEPT ![a] =
                   [@ EXCEPT !.data = d, !.revision = rev + 1,
                             !.lastOp = op, !.lastBase = rev]]
  /\ touchExecution(attempt[a].execution)
  /\ UNCHANGED <<evidence, event, stored, filed, view>>

FinalizeAttempt(a, u, rev, t) ==
  /\ attempt[a] # NULL
  /\ Visible(a, u)
  /\ ~Finalized(a)
  /\ attempt[a].revision = rev
  /\ ExecutionOpen(a)
  /\ ValidateFinalization(attempt[a].data)
  /\ EvidenceCreate(attempt[a].data)
  /\ attempt' = [attempt EXCEPT ![a] = FinalRow(attempt[a], a, t)]
  /\ evidence' = evidence \cup {EvidenceOf(attempt[a], a, NULL)}
  /\ filed' = [filed EXCEPT ![a] = @ + 1]
  /\ draftRef' = [draftRef EXCEPT ![a] = {}]
  /\ touchExecution(attempt[a].execution)
  /\ UNCHANGED <<event, stored, view>>

(* Mutant: closure passes over untouched procedures. *)
MutantDraftsOnly(e) == {a \in AttemptIds : \E p \in Procs : a \in DraftsOf(e, p)}

(* closeUnfinished: the attempts a closure disposes of, and the row each   *)
(* of them has when finalizeAttemptTx is called on it.                     *)
Unfinished(e) ==
  {a \in AttemptIds : \E p \in Procs : \/ a \in DraftsOf(e, p)
                                       \/ a = GeneratedId(e, p) /\ AttemptsOf(e, p) = {}}

SkipRow(row) == [row EXCEPT !.data = SkipUnfinished(row.data)]

(* It is stored without metadata, which attemptEvidence reads as the       *)
(* package's defaults: DefaultMedia is what it mentions in effect.         *)
GeneratedRow(e, p, u) ==
  NewAttempt(e, p, u, InitialDraft("given", DefaultInputs, DefaultMedia))

SkippedRow(e, a, u) ==
  SkipRow(IF attempt[a] # NULL THEN attempt[a] ELSE GeneratedRow(e, a[2], u))

SetLifecycle(e, closed) ==
  /\ execution' = [execution EXCEPT ![e] = [revision |-> @.revision + 1, closed |-> closed]]
  /\ event' = event \cup {[execution |-> e, revision |-> execution[e].revision + 1,
                            action |-> IF closed THEN "closed" ELSE "reopened"]}

(* One draft that is no valid evidence aborts the whole closure. *)
CloseExecution(e, rev, u, t) ==
  /\ execution[e] # NULL
  /\ execution[e].revision = rev
  /\ ~execution[e].closed
  /\ rev < MaxRevision
  /\ \A a \in Unfinished(e) : EvidenceCreate(SkippedRow(e, a, u).data)
  /\ attempt' = [a \in AttemptIds |->
                   IF a \in Unfinished(e) THEN FinalRow(SkippedRow(e, a, u), a, t)
                                          ELSE attempt[a]]
  /\ evidence' = evidence \cup {EvidenceOf(SkippedRow(e, a, u), a, rev + 1) : a \in Unfinished(e)}
  /\ filed' = [a \in AttemptIds |-> IF a \in Unfinished(e) THEN filed[a] + 1 ELSE filed[a]]
  /\ draftRef' = [a \in AttemptIds |-> IF a \in Unfinished(e) THEN {} ELSE draftRef[a]]
  /\ SetLifecycle(e, TRUE)
  /\ UNCHANGED <<stored, view>>

ReopenExecution(e, rev) ==
  /\ execution[e] # NULL
  /\ execution[e].revision = rev
  /\ execution[e].closed
  /\ rev < MaxRevision
  /\ SetLifecycle(e, FALSE)
  /\ UNCHANGED <<attempt, draftRef, evidence, stored, filed, view>>

(* Repeatable read: revision and progress are one snapshot. *)
GetExecution(e) ==
  /\ execution[e] # NULL
  /\ view' = [view EXCEPT ![e] = Progress(e)]
  /\ UNCHANGED <<execution, attempt, draftRef, evidence, event, stored, filed>>

(* Mutants: the trigger writes NULL for the data; forgets the completion   *)
(* time.                                                                   *)
MutantNullData(row) ==
  [row EXCEPT !.data = NULL, !.lastOp = NULL, !.lastBase = NULL, !.evidence = NULL]

MutantLoseTime(row) ==
  [row EXCEPT !.data = Cleared, !.lastOp = NULL, !.lastBase = NULL, !.evidence = NULL,
              !.finishedAt = NULL]

(* Retention deletes a batch of evidence rows; the trigger clears each     *)
(* attempt, the foreign key its link, the cascade the blob references.     *)
ExpiredRow(row) ==
  [row EXCEPT !.data = Cleared, !.lastOp = NULL, !.lastBase = NULL, !.evidence = NULL]

DeleteBatch(batch) ==
  /\ evidence' = evidence \ batch
  /\ attempt' = [a \in AttemptIds |->
                   IF \E ev \in batch : ev.attempt = a THEN ExpiredRow(attempt[a])
                                                        ELSE attempt[a]]
  /\ UNCHANGED <<execution, draftRef, event, stored, filed, view>>

PutBlob(b) ==
  /\ stored' = stored \cup {b}
  /\ UNCHANGED <<execution, attempt, draftRef, evidence, event, filed, view>>

(* Mutant: the reachability query leaves out the drafts. *)
MutantSweepDrafts(b) ==
  /\ b \in stored \ (PackageAssets \cup UNION {ev.refs : ev \in evidence})
  /\ stored' = stored \ {b}
  /\ UNCHANGED <<execution, attempt, draftRef, evidence, event, filed, view>>

(* The sweep deletes an old object that nothing references. *)
SweepBlob(b) ==
  /\ b \in stored \ Referenced
  /\ stored' = stored \ {b}
  /\ UNCHANGED <<execution, attempt, draftRef, evidence, event, filed, view>>

Next ==
  \/ \E e \in Executions : CreateExecution(e) \/ GetExecution(e)
  \/ \E e \in Executions, a \in ClientIds, p \in Procs, u \in Actors :
       StartExecutionAttempt(e, a, p, u)
  \/ \E a \in ClientIds, p \in Procs, u \in Actors : \E ctx \in PriorContexts(u) :
       CreateAttempt(a, p, u, ctx)
  \/ \E a \in AttemptIds, u \in Actors, rev \in 1..MaxRevision, op \in Ops, d \in Edits :
       SaveAttempt(a, u, rev, op, d)
  \/ \E a \in AttemptIds, u \in Actors, rev \in 1..MaxRevision, t \in FinishTimes :
       FinalizeAttempt(a, u, rev, t)
  \/ \E e \in Executions, rev \in 1..MaxRevision, u \in Actors, t \in FinishTimes :
       CloseExecution(e, rev, u, t)
  \/ \E e \in Executions, rev \in 1..MaxRevision : ReopenExecution(e, rev)
  \/ \E batch \in (SUBSET evidence) \ {{}} : DeleteBatch(batch)
  \/ \E b \in Blobs : PutBlob(b) \/ SweepBlob(b)

Spec == Init /\ [][Next]_vars

(***************************************************************************)
(* Properties.                                                             *)
(***************************************************************************)
(* Every column has its type. *)
TypeOK ==
  /\ execution \in [Executions -> ExecutionRow \cup {NULL}]
  /\ attempt \in [AttemptIds -> AttemptRow \cup {NULL}]
  /\ draftRef \in [AttemptIds -> SUBSET Blobs]
  /\ evidence \subseteq EvidenceRow
  /\ event \subseteq EventRow
  /\ stored \subseteq Blobs
  /\ filed \in [AttemptIds -> Nat]
  /\ view \in [Executions -> ExecutionView \cup {NULL}]

(* campaign_attempt_one_shared_draft: a procedure of an execution has at   *)
(* most one unfinished attempt, whatever ids its starters choose.          *)
OneSharedDraft ==
  \A e \in Executions, p \in Procs : \A a, b \in DraftsOf(e, p) : a = b

(* SetExecutionClosed: while an execution is closed no work is unfinished  *)
(* and every procedure of the package has a finalized attempt.             *)
ClosedIsComplete ==
  \A e \in Executions : execution[e] # NULL /\ execution[e].closed =>
    \A p \in Procs : AttemptsOf(e, p) # {} /\ DraftsOf(e, p) = {}

(* FinalizeAttempt: an attempt yields evidence exactly once, in the step   *)
(* that finalizes it, also when the record has expired since; until then   *)
(* attempt and evidence hold the same data and link to each other.         *)
EvidenceMatchesAttempt ==
  /\ \A a \in AttemptIds :
       filed[a] = IF attempt[a] # NULL /\ Finalized(a) THEN 1 ELSE 0
  /\ \A ev \in evidence : /\ attempt[ev.attempt] # NULL
                          /\ attempt[ev.attempt].evidence = ev.id
                          /\ attempt[ev.attempt].data = ev.data
  /\ \A a \in AttemptIds : attempt[a] # NULL /\ Finalized(a) =>
       \/ \E ev \in evidence : ev.attempt = a
       \/ attempt[a].evidence = NULL /\ attempt[a].data = Cleared

(* A PASS in evidence was assessed by a tester with every check passed and *)
(* every required input present; what a closure generates is SKIPPED.      *)
PassIsEarned ==
  \A ev \in evidence :
    /\ ev.closure # NULL => ev.data.result = "SKIPPED"
    /\ ev.data.result = "PASS" => /\ \A c \in Checks : ev.data.checks[c] = "PASS"
                                  /\ missingAnswers(ev.data) = {}

(* GetExecution and the revision checks: a caller that holds the current   *)
(* execution revision has seen every unfinished attempt as it is, so a     *)
(* closure it confirms skips no work it has not seen; and one that holds   *)
(* the current revision of an attempt has seen its data, so a save it      *)
(* makes overwrites nothing unseen.                                        *)
RevisionIdentifiesWork ==
  \A e \in Executions : view[e] # NULL =>
    /\ execution[e] # NULL
    /\ view[e].revision <= execution[e].revision
    /\ view[e].revision = execution[e].revision => view[e] = Progress(e)
    /\ \A d \in view[e].drafts :
         /\ attempt[d.id] # NULL
         /\ d.revision <= attempt[d.id].revision
         /\ d.revision = attempt[d.id].revision => Draft(d.id) /\ d.data = attempt[d.id].data

(* replaceDraftBlobRefs, finalizeAttemptTx and the sweep: an object that a *)
(* draft, an evidence record or the package refers to is never deleted.    *)
ReferencedIsStored == Referenced \subseteq stored

(* What a saved draft and live evidence mention, the sweep can see. *)
MentionedIsReferenced ==
  /\ \A a \in AttemptIds : attempt[a] # NULL /\ ~Finalized(a) =>
       attempt[a].data.media \subseteq draftRef[a] \cup PackageAssets
  /\ \A ev \in evidence : ev.data.media \subseteq ev.refs

(* An attachment outlives everything that mentions it, whatever was saved, *)
(* finalized, closed or swept in between.                                  *)
AttachmentsKept == MentionedIsReferenced /\ ReferencedIsStored

(* A finalized attempt is immutable: only the expiry of its evidence       *)
(* clears it, and nothing turns it back into a draft.                      *)
FinalizedIsImmutable ==
  [][\A a \in AttemptIds : attempt[a] # NULL /\ Finalized(a) =>
       \/ attempt'[a] = attempt[a]
       \/ /\ \E ev \in evidence \ evidence' : ev.attempt = a
          /\ attempt'[a] = [attempt[a] EXCEPT !.data = Cleared, !.lastOp = NULL,
                                              !.lastBase = NULL, !.evidence = NULL]]_vars

(* Finalizing, by a tester or by closure, keeps what was entered: software *)
(* context, inputs, attachments and the outcome of every performed check.  *)
EnteredWorkSurvives ==
  [][\A a \in AttemptIds : Draft(a) /\ attempt'[a].finalizedRevision # NULL =>
       LET old == attempt[a].data
           new == attempt'[a].data
       IN  /\ new.ctx = old.ctx /\ new.inputs = old.inputs /\ new.media = old.media
           /\ \A c \in Checks : old.checks[c] # "" => new.checks[c] = old.checks[c]]_vars
=============================================================================
