---------------------------- MODULE CampaignOffline ----------------------------
(***************************************************************************)
(* A prepared campaign on a device: the journal that keeps a tester's      *)
(* answers while there is no connection, its synchronization with the      *)
(* campaign store, and the resolution of conflicts.  The store is the      *)
(* module Campaign, on which colleagues work at the same time.             *)
(*                                                                         *)
(* Web Locks let one operation run at a time.  One that sends requests     *)
(* holds the lock over several steps: a request is carried out in one and  *)
(* its answer is written to the journal in the next, so that a pass cut    *)
(* off in between stands for a lost answer, a failed write and a closed    *)
(* page alike.  Nothing but the journal, the archive and the prepared      *)
(* snapshot survives that.  The device has one tab open.                   *)
(***************************************************************************)
EXTENDS Campaign, Sequences, FiniteSets

CONSTANTS
  Run,          \* the prepared execution
  Tester,       \* the principal whose partition of the storage this is
  LocalIds,     \* attempt ids the device draws
  LocalFinish,  \* the completion time the tester enters
  LocalEdits,   \* what the tester fills in
  MaxFaults,    \* bound on passes that are cut off
  MaxEvents     \* bound on closures and reopenings

ASSUME OfflineAssumption ==
  /\ Run \in Executions /\ Tester \in Actors /\ LocalIds \subseteq ClientIds
  /\ LocalFinish \in FinishTimes /\ LocalEdits \subseteq Edits
  /\ MaxFaults \in Nat /\ MaxEvents \in Nat

VARIABLES
  prepared,   \* the "campaign" item: NULL, or whether its snapshot is closed
  journal,    \* the "attempt" items
  archive,    \* operations held by "archive" items
  page,       \* the local attempt in the page's form
  lock,       \* the operation that holds the lock
  faults,     \* passes cut off so far
  minted,     \* history: random ids drawn so far
  saved,      \* history: saves acknowledged on the device and not replaced by a newer one
  delivered,  \* history: saves the store has accepted from the device
  displaced,  \* history: saves in entries that another entry's resolution replaced
  mine,       \* history: revisions of attempts that the device has brought about
  touched     \* history: attempts a colleague has changed

deviceVars == <<prepared, journal, archive, page, lock, faults, minted, saved, delivered,
                displaced, mine, touched>>
offlineVars == <<vars, deviceVars>>

(***************************************************************************)
(* Journal entries.  basis, in an operation, and data, in a completion,    *)
(* are history: the server revision that the form was built on, and the    *)
(* answers that were completed.                                            *)
(***************************************************************************)
Copy(a) == [revision |-> attempt[a].revision, finalized |-> Finalized(a), data |-> attempt[a].data]

Synced(p, row, version) ==
  [ref |-> p, row |-> row, create |-> FALSE, ops |-> <<>>, completion |-> NULL,
   error |-> FALSE, conflict |-> NULL, version |-> version]

Pending(en) == en.create \/ en.ops # <<>> \/ en.completion # NULL
CreateFailed(en) == en.create /\ en.error /\ en.conflict = NULL
LastOp(en) == en.ops[Len(en.ops)]
LocalData(en) == IF en.ops = <<>> THEN en.row.data ELSE LastOp(en).data
OpsIn(en) == {en.ops[i].op : i \in DOMAIN en.ops}
Entries == {a \in AttemptIds : journal[a] # NULL}
PendingEntries == {a \in Entries : Pending(journal[a])}

Shown(a, en) ==
  [id |-> a, version |-> en.version,
   basis |-> IF en.ops = <<>> THEN en.row.revision ELSE LastOp(en).basis]

Free == [pc |-> "free", queue |-> {}, id |-> NULL, entry |-> NULL, reply |-> NULL, show |-> FALSE]

(* remember: work that waits for synchronization is never replaced. *)
Remembered(a) ==
  IF a \in PendingEntries THEN journal[a]
  ELSE Synced(attempt[a].ref, Copy(a),
              IF a \notin Entries THEN 0
              ELSE journal[a].version + IF journal[a].row.revision # attempt[a].revision THEN 1 ELSE 0)

DeviceInit ==
  /\ prepared = NULL
  /\ journal = [a \in AttemptIds |-> NULL]
  /\ archive = {}
  /\ page = NULL
  /\ lock = Free
  /\ faults = 0
  /\ minted = {} /\ saved = {} /\ delivered = {} /\ displaced = {} /\ mine = {} /\ touched = {}

OfflineInit == Init /\ DeviceInit

Editable == prepared # NULL /\ ~prepared.closed /\ lock = Free

(***************************************************************************)
(* Preparation, and what the page does to the journal.                     *)
(***************************************************************************)
(* The drafts and latest results of the execution as it is read first;     *)
(* which finalized attempt is the latest is left open.                     *)
BeginPrepare ==
  /\ lock = Free
  /\ execution[Run] # NULL
  /\ \E latest \in [Procs -> AttemptIds \cup {NULL}] :
       /\ \A p \in Procs :
            LET results == AttemptsOf(Run, p) \ DraftsOf(Run, p)
            IN  IF results = {} THEN latest[p] = NULL ELSE latest[p] \in results
       /\ lock' = [Free EXCEPT !.pc = "prepare", !.reply = [closed |-> execution[Run].closed],
                               !.queue = ({latest[p] : p \in Procs} \ {NULL})
                                         \cup UNION {DraftsOf(Run, p) : p \in Procs}]
  /\ UNCHANGED <<vars, prepared, journal, archive, page, faults, minted, saved, delivered,
                 displaced, mine, touched>>

(* The readiness marker is written last. *)
Prepare ==
  /\ lock.pc = "prepare"
  /\ \/ /\ lock.queue = {}
        /\ prepared' = lock.reply
        /\ lock' = Free
        /\ UNCHANGED journal
     \/ \E a \in lock.queue :
        /\ journal' = [journal EXCEPT ![a] = Remembered(a)]
        /\ lock' = [lock EXCEPT !.queue = @ \ {a}]
        /\ UNCHANGED prepared
  /\ UNCHANGED <<vars, archive, page, faults, minted, saved, delivered, displaced, mine, touched>>

(* updateExecution *)
Refresh ==
  /\ prepared # NULL /\ lock = Free
  /\ prepared' = [closed |-> execution[Run].closed]
  /\ UNCHANGED <<vars, journal, archive, page, lock, faults, minted, saved, delivered,
                 displaced, mine, touched>>

(* resume, and synchronized after a pass: pending work and, without a      *)
(* connection, any local copy is shown as it is, also while a pass runs;   *)
(* otherwise the server's row is fetched and remembered.                   *)
Resume(a) ==
  /\ prepared # NULL
  /\ \/ a \in Entries /\ UNCHANGED journal
     \/ /\ lock = Free
        /\ a \notin PendingEntries
        /\ attempt[a] # NULL /\ attempt[a].execution = Run
        /\ journal' = [journal EXCEPT ![a] = Remembered(a)]
  /\ page' = Shown(a, journal'[a])
  /\ UNCHANGED <<vars, prepared, archive, lock, faults, minted, saved, delivered, displaced,
                 mine, touched>>

(* A procedure without local work gets an attempt under a random id. *)
StartLocal(p, a) ==
  /\ Editable
  /\ a \notin minted
  /\ \A b \in Entries : journal[b].ref = p => journal[b].row.finalized /\ journal[b].completion = NULL
  /\ LET row == [revision |-> 0, finalized |-> FALSE,
                 data |-> InitialDraft("given", DefaultInputs, DefaultMedia)]
     IN  journal' = [journal EXCEPT ![a] = [Synced(p, row, 0) EXCEPT !.create = TRUE]]
  /\ page' = Shown(a, journal'[a])
  /\ minted' = minted \cup {a}
  /\ UNCHANGED <<vars, prepared, archive, lock, faults, saved, delivered, displaced, mine, touched>>

(* Mutant: an operation that may have been sent is replaced. *)
MutantReplaceLast(ops) == ops # <<>>

(* An operation with a revision may have reached the server. *)
Replaceable(ops) == ops # <<>> /\ ops[Len(ops)].revision = 0

(* What was entered before a closure was noticed can still be saved. *)
SaveLocal(op, d) ==
  /\ prepared # NULL /\ lock = Free
  /\ page # NULL /\ journal[page.id] # NULL
  /\ op \notin minted
  /\ LET en == journal[page.id]
         kept == IF Replaceable(en.ops) THEN SubSeq(en.ops, 1, Len(en.ops) - 1) ELSE en.ops
         new == [op |-> op, revision |-> 0, data |-> d, basis |-> page.basis]
     IN  /\ en.version = page.version
         /\ en.completion = NULL /\ ~en.row.finalized
         /\ journal' = [journal EXCEPT ![page.id] =
                          [en EXCEPT !.ops = Append(kept, new), !.version = @ + 1]]
         /\ saved' = (saved \ (OpsIn(en) \ {kept[i].op : i \in DOMAIN kept})) \cup {op}
  /\ page' = Shown(page.id, journal'[page.id])
  /\ minted' = minted \cup {op}
  /\ UNCHANGED <<vars, prepared, archive, lock, faults, delivered, displaced, mine, touched>>

(* finalize in the page: only answers that can be finalized are completed. *)
CompleteLocal ==
  /\ Editable
  /\ page # NULL /\ journal[page.id] # NULL
  /\ LET en == journal[page.id]
     IN  /\ en.version = page.version
         /\ ~en.row.finalized /\ en.completion = NULL
         /\ ValidateFinalization(LocalData(en))
         /\ journal' = [journal EXCEPT ![page.id] =
                          [en EXCEPT !.completion = [revision |-> 0, data |-> LocalData(en)],
                                     !.version = @ + 1]]
  /\ page' = Shown(page.id, journal'[page.id])
  /\ UNCHANGED <<vars, prepared, archive, lock, faults, minted, saved, delivered, displaced,
                 mine, touched>>

(***************************************************************************)
(* Synchronization.                                                        *)
(***************************************************************************)
(* The next request for an entry; one with an error waits for the tester. *)
Stage(en) ==
  CASE en.error -> "next"
    [] en.create -> "create"
    [] en.ops # <<>> -> "mark"
    [] en.completion # NULL -> "complete"
    [] OTHER -> "next"

(* The entry is written to the journal, then its next request is made. *)
Put(en) ==
  /\ journal' = [journal EXCEPT ![lock.id] = en]
  /\ lock' = [lock EXCEPT !.pc = Stage(en), !.entry = en, !.reply = NULL]

Unserved == <<vars, prepared, archive, page, faults, minted, saved, delivered, displaced, mine, touched>>

BeginSync ==
  /\ prepared # NULL /\ lock = Free
  /\ PendingEntries # {}
  /\ lock' = [Free EXCEPT !.pc = "next", !.queue = PendingEntries]
  /\ UNCHANGED <<journal, Unserved>>

NextEntry ==
  /\ lock.pc = "next"
  /\ \/ /\ lock.queue = {}
        /\ lock' = Free
        /\ page' = IF lock.show THEN Shown(lock.id, journal[lock.id]) ELSE page
     \/ \E a \in lock.queue :
        /\ lock' = [lock EXCEPT !.pc = Stage(journal[a]), !.queue = @ \ {a}, !.id = a,
                                !.entry = journal[a]]
        /\ UNCHANGED page
  /\ UNCHANGED <<vars, journal, prepared, archive, faults, minted, saved, delivered, displaced,
                 mine, touched>>

Answer(label, reply) == lock' = [lock EXCEPT !.pc = label, !.reply = reply]
RowReply(a, row) == [status |-> 200, id |-> a, row |-> row]
Refusal(status) == [status |-> status, id |-> NULL, row |-> NULL]

(* POST /campaign-attempts *)
SendCreate ==
  /\ lock.pc = "create"
  /\ LET a == lock.id
         drafts == DraftsOf(Run, lock.entry.ref)
     IN  \/ /\ StartExecutionAttempt(Run, a, lock.entry.ref, Tester)
            /\ Answer("created", RowReply(a, [revision |-> 1, finalized |-> FALSE,
                                              data |-> attempt'[a].data]))
            /\ mine' = mine \cup {<<a, 1>>}
         \/ /\ attempt[a] # NULL
            /\ Answer("created", RowReply(a, Copy(a)))
            /\ UNCHANGED <<vars, mine>>
         \/ /\ attempt[a] = NULL /\ execution[Run].closed
            /\ Answer("created", Refusal(409))
            /\ UNCHANGED <<vars, mine>>
         \/ /\ attempt[a] = NULL /\ ~execution[Run].closed
            /\ \E b \in drafts : Answer("created", RowReply(b, Copy(b)))
            /\ UNCHANGED <<vars, mine>>
  /\ UNCHANGED <<prepared, journal, archive, page, faults, minted, saved, delivered, displaced, touched>>

(* Mutant: a replayed creation takes whatever revision the row has now. *)
MutantRebase(reply) == reply.id = lock.id /\ ~reply.row.finalized

(* A replay answers with the current row, which others may have edited. *)
FreshlyCreated(reply) ==
  reply.id = lock.id /\ reply.row.revision = 1 /\ ~reply.row.finalized

Created ==
  /\ lock.pc = "created"
  /\ LET en == lock.entry
         r == lock.reply
     IN  \/ /\ r.status = 200 /\ FreshlyCreated(r)
            /\ Put([en EXCEPT !.row = r.row, !.create = FALSE])
         \/ /\ r.status = 200 /\ ~FreshlyCreated(r)
            /\ Put([en EXCEPT !.error = TRUE, !.conflict = [id |-> r.id, revision |-> r.row.revision]])
         \/ /\ r.status # 200
            /\ lock' = [lock EXCEPT !.pc = "refused"]
            /\ UNCHANGED journal
  /\ UNCHANGED Unserved

(* The operation's revision is on disk before it is sent. *)
MarkOperation ==
  /\ lock.pc = "mark"
  /\ LET en == [lock.entry EXCEPT !.ops[1].revision = IF @ = 0 THEN lock.entry.row.revision ELSE @]
     IN  /\ journal' = [journal EXCEPT ![lock.id] = en]
         /\ lock' = [lock EXCEPT !.pc = "upload", !.entry = en]
  /\ UNCHANGED Unserved

(* Attachments go again, in case the sweep has removed them meanwhile. *)
UploadAttachments ==
  /\ lock.pc = "upload"
  /\ stored' = stored \cup lock.entry.ops[1].data.media
  /\ lock' = [lock EXCEPT !.pc = "put"]
  /\ UNCHANGED <<execution, attempt, draftRef, evidence, event, filed, view, journal, prepared,
                 archive, page, faults, minted, saved, delivered, displaced, mine, touched>>

(* PUT /campaign-attempts/{id}; the checks in the order of SaveAttempt. *)
SaveRefusal(a, o) ==
  CASE execution[Run].closed \/ Finalized(a) -> 409
    [] attempt[a].lastOp = o.op -> IF attempt[a].lastBase = o.revision /\ attempt[a].data = o.data
                                   THEN 200 ELSE 409
    [] attempt[a].revision # o.revision -> 409
    [] ~(o.data.media \subseteq stored) -> 422
    [] OTHER -> 0

SendSave ==
  /\ lock.pc = "put"
  /\ LET a == lock.id
         o == lock.entry.ops[1]
     IN  \/ /\ SaveAttempt(a, Tester, o.revision, o.op, o.data)
            /\ Answer("saved", RowReply(a, [revision |-> o.revision + 1, finalized |-> FALSE,
                                            data |-> o.data]))
            /\ mine' = mine \cup {<<a, o.revision + 1>>}
            /\ delivered' = delivered \cup {o.op}
         \/ /\ SaveRefusal(a, o) # 0
            /\ Answer("saved", IF SaveRefusal(a, o) = 200 THEN RowReply(a, Copy(a))
                               ELSE Refusal(SaveRefusal(a, o)))
            /\ UNCHANGED <<vars, mine, delivered>>
  /\ UNCHANGED <<prepared, journal, archive, page, faults, minted, saved, displaced, touched>>

Saved ==
  /\ lock.pc = "saved"
  /\ IF lock.reply.status = 200
     THEN Put([lock.entry EXCEPT !.row = lock.reply.row, !.ops = Tail(@)])
     ELSE lock' = [lock EXCEPT !.pc = "refused"] /\ UNCHANGED journal
  /\ UNCHANGED Unserved

MarkCompletion ==
  /\ lock.pc = "complete"
  /\ LET en == [lock.entry EXCEPT !.completion.revision = IF @ = 0 THEN lock.entry.row.revision ELSE @]
     IN  /\ journal' = [journal EXCEPT ![lock.id] = en]
         /\ lock' = [lock EXCEPT !.pc = "finalize", !.entry = en]
  /\ UNCHANGED Unserved

(* POST /campaign-attempts/{id}/finalize *)
FinalizeRefusal(a, rev) ==
  CASE Finalized(a) -> IF attempt[a].finalizedRevision = rev /\ attempt[a].finishedAt = LocalFinish
                       THEN 200 ELSE 409
    [] attempt[a].revision # rev \/ execution[Run].closed -> 409
    [] ~(ValidateFinalization(attempt[a].data) /\ EvidenceCreate(attempt[a].data)) -> 422
    [] OTHER -> 0

SendFinalize ==
  /\ lock.pc = "finalize"
  /\ LET a == lock.id
         rev == lock.entry.completion.revision
     IN  \/ /\ FinalizeAttempt(a, Tester, rev, LocalFinish)
            /\ Answer("finalized", RowReply(a, [revision |-> rev + 1, finalized |-> TRUE,
                                                data |-> attempt[a].data]))
            /\ mine' = mine \cup {<<a, rev + 1>>}
         \/ /\ FinalizeRefusal(a, rev) # 0
            /\ Answer("finalized", IF FinalizeRefusal(a, rev) = 200 THEN RowReply(a, Copy(a))
                                   ELSE Refusal(FinalizeRefusal(a, rev)))
            /\ UNCHANGED <<vars, mine>>
  /\ UNCHANGED <<prepared, journal, archive, page, faults, minted, saved, delivered, displaced, touched>>

Completed ==
  /\ lock.pc = "finalized"
  /\ IF lock.reply.status = 200
     THEN Put([lock.entry EXCEPT !.row = lock.reply.row, !.completion = NULL])
     ELSE lock' = [lock EXCEPT !.pc = "refused"] /\ UNCHANGED journal
  /\ UNCHANGED Unserved

(* Mutant: a refusal is retried like a lost connection. *)
MutantRetryRefused ==
  /\ lock.pc = "refused"
  /\ lock' = [lock EXCEPT !.pc = "next"]
  /\ UNCHANGED <<journal, Unserved>>

(* A refusal stops the entry; after a conflict the server's version is     *)
(* fetched, which may fail.                                                *)
Refused ==
  /\ lock.pc = "refused"
  /\ LET a == lock.id
         found == lock.reply.status = 409 /\ attempt[a] # NULL
         theirs == [id |-> a, revision |-> attempt[a].revision]
     IN  \/ /\ Put([lock.entry EXCEPT !.error = TRUE, !.conflict = IF found THEN theirs ELSE NULL])
            /\ UNCHANGED faults
         \/ /\ found /\ faults < MaxFaults
            /\ faults' = faults + 1
            /\ Put([lock.entry EXCEPT !.error = TRUE])
  /\ UNCHANGED <<vars, prepared, archive, page, minted, saved, delivered, displaced, mine, touched>>

(***************************************************************************)
(* Resolution of a refused entry by the tester.                            *)
(***************************************************************************)
OnError(en) == page # NULL /\ lock = Free /\ en # NULL /\ en.error

(* reloadConflict for an entry that is on the server. *)
ReloadConflict ==
  /\ page # NULL
  /\ LET en == journal[page.id]
         a == IF en.conflict # NULL THEN en.conflict.id ELSE page.id
     IN  /\ OnError(en) /\ ~CreateFailed(en)
         /\ attempt[a] # NULL
         /\ journal' = [journal EXCEPT ![page.id].conflict =
                          [id |-> a, revision |-> attempt[a].revision]]
  /\ page' = Shown(page.id, journal'[page.id])
  /\ UNCHANGED <<vars, prepared, archive, lock, faults, minted, saved, delivered, displaced,
                 mine, touched>>

RetryCreate ==
  /\ page # NULL
  /\ LET en == journal[page.id]
         again == [en EXCEPT !.error = FALSE, !.version = @ + 1]
     IN  /\ OnError(en) /\ CreateFailed(en)
         /\ ~execution[Run].closed
         /\ journal' = [journal EXCEPT ![page.id] = again]
         /\ lock' = [Free EXCEPT !.pc = Stage(again), !.id = page.id, !.entry = again, !.show = TRUE]
  /\ UNCHANGED Unserved

ArchiveFailedCreate ==
  /\ page # NULL
  /\ LET en == journal[page.id]
     IN  /\ OnError(en) /\ CreateFailed(en)
         /\ lock' = [Free EXCEPT !.pc = "archive", !.id = page.id]
  /\ UNCHANGED <<journal, Unserved>>

(* resolve: the server's row is fetched and compared with the conflict.    *)
(* The tester's answers become one operation on that revision.             *)
BeginResolve(op) ==
  /\ page # NULL
  /\ LET en == journal[page.id]
         a == IF en.conflict # NULL THEN en.conflict.id ELSE page.id
         base == Synced(en.ref, Copy(a), en.version + 1)
         mineAgain == [op |-> op, revision |-> attempt[a].revision, data |-> LocalData(en),
                       basis |-> attempt[a].revision]
     IN  /\ OnError(en) /\ ~CreateFailed(en)
         /\ attempt[a] # NULL
         /\ \/ /\ op = NULL
               /\ lock' = [Free EXCEPT !.pc = "archive", !.id = page.id, !.entry = base, !.reply = a]
               /\ UNCHANGED minted
            \/ /\ op # NULL /\ op \notin minted
               /\ ~Finalized(a)
               /\ en.conflict # NULL => en.conflict.revision = attempt[a].revision
               /\ lock' = [Free EXCEPT !.pc = "archive", !.id = page.id, !.reply = a,
                                       !.entry = [base EXCEPT !.ops = <<mineAgain>>]]
               /\ minted' = minted \cup {op}
  /\ UNCHANGED <<vars, prepared, journal, archive, page, faults, saved, delivered, displaced, mine, touched>>

(* Mutant: nothing is archived. *)
MutantNoArchive ==
  /\ lock.pc = "archive"
  /\ lock' = [lock EXCEPT !.pc = IF lock.entry = NULL THEN "remove" ELSE "replace"]
  /\ UNCHANGED <<journal, Unserved>>

Archive ==
  /\ lock.pc = "archive"
  /\ archive' = archive \cup OpsIn(journal[lock.id])
  /\ lock' = [lock EXCEPT !.pc = IF lock.entry = NULL THEN "remove" ELSE "replace"]
  /\ UNCHANGED <<vars, prepared, journal, page, faults, minted, saved, delivered, displaced, mine, touched>>

(* The replacement goes under the server row's id, whatever is there. *)
Replace ==
  /\ lock.pc = "replace"
  /\ LET a == lock.reply
     IN  /\ journal' = [journal EXCEPT ![a] = lock.entry]
         /\ saved' = saved \cup OpsIn(lock.entry)
         /\ displaced' = displaced \cup (IF a # lock.id /\ a \in Entries THEN OpsIn(journal[a]) ELSE {})
         /\ lock' = IF a = lock.id THEN Free ELSE [lock EXCEPT !.pc = "remove"]
         /\ page' = IF a = lock.id THEN Shown(a, lock.entry) ELSE page
  /\ UNCHANGED <<vars, prepared, archive, faults, minted, delivered, mine, touched>>

Remove ==
  /\ lock.pc = "remove"
  /\ journal' = [journal EXCEPT ![lock.id] = NULL]
  /\ lock' = Free
  /\ page' = IF lock.entry = NULL THEN NULL ELSE Shown(lock.reply, lock.entry)
  /\ UNCHANGED <<vars, prepared, archive, faults, minted, saved, delivered, displaced, mine, touched>>

(***************************************************************************)
(* Faults, colleagues and the next-state relation.                         *)
(***************************************************************************)
(* A lost connection, a 5xx, 401, 408 or 429 answer, a failed write, or a  *)
(* page that is closed: what is not on disk is gone.                       *)
Abandon ==
  /\ lock # Free
  /\ faults < MaxFaults
  /\ faults' = faults + 1
  /\ lock' = Free
  /\ page' \in {page, NULL}
  /\ UNCHANGED <<vars, prepared, journal, archive, minted, saved, delivered, displaced, mine, touched>>

Colleagues == Actors \ {Tester}

(* Colleagues at work on the store.  An object uploaded in this pass is    *)
(* younger than the sweep's grace period.                                  *)
Colleague ==
  /\ \/ CreateExecution(Run) /\ UNCHANGED <<touched, minted>>
     \/ \E a \in ClientIds \ LocalIds, p \in Procs, u \in Colleagues :
          StartExecutionAttempt(Run, a, p, u) /\ touched' = touched \cup {a} /\ UNCHANGED minted
     \/ \E a \in AttemptIds, u \in Colleagues, op \in Ops \ minted, d \in Edits :
          /\ attempt[a] # NULL
          /\ SaveAttempt(a, u, attempt[a].revision, op, d)
          /\ touched' = touched \cup {a} /\ minted' = minted \cup {op}
     \/ \E a \in AttemptIds, u \in Colleagues, t \in FinishTimes \ {LocalFinish} :
          /\ attempt[a] # NULL
          /\ FinalizeAttempt(a, u, attempt[a].revision, t)
          /\ touched' = touched \cup {a} /\ UNCHANGED minted
     \/ \E u \in Colleagues, t \in FinishTimes \ {LocalFinish} :
          /\ execution[Run] # NULL /\ Cardinality(event) < MaxEvents
          /\ CloseExecution(Run, execution[Run].revision, u, t)
          /\ touched' = touched \cup Unfinished(Run) /\ UNCHANGED minted
     \/ /\ execution[Run] # NULL /\ Cardinality(event) < MaxEvents
        /\ ReopenExecution(Run, execution[Run].revision)
        /\ UNCHANGED <<touched, minted>>
     \/ \E b \in Blobs : lock.pc # "put" /\ SweepBlob(b) /\ UNCHANGED <<touched, minted>>
  /\ UNCHANGED <<prepared, journal, archive, page, lock, faults, saved, delivered, displaced, mine>>

PassStep ==
  \/ Prepare \/ NextEntry \/ SendCreate \/ Created
  \/ MarkOperation \/ UploadAttachments \/ SendSave \/ Saved
  \/ MarkCompletion \/ SendFinalize \/ Completed \/ Refused
  \/ Archive \/ Replace \/ Remove

TesterStep ==
  \/ BeginPrepare \/ Refresh \/ CompleteLocal
  \/ \E a \in AttemptIds : Resume(a)
  \/ \E p \in Procs, a \in LocalIds : StartLocal(p, a)
  \/ \E op \in Ops, d \in LocalEdits : SaveLocal(op, d)
  \/ ReloadConflict \/ RetryCreate \/ ArchiveFailedCreate
  \/ \E op \in Ops \cup {NULL} : BeginResolve(op)

OfflineNext == Colleague \/ TesterStep \/ BeginSync \/ PassStep \/ Abandon

OfflineSpec == OfflineInit /\ [][OfflineNext]_offlineVars

(* The workspace synchronizes every 15 seconds while it is open and        *)
(* connected, and requests are answered or time out.  Web Locks are        *)
(* granted in the order they are asked for, so that a synchronization      *)
(* that finds the lock free again and again gets it.                       *)
OfflineFairness == WF_offlineVars(PassStep) /\ SF_offlineVars(BeginSync)

(***************************************************************************)
(* Properties.                                                             *)
(***************************************************************************)
JournalOps == UNION {OpsIn(journal[a]) : a \in Entries}

(* resolve, archiveFailedCreate and synchronize: answers that were saved   *)
(* on the device are in the journal, in the archive or on the server, or   *)
(* a newer save has replaced them, wherever a pass is cut off.  Not        *)
(* covered: an entry that is overwritten by the resolution of another one. *)
AnswersKept == saved \subseteq JournalOps \cup archive \cup delivered \cup displaced

(* The same without the exception: "Preserve the local copy in an archive  *)
(* before accepting remote data or replacing remote answers."              *)
AnswersNeverReplaced == saved \subseteq JournalOps \cup archive \cup delivered

(* saveEntry, synchronize and SaveAttempt: a save that the store accepts   *)
(* from the device replaces no answers that the tester's form was not      *)
(* built on, except what the device itself had sent before.                *)
NoBlindOverwrite ==
  lock.pc = "put" /\ delivered' # delivered =>
    LET o == lock.entry.ops[1]
    IN  \A r \in (o.basis + 1)..o.revision : <<lock.id, r>> \in mine

(* An attempt is finalized from the device with the answers that the       *)
(* tester completed, however long the completion waited.                   *)
FinalizedAsCompleted ==
  lock.pc = "finalize" /\ mine' # mine =>
    attempt[lock.id].data = lock.entry.completion.data

(* What the device sends does to the server what the tester meant by it,   *)
(* also when it is replayed after a lost answer among colleagues' edits.   *)
SentAsMeant == [][NoBlindOverwrite /\ FinalizedAsCompleted]_offlineVars

(* Lost answers, replays and restarts never put the device in conflict     *)
(* with itself: an entry needs attention only when a colleague has changed *)
(* its attempt, has started the procedure, or has closed the campaign.     *)
NoSelfConflict ==
  \A a \in Entries : journal[a].error =>
    \/ a \in touched
    \/ event # {}
    \/ journal[a].conflict # NULL /\ journal[a].conflict.id \in touched

(* Every pending entry is synchronized in the end or waits for the tester. *)
WorkSettles == []<>(\A a \in PendingEntries : journal[a].error)
=============================================================================
