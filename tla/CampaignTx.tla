------------------------------ MODULE CampaignTx ------------------------------
(***************************************************************************)
(* The campaign store's database transactions, statement by statement:     *)
(* which lock each takes, what it reads under it, and when its writes      *)
(* become visible.  READ COMMITTED: a statement sees what is committed     *)
(* when it runs, and a transaction's own writes appear when it commits.    *)
(* Objects in the blob store are not transactional.                        *)
(*                                                                         *)
(* The order of locks is the code's: the execution row, the shared sweep   *)
(* lock, attempt rows.  Retention's DELETE locks attempt rows only, by the *)
(* expiry trigger, and the sweep only the exclusive sweep lock.            *)
(*                                                                         *)
(* Evidence rows need no lock of their own here: each is deleted together  *)
(* with the update of the one attempt that links to it.                    *)
(***************************************************************************)
EXTENDS Campaign, Sequences, FiniteSets

CONSTANTS
  Txs,         \* connections that run transactions concurrently
  Scenarios,   \* the procedures, in the package's order
  Requests     \* the requests clients make (and repeat, at any time)

StartRequest == [kind: {"start"}, execution: Executions, id: ClientIds, ref: Procs, actor: Actors]
SaveRequest == [kind: {"save"}, id: AttemptIds, actor: Actors, revision: 1..MaxRevision,
                op: Ops, data: Edits]
FinalizeRequest == [kind: {"finalize"}, id: AttemptIds, actor: Actors,
                    revision: 1..MaxRevision, finished: FinishTimes]
StateRequest == [kind: {"state"}, execution: Executions, actor: Actors,
                 revision: 1..MaxRevision, closed: BOOLEAN, finished: FinishTimes]
BackgroundRequest == [kind: {"sweep", "retain"}]
GetRequest == [kind: {"get"}, execution: Executions]
CreateRequest == [kind: {"create"}, id: ClientIds, ref: Procs, actor: Actors]
PutRequest == [kind: {"put"}, digest: Blobs]

(* Requests that are one statement, or read one snapshot, and the others. *)
SimpleRequest == GetRequest \cup CreateRequest \cup PutRequest
TxRequest == StartRequest \cup SaveRequest \cup FinalizeRequest \cup StateRequest
               \cup BackgroundRequest

ASSUME RequestAssumption ==
  /\ Requests \subseteq SimpleRequest \cup TxRequest
  /\ Scenarios \in Seq(Procs) \ {<<>>}
  /\ Procs = {Scenarios[i] : i \in DOMAIN Scenarios}

VARIABLES
  pc,     \* the statement a transaction is about to execute
  req,    \* the request it serves
  locks,  \* the locks it holds until it ends
  seen,   \* the execution row it has read
  todo,   \* what a loop has still to visit: procedures or evidence rows
  work    \* the attempt or evidence rows it will write, the digests it will delete

txvars == <<pc, req, locks, seen, todo, work>>
allvars == <<vars, txvars>>

ExecutionLock(e) == <<"execution", e>>
AttemptLock(a) == <<"attempt", a>>
SharedSweepLock == <<"sweep", "shared">>
SweepLock == <<"sweep", "exclusive">>

Conflicting(l) ==
  CASE l = SharedSweepLock -> {SweepLock}
    [] l = SweepLock -> {SweepLock, SharedSweepLock}
    [] OTHER -> {l}

Holders(l) == {y \in Txs : locks[y] \cap Conflicting(l) # {}}

CanLock(x, l) == Holders(l) \subseteq {x}

(* Mutant: an error path that neither commits nor rolls back. *)
MutantKeepLocks(x) ==
  /\ pc' = [pc EXCEPT ![x] = "idle"]
  /\ req' = [req EXCEPT ![x] = NULL]
  /\ seen' = [seen EXCEPT ![x] = NULL]
  /\ todo' = [todo EXCEPT ![x] = <<>>]
  /\ work' = [work EXCEPT ![x] = {}]
  /\ UNCHANGED locks

(* Commit and rollback both release every lock. *)
End(x) ==
  /\ pc' = [pc EXCEPT ![x] = "idle"]
  /\ req' = [req EXCEPT ![x] = NULL]
  /\ locks' = [locks EXCEPT ![x] = {}]
  /\ seen' = [seen EXCEPT ![x] = NULL]
  /\ todo' = [todo EXCEPT ![x] = <<>>]
  /\ work' = [work EXCEPT ![x] = {}]

Goto(x, label) == pc' = [pc EXCEPT ![x] = label]

Lock(x, l) == locks' = [locks EXCEPT ![x] = @ \cup {l}]

TxInit ==
  /\ Init
  /\ pc = [x \in Txs |-> "idle"]
  /\ req = [x \in Txs |-> NULL]
  /\ locks = [x \in Txs |-> {}]
  /\ seen = [x \in Txs |-> NULL]
  /\ todo = [x \in Txs |-> <<>>]
  /\ work = [x \in Txs |-> {}]

(***************************************************************************)
(* Steps shared by the request kinds.                                      *)
(***************************************************************************)
FirstStatement(r) ==
  CASE r.kind \in {"start", "save", "finalize", "state"} -> "execution"
    [] r.kind = "sweep" -> "list"
    [] r.kind = "retain" -> "select"

Begin(x, r) ==
  /\ pc[x] = "idle"
  /\ Goto(x, FirstStatement(r))
  /\ req' = [req EXCEPT ![x] = r]
  /\ UNCHANGED <<vars, locks, seen, todo, work>>

(* The execution a request locks; NULL for a personal attempt. *)
TargetExecution(r) ==
  IF r.kind \in {"start", "state"} THEN r.execution ELSE attempt[r.id].execution

(* No such row: the request ends with an error. *)
NoTarget(r) ==
  IF r.kind \in {"start", "state"} THEN execution[r.execution] = NULL ELSE attempt[r.id] = NULL

(* What is refused on the execution row alone.  The last disjunct is the   *)
(* bound on revisions.                                                     *)
RefusedByExecution(r, row) ==
  \/ r.kind = "save" /\ row.closed
  \/ r.kind = "state" /\ (row.revision # r.revision \/ row.closed = r.closed)
  \/ row.revision >= MaxRevision

AfterExecution(r) ==
  CASE r.kind = "start" -> "find"
    [] r.kind \in {"save", "finalize"} -> "sweeplock"
    [] r.kind = "state" -> IF r.closed THEN "sweeplock" ELSE "commit"

(* Mutant: save and finalize lock the attempt before its execution. *)
MutantAttemptFirst(x) ==
  /\ pc[x] = "execution"
  /\ LET r == req[x] IN
     \/ NoTarget(r) /\ End(x)
     \/ /\ ~NoTarget(r) /\ r.kind \in {"save", "finalize"} /\ AttemptLock(r.id) \notin locks[x]
        /\ CanLock(x, AttemptLock(r.id))
        /\ Lock(x, AttemptLock(r.id))
        /\ UNCHANGED <<pc, req, seen, todo, work>>
     \/ /\ ~NoTarget(r)
        /\ r.kind \in {"save", "finalize"} => AttemptLock(r.id) \in locks[x]
        /\ TargetExecution(r) # NULL
        /\ CanLock(x, ExecutionLock(TargetExecution(r)))
        /\ IF RefusedByExecution(r, execution[TargetExecution(r)]) THEN End(x)
           ELSE /\ Lock(x, ExecutionLock(TargetExecution(r)))
                /\ seen' = [seen EXCEPT ![x] = execution[TargetExecution(r)]]
                /\ Goto(x, AfterExecution(r))
                /\ UNCHANGED <<req, todo, work>>
  /\ UNCHANGED vars

(* SELECT ... FROM campaign_execution WHERE id=$1 FOR UPDATE *)
LockExecution(x) ==
  /\ pc[x] = "execution"
  /\ LET r == req[x] IN
     \/ NoTarget(r) /\ End(x)
     \/ /\ ~NoTarget(r) /\ TargetExecution(r) = NULL
        /\ Goto(x, "sweeplock")
        /\ UNCHANGED <<req, locks, seen, todo, work>>
     \/ /\ ~NoTarget(r) /\ TargetExecution(r) # NULL
        /\ CanLock(x, ExecutionLock(TargetExecution(r)))
        /\ IF RefusedByExecution(r, execution[TargetExecution(r)]) THEN End(x)
           ELSE /\ Lock(x, ExecutionLock(TargetExecution(r)))
                /\ seen' = [seen EXCEPT ![x] = execution[TargetExecution(r)]]
                /\ Goto(x, AfterExecution(r))
                /\ UNCHANGED <<req, todo, work>>
  /\ UNCHANGED vars

(* Mutant: the shared sweep lock is not taken. *)
MutantNoSweepLock(x) ==
  /\ pc[x] = "sweeplock"
  /\ Goto(x, IF req[x].kind = "state" THEN "scan" ELSE "attempt")
  /\ todo' = [todo EXCEPT ![x] = IF req[x].kind = "state" THEN Scenarios ELSE <<>>]
  /\ UNCHANGED <<vars, req, locks, seen, work>>

(* pg_advisory_xact_lock_shared(campaignSweepLock) *)
LockSweepShared(x) ==
  /\ pc[x] = "sweeplock"
  /\ CanLock(x, SharedSweepLock)
  /\ Lock(x, SharedSweepLock)
  /\ Goto(x, IF req[x].kind = "state" THEN "scan" ELSE "attempt")
  /\ todo' = [todo EXCEPT ![x] = IF req[x].kind = "state" THEN Scenarios ELSE <<>>]
  /\ UNCHANGED <<vars, req, seen, work>>

(***************************************************************************)
(* StartExecutionAttempt.                                                  *)
(***************************************************************************)
(* Mutant: a start does not look for the procedure's draft. *)
MutantBlindStart(x) ==
  /\ pc[x] = "find"
  /\ IF attempt[req[x].id] # NULL \/ seen[x].closed THEN End(x)
     ELSE Goto(x, "commit") /\ UNCHANGED <<req, locks, seen, todo, work>>
  /\ UNCHANGED vars

FindPrior(x) ==
  /\ pc[x] = "find"
  /\ LET r == req[x] IN
     IF attempt[r.id] # NULL \/ seen[x].closed \/ DraftsOf(r.execution, r.ref) # {}
     THEN End(x)
     ELSE Goto(x, "commit") /\ UNCHANGED <<req, locks, seen, todo, work>>
  /\ UNCHANGED vars

(* The id may have been taken by another execution meanwhile: the primary  *)
(* key refuses the insert.                                                 *)
CommitStart(x) ==
  /\ pc[x] = "commit" /\ req[x].kind = "start"
  /\ LET r == req[x] IN
     IF attempt[r.id] # NULL THEN UNCHANGED vars
     ELSE /\ attempt' = [attempt EXCEPT ![r.id] = NewAttempt(r.execution, r.ref, r.actor,
                           InitialDraft("given", DefaultInputs, DefaultMedia))]
          /\ touchExecution(r.execution)
          /\ UNCHANGED <<draftRef, evidence, event, stored, filed, view>>
  /\ End(x)

(***************************************************************************)
(* SaveAttempt and FinalizeAttempt.                                        *)
(***************************************************************************)
SaveRefused(r) ==
  \/ ~Visible(r.id, r.actor)
  \/ Finalized(r.id)
  \/ attempt[r.id].lastOp = r.op
  \/ attempt[r.id].revision # r.revision
  \/ r.revision >= MaxRevision

FinalizeRefused(r, row) ==
  \/ ~Visible(r.id, r.actor)
  \/ Finalized(r.id)
  \/ attempt[r.id].revision # r.revision
  \/ row # NULL /\ row.closed
  \/ ~ValidateFinalization(attempt[r.id].data)
  \/ ~EvidenceCreate(attempt[r.id].data)

(* SELECT ... FROM campaign_attempt WHERE id=$1 ... FOR UPDATE *)
LockAttempt(x) ==
  /\ pc[x] = "attempt"
  /\ LET r == req[x] IN
     /\ Visible(r.id, r.actor) => CanLock(x, AttemptLock(r.id))
     /\ IF \/ r.kind = "save" /\ SaveRefused(r)
           \/ r.kind = "finalize" /\ FinalizeRefused(r, seen[x])
        THEN End(x)
        ELSE /\ Lock(x, AttemptLock(r.id))
             /\ Goto(x, IF r.kind = "save" THEN "stat" ELSE "commit")
             /\ work' = [work EXCEPT ![x] = {[id |-> r.id, row |-> attempt[r.id]]}]
             /\ UNCHANGED <<req, seen, todo>>
  /\ UNCHANGED vars

(* replaceDraftBlobRefs asks the blob store for every digest. *)
StatBlobs(x) ==
  /\ pc[x] = "stat"
  /\ IF req[x].data.media \subseteq stored
     THEN Goto(x, "commit") /\ UNCHANGED <<req, locks, seen, todo, work>>
     ELSE End(x)
  /\ UNCHANGED vars

(* revision=revision+1 is evaluated on the row as it is. *)
CommitSave(x) ==
  /\ pc[x] = "commit" /\ req[x].kind = "save"
  /\ LET r == req[x] IN
     /\ draftRef' = [draftRef EXCEPT ![r.id] = r.data.media]
     /\ attempt' = [attempt EXCEPT ![r.id] =
                      [attempt[r.id] EXCEPT !.data = r.data, !.revision = attempt[r.id].revision + 1,
                                            !.lastOp = r.op, !.lastBase = r.revision]]
     /\ touchExecution(attempt[r.id].execution)
  /\ End(x)
  /\ UNCHANGED <<evidence, event, stored, filed, view>>

(* finalizeAttemptTx: evidence from the row as read, columns of the row as *)
(* it is.                                                                  *)
CommitFinalize(x) ==
  /\ pc[x] = "commit" /\ req[x].kind = "finalize"
  /\ \E w \in work[x] :
     /\ attempt' = [attempt EXCEPT ![w.id] = FinalRow(attempt[w.id], w.id, req[x].finished)]
     /\ evidence' = evidence \cup {EvidenceOf(w.row, w.id, NULL)}
     /\ filed' = [filed EXCEPT ![w.id] = @ + 1]
     /\ draftRef' = [draftRef EXCEPT ![w.id] = {}]
     /\ touchExecution(attempt[w.id].execution)
  /\ End(x)
  /\ UNCHANGED <<event, stored, view>>

(***************************************************************************)
(* SetExecutionClosed.                                                     *)
(***************************************************************************)
(* ORDER BY (finalized_at IS NULL) DESC, created_at DESC: the draft if     *)
(* there is one.  Of several finalized attempts any one stands for the     *)
(* newest: the scan only locks it and goes on.                             *)
LatestOf(e, p) == IF DraftsOf(e, p) # {} THEN DraftsOf(e, p) ELSE AttemptsOf(e, p)

(* The rows found for one procedure join the work of the closure, unless   *)
(* one is no valid evidence, which ends the whole transaction.             *)
ScanNext(x, newLocks, rows) ==
  IF \E w \in rows : ~EvidenceCreate(w.row.data) THEN End(x)
  ELSE /\ locks' = [locks EXCEPT ![x] = @ \cup newLocks]
       /\ work' = [work EXCEPT ![x] = @ \cup rows]
       /\ todo' = [todo EXCEPT ![x] = Tail(@)]
       /\ Goto(x, IF Len(todo[x]) = 1 THEN "commit" ELSE "scan")
       /\ UNCHANGED <<req, seen>>

ScanScenario(x) ==
  /\ pc[x] = "scan"
  /\ LET e == req[x].execution
         p == Head(todo[x])
     IN \/ /\ AttemptsOf(e, p) = {}
           /\ ScanNext(x, {}, {[id |-> GeneratedId(e, p),
                                row |-> SkipRow(GeneratedRow(e, p, req[x].actor))]})
        \/ \E a \in LatestOf(e, p) :
           /\ CanLock(x, AttemptLock(a))
           /\ ScanNext(x, {AttemptLock(a)},
                       IF Finalized(a) THEN {} ELSE {[id |-> a, row |-> SkipRow(attempt[a])]})
  /\ UNCHANGED vars

(* The loop's writes and the lifecycle change become visible together. *)
CommitState(x) ==
  /\ pc[x] = "commit" /\ req[x].kind = "state"
  /\ LET r == req[x]
         ids == {w.id : w \in work[x]}
         rowOf(a) == (CHOOSE w \in work[x] : w.id = a).row
     IN /\ attempt' = [a \in AttemptIds |->
                         IF a \in ids THEN FinalRow(rowOf(a), a, r.finished) ELSE attempt[a]]
        /\ evidence' = evidence \cup {EvidenceOf(w.row, w.id, seen[x].revision + 1) : w \in work[x]}
        /\ filed' = [a \in AttemptIds |-> IF a \in ids THEN filed[a] + 1 ELSE filed[a]]
        /\ draftRef' = [a \in AttemptIds |-> IF a \in ids THEN {} ELSE draftRef[a]]
        /\ SetLifecycle(r.execution, r.closed)
  /\ End(x)
  /\ UNCHANGED <<stored, view>>

(***************************************************************************)
(* The retention worker: the blob sweep and the deletion of evidence.      *)
(***************************************************************************)
(* The objects older than the grace period. *)
ListBlobs(x) ==
  /\ pc[x] = "list"
  /\ \E batch \in SUBSET stored : work' = [work EXCEPT ![x] = batch]
  /\ Goto(x, "exclusive")
  /\ UNCHANGED <<vars, req, locks, seen, todo>>

(* pg_advisory_xact_lock(campaignSweepLock) *)
LockSweep(x) ==
  /\ pc[x] = "exclusive"
  /\ CanLock(x, SweepLock)
  /\ Lock(x, SweepLock)
  /\ Goto(x, "reachable")
  /\ UNCHANGED <<vars, req, seen, todo, work>>

(* referencedBlobs: the loop passes over the digests it returns. *)
QueryReferenced(x) ==
  /\ pc[x] = "reachable"
  /\ work' = [work EXCEPT ![x] = @ \ Referenced]
  /\ Goto(x, "delete")
  /\ UNCHANGED <<vars, req, locks, seen, todo>>

(* Deletions take effect one by one, in some order, and are never rolled   *)
(* back.                                                                   *)
DeleteBlob(x) ==
  /\ pc[x] = "delete"
  /\ \/ work[x] = {} /\ End(x) /\ UNCHANGED stored
     \/ \E b \in work[x] : /\ stored' = stored \ {b}
                           /\ work' = [work EXCEPT ![x] = @ \ {b}]
                           /\ UNCHANGED <<pc, req, locks, seen, todo>>
  /\ UNCHANGED <<execution, attempt, draftRef, evidence, event, filed, view>>

(* An order in which the statement may visit the rows. *)
Orders(S) == {s \in [1..Cardinality(S) -> S] : \A i, j \in DOMAIN s : s[i] = s[j] => i = j}

SelectExpired(x) ==
  /\ pc[x] = "select"
  /\ \E batch \in SUBSET evidence : \E order \in Orders(batch) :
       /\ work' = [work EXCEPT ![x] = batch]
       /\ todo' = [todo EXCEPT ![x] = order]
  /\ Goto(x, "expire")
  /\ UNCHANGED <<vars, req, locks, seen>>

(* DELETE FROM evidence: the trigger updates, and so locks, each row's     *)
(* attempt.  A row deleted meanwhile is passed over.                       *)
LockExpired(x) ==
  /\ pc[x] = "expire" /\ todo[x] # <<>>
  /\ LET ev == Head(todo[x]) IN
     /\ ev \in evidence => CanLock(x, AttemptLock(ev.attempt))
     /\ locks' = [locks EXCEPT ![x] = IF ev \in evidence THEN @ \cup {AttemptLock(ev.attempt)} ELSE @]
  /\ todo' = [todo EXCEPT ![x] = Tail(@)]
  /\ UNCHANGED <<vars, pc, req, seen, work>>

CommitExpired(x) ==
  /\ pc[x] = "expire" /\ todo[x] = <<>>
  /\ DeleteBatch(work[x] \cap evidence)
  /\ End(x)

(***************************************************************************)
(* Failure, waiting and the next-state relation.                           *)
(***************************************************************************)
(* A lost connection, a cancelled request, or a server that stops. *)
Rollback(x) ==
  /\ pc[x] # "idle"
  /\ End(x)
  /\ UNCHANGED vars

(* The locks one of which the next statement of x needs; {} if none. *)
Wants(x) ==
  LET r == req[x] IN
  CASE pc[x] = "execution" -> IF NoTarget(r) \/ TargetExecution(r) = NULL THEN {}
                              ELSE {ExecutionLock(TargetExecution(r))}
    [] pc[x] = "sweeplock" -> {SharedSweepLock}
    [] pc[x] = "exclusive" -> {SweepLock}
    [] pc[x] = "attempt" -> IF Visible(r.id, r.actor) THEN {AttemptLock(r.id)} ELSE {}
    [] pc[x] = "scan" -> {AttemptLock(a) : a \in LatestOf(r.execution, Head(todo[x]))}
    [] pc[x] = "expire" /\ todo[x] # <<>> ->
         IF Head(todo[x]) \in evidence THEN {AttemptLock(Head(todo[x]).attempt)} ELSE {}
    [] OTHER -> {}

(* The transactions x waits for; nobody if a lock it wants is free. *)
WaitsFor(x) ==
  IF \E l \in Wants(x) : CanLock(x, l) THEN {}
  ELSE UNION {Holders(l) \ {x} : l \in Wants(x)}

Deadlocked(x) ==
  \E S \in SUBSET Txs : x \in S /\ \A y \in S : WaitsFor(y) \cap S # {}

(* PostgreSQL's deadlock detector ends one of the transactions involved. *)
AbortDeadlocked(x) ==
  /\ Deadlocked(x)
  /\ End(x)
  /\ UNCHANGED vars

Step(x) ==
  \/ LockExecution(x) \/ LockSweepShared(x) \/ LockAttempt(x)
  \/ FindPrior(x) \/ CommitStart(x)
  \/ StatBlobs(x) \/ CommitSave(x) \/ CommitFinalize(x)
  \/ ScanScenario(x) \/ CommitState(x)
  \/ ListBlobs(x) \/ LockSweep(x) \/ QueryReferenced(x) \/ DeleteBlob(x)
  \/ SelectExpired(x) \/ LockExpired(x) \/ CommitExpired(x)
  \/ AbortDeadlocked(x)

SingleStatement(r) ==
  \/ r.kind = "get" /\ GetExecution(r.execution)
  \/ r.kind = "create" /\ \E ctx \in PriorContexts(r.actor) :
                            CreateAttempt(r.id, r.ref, r.actor, ctx)
  \/ r.kind = "put" /\ PutBlob(r.digest)

TxNext ==
  \/ /\ \/ \E e \in Executions : CreateExecution(e)
        \/ \E r \in Requests \cap SimpleRequest : SingleStatement(r)
     /\ UNCHANGED txvars
  \/ \E x \in Txs, r \in Requests \cap TxRequest : Begin(x, r)
  \/ \E x \in Txs : Step(x) \/ Rollback(x)

TxSpec == TxInit /\ [][TxNext]_allvars

(* PostgreSQL queues the waiters of a lock in order of arrival and lets no *)
(* newcomer pass a waiting exclusive request, so a transaction whose lock  *)
(* is free again and again gets it.                                        *)
FairTxSpec == TxSpec /\ \A x \in Txs : SF_allvars(Step(x))

(***************************************************************************)
(* Properties.                                                             *)
(***************************************************************************)

(* The transactions implement the atomic operations: each commit is a step *)
(* of Campaign and nothing is visible in between, whatever the             *)
(* interleaving and wherever a transaction is cut off.                     *)
ImplementsCampaign == Init /\ [][UNCHANGED vars \/ Next]_vars

(* FOR UPDATE and the advisory locks: what a transaction has read under a  *)
(* lock is still so when it uses it.                                       *)
ReadsStayCurrent ==
  \A x \in Txs :
    /\ seen[x] # NULL => seen[x] = execution[TargetExecution(req[x])]
    /\ pc[x] = "commit" /\ req[x].kind = "finalize" =>
         \A w \in work[x] : w.row = attempt[w.id]
    /\ pc[x] = "commit" /\ req[x].kind = "save" => req[x].data.media \subseteq stored
    /\ pc[x] = "delete" => work[x] \cap Referenced = {}

(* Two client requests never wait for each other in a circle: a deadlock   *)
(* always involves retention's DELETE.                                     *)
ClientsNeverDeadlock ==
  \A S \in SUBSET Txs :
    S # {} /\ (\A y \in S : WaitsFor(y) \cap S # {}) => \E y \in S : req[y].kind = "retain"

(* Every transaction ends. *)
TransactionsEnd == \A x \in Txs : []<>(pc[x] = "idle")
=============================================================================
