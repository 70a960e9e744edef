---------------------------- MODULE CampaignTxInv ----------------------------
(***************************************************************************)
(* What holds of the transactions between two statements of any of them.   *)
(***************************************************************************)
EXTENDS CampaignTx, CampaignInv

(***************************************************************************)
(* What holds of one transaction between two of its statements.            *)
(***************************************************************************)
(* Its request has the statement that comes next. *)
AtStatement(x) ==
  \/ pc[x] = "idle" /\ req[x] = NULL
  \/ /\ req[x] \in Requests \cap TxRequest
     /\ \/ req[x].kind = "start" /\ pc[x] \in {"execution", "find", "commit"}
        \/ req[x].kind = "save" /\ pc[x] \in {"execution", "sweeplock", "attempt", "stat", "commit"}
        \/ req[x].kind = "finalize" /\ pc[x] \in {"execution", "sweeplock", "attempt", "commit"}
        \/ req[x].kind = "state" /\ req[x].closed
             /\ pc[x] \in {"execution", "sweeplock", "scan", "commit"}
        \/ req[x].kind = "state" /\ ~req[x].closed /\ pc[x] \in {"execution", "commit"}
        \/ req[x].kind = "sweep" /\ pc[x] \in {"list", "exclusive", "reachable", "delete"}
        \/ req[x].kind = "retain" /\ pc[x] \in {"select", "expire"}

(* The statements after the one that locks the execution row. *)
AfterLock == {"find", "sweeplock", "attempt", "stat", "scan", "commit"}

(* It holds the lock of the execution it has read, and the request is not  *)
(* refused on that row.                                                    *)
ExecutionRead(x) ==
  IF pc[x] \in AfterLock
  THEN /\ ~NoTarget(req[x])
       /\ IF TargetExecution(req[x]) = NULL
          THEN seen[x] = NULL /\ req[x].kind \in {"save", "finalize"}
          ELSE /\ ExecutionLock(TargetExecution(req[x])) \in locks[x]
               /\ seen[x] = execution[TargetExecution(req[x])]
               /\ ~RefusedByExecution(req[x], seen[x])
  ELSE seen[x] = NULL

(* A save or a finalization that has locked its attempt. *)
HasAttempt(x) ==
  \/ pc[x] = "stat"
  \/ pc[x] = "commit" /\ req[x].kind \in {"save", "finalize"}

(* A closure that has begun to scan. *)
Closing(x) ==
  pc[x] \in {"scan", "commit"} /\ req[x].kind = "state" /\ req[x].closed

(* It holds the sweep lock its next statement relies on. *)
SweepHeld(x) ==
  /\ pc[x] = "attempt" \/ HasAttempt(x) \/ Closing(x) => SharedSweepLock \in locks[x]
  /\ pc[x] \in {"reachable", "delete"} => SweepLock \in locks[x]

(* It holds the lock of the attempt it has read, and is not refused. *)
AttemptRead(x) ==
  HasAttempt(x) =>
    /\ AttemptLock(req[x].id) \in locks[x]
    /\ Draft(req[x].id)
    /\ req[x].kind = "save" => ~SaveRefused(req[x])
    /\ req[x].kind = "finalize" => ~FinalizeRefused(req[x], seen[x])
    /\ work[x] = {[id |-> req[x].id, row |-> attempt[req[x].id]]}

(* What its commit relies on. *)
CommitReady(x) ==
  /\ pc[x] = "commit" /\ req[x].kind = "start" =>
       ~seen[x].closed /\ DraftsOf(req[x].execution, req[x].ref) = {}
  /\ pc[x] = "commit" /\ req[x].kind = "save" => req[x].data.media \subseteq stored
  /\ pc[x] \in {"idle", "execution", "find", "sweeplock", "attempt"} => work[x] = {}
  /\ pc[x] = "commit" /\ req[x].kind = "state" /\ ~req[x].closed => work[x] = {}
  /\ pc[x] \in {"exclusive", "reachable", "delete"} => work[x] \subseteq Blobs
  /\ pc[x] = "delete" => work[x] \cap Referenced = {}

(* The procedures a closure has still to visit. *)
Entries(s) == {s[i] : i \in DOMAIN s}

Rest(x) == Entries(todo[x])

(* What it has collected so far is what closeUnfinished must dispose of.   *)
ScanReady(x) ==
  Closing(x) =>
    LET e == req[x].execution
        ids == {w.id : w \in work[x]}
    IN  /\ pc[x] = "scan" => todo[x] \in Seq(Procs) \ {<<>>}
        /\ pc[x] = "commit" => todo[x] = <<>>
        /\ \A w \in work[x] : /\ w = [id |-> w.id, row |-> w.row]
                              /\ w.row = SkippedRow(e, w.id, req[x].actor)
                              /\ w.id \in Unfinished(e)
                              /\ EvidenceCreate(w.row.data)
        /\ \A p \in Procs : p \in Rest(x) \/
             /\ DraftsOf(e, p) \subseteq ids
             /\ AttemptsOf(e, p) = {} => GeneratedId(e, p) \in ids

(* It holds no other locks than these while it waits. *)
LocksAtMost(x) ==
  /\ pc[x] \in {"idle", "execution", "list", "exclusive", "select"} => locks[x] = {}
  /\ pc[x] = "sweeplock" => locks[x] \subseteq {ExecutionLock(TargetExecution(req[x]))}
  /\ pc[x] = "attempt" =>
       locks[x] \subseteq {ExecutionLock(TargetExecution(req[x])), SharedSweepLock}
  /\ SweepLock \in locks[x] => pc[x] \in {"reachable", "delete"}
  /\ pc[x] = "scan" => \A a \in AttemptIds : AttemptLock(a) \in locks[x] =>
       attempt[a] # NULL /\ attempt[a].execution = req[x].execution

(* What holds of one transaction, at whichever statement it stands. *)
TxLocal(x) ==
  /\ AtStatement(x) /\ ExecutionRead(x) /\ SweepHeld(x) /\ AttemptRead(x)
  /\ CommitReady(x) /\ ScanReady(x) /\ LocksAtMost(x)

(* No two transactions hold conflicting locks. *)
LocksExclude ==
  \A x, y \in Txs : x # y => \A l \in locks[x] : locks[y] \cap Conflicting(l) = {}

(* Every variable is a function of the transactions. *)
PerTx ==
  /\ pc = [x \in Txs |-> pc[x]] /\ req = [x \in Txs |-> req[x]]
  /\ locks = [x \in Txs |-> locks[x]] /\ seen = [x \in Txs |-> seen[x]]
  /\ todo = [x \in Txs |-> todo[x]] /\ work = [x \in Txs |-> work[x]]

(* The inductive invariant of the transactions. *)
TxInv == PerTx /\ LocksExclude /\ \A x \in Txs : TxLocal(x)

(***************************************************************************)
(* Frames: a step of one transaction leaves the others' variables alone.   *)
(***************************************************************************)
OthersKeep(x) ==
  \A y \in Txs \ {x} : /\ pc'[y] = pc[y] /\ req'[y] = req[y] /\ locks'[y] = locks[y]
                       /\ seen'[y] = seen[y] /\ todo'[y] = todo[y] /\ work'[y] = work[y]

(***************************************************************************)
(* Every step of a transaction is a step of Campaign, and what it changes  *)
(* it has locked.                                                          *)
(***************************************************************************)
(* What a step under the locks L may change. *)
Footprint(L) ==
  /\ \A e \in Executions : execution[e] = NULL \/ execution'[e] = execution[e]
                             \/ ExecutionLock(e) \in L
  /\ \A a \in AttemptIds :
       \/ attempt'[a] = attempt[a]
       \/ /\ attempt[a] = NULL
          /\ attempt'[a].execution # NULL => ExecutionLock(attempt'[a].execution) \in L
       \/ /\ Draft(a)
          /\ \/ attempt[a].execution = NULL /\ AttemptLock(a) \in L
             \/ attempt[a].execution # NULL /\ ExecutionLock(attempt[a].execution) \in L
       \/ attempt[a] # NULL /\ Finalized(a)
  /\ stored \subseteq stored' \/ SweepLock \in L
  /\ Referenced' \subseteq Referenced \/ SharedSweepLock \in L

(* The local variables of a transaction that takes no step. *)
Keeps(y) ==
  /\ pc'[y] = pc[y] /\ req'[y] = req[y] /\ locks'[y] = locks[y]
  /\ seen'[y] = seen[y] /\ todo'[y] = todo[y] /\ work'[y] = work[y]

(* The step holds no lock that conflicts with one of y's. *)
Compatible(y, L) == \A l \in locks[y] : L \cap Conflicting(l) = {}

(***************************************************************************)
(* A transaction's own steps.                                              *)
(***************************************************************************)
(* It takes only locks that nobody holds against it. *)
Grows(x) == \A l \in locks'[x] : l \in locks[x] \/ CanLock(x, l)

(* What a step of x owes: the others untouched, its own invariant kept. *)
StepKeeps(x) == PerTx' /\ OthersKeep(x) /\ Grows(x) /\ TxLocal(x)'

(* A member of a circle of waiters: what it wants, someone else holds. *)
Blocks(z, y, l) == z # y /\ l \in Wants(y) /\ locks[z] \cap Conflicting(l) # {}

=============================================================================
