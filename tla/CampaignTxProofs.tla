--------------------------- MODULE CampaignTxProofs --------------------------
(***************************************************************************)
(* Proofs about CampaignTx, for every set of connections and requests:     *)
(* what a transaction has read stays current, clients never wait for each  *)
(* other in a circle, and the transactions implement Campaign.             *)
(***************************************************************************)
EXTENDS CampaignTxSteps, CampaignTxRefines, CampaignProofs

(* A step of one transaction. *)
LEMMA TxStepKeeps ==
  ASSUME TxInv, IInv, NEW x \in Txs, Step(x) \/ Rollback(x)
  PROVE  [Next]_vars /\ Footprint(locks[x]) /\ StepKeeps(x)
  <1>0. PerTx /\ TxLocal(x)
    BY DEF TxInv
  <1>1. CASE UNCHANGED vars /\ StepKeeps(x)
    BY <1>1, QuietFootprint, Zenon
  <1>2. CASE LockExecution(x)
    BY <1>0, <1>1, <1>2, LockExecutionKeeps, Zenon DEF LockExecution
  <1>3. CASE LockSweepShared(x)
    BY <1>0, <1>1, <1>3, LockSweepSharedKeeps, Zenon DEF LockSweepShared
  <1>4. CASE LockAttempt(x)
    BY <1>0, <1>1, <1>4, LockAttemptKeeps, Zenon DEF LockAttempt
  <1>5. CASE FindPrior(x)
    BY <1>0, <1>1, <1>5, FindPriorKeeps, Zenon DEF FindPrior
  <1>6. CASE CommitStart(x)
    BY <1>0, <1>6, CommitStartRefines, EndKeeps, Zenon DEF CommitStart
  <1>7. CASE StatBlobs(x)
    BY <1>0, <1>1, <1>7, StatBlobsKeeps, Zenon DEF StatBlobs
  <1>8. CASE CommitSave(x)
    BY <1>0, <1>8, CommitSaveRefines, EndKeeps, Zenon DEF CommitSave
  <1>9. CASE CommitFinalize(x)
    BY <1>0, <1>9, CommitFinalizeRefines, EndKeeps, Zenon DEF CommitFinalize
  <1>10. CASE ScanScenario(x)
    BY <1>0, <1>1, <1>10, ScanScenarioKeeps, Zenon DEF ScanScenario
  <1>11. CASE CommitState(x)
    <2>1. StepKeeps(x)
      BY <1>0, <1>11, EndKeeps, Zenon DEF CommitState
    <2>2. CASE req[x].closed
      BY <1>0, <1>11, <2>1, <2>2, CommitCloseRefines, Zenon
    <2>3. CASE ~req[x].closed
      BY <1>0, <1>11, <2>1, <2>3, CommitReopenRefines, Zenon
    <2>4. QED
      BY <2>2, <2>3, Zenon
  <1>12. CASE ListBlobs(x)
    BY <1>0, <1>1, <1>12, ListBlobsKeeps, ZenonT(60) DEF ListBlobs
  <1>13. CASE LockSweep(x)
    BY <1>0, <1>1, <1>13, LockSweepKeeps DEF LockSweep
  <1>14. CASE QueryReferenced(x)
    BY <1>0, <1>1, <1>14, QueryReferencedKeeps, Zenon DEF QueryReferenced
  <1>15. CASE DeleteBlob(x)
    BY <1>0, <1>15, DeleteBlobRefines, DeleteBlobKeeps
  <1>16. CASE SelectExpired(x)
    BY <1>0, <1>1, <1>16, SelectExpiredKeeps, Zenon DEF SelectExpired
  <1>17. CASE LockExpired(x)
    BY <1>0, <1>1, <1>17, LockExpiredKeeps, Zenon DEF LockExpired
  <1>18. CASE CommitExpired(x)
    BY <1>0, <1>18, CommitExpiredRefines, EndKeeps DEF CommitExpired
  <1>19. CASE AbortDeadlocked(x)
    BY <1>0, <1>1, <1>19, EndKeeps, Zenon DEF AbortDeadlocked
  <1>20. CASE Rollback(x)
    BY <1>0, <1>1, <1>20, EndKeeps, Zenon DEF Rollback
  <1>21. QED
    BY <1>2, <1>3, <1>4, <1>5, <1>6, <1>7, <1>8, <1>9, <1>10, <1>11, <1>12, <1>13, <1>14, <1>15,
       <1>16, <1>17, <1>18, <1>19, <1>20, ZenonT(60) DEF Step

(* It and a step of Campaign preserve the invariant. *)
LEMMA TxPreserves ==
  ASSUME TxInv, IInv, NEW x \in Txs, [Next]_vars, Footprint(locks[x]), StepKeeps(x)
  PROVE  TxInv' /\ IInv'
  <1>1. IInv'
    BY IInvStep
  <1>2. LocksExclude'
    BY ExclusionStep DEF StepKeeps, TxInv
  <1>3. ASSUME NEW y \in Txs PROVE TxLocal(y)'
    <2>1. CASE y = x
      BY <2>1, Zenon DEF StepKeeps
    <2>2. CASE y # x
      <3>1. Keeps(y)
        BY <2>2, Zenon DEF StepKeeps, OthersKeep, Keeps
      <3>2. Compatible(y, locks[x])
        BY <2>2, Zenon DEF TxInv, LocksExclude, Compatible
      <3>3. TxLocal(y)
        BY DEF TxInv
      <3>4. QED
        BY <1>1, <3>1, <3>2, <3>3, OtherKeeps, Zenon
    <2>3. QED
      BY <2>1, <2>2, Zenon
  <1>4. QED
    BY <1>1, <1>2, <1>3, Zenon DEF TxInv, StepKeeps

(* A step that leaves the transactions alone. *)
LEMMA QuietPreserves ==
  ASSUME TxInv, IInv, [Next]_vars, Footprint({}), UNCHANGED txvars
  PROVE  TxInv' /\ IInv'
  <1>1. IInv'
    BY IInvStep, Zenon
  <1>2. PerTx' /\ LocksExclude'
    <2>1. \A l : Conflicting(l)' = Conflicting(l)
      BY DEF Conflicting, SharedSweepLock, SweepLock
    <2>2. QED
      BY <2>1 DEF TxInv, PerTx, LocksExclude, txvars
  <1>3. ASSUME NEW y \in Txs PROVE TxLocal(y)'
    <2>1. Keeps(y)
      BY Zenon DEF txvars, Keeps
    <2>2. Compatible(y, {}) /\ TxLocal(y)
      BY DEF TxInv, Compatible
    <2>3. QED
      BY <1>1, <2>1, <2>2, OtherKeeps, Zenon
  <1>4. QED
    BY <1>1, <1>2, <1>3, Zenon DEF TxInv

(* The initial state. *)
LEMMA TxInvInit ==
  ASSUME TxInit
  PROVE  TxInv /\ IInv
  <1>1. IInv
    BY IInvInit, Zenon DEF TxInit
  <1>2. PerTx /\ LocksExclude
    BY Zenon DEF TxInit, PerTx, LocksExclude
  <1>3. ASSUME NEW x \in Txs PROVE TxLocal(x)
    <2>1. pc[x] = "idle" /\ req[x] = NULL /\ locks[x] = {} /\ seen[x] = NULL /\ work[x] = {}
      BY Zenon DEF TxInit
    <2>2. ~HasAttempt(x) /\ ~Closing(x) /\ pc[x] \notin AfterLock
      BY <2>1, Zenon DEF HasAttempt, Closing, AfterLock
    <2>3. QED
      BY <2>1, <2>2, ZenonT(60) DEF TxLocal, AtStatement, ExecutionRead, SweepHeld, AttemptRead, CommitReady,
                        ScanReady, LocksAtMost
  <1>4. QED
    BY <1>1, <1>2, <1>3, Zenon DEF TxInv

(* Every step preserves it, and is a step of Campaign. *)
LEMMA TxInvStep ==
  ASSUME TxInv, IInv, [TxNext]_allvars
  PROVE  TxInv' /\ IInv' /\ [Next]_vars
  <1>1. CASE UNCHANGED allvars
    <2>1. UNCHANGED vars /\ UNCHANGED txvars
      BY <1>1 DEF allvars
    <2>2. [Next]_vars /\ Footprint({})
      BY <2>1, QuietFootprint, Zenon
    <2>3. QED
      BY <2>1, <2>2, QuietPreserves, Zenon
  <1>2. CASE /\ \/ \E e \in Executions : CreateExecution(e)
                \/ \E r \in Requests \cap SimpleRequest : SingleStatement(r)
             /\ UNCHANGED txvars
    <2>1. [Next]_vars /\ Footprint({})
      BY <1>2, SimpleRefines, Zenon
    <2>2. QED
      BY <1>2, <2>1, QuietPreserves, Zenon
  <1>3. ASSUME NEW x \in Txs, NEW r \in Requests \cap TxRequest, Begin(x, r)
        PROVE  TxInv' /\ IInv' /\ [Next]_vars
    <2>1. UNCHANGED vars
      BY <1>3 DEF Begin
    <2>2. [Next]_vars /\ Footprint(locks[x])
      BY <2>1, QuietFootprint, Zenon
    <2>3. StepKeeps(x)
      BY <1>3, BeginKeeps, Zenon DEF TxInv
    <2>4. QED
      BY <2>2, <2>3, TxPreserves, Zenon
  <1>4. ASSUME NEW x \in Txs, Step(x) \/ Rollback(x)
        PROVE  TxInv' /\ IInv' /\ [Next]_vars
    BY <1>4, TxStepKeeps, TxPreserves, Zenon
  <1>5. QED
    BY <1>1, <1>2, <1>3, <1>4, Zenon DEF TxNext

(***************************************************************************)
(* The theorems.                                                           *)
(***************************************************************************)
(* The invariant holds in every reachable state. *)
LEMMA TxInvHolds == TxSpec => [](TxInv /\ IInv)
  <1>1. TxInit => TxInv /\ IInv
    BY TxInvInit
  <1>2. TxInv /\ IInv /\ [TxNext]_allvars => (TxInv /\ IInv)'
    BY TxInvStep
  <1>3. QED
    BY <1>1, <1>2, PTL DEF TxSpec

(* Every commit of the transactions of campaign_*.go and of retention, and *)
(* every object the sweep deletes, is one atomic operation of Campaign; no *)
(* other statement changes what is stored: whatever the connections, the   *)
(* requests, their interleaving, rollbacks and aborted deadlocks.          *)
THEOREM TransactionsImplementOperations == TxSpec => ImplementsCampaign
  <1>1. TxInit => Init
    BY DEF TxInit
  <1>2. TxInv /\ IInv /\ [TxNext]_allvars => [UNCHANGED vars \/ Next]_vars
    BY TxInvStep
  <1>3. QED
    BY <1>1, <1>2, TxInvHolds, PTL DEF TxSpec, ImplementsCampaign

(* What a statement of a transaction has read under FOR UPDATE or under    *)
(* the advisory sweep lock is still so when a later statement uses it.     *)
THEOREM LockedReadsStayCurrent == TxSpec => []ReadsStayCurrent
  <1>1. ASSUME TxInv, NEW x \in Txs
        PROVE  /\ seen[x] # NULL => seen[x] = execution[TargetExecution(req[x])]
               /\ pc[x] = "commit" /\ req[x].kind = "finalize" =>
                    \A w \in work[x] : w.row = attempt[w.id]
               /\ pc[x] = "commit" /\ req[x].kind = "save" => req[x].data.media \subseteq stored
               /\ pc[x] = "delete" => work[x] \cap Referenced = {}
    <2>0. TxLocal(x)
      BY <1>1, Zenon DEF TxInv
    <2>1. seen[x] # NULL => seen[x] = execution[TargetExecution(req[x])]
      BY <2>0, Zenon DEF TxLocal, ExecutionRead
    <2>2. ASSUME pc[x] = "commit", req[x].kind = "finalize", NEW w \in work[x]
          PROVE  w.row = attempt[w.id]
      <3>1. HasAttempt(x)
        BY <2>2, Zenon DEF HasAttempt
      <3>2. work[x] = {[id |-> req[x].id, row |-> attempt[req[x].id]]}
        BY <2>0, <3>1, Zenon DEF TxLocal, AttemptRead
      <3>3. w = [id |-> req[x].id, row |-> attempt[req[x].id]]
        BY <2>2, <3>2, Zenon
      <3>4. QED
        BY <3>3
    <2>3. /\ pc[x] = "commit" /\ req[x].kind = "save" => req[x].data.media \subseteq stored
          /\ pc[x] = "delete" => work[x] \cap Referenced = {}
      BY <2>0, Zenon DEF TxLocal, CommitReady
    <2>4. QED
      BY <2>1, <2>2, <2>3, Zenon
  <1>2. TxInv => ReadsStayCurrent
    BY <1>1, Zenon DEF ReadsStayCurrent
  <1>3. QED
    BY <1>2, TxInvHolds, PTL

(* The locks are taken in one order, execution, sweep, attempt, and the    *)
(* attempts of an execution only by whoever holds it: client requests      *)
(* never wait for each other in a circle.                                  *)
THEOREM ClientsWaitInOrder == TxSpec => []ClientsNeverDeadlock
  <1>1. ASSUME TxInv, NEW S \in SUBSET Txs, S # {}, \A y \in S : WaitsFor(y) \cap S # {},
               \A y \in S : req[y].kind # "retain"
        PROVE  FALSE
    <2>1. ASSUME NEW y \in S PROVE \E z \in S, l \in Wants(y) : Blocks(z, y, l)
      <3>1. PICK z \in S : z \in WaitsFor(y)
        BY <1>1
      <3>2. PICK l \in Wants(y) : z \in Holders(l) \ {y}
        BY <3>1, Zenon DEF WaitsFor
      <3>3. QED
        BY <3>2, Zenon DEF Holders, Blocks
    <2>2. ASSUME NEW y \in S
          PROVE  /\ pc[y] \in {"execution", "exclusive", "attempt", "scan"}
                 /\ SweepLock \notin locks[y]
      <3>1. PICK z \in S, l \in Wants(y) : Blocks(z, y, l)
        BY <2>1, Zenon
      <3>2. y \in Txs /\ z \in Txs /\ req[y].kind # "retain" /\ req[z].kind # "retain"
        BY <1>1, Zenon
      <3>3. SweepLock \notin locks[z]
        <4>1. PICK m : m \in Wants(z)
          BY <2>1, Zenon
        <4>2. QED
          BY <1>1, <3>2, <4>1, WaitingAt, ZenonT(60)
      <3>4. l # SharedSweepLock
        BY <3>1, <3>3, LockLemma DEF Blocks
      <3>5. QED
        BY <1>1, <3>1, <3>2, <3>4, WaitingAt, ZenonT(60)
    <2>3. ASSUME NEW z \in S, locks[z] # {} PROVE pc[z] \in {"attempt", "scan"}
      <3>1. TxLocal(z)
        BY <1>1, Zenon DEF TxInv
      <3>2. QED
        BY <2>2, <2>3, <3>1, ZenonT(60) DEF TxLocal, LocksAtMost
    <2>4. PICK y \in S : locks[y] # {}
      <3>1. PICK y0 \in S : TRUE
        BY <1>1, Zenon
      <3>2. QED
        BY <2>1, <3>1 DEF Blocks
    <2>5. PICK z \in S, l \in Wants(y) : Blocks(z, y, l)
      BY <2>1
    <2>6. y \in Txs /\ z \in Txs /\ req[y].kind # "retain" /\ req[z].kind # "retain"
      BY <1>1
    <2>7. pc[y] \in {"attempt", "scan"}
      BY <2>3, <2>4, Zenon
    <2>8. PICK a : /\ l = AttemptLock(a)
                   /\ \/ pc[y] = "attempt" /\ a = req[y].id
                      \/ pc[y] = "scan" /\ a \in LatestOf(req[y].execution, Head(todo[y]))
      BY <1>1, <2>5, <2>6, <2>7, WaitingAt, ZenonT(60)
    <2>9. a \in AttemptIds
      <3>1. TxLocal(y)
        BY <1>1, <2>6, Zenon DEF TxInv
      <3>2. CASE pc[y] = "attempt"
        <4>1. req[y] \in Requests \cap TxRequest /\ req[y].kind \in {"save", "finalize"}
          BY <3>1, <3>2, Zenon DEF TxLocal, AtStatement
        <4>2. QED
          BY <2>8, <3>2, <4>1, RequestLemma, Zenon
      <3>3. CASE pc[y] = "scan"
        BY <2>8, <3>3, Zenon DEF LatestOf, DraftsOf, AttemptsOf
      <3>4. QED
        BY <2>7, <3>2, <3>3, Zenon
    <2>10. AttemptLock(a) \in locks[z]
      BY <2>5, <2>8, LockLemma DEF Blocks
    <2>11. TxLocal(z)
      BY <1>1, <2>6, Zenon DEF TxInv
    <2>12. pc[z] = "scan"
      <3>1. pc[z] \in {"attempt", "scan"}
        BY <2>3, <2>10, Zenon
      <3>2. pc[z] # "attempt"
        BY <2>10, <2>11, LockLemma, ZenonT(60) DEF TxLocal, LocksAtMost
      <3>3. QED
        BY <3>1, <3>2, Zenon
    <2>13. /\ req[z] \in Requests \cap TxRequest /\ req[z].kind = "state"
           /\ attempt[a] # NULL /\ attempt[a].execution = req[z].execution
      BY <2>9, <2>10, <2>11, <2>12, ZenonT(60) DEF TxLocal, AtStatement, LocksAtMost
    <2>14. attempt[a].execution \in Executions
      BY <2>13, RequestLemma, Zenon
    <2>15. ExecutionLock(attempt[a].execution) \in locks[y]
      BY <1>1, <2>6, <2>7, <2>8, <2>14, ExecutionFirst, ZenonT(60)
    <2>16. ExecutionLock(attempt[a].execution) \in locks[z]
      <3>1. TargetExecution(req[z]) = attempt[a].execution
        BY <2>13, Zenon DEF TargetExecution
      <3>2. QED
        BY <2>11, <2>12, <2>14, <3>1, NullAssumption, ZenonT(60) DEF TxLocal, ExecutionRead, AfterLock
    <2>17. y # z
      BY <2>5, Zenon DEF Blocks
    <2>18. PICK k : k = ExecutionLock(attempt[a].execution)
      BY Zenon
    <2>19. k \in locks[y] /\ k \in locks[z] /\ k \in Conflicting(k)
      BY <2>15, <2>16, <2>18, LockLemma, ZenonT(60)
    <2>20. QED
      BY <1>1, <2>6, <2>17, <2>19, ZenonT(60) DEF TxInv, LocksExclude
  <1>2. TxInv => ClientsNeverDeadlock
    BY <1>1 DEF ClientsNeverDeadlock
  <1>3. QED
    BY <1>2, TxInvHolds, PTL

=============================================================================
