--------------------------- MODULE CampaignTxSteps ---------------------------
(***************************************************************************)
(* Lemmas about CampaignTx: what a transaction's own statements keep, and  *)
(* which transactions can wait for which.                                  *)
(***************************************************************************)
EXTENDS CampaignTxInv, TLAPS

(* An update at one point. *)
LEMMA Pointwise ==
  ASSUME NEW S, NEW f, NEW g, f = [y \in S |-> f[y]], NEW x \in S, NEW v,
         g = [f EXCEPT ![x] = v] \/ (g = f /\ v = f[x])
  PROVE  /\ g = [y \in S |-> g[y]]
         /\ g[x] = v
         /\ \A y \in S \ {x} : g[y] = f[y]
  BY Zenon

(* The six updates of a step, and what they come to. *)
LEMMA Frame ==
  ASSUME PerTx, NEW x \in Txs, NEW p, NEW r, NEW l, NEW s, NEW t, NEW w,
         pc' = [pc EXCEPT ![x] = p] \/ (pc' = pc /\ p = pc[x]),
         req' = [req EXCEPT ![x] = r] \/ (req' = req /\ r = req[x]),
         locks' = [locks EXCEPT ![x] = l] \/ (locks' = locks /\ l = locks[x]),
         seen' = [seen EXCEPT ![x] = s] \/ (seen' = seen /\ s = seen[x]),
         todo' = [todo EXCEPT ![x] = t] \/ (todo' = todo /\ t = todo[x]),
         work' = [work EXCEPT ![x] = w] \/ (work' = work /\ w = work[x])
  PROVE  /\ PerTx' /\ OthersKeep(x)
         /\ pc'[x] = p /\ req'[x] = r /\ locks'[x] = l
         /\ seen'[x] = s /\ todo'[x] = t /\ work'[x] = w
  <1>1. /\ pc' = [y \in Txs |-> pc'[y]] /\ pc'[x] = p
        /\ \A y \in Txs \ {x} : pc'[y] = pc[y]
    BY Pointwise, Zenon DEF PerTx
  <1>2. /\ req' = [y \in Txs |-> req'[y]] /\ req'[x] = r
        /\ \A y \in Txs \ {x} : req'[y] = req[y]
    BY Pointwise, Zenon DEF PerTx
  <1>3. /\ locks' = [y \in Txs |-> locks'[y]] /\ locks'[x] = l
        /\ \A y \in Txs \ {x} : locks'[y] = locks[y]
    BY Pointwise, Zenon DEF PerTx
  <1>4. /\ seen' = [y \in Txs |-> seen'[y]] /\ seen'[x] = s
        /\ \A y \in Txs \ {x} : seen'[y] = seen[y]
    BY Pointwise, Zenon DEF PerTx
  <1>5. /\ todo' = [y \in Txs |-> todo'[y]] /\ todo'[x] = t
        /\ \A y \in Txs \ {x} : todo'[y] = todo[y]
    BY Pointwise, Zenon DEF PerTx
  <1>6. /\ work' = [y \in Txs |-> work'[y]] /\ work'[x] = w
        /\ \A y \in Txs \ {x} : work'[y] = work[y]
    BY Pointwise, Zenon DEF PerTx
  <1>7. QED
    BY <1>1, <1>2, <1>3, <1>4, <1>5, <1>6, ZenonT(60) DEF PerTx, OthersKeep

(* Commit and rollback. *)
LEMMA EndLemma ==
  ASSUME PerTx, NEW x \in Txs, End(x)
  PROVE  /\ PerTx' /\ OthersKeep(x)
         /\ pc'[x] = "idle" /\ req'[x] = NULL /\ locks'[x] = {}
         /\ seen'[x] = NULL /\ todo'[x] = <<>> /\ work'[x] = {}
  BY Frame, ZenonT(60) DEF End

(***************************************************************************)
(* Requests and locks.                                                     *)
(***************************************************************************)
(* A request is of one of the kinds, and the kind tells its fields. *)
LEMMA KindLemma ==
  ASSUME NEW r \in Requests \cap TxRequest
  PROVE  /\ r.kind \in {"start", "save", "finalize", "state", "sweep", "retain"}
         /\ r.kind \in {"start", "state"} => r.execution \in Executions
         /\ r.kind \in {"save", "finalize"} => r.id \in AttemptIds
         /\ r.kind = "state" => r.closed \in BOOLEAN
  BY Zenon DEF TxRequest, StartRequest, SaveRequest, FinalizeRequest, StateRequest, BackgroundRequest

(* Row locks conflict with themselves, and the advisory locks as documented. *)
LEMMA LockLemma ==
  /\ \A e : Conflicting(ExecutionLock(e)) = {ExecutionLock(e)}
  /\ \A a : Conflicting(AttemptLock(a)) = {AttemptLock(a)}
  /\ Conflicting(SharedSweepLock) = {SweepLock}
  /\ Conflicting(SweepLock) = {SweepLock, SharedSweepLock}
  /\ \A e, f : ExecutionLock(e) = ExecutionLock(f) => e = f
  /\ \A a, b : AttemptLock(a) = AttemptLock(b) => a = b
  /\ \A e, a : ExecutionLock(e) # AttemptLock(a)
  /\ \A e : ExecutionLock(e) \notin {SweepLock, SharedSweepLock}
  /\ \A a : AttemptLock(a) \notin {SweepLock, SharedSweepLock}
  /\ SweepLock # SharedSweepLock
  BY Zenon DEF Conflicting, ExecutionLock, AttemptLock, SharedSweepLock, SweepLock

(* Commit and rollback end in the idle state. *)
LEMMA EndKeeps ==
  ASSUME PerTx, NEW x \in Txs, End(x)
  PROVE  StepKeeps(x)
  <1>1. /\ PerTx' /\ OthersKeep(x)
        /\ pc'[x] = "idle" /\ req'[x] = NULL /\ locks'[x] = {}
        /\ seen'[x] = NULL /\ todo'[x] = <<>> /\ work'[x] = {}
    BY EndLemma, Zenon
  <1>2. Grows(x)
    BY <1>1, Zenon DEF Grows
  <1>3. ~HasAttempt(x)' /\ ~Closing(x)' /\ pc'[x] \notin AfterLock
    BY <1>1, Zenon DEF HasAttempt, Closing, AfterLock
  <1>4. AtStatement(x)' /\ ExecutionRead(x)' /\ SweepHeld(x)'
    BY <1>1, <1>3, Zenon DEF AtStatement, ExecutionRead, SweepHeld
  <1>5. AttemptRead(x)' /\ CommitReady(x)' /\ ScanReady(x)'
    BY <1>1, <1>3, Zenon DEF AttemptRead, CommitReady, ScanReady
  <1>6. LocksAtMost(x)'
    BY <1>1, Zenon DEF LocksAtMost
  <1>7. QED
    BY <1>1, <1>2, <1>4, <1>5, <1>6, Zenon DEF StepKeeps, TxLocal

(* A request begins at its first statement. *)
LEMMA BeginKeeps ==
  ASSUME PerTx, NEW x \in Txs, TxLocal(x), NEW r \in Requests \cap TxRequest, Begin(x, r)
  PROVE  StepKeeps(x)
  <1>0. pc[x] = "idle" /\ locks[x] = {} /\ seen[x] = NULL /\ work[x] = {}
    BY Zenon DEF Begin, TxLocal, LocksAtMost, ExecutionRead, AfterLock, CommitReady
  <1>1. /\ PerTx' /\ OthersKeep(x)
        /\ pc'[x] = FirstStatement(r) /\ req'[x] = r /\ locks'[x] = {}
        /\ seen'[x] = NULL /\ work'[x] = {}
    <2>1. /\ pc' = [pc EXCEPT ![x] = FirstStatement(r)] /\ req' = [req EXCEPT ![x] = r]
          /\ locks' = locks /\ seen' = seen /\ todo' = todo /\ work' = work
      BY Zenon DEF Begin, Goto
    <2>2. QED
      BY <1>0, <2>1, Zenon DEF PerTx, OthersKeep
  <1>2. /\ r.kind \in {"start", "save", "finalize", "state"} => pc'[x] = "execution"
        /\ r.kind = "sweep" => pc'[x] = "list"
        /\ r.kind = "retain" => pc'[x] = "select"
        /\ r.kind \in {"start", "save", "finalize", "state", "sweep", "retain"}
        /\ r.kind = "state" => r.closed \in BOOLEAN
    BY <1>1, KindLemma, Zenon DEF FirstStatement
  <1>3. ~HasAttempt(x)' /\ ~Closing(x)' /\ pc'[x] \notin AfterLock /\ pc'[x] # "idle"
    BY <1>2, Zenon DEF HasAttempt, Closing, AfterLock
  <1>4. AtStatement(x)'
    BY <1>1, <1>2, ZenonT(60) DEF AtStatement
  <1>5. ExecutionRead(x)' /\ SweepHeld(x)'
    BY <1>1, <1>2, <1>3, Zenon DEF ExecutionRead, SweepHeld
  <1>6. AttemptRead(x)' /\ CommitReady(x)' /\ ScanReady(x)'
    BY <1>1, <1>2, <1>3, Zenon DEF AttemptRead, CommitReady, ScanReady
  <1>7. LocksAtMost(x)' /\ Grows(x)
    BY <1>1, <1>2, Zenon DEF LocksAtMost, Grows
  <1>8. QED
    BY <1>1, <1>4, <1>5, <1>6, <1>7, Zenon DEF StepKeeps, TxLocal

(* A step that goes on to another statement of the same request. *)
LEMMA GotoFrame ==
  ASSUME PerTx, NEW x \in Txs, NEW p, NEW l, NEW s, NEW t, NEW w,
         Goto(x, p), req' = req,
         locks' = [locks EXCEPT ![x] = l], seen' = [seen EXCEPT ![x] = s],
         todo' = [todo EXCEPT ![x] = t], work' = [work EXCEPT ![x] = w]
  PROVE  /\ PerTx' /\ OthersKeep(x)
         /\ pc'[x] = p /\ req'[x] = req[x] /\ locks'[x] = l
         /\ seen'[x] = s /\ todo'[x] = t /\ work'[x] = w
  BY Frame, ZenonT(30) DEF Goto

(* Leaving a variable alone updates it to its own value. *)
LEMMA Unchanged ==
  ASSUME PerTx, NEW x \in Txs
  PROVE  /\ locks = [locks EXCEPT ![x] = locks[x]] /\ seen = [seen EXCEPT ![x] = seen[x]]
         /\ todo = [todo EXCEPT ![x] = todo[x]] /\ work = [work EXCEPT ![x] = work[x]]
  BY Zenon DEF PerTx

(* A step that only goes on. *)
LEMMA JustGoto ==
  ASSUME PerTx, NEW x \in Txs, NEW p, Goto(x, p), UNCHANGED <<req, locks, seen, todo, work>>
  PROVE  /\ PerTx' /\ OthersKeep(x)
         /\ pc'[x] = p /\ req'[x] = req[x] /\ locks'[x] = locks[x]
         /\ seen'[x] = seen[x] /\ todo'[x] = todo[x] /\ work'[x] = work[x]
  BY Zenon DEF Goto, PerTx, OthersKeep

(* Locking the execution row. *)
LEMMA LockExecutionKeeps ==
  ASSUME IInv, PerTx, NEW x \in Txs, TxLocal(x), LockExecution(x)
  PROVE  StepKeeps(x)
  <1>0. PICK r : r = req[x]
    BY ZenonT(60)
  <1>1. /\ pc[x] = "execution" /\ locks[x] = {} /\ seen[x] = NULL /\ work[x] = {}
        /\ r \in Requests \cap TxRequest /\ r.kind \in {"start", "save", "finalize", "state"}
    BY <1>0, Zenon
       DEF LockExecution, TxLocal, AtStatement, LocksAtMost, ExecutionRead, AfterLock, CommitReady
  <1>2. CASE End(x)
    BY <1>2, EndKeeps, Zenon
  <1>3. CASE /\ ~NoTarget(r) /\ TargetExecution(r) = NULL
             /\ Goto(x, "sweeplock")
             /\ UNCHANGED <<req, locks, seen, todo, work>> /\ UNCHANGED vars
    <2>1. /\ PerTx' /\ OthersKeep(x)
          /\ pc'[x] = "sweeplock" /\ req'[x] = r /\ locks'[x] = {}
          /\ seen'[x] = NULL /\ work'[x] = {}
      BY <1>0, <1>1, <1>3, JustGoto, Zenon
    <2>2. r.kind \in {"save", "finalize"}
      BY <1>1, <1>3, KindLemma, NullAssumption, Zenon DEF TargetExecution
    <2>3. /\ ~NoTarget(req[x])' /\ TargetExecution(req[x])' = NULL
      BY <1>3, <2>1, Zenon DEF vars, NoTarget, TargetExecution
    <2>4. AtStatement(x)' /\ ExecutionRead(x)'
      BY <1>1, <2>1, <2>2, <2>3, Zenon DEF AtStatement, ExecutionRead
    <2>5. ~HasAttempt(x)' /\ ~Closing(x)'
      BY <2>1, Zenon DEF HasAttempt, Closing
    <2>6. SweepHeld(x)' /\ AttemptRead(x)' /\ CommitReady(x)' /\ ScanReady(x)'
      BY <2>1, <2>5, Zenon DEF SweepHeld, AttemptRead, CommitReady, ScanReady
    <2>7. LocksAtMost(x)' /\ Grows(x)
      BY <2>1, ZenonT(60) DEF LocksAtMost, Grows
    <2>8. QED
      BY <2>1, <2>4, <2>6, <2>7, Zenon DEF StepKeeps, TxLocal
  <1>4. CASE /\ ~NoTarget(r) /\ TargetExecution(r) # NULL
             /\ CanLock(x, ExecutionLock(TargetExecution(r)))
             /\ ~RefusedByExecution(r, execution[TargetExecution(r)])
             /\ Lock(x, ExecutionLock(TargetExecution(r)))
             /\ seen' = [seen EXCEPT ![x] = execution[TargetExecution(r)]]
             /\ Goto(x, AfterExecution(r))
             /\ UNCHANGED <<req, todo, work>> /\ UNCHANGED vars
    <2>0. PICK e : e = TargetExecution(r)
      BY Zenon
    <2>1. /\ PerTx' /\ OthersKeep(x)
          /\ pc'[x] = AfterExecution(r) /\ req'[x] = r /\ locks'[x] = locks[x] \cup {ExecutionLock(e)}
          /\ seen'[x] = execution[e] /\ work'[x] = {}
      <3>1. /\ locks' = [locks EXCEPT ![x] = locks[x] \cup {ExecutionLock(e)}]
            /\ seen' = [seen EXCEPT ![x] = execution[e]]
            /\ todo' = [todo EXCEPT ![x] = todo[x]] /\ work' = [work EXCEPT ![x] = work[x]]
            /\ Goto(x, AfterExecution(r)) /\ req' = req
        <4>1. locks' = [locks EXCEPT ![x] = locks[x] \cup {ExecutionLock(e)}]
          BY <1>4, <2>0, Zenon DEF Lock
        <4>2. QED
          BY <1>4, <2>0, <4>1, Unchanged, Zenon
      <3>2. QED
        BY <1>0, <1>1, <3>1, GotoFrame, ZenonT(60)
    <2>2. locks'[x] = {ExecutionLock(e)}
      BY <1>1, <2>1, Zenon
    <2>3. /\ r.kind = "start" => pc'[x] = "find"
          /\ r.kind \in {"save", "finalize"} => pc'[x] = "sweeplock"
          /\ r.kind = "state" /\ r.closed => pc'[x] = "sweeplock"
          /\ r.kind = "state" /\ ~r.closed => pc'[x] = "commit"
          /\ r.kind = "state" => r.closed \in BOOLEAN
      BY <1>1, <2>1, KindLemma, Zenon DEF AfterExecution
    <2>4. /\ ~NoTarget(req[x])' /\ TargetExecution(req[x])' = e
      BY <1>4, <2>0, <2>1, Zenon DEF vars, NoTarget, TargetExecution
    <2>5. execution' = execution /\ execution'[e] = execution[e]
          /\ (RefusedByExecution(req[x], seen[x]))' = RefusedByExecution(r, execution[e])
      BY <1>4, <2>1, Zenon DEF vars, RefusedByExecution
    <2>6. pc'[x] \in {"find", "sweeplock", "commit"}
      BY <1>1, <2>3, ZenonT(30)
    <2>7. ExecutionRead(x)'
      <3>1. pc'[x] \in AfterLock
        BY <2>6, Zenon DEF AfterLock
      <3>2. ExecutionLock(TargetExecution(req[x]))' = ExecutionLock(e)
        BY <2>4, Zenon DEF ExecutionLock
      <3>3. QED
        BY <1>4, <2>0, <2>1, <2>2, <2>4, <2>5, <3>1, <3>2, Zenon DEF ExecutionRead
    <2>8. AtStatement(x)'
      BY <1>1, <2>1, <2>3, ZenonT(60) DEF AtStatement
    <2>9. ~HasAttempt(x)' /\ ~Closing(x)'
      <3>1. ~HasAttempt(x)'
        BY <1>1, <2>1, <2>3, <2>6, Zenon DEF HasAttempt
      <3>2. ~Closing(x)'
        BY <2>1, <2>3, <2>6, Zenon DEF Closing
      <3>3. QED
        BY <3>1, <3>2, Zenon
    <2>10. SweepHeld(x)' /\ AttemptRead(x)' /\ ScanReady(x)'
      BY <2>1, <2>6, <2>9, Zenon DEF SweepHeld, AttemptRead, ScanReady
    <2>11. CommitReady(x)'
      <3>1. pc'[x] = "commit" => r.kind = "state"
        BY <1>1, <2>3, Zenon
      <3>2. QED
        BY <2>1, <2>6, <3>1, Zenon DEF CommitReady
    <2>12. LocksAtMost(x)'
      <3>1. ExecutionLock(TargetExecution(req[x]))' = ExecutionLock(e)
        BY <2>4, Zenon DEF ExecutionLock
      <3>2. SweepLock \notin locks'[x]
        BY <2>2, LockLemma, Zenon
      <3>3. QED
        BY <2>2, <2>6, <3>1, <3>2, Zenon DEF LocksAtMost, SweepLock
    <2>13. Grows(x)
      BY <1>4, <2>0, <2>2, Zenon DEF Grows
    <2>14. QED
      BY <2>1, <2>7, <2>8, <2>10, <2>11, <2>12, <2>13, Zenon DEF StepKeeps, TxLocal
  <1>5. QED
    BY <1>0, <1>2, <1>3, <1>4, ZenonT(60) DEF LockExecution

(* What it read of the execution stays read while it goes on. *)
LEMMA ExecutionReadStays ==
  ASSUME NEW x \in Txs, ExecutionRead(x), pc[x] \in AfterLock, pc'[x] \in AfterLock,
         req'[x] = req[x], seen'[x] = seen[x], locks[x] \subseteq locks'[x], UNCHANGED vars
  PROVE  ExecutionRead(x)' /\ TargetExecution(req[x])' = TargetExecution(req[x])
  <1>0. PICK r : r = req[x]
    BY Zenon
  <1>1. /\ NoTarget(req[x])' <=> NoTarget(r)
        /\ TargetExecution(req[x])' = TargetExecution(r)
    BY <1>0, Zenon DEF vars, NoTarget, TargetExecution
  <1>2. ExecutionLock(TargetExecution(req[x]))' = ExecutionLock(TargetExecution(r))
    BY <1>1, Zenon DEF ExecutionLock
  <1>3. (RefusedByExecution(req[x], seen[x]))' <=> RefusedByExecution(r, seen[x])
    BY <1>0, Zenon
  <1>4. (execution[TargetExecution(req[x])])' = execution[TargetExecution(r)]
    BY <1>1, Zenon DEF vars
  <1>5. ~NoTarget(req[x])'
    BY <1>0, <1>1, Zenon DEF ExecutionRead
  <1>6. CASE TargetExecution(r) = NULL
    BY <1>0, <1>1, <1>5, <1>6, Zenon DEF ExecutionRead
  <1>7. CASE TargetExecution(r) # NULL
    <2>1. ExecutionLock(TargetExecution(r)) \in locks'[x]
      BY <1>0, <1>7, Zenon DEF ExecutionRead
    <2>2. seen[x] = execution[TargetExecution(r)] /\ ~RefusedByExecution(r, seen[x])
      BY <1>0, <1>7, Zenon DEF ExecutionRead
    <2>3. QED
      BY <1>0, <1>1, <1>2, <1>3, <1>4, <1>5, <1>7, <2>1, <2>2, ZenonT(60) DEF ExecutionRead
  <1>8. QED
    BY <1>0, <1>1, <1>6, <1>7, Zenon

(* Taking the shared sweep lock. *)
LEMMA LockSweepSharedKeeps ==
  ASSUME IInv, PerTx, NEW x \in Txs, TxLocal(x), LockSweepShared(x)
  PROVE  StepKeeps(x)
  <1>0. PICK r : r = req[x]
    BY Zenon
  <1>1. /\ pc[x] = "sweeplock" /\ work[x] = {} /\ UNCHANGED vars /\ CanLock(x, SharedSweepLock)
        /\ locks[x] \subseteq {ExecutionLock(TargetExecution(r))}
    BY <1>0, Zenon DEF LockSweepShared, TxLocal, CommitReady, LocksAtMost
  <1>2. /\ r \in Requests \cap TxRequest
        /\ r.kind \in {"save", "finalize"} \/ (r.kind = "state" /\ r.closed)
    BY <1>0, <1>1, Zenon DEF TxLocal, AtStatement
  <1>3. PICK p, t : /\ p = (IF r.kind = "state" THEN "scan" ELSE "attempt")
                    /\ t = (IF r.kind = "state" THEN Scenarios ELSE <<>>)
    BY Zenon
  <1>4. /\ PerTx' /\ OthersKeep(x)
        /\ pc'[x] = p /\ req'[x] = r /\ locks'[x] = locks[x] \cup {SharedSweepLock}
        /\ seen'[x] = seen[x] /\ todo'[x] = t /\ work'[x] = {}
    <2>1. /\ locks' = [locks EXCEPT ![x] = locks[x] \cup {SharedSweepLock}]
          /\ seen' = [seen EXCEPT ![x] = seen[x]]
          /\ todo' = [todo EXCEPT ![x] = t] /\ work' = [work EXCEPT ![x] = work[x]]
          /\ Goto(x, p) /\ req' = req
      <3>1. locks' = [locks EXCEPT ![x] = locks[x] \cup {SharedSweepLock}]
        BY Zenon DEF LockSweepShared, Lock
      <3>2. seen' = seen /\ work' = work /\ req' = req
        BY Zenon DEF LockSweepShared
      <3>3. Goto(x, p) /\ todo' = [todo EXCEPT ![x] = t]
        BY <1>0, <1>3, Zenon DEF LockSweepShared
      <3>4. QED
        BY <3>1, <3>2, <3>3, Unchanged, Zenon
    <2>2. QED
      BY <1>0, <1>1, <2>1, GotoFrame, ZenonT(60)
  <1>5. /\ r.kind \in {"save", "finalize"} => p = "attempt"
        /\ r.kind = "state" => p = "scan" /\ t = Scenarios
    BY <1>3, Zenon
  <1>6. p \in {"scan", "attempt"}
    BY <1>2, <1>5, Zenon
  <1>7. ExecutionRead(x)' /\ TargetExecution(req[x])' = TargetExecution(r)
    BY <1>0, <1>1, <1>4, <1>6, ExecutionReadStays, Zenon DEF AfterLock, TxLocal
  <1>8. AtStatement(x)'
    BY <1>2, <1>4, <1>5, ZenonT(60) DEF AtStatement
  <1>9. SweepHeld(x)'
    BY <1>4, <1>6, Zenon DEF SweepHeld
  <1>10. ~HasAttempt(x)'
    BY <1>4, <1>6, Zenon DEF HasAttempt
  <1>11. AttemptRead(x)'
    BY <1>10, Zenon DEF AttemptRead
  <1>12. CommitReady(x)'
    BY <1>4, <1>6, Zenon DEF CommitReady
  <1>13. ScanReady(x)'
    <2>1. SUFFICES ASSUME Closing(x)' PROVE ScanReady(x)'
      BY Zenon DEF ScanReady
    <2>2. p = "scan" /\ todo'[x] = Scenarios /\ pc'[x] = "scan"
      BY <1>4, <1>5, <1>6, <2>1, Zenon DEF Closing
    <2>3. Scenarios \in Seq(Procs) \ {<<>>} /\ Rest(x)' = Procs
      BY <2>2, RequestAssumption, Zenon DEF Rest, Entries
    <2>4. work'[x] = {}
      BY <1>4, ZenonT(60)
    <2>5. QED
      BY <2>2, <2>3, <2>4, Zenon DEF ScanReady
  <1>14. LocksAtMost(x)'
    <2>1. ExecutionLock(TargetExecution(req[x]))' = ExecutionLock(TargetExecution(r))
      BY <1>7, Zenon DEF ExecutionLock
    <2>2. locks'[x] \subseteq {ExecutionLock(TargetExecution(r)), SharedSweepLock}
      BY <1>1, <1>4, Zenon
    <2>3. SweepLock \notin locks'[x]
      BY <2>2, LockLemma, Zenon
    <2>4. \A a : AttemptLock(a) \notin locks'[x]
      BY <2>2, LockLemma, Zenon
    <2>5. \A a : AttemptLock(a)' = AttemptLock(a)
      BY Zenon DEF AttemptLock
    <2>6. SharedSweepLock' = SharedSweepLock /\ SweepLock' = SweepLock
      BY Zenon DEF SharedSweepLock, SweepLock
    <2>7. QED
      BY <1>4, <1>6, <2>1, <2>2, <2>3, <2>4, <2>5, <2>6, Zenon DEF LocksAtMost
  <1>15. Grows(x)
    BY <1>1, <1>4, Zenon DEF Grows
  <1>16. QED
    BY <1>4, <1>7, <1>8, <1>9, <1>11, <1>12, <1>13, <1>14, <1>15, Zenon DEF StepKeeps, TxLocal

(* Looking for the prior draft of the procedure. *)
LEMMA FindPriorKeeps ==
  ASSUME IInv, PerTx, NEW x \in Txs, TxLocal(x), FindPrior(x)
  PROVE  StepKeeps(x)
  <1>0. PICK r : r = req[x]
    BY Zenon
  <1>1. CASE End(x)
    BY <1>1, EndKeeps, Zenon
  <1>2. CASE /\ ~seen[x].closed /\ DraftsOf(r.execution, r.ref) = {}
             /\ Goto(x, "commit") /\ UNCHANGED <<req, locks, seen, todo, work>>
             /\ UNCHANGED vars
    <2>1. /\ pc[x] = "find" /\ r \in Requests \cap TxRequest /\ r.kind = "start"
          /\ SweepLock \notin locks[x]
      BY <1>0, Zenon DEF FindPrior, TxLocal, AtStatement, LocksAtMost
    <2>2. /\ PerTx' /\ OthersKeep(x)
          /\ pc'[x] = "commit" /\ req'[x] = r /\ locks'[x] = locks[x]
          /\ seen'[x] = seen[x] /\ todo'[x] = todo[x] /\ work'[x] = work[x]
      BY <1>0, <1>2, JustGoto, Zenon
    <2>3. ExecutionRead(x)'
      BY <1>0, <1>2, <2>1, <2>2, ExecutionReadStays, Zenon DEF AfterLock, TxLocal
    <2>4. AtStatement(x)'
      BY <2>1, <2>2, Zenon DEF AtStatement
    <2>5. ~HasAttempt(x)' /\ ~Closing(x)'
      BY <2>1, <2>2, Zenon DEF HasAttempt, Closing
    <2>6. SweepHeld(x)' /\ AttemptRead(x)' /\ ScanReady(x)'
      BY <2>2, <2>5, ZenonT(60) DEF SweepHeld, AttemptRead, ScanReady
    <2>7. DraftsOf(req[x].execution, req[x].ref)' = DraftsOf(r.execution, r.ref)
      BY <1>2, <2>2, Zenon DEF vars, DraftsOf, AttemptsOf, Draft, Finalized
    <2>8. CommitReady(x)'
      BY <1>2, <2>1, <2>2, <2>7, Zenon DEF CommitReady
    <2>9. LocksAtMost(x)'
      <3>1. SweepLock' = SweepLock
        BY Zenon DEF SweepLock
      <3>2. QED
        BY <2>1, <2>2, <3>1, Zenon DEF LocksAtMost
    <2>10. Grows(x)
      BY <2>2, Zenon DEF Grows
    <2>11. QED
      BY <2>2, <2>3, <2>4, <2>6, <2>8, <2>9, <2>10, Zenon DEF StepKeeps, TxLocal
  <1>3. QED
    BY <1>0, <1>1, <1>2, Zenon DEF FindPrior

(* Locking and reading the attempt. *)
LEMMA LockAttemptKeeps ==
  ASSUME IInv, PerTx, NEW x \in Txs, TxLocal(x), LockAttempt(x)
  PROVE  StepKeeps(x)
  <1>0. PICK r : r = req[x]
    BY Zenon
  <1>1. CASE End(x)
    BY <1>1, EndKeeps, Zenon
  <1>2. CASE /\ Visible(r.id, r.actor) => CanLock(x, AttemptLock(r.id))
             /\ ~(r.kind = "save" /\ SaveRefused(r))
             /\ ~(r.kind = "finalize" /\ FinalizeRefused(r, seen[x]))
             /\ Lock(x, AttemptLock(r.id))
             /\ Goto(x, IF r.kind = "save" THEN "stat" ELSE "commit")
             /\ work' = [work EXCEPT ![x] = {[id |-> r.id, row |-> attempt[r.id]]}]
             /\ UNCHANGED <<req, seen, todo>> /\ UNCHANGED vars
    <2>0. PICK p, w : /\ p = (IF r.kind = "save" THEN "stat" ELSE "commit")
                      /\ w = {[id |-> r.id, row |-> attempt[r.id]]}
      BY Zenon
    <2>1. /\ pc[x] = "attempt" /\ r \in Requests \cap TxRequest
          /\ r.kind \in {"save", "finalize"}
          /\ SweepLock \notin locks[x] /\ SharedSweepLock \in locks[x]
      BY <1>0, Zenon DEF LockAttempt, TxLocal, AtStatement, LocksAtMost, SweepHeld
    <2>2. /\ PerTx' /\ OthersKeep(x)
          /\ pc'[x] = p /\ req'[x] = r /\ locks'[x] = locks[x] \cup {AttemptLock(r.id)}
          /\ seen'[x] = seen[x] /\ todo'[x] = todo[x] /\ work'[x] = w
      <3>1. locks' = [locks EXCEPT ![x] = locks[x] \cup {AttemptLock(r.id)}]
        BY <1>2, Zenon DEF Lock
      <3>2. Goto(x, p) /\ work' = [work EXCEPT ![x] = w]
        BY <1>2, <2>0, Zenon
      <3>3. QED
        BY <1>0, <1>2, <3>1, <3>2, ZenonT(60) DEF PerTx, OthersKeep, Goto
    <2>3. /\ r.kind = "save" => p = "stat"
          /\ r.kind = "finalize" => p = "commit"
          /\ p \in {"stat", "commit"}
      BY <2>0, Zenon
    <2>4. ExecutionRead(x)'
      BY <1>0, <1>2, <2>1, <2>2, <2>3, ExecutionReadStays, Zenon DEF AfterLock, TxLocal
    <2>5. AtStatement(x)'
      BY <2>1, <2>2, <2>3, ZenonT(60) DEF AtStatement
    <2>6. SweepHeld(x)'
      <3>1. SharedSweepLock' = SharedSweepLock
        BY Zenon DEF SharedSweepLock
      <3>2. QED
        BY <2>1, <2>2, <2>3, <3>1, Zenon DEF SweepHeld
    <2>7. Visible(r.id, r.actor) /\ ~Finalized(r.id)
      BY <1>2, <2>1, ZenonT(60) DEF SaveRefused, FinalizeRefused
    <2>8. attempt[r.id] # NULL
      BY <1>0, <2>1, Zenon DEF TxLocal, ExecutionRead, AfterLock, NoTarget
    <2>9. AttemptRead(x)'
      <3>0. req'[x] = r /\ seen'[x] = seen[x] /\ attempt' = attempt
        BY <1>2, <2>2, ZenonT(60) DEF vars
      <3>1. AttemptLock(req[x].id)' = AttemptLock(r.id)
        BY <2>2, Zenon DEF AttemptLock
      <3>2. Draft(req[x].id)'
        BY <2>7, <2>8, <3>0, Zenon DEF Draft, Finalized
      <3>3. SaveRefused(req[x])' <=> SaveRefused(r)
        BY <3>0, Zenon DEF SaveRefused, Visible, Finalized
      <3>4. FinalizeRefused(req[x], seen[x])' <=> FinalizeRefused(r, seen[x])
        BY <3>0, Zenon DEF FinalizeRefused, Visible, Finalized
      <3>5. (work[x] = {[id |-> req[x].id, row |-> attempt[req[x].id]]})'
        BY <1>2, <2>0, <2>2, ZenonT(60) DEF vars
      <3>6. (req[x].kind)' = r.kind
        BY <2>2, Zenon
      <3>7. AttemptLock(req[x].id)' \in locks'[x]
        BY <2>2, <3>1, Zenon
      <3>8. QED
        BY <1>2, <3>2, <3>3, <3>4, <3>5, <3>6, <3>7, ZenonT(60) DEF AttemptRead
    <2>10. CommitReady(x)' /\ ScanReady(x)'
      BY <2>1, <2>2, <2>3, Zenon DEF CommitReady, ScanReady, Closing
    <2>11. LocksAtMost(x)'
      <3>1. SweepLock \notin locks'[x]
        BY <2>1, <2>2, LockLemma, ZenonT(60)
      <3>2. SweepLock' = SweepLock
        BY Zenon DEF SweepLock
      <3>3. QED
        BY <2>2, <2>3, <3>1, <3>2, Zenon DEF LocksAtMost
    <2>12. Grows(x)
      BY <1>2, <2>2, <2>7, ZenonT(60) DEF Grows
    <2>13. QED
      BY <2>2, <2>4, <2>5, <2>6, <2>9, <2>10, <2>11, <2>12, Zenon DEF StepKeeps, TxLocal
  <1>3. QED
    BY <1>0, <1>1, <1>2, ZenonT(60) DEF LockAttempt

(* Asking the blob store for the digests of a save. *)
LEMMA StatBlobsKeeps ==
  ASSUME IInv, PerTx, NEW x \in Txs, TxLocal(x), StatBlobs(x)
  PROVE  StepKeeps(x)
  <1>0. PICK r : r = req[x]
    BY Zenon
  <1>1. CASE End(x)
    BY <1>1, EndKeeps, Zenon
  <1>2. CASE /\ r.data.media \subseteq stored
             /\ Goto(x, "commit") /\ UNCHANGED <<req, locks, seen, todo, work>>
             /\ UNCHANGED vars
    <2>1. /\ pc[x] = "stat" /\ r \in Requests \cap TxRequest /\ r.kind = "save"
          /\ SweepLock \notin locks[x] /\ SharedSweepLock \in locks[x] /\ HasAttempt(x)
      BY <1>0, ZenonT(60) DEF StatBlobs, TxLocal, AtStatement, LocksAtMost, SweepHeld, HasAttempt
    <2>2. /\ PerTx' /\ OthersKeep(x)
          /\ pc'[x] = "commit" /\ req'[x] = r /\ locks'[x] = locks[x]
          /\ seen'[x] = seen[x] /\ todo'[x] = todo[x] /\ work'[x] = work[x]
      BY <1>0, <1>2, JustGoto, Zenon
    <2>3. ExecutionRead(x)'
      BY <1>0, <1>2, <2>1, <2>2, ExecutionReadStays, Zenon DEF AfterLock, TxLocal
    <2>4. AtStatement(x)'
      BY <2>1, <2>2, Zenon DEF AtStatement
    <2>5. SweepHeld(x)'
      <3>1. SharedSweepLock' = SharedSweepLock
        BY Zenon DEF SharedSweepLock
      <3>2. QED
        BY <2>1, <2>2, <3>1, Zenon DEF SweepHeld
    <2>6. AttemptRead(x)'
      <3>0. /\ AttemptLock(r.id) \in locks[x] /\ Draft(r.id) /\ ~SaveRefused(r)
            /\ work[x] = {[id |-> r.id, row |-> attempt[r.id]]}
        BY <1>0, <2>1, Zenon DEF TxLocal, AttemptRead
      <3>a. req'[x] = r /\ attempt' = attempt
        BY <1>2, <2>2, Zenon DEF vars
      <3>1. AttemptLock(req[x].id)' \in locks'[x]
        BY <2>2, <3>0, ZenonT(60) DEF AttemptLock
      <3>2. Draft(req[x].id)'
        BY <3>0, <3>a, Zenon DEF Draft, Finalized
      <3>3. ~SaveRefused(req[x])'
        BY <3>0, <3>a, Zenon DEF SaveRefused, Visible, Finalized
      <3>4. (work[x] = {[id |-> req[x].id, row |-> attempt[req[x].id]]})'
        BY <1>2, <2>2, <3>0, ZenonT(60) DEF vars
      <3>5. (req[x].kind)' = "save"
        BY <2>1, <2>2, Zenon
      <3>6. QED
        BY <3>1, <3>2, <3>3, <3>4, <3>5, Zenon DEF AttemptRead
    <2>7. CommitReady(x)' /\ ScanReady(x)'
      BY <1>2, <2>1, <2>2, Zenon DEF CommitReady, ScanReady, Closing, vars
    <2>8. LocksAtMost(x)'
      <3>1. SweepLock' = SweepLock
        BY Zenon DEF SweepLock
      <3>2. QED
        BY <2>1, <2>2, <3>1, ZenonT(60) DEF LocksAtMost
    <2>9. Grows(x)
      BY <2>2, Zenon DEF Grows
    <2>10. QED
      BY <2>2, <2>3, <2>4, <2>5, <2>6, <2>7, <2>8, <2>9, Zenon DEF StepKeeps, TxLocal
  <1>3. QED
    BY <1>0, <1>1, <1>2, ZenonT(60) DEF StatBlobs

(* A step of the retention worker, whose transactions read no execution    *)
(* and no attempt.                                                         *)
LEMMA WorkerKeeps ==
  ASSUME NEW x \in Txs, NEW k, NEW p, NEW l, NEW w,
         pc'[x] = p, req'[x] \in Requests \cap TxRequest, req'[x].kind = k,
         locks'[x] = l, seen'[x] = NULL, work'[x] = w,
         \/ k = "sweep" /\ p \in {"exclusive", "reachable", "delete"}
         \/ k = "retain" /\ p = "expire",
         p = "exclusive" => l = {},
         SweepLock \in l <=> p \in {"reachable", "delete"},
         k = "sweep" => w \subseteq Blobs,
         p = "delete" => w \cap Referenced' = {}
  PROVE  TxLocal(x)'
  <1>1. p \in {"exclusive", "reachable", "delete", "expire"} /\ k \in {"sweep", "retain"}
    BY ZenonT(60)
  <1>2. ~HasAttempt(x)' /\ ~Closing(x)' /\ p \notin AfterLock
    BY <1>1, ZenonT(60) DEF HasAttempt, Closing, AfterLock
  <1>3. AtStatement(x)' /\ ExecutionRead(x)'
    BY <1>1, <1>2, ZenonT(60) DEF AtStatement, ExecutionRead
  <1>4. SweepLock' = SweepLock
    BY Zenon DEF SweepLock
  <1>5. SweepHeld(x)' /\ AttemptRead(x)' /\ ScanReady(x)'
    BY <1>1, <1>2, <1>4, Zenon DEF SweepHeld, AttemptRead, ScanReady
  <1>6. Blobs' = Blobs
    BY Zenon
  <1>7. CommitReady(x)'
    BY <1>1, <1>6, Zenon DEF CommitReady
  <1>8. LocksAtMost(x)'
    BY <1>1, <1>4, Zenon DEF LocksAtMost
  <1>9. QED
    BY <1>3, <1>5, <1>7, <1>8, ZenonT(60) DEF TxLocal

(* What a sweep or a retention transaction has before its next statement. *)
LEMMA AtWorker ==
  ASSUME NEW x \in Txs, TxLocal(x),
         pc[x] \in {"list", "exclusive", "reachable", "delete", "select", "expire"}
  PROVE  /\ req[x] \in Requests \cap TxRequest
         /\ pc[x] \in {"select", "expire"} => req[x].kind = "retain"
         /\ pc[x] \notin {"select", "expire"} => req[x].kind = "sweep"
         /\ seen[x] = NULL
         /\ pc[x] \in {"list", "exclusive", "select"} => locks[x] = {}
         /\ SweepLock \in locks[x] <=> pc[x] \in {"reachable", "delete"}
         /\ pc[x] \in {"exclusive", "reachable", "delete"} => work[x] \subseteq Blobs
         /\ pc[x] = "delete" => work[x] \cap Referenced = {}
  <1>1. /\ req[x] \in Requests \cap TxRequest
        /\ pc[x] \in {"select", "expire"} => req[x].kind = "retain"
        /\ pc[x] \notin {"select", "expire"} => req[x].kind = "sweep"
    BY Zenon DEF TxLocal, AtStatement
  <1>2. seen[x] = NULL
    BY Zenon DEF TxLocal, ExecutionRead, AfterLock
  <1>3. /\ pc[x] \in {"list", "exclusive", "select"} => locks[x] = {}
        /\ SweepLock \in locks[x] <=> pc[x] \in {"reachable", "delete"}
    BY Zenon DEF TxLocal, LocksAtMost, SweepHeld
  <1>4. /\ pc[x] \in {"exclusive", "reachable", "delete"} => work[x] \subseteq Blobs
        /\ pc[x] = "delete" => work[x] \cap Referenced = {}
    BY Zenon DEF TxLocal, CommitReady
  <1>5. QED
    BY <1>1, <1>2, <1>3, <1>4, Zenon

(* The sweep lists the objects past the grace period. *)
LEMMA ListBlobsKeeps ==
  ASSUME IInv, PerTx, NEW x \in Txs, TxLocal(x), ListBlobs(x)
  PROVE  StepKeeps(x)
  <1>1. pc[x] = "list"
    BY Zenon DEF ListBlobs
  <1>2. PICK batch \in SUBSET stored : work' = [work EXCEPT ![x] = batch]
    BY Zenon DEF ListBlobs
  <1>3. /\ PerTx' /\ OthersKeep(x)
        /\ pc'[x] = "exclusive" /\ req'[x] = req[x] /\ locks'[x] = locks[x]
        /\ seen'[x] = seen[x] /\ work'[x] = batch
    <2>1. /\ locks' = locks /\ seen' = seen /\ todo' = todo /\ req' = req
          /\ Goto(x, "exclusive")
      BY Zenon DEF ListBlobs
    <2>2. QED
      BY <1>2, <2>1, ZenonT(60) DEF PerTx, OthersKeep, Goto
  <1>4. batch \subseteq Blobs
    BY <1>2, Zenon DEF IInv, TypeOK
  <1>5. TxLocal(x)'
    BY <1>1, <1>3, <1>4, AtWorker, WorkerKeeps, ZenonT(60)
  <1>6. QED
    BY <1>3, <1>5, Zenon DEF StepKeeps, Grows

(* The sweep takes the lock exclusively. *)
LEMMA LockSweepKeeps ==
  ASSUME IInv, PerTx, NEW x \in Txs, TxLocal(x), LockSweep(x)
  PROVE  StepKeeps(x)
  <1>1. pc[x] = "exclusive" /\ CanLock(x, SweepLock)
    BY Zenon DEF LockSweep
  <1>2. /\ PerTx' /\ OthersKeep(x)
        /\ pc'[x] = "reachable" /\ req'[x] = req[x] /\ locks'[x] = locks[x] \cup {SweepLock}
        /\ seen'[x] = seen[x] /\ work'[x] = work[x]
    <2>1. /\ locks' = [locks EXCEPT ![x] = locks[x] \cup {SweepLock}]
          /\ seen' = seen /\ todo' = todo /\ req' = req /\ work' = work
          /\ Goto(x, "reachable")
      BY Zenon DEF LockSweep, Lock
    <2>2. QED
      BY <2>1, Zenon DEF PerTx, OthersKeep, Goto
  <1>3. TxLocal(x)'
    BY <1>1, <1>2, AtWorker, WorkerKeeps, ZenonT(60)
  <1>4. QED
    BY <1>1, <1>2, <1>3, Zenon DEF StepKeeps, Grows

(* The sweep passes over what is referenced. *)
LEMMA QueryReferencedKeeps ==
  ASSUME IInv, PerTx, NEW x \in Txs, TxLocal(x), QueryReferenced(x)
  PROVE  StepKeeps(x)
  <1>1. pc[x] = "reachable"
    BY Zenon DEF QueryReferenced
  <1>2. /\ PerTx' /\ OthersKeep(x)
        /\ pc'[x] = "delete" /\ req'[x] = req[x] /\ locks'[x] = locks[x]
        /\ seen'[x] = seen[x] /\ work'[x] = work[x] \ Referenced
    <2>1. /\ work' = [work EXCEPT ![x] = work[x] \ Referenced]
          /\ seen' = seen /\ todo' = todo /\ req' = req /\ locks' = locks
          /\ Goto(x, "delete")
      BY Zenon DEF QueryReferenced
    <2>2. QED
      BY <2>1, Zenon DEF PerTx, OthersKeep, Goto
  <1>3. Referenced' = Referenced
    BY Zenon DEF QueryReferenced, vars, Referenced
  <1>4. TxLocal(x)'
    BY <1>1, <1>2, <1>3, AtWorker, WorkerKeeps
  <1>5. QED
    BY <1>2, <1>4, Zenon DEF StepKeeps, Grows

(* The sweep deletes one object, or ends. *)
LEMMA DeleteBlobKeeps ==
  ASSUME IInv, PerTx, NEW x \in Txs, TxLocal(x), DeleteBlob(x)
  PROVE  StepKeeps(x)
  <1>1. CASE End(x)
    BY <1>1, EndKeeps, Zenon
  <1>2. ASSUME NEW b \in work[x], work' = [work EXCEPT ![x] = work[x] \ {b}],
               UNCHANGED <<pc, req, locks, seen, todo>>
        PROVE  StepKeeps(x)
    <2>1. pc[x] = "delete"
      BY Zenon DEF DeleteBlob
    <2>2. /\ PerTx' /\ OthersKeep(x)
          /\ pc'[x] = pc[x] /\ req'[x] = req[x] /\ locks'[x] = locks[x]
          /\ seen'[x] = seen[x] /\ work'[x] = work[x] \ {b}
      BY <1>2, Zenon DEF PerTx, OthersKeep
    <2>3. Referenced' = Referenced
      BY ZenonT(60) DEF DeleteBlob, Referenced
    <2>4. TxLocal(x)'
      BY <2>1, <2>2, <2>3, AtWorker, WorkerKeeps
    <2>5. QED
      BY <2>2, <2>4, Zenon DEF StepKeeps, Grows
  <1>3. QED
    BY <1>1, <1>2, Zenon DEF DeleteBlob

(* Retention selects the expired rows. *)
LEMMA SelectExpiredKeeps ==
  ASSUME IInv, PerTx, NEW x \in Txs, TxLocal(x), SelectExpired(x)
  PROVE  StepKeeps(x)
  <1>1. pc[x] = "select"
    BY Zenon DEF SelectExpired
  <1>2. PICK batch, order : /\ work' = [work EXCEPT ![x] = batch]
                            /\ todo' = [todo EXCEPT ![x] = order]
    BY Zenon DEF SelectExpired
  <1>3. /\ PerTx' /\ OthersKeep(x)
        /\ pc'[x] = "expire" /\ req'[x] = req[x] /\ locks'[x] = locks[x]
        /\ seen'[x] = seen[x] /\ work'[x] = batch
    <2>1. seen' = seen /\ req' = req /\ locks' = locks /\ Goto(x, "expire")
      BY Zenon DEF SelectExpired
    <2>2. QED
      BY <1>2, <2>1, Zenon DEF PerTx, OthersKeep, Goto
  <1>4. TxLocal(x)'
    BY <1>1, <1>3, AtWorker, WorkerKeeps, Zenon
  <1>5. QED
    BY <1>3, <1>4, Zenon DEF StepKeeps, Grows

(* Retention's DELETE locks the attempt of one row, or passes over it. *)
LEMMA LockExpiredKeeps ==
  ASSUME IInv, PerTx, NEW x \in Txs, TxLocal(x), LockExpired(x)
  PROVE  StepKeeps(x)
  <1>1. pc[x] = "expire"
    BY Zenon DEF LockExpired
  <1>2. PICK a, more : /\ more \in BOOLEAN /\ (more => CanLock(x, AttemptLock(a)))
                       /\ locks' = [locks EXCEPT ![x] = IF more THEN locks[x] \cup {AttemptLock(a)}
                                                        ELSE locks[x]]
    <2>1. PICK ev : ev = Head(todo[x])
      BY Zenon
    <2>2. /\ ev \in evidence => CanLock(x, AttemptLock(ev.attempt))
          /\ locks' = [locks EXCEPT ![x] = IF ev \in evidence THEN locks[x] \cup {AttemptLock(ev.attempt)}
                                           ELSE locks[x]]
      BY <2>1, Zenon DEF LockExpired
    <2>3. CASE ev \in evidence
      BY <2>2, <2>3, Zenon
    <2>4. CASE ev \notin evidence
      BY <2>2, <2>4, Zenon
    <2>5. QED
      BY <2>3, <2>4, Zenon
  <1>3. PICK l : l = IF more THEN locks[x] \cup {AttemptLock(a)} ELSE locks[x]
    BY Zenon
  <1>4. /\ PerTx' /\ OthersKeep(x)
        /\ pc'[x] = pc[x] /\ req'[x] = req[x] /\ locks'[x] = l
        /\ seen'[x] = seen[x] /\ work'[x] = work[x]
    <2>1. /\ pc' = pc /\ req' = req /\ seen' = seen /\ work' = work
          /\ todo' = [todo EXCEPT ![x] = Tail(todo[x])]
      BY Zenon DEF LockExpired
    <2>2. locks' = [locks EXCEPT ![x] = l]
      BY <1>2, <1>3, Zenon
    <2>3. QED
      BY <2>1, <2>2, Zenon DEF PerTx, OthersKeep
  <1>5. SweepLock \notin l
    BY <1>1, <1>3, AtWorker, LockLemma, ZenonT(60)
  <1>6. TxLocal(x)'
    BY <1>1, <1>4, <1>5, AtWorker, WorkerKeeps, Zenon
  <1>7. Grows(x)
    BY <1>2, <1>3, <1>4, Zenon DEF Grows
  <1>8. QED
    BY <1>4, <1>6, <1>7, Zenon DEF StepKeeps

(* The row of a closure's request, whose fields a step leaves alone. *)
LEMMA SkippedRowOf ==
  ASSUME NEW x, NEW r, req'[x] = r
  PROVE  \A a : SkippedRow(req[x].execution, a, req[x].actor)'
                 = SkippedRow(r.execution, a, r.actor)'
  BY DEF SkippedRow, GeneratedRow, SkipRow, SkipUnfinished, NewAttempt, InitialDraft, Cleared

(* The head of a sequence and the rest of it. *)
LEMMA HeadTail ==
  ASSUME NEW S, NEW s \in Seq(S) \ {<<>>}
  PROVE  /\ Head(s) \in S /\ Tail(s) \in Seq(S)
         /\ Len(s) = 1 => Tail(s) = <<>>
         /\ Len(s) # 1 => Tail(s) # <<>>
         /\ Entries(s) = {Head(s)} \cup Entries(Tail(s))
  <1>1. /\ Head(s) = s[1] /\ Head(s) \in S /\ Tail(s) \in Seq(S) /\ Len(s) \in Nat \ {0}
        /\ Len(Tail(s)) = Len(s) - 1 /\ \A i \in 1 .. Len(s) - 1 : Tail(s)[i] = s[i + 1]
    OBVIOUS
  <1>2. /\ Len(s) = 1 => Tail(s) = <<>>
        /\ Len(s) # 1 => Tail(s) # <<>>
    BY <1>1
  <1>3. DOMAIN s = 1 .. Len(s) /\ DOMAIN Tail(s) = 1 .. Len(s) - 1
    BY <1>1
  <1>4. ASSUME NEW i \in DOMAIN s
        PROVE  s[i] \in {Head(s)} \cup Entries(Tail(s))
    <2>1. CASE i = 1
      BY <1>1, <2>1, Zenon
    <2>2. CASE i # 1
      <3>1. i - 1 \in DOMAIN Tail(s) /\ Tail(s)[i - 1] = s[i]
        BY <1>1, <1>3, <2>2
      <3>2. QED
        BY <3>1, Zenon DEF Entries
    <2>3. QED
      BY <2>1, <2>2, Zenon
  <1>5. ASSUME NEW j \in DOMAIN Tail(s) PROVE Tail(s)[j] \in Entries(s)
    <2>1. j + 1 \in DOMAIN s /\ Tail(s)[j] = s[j + 1]
      BY <1>1, <1>3
    <2>2. QED
      BY <2>1, Zenon DEF Entries
  <1>6. Head(s) \in Entries(s)
    BY <1>1, <1>3 DEF Entries
  <1>7. Entries(s) \subseteq {Head(s)} \cup Entries(Tail(s))
    <2>1. ASSUME NEW v \in Entries(s) PROVE v \in {Head(s)} \cup Entries(Tail(s))
      <3>1. PICK i \in DOMAIN s : v = s[i]
        BY Zenon DEF Entries
      <3>2. QED
        BY <1>4, <3>1, Zenon
    <2>2. QED
      BY <2>1, Zenon
  <1>8. Entries(Tail(s)) \subseteq Entries(s)
    <2>1. ASSUME NEW v \in Entries(Tail(s)) PROVE v \in Entries(s)
      <3>1. PICK j \in DOMAIN Tail(s) : v = Tail(s)[j]
        BY Zenon DEF Entries
      <3>2. QED
        BY <1>5, <3>1, Zenon
    <2>2. QED
      BY <2>1, Zenon
  <1>9. QED
    BY <1>1, <1>2, <1>6, <1>7, <1>8, Zenon

(* One procedure's rows join the work of the closure. *)
LEMMA ScanNextKeeps ==
  ASSUME IInv, PerTx, NEW x \in Txs, TxLocal(x), pc[x] = "scan", UNCHANGED vars,
         NEW e, e = req[x].execution, NEW u, u = req[x].actor, NEW p, p = Head(todo[x]),
         NEW newLocks, NEW rows, ScanNext(x, newLocks, rows),
         \A l \in newLocks : /\ CanLock(x, l)
                             /\ \E a \in AttemptIds : /\ l = AttemptLock(a) /\ attempt[a] # NULL
                                                      /\ attempt[a].execution = e,
         \A w \in rows : /\ w = [id |-> w.id, row |-> w.row]
                         /\ w.row = SkippedRow(e, w.id, u)
                         /\ w.id \in Unfinished(e),
         DraftsOf(e, p) \subseteq {w.id : w \in rows},
         AttemptsOf(e, p) = {} => GeneratedId(e, p) \in {w.id : w \in rows}
  PROVE  StepKeeps(x)
  <1>1. CASE End(x)
    BY <1>1, EndKeeps, Zenon
  <1>2. CASE /\ ~\E w \in rows : ~EvidenceCreate(w.row.data)
             /\ locks' = [locks EXCEPT ![x] = locks[x] \cup newLocks]
             /\ work' = [work EXCEPT ![x] = work[x] \cup rows]
             /\ todo' = [todo EXCEPT ![x] = Tail(todo[x])]
             /\ Goto(x, IF Len(todo[x]) = 1 THEN "commit" ELSE "scan")
             /\ UNCHANGED <<req, seen>>
    <2>0. PICK r : r = req[x]
      BY Zenon
    <2>1. /\ r \in Requests \cap TxRequest /\ r.kind = "state" /\ r.closed
          /\ SweepLock \notin locks[x] /\ SharedSweepLock \in locks[x] /\ Closing(x)
      <3>1. r \in Requests \cap TxRequest /\ r.kind = "state" /\ r.closed
        BY <2>0, Zenon DEF TxLocal, AtStatement
      <3>2. Closing(x)
        BY <2>0, <3>1, Zenon DEF Closing
      <3>3. QED
        BY <3>1, <3>2, Zenon DEF TxLocal, LocksAtMost, SweepHeld
    <2>2. PICK q : q = IF Len(todo[x]) = 1 THEN "commit" ELSE "scan"
      BY Zenon
    <2>3. /\ PerTx' /\ OthersKeep(x)
          /\ pc'[x] = q /\ req'[x] = r /\ locks'[x] = locks[x] \cup newLocks
          /\ seen'[x] = seen[x] /\ todo'[x] = Tail(todo[x]) /\ work'[x] = work[x] \cup rows
      <3>1. Goto(x, q)
        BY <1>2, <2>2, Zenon
      <3>2. QED
        BY <1>2, <2>0, <3>1, Zenon DEF PerTx, OthersKeep, Goto
    <2>4. q \in {"scan", "commit"}
      BY <2>2, Zenon
    <2>5. ExecutionRead(x)'
      BY <1>2, <2>0, <2>3, <2>4, ExecutionReadStays, Zenon DEF AfterLock, TxLocal
    <2>6. AtStatement(x)'
      BY <2>1, <2>3, <2>4, ZenonT(60) DEF AtStatement
    <2>7. ~HasAttempt(x)'
      BY <2>1, <2>3, <2>4, Zenon DEF HasAttempt
    <2>8. SweepHeld(x)' /\ AttemptRead(x)'
      <3>1. SharedSweepLock' = SharedSweepLock
        BY Zenon DEF SharedSweepLock
      <3>2. QED
        BY <2>1, <2>3, <2>4, <2>7, <3>1, Zenon DEF SweepHeld, AttemptRead
    <2>9. CommitReady(x)'
      <3>1. ~(req'[x].kind = "state" /\ ~req'[x].closed)
        BY <2>1, <2>3, ZenonT(60)
      <3>2. QED
        BY <2>1, <2>3, <2>4, <3>1, Zenon DEF CommitReady
    <2>10. LocksAtMost(x)'
      <3>1. SweepLock \notin locks'[x]
        BY <2>1, <2>3, LockLemma, Zenon
      <3>2. ASSUME NEW a \in AttemptIds, AttemptLock(a) \in locks'[x]
            PROVE  attempt'[a] # NULL /\ attempt'[a].execution = r.execution
        <4>1. attempt[a] # NULL /\ attempt[a].execution = e
          <5>1. CASE AttemptLock(a) \in locks[x]
            BY <5>1, Zenon DEF TxLocal, LocksAtMost
          <5>2. CASE AttemptLock(a) \in newLocks
            BY <5>2, LockLemma, ZenonT(60)
          <5>3. QED
            BY <2>3, <3>2, <5>1, <5>2, Zenon
        <4>2. QED
          BY <2>0, <4>1, Zenon DEF vars
      <3>3. SweepLock' = SweepLock /\ \A a : AttemptLock(a)' = AttemptLock(a)
        BY Zenon DEF SweepLock, AttemptLock
      <3>4. QED
        BY <2>3, <2>4, <3>1, <3>2, <3>3, Zenon DEF LocksAtMost
    <2>11. ScanReady(x)'
      <3>0. todo[x] \in Seq(Procs) \ {<<>>}
        BY <2>1, Zenon DEF TxLocal, ScanReady
      <3>1. /\ Tail(todo[x]) \in Seq(Procs)
            /\ q = "scan" => Tail(todo[x]) # <<>>
            /\ q = "commit" => Tail(todo[x]) = <<>>
        BY <2>2, <3>0, HeadTail, Zenon
      <3>2. Rest(x) = {p} \cup Rest(x)'
        <4>1. Rest(x) = Entries(todo[x]) /\ Rest(x)' = Entries(Tail(todo[x]))
          BY <2>3, ZenonT(60) DEF Rest, Entries
        <4>2. QED
          BY <3>0, <4>1, HeadTail, Zenon
      <3>3. /\ \A c \in Procs : /\ AttemptsOf(req[x].execution, c)' = AttemptsOf(e, c)
                                /\ DraftsOf(req[x].execution, c)' = DraftsOf(e, c)
            /\ Unfinished(req[x].execution)' = Unfinished(e)
            /\ \A a : SkippedRow(req[x].execution, a, req[x].actor)' = SkippedRow(e, a, u)
        <4>1. \A c \in Procs : /\ AttemptsOf(req[x].execution, c)' = AttemptsOf(e, c)
                               /\ DraftsOf(req[x].execution, c)' = DraftsOf(e, c)
          BY <2>0, <2>3, ZenonT(60) DEF vars, DraftsOf, AttemptsOf, Finalized
        <4>2. Unfinished(req[x].execution)' = Unfinished(e)
          <5>1. (req[x].execution)' = e
            BY <2>0, <2>3, Zenon
          <5>2. \A a : a \in Unfinished(req[x].execution)' <=> a \in Unfinished(e)
            BY <4>1, <5>1, Zenon DEF Unfinished, GeneratedId
          <5>3. QED
            BY <5>2, Zenon DEF Unfinished
        <4>3. \A a : SkippedRow(req[x].execution, a, req[x].actor)' = SkippedRow(e, a, u)
          <5>1. req'[x] = r /\ r.execution = e /\ r.actor = u /\ attempt' = attempt
            BY <2>0, <2>3, Zenon DEF vars
          <5>2. \A a : SkippedRow(req[x].execution, a, req[x].actor)'
                       = SkippedRow(r.execution, a, r.actor)'
            BY <5>1, SkippedRowOf, Zenon
          <5>3. \A a : SkippedRow(r.execution, a, r.actor)' = SkippedRow(r.execution, a, r.actor)
            BY <5>1, ZenonT(60) DEF SkippedRow, GeneratedRow
          <5>4. QED
            BY <5>1, <5>2, <5>3, Zenon
        <4>4. QED
          BY <4>1, <4>2, <4>3, Zenon
      <3>4. ASSUME NEW w \in work'[x]
            PROVE  /\ w = [id |-> w.id, row |-> w.row] /\ w.row = SkippedRow(e, w.id, u)
                   /\ w.id \in Unfinished(e) /\ EvidenceCreate(w.row.data)
        <4>1. CASE w \in work[x]
          BY <2>1, <4>1, Zenon DEF TxLocal, ScanReady
        <4>2. CASE w \in rows
          BY <1>2, <4>2, Zenon
        <4>3. QED
          BY <2>3, <3>4, <4>1, <4>2, Zenon
      <3>5. ASSUME NEW c \in Procs, c \notin Rest(x)'
            PROVE  /\ DraftsOf(e, c) \subseteq {w.id : w \in work'[x]}
                   /\ AttemptsOf(e, c) = {} => GeneratedId(e, c) \in {w.id : w \in work'[x]}
        <4>0. /\ {w.id : w \in work[x]} \subseteq {w.id : w \in work'[x]}
              /\ {w.id : w \in rows} \subseteq {w.id : w \in work'[x]}
          BY <2>3, Zenon
        <4>1. CASE c = p
          BY <4>0, <4>1, Zenon
        <4>2. CASE c # p
          <5>1. c \notin Rest(x)
            BY <3>2, <3>5, <4>2, Zenon
          <5>2. /\ DraftsOf(e, c) \subseteq {w.id : w \in work[x]}
                /\ AttemptsOf(e, c) = {} => GeneratedId(e, c) \in {w.id : w \in work[x]}
            BY <2>1, <5>1, Zenon DEF TxLocal, ScanReady
          <5>3. QED
            BY <4>0, <5>2, Zenon
        <4>3. QED
          BY <4>1, <4>2, Zenon
      <3>6. (req[x].execution)' = e /\ (req[x].actor)' = u
        BY <2>0, <2>3, Zenon
      <3>7. /\ pc'[x] = "scan" => todo'[x] \in Seq(Procs) \ {<<>>}
            /\ pc'[x] = "commit" => todo'[x] = <<>>
        BY <2>3, <3>1, Zenon
      <3>8. /\ \A w \in work'[x] :
                 /\ w.row = SkippedRow(req[x].execution, w.id, req[x].actor)'
                 /\ w.id \in Unfinished(req[x].execution)'
            /\ \A c \in Procs : c \in Rest(x)' \/
                 /\ DraftsOf(req[x].execution, c)' \subseteq {w.id : w \in work'[x]}
                 /\ AttemptsOf(req[x].execution, c)' = {} =>
                      GeneratedId(req[x].execution, c)' \in {w.id : w \in work'[x]}
        BY <3>3, <3>4, <3>5, <3>6, ZenonT(60) DEF GeneratedId
      <3>9. QED
        BY <3>4, <3>7, <3>8, ZenonT(60) DEF ScanReady
    <2>12. Grows(x)
      BY <2>3, Zenon DEF Grows
    <2>13. QED
      BY <2>3, <2>5, <2>6, <2>8, <2>9, <2>10, <2>11, <2>12, Zenon DEF StepKeeps, TxLocal
  <1>3. QED
    BY <1>1, <1>2, ZenonT(60) DEF ScanNext

(* Visiting the next procedure of the package. *)
LEMMA ScanScenarioKeeps ==
  ASSUME IInv, PerTx, NEW x \in Txs, TxLocal(x), ScanScenario(x)
  PROVE  StepKeeps(x)
  <1>0. PICK e, u, p : e = req[x].execution /\ u = req[x].actor /\ p = Head(todo[x])
    BY ZenonT(60)
  <1>1. pc[x] = "scan" /\ UNCHANGED vars
    BY Zenon DEF ScanScenario
  <1>2. e \in Executions /\ p \in Procs
    <2>1. req[x] \in Requests \cap TxRequest /\ req[x].kind = "state" /\ req[x].closed
      BY <1>1, Zenon DEF TxLocal, AtStatement
    <2>2. Closing(x)
      BY <1>1, <2>1, Zenon DEF Closing
    <2>3. todo[x] \in Seq(Procs) \ {<<>>}
      BY <1>1, <2>2, Zenon DEF TxLocal, ScanReady
    <2>4. QED
      BY <1>0, <2>1, <2>3, KindLemma, HeadTail, ZenonT(60)
  <1>3. CASE /\ AttemptsOf(e, p) = {}
             /\ ScanNext(x, {}, {[id |-> GeneratedId(e, p), row |-> SkipRow(GeneratedRow(e, p, u))]})
    <2>1. GeneratedId(e, p) \in AttemptIds /\ GeneratedId(e, p)[2] = p
      BY <1>2, Zenon DEF GeneratedId, GeneratedIds, AttemptIds
    <2>2. attempt[GeneratedId(e, p)] = NULL
      BY <1>2, <1>3, <2>1, ZenonT(60) DEF IInv, GeneratedIdIsOwn, AttemptsOf
    <2>3. SkippedRow(e, GeneratedId(e, p), u) = SkipRow(GeneratedRow(e, p, u))
      BY <2>1, <2>2, Zenon DEF SkippedRow
    <2>4. GeneratedId(e, p) \in Unfinished(e)
      BY <1>2, <1>3, <2>1, Zenon DEF Unfinished
    <2>5. DraftsOf(e, p) = {}
      BY <1>3, Zenon DEF DraftsOf
    <2>6. PICK w : w = [id |-> GeneratedId(e, p), row |-> SkipRow(GeneratedRow(e, p, u))]
      BY Zenon
    <2>7. /\ w = [id |-> w.id, row |-> w.row] /\ w.row = SkippedRow(e, w.id, u)
          /\ w.id = GeneratedId(e, p) /\ w.id \in Unfinished(e)
      BY <2>3, <2>4, <2>6, Zenon
    <2>8. ScanNext(x, {}, {w})
      BY <1>3, <2>6, Zenon
    <2>9. GeneratedId(e, p) \in {v.id : v \in {w}}
      BY <2>7, Zenon
    <2>10. QED
      BY <1>0, <1>1, <2>5, <2>7, <2>8, <2>9, ScanNextKeeps
  <1>4. ASSUME NEW a \in LatestOf(e, p), CanLock(x, AttemptLock(a)),
               ScanNext(x, {AttemptLock(a)},
                        IF Finalized(a) THEN {} ELSE {[id |-> a, row |-> SkipRow(attempt[a])]})
        PROVE  StepKeeps(x)
    <2>1. a \in AttemptsOf(e, p)
      BY <1>4, Zenon DEF LatestOf, DraftsOf
    <2>2. a \in AttemptIds /\ attempt[a] # NULL /\ attempt[a].execution = e /\ attempt[a].ref = p
      BY <2>1, Zenon DEF AttemptsOf
    <2>2a. \A l \in {AttemptLock(a)} : /\ CanLock(x, l)
                                       /\ \E b \in AttemptIds : /\ l = AttemptLock(b) /\ attempt[b] # NULL
                                                                /\ attempt[b].execution = e
      BY <1>4, <2>2, Zenon
    <2>3. CASE Finalized(a)
      <3>1. DraftsOf(e, p) = {}
        BY <1>4, <2>3, Zenon DEF LatestOf, DraftsOf
      <3>2. ScanNext(x, {AttemptLock(a)}, {})
        BY <1>4, <2>3, Zenon
      <3>3. PICK none : none = {}
        BY Zenon
      <3>4. /\ \A w \in none : /\ w = [id |-> w.id, row |-> w.row] /\ w.row = SkippedRow(e, w.id, u)
                              /\ w.id \in Unfinished(e)
            /\ DraftsOf(e, p) \subseteq {w.id : w \in none}
            /\ AttemptsOf(e, p) # {} /\ ScanNext(x, {AttemptLock(a)}, none)
        BY <2>1, <3>1, <3>2, <3>3, Zenon
      <3>5. QED
        BY <1>0, <1>1, <2>2a, <3>4, ScanNextKeeps
    <2>4. CASE ~Finalized(a)
      <3>1. a \in DraftsOf(e, p)
        BY <2>1, <2>4, Zenon DEF DraftsOf
      <3>2. DraftsOf(e, p) \subseteq {a}
        BY <1>2, <3>1, Zenon DEF IInv, OneSharedDraft, DraftsOf, AttemptsOf, Draft
      <3>3. PICK w : w = [id |-> a, row |-> SkipRow(attempt[a])]
        BY Zenon
      <3>4. a \in Unfinished(e)
        BY <1>2, <2>2, <3>1, Zenon DEF Unfinished
      <3>5. SkippedRow(e, a, u) = SkipRow(attempt[a])
        BY <2>2, Zenon DEF SkippedRow
      <3>6. /\ w = [id |-> w.id, row |-> w.row] /\ w.row = SkippedRow(e, w.id, u)
            /\ w.id = a /\ w.id \in Unfinished(e)
        BY <3>3, <3>4, <3>5, Zenon
      <3>7. ScanNext(x, {AttemptLock(a)}, {w})
        BY <1>4, <2>4, <3>3, Zenon
      <3>8. DraftsOf(e, p) \subseteq {v.id : v \in {w}}
        BY <3>2, <3>6, Zenon
      <3>9. /\ \A v \in {w} : /\ v = [id |-> v.id, row |-> v.row] /\ v.row = SkippedRow(e, v.id, u)
                             /\ v.id \in Unfinished(e)
            /\ AttemptsOf(e, p) # {}
        BY <2>1, <3>6, Zenon
      <3>10. QED
        BY <1>0, <1>1, <2>2a, <3>7, <3>8, <3>9, ScanNextKeeps
    <2>5. QED
      BY <2>3, <2>4, Zenon
  <1>5. QED
    BY <1>0, <1>3, <1>4, Zenon DEF ScanScenario

(***************************************************************************)
(* Locks exclude each other, and every step preserves the invariant.       *)
(***************************************************************************)
(* Conflicts are mutual. *)
LEMMA ConflictsAreMutual ==
  ASSUME NEW l, NEW m, m \in Conflicting(l)
  PROVE  l \in Conflicting(m)
  BY Zenon DEF Conflicting, SharedSweepLock, SweepLock

(* Taking only free locks keeps them exclusive. *)
LEMMA ExclusionStep ==
  ASSUME LocksExclude, NEW x \in Txs, OthersKeep(x), Grows(x)
  PROVE  LocksExclude'
  <1>1. ASSUME NEW y \in Txs, y # x, NEW l \in locks'[x], NEW m \in locks'[y]
        PROVE  m \notin Conflicting(l)
    <2>1. m \in locks[y]
      BY <1>1, Zenon DEF OthersKeep
    <2>2. CASE l \in locks[x]
      BY <1>1, <2>1, <2>2, Zenon DEF LocksExclude
    <2>3. CASE CanLock(x, l)
      BY <1>1, <2>1, <2>3, Zenon DEF CanLock, Holders
    <2>4. QED
      BY <1>1, <2>2, <2>3, Zenon DEF Grows
  <1>2. ASSUME NEW y \in Txs, NEW z \in Txs, y # z, NEW l \in locks'[y], NEW m \in locks'[z]
        PROVE  m \notin Conflicting(l)
    <2>1. CASE y = x
      BY <1>1, <1>2, <2>1, Zenon
    <2>2. CASE z = x
      BY <1>1, <1>2, <2>2, ConflictsAreMutual, Zenon
    <2>3. CASE y # x /\ z # x
      <3>1. l \in locks[y] /\ m \in locks[z]
        BY <1>2, <2>3, Zenon DEF OthersKeep
      <3>2. QED
        BY <1>2, <3>1, Zenon DEF LocksExclude
    <2>4. QED
      BY <2>1, <2>2, <2>3, Zenon
  <1>3. \A l : Conflicting(l)' = Conflicting(l)
    BY Zenon DEF Conflicting, SharedSweepLock, SweepLock
  <1>4. QED
    BY <1>2, <1>3, Zenon DEF LocksExclude

(* Where a waiting client is, and what it may wait for. *)
LEMMA WaitingAt ==
  ASSUME TxInv, NEW y \in Txs, req[y].kind # "retain", NEW l \in Wants(y)
  PROVE  /\ pc[y] \in {"execution", "sweeplock", "exclusive", "attempt", "scan"}
         /\ pc[y] = "sweeplock" => l = SharedSweepLock
         /\ pc[y] = "attempt" => l = AttemptLock(req[y].id)
         /\ pc[y] = "scan" => \E a \in LatestOf(req[y].execution, Head(todo[y])) : l = AttemptLock(a)
         /\ SweepLock \notin locks[y]
  <1>0. TxLocal(y)
    BY Zenon DEF TxInv
  <1>1. pc[y] # "expire"
    BY <1>0, NullAssumption, Zenon DEF TxLocal, AtStatement
  <1>2. pc[y] \in {"execution", "sweeplock", "exclusive", "attempt", "scan"}
    BY <1>1, Zenon DEF Wants
  <1>3. pc[y] = "sweeplock" => l = SharedSweepLock
    BY Zenon DEF Wants
  <1>4. pc[y] = "attempt" => l = AttemptLock(req[y].id)
    BY Zenon DEF Wants
  <1>5. pc[y] = "scan" => \E a \in LatestOf(req[y].execution, Head(todo[y])) : l = AttemptLock(a)
    <2>1. SUFFICES ASSUME pc[y] = "scan"
                   PROVE  \E a \in LatestOf(req[y].execution, Head(todo[y])) : l = AttemptLock(a)
      BY Zenon
    <2>2. Wants(y) = {AttemptLock(a) : a \in LatestOf(req[y].execution, Head(todo[y]))}
      BY <2>1, Zenon DEF Wants
    <2>3. QED
      BY <2>2, Zenon
  <1>6. SweepLock \notin locks[y]
    BY <1>0, <1>2, ZenonT(60) DEF TxLocal, LocksAtMost
  <1>7. QED
    BY <1>2, <1>3, <1>4, <1>5, <1>6, Zenon

(* A client that waits for an attempt of an execution holds the lock of    *)
(* that execution.                                                         *)
LEMMA ExecutionFirst ==
  ASSUME TxInv, NEW y \in Txs, pc[y] \in {"attempt", "scan"}, NEW a,
         \/ pc[y] = "attempt" /\ a = req[y].id
         \/ pc[y] = "scan" /\ a \in LatestOf(req[y].execution, Head(todo[y])),
         attempt[a].execution \in Executions
  PROVE  a \in AttemptIds /\ ExecutionLock(attempt[a].execution) \in locks[y]
  <1>0. TxLocal(y) /\ pc[y] \in AfterLock
    BY Zenon DEF TxInv, AfterLock
  <1>1. req[y] \in Requests \cap TxRequest
    BY <1>0, ZenonT(60) DEF TxLocal, AtStatement, AfterLock
  <1>2. CASE pc[y] = "attempt"
    <2>1. req[y].kind \in {"save", "finalize"} /\ a = req[y].id
      BY <1>0, <1>2, ZenonT(60) DEF TxLocal, AtStatement
    <2>2. TargetExecution(req[y]) = attempt[a].execution /\ a \in AttemptIds
      BY <1>1, <2>1, KindLemma, ZenonT(60) DEF TargetExecution
    <2>3. QED
      BY <1>0, <2>2, NullAssumption, ZenonT(60) DEF TxLocal, ExecutionRead
  <1>3. CASE pc[y] = "scan"
    <2>1. req[y].kind = "state"
      BY <1>0, <1>3, ZenonT(60) DEF TxLocal, AtStatement
    <2>2. a \in AttemptIds /\ attempt[a].execution = req[y].execution
      BY <1>3, Zenon DEF LatestOf, DraftsOf, AttemptsOf
    <2>3. TargetExecution(req[y]) = attempt[a].execution
      BY <2>1, <2>2, Zenon DEF TargetExecution
    <2>4. QED
      BY <1>0, <2>2, <2>3, NullAssumption, ZenonT(60) DEF TxLocal, ExecutionRead
  <1>4. QED
    BY <1>2, <1>3, Zenon

=============================================================================
