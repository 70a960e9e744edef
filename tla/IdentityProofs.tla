---------------------------- MODULE IdentityProofs ----------------------------
(***************************************************************************)
(* Proofs about Identity, for every set of people, names, roles, groups,   *)
(* administrators and browsers, every role map and every bound.            *)
(*                                                                         *)
(* Every action but those of the sessions is a step of one handler, which  *)
(* treats the tables as StepOf says; HandlerOK is what a handler in the    *)
(* middle of its request relies on, and what the others leave it.          *)
(***************************************************************************)
EXTENDS Identity, TLAPS

NewUser == [id: Serials, subject: Names, userName: Names, active: BOOLEAN]
UserChange == [id: Serials, subject: {NULL}, userName: Names \cup {NULL}, active: BOOLEAN]
GroupPatch ==
  [g: Groups, name: GroupNames \cup {NULL}, add: SUBSET Ids, remove: SUBSET Ids]
GroupTx ==
  [g: Groups, name: GroupNames \cup {NULL}, add: SUBSET Ids, remove: SUBSET Ids, todo: SUBSET Ids]
Bindings == [Roles -> Sources \cup {NULL}]
Writes == [Ids -> [Roles -> Sources \cup {NULL, "gone"}]]
Memory ==
  [p: Ids \cup {NULL}, op: {NULL, "disable", "clear"}, roles: SUBSET Roles,
   user: NewUser \cup UserChange \cup GroupPatch \cup {NULL}, tx: GroupTx \cup {NULL}, write: Writes]
Labels ==
  {"idle", "count", "disable", "clear", "grant", "check", "session", "insert", "adopt",
   "others", "isadmin", "write", "patch", "reconcile", "scimroles"}

(***************************************************************************)
(* The tables.                                                             *)
(***************************************************************************)
(* A row that is a key has a key and is nobody's; no other has one. *)
RowOK(w) ==
  /\ w \in Row
  /\ w.kind = "api_key" <=> w.key # NULL
  /\ w.kind = "api_key" => w.external = NULL /\ w.scim = NULL

PrincipalTable ==
  /\ principal \in [Ids -> Row \cup {NULL}]
  /\ \A p \in Ids : Exists(p) => RowOK(principal[p])
  /\ handed \subseteq Serials
  /\ \A id \in handed : \E p \in Ids : Exists(p) /\ principal[p].scim = id

BindingTable ==
  /\ binding \in [Ids -> Bindings]
  /\ \A p \in Ids : ~Exists(p) => \A r \in Roles : binding[p][r] = NULL
  /\ granted \in [Ids -> SUBSET Roles] /\ token \in [Ids -> SUBSET Roles]

GroupTable ==
  /\ group \in [Groups -> GroupNames \cup {NULL}]
  /\ member \in [Groups -> SUBSET Ids]
  /\ \A g \in Groups : \A p \in member[g] : Exists(p)

SessionTable ==
  /\ session \in [Sessions -> [owner: Ids, expired: BOOLEAN] \cup {NULL}]
  /\ \A s \in Sessions : session[s] # NULL =>
       /\ session[s] \in [owner: Ids, expired: BOOLEAN]
       /\ Exists(session[s].owner) /\ principal[session[s].owner].external # NULL

Tables == PrincipalTable /\ BindingTable /\ GroupTable /\ SessionTable /\ served \in Serials

(***************************************************************************)
(* A handler in the middle of its request.                                 *)
(***************************************************************************)
(* A binding written and not committed is there to be deleted, or not      *)
(* there to be inserted.                                                   *)
WriteOK(h, p, r) ==
  mem[h].write[p][r] # NULL =>
    /\ Exists(p)
    /\ \/ pc[h] = "grant" /\ mem[h].p = p /\ mem[h].write[p][r] = "gone"
       \/ /\ pc[h] \in {"reconcile", "scimroles"}
          /\ \/ mem[h].write[p][r] = "scim" /\ binding[p][r] = NULL
             \/ mem[h].write[p][r] = "gone" /\ binding[p][r] = "scim"

HandlerOK(h) ==
  /\ pc[h] \in Labels /\ mem[h] \in Memory
  /\ pc[h] \in {"count", "disable", "clear", "grant"} =>
       mem[h].p \in Ids /\ Exists(mem[h].p) /\ mem[h].op \in {"disable", "clear"}
  /\ pc[h] \in {"check", "session"} =>
       mem[h].p \in Ids /\ Exists(mem[h].p) /\ principal[mem[h].p].external # NULL
  /\ pc[h] \in {"insert", "adopt"} => mem[h].user \in NewUser
  /\ pc[h] = "adopt" =>
       /\ h \in Directory /\ mem[h].p \in Ids /\ Exists(mem[h].p)
       /\ principal[mem[h].p].kind = "user" /\ principal[mem[h].p].scim = NULL
  /\ pc[h] \in {"others", "isadmin", "write"} => mem[h].user \in UserChange
  /\ pc[h] = "patch" => mem[h].user \in GroupPatch
  /\ pc[h] \in {"reconcile", "scimroles"} =>
       /\ h \in Directory /\ mem[h].tx \in GroupTx
       /\ \A p \in mem[h].tx.add \cup mem[h].tx.todo : Exists(p)
  /\ pc[h] = "scimroles" => mem[h].p \in mem[h].tx.todo
  /\ \A p \in Ids, r \in Roles : WriteOK(h, p, r)

(* A binding has one transaction that has written it. *)
LocksExclude ==
  \A h, k \in Handlers : h # k =>
    \A p \in Ids, r \in Roles : mem[h].write[p][r] = NULL \/ mem[k].write[p][r] = NULL

HandlerTable ==
  /\ pc \in [Handlers -> Labels] /\ mem \in [Handlers -> Memory]
  /\ \A h \in Handlers : HandlerOK(h)

IdentityInv == Tables /\ HandlerTable /\ LocksExclude

(***************************************************************************)
(* A step of one handler.                                                  *)
(***************************************************************************)
(* A row stays whose it is. *)
RowKept(p) ==
  Exists(p) =>
    /\ principal'[p] # NULL /\ principal'[p].kind = principal[p].kind
    /\ principal[p].external # NULL => principal'[p].external = principal[p].external
    /\ principal[p].scim # NULL => principal'[p].scim = principal[p].scim

(* A binding is changed by nobody else than the transaction that wrote it, *)
(* and to a source by the clients of that source.                          *)
BindingKept(h, p, r) ==
  binding'[p][r] # binding[p][r] =>
    /\ \A k \in Handlers \ {h} : mem[k].write[p][r] = NULL
    /\ binding'[p][r] = "scim" => h \in Directory
    /\ binding'[p][r] = "local" => h \in Admins
    /\ binding[p][r] = "local" => h \in Admins /\ pc[h] = "grant" /\ mem[h].p = p /\ pc'[h] = "idle"

StepOf(h) ==
  /\ \A k \in Handlers \ {h} : pc'[k] = pc[k] /\ mem'[k] = mem[k]
  /\ \A p \in Ids : RowKept(p)
  /\ \A p \in Ids, r \in Roles : BindingKept(h, p, r)
  /\ \A p \in Ids, r \in Roles : mem'[h].write[p][r] # NULL /\ mem[h].write[p][r] = NULL =>
       \A k \in Handlers \ {h} : mem[k].write[p][r] = NULL
  /\ h \notin Directory =>
       /\ UNCHANGED <<group, member>>
       /\ \A p \in Ids : Exists(p) => principal'[p].scim = principal[p].scim

(* What a handler relies on is not disturbed by the step of another. *)
LEMMA OtherHandlerOK ==
  ASSUME IdentityInv, NEW h \in Handlers, StepOf(h), NEW k \in Handlers, k # h
  PROVE  HandlerOK(k)'
  <1>1. HandlerOK(k) /\ pc'[k] = pc[k] /\ mem'[k] = mem[k]
    BY Zenon DEF IdentityInv, HandlerTable, StepOf
  <1>2. ASSUME NEW p \in Ids, Exists(p)
        PROVE  /\ Exists(p)' /\ principal'[p].kind = principal[p].kind
               /\ principal[p].external # NULL => principal'[p].external # NULL
    BY <1>2, Zenon DEF StepOf, RowKept, Exists
  <1>3. pc[k] = "adopt" => principal'[mem[k].p].scim = NULL
    <2>1. SUFFICES ASSUME pc[k] = "adopt" PROVE principal'[mem[k].p].scim = NULL
      BY Zenon
    <2>2. k \in Directory /\ mem[k].p \in Ids /\ Exists(mem[k].p) /\ principal[mem[k].p].scim = NULL
      BY <1>1, <2>1, Zenon DEF HandlerOK
    <2>3. h \notin Directory
      BY <2>2, IdentityAssumption, Zenon
    <2>4. QED
      BY <2>2, <2>3, Zenon DEF StepOf
  <1>4. ASSUME NEW p \in Ids, NEW r \in Roles PROVE WriteOK(k, p, r)'
    <2>1. CASE mem[k].write[p][r] = NULL
      BY <1>1, <2>1, Zenon DEF WriteOK
    <2>2. CASE mem[k].write[p][r] # NULL
      <3>1. binding'[p][r] = binding[p][r]
        BY <2>2 DEF StepOf, BindingKept
      <3>2. WriteOK(k, p, r)
        BY <1>1, Zenon DEF HandlerOK
      <3>3. QED
        BY <1>1, <1>2, <2>2, <3>1, <3>2, Zenon DEF WriteOK
    <2>3. QED
      BY <2>1, <2>2, Zenon
  <1>5. ASSUME pc[k] \in {"reconcile", "scimroles"}, NEW p \in mem[k].tx.add \cup mem[k].tx.todo
        PROVE  Exists(p)'
    BY <1>1, <1>2, <1>5, Zenon DEF HandlerOK, GroupTx
  <1>6. QED
    BY <1>1, <1>2, <1>3, <1>4, <1>5, Zenon DEF HandlerOK

(* A step of a handler that leaves the tables in order and that handler    *)
(* with what it relies on.                                                 *)
LEMMA StepKeeps ==
  ASSUME IdentityInv, NEW h \in Handlers, StepOf(h), Tables', HandlerOK(h)',
         pc' \in [Handlers -> Labels], mem' \in [Handlers -> Memory]
  PROVE  IdentityInv'
  <1>1. ASSUME NEW k \in Handlers PROVE HandlerOK(k)'
    BY OtherHandlerOK, Zenon
  <1>2. HandlerTable'
    BY <1>1, Zenon DEF HandlerTable
  <1>3. LocksExclude'
    <2>1. ASSUME NEW k \in Handlers, k # h, NEW p \in Ids, NEW r \in Roles
          PROVE  mem'[h].write[p][r] = NULL \/ mem'[k].write[p][r] = NULL
      BY <2>1 DEF IdentityInv, LocksExclude, StepOf
    <2>2. ASSUME NEW j \in Handlers, NEW k \in Handlers, j # k, j # h, k # h,
                 NEW p \in Ids, NEW r \in Roles
          PROVE  mem'[j].write[p][r] = NULL \/ mem'[k].write[p][r] = NULL
      BY <2>2 DEF IdentityInv, LocksExclude, StepOf
    <2>3. QED
      BY <2>1, <2>2 DEF LocksExclude
  <1>4. QED
    BY <1>2, <1>3, Zenon DEF IdentityInv

(***************************************************************************)
(* Steps that only read.                                                   *)
(***************************************************************************)
(* A handler between requests has written nothing. *)
LEMMA IdleLemma ==
  /\ Idle \in Memory /\ Idle.write = NoWrites
  /\ \A p \in Ids, r \in Roles : NoWrites[p][r] = NULL
  /\ Idle.p = NULL /\ Idle.op = NULL /\ Idle.roles = {} /\ Idle.user = NULL /\ Idle.tx = NULL
  <1>1. NoWrites \in Writes /\ \A p \in Ids, r \in Roles : NoWrites[p][r] = NULL
    BY Zenon DEF NoWrites, NoRoles, Writes
  <1>2. QED
    BY <1>1, Zenon DEF Idle, Memory

(* What Goto does. *)
LEMMA GotoLemma ==
  ASSUME HandlerTable, NEW h \in Handlers, NEW l \in Labels, NEW m \in Memory, Goto(h, l, m)
  PROVE  /\ pc' \in [Handlers -> Labels] /\ mem' \in [Handlers -> Memory]
         /\ pc'[h] = l /\ mem'[h] = m
         /\ \A k \in Handlers \ {h} : pc'[k] = pc[k] /\ mem'[k] = mem[k]
  BY Zenon DEF HandlerTable, Goto

(* A handler that has written nothing has nothing to rely on there. *)
LEMMA NothingWritten ==
  ASSUME NEW h \in Handlers, mem'[h].write = NoWrites, NEW p \in Ids, NEW r \in Roles
  PROVE  mem'[h].write[p][r] = NULL /\ WriteOK(h, p, r)'
  BY IdleLemma, Zenon DEF WriteOK

(* A step of a handler that leaves the tables alone. *)
LEMMA MovesKeep ==
  ASSUME IdentityInv, NEW h \in Handlers, NEW l \in Labels, NEW m \in Memory, Goto(h, l, m),
         UNCHANGED <<rows, history>>, served' \in Serials, HandlerOK(h)',
         \A p \in Ids, r \in Roles : m.write[p][r] # NULL /\ mem[h].write[p][r] = NULL =>
           \A k \in Handlers \ {h} : mem[k].write[p][r] = NULL
  PROVE  StepOf(h) /\ IdentityInv'
  <1>1. /\ pc' \in [Handlers -> Labels] /\ mem' \in [Handlers -> Memory] /\ mem'[h] = m
        /\ \A k \in Handlers \ {h} : pc'[k] = pc[k] /\ mem'[k] = mem[k]
    BY GotoLemma, Zenon DEF IdentityInv
  <1>2. UNCHANGED <<principal, binding, group, member, session, handed, granted, token>>
    BY Zenon DEF rows, history
  <1>3. Tables'
    BY <1>2, ZenonT(60)
       DEF IdentityInv, Tables, PrincipalTable, BindingTable, GroupTable, SessionTable, Exists
  <1>4. (\A p \in Ids : RowKept(p)) /\ (\A p \in Ids, r \in Roles : BindingKept(h, p, r))
    BY <1>2, Zenon DEF RowKept, BindingKept, Exists
  <1>5. StepOf(h)
    BY <1>1, <1>2, <1>4, Zenon DEF StepOf
  <1>6. QED
    BY <1>1, <1>3, <1>5, StepKeeps, Zenon

(* The same, of one that has no transaction under way afterwards. *)
LEMMA PlainMovesKeep ==
  ASSUME IdentityInv, NEW h \in Handlers, NEW l \in Labels, NEW m \in Memory, Goto(h, l, m),
         UNCHANGED <<rows, history>>, served' \in Serials, m.write = NoWrites,
         l \in {"count", "disable", "clear"} =>
           m.p \in Ids /\ Exists(m.p) /\ m.op \in {"disable", "clear"},
         l \in {"check", "session"} => m.p \in Ids /\ Exists(m.p) /\ principal[m.p].external # NULL,
         l \in {"insert", "adopt"} => m.user \in NewUser,
         l = "adopt" => /\ h \in Directory /\ m.p \in Ids /\ Exists(m.p)
                        /\ principal[m.p].kind = "user" /\ principal[m.p].scim = NULL,
         l \in {"others", "isadmin", "write"} => m.user \in UserChange,
         l = "patch" => m.user \in GroupPatch,
         l \in {"reconcile", "scimroles"} =>
           /\ h \in Directory /\ m.tx \in GroupTx
           /\ \A p \in m.tx.add \cup m.tx.todo : Exists(p),
         l \notin {"scimroles", "grant"}
  PROVE  StepOf(h) /\ IdentityInv'
  <1>1. pc'[h] = l /\ mem'[h] = m
    BY GotoLemma DEF IdentityInv
  <1>2. principal' = principal
    BY Zenon DEF rows
  <1>3. \A p \in Ids, r \in Roles : WriteOK(h, p, r)' /\ m.write[p][r] = NULL
    BY <1>1, NothingWritten, Zenon
  <1>4. HandlerOK(h)'
    BY <1>1, <1>2, <1>3, Zenon DEF HandlerOK, Exists
  <1>5. QED
    BY <1>3, <1>4, MovesKeep, Zenon

(* A request that ends. *)
LEMMA DoneKeeps ==
  ASSUME IdentityInv, NEW h \in Handlers, Done(h), UNCHANGED <<rows, served, history>>
  PROVE  StepOf(h) /\ IdentityInv'
  <1>1. Goto(h, "idle", Idle) /\ UNCHANGED <<rows, history>> /\ served' \in Serials
    BY Zenon DEF Done, IdentityInv, Tables, rows, history
  <1>2. QED
    BY <1>1, IdleLemma, PlainMovesKeep, Zenon DEF Labels

(* Where a handler is. *)
LEMMA HandlerHas ==
  ASSUME IdentityInv, NEW h \in Handlers
  PROVE  HandlerOK(h) /\ pc[h] \in Labels /\ mem[h] \in Memory
  BY Zenon DEF IdentityInv, HandlerTable

(* A handler with no transaction under way has written nothing. *)
LEMMA NoTransaction ==
  ASSUME IdentityInv, NEW h \in Handlers, pc[h] \notin {"grant", "reconcile", "scimroles"}
  PROVE  mem[h].write = NoWrites
  <1>1. \A p \in Ids, r \in Roles : mem[h].write[p][r] = NULL
    BY HandlerHas DEF HandlerOK, WriteOK
  <1>2. mem[h].write \in Writes
    BY HandlerHas, Zenon DEF Memory
  <1>3. \A p \in Ids : mem[h].write[p] = NoRoles
    BY <1>1, <1>2, Zenon DEF Writes, NoRoles
  <1>4. QED
    BY <1>2, <1>3, Zenon DEF Writes, NoWrites

(* A request that begins. *)
LEMMA BeginLemma ==
  ASSUME IdentityInv, NEW h, Begin(h)
  PROVE  served' \in Serials /\ served' # NULL
  BY IdentityAssumption DEF Begin, IdentityInv, Tables, Serials

(* The Access tab looks a principal up. *)
LEMMA TargetKeeps ==
  ASSUME IdentityInv, NEW h \in Handlers, NEW p \in Ids, NEW op \in {"disable", "clear"},
         NEW rs \in SUBSET Roles, Target(h, p, op, rs)
  PROVE  StepOf(h) /\ IdentityInv'
  <1>1. PICK l, m : /\ l \in {"count", op} /\ m = [Idle EXCEPT !.p = p, !.op = op, !.roles = rs]
                    /\ Goto(h, l, m)
    BY Zenon DEF Target
  <1>2. m \in Memory /\ m.p = p /\ m.op = op /\ m.write = NoWrites
    BY <1>1, IdleLemma, Zenon DEF Memory
  <1>3. Exists(p) /\ served' \in Serials /\ UNCHANGED <<rows, history>>
    BY BeginLemma, Zenon DEF Target
  <1>4. l \in Labels /\ l \in {"count", "disable", "clear"}
    BY <1>1, Zenon DEF Labels
  <1>5. QED
    BY <1>1, <1>2, <1>3, <1>4, PlainMovesKeep, Zenon

(* refuseIfLastAdmin's count. *)
LEMMA CountAdminsKeeps ==
  ASSUME IdentityInv, NEW h \in Handlers, CountAdmins(h)
  PROVE  StepOf(h) /\ IdentityInv'
  <1>0. UNCHANGED <<rows, history>> /\ served' = served /\ pc[h] = "count"
    BY Zenon DEF CountAdmins
  <1>1. CASE Done(h)
    BY <1>0, <1>1, DoneKeeps, Zenon
  <1>2. CASE Goto(h, mem[h].op, mem[h])
    <2>1. PICK m, l : m = mem[h] /\ l = m.op /\ Goto(h, l, m)
      BY <1>2, Zenon
    <2>2. m \in Memory /\ m.p \in Ids /\ Exists(m.p) /\ l \in {"disable", "clear"} /\ m.write = NoWrites
      BY <1>0, <2>1, HandlerHas, NoTransaction, Zenon DEF HandlerOK
    <2>3. l \in Labels /\ served' \in Serials
      BY <1>0, <2>2, Zenon DEF Labels, IdentityInv, Tables
    <2>4. QED
      BY <1>0, <2>1, <2>2, <2>3, PlainMovesKeep, Zenon
  <1>3. QED
    BY <1>1, <1>2, Zenon DEF CountAdmins, Continue

(* The account is read again before a session begins. *)
LEMMA CheckEnabledKeeps ==
  ASSUME IdentityInv, NEW h \in Handlers, CheckEnabled(h)
  PROVE  StepOf(h) /\ IdentityInv'
  <1>0. UNCHANGED <<rows, history>> /\ served' = served /\ pc[h] = "check"
    BY Zenon DEF CheckEnabled
  <1>1. CASE Done(h)
    BY <1>0, <1>1, DoneKeeps, Zenon
  <1>2. CASE Goto(h, "session", mem[h])
    <2>1. PICK m : m = mem[h] /\ Goto(h, "session", m)
      BY <1>2, Zenon
    <2>2. /\ m \in Memory /\ m.p \in Ids /\ Exists(m.p) /\ principal[m.p].external # NULL
          /\ m.write = NoWrites
      BY <1>0, <2>1, HandlerHas, NoTransaction, Zenon DEF HandlerOK
    <2>3. "session" \in Labels /\ served' \in Serials
      BY <1>0, Zenon DEF Labels, IdentityInv, Tables
    <2>4. QED
      BY <1>0, <2>1, <2>2, <2>3, PlainMovesKeep, Zenon
  <1>3. QED
    BY <1>1, <1>2, Zenon DEF CheckEnabled, Continue

(* CreateUser's SELECT: the row it will adopt is not provisioned. *)
LEMMA FindExistingKeeps ==
  ASSUME IdentityInv, NEW h \in Handlers, h \in Directory, NEW n \in Names, NEW u \in Names,
         NEW active \in BOOLEAN, FindExisting(h, n, u, active)
  PROVE  StepOf(h) /\ IdentityInv'
  <1>0. UNCHANGED <<rows, history>> /\ served' \in Serials
    BY BeginLemma, Zenon DEF FindExisting
  <1>1. PICK w : w = User(served', n, u, active)
    BY Zenon
  <1>2. w \in NewUser
    BY <1>0, <1>1, Zenon DEF User, NewUser
  <1>3. ASSUME NEW m, m = [Idle EXCEPT !.user = w], Goto(h, "insert", m)
        PROVE  StepOf(h) /\ IdentityInv'
    <2>1. m \in Memory /\ m.user = w /\ m.write = NoWrites
      BY <1>2, <1>3, IdleLemma, Zenon DEF Memory
    <2>2. "insert" \in Labels
      BY Zenon DEF Labels
    <2>3. QED
      BY <1>0, <1>2, <1>3, <2>1, <2>2, PlainMovesKeep, Zenon
  <1>4. ASSUME NEW p \in Ids, Exists(p), Adoptable(p),
               NEW m, m = [Idle EXCEPT !.user = w, !.p = p], Goto(h, "adopt", m)
        PROVE  StepOf(h) /\ IdentityInv'
    <2>1. m \in Memory /\ m.user = w /\ m.p = p /\ m.write = NoWrites
      BY <1>2, <1>4, IdleLemma, Zenon DEF Memory
    <2>2. "adopt" \in Labels
      BY Zenon DEF Labels
    <2>3. QED
      BY <1>0, <1>2, <1>4, <2>1, <2>2, PlainMovesKeep, Zenon DEF Adoptable
  <1>5. QED
    BY <1>1, <1>3, <1>4, Zenon DEF FindExisting

(* PUT, PATCH and DELETE of a user begin. *)
LEMMA WriteUserKeeps ==
  ASSUME IdentityInv, NEW h \in Handlers, NEW id \in handed, NEW u \in Names \cup {NULL},
         NEW active \in BOOLEAN, WriteUser(h, id, u, active)
  PROVE  StepOf(h) /\ IdentityInv'
  <1>0. UNCHANGED <<rows, history>> /\ served' \in Serials
    BY BeginLemma, Zenon DEF WriteUser
  <1>1. PICK w : w = User(id, NULL, u, active)
    BY Zenon
  <1>2. w \in UserChange
    BY <1>1, Zenon DEF User, UserChange, IdentityInv, Tables, PrincipalTable
  <1>3. PICK l, m : l \in {"write", "others"} /\ m = [Idle EXCEPT !.user = w] /\ Goto(h, l, m)
    BY <1>1, Zenon DEF WriteUser
  <1>4. m \in Memory /\ m.user = w /\ m.write = NoWrites
    BY <1>2, <1>3, IdleLemma, Zenon DEF Memory
  <1>5. l \in Labels
    BY <1>3, Zenon DEF Labels
  <1>6. QED
    BY <1>0, <1>2, <1>3, <1>4, <1>5, PlainMovesKeep, Zenon

(* deactivate: the count, and whether this is an administrator. *)
LEMMA CountOthersKeeps ==
  ASSUME IdentityInv, NEW h \in Handlers, CountOthers(h) \/ IsAdmin(h)
  PROVE  StepOf(h) /\ IdentityInv'
  <1>0. UNCHANGED <<rows, history>> /\ served' = served /\ pc[h] \in {"others", "isadmin"}
    BY Zenon DEF CountOthers, IsAdmin
  <1>1. CASE Done(h)
    BY <1>0, <1>1, DoneKeeps, Zenon
  <1>2. ASSUME NEW l \in {"write", "isadmin"}, Goto(h, l, mem[h]) PROVE StepOf(h) /\ IdentityInv'
    <2>1. PICK m : m = mem[h] /\ Goto(h, l, m)
      BY <1>2, Zenon
    <2>2. m \in Memory /\ m.user \in UserChange /\ m.write = NoWrites
      BY <1>0, <2>1, HandlerHas, NoTransaction, Zenon DEF HandlerOK
    <2>3. l \in Labels /\ served' \in Serials
      BY <1>0, Zenon DEF Labels, IdentityInv, Tables
    <2>4. QED
      BY <1>0, <2>1, <2>2, <2>3, PlainMovesKeep, Zenon
  <1>3. QED
    BY <1>1, <1>2, Zenon DEF CountOthers, IsAdmin, Continue

(* A request that fails. *)
LEMMA FailKeeps ==
  ASSUME IdentityInv, NEW h \in Handlers, Fail(h)
  PROVE  StepOf(h) /\ IdentityInv'
  BY DoneKeeps, Zenon DEF Fail

(***************************************************************************)
(* The transactions on role bindings.                                      *)
(***************************************************************************)
(* A group request begins its transaction. *)
LEMMA WriteGroupKeeps ==
  ASSUME IdentityInv, NEW h \in Handlers, h \in Directory, NEW g \in Groups,
         NEW n \in GroupNames \cup {NULL}, NEW add, add \subseteq {p \in Ids : Exists(p)},
         NEW remove, remove \subseteq {p \in Ids : Exists(p)}, WriteGroup(h, g, n, add, remove)
  PROVE  StepOf(h) /\ IdentityInv'
  <1>0. UNCHANGED <<rows, history>> /\ served' \in Serials
    BY BeginLemma, Zenon DEF WriteGroup
  <1>1. PICK t, m : t = Tx(g, n, add, remove) /\ m = [Idle EXCEPT !.tx = t] /\ Goto(h, "reconcile", m)
    BY Zenon DEF WriteGroup
  <1>2. member[g] \subseteq Ids /\ \A p \in member[g] : Exists(p)
    BY Zenon DEF IdentityInv, Tables, GroupTable
  <1>3. t \in GroupTx /\ t.add = add /\ t.todo = member[g] \cup add \cup remove
    BY <1>1, <1>2, Zenon DEF Tx, GroupTx
  <1>4. m \in Memory /\ m.tx = t /\ m.write = NoWrites
    BY <1>1, <1>3, IdleLemma, Zenon DEF Memory
  <1>5. \A p \in t.add \cup t.todo : Exists(p)
    BY <1>2, <1>3, Zenon
  <1>6. "reconcile" \in Labels
    BY Zenon DEF Labels
  <1>7. QED
    BY <1>0, <1>1, <1>3, <1>4, <1>5, <1>6, PlainMovesKeep, Zenon

(* The three requests that are one statement away from it. *)
LEMMA GroupRequestKeeps ==
  ASSUME IdentityInv, NEW h \in Handlers, h \in Directory, NEW g \in Groups,
         NEW n \in GroupNames, NEW ps \in SUBSET Ids,
         CreateGroup(h, g, n, ps) \/ ReplaceGroup(h, g, n, ps) \/ DeleteGroup(h, g)
  PROVE  StepOf(h) /\ IdentityInv'
  <1>1. member[g] \subseteq {p \in Ids : Exists(p)} /\ Known(ps) \subseteq {p \in Ids : Exists(p)}
    BY Zenon DEF IdentityInv, Tables, GroupTable, Known
  <1>2. CASE CreateGroup(h, g, n, ps)
    <2>1. WriteGroup(h, g, n, Known(ps), {})
      BY <1>2, Zenon DEF CreateGroup
    <2>2. QED
      BY <1>1, <2>1, WriteGroupKeeps
  <1>3. CASE ReplaceGroup(h, g, n, ps)
    <2>1. WriteGroup(h, g, n, Known(ps), member[g] \ Known(ps))
      BY <1>3, Zenon DEF ReplaceGroup
    <2>2. QED
      BY <1>1, <2>1, WriteGroupKeeps, Zenon
  <1>4. CASE DeleteGroup(h, g)
    <2>1. WriteGroup(h, g, NULL, {}, member[g])
      BY <1>4, Zenon DEF DeleteGroup
    <2>2. QED
      BY <1>1, <2>1, WriteGroupKeeps, Zenon
  <1>5. QED
    BY <1>2, <1>3, <1>4, Zenon

(* PatchGroup reads the group first ... *)
LEMMA PatchGroupKeeps ==
  ASSUME IdentityInv, NEW h \in Handlers, NEW g \in Groups, NEW op,
         NEW n \in GroupNames \cup {NULL}, NEW ps \in SUBSET Ids, PatchGroup(h, g, op, n, ps)
  PROVE  StepOf(h) /\ IdentityInv'
  <1>0. UNCHANGED <<rows, history>> /\ served' \in Serials
    BY BeginLemma, Zenon DEF PatchGroup
  <1>1. Known(member[g]) \in SUBSET Ids
    BY Zenon DEF IdentityInv, Tables, GroupTable, Known
  <1>2. PICK add, remove, w, m :
          /\ add = IF op = "remove" THEN {} ELSE ps
          /\ remove = CASE op = "remove" -> ps [] op = "replace" -> Known(member[g]) [] OTHER -> {}
          /\ w = [g |-> g, name |-> n, add |-> add, remove |-> remove]
          /\ m = [Idle EXCEPT !.user = w] /\ Goto(h, "patch", m)
    BY Zenon DEF PatchGroup
  <1>3. add \in SUBSET Ids /\ remove \in SUBSET Ids
    BY <1>1, <1>2, Zenon
  <1>4. w \in GroupPatch
    BY <1>2, <1>3, Zenon DEF GroupPatch
  <1>5. m \in Memory /\ m.user = w /\ m.write = NoWrites
    BY <1>2, <1>4, IdleLemma, Zenon DEF Memory
  <1>6. "patch" \in Labels
    BY Zenon DEF Labels
  <1>7. QED
    BY <1>0, <1>2, <1>4, <1>5, <1>6, PlainMovesKeep, Zenon

(* ... and then begins its transaction. *)
LEMMA PatchGroupMembersKeeps ==
  ASSUME IdentityInv, NEW h \in Handlers, h \in Directory, PatchGroupMembers(h)
  PROVE  StepOf(h) /\ IdentityInv'
  <1>0. UNCHANGED <<rows, history>> /\ served' \in Serials /\ pc[h] = "patch"
    BY Zenon DEF PatchGroupMembers, IdentityInv, Tables
  <1>1. PICK w : w = mem[h].user
    BY Zenon
  <1>2. w \in GroupPatch /\ mem[h].write = NoWrites /\ mem[h] \in Memory
    BY <1>0, <1>1, HandlerHas, NoTransaction, Zenon DEF HandlerOK
  <1>3. PICK n, t, m : /\ n = IF w.name = NULL THEN group[w.g] ELSE w.name
                       /\ t = Tx(w.g, n, Known(w.add), Known(w.remove))
                       /\ m = [mem[h] EXCEPT !.tx = t] /\ Goto(h, "reconcile", m)
    BY <1>1, Zenon DEF PatchGroupMembers
  <1>4. w.g \in Groups /\ n \in GroupNames \cup {NULL}
    BY <1>2, <1>3, Zenon DEF GroupPatch, IdentityInv, Tables, GroupTable
  <1>5. /\ member[w.g] \subseteq {p \in Ids : Exists(p)}
        /\ Known(w.add) \subseteq {p \in Ids : Exists(p)}
        /\ Known(w.remove) \subseteq {p \in Ids : Exists(p)}
    BY <1>2, <1>4, Zenon DEF GroupPatch, IdentityInv, Tables, GroupTable, Known
  <1>6. /\ t \in GroupTx /\ t.add = Known(w.add)
        /\ t.todo = member[w.g] \cup Known(w.add) \cup Known(w.remove)
    BY <1>3, <1>4, <1>5, Zenon DEF Tx, GroupTx
  <1>7. m \in Memory /\ m.tx = t /\ m.write = NoWrites
    BY <1>2, <1>3, <1>6, Zenon DEF Memory
  <1>8. \A p \in t.add \cup t.todo : Exists(p)
    BY <1>5, <1>6, Zenon
  <1>9. "reconcile" \in Labels
    BY Zenon DEF Labels
  <1>10. QED
    BY <1>0, <1>3, <1>6, <1>7, <1>8, <1>9, PlainMovesKeep, ZenonT(60)

(* The roles a principal's groups give, as the transaction sees them. *)
RolesIn(tx, p) ==
  RolesForGroups({NameIn(tx, g) : g \in {f \in Groups : p \in MembersIn(tx, f)}} \ {NULL})

(* reconcileSCIMRoles reads the groups of one principal ... *)
LEMMA ReadGroupsKeeps ==
  ASSUME IdentityInv, NEW h \in Handlers, ReadGroups(h)
  PROVE  /\ StepOf(h) /\ IdentityInv'
         /\ \E p \in mem[h].tx.todo :
              /\ pc'[h] = "scimroles" /\ mem'[h].p = p /\ mem'[h].roles = RolesIn(mem[h].tx, p)
              /\ mem'[h].tx = mem[h].tx /\ mem'[h].write = mem[h].write
  <1>0. UNCHANGED <<rows, history>> /\ served' \in Serials /\ pc[h] = "reconcile"
    BY Zenon DEF ReadGroups, IdentityInv, Tables
  <1>1. HandlerOK(h) /\ mem[h] \in Memory /\ mem[h].tx \in GroupTx /\ h \in Directory
    BY <1>0, HandlerHas, Zenon DEF HandlerOK
  <1>2. PICK p, m :
          /\ p \in mem[h].tx.todo /\ m = [mem[h] EXCEPT !.p = p, !.roles = RolesIn(mem[h].tx, p)]
          /\ Goto(h, "scimroles", m)
    BY Zenon DEF ReadGroups, RolesIn
  <1>3. p \in Ids
    BY <1>1, <1>2, Zenon DEF GroupTx
  <1>4. RolesIn(mem[h].tx, p) \subseteq Roles
    <2>1. \A g \in Groups : NameIn(mem[h].tx, g) \in GroupNames \cup {NULL}
      BY <1>1, Zenon DEF NameIn, GroupTx, IdentityInv, Tables, GroupTable
    <2>2. QED
      BY <2>1, IdentityAssumption DEF RolesIn, RolesForGroups
  <1>5. /\ m \in Memory /\ m.p = p /\ m.tx = mem[h].tx /\ m.write = mem[h].write
        /\ m.roles = RolesIn(mem[h].tx, p)
    BY <1>1, <1>2, <1>3, <1>4, Zenon DEF Memory
  <1>6. "scimroles" \in Labels
    BY Zenon DEF Labels
  <1>7. pc'[h] = "scimroles" /\ mem'[h] = m
    BY <1>2, <1>5, <1>6, GotoLemma DEF IdentityInv
  <1>8. principal' = principal /\ binding' = binding
    BY <1>0, Zenon DEF rows
  <1>9. ASSUME NEW q \in Ids, NEW r \in Roles PROVE WriteOK(h, q, r)'
    <2>1. WriteOK(h, q, r)
      BY <1>1, Zenon DEF HandlerOK
    <2>2. QED
      BY <1>0, <1>5, <1>7, <1>8, <2>1, Zenon DEF WriteOK, Exists
  <1>10. \A q \in m.tx.add \cup m.tx.todo : Exists(q)
    BY <1>0, <1>1, <1>5, Zenon DEF HandlerOK
  <1>11. HandlerOK(h)'
    BY <1>1, <1>2, <1>5, <1>6, <1>7, <1>8, <1>9, <1>10, Zenon DEF HandlerOK, Exists
  <1>12. StepOf(h) /\ IdentityInv'
    BY <1>0, <1>2, <1>5, <1>6, <1>11, MovesKeep, Zenon
  <1>13. QED
    BY <1>2, <1>5, <1>7, <1>12, Zenon

(* What a reconciliation writes. *)
LEMMA ChangesLemma ==
  ASSUME NEW b \in Bindings, NEW source \in Sources, NEW rs
  PROVE  /\ Changes(b, source, rs) \in [Roles -> Sources \cup {NULL, "gone"}]
         /\ \A r \in Roles : Changes(b, source, rs)[r] # NULL =>
              \/ Changes(b, source, rs)[r] = source /\ b[r] = NULL /\ r \in rs
              \/ Changes(b, source, rs)[r] = "gone" /\ b[r] = source /\ r \notin rs
         /\ \A r \in Roles : b[r] = source /\ r \notin rs => Changes(b, source, rs)[r] = "gone"
  BY NullAssumption, Zenon DEF Changes, Bindings

(* ... and rewrites what the directory granted them. *)
LEMMA WriteRolesKeeps ==
  ASSUME IdentityInv, NEW h \in Handlers, WriteRoles(h)
  PROVE  /\ StepOf(h) /\ IdentityInv'
         /\ \E p \in Ids :
              /\ p = mem[h].p /\ pc'[h] = "reconcile"
              /\ mem'[h].tx = [mem[h].tx EXCEPT !.todo = @ \ {p}]
              /\ mem'[h].write[p] = Changes(binding[p], "scim", mem[h].roles)
              /\ \A q \in Ids \ {p} : mem'[h].write[q] = mem[h].write[q]
  <1>0. UNCHANGED <<rows, history>> /\ served' \in Serials /\ pc[h] = "scimroles"
    BY Zenon DEF WriteRoles, IdentityInv, Tables
  <1>1. /\ HandlerOK(h) /\ mem[h] \in Memory /\ mem[h].tx \in GroupTx /\ h \in Directory
        /\ mem[h].p \in mem[h].tx.todo
    BY <1>0, HandlerHas, Zenon DEF HandlerOK
  <1>2. PICK p, w, t, m :
          /\ p = mem[h].p /\ w = Changes(binding[p], "scim", mem[h].roles)
          /\ t = [mem[h].tx EXCEPT !.todo = @ \ {p}]
          /\ m = [mem[h] EXCEPT !.tx.todo = @ \ {p}, !.write[p] = w]
          /\ Goto(h, "reconcile", m) /\ CanReconcile(h, p, "scim", mem[h].roles)
    BY Zenon DEF WriteRoles
  <1>3. p \in Ids /\ binding[p] \in Bindings /\ Exists(p)
    BY <1>0, <1>1, <1>2, Zenon DEF HandlerOK, GroupTx, IdentityInv, Tables, BindingTable
  <1>4. /\ w \in [Roles -> Sources \cup {NULL, "gone"}]
        /\ \A r \in Roles : w[r] # NULL =>
             \/ w[r] = "scim" /\ binding[p][r] = NULL /\ r \in mem[h].roles
             \/ w[r] = "gone" /\ binding[p][r] = "scim"
    BY <1>2, <1>3, ChangesLemma DEF Sources
  <1>5. t \in GroupTx /\ t.add = mem[h].tx.add /\ t.todo = mem[h].tx.todo \ {p}
    BY <1>1, <1>2, Zenon DEF GroupTx
  <1>6. mem[h].write \in Writes
    BY <1>1, Zenon DEF Memory
  <1>7. /\ [mem[h].write EXCEPT ![p] = w] \in Writes
        /\ [mem[h].write EXCEPT ![p] = w][p] = w
        /\ \A q \in Ids \ {p} : [mem[h].write EXCEPT ![p] = w][q] = mem[h].write[q]
    BY <1>3, <1>4, <1>6, Zenon DEF Writes
  <1>8. m \in Memory /\ m.tx = t /\ m.write = [mem[h].write EXCEPT ![p] = w]
    BY <1>1, <1>2, <1>5, <1>7, Zenon DEF Memory
  <1>9. "reconcile" \in Labels
    BY Zenon DEF Labels
  <1>10. pc'[h] = "reconcile" /\ mem'[h] = m
    BY <1>2, <1>8, <1>9, GotoLemma DEF IdentityInv
  <1>11. principal' = principal /\ binding' = binding
    BY <1>0, Zenon DEF rows
  <1>12. ASSUME NEW q \in Ids, NEW r \in Roles PROVE WriteOK(h, q, r)'
    <2>1. CASE q = p
      <3>1. mem'[h].write[q][r] = w[r]
        BY <1>7, <1>8, <1>10, <2>1, Zenon
      <3>2. QED
        BY <1>3, <1>4, <1>10, <1>11, <2>1, <3>1, Zenon DEF WriteOK, Exists
    <2>2. CASE q # p
      <3>1. mem'[h].write[q][r] = mem[h].write[q][r] /\ WriteOK(h, q, r)
        BY <1>1, <1>7, <1>8, <1>10, <2>2, Zenon DEF HandlerOK
      <3>2. QED
        BY <1>0, <1>10, <1>11, <3>1, Zenon DEF WriteOK, Exists
    <2>3. QED
      BY <2>1, <2>2, Zenon
  <1>13. \A q \in t.add \cup t.todo : Exists(q)
    BY <1>0, <1>1, <1>5, Zenon DEF HandlerOK
  <1>14. HandlerOK(h)'
    BY <1>1, <1>5, <1>8, <1>9, <1>10, <1>11, <1>12, <1>13, Zenon DEF HandlerOK, Exists
  <1>15. ASSUME NEW q \in Ids, NEW r \in Roles, m.write[q][r] # NULL, mem[h].write[q][r] = NULL
         PROVE  \A k \in Handlers \ {h} : mem[k].write[q][r] = NULL
    <2>1. q = p /\ w[r] # NULL
      BY <1>7, <1>8, <1>15, Zenon
    <2>2. r \in mem[h].roles \cup {x \in Roles : binding[p][x] = "scim"}
      BY <1>4, <2>1, Zenon
    <2>3. QED
      BY <1>2, <2>1, <2>2, Zenon DEF CanReconcile, Unlocked
  <1>16. StepOf(h) /\ IdentityInv'
    <2>1. m \in Memory /\ Goto(h, "reconcile", m)
      BY <1>2, <1>8, Zenon
    <2>2. QED
      BY <1>0, <1>9, <1>14, <1>15, <2>1, MovesKeep, ZenonT(60)
  <1>17. /\ mem'[h].tx = t /\ mem'[h].write[p] = w
         /\ \A q \in Ids \ {p} : mem'[h].write[q] = mem[h].write[q]
    BY <1>7, <1>8, <1>10, Zenon
  <1>18. QED
    BY <1>2, <1>3, <1>10, <1>16, <1>17, Zenon

(* ReplaceRoles' DELETE. *)
LEMMA ClearRolesKeeps ==
  ASSUME IdentityInv, NEW h \in Handlers, ClearRoles(h)
  PROVE  /\ StepOf(h) /\ IdentityInv'
         /\ pc'[h] = "grant" /\ mem'[h].p = mem[h].p
         /\ \A r \in Roles : binding[mem[h].p][r] # NULL => mem'[h].write[mem[h].p][r] = "gone"
  <1>0. UNCHANGED <<rows, history>> /\ served' \in Serials /\ pc[h] = "clear"
    BY Zenon DEF ClearRoles, IdentityInv, Tables
  <1>1. /\ HandlerOK(h) /\ mem[h] \in Memory /\ mem[h].p \in Ids /\ Exists(mem[h].p)
        /\ mem[h].op \in {"disable", "clear"} /\ mem[h].write = NoWrites
    BY <1>0, HandlerHas, NoTransaction, Zenon DEF HandlerOK
  <1>2. PICK p, w, m :
          /\ p = mem[h].p /\ w = [r \in Roles |-> IF r \in RolesOf(p) THEN "gone" ELSE NULL]
          /\ m = [mem[h] EXCEPT !.write = [mem[h].write EXCEPT ![p] = w]]
          /\ Goto(h, "grant", m) /\ Unlocked(h, p, RolesOf(p))
    BY Zenon DEF ClearRoles
  <1>3. mem[h].write \in Writes /\ w \in [Roles -> Sources \cup {NULL, "gone"}]
    BY <1>1, <1>2, Zenon DEF Memory
  <1>4. /\ [mem[h].write EXCEPT ![p] = w] \in Writes
        /\ [mem[h].write EXCEPT ![p] = w][p] = w
        /\ \A q \in Ids \ {p} : [mem[h].write EXCEPT ![p] = w][q] = mem[h].write[q]
    BY <1>1, <1>2, <1>3, Zenon DEF Writes
  <1>5. m \in Memory /\ m.p = p /\ m.op = mem[h].op /\ m.write = [mem[h].write EXCEPT ![p] = w]
    BY <1>1, <1>2, <1>4, Zenon DEF Memory
  <1>6. "grant" \in Labels
    BY Zenon DEF Labels
  <1>7. pc'[h] = "grant" /\ mem'[h] = m
    BY <1>2, <1>5, <1>6, GotoLemma DEF IdentityInv
  <1>8. principal' = principal
    BY <1>0, Zenon DEF rows
  <1>9. ASSUME NEW q \in Ids, NEW r \in Roles, m.write[q][r] # NULL
        PROVE  q = p /\ r \in RolesOf(p) /\ m.write[q][r] = "gone"
    <2>1. q = p
      BY <1>1, <1>4, <1>5, <1>9, IdleLemma
    <2>2. QED
      BY <1>2, <1>4, <1>5, <1>9, <2>1, ZenonT(60)
  <1>10. \A q \in Ids, r \in Roles : WriteOK(h, q, r)'
    BY <1>1, <1>2, <1>5, <1>7, <1>8, <1>9 DEF WriteOK, Exists
  <1>11. HandlerOK(h)'
    BY <1>1, <1>2, <1>5, <1>6, <1>7, <1>8, <1>10, Zenon DEF HandlerOK, Exists
  <1>12. ASSUME NEW q \in Ids, NEW r \in Roles, m.write[q][r] # NULL, mem[h].write[q][r] = NULL
         PROVE  \A k \in Handlers \ {h} : mem[k].write[q][r] = NULL
    BY <1>2, <1>9, <1>12 DEF Unlocked
  <1>13. StepOf(h) /\ IdentityInv'
    <2>1. m \in Memory /\ Goto(h, "grant", m)
      BY <1>2, <1>5, Zenon
    <2>2. QED
      BY <1>0, <1>6, <1>11, <1>12, <2>1, MovesKeep, ZenonT(60)
  <1>14. p = mem[h].p /\ \A r \in Roles : binding[p][r] # NULL => w[r] = "gone"
    BY <1>2, Zenon DEF RolesOf
  <1>15. mem'[h].p = p /\ mem'[h].write[p] = w
    BY <1>4, <1>5, <1>7, Zenon
  <1>16. QED
    BY <1>7, <1>13, <1>14, <1>15, Zenon

(***************************************************************************)
(* Steps that write the tables.                                            *)
(***************************************************************************)
(* A handler whose request is over relies on nothing. *)
LEMMA RequestOver ==
  ASSUME IdentityInv, NEW h \in Handlers, Done(h) \/ (pc[h] = "idle" /\ UNCHANGED <<pc, mem>>)
  PROVE  /\ pc' \in [Handlers -> Labels] /\ mem' \in [Handlers -> Memory] /\ pc'[h] = "idle"
         /\ \A k \in Handlers \ {h} : pc'[k] = pc[k] /\ mem'[k] = mem[k]
         /\ HandlerOK(h)' /\ \A p \in Ids, r \in Roles : mem'[h].write[p][r] = NULL
  <1>1. CASE Done(h)
    <2>1. "idle" \in Labels /\ Goto(h, "idle", Idle)
      BY <1>1, Zenon DEF Labels, Done
    <2>2. /\ pc' \in [Handlers -> Labels] /\ mem' \in [Handlers -> Memory]
          /\ pc'[h] = "idle" /\ mem'[h] = Idle
          /\ \A k \in Handlers \ {h} : pc'[k] = pc[k] /\ mem'[k] = mem[k]
      BY <2>1, IdleLemma, GotoLemma, Zenon DEF IdentityInv
    <2>3. \A p \in Ids, r \in Roles : mem'[h].write[p][r] = NULL /\ WriteOK(h, p, r)'
      BY <2>2, IdleLemma, NothingWritten, Zenon
    <2>4. HandlerOK(h)'
      BY <2>2, <2>3, Zenon DEF HandlerOK
    <2>5. QED
      BY <2>2, <2>3, <2>4, Zenon
  <1>2. CASE pc[h] = "idle" /\ UNCHANGED <<pc, mem>>
    <2>1. mem'[h].write = NoWrites
      BY <1>2, NoTransaction, Zenon
    <2>2. \A p \in Ids, r \in Roles : mem'[h].write[p][r] = NULL /\ WriteOK(h, p, r)'
      BY <2>1, NothingWritten, Zenon
    <2>3. pc'[h] = "idle" /\ mem'[h] \in Memory /\ "idle" \in Labels
      BY <1>2, HandlerHas, Zenon DEF Labels
    <2>4. HandlerOK(h)'
      BY <2>2, <2>3, Zenon DEF HandlerOK
    <2>5. QED
      BY <1>2, <2>2, <2>3, <2>4, Zenon DEF IdentityInv, HandlerTable
  <1>3. QED
    BY <1>1, <1>2, Zenon

(* One row of principals is written. *)
LEMMA RowWritten ==
  ASSUME IdentityInv, NEW p \in Ids, NEW w, RowOK(w), principal' = [principal EXCEPT ![p] = w],
         Exists(p) => /\ w.kind = principal[p].kind
                      /\ principal[p].external # NULL => w.external = principal[p].external
                      /\ principal[p].scim # NULL => w.scim = principal[p].scim,
         handed' = handed \/ (handed' = handed \cup {w.scim} /\ w.scim \in Serials)
  PROVE  /\ PrincipalTable' /\ \A q \in Ids : RowKept(q)
         /\ principal'[p] = w /\ w # NULL /\ \A q \in Ids \ {p} : principal'[q] = principal[q]
  <1>1. principal \in [Ids -> Row \cup {NULL}]
    BY Zenon DEF IdentityInv, Tables, PrincipalTable
  <1>2. principal'[p] = w /\ \A q \in Ids \ {p} : principal'[q] = principal[q]
    BY <1>1, Zenon
  <1>3. w # NULL /\ w \in Row
    BY NullAssumption, Zenon DEF RowOK
  <1>4. ASSUME NEW q \in Ids PROVE RowKept(q) /\ (Exists(q)' => RowOK(principal'[q]))
    <2>1. CASE q = p
      BY <1>2, <1>3, <2>1, Zenon DEF RowKept, Exists
    <2>2. CASE q # p
      <3>1. principal'[q] = principal[q]
        BY <1>2, <2>2, Zenon
      <3>2. Exists(q) => RowOK(principal[q])
        BY Zenon DEF IdentityInv, Tables, PrincipalTable
      <3>3. QED
        BY <3>1, <3>2, Zenon DEF RowKept, Exists
    <2>3. QED
      BY <2>1, <2>2, Zenon
  <1>5. principal' \in [Ids -> Row \cup {NULL}]
    BY <1>1, <1>3, Zenon
  <1>6. handed' \subseteq Serials
    BY Zenon DEF IdentityInv, Tables, PrincipalTable
  <1>7. ASSUME NEW id \in handed' PROVE \E q \in Ids : principal'[q] # NULL /\ principal'[q].scim = id
    <2>1. CASE id \in handed
      <3>1. PICK q \in Ids : Exists(q) /\ principal[q].scim = id
        BY <2>1, Zenon DEF IdentityInv, Tables, PrincipalTable
      <3>2. id # NULL
        BY <2>1, IdentityAssumption DEF IdentityInv, Tables, PrincipalTable, Serials
      <3>3. QED
        BY <1>4, <3>1, <3>2, Zenon DEF RowKept
    <2>2. CASE id = w.scim
      BY <1>2, <1>3, <2>2, Zenon
    <2>3. QED
      BY <1>7, <2>1, <2>2, Zenon
  <1>8. PrincipalTable'
    BY <1>4, <1>5, <1>6, <1>7, Zenon DEF PrincipalTable, Exists
  <1>9. QED
    BY <1>2, <1>3, <1>4, <1>8, Zenon

(* The other tables refer to rows that are kept. *)
LEMMA OtherTables ==
  ASSUME IdentityInv, \A p \in Ids : RowKept(p)
  PROVE  /\ UNCHANGED <<binding, granted, token>> => BindingTable'
         /\ UNCHANGED <<group, member>> => GroupTable'
         /\ UNCHANGED session => SessionTable'
  <1>1. \A p \in Ids : Exists(p) => Exists(p)' /\ (principal[p].external # NULL => principal'[p].external # NULL)
    BY Zenon DEF RowKept, Exists
  <1>2. UNCHANGED <<binding, granted, token>> => BindingTable'
    BY <1>1, Zenon DEF IdentityInv, Tables, BindingTable
  <1>3. UNCHANGED <<group, member>> => GroupTable'
    BY <1>1, Zenon DEF IdentityInv, Tables, GroupTable
  <1>4. UNCHANGED session => SessionTable'
    <2>1. SUFFICES ASSUME session' = session PROVE SessionTable'
      BY Zenon
    <2>2. ASSUME NEW s \in Sessions, session[s] # NULL
          PROVE  /\ session[s] \in [owner: Ids, expired: BOOLEAN]
                 /\ principal'[session[s].owner] # NULL /\ principal'[session[s].owner].external # NULL
      <3>1. /\ session[s] \in [owner: Ids, expired: BOOLEAN] /\ session[s].owner \in Ids
            /\ Exists(session[s].owner) /\ principal[session[s].owner].external # NULL
        BY <2>2, Zenon DEF IdentityInv, Tables, SessionTable
      <3>2. QED
        BY <1>1, <3>1, Zenon DEF Exists
    <2>3. QED
      BY <2>1, <2>2, Zenon DEF IdentityInv, Tables, SessionTable, Exists
  <1>5. QED
    BY <1>2, <1>3, <1>4, Zenon

(* A step that writes one row, when the request is over with it. *)
LEMMA RowStepKeeps ==
  ASSUME IdentityInv, NEW h \in Handlers, Done(h) \/ (pc[h] = "idle" /\ UNCHANGED <<pc, mem>>),
         NEW p \in Ids, NEW w, RowOK(w), principal' = [principal EXCEPT ![p] = w],
         Exists(p) => /\ w.kind = principal[p].kind
                      /\ principal[p].external # NULL => w.external = principal[p].external
                      /\ principal[p].scim # NULL => w.scim = principal[p].scim
                      /\ h \notin Directory => w.scim = principal[p].scim,
         handed' = handed \/ (handed' = handed \cup {w.scim} /\ w.scim \in Serials),
         UNCHANGED <<binding, group, member, granted, token>>, served' \in Serials,
         session' = session \/ SessionTable'
  PROVE  StepOf(h) /\ IdentityInv'
  <1>1. /\ PrincipalTable' /\ \A q \in Ids : RowKept(q)
        /\ principal'[p] = w /\ \A q \in Ids \ {p} : principal'[q] = principal[q]
    BY RowWritten, Zenon
  <1>2. Tables'
    BY <1>1, OtherTables, Zenon DEF Tables
  <1>3. \A q \in Ids, r \in Roles : BindingKept(h, q, r)
    BY Zenon DEF BindingKept
  <1>4. /\ pc' \in [Handlers -> Labels] /\ mem' \in [Handlers -> Memory]
        /\ \A k \in Handlers \ {h} : pc'[k] = pc[k] /\ mem'[k] = mem[k]
        /\ HandlerOK(h)' /\ \A q \in Ids, r \in Roles : mem'[h].write[q][r] = NULL
    BY RequestOver, ZenonT(60)
  <1>5. StepOf(h)
    BY <1>1, <1>3, <1>4, Zenon DEF StepOf
  <1>6. QED
    BY <1>2, <1>4, <1>5, StepKeeps, Zenon

(* Sessions go while the rows are kept. *)
LEMMA SessionsGo ==
  ASSUME IdentityInv, \A p \in Ids : RowKept(p), session' = [s \in Sessions |-> session'[s]],
         \A s \in Sessions : \/ session'[s] \in {NULL, session[s]}
                             \/ /\ session[s] # NULL
                                /\ session'[s] = [session[s] EXCEPT !.expired = TRUE]
  PROVE  SessionTable'
  <1>1. \A p \in Ids : Exists(p) => principal'[p] # NULL
                                    /\ (principal[p].external # NULL => principal'[p].external # NULL)
    BY Zenon DEF RowKept, Exists
  <1>2. ASSUME NEW s \in Sessions, session'[s] # NULL
        PROVE  /\ session'[s] \in [owner: Ids, expired: BOOLEAN]
               /\ principal'[session'[s].owner] # NULL /\ principal'[session'[s].owner].external # NULL
    <2>1. session[s] # NULL
      BY <1>2, Zenon
    <2>2. /\ session[s] \in [owner: Ids, expired: BOOLEAN] /\ session[s].owner \in Ids
          /\ Exists(session[s].owner) /\ principal[session[s].owner].external # NULL
      BY <2>1, Zenon DEF IdentityInv, Tables, SessionTable
    <2>3. session'[s] \in [owner: Ids, expired: BOOLEAN] /\ session'[s].owner = session[s].owner
      BY <1>2, <2>2, Zenon
    <2>4. QED
      BY <1>1, <2>2, <2>3, Zenon
  <1>3. session' \in [Sessions -> [owner: Ids, expired: BOOLEAN] \cup {NULL}]
    BY <1>2, Zenon
  <1>4. QED
    BY <1>2, <1>3, Zenon DEF SessionTable, Exists

(* Rotate and Enable. *)
LEMMA RotateKeeps ==
  ASSUME IdentityInv, NEW h \in Handlers, NEW p \in Ids, Rotate(h, p) \/ Enable(h, p)
  PROVE  StepOf(h) /\ IdentityInv'
  <1>1. /\ Exists(p) /\ pc[h] = "idle" /\ UNCHANGED <<pc, mem>> /\ served' \in Serials /\ served' # NULL
        /\ UNCHANGED <<binding, group, member, session, handed, granted, token>>
    BY BeginLemma, Zenon DEF Rotate, Enable, Begin, history
  <1>2. RowOK(principal[p]) /\ principal[p] \in Row
    BY <1>1, Zenon DEF IdentityInv, Tables, PrincipalTable, RowOK
  <1>3. CASE Rotate(h, p)
    <2>1. PICK w : w = [principal[p] EXCEPT !.key = served'] /\ principal' = [principal EXCEPT ![p] = w]
      BY <1>3, Zenon DEF Rotate
    <2>2. principal[p].kind = "api_key"
      BY <1>3, Zenon DEF Rotate
    <2>3. w \in Row /\ w.key = served' /\ w.kind = principal[p].kind /\ w.external = principal[p].external
          /\ w.scim = principal[p].scim
      BY <1>1, <1>2, <2>1, Zenon DEF Row
    <2>4. RowOK(w)
      BY <1>1, <1>2, <2>2, <2>3, Zenon DEF RowOK
    <2>5. QED
      BY <1>1, <2>1, <2>3, <2>4, RowStepKeeps, Zenon
  <1>4. CASE Enable(h, p)
    <2>1. PICK w : w = [principal[p] EXCEPT !.disabled = FALSE] /\ principal' = [principal EXCEPT ![p] = w]
      BY <1>4, Zenon DEF Enable
    <2>2. w \in Row /\ w.key = principal[p].key /\ w.kind = principal[p].kind
          /\ w.external = principal[p].external /\ w.scim = principal[p].scim
      BY <1>2, <2>1, Zenon DEF Row
    <2>3. RowOK(w)
      BY <1>2, <2>2, Zenon DEF RowOK
    <2>4. QED
      BY <1>1, <2>1, <2>2, <2>3, RowStepKeeps, Zenon
  <1>5. QED
    BY <1>3, <1>4, Zenon

(* Disable. *)
LEMMA DisableKeeps ==
  ASSUME IdentityInv, NEW h \in Handlers, Disable(h)
  PROVE  StepOf(h) /\ IdentityInv'
  <1>1. /\ Done(h) /\ served' \in Serials /\ pc[h] = "disable"
        /\ UNCHANGED <<binding, group, member, session, handed, granted, token>>
    BY Zenon DEF Disable, history, IdentityInv, Tables
  <1>2. PICK p, w : /\ p = mem[h].p /\ w = [principal[p] EXCEPT !.disabled = TRUE]
                    /\ principal' = [principal EXCEPT ![p] = w]
    BY Zenon DEF Disable
  <1>3. p \in Ids /\ Exists(p)
    BY <1>1, <1>2, HandlerHas, Zenon DEF HandlerOK
  <1>4. RowOK(principal[p]) /\ principal[p] \in Row
    BY <1>3, Zenon DEF IdentityInv, Tables, PrincipalTable, RowOK
  <1>5. w \in Row /\ w.key = principal[p].key /\ w.kind = principal[p].kind
        /\ w.external = principal[p].external /\ w.scim = principal[p].scim
    BY <1>2, <1>4, Zenon DEF Row
  <1>6. RowOK(w)
    BY <1>4, <1>5, Zenon DEF RowOK
  <1>7. QED
    BY <1>1, <1>2, <1>3, <1>5, <1>6, RowStepKeeps, Zenon

(* CreateUser inserts. *)
LEMMA InsertUserKeeps ==
  ASSUME IdentityInv, NEW h \in Handlers, InsertUser(h)
  PROVE  StepOf(h) /\ IdentityInv'
  <1>1. /\ Done(h) /\ served' \in Serials /\ pc[h] = "insert"
        /\ UNCHANGED <<binding, group, member, session, granted, token>>
    BY Zenon DEF InsertUser, IdentityInv, Tables
  <1>2. mem[h].user \in NewUser
    BY <1>1, HandlerHas, Zenon DEF HandlerOK
  <1>3. PICK p, u, w :
          /\ p \in Ids
          /\ u = mem[h].user /\ w = ProvisionedRow(u) /\ Fresh(p)
          /\ principal' = [principal EXCEPT ![p] = w] /\ handed' = handed \cup {u.id}
    BY Zenon DEF InsertUser
  <1>4. u.id \in Serials /\ ~Exists(p)
    BY <1>2, <1>3, Zenon DEF NewUser, Fresh
  <1>5. w \in Row /\ w.kind = "user" /\ w.key = NULL /\ w.scim = u.id
    BY <1>2, <1>3, <1>4, Zenon DEF ProvisionedRow, Row, NewUser
  <1>6. RowOK(w)
    BY <1>5, Zenon DEF RowOK
  <1>7. QED
    BY <1>1, <1>3, <1>4, <1>5, <1>6, RowStepKeeps, Zenon

(* CreateUser adopts: the row is still nobody's of the directory. *)
LEMMA AdoptUserKeeps ==
  ASSUME IdentityInv, NEW h \in Handlers, h \in Directory, AdoptUser(h)
  PROVE  StepOf(h) /\ IdentityInv'
  <1>1. /\ Done(h) /\ served' \in Serials /\ pc[h] = "adopt"
        /\ UNCHANGED <<binding, group, member, session, granted, token>>
    BY Zenon DEF AdoptUser, IdentityInv, Tables
  <1>2. /\ mem[h].user \in NewUser /\ mem[h].p \in Ids /\ Exists(mem[h].p)
        /\ principal[mem[h].p].kind = "user" /\ principal[mem[h].p].scim = NULL
    BY <1>1, HandlerHas, Zenon DEF HandlerOK
  <1>3. PICK p, u, w :
          /\ p = mem[h].p /\ u = mem[h].user
          /\ w = [principal[p] EXCEPT !.scim = u.id, !.userName = u.userName, !.disabled = ~u.active]
          /\ principal' = [principal EXCEPT ![p] = w] /\ handed' = handed \cup {u.id}
    BY Zenon DEF AdoptUser
  <1>4. RowOK(principal[p]) /\ principal[p] \in Row
    BY <1>2, <1>3, Zenon DEF IdentityInv, Tables, PrincipalTable, RowOK
  <1>5. u.id \in Serials /\ u.userName \in Names /\ u.active \in BOOLEAN
    BY <1>2, <1>3, Zenon DEF NewUser
  <1>6. w \in Row /\ w.key = principal[p].key /\ w.kind = principal[p].kind
        /\ w.external = principal[p].external /\ w.scim = u.id
    BY <1>3, <1>4, <1>5, ZenonT(60) DEF Row
  <1>7. RowOK(w)
    BY <1>2, <1>3, <1>4, <1>6, Zenon DEF RowOK
  <1>8. QED
    BY <1>1, <1>2, <1>3, <1>5, <1>6, <1>7, RowStepKeeps, Zenon

(* ReplaceUser and SetActive. *)
LEMMA SetUserKeeps ==
  ASSUME IdentityInv, NEW h \in Handlers, SetUser(h)
  PROVE  StepOf(h) /\ IdentityInv'
  <1>1. /\ Done(h) /\ served' \in Serials /\ pc[h] = "write"
        /\ UNCHANGED <<binding, group, member, handed, granted, token>>
    BY Zenon DEF SetUser, history, IdentityInv, Tables
  <1>2. mem[h].user \in UserChange
    BY <1>1, HandlerHas, Zenon DEF HandlerOK
  <1>3. PICK u : u = mem[h].user
    BY Zenon
  <1>4. PICK p \in Ids :
          /\ Exists(p)
          /\ principal' = [principal EXCEPT ![p] =
               [principal[p] EXCEPT !.disabled = ~u.active,
                         !.userName = IF u.userName # NULL THEN u.userName ELSE principal[p].userName]]
          /\ session' = [s \in Sessions |->
                           IF ~(u.userName # NULL) /\ ~u.active /\ session[s] # NULL /\ session[s].owner = p
                           THEN NULL ELSE session[s]]
    <2>1. PICK p \in Ids :
            /\ Exists(p) /\ principal[p].scim = mem[h].user.id
            /\ (mem[h].user.userName # NULL) => ~UserNameTaken(p, mem[h].user.userName)
            /\ principal' = [principal EXCEPT ![p] =
                 [@ EXCEPT !.disabled = ~mem[h].user.active,
                           !.userName = IF (mem[h].user.userName # NULL) THEN mem[h].user.userName ELSE principal[p].userName]]
            /\ session' = [s \in Sessions |->
                             IF ~(mem[h].user.userName # NULL) /\ ~mem[h].user.active /\ session[s] # NULL /\ session[s].owner = p
                             THEN NULL ELSE session[s]]
      BY Zenon DEF SetUser
    <2>2. QED
      BY <1>3, <2>1, Zenon
  <1>5. PICK name, w :
          /\ name = IF u.userName # NULL THEN u.userName ELSE principal[p].userName
          /\ w = [principal[p] EXCEPT !.disabled = ~u.active, !.userName = name]
          /\ principal' = [principal EXCEPT ![p] = w]
    <2>1. PICK name : name = IF u.userName # NULL THEN u.userName ELSE principal[p].userName
      BY Zenon
    <2>2. PICK w : w = [principal[p] EXCEPT !.disabled = ~u.active, !.userName = name]
      BY Zenon
    <2>3. principal' = [principal EXCEPT ![p] = w]
      BY <1>4, <2>1, <2>2, Zenon
    <2>4. QED
      BY <2>1, <2>2, <2>3, Zenon
  <1>6. RowOK(principal[p]) /\ principal[p] \in Row
    BY <1>4, Zenon DEF IdentityInv, Tables, PrincipalTable, RowOK
  <1>7. name \in Names \cup {NULL} /\ u.active \in BOOLEAN
    BY <1>3, <1>2, <1>5, <1>6, Zenon DEF UserChange, Row
  <1>8. w \in Row /\ w.key = principal[p].key /\ w.kind = principal[p].kind
        /\ w.external = principal[p].external /\ w.scim = principal[p].scim
    BY <1>5, <1>6, <1>7, ZenonT(60) DEF Row
  <1>9. RowOK(w)
    BY <1>6, <1>8, Zenon DEF RowOK
  <1>10. \A q \in Ids : RowKept(q)
    BY <1>1, <1>5, <1>8, <1>9, RowWritten, Zenon
  <1>11. SessionTable'
    <2>1. session' = [s \in Sessions |-> session'[s]] /\ \A s \in Sessions : session'[s] \in {NULL, session[s]}
      BY <1>4, Zenon
    <2>2. QED
      BY <1>10, <2>1, SessionsGo, Zenon
  <1>12. QED
    BY <1>1, <1>5, <1>8, <1>9, <1>11, RowStepKeeps, Zenon

(* The end of a login. *)
LEMMA StartSessionKeeps ==
  ASSUME IdentityInv, NEW h \in Handlers, NEW s \in Sessions, StartSession(h, s)
  PROVE  StepOf(h) /\ IdentityInv'
  <1>1. /\ Done(h) /\ served' = served /\ pc[h] = "session"
        /\ UNCHANGED <<principal, binding, group, member, handed, granted, token>>
    BY Zenon DEF StartSession, history
  <1>2. mem[h].p \in Ids /\ Exists(mem[h].p) /\ principal[mem[h].p].external # NULL
    BY <1>1, HandlerHas, Zenon DEF HandlerOK
  <1>3. PICK w : w = [owner |-> mem[h].p, expired |-> FALSE] /\ session' = [session EXCEPT ![s] = w]
    BY Zenon DEF StartSession
  <1>4. w \in [owner: Ids, expired: BOOLEAN] /\ w.owner = mem[h].p
    BY <1>2, <1>3, Zenon
  <1>5. SessionTable'
    <2>1. session' \in [Sessions -> [owner: Ids, expired: BOOLEAN] \cup {NULL}]
      BY <1>3, <1>4, Zenon DEF IdentityInv, Tables, SessionTable
    <2>2. \A x \in Sessions : session'[x] = w \/ session'[x] = session[x]
      BY <1>3, Zenon DEF IdentityInv, Tables, SessionTable
    <2>3. QED
      BY <1>1, <1>2, <1>4, <2>1, <2>2, Zenon DEF IdentityInv, Tables, SessionTable, Exists
  <1>6. (\A q \in Ids : RowKept(q)) /\ \A q \in Ids, r \in Roles : BindingKept(h, q, r)
    BY <1>1, Zenon DEF RowKept, BindingKept, Exists
  <1>7. PrincipalTable'
    BY <1>1, Zenon DEF IdentityInv, Tables, PrincipalTable, Exists
  <1>8. Tables'
    BY <1>1, <1>5, <1>6, <1>7, OtherTables, Zenon DEF Tables, IdentityInv
  <1>9. /\ pc' \in [Handlers -> Labels] /\ mem' \in [Handlers -> Memory]
        /\ \A k \in Handlers \ {h} : pc'[k] = pc[k] /\ mem'[k] = mem[k]
        /\ HandlerOK(h)' /\ \A q \in Ids, r \in Roles : mem'[h].write[q][r] = NULL
    BY <1>1, RequestOver, Zenon
  <1>10. StepOf(h)
    BY <1>1, <1>6, <1>9, Zenon DEF StepOf
  <1>11. QED
    BY <1>8, <1>9, <1>10, StepKeeps, Zenon

(* What happens to sessions on their own, and steps of something else. *)
SessionStep ==
  UNCHANGED <<principal, binding, group, member, pc, mem, served, handed, granted, token>>

(* They disturb nothing. *)
LEMMA SessionStepKeeps ==
  ASSUME IdentityInv,
         \/ \E s \in Sessions : Logout(s) \/ Expire(s)
         \/ DeleteExpired
         \/ UNCHANGED vars
  PROVE  SessionStep /\ IdentityInv'
  <1>1. SessionStep
    BY Zenon DEF SessionStep, Logout, Expire, DeleteExpired, vars, rows, history
  <1>2. \A q \in Ids : RowKept(q)
    BY <1>1, Zenon DEF SessionStep, RowKept, Exists
  <1>3. SessionTable'
    <2>1. session = [s \in Sessions |-> session[s]]
      BY Zenon DEF IdentityInv, Tables, SessionTable
    <2>2. ASSUME NEW s \in Sessions, Logout(s) PROVE SessionTable'
      <3>1. /\ session' = [x \in Sessions |-> session'[x]]
            /\ \A x \in Sessions : session'[x] \in {NULL, session[x]}
        BY <2>1, <2>2, Zenon DEF Logout
      <3>2. QED
        BY <1>2, <3>1, SessionsGo, Zenon
    <2>3. ASSUME NEW s \in Sessions, Expire(s) PROVE SessionTable'
      <3>1. session' = [session EXCEPT ![s] = [session[s] EXCEPT !.expired = TRUE]] /\ session[s] # NULL
        BY <2>3, Zenon DEF Expire
      <3>2. /\ session' = [x \in Sessions |-> session'[x]]
            /\ \A x \in Sessions : \/ session'[x] = session[x]
                                    \/ /\ session[x] # NULL
                                       /\ session'[x] = [session[x] EXCEPT !.expired = TRUE]
        BY <2>1, <3>1, Zenon
      <3>3. QED
        BY <1>2, <3>2, SessionsGo, Zenon
    <2>4. CASE DeleteExpired
      <3>1. /\ session' = [x \in Sessions |-> session'[x]]
            /\ \A x \in Sessions : session'[x] \in {NULL, session[x]}
        BY <2>4, Zenon DEF DeleteExpired
      <3>2. QED
        BY <1>2, <3>1, SessionsGo, Zenon
    <2>5. CASE UNCHANGED vars
      BY <1>2, <2>5, OtherTables, Zenon DEF vars, rows
    <2>6. QED
      BY <2>2, <2>3, <2>4, <2>5, Zenon
  <1>4. Tables'
    <2>1. PrincipalTable'
      BY <1>1, Zenon DEF SessionStep, IdentityInv, Tables, PrincipalTable, Exists
    <2>2. QED
      BY <1>1, <1>2, <1>3, <2>1, OtherTables, Zenon DEF SessionStep, Tables, IdentityInv
  <1>5. HandlerTable' /\ LocksExclude'
    BY <1>1 DEF SessionStep, IdentityInv, HandlerTable, LocksExclude, HandlerOK, WriteOK, Exists
  <1>6. QED
    BY <1>1, <1>4, <1>5, Zenon DEF IdentityInv

(***************************************************************************)
(* Steps that write role bindings.                                         *)
(***************************************************************************)
(* The bindings after a change of theirs. *)
LEMMA ChangedLemma ==
  ASSUME NEW b \in Bindings, NEW w \in [Roles -> Sources \cup {NULL, "gone"}]
  PROVE  /\ Changed(b, w) \in Bindings
         /\ \A r \in Roles : /\ w[r] = NULL => Changed(b, w)[r] = b[r]
                             /\ w[r] = "gone" => Changed(b, w)[r] = NULL
                             /\ w[r] \in Sources => Changed(b, w)[r] = w[r]
  BY NullAssumption, Zenon DEF Changed, Bindings, Sources

(* The Access tab creates a key, with its roles. *)
LEMMA CreateKeyKeeps ==
  ASSUME IdentityInv, NEW h \in Handlers, h \in Admins, NEW n \in Names, NEW rs \in SUBSET Roles,
         CreateKey(h, n, rs)
  PROVE  StepOf(h) /\ IdentityInv'
  <1>1. /\ pc[h] = "idle" /\ UNCHANGED <<pc, mem>> /\ served' \in Serials /\ served' # NULL
        /\ UNCHANGED <<group, member, session, handed, token>>
    BY BeginLemma, Zenon DEF CreateKey, Begin
  <1>2. PICK p, w, b :
          /\ p \in Ids
          /\ Fresh(p) /\ w = KeyRow(n, served') /\ principal' = [principal EXCEPT ![p] = w]
          /\ b = Changed(NoRoles, Changes(NoRoles, "local", rs))
          /\ binding' = [binding EXCEPT ![p] = b] /\ granted' = [granted EXCEPT ![p] = rs]
    BY Zenon DEF CreateKey
  <1>3. ~Exists(p) /\ w \in Row /\ w.kind = "api_key" /\ w.key # NULL /\ w.external = NULL /\ w.scim = NULL
    BY <1>1, <1>2, Zenon DEF Fresh, KeyRow, Row
  <1>4. RowOK(w)
    BY <1>3, Zenon DEF RowOK
  <1>5. /\ PrincipalTable' /\ \A q \in Ids : RowKept(q)
        /\ principal'[p] = w /\ w # NULL /\ \A q \in Ids \ {p} : principal'[q] = principal[q]
    BY <1>1, <1>2, <1>3, <1>4, RowWritten, ZenonT(60)
  <1>6. b \in Bindings /\ \A r \in Roles : b[r] \in {NULL, "local"}
    <2>1. NoRoles \in Bindings /\ "local" \in Sources
      BY Zenon DEF NoRoles, Bindings, Sources
    <2>2. PICK c : c = Changes(NoRoles, "local", rs)
      BY Zenon
    <2>3. c \in [Roles -> Sources \cup {NULL, "gone"}] /\ \A r \in Roles : c[r] \in {NULL, "local", "gone"}
      BY <2>1, <2>2, ChangesLemma
    <2>4. QED
      BY <1>2, <2>1, <2>2, <2>3, ChangedLemma, ZenonT(60) DEF NoRoles, Sources
  <1>7. /\ binding \in [Ids -> Bindings] /\ granted \in [Ids -> SUBSET Roles] /\ token \in [Ids -> SUBSET Roles]
        /\ \A q \in Ids : ~Exists(q) => \A r \in Roles : binding[q][r] = NULL
    BY Zenon DEF IdentityInv, Tables, BindingTable
  <1>8. /\ binding' \in [Ids -> Bindings] /\ binding'[p] = b /\ granted' \in [Ids -> SUBSET Roles]
        /\ \A q \in Ids \ {p} : binding'[q] = binding[q]
    BY <1>2, <1>6, <1>7, Zenon
  <1>9. BindingTable'
    BY <1>1, <1>5, <1>7, <1>8, ZenonT(60) DEF BindingTable, Exists
  <1>10. Tables'
    BY <1>1, <1>5, <1>9, OtherTables, Zenon DEF Tables
  <1>11. ASSUME NEW q \in Ids, NEW r \in Roles PROVE BindingKept(h, q, r)
    <2>1. CASE q = p
      <3>1. ASSUME NEW k \in Handlers PROVE mem[k].write[p][r] = NULL
        <4>1. p \in Ids /\ ~Exists(p)
          BY <1>2, <1>3, Zenon
        <4>2. WriteOK(k, p, r)
          BY <4>1, HandlerHas, Zenon DEF HandlerOK
        <4>3. QED
          BY <4>1, <4>2, Zenon DEF WriteOK
      <3>2. binding[p][r] = NULL /\ binding'[p][r] \in {NULL, "local"}
        BY <1>2, <1>3, <1>6, <1>7, <1>8, Zenon
      <3>3. QED
        BY <2>1, <3>1, <3>2, NullAssumption, Zenon DEF BindingKept, Sources
    <2>2. CASE q # p
      BY <1>8, <2>2, Zenon DEF BindingKept
    <2>3. QED
      BY <2>1, <2>2, Zenon
  <1>12. /\ pc' \in [Handlers -> Labels] /\ mem' \in [Handlers -> Memory]
         /\ \A k \in Handlers \ {h} : pc'[k] = pc[k] /\ mem'[k] = mem[k]
         /\ HandlerOK(h)' /\ \A q \in Ids, r \in Roles : mem'[h].write[q][r] = NULL
    BY <1>1, RequestOver, Zenon
  <1>13. StepOf(h)
    BY <1>1, <1>3, <1>5, <1>11, <1>12, Zenon DEF StepOf
  <1>14. QED
    BY <1>10, <1>12, <1>13, StepKeeps, Zenon

(* ReplaceRoles' INSERTs: what is there was written by this transaction or *)
(* by nobody.                                                              *)
LEMMA ReplaceRolesKeeps ==
  ASSUME IdentityInv, NEW h \in Handlers, h \in Admins, ReplaceRoles(h)
  PROVE  /\ StepOf(h) /\ IdentityInv'
         /\ \E p \in Ids :
              /\ p = mem[h].p /\ granted' = [granted EXCEPT ![p] = mem[h].roles]
              /\ \A q \in Ids \ {p} : binding'[q] = binding[q]
              /\ \A r \in Roles :
                   \/ binding'[p][r] = "local" /\ r \in mem[h].roles
                   \/ binding'[p][r] = NULL
                   \/ binding'[p][r] = binding[p][r] /\ mem[h].write[p][r] # "gone"
  <1>1. /\ pc[h] = "grant" /\ Done(h) /\ served' \in Serials
        /\ UNCHANGED <<principal, group, member, session, handed, token>>
    BY Zenon DEF ReplaceRoles, IdentityInv, Tables
  <1>2. HandlerOK(h) /\ mem[h] \in Memory /\ mem[h].p \in Ids /\ Exists(mem[h].p) /\ mem[h].roles \subseteq Roles
    BY <1>1, HandlerHas, Zenon DEF HandlerOK, Memory
  <1>3. PICK p, w, c, d, b :
          /\ p = mem[h].p /\ w = mem[h].write[p] /\ c = Changed(binding[p], w)
          /\ d = [r \in Roles |-> IF c[r] = NULL /\ r \in mem[h].roles THEN "local" ELSE NULL]
          /\ b = Changed(c, d)
          /\ binding' = [binding EXCEPT ![p] = b] /\ granted' = [granted EXCEPT ![p] = mem[h].roles]
          /\ Unlocked(h, p, mem[h].roles)
    BY Zenon DEF ReplaceRoles
  <1>4. /\ binding \in [Ids -> Bindings] /\ granted \in [Ids -> SUBSET Roles] /\ token \in [Ids -> SUBSET Roles]
        /\ \A q \in Ids : ~Exists(q) => \A r \in Roles : binding[q][r] = NULL
    BY Zenon DEF IdentityInv, Tables, BindingTable
  <1>5. w \in [Roles -> Sources \cup {NULL, "gone"}] /\ \A r \in Roles : w[r] \in {NULL, "gone"}
    <2>1. mem[h].write \in Writes /\ p \in Ids /\ w = mem[h].write[p]
      BY <1>2, <1>3, Zenon DEF Memory
    <2>2. w \in [Roles -> Sources \cup {NULL, "gone"}]
      BY <2>1, Zenon DEF Writes
    <2>3. ASSUME NEW r \in Roles PROVE w[r] \in {NULL, "gone"}
      <3>1. WriteOK(h, p, r)
        BY <1>2, <2>1, Zenon DEF HandlerOK
      <3>2. QED
        BY <1>1, <2>1, <3>1, Zenon DEF WriteOK
    <2>4. QED
      BY <2>2, <2>3, Zenon
  <1>6. /\ c \in Bindings
        /\ \A r \in Roles : (w[r] = NULL => c[r] = binding[p][r]) /\ (w[r] = "gone" => c[r] = NULL)
    <2>1. binding[p] \in Bindings /\ c = Changed(binding[p], w)
      BY <1>2, <1>3, <1>4, Zenon
    <2>2. QED
      BY <1>5, <2>1, ChangedLemma, Zenon
  <1>7. d \in [Roles -> Sources \cup {NULL, "gone"}]
    BY <1>3, Zenon DEF Sources
  <1>8. /\ b \in Bindings
        /\ \A r \in Roles : \/ b[r] = "local" /\ r \in mem[h].roles /\ c[r] = NULL
                            \/ b[r] = c[r]
    <2>1. /\ b = Changed(c, d)
          /\ \A r \in Roles : d[r] = NULL \/ (d[r] = "local" /\ c[r] = NULL /\ r \in mem[h].roles)
      BY <1>3, Zenon
    <2>2. QED
      BY <1>6, <1>7, <2>1, ChangedLemma, Zenon DEF Sources
  <1>9. /\ binding' \in [Ids -> Bindings] /\ binding'[p] = b /\ granted' \in [Ids -> SUBSET Roles]
        /\ \A q \in Ids \ {p} : binding'[q] = binding[q]
    BY <1>2, <1>3, <1>4, <1>8, Zenon
  <1>10. ASSUME NEW r \in Roles
         PROVE  \/ binding'[p][r] = "local" /\ r \in mem[h].roles
                \/ binding'[p][r] = NULL /\ w[r] = "gone"
                \/ binding'[p][r] = binding[p][r] /\ w[r] # "gone"
    <2>1. w[r] = NULL \/ w[r] = "gone"
      BY <1>5, Zenon
    <2>2. NULL # "gone"
      BY NullAssumption, Zenon
    <2>3. (w[r] = NULL => c[r] = binding[p][r]) /\ (w[r] = "gone" => c[r] = NULL)
      BY <1>6, Zenon
    <2>4. (b[r] = "local" /\ r \in mem[h].roles) \/ b[r] = c[r]
      BY <1>8, Zenon
    <2>5. QED
      BY <1>9, <2>1, <2>2, <2>3, <2>4, Zenon
  <1>11. BindingTable'
    <2>1. p \in Ids /\ Exists(p)
      BY <1>2, <1>3, Zenon
    <2>2. QED
      BY <1>1, <1>4, <1>9, <2>1, Zenon DEF BindingTable, Exists
  <1>12. ASSUME NEW q \in Ids, NEW r \in Roles PROVE BindingKept(h, q, r)
    <2>1. CASE q # p
      BY <1>9, <2>1, Zenon DEF BindingKept
    <2>2. CASE q = p
      <3>1. SUFFICES ASSUME binding'[p][r] # binding[p][r] PROVE BindingKept(h, q, r)
        BY <2>2, Zenon DEF BindingKept
      <3>2. r \in mem[h].roles \/ mem[h].write[p][r] # NULL
        BY <1>3, <1>10, <3>1, NullAssumption, Zenon
      <3>3. \A k \in Handlers \ {h} : mem[k].write[p][r] = NULL
        BY <1>2, <1>3, <3>2, Zenon DEF Unlocked, IdentityInv, LocksExclude
      <3>4. binding'[p][r] # "scim"
        BY <1>10, <3>1, NullAssumption, Zenon DEF Sources
      <3>5. pc'[h] = "idle"
        BY <1>1, RequestOver, Zenon
      <3>6. QED
        BY <1>1, <1>3, <2>2, <3>3, <3>4, <3>5, Zenon DEF BindingKept
    <2>3. QED
      BY <2>1, <2>2, Zenon
  <1>13. (\A q \in Ids : RowKept(q)) /\ PrincipalTable'
    BY <1>1, Zenon DEF RowKept, Exists, IdentityInv, Tables, PrincipalTable
  <1>14. Tables'
    BY <1>1, <1>11, <1>13, OtherTables, Zenon DEF Tables
  <1>15. /\ pc' \in [Handlers -> Labels] /\ mem' \in [Handlers -> Memory]
         /\ \A k \in Handlers \ {h} : pc'[k] = pc[k] /\ mem'[k] = mem[k]
         /\ HandlerOK(h)' /\ \A q \in Ids, r \in Roles : mem'[h].write[q][r] = NULL
    BY <1>1, RequestOver, Zenon
  <1>16. StepOf(h)
    BY <1>1, <1>12, <1>13, <1>15, Zenon DEF StepOf
  <1>17. StepOf(h) /\ IdentityInv'
    BY <1>14, <1>15, <1>16, StepKeeps, Zenon
  <1>18. QED
    BY <1>2, <1>3, <1>9, <1>10, <1>17, ZenonT(60)

(* UpsertFromIdP's row: claimed, corrected or new. *)
Upserted(p, x, n, names) ==
  \/ /\ Claimable(n, names) = {p}
     /\ principal' = [principal EXCEPT ![p] = [@ EXCEPT !.external = x, !.subject = n]]
  \/ /\ Exists(p) /\ principal[p].external = x
     /\ principal' = [principal EXCEPT ![p].subject = n]
  \/ /\ Fresh(p)
     /\ principal' = [principal EXCEPT ![p] = PersonRow(x, n)]

(* It is this account's row, and stays whose it was. *)
LEMMA UpsertRow ==
  ASSUME IdentityInv, NEW x \in People, NEW n \in Names, NEW names, NEW p \in Ids,
         Upserted(p, x, n, names)
  PROVE  \E w : /\ RowOK(w) /\ w.external = x /\ principal' = [principal EXCEPT ![p] = w]
                /\ Exists(p) => /\ w.kind = principal[p].kind /\ w.scim = principal[p].scim
                                /\ principal[p].external # NULL => w.external = principal[p].external
  <1>0. x # NULL
    BY IdentityAssumption, Zenon
  <1>1. ASSUME Claimable(n, names) = {p},
               principal' = [principal EXCEPT ![p] = [principal[p] EXCEPT !.external = x, !.subject = n]]
        PROVE  \E w : /\ RowOK(w) /\ w.external = x /\ principal' = [principal EXCEPT ![p] = w]
                      /\ Exists(p) => /\ w.kind = principal[p].kind /\ w.scim = principal[p].scim
                                      /\ principal[p].external # NULL => w.external = principal[p].external
    <2>1. Exists(p) /\ principal[p].external = NULL /\ principal[p].kind = "user"
      BY <1>1, Zenon DEF Claimable
    <2>2. PICK w : w = [principal[p] EXCEPT !.external = x, !.subject = n]
      BY Zenon
    <2>3. RowOK(principal[p]) /\ principal[p] \in Row
      BY <2>1, Zenon DEF IdentityInv, Tables, PrincipalTable, RowOK
    <2>4. w \in Row /\ w.external = x /\ w.kind = principal[p].kind /\ w.key = principal[p].key
          /\ w.scim = principal[p].scim
      BY <2>2, <2>3, Zenon DEF Row
    <2>5. RowOK(w)
      BY <2>1, <2>3, <2>4, Zenon DEF RowOK
    <2>6. QED
      BY <1>1, <2>1, <2>2, <2>4, <2>5, Zenon
  <1>2. ASSUME Exists(p), principal[p].external = x,
               principal' = [principal EXCEPT ![p] = [principal[p] EXCEPT !.subject = n]]
        PROVE  \E w : /\ RowOK(w) /\ w.external = x /\ principal' = [principal EXCEPT ![p] = w]
                      /\ Exists(p) => /\ w.kind = principal[p].kind /\ w.scim = principal[p].scim
                                      /\ principal[p].external # NULL => w.external = principal[p].external
    <2>1. PICK w : w = [principal[p] EXCEPT !.subject = n]
      BY Zenon
    <2>2. RowOK(principal[p]) /\ principal[p] \in Row
      BY <1>2, Zenon DEF IdentityInv, Tables, PrincipalTable, RowOK
    <2>3. w \in Row /\ w.external = x /\ w.kind = principal[p].kind /\ w.key = principal[p].key
          /\ w.scim = principal[p].scim
      BY <1>2, <2>1, <2>2, Zenon DEF Row
    <2>4. RowOK(w)
      BY <1>2, <2>2, <2>3, Zenon DEF RowOK
    <2>5. QED
      BY <1>2, <2>1, <2>3, <2>4, Zenon
  <1>3. ASSUME Fresh(p), principal' = [principal EXCEPT ![p] = PersonRow(x, n)]
        PROVE  \E w : /\ RowOK(w) /\ w.external = x /\ principal' = [principal EXCEPT ![p] = w]
                      /\ Exists(p) => /\ w.kind = principal[p].kind /\ w.scim = principal[p].scim
                                      /\ principal[p].external # NULL => w.external = principal[p].external
    <2>1. PersonRow(x, n) \in Row /\ PersonRow(x, n).external = x
          /\ PersonRow(x, n).kind = "user" /\ PersonRow(x, n).key = NULL
      BY Zenon DEF PersonRow, Row
    <2>2. RowOK(PersonRow(x, n))
      BY <2>1, Zenon DEF RowOK
    <2>3. ~Exists(p)
      BY <1>3, Zenon DEF Fresh
    <2>4. QED
      BY <1>3, <2>1, <2>2, <2>3, Zenon
  <1>4. QED
    BY <1>1, <1>2, <1>3, Zenon DEF Upserted

(* A login: the row is this account's, and its token's roles replace those *)
(* of the last one.                                                        *)
LEMMA UpsertKeeps ==
  ASSUME IdentityInv, NEW h \in Handlers, NEW x \in People, NEW n \in Names, NEW names,
         NEW rs \in SUBSET Roles, Upsert(h, x, n, names, rs)
  PROVE  /\ StepOf(h) /\ IdentityInv'
         /\ \E p \in Ids :
              /\ token' = [token EXCEPT ![p] = rs]
              /\ \A q \in Ids \ {p} : binding'[q] = binding[q]
              /\ \A r \in Roles : \/ binding'[p][r] \in {NULL, "idp"} /\ (binding'[p][r] = "idp" => r \in rs)
                                  \/ binding'[p][r] = binding[p][r] /\ (binding[p][r] = "idp" => r \in rs)
         /\ UNCHANGED <<group, member, granted>>
  <1>1. /\ served' \in Serials /\ pc[h] = "idle"
        /\ UNCHANGED <<group, member, session, handed, granted>>
    BY BeginLemma, Zenon DEF Upsert, Begin
  <1>2. PICK p \in Ids :
          /\ Upserted(p, x, n, names)
          /\ CanReconcile(h, p, "idp", rs)
          /\ binding' = [binding EXCEPT ![p] = Changed(@, Changes(@, "idp", rs))]
          /\ token' = [token EXCEPT ![p] = rs]
          /\ Goto(h, "check", [Idle EXCEPT !.p = p])
    BY Zenon DEF Upsert, Upserted
  <1>3. PICK w : /\ RowOK(w) /\ w.external = x /\ principal' = [principal EXCEPT ![p] = w]
                 /\ Exists(p) => /\ w.kind = principal[p].kind /\ w.scim = principal[p].scim
                                 /\ principal[p].external # NULL => w.external = principal[p].external
    <2>1. Upserted(p, x, n, names)
      BY <1>2, Zenon
    <2>2. QED
      BY <2>1, UpsertRow
  <1>4. /\ PrincipalTable' /\ \A q \in Ids : RowKept(q)
        /\ principal'[p] = w /\ w # NULL /\ \A q \in Ids \ {p} : principal'[q] = principal[q]
    BY <1>1, <1>3, RowWritten, Zenon
  <1>5. /\ binding \in [Ids -> Bindings] /\ granted \in [Ids -> SUBSET Roles] /\ token \in [Ids -> SUBSET Roles]
        /\ \A q \in Ids : ~Exists(q) => \A r \in Roles : binding[q][r] = NULL
    BY Zenon DEF IdentityInv, Tables, BindingTable
  <1>6. PICK c, b : /\ c = Changes(binding[p], "idp", rs) /\ b = Changed(binding[p], c)
                    /\ binding' = [binding EXCEPT ![p] = b]
    BY <1>2, Zenon
  <1>7. /\ c \in [Roles -> Sources \cup {NULL, "gone"}]
        /\ \A r \in Roles : c[r] # NULL =>
             \/ c[r] = "idp" /\ binding[p][r] = NULL /\ r \in rs
             \/ c[r] = "gone" /\ binding[p][r] = "idp" /\ r \notin rs
        /\ \A r \in Roles : binding[p][r] = "idp" /\ r \notin rs => c[r] = "gone"
    <2>1. binding[p] \in Bindings /\ "idp" \in Sources /\ c = Changes(binding[p], "idp", rs)
      BY <1>5, <1>6, Zenon DEF Sources
    <2>2. QED
      BY <2>1, ChangesLemma
  <1>8. /\ b \in Bindings
        /\ \A r \in Roles : /\ c[r] = NULL => b[r] = binding[p][r]
                            /\ c[r] = "gone" => b[r] = NULL
                            /\ c[r] \in Sources => b[r] = c[r]
    <2>1. binding[p] \in Bindings /\ b = Changed(binding[p], c)
      BY <1>5, <1>6, Zenon
    <2>2. QED
      BY <1>7, <2>1, ChangedLemma, Zenon
  <1>9. /\ binding' \in [Ids -> Bindings] /\ binding'[p] = b
        /\ \A q \in Ids \ {p} : binding'[q] = binding[q]
    BY <1>5, <1>6, <1>8, Zenon
  <1>10. ASSUME NEW r \in Roles
         PROVE  \/ c[r] = NULL /\ binding'[p][r] = binding[p][r] /\ (binding[p][r] = "idp" => r \in rs)
                \/ c[r] = "idp" /\ binding[p][r] = NULL /\ binding'[p][r] = "idp" /\ r \in rs
                \/ c[r] = "gone" /\ binding[p][r] = "idp" /\ binding'[p][r] = NULL
    <2>1. CASE c[r] = NULL
      BY <1>7, <1>8, <1>9, <2>1, NullAssumption, Zenon
    <2>2. CASE c[r] # NULL
      BY <1>7, <1>8, <1>9, <2>2, Zenon DEF Sources
    <2>3. QED
      BY <2>1, <2>2, Zenon
  <1>11. token' \in [Ids -> SUBSET Roles] /\ token' = [token EXCEPT ![p] = rs]
    BY <1>2, <1>5, Zenon
  <1>12. BindingTable'
    BY <1>1, <1>4, <1>5, <1>9, <1>11, ZenonT(60) DEF BindingTable, Exists
  <1>13. Tables'
    BY <1>1, <1>4, <1>12, OtherTables, Zenon DEF Tables
  <1>14. ASSUME NEW q \in Ids, NEW r \in Roles PROVE BindingKept(h, q, r)
    <2>1. CASE q # p
      BY <1>9, <2>1, Zenon DEF BindingKept
    <2>2. CASE q = p
      <3>1. SUFFICES ASSUME binding'[p][r] # binding[p][r] PROVE BindingKept(h, q, r)
        BY <2>2, Zenon DEF BindingKept
      <3>2. /\ r \in rs \/ binding[p][r] = "idp"
            /\ binding'[p][r] \in {NULL, "idp"} /\ binding[p][r] \in {NULL, "idp"}
        BY <1>10, <3>1, Zenon
      <3>3. \A k \in Handlers \ {h} : mem[k].write[p][r] = NULL
        <4>1. CanReconcile(h, p, "idp", rs)
          BY <1>2, Zenon
        <4>2. QED
          BY <3>2, <4>1, Zenon DEF CanReconcile, Unlocked
      <3>4. QED
        BY <2>2, <3>2, <3>3, NullAssumption, Zenon DEF BindingKept, Sources
    <2>3. QED
      BY <2>1, <2>2, Zenon
  <1>15. PICK m : m = [Idle EXCEPT !.p = p] /\ Goto(h, "check", m)
    BY <1>2, Zenon
  <1>16. m \in Memory /\ m.p = p /\ m.write = NoWrites /\ "check" \in Labels
    BY <1>15, IdleLemma, Zenon DEF Memory, Labels
  <1>17. /\ pc' \in [Handlers -> Labels] /\ mem' \in [Handlers -> Memory] /\ pc'[h] = "check" /\ mem'[h] = m
         /\ \A k \in Handlers \ {h} : pc'[k] = pc[k] /\ mem'[k] = mem[k]
    <2>1. Goto(h, "check", m)
      BY <1>15, Zenon
    <2>2. QED
      BY <1>16, <2>1, GotoLemma, Zenon DEF IdentityInv
  <1>18. \A q \in Ids, r \in Roles : mem'[h].write[q][r] = NULL /\ WriteOK(h, q, r)'
    BY <1>16, <1>17, NothingWritten, Zenon
  <1>19. w.external # NULL
    BY <1>3, IdentityAssumption, Zenon
  <1>20. HandlerOK(h)'
    BY <1>4, <1>16, <1>17, <1>18, <1>19, Zenon DEF HandlerOK, Exists
  <1>21. \A q \in Ids : Exists(q) => principal'[q].scim = principal[q].scim
    BY <1>3, <1>4, Zenon
  <1>22. StepOf(h)
    BY <1>1, <1>4, <1>14, <1>17, <1>18, <1>21, Zenon DEF StepOf
  <1>23. StepOf(h) /\ IdentityInv'
    BY <1>13, <1>17, <1>20, <1>22, StepKeeps, Zenon
  <1>24. \A r \in Roles : \/ binding'[p][r] \in {NULL, "idp"} /\ (binding'[p][r] = "idp" => r \in rs)
                          \/ binding'[p][r] = binding[p][r] /\ (binding[p][r] = "idp" => r \in rs)
    BY <1>10, NullAssumption, Zenon DEF Sources
  <1>25. QED
    BY <1>1, <1>9, <1>11, <1>23, <1>24, Zenon

(* The groups' transaction commits: what it wrote is what changes. *)
LEMMA CommitGroupKeeps ==
  ASSUME IdentityInv, NEW h \in Handlers, CommitGroup(h)
  PROVE  /\ StepOf(h) /\ IdentityInv'
         /\ \A p \in Ids, r \in Roles :
              \/ binding'[p][r] = binding[p][r] /\ mem[h].write[p][r] = NULL
              \/ mem[h].write[p][r] = "scim" /\ binding[p][r] = NULL /\ binding'[p][r] = "scim"
              \/ mem[h].write[p][r] = "gone" /\ binding[p][r] = "scim" /\ binding'[p][r] = NULL
  <1>1. /\ pc[h] = "reconcile" /\ Done(h) /\ served' \in Serials
        /\ UNCHANGED <<principal, session, handed, granted, token>>
    BY Zenon DEF CommitGroup, history, IdentityInv, Tables
  <1>2. /\ HandlerOK(h) /\ mem[h].tx \in GroupTx /\ h \in Directory /\ mem[h].write \in Writes
        /\ \A p \in mem[h].tx.add : Exists(p)
    BY <1>1, HandlerHas, Zenon DEF HandlerOK, Memory
  <1>3. PICK t : t = mem[h].tx
    BY Zenon
  <1>4. t \in GroupTx /\ t.g \in Groups /\ t.name \in GroupNames \cup {NULL} /\ t.add \subseteq Ids
    BY <1>2, <1>3, Zenon DEF GroupTx
  <1>5. /\ group' = [group EXCEPT ![t.g] = t.name]
        /\ member' = [member EXCEPT ![t.g] = MembersIn(t, t.g)]
        /\ binding' = [p \in Ids |-> Changed(binding[p], mem[h].write[p])]
    BY <1>3, Zenon DEF CommitGroup
  <1>6. /\ binding \in [Ids -> Bindings] /\ granted \in [Ids -> SUBSET Roles] /\ token \in [Ids -> SUBSET Roles]
        /\ \A q \in Ids : ~Exists(q) => \A r \in Roles : binding[q][r] = NULL
    BY Zenon DEF IdentityInv, Tables, BindingTable
  <1>7. ASSUME NEW p \in Ids
        PROVE  /\ binding'[p] \in Bindings
               /\ \A r \in Roles :
                    \/ binding'[p][r] = binding[p][r] /\ mem[h].write[p][r] = NULL
                    \/ mem[h].write[p][r] = "scim" /\ binding[p][r] = NULL /\ binding'[p][r] = "scim"
                    \/ mem[h].write[p][r] = "gone" /\ binding[p][r] = "scim" /\ binding'[p][r] = NULL
    <2>1. PICK w : w = mem[h].write[p]
      BY Zenon
    <2>2. binding[p] \in Bindings /\ w \in [Roles -> Sources \cup {NULL, "gone"}]
      BY <1>2, <1>6, <2>1, Zenon DEF Writes
    <2>3. binding'[p] = Changed(binding[p], w)
      BY <1>5, <2>1, Zenon
    <2>4. /\ binding'[p] \in Bindings
          /\ \A r \in Roles : /\ w[r] = NULL => binding'[p][r] = binding[p][r]
                              /\ w[r] = "gone" => binding'[p][r] = NULL
                              /\ w[r] \in Sources => binding'[p][r] = w[r]
      BY <2>2, <2>3, ChangedLemma
    <2>5. ASSUME NEW r \in Roles, w[r] # NULL
          PROVE  (w[r] = "scim" /\ binding[p][r] = NULL) \/ (w[r] = "gone" /\ binding[p][r] = "scim")
      <3>1. WriteOK(h, p, r)
        BY <1>2, Zenon DEF HandlerOK
      <3>2. QED
        BY <1>1, <2>1, <2>5, <3>1, Zenon DEF WriteOK
    <2>6. QED
      BY <2>1, <2>4, <2>5, Zenon DEF Sources
  <1>8. binding' \in [Ids -> Bindings]
    BY <1>5, <1>7, Zenon
  <1>9. BindingTable'
    <2>1. ASSUME NEW p \in Ids, ~Exists(p), NEW r \in Roles PROVE binding'[p][r] = NULL
      <3>1. mem[h].write[p][r] = NULL
        BY <1>2, <2>1, Zenon DEF HandlerOK, WriteOK
      <3>2. QED
        BY <1>6, <1>7, <2>1, <3>1, NullAssumption, Zenon DEF Sources
    <2>2. QED
      BY <1>1, <1>6, <1>8, <2>1, Zenon DEF BindingTable, Exists
  <1>10. GroupTable'
    <2>1. /\ group \in [Groups -> GroupNames \cup {NULL}] /\ member \in [Groups -> SUBSET Ids]
          /\ \A g \in Groups : \A p \in member[g] : Exists(p)
      BY Zenon DEF IdentityInv, Tables, GroupTable
    <2>2. MembersIn(t, t.g) = (member[t.g] \cup t.add) \ t.remove
      BY Zenon DEF MembersIn
    <2>3. /\ MembersIn(t, t.g) \subseteq Ids /\ \A p \in MembersIn(t, t.g) : Exists(p)
      BY <1>2, <1>3, <1>4, <2>1, <2>2, Zenon
    <2>4. /\ group' \in [Groups -> GroupNames \cup {NULL}] /\ member' \in [Groups -> SUBSET Ids]
          /\ \A g \in Groups : member'[g] = member[g] \/ member'[g] = MembersIn(t, t.g)
      BY <1>4, <1>5, <2>1, <2>3, Zenon
    <2>5. QED
      BY <1>1, <2>1, <2>3, <2>4, Zenon DEF GroupTable, Exists
  <1>11. (\A q \in Ids : RowKept(q)) /\ PrincipalTable'
    BY <1>1, Zenon DEF RowKept, Exists, IdentityInv, Tables, PrincipalTable
  <1>12. Tables'
    BY <1>1, <1>9, <1>10, <1>11, OtherTables, Zenon DEF Tables
  <1>13. ASSUME NEW p \in Ids, NEW r \in Roles PROVE BindingKept(h, p, r)
    <2>1. SUFFICES ASSUME binding'[p][r] # binding[p][r] PROVE BindingKept(h, p, r)
      BY Zenon DEF BindingKept
    <2>2. /\ mem[h].write[p][r] \in {"scim", "gone"}
          /\ binding'[p][r] \in {NULL, "scim"} /\ binding[p][r] \in {NULL, "scim"}
      BY <1>7, <2>1, Zenon
    <2>3. mem[h].write[p][r] # NULL
      BY <2>2, NullAssumption, Zenon DEF Sources
    <2>4. \A k \in Handlers \ {h} : mem[k].write[p][r] = NULL
      BY <2>3, Zenon DEF IdentityInv, LocksExclude
    <2>5. QED
      BY <1>2, <2>2, <2>4, NullAssumption, Zenon DEF BindingKept, Sources
  <1>14. /\ pc' \in [Handlers -> Labels] /\ mem' \in [Handlers -> Memory]
         /\ \A k \in Handlers \ {h} : pc'[k] = pc[k] /\ mem'[k] = mem[k]
         /\ HandlerOK(h)' /\ \A q \in Ids, r \in Roles : mem'[h].write[q][r] = NULL
    BY <1>1, RequestOver, Zenon
  <1>15. StepOf(h)
    BY <1>2, <1>11, <1>13, <1>14, Zenon DEF StepOf
  <1>16. QED
    BY <1>7, <1>12, <1>14, <1>15, StepKeeps, Zenon

(***************************************************************************)
(* The invariant, and what follows from it.                                *)
(***************************************************************************)
(* At the start there is the bootstrap administrator. *)
LEMMA IdentityInitially == Init => IdentityInv
  <1> SUFFICES ASSUME Init PROVE IdentityInv
    BY Zenon
  <1>0. 0 \in Serials /\ 1 \in Ids /\ NULL # 0 /\ Root \in Names
    BY IdentityAssumption DEF Serials, Ids
  <1>1. KeyRow(Root, 0) \in Row /\ RowOK(KeyRow(Root, 0)) /\ KeyRow(Root, 0) # NULL
    <2>1. KeyRow(Root, 0) \in Row
      BY <1>0, Zenon DEF KeyRow, Row
    <2>2. /\ KeyRow(Root, 0).kind = "api_key" /\ KeyRow(Root, 0).key = 0
          /\ KeyRow(Root, 0).external = NULL /\ KeyRow(Root, 0).scim = NULL
      BY Zenon DEF KeyRow
    <2>3. QED
      BY <1>0, <2>1, <2>2, NullAssumption, Zenon DEF RowOK
  <1>2. \A p \in Ids : principal[p] = IF p = 1 THEN KeyRow(Root, 0) ELSE NULL
    BY Zenon DEF Init
  <1>3. PrincipalTable
    <2>1. principal \in [Ids -> Row \cup {NULL}] /\ handed = {}
      BY <1>1, Zenon DEF Init
    <2>2. QED
      BY <1>1, <1>2, <2>1, Zenon DEF PrincipalTable, Exists
  <1>4. BindingTable
    <2>1. NoRoles \in Bindings /\ [NoRoles EXCEPT !["admin"] = "local"] \in Bindings
      BY Zenon DEF NoRoles, Bindings, Sources
    <2>2. binding \in [Ids -> Bindings] /\ \A p \in Ids \ {1} : binding[p] = NoRoles
      BY <2>1, Zenon DEF Init
    <2>3. granted \in [Ids -> SUBSET Roles] /\ token \in [Ids -> SUBSET Roles]
      BY IdentityAssumption, Zenon DEF Init
    <2>4. Exists(1)
      BY <1>0, <1>1, <1>2, Zenon DEF Exists
    <2>5. QED
      BY <2>2, <2>3, <2>4 DEF BindingTable, NoRoles
  <1>5. GroupTable /\ SessionTable /\ served \in Serials
    BY <1>0, Zenon DEF Init, GroupTable, SessionTable
  <1>6. /\ pc \in [Handlers -> Labels] /\ mem \in [Handlers -> Memory]
        /\ \A h \in Handlers : pc[h] = "idle" /\ mem[h] = Idle
    BY IdleLemma, Zenon DEF Init, Labels
  <1>7. \A h \in Handlers, p \in Ids, r \in Roles : mem[h].write[p][r] = NULL
    BY <1>6, IdleLemma, Zenon
  <1>8. HandlerTable
    BY <1>6, <1>7, ZenonT(60) DEF HandlerTable, HandlerOK, WriteOK
  <1>9. LocksExclude
    BY <1>7, Zenon DEF LocksExclude
  <1>10. QED
    BY <1>3, <1>4, <1>5, <1>8, <1>9, Zenon DEF IdentityInv, Tables

(* Every step keeps the invariant, and is of one handler or the sessions'. *)
LEMMA IdentityStep ==
  ASSUME IdentityInv, [Next]_vars
  PROVE  IdentityInv' /\ (SessionStep \/ \E h \in Handlers : StepOf(h))
  <1>1. ASSUME NEW h \in Admins, AdminNext(h) PROVE StepOf(h) /\ IdentityInv'
    <2>0. h \in Handlers /\ {} \in SUBSET Roles
      BY Zenon DEF Handlers
    <2>1. ASSUME NEW n \in Names, NEW rs \in SUBSET Roles, CreateKey(h, n, rs)
          PROVE  StepOf(h) /\ IdentityInv'
      BY <2>0, <2>1, CreateKeyKeeps, Zenon
    <2>2. ASSUME NEW p \in Ids, Rotate(h, p) \/ Enable(h, p) PROVE StepOf(h) /\ IdentityInv'
      BY <2>0, <2>2, RotateKeeps, Zenon
    <2>3. ASSUME NEW p \in Ids, NEW op \in {"disable", "clear"}, NEW rs \in SUBSET Roles, Target(h, p, op, rs)
          PROVE  StepOf(h) /\ IdentityInv'
      BY <2>0, <2>3, TargetKeeps, Zenon
    <2>4. ASSUME CountAdmins(h) \/ Disable(h) \/ ClearRoles(h) \/ ReplaceRoles(h)
          PROVE  StepOf(h) /\ IdentityInv'
      BY <2>0, <2>4, CountAdminsKeeps, DisableKeeps, ClearRolesKeeps, ReplaceRolesKeeps, Zenon
    <2>5. QED
      BY <1>1, <2>0, <2>1, <2>2, <2>3, <2>4, Zenon DEF AdminNext
  <1>2. ASSUME NEW h \in Browsers, BrowserNext(h) PROVE StepOf(h) /\ IdentityInv'
    <2>0. h \in Handlers
      BY Zenon DEF Handlers
    <2>1. ASSUME NEW x \in People, NEW n \in Names, NEW names, NEW rs \in SUBSET Roles,
                 Upsert(h, x, n, names, rs)
          PROVE  StepOf(h) /\ IdentityInv'
      BY <2>0, <2>1, UpsertKeeps, Zenon
    <2>2. ASSUME CheckEnabled(h) PROVE StepOf(h) /\ IdentityInv'
      BY <2>0, <2>2, CheckEnabledKeeps, Zenon
    <2>3. ASSUME NEW s \in Sessions, StartSession(h, s) PROVE StepOf(h) /\ IdentityInv'
      BY <2>0, <2>3, StartSessionKeeps, Zenon
    <2>4. QED
      BY <1>2, <2>1, <2>2, <2>3, Zenon DEF BrowserNext
  <1>3. ASSUME NEW h \in Directory, DirectoryNext(h) PROVE StepOf(h) /\ IdentityInv'
    <2>0. h \in Handlers
      BY Zenon DEF Handlers
    <2>1. ASSUME NEW n \in Names, NEW u \in Names, NEW active \in BOOLEAN, FindExisting(h, n, u, active)
          PROVE  StepOf(h) /\ IdentityInv'
      BY <2>0, <2>1, FindExistingKeeps, Zenon
    <2>2. ASSUME InsertUser(h) \/ AdoptUser(h) \/ SetUser(h) PROVE StepOf(h) /\ IdentityInv'
      BY <2>0, <2>2, InsertUserKeeps, AdoptUserKeeps, SetUserKeeps, Zenon
    <2>3. ASSUME NEW id \in handed, NEW u \in Names \cup {NULL}, NEW active \in BOOLEAN,
                 WriteUser(h, id, u, active)
          PROVE  StepOf(h) /\ IdentityInv'
      BY <2>0, <2>3, WriteUserKeeps, Zenon
    <2>4. ASSUME CountOthers(h) \/ IsAdmin(h) PROVE StepOf(h) /\ IdentityInv'
      BY <2>0, <2>4, CountOthersKeeps, Zenon
    <2>5. ASSUME NEW g \in Groups, NEW n \in GroupNames, NEW ps \in SUBSET Ids,
                 CreateGroup(h, g, n, ps) \/ ReplaceGroup(h, g, n, ps)
          PROVE  StepOf(h) /\ IdentityInv'
      BY <2>0, <2>5, GroupRequestKeeps, Zenon
    <2>6. ASSUME NEW g \in Groups, DeleteGroup(h, g) PROVE StepOf(h) /\ IdentityInv'
      <3>1. member[g] \subseteq {p \in Ids : Exists(p)} /\ WriteGroup(h, g, NULL, {}, member[g])
        BY <2>6, Zenon DEF IdentityInv, Tables, GroupTable, DeleteGroup
      <3>2. QED
        BY <2>0, <3>1, WriteGroupKeeps, Zenon
    <2>7. ASSUME NEW g \in Groups, NEW op, NEW n \in GroupNames \cup {NULL}, NEW ps \in SUBSET Ids,
                 PatchGroup(h, g, op, n, ps)
          PROVE  StepOf(h) /\ IdentityInv'
      BY <2>0, <2>7, PatchGroupKeeps, Zenon
    <2>8. ASSUME PatchGroupMembers(h) \/ ReadGroups(h) \/ WriteRoles(h) \/ CommitGroup(h)
          PROVE  StepOf(h) /\ IdentityInv'
      BY <2>0, <2>8, PatchGroupMembersKeeps, ReadGroupsKeeps, WriteRolesKeeps, CommitGroupKeeps, Zenon
    <2>9. QED
      BY <1>3, <2>1, <2>2, <2>3, <2>4, <2>5, <2>6, <2>7, <2>8, Zenon DEF DirectoryNext
  <1>4. Admins \subseteq Handlers /\ Browsers \subseteq Handlers /\ Directory \subseteq Handlers
    BY Zenon DEF Handlers
  <1>5. QED
    BY <1>1, <1>2, <1>3, <1>4, FailKeeps, SessionStepKeeps, Zenon DEF Next

(* The invariant holds throughout. *)
LEMMA IdentityInvHolds == Spec => []IdentityInv
  <1>1. IdentityInv /\ [Next]_vars => IdentityInv'
    BY IdentityStep, Zenon
  <1>2. QED
    BY IdentityInitially, <1>1, PTL DEF Spec

(* An API key is never adopted, claimed or given a session, a person never *)
(* gets a key, and the id the directory was given goes on addressing the   *)
(* same row: for every number of administrators and browsers at work.      *)
THEOREM IdentitiesStay == Spec => []IdentitiesHold
  <1>1. IdentityInv => IdentitiesHold
    <2> SUFFICES ASSUME IdentityInv PROVE IdentitiesHold
      BY Zenon
    <2>1. TypeOK
      BY Zenon
         DEF IdentityInv, Tables, PrincipalTable, BindingTable, GroupTable, SessionTable, TypeOK, Bindings
    <2>2. \A p \in Ids : Exists(p) =>
            /\ (principal[p].kind = "api_key") = (principal[p].key # NULL)
            /\ principal[p].kind = "api_key" => principal[p].external = NULL /\ principal[p].scim = NULL
      BY Zenon DEF IdentityInv, Tables, PrincipalTable, RowOK
    <2>3. KeysAreNotPeople
      BY <2>2, Zenon DEF KeysAreNotPeople, IdentityInv, Tables, SessionTable
    <2>4. ProvisionedIdLasts
      BY Zenon DEF ProvisionedIdLasts, IdentityInv, Tables, PrincipalTable
    <2>5. QED
      BY <2>1, <2>3, <2>4, Zenon DEF IdentitiesHold
  <1>2. QED
    BY IdentityInvHolds, <1>1, PTL

(* A row belongs to one account of the identity provider forever. *)
THEOREM RowsKeepTheirAccount == Spec => ExternalIdIsPermanent
  <1>1. ASSUME IdentityInv, [Next]_vars
        PROVE  [\A p \in Ids : (Exists(p) /\ principal[p].external # NULL)
                  => principal'[p].external = principal[p].external]_vars
    <2>1. CASE SessionStep
      BY <2>1, Zenon DEF SessionStep
    <2>2. ASSUME NEW h \in Handlers, StepOf(h)
          PROVE  \A p \in Ids : (Exists(p) /\ principal[p].external # NULL)
                   => principal'[p].external = principal[p].external
      BY <2>2, Zenon DEF StepOf, RowKept
    <2>3. QED
      BY <1>1, <2>1, <2>2, IdentityStep, Zenon
  <1>2. QED
    BY IdentityInvHolds, <1>1, PTL DEF Spec, ExternalIdIsPermanent

(* What an administrator granted on the Access tab is taken away only by a *)
(* replacement of that principal's roles on the Access tab, however it     *)
(* interleaves with logins, syncs and other administrators.                *)
THEOREM LocalGrantsLast == Spec => LocalGrantsStay
  <1>1. ASSUME IdentityInv, [Next]_vars
        PROVE  [\A p \in Ids, r \in Roles :
                  binding[p][r] = "local" /\ binding'[p][r] # "local"
                    => \E h \in Admins : pc[h] = "grant" /\ mem[h].p = p /\ pc'[h] = "idle"]_vars
    <2>1. CASE SessionStep
      BY <2>1, Zenon DEF SessionStep
    <2>2. ASSUME NEW h \in Handlers, StepOf(h), NEW p \in Ids, NEW r \in Roles,
                 binding[p][r] = "local", binding'[p][r] # "local"
          PROVE  \E k \in Admins : pc[k] = "grant" /\ mem[k].p = p /\ pc'[k] = "idle"
      BY <2>2, Zenon DEF StepOf, BindingKept
    <2>3. SessionStep \/ \E h \in Handlers : StepOf(h)
      BY <1>1, IdentityStep, Zenon
    <2>4. QED
      BY <2>1, <2>2, <2>3
  <1>2. QED
    BY IdentityInvHolds, <1>1, PTL DEF Spec, LocalGrantsStay

(***************************************************************************)
(* Why somebody holds a role.                                              *)
(***************************************************************************)
RolesNow(p) == RolesForGroups({group[g] : g \in {f \in Groups : p \in member[f]}} \ {NULL})

(* The roles of groups, one by one. *)
LEMMA RolesLemma ==
  ASSUME NEW p \in Ids, NEW tx, NEW r
  PROVE  /\ r \in RolesNow(p) <=>
              r # NULL /\ \E g \in Groups : p \in member[g] /\ group[g] # NULL /\ r = RoleMap[group[g]]
         /\ r \in RolesIn(tx, p) <=>
              r # NULL /\ \E g \in Groups : /\ p \in MembersIn(tx, g) /\ NameIn(tx, g) # NULL
                                            /\ r = RoleMap[NameIn(tx, g)]
  BY Zenon DEF RolesNow, RolesIn, RolesForGroups

(* Nobody else's roles depend on a transaction. *)
LEMMA RolesOutside ==
  ASSUME NEW tx, NEW p \in Ids, p \notin member[tx.g] \cup tx.add
  PROVE  RolesIn(tx, p) = RolesNow(p)
  <1>1. \A g \in Groups : p \in MembersIn(tx, g) <=> p \in member[g] /\ g # tx.g
    BY Zenon DEF MembersIn
  <1>2. \A g \in Groups : p \in member[g] => g # tx.g
    BY Zenon
  <1>3. \A g \in Groups : g # tx.g => NameIn(tx, g) = group[g]
    BY Zenon DEF NameIn
  <1>4. ASSUME NEW r PROVE r \in RolesIn(tx, p) <=> r \in RolesNow(p)
    BY <1>1, <1>2, <1>3, RolesLemma
  <1>5. QED
    BY <1>4, Zenon

(* It depends on the change of the group alone. *)
LEMMA RolesSame ==
  ASSUME NEW tx, NEW ty, NEW p, ty.g = tx.g, ty.name = tx.name, ty.add = tx.add, ty.remove = tx.remove
  PROVE  RolesIn(ty, p) = RolesIn(tx, p)
  BY Zenon DEF RolesIn, MembersIn, NameIn

(* The source recorded for a role still gives it. *)
Explained(p, r) ==
  /\ binding[p][r] = "local" => r \in granted[p]
  /\ binding[p][r] = "idp" => r \in token[p]
  /\ binding[p][r] = "scim" => r \in RolesNow(p)

(* An edit of the Access tab that has deleted what was granted before. *)
GrantOK(h) ==
  pc[h] = "grant" =>
    /\ h \in Admins
    /\ \A r \in Roles : binding[mem[h].p][r] = "local" => mem[h].write[mem[h].p][r] = "gone"

(* A role that a sync in progress will leave from the directory is one the *)
(* groups give as it will leave them, for whoever it has reconciled.       *)
WillBeScim(h, p, r) ==
  \/ binding[p][r] = "scim" /\ mem[h].write[p][r] # "gone"
  \/ mem[h].write[p][r] = "scim"
SyncOK(h) ==
  pc[h] \in {"reconcile", "scimroles"} =>
    /\ \A p \in Ids \ mem[h].tx.todo, r \in Roles :
         WillBeScim(h, p, r) => r \in RolesIn(mem[h].tx, p)
    /\ pc[h] = "scimroles" => mem[h].roles = RolesIn(mem[h].tx, mem[h].p)

Explanation ==
  /\ \A p \in Ids, r \in Roles : Explained(p, r)
  /\ \A h \in Handlers : GrantOK(h) /\ SyncOK(h)

(* The Access tab is used by one administrator at a time. *)
OneAdmin == \A a, b \in Admins : a = b

(* The steps of one handler leave the others' edits and syncs right: no    *)
(* two edit on the Access tab, and none but the directory touches groups   *)
(* or grants by them.                                                      *)
LEMMA OtherExplained ==
  ASSUME IdentityInv, Explanation, OneAdmin, NEW h \in Handlers, StepOf(h), NEW k \in Handlers, k # h
  PROVE  GrantOK(k)' /\ SyncOK(k)'
  <1>1. GrantOK(k) /\ SyncOK(k) /\ pc'[k] = pc[k] /\ mem'[k] = mem[k]
    BY Zenon DEF Explanation, StepOf
  <1>2. HandlerOK(k)
    BY HandlerHas, Zenon
  <1>3. GrantOK(k)'
    <2> SUFFICES ASSUME pc[k] = "grant", NEW r \in Roles, binding'[mem[k].p][r] = "local"
                 PROVE  k \in Admins /\ mem[k].write[mem[k].p][r] = "gone"
      BY <1>1, Zenon DEF GrantOK
    <2>1. k \in Admins /\ h \notin Admins /\ mem[k].p \in Ids
      BY <1>1, <1>2, Zenon DEF GrantOK, OneAdmin, HandlerOK
    <2>2. binding[mem[k].p][r] = "local"
      BY <2>1, Zenon DEF StepOf, BindingKept
    <2>3. QED
      BY <1>1, <2>1, <2>2, Zenon DEF GrantOK
  <1>4. SyncOK(k)'
    <2> SUFFICES ASSUME pc[k] \in {"reconcile", "scimroles"} PROVE SyncOK(k)'
      BY <1>1, Zenon DEF SyncOK
    <2>1. k \in Directory /\ h \notin Directory
      BY <1>2, IdentityAssumption, Zenon DEF HandlerOK
    <2>2. UNCHANGED <<group, member>>
      BY <2>1, Zenon DEF StepOf
    <2>3. \A tx, p : RolesIn(tx, p)' = RolesIn(tx, p)
      BY <2>2, ZenonT(60) DEF RolesIn, MembersIn, NameIn
    <2>4. ASSUME NEW p \in Ids, NEW r \in Roles, WillBeScim(k, p, r)' PROVE WillBeScim(k, p, r)
      BY <1>1, <2>1, <2>4, Zenon DEF StepOf, BindingKept, WillBeScim
    <2>5. QED
      BY <1>1, <2>3, <2>4, Zenon DEF SyncOK
  <1>5. QED
    BY <1>3, <1>4, Zenon

(* A step explains the bindings it leaves when it explains those it        *)
(* changes and what its handler goes on to do.                             *)
LEMMA StepExplained ==
  ASSUME IdentityInv, Explanation, OneAdmin, NEW h \in Handlers, StepOf(h),
         \A p \in Ids, r \in Roles : Explained(p, r)', GrantOK(h)', SyncOK(h)'
  PROVE  Explanation'
  BY OtherExplained, Zenon DEF Explanation

(* The tables that explain bindings. *)
LEMMA SameExplained ==
  ASSUME Explanation, UNCHANGED <<binding, granted, token, group, member>>
  PROVE  \A p \in Ids, r \in Roles : Explained(p, r)'
  <1>1. \A p : RolesNow(p)' = RolesNow(p)
    BY Zenon DEF RolesNow
  <1>2. QED
    BY <1>1, Zenon DEF Explanation, Explained

(* Most steps touch none of this. *)
LEMMA QuietExplained ==
  ASSUME IdentityInv, Explanation, OneAdmin, NEW h \in Handlers, StepOf(h),
         UNCHANGED <<binding, granted, token, group, member>>,
         pc'[h] \notin {"grant", "reconcile", "scimroles"}
  PROVE  Explanation'
  <1>1. GrantOK(h)' /\ SyncOK(h)'
    BY Zenon DEF GrantOK, SyncOK
  <1>2. QED
    BY <1>1, SameExplained, StepExplained, Zenon

(* Where a step takes its handler. *)
LEMMA Arrives ==
  ASSUME IdentityInv, NEW h \in Handlers, NEW l, NEW m, Goto(h, l, m)
  PROVE  pc'[h] = l /\ mem'[h] = m
  BY Zenon DEF IdentityInv, HandlerTable, Goto

(* Requests that neither grant nor sync. *)
LEMMA PlainExplained ==
  ASSUME IdentityInv, Explanation, OneAdmin, NEW h \in Handlers, StepOf(h), NEW l, NEW m, Goto(h, l, m),
         l \notin {"grant", "reconcile", "scimroles"},
         UNCHANGED <<binding, granted, token, group, member>>
  PROVE  Explanation'
  BY Arrives, QuietExplained, Zenon

(* A sync begins: whoever it has not to reconcile keeps their groups. *)
LEMMA SyncBegins ==
  ASSUME IdentityInv, Explanation, OneAdmin, NEW h \in Handlers, StepOf(h), NEW g \in Groups,
         NEW n, NEW add, NEW remove, NEW m, m.write = NoWrites, m.tx = Tx(g, n, add, remove),
         Goto(h, "reconcile", m), UNCHANGED <<rows, history>>
  PROVE  Explanation'
  <1>1. pc'[h] = "reconcile" /\ mem'[h] = m
    BY Arrives, Zenon
  <1>2. UNCHANGED <<binding, granted, token, group, member>>
    BY Zenon DEF rows, history
  <1>3. PICK t : t = Tx(g, n, add, remove)
    BY Zenon
  <1>4. t.g = g /\ t.add = add /\ t.todo = member[g] \cup add \cup remove
    BY <1>3, Zenon DEF Tx
  <1>5. ASSUME NEW p \in Ids \ t.todo, NEW r \in Roles, WillBeScim(h, p, r)'
        PROVE  (r \in RolesIn(t, p))'
    <2>1. mem'[h].write[p][r] = NULL
      BY <1>1, IdleLemma, Zenon
    <2>2. binding[p][r] = "scim"
      BY <1>2, <1>5, <2>1, NullAssumption, Zenon DEF WillBeScim, Sources
    <2>3. r \in RolesNow(p)
      BY <2>2, ZenonT(60) DEF Explanation, Explained
    <2>4. RolesIn(t, p) = RolesNow(p)
      BY <1>4, <1>5, RolesOutside, Zenon
    <2>5. RolesIn(t, p)' = RolesIn(t, p)
      BY <1>2, Zenon DEF RolesIn, MembersIn, NameIn
    <2>6. QED
      BY <2>3, <2>4, <2>5, Zenon
  <1>6. mem'[h].tx = t
    BY <1>1, <1>3, Zenon
  <1>7. SyncOK(h)'
    BY <1>1, <1>5, <1>6, Zenon DEF SyncOK
  <1>8. GrantOK(h)'
    BY <1>1, Zenon DEF GrantOK
  <1>9. QED
    BY <1>2, <1>7, <1>8, SameExplained, StepExplained, Zenon

(* reconcileSCIMRoles reads the roles of one principal ... *)
LEMMA ReadGroupsExplained ==
  ASSUME IdentityInv, Explanation, OneAdmin, NEW h \in Handlers, ReadGroups(h)
  PROVE  Explanation'
  <1>1. StepOf(h)
    BY ReadGroupsKeeps, Zenon
  <1>2. PICK p \in mem[h].tx.todo :
          /\ pc'[h] = "scimroles" /\ mem'[h].p = p /\ mem'[h].roles = RolesIn(mem[h].tx, p)
          /\ mem'[h].tx = mem[h].tx /\ mem'[h].write = mem[h].write
    BY ReadGroupsKeeps, Zenon
  <1>3. pc[h] = "reconcile" /\ UNCHANGED <<binding, granted, token, group, member>>
    BY Zenon DEF ReadGroups, rows, history
  <1>4. SyncOK(h)
    BY Zenon DEF Explanation
  <1>5. PICK t : t = mem[h].tx
    BY Zenon
  <1>6. \A q : RolesIn(t, q)' = RolesIn(t, q)
    BY <1>3, Zenon DEF RolesIn, MembersIn, NameIn
  <1>7. \A q, r : WillBeScim(h, q, r)' => WillBeScim(h, q, r)
    BY <1>2, <1>3, Zenon DEF WillBeScim
  <1>8. SyncOK(h)'
    <2>1. ASSUME NEW q \in Ids \ t.todo, NEW r \in Roles, WillBeScim(h, q, r)'
          PROVE  (r \in RolesIn(t, q))'
      BY <1>3, <1>4, <1>5, <1>6, <1>7, <2>1, ZenonT(60) DEF SyncOK
    <2>2. mem'[h].tx = t /\ mem'[h].p = p /\ mem'[h].roles = RolesIn(t, p)'
      BY <1>2, <1>5, <1>6, Zenon
    <2>3. QED
      BY <2>1, <2>2, Zenon DEF SyncOK
  <1>9. GrantOK(h)'
    BY <1>2, Zenon DEF GrantOK
  <1>10. QED
    BY <1>1, <1>3, <1>8, <1>9, SameExplained, StepExplained, Zenon

(* ... and rewrites what the directory granted them. *)
LEMMA WriteRolesExplained ==
  ASSUME IdentityInv, Explanation, OneAdmin, NEW h \in Handlers, WriteRoles(h)
  PROVE  Explanation'
  <1>1. StepOf(h)
    BY WriteRolesKeeps, Zenon
  <1>2. PICK p \in Ids :
          /\ p = mem[h].p /\ pc'[h] = "reconcile"
          /\ mem'[h].tx = [mem[h].tx EXCEPT !.todo = @ \ {p}]
          /\ mem'[h].write[p] = Changes(binding[p], "scim", mem[h].roles)
          /\ \A q \in Ids \ {p} : mem'[h].write[q] = mem[h].write[q]
    BY WriteRolesKeeps, Zenon
  <1>3. pc[h] = "scimroles" /\ UNCHANGED <<binding, granted, token, group, member>>
    BY Zenon DEF WriteRoles, rows, history
  <1>4. SyncOK(h) /\ HandlerOK(h) /\ mem[h].tx \in GroupTx
    BY <1>3, HandlerHas, Zenon DEF Explanation, HandlerOK
  <1>5. PICK t, u : t = mem[h].tx /\ u = mem'[h].tx
    BY Zenon
  <1>6. u.g = t.g /\ u.name = t.name /\ u.add = t.add /\ u.remove = t.remove /\ u.todo = t.todo \ {p}
    BY <1>2, <1>4, <1>5, Zenon DEF GroupTx
  <1>7. \A q : RolesIn(u, q)' = RolesIn(t, q)
    <2>1. \A q : RolesIn(u, q)' = RolesIn(u, q)
      BY <1>3, Zenon DEF RolesIn, MembersIn, NameIn
    <2>2. QED
      BY <1>6, <2>1, RolesSame, Zenon
  <1>8. ASSUME NEW q \in Ids \ u.todo, NEW r \in Roles, WillBeScim(h, q, r)'
        PROVE  r \in RolesIn(t, q)
    <2>1. CASE q = p
      <3>1. binding[p] \in Bindings /\ mem[h].roles = RolesIn(t, p)
        BY <1>2, <1>3, <1>4, <1>5, Zenon DEF SyncOK, IdentityInv, Tables, BindingTable
      <3>2. "scim" \in Sources /\ "scim" # NULL
        BY NullAssumption, Zenon DEF Sources
      <3>3. QED
        BY <1>2, <1>3, <1>8, <2>1, <3>1, <3>2, ChangesLemma DEF WillBeScim
    <2>2. CASE q # p
      <3>1. WillBeScim(h, q, r) /\ q \notin t.todo
        BY <1>2, <1>3, <1>6, <1>8, <2>2, Zenon DEF WillBeScim
      <3>2. QED
        BY <1>3, <1>4, <1>5, <1>8, <3>1, Zenon DEF SyncOK
    <2>3. QED
      BY <2>1, <2>2, ZenonT(60)
  <1>9. SyncOK(h)'
    <2>1. pc'[h] = "reconcile" /\ mem'[h].tx = u
      BY <1>2, <1>5, Zenon
    <2>2. ASSUME NEW q \in Ids \ u.todo, NEW r \in Roles, WillBeScim(h, q, r)'
          PROVE  (r \in RolesIn(u, q))'
      BY <1>7, <1>8, <2>2, Zenon
    <2>3. QED
      BY <2>1, <2>2, Zenon DEF SyncOK
  <1>10. GrantOK(h)'
    BY <1>2, Zenon DEF GrantOK
  <1>11. QED
    BY <1>1, <1>3, <1>9, <1>10, SameExplained, StepExplained, Zenon

(* The sync commits: what it wrote is what its groups now give. *)
LEMMA CommitGroupExplained ==
  ASSUME IdentityInv, Explanation, OneAdmin, NEW h \in Handlers, CommitGroup(h)
  PROVE  Explanation'
  <1>1. /\ StepOf(h)
        /\ \A p \in Ids, r \in Roles :
             \/ binding'[p][r] = binding[p][r] /\ mem[h].write[p][r] = NULL
             \/ mem[h].write[p][r] = "scim" /\ binding[p][r] = NULL /\ binding'[p][r] = "scim"
             \/ mem[h].write[p][r] = "gone" /\ binding[p][r] = "scim" /\ binding'[p][r] = NULL
    BY CommitGroupKeeps, Zenon
  <1>2. PICK t : t = mem[h].tx
    BY Zenon
  <1>3. /\ pc[h] = "reconcile" /\ t.todo = {} /\ Done(h) /\ UNCHANGED <<granted, token>>
        /\ group' = [group EXCEPT ![t.g] = t.name]
        /\ member' = [member EXCEPT ![t.g] = MembersIn(t, t.g)]
    BY <1>2, Zenon DEF CommitGroup, history
  <1>4. t \in GroupTx /\ t.g \in Groups /\ SyncOK(h)
    BY <1>2, <1>3, HandlerHas, Zenon DEF HandlerOK, GroupTx, Explanation
  <1>5. \A g \in Groups : group'[g] = NameIn(t, g) /\ member'[g] = MembersIn(t, g)
    BY <1>3, <1>4, Zenon DEF NameIn, MembersIn, IdentityInv, Tables, GroupTable
  <1>6. ASSUME NEW p \in Ids, NEW r, r \in RolesIn(t, p) PROVE (r \in RolesNow(p))'
    <2>1. r # NULL /\ \E g \in Groups : p \in member'[g] /\ group'[g] # NULL /\ r = RoleMap[group'[g]]
      BY <1>5, <1>6, RolesLemma
    <2>2. QED
      BY <2>1, Zenon DEF RolesNow, RolesForGroups
  <1>7. ASSUME NEW p \in Ids, NEW r \in Roles PROVE Explained(p, r)'
    <2>1. Explained(p, r)
      BY Zenon DEF Explanation
    <2>2. binding'[p][r] \in {"local", "idp"} => binding'[p][r] = binding[p][r]
      BY <1>1, NullAssumption, Zenon DEF Sources
    <2>3. ASSUME binding'[p][r] = "scim" PROVE WillBeScim(h, p, r)
      BY <1>1, <2>3, NullAssumption, Zenon DEF WillBeScim, Sources
    <2>4. WillBeScim(h, p, r) => r \in RolesIn(t, p)
      BY <1>2, <1>3, <1>4, Zenon DEF SyncOK
    <2>5. QED
      BY <1>3, <1>6, <2>1, <2>2, <2>3, <2>4, Zenon DEF Explained
  <1>8. pc'[h] = "idle"
    BY <1>3, Arrives, Zenon DEF Done
  <1>9. GrantOK(h)' /\ SyncOK(h)'
    BY <1>8, Zenon DEF GrantOK, SyncOK
  <1>10. QED
    BY <1>1, <1>7, <1>9, StepExplained, Zenon

(* A step that leaves groups and other principals alone. *)
LEMMA OneRowExplained ==
  ASSUME IdentityInv, Explanation, OneAdmin, NEW h \in Handlers, StepOf(h), NEW p \in Ids,
         UNCHANGED <<group, member>>, \A q \in Ids \ {p} : binding'[q] = binding[q],
         \A q \in Ids \ {p} : granted'[q] = granted[q] /\ token'[q] = token[q],
         \A r \in Roles : /\ binding'[p][r] = "local" => r \in granted'[p]
                          /\ binding'[p][r] = "idp" => r \in token'[p]
                          /\ binding'[p][r] = "scim" => binding[p][r] = "scim",
         pc'[h] \notin {"grant", "reconcile", "scimroles"}
  PROVE  Explanation'
  <1>1. \A q : RolesNow(q)' = RolesNow(q)
    BY Zenon DEF RolesNow
  <1>2. ASSUME NEW q \in Ids, NEW r \in Roles PROVE Explained(q, r)'
    <2>1. Explained(q, r)
      BY Zenon DEF Explanation
    <2>2. CASE q = p
      BY <1>1, <2>1, <2>2, Zenon DEF Explained
    <2>3. CASE q # p
      BY <1>1, <2>1, <2>3, Zenon DEF Explained
    <2>4. QED
      BY <2>2, <2>3, Zenon
  <1>3. GrantOK(h)' /\ SyncOK(h)'
    BY Zenon DEF GrantOK, SyncOK
  <1>4. QED
    BY <1>2, <1>3, StepExplained, Zenon

(* A login: the token's roles replace those of the last one. *)
LEMMA UpsertExplained ==
  ASSUME IdentityInv, Explanation, OneAdmin, NEW h \in Handlers, NEW x \in People, NEW n \in Names,
         NEW names, NEW rs \in SUBSET Roles, Upsert(h, x, n, names, rs)
  PROVE  Explanation'
  <1>1. StepOf(h) /\ UNCHANGED <<group, member, granted>>
    BY UpsertKeeps, Zenon
  <1>2. PICK p \in Ids :
          /\ token' = [token EXCEPT ![p] = rs]
          /\ \A q \in Ids \ {p} : binding'[q] = binding[q]
          /\ \A r \in Roles : \/ binding'[p][r] \in {NULL, "idp"} /\ (binding'[p][r] = "idp" => r \in rs)
                              \/ binding'[p][r] = binding[p][r] /\ (binding[p][r] = "idp" => r \in rs)
    BY UpsertKeeps, Zenon
  <1>3. pc'[h] = "check"
    <2>1. \E m : Goto(h, "check", m)
      BY Zenon DEF Upsert
    <2>2. QED
      BY <2>1, Arrives, Zenon
  <1>4. token'[p] = rs /\ \A q \in Ids \ {p} : token'[q] = token[q]
    BY <1>2, Zenon DEF IdentityInv, Tables, BindingTable
  <1>5. ASSUME NEW r \in Roles
        PROVE  /\ binding'[p][r] = "local" => r \in granted'[p]
               /\ binding'[p][r] = "idp" => r \in token'[p]
               /\ binding'[p][r] = "scim" => binding[p][r] = "scim"
    <2>1. Explained(p, r)
      BY ZenonT(60) DEF Explanation
    <2>2. QED
      BY <1>1, <1>2, <1>4, <2>1, NullAssumption, Zenon DEF Explained, Sources
  <1>6. /\ \A q \in Ids \ {p} : binding'[q] = binding[q]
        /\ \A q \in Ids \ {p} : granted'[q] = granted[q] /\ token'[q] = token[q]
        /\ pc'[h] \notin {"grant", "reconcile", "scimroles"}
    BY <1>1, <1>2, <1>3, <1>4, Zenon
  <1>7. QED
    BY <1>1, <1>5, <1>6, OneRowExplained, Zenon

(* A new key has the roles its administrator gave it. *)
LEMMA CreateKeyExplained ==
  ASSUME IdentityInv, Explanation, OneAdmin, NEW h \in Handlers, h \in Admins, NEW n \in Names,
         NEW rs \in SUBSET Roles, CreateKey(h, n, rs)
  PROVE  Explanation'
  <1>1. StepOf(h)
    BY CreateKeyKeeps, Zenon
  <1>2. pc'[h] = "idle" /\ UNCHANGED <<group, member, token>>
    BY Zenon DEF CreateKey, Begin
  <1>3. PICK p, b, c :
          /\ p \in Ids
          /\ b = Changes(NoRoles, "local", rs) /\ c = Changed(NoRoles, b)
          /\ binding' = [binding EXCEPT ![p] = c] /\ granted' = [granted EXCEPT ![p] = rs]
    BY Zenon DEF CreateKey
  <1>4. /\ NoRoles \in Bindings /\ "local" \in Sources /\ \A r \in Roles : NoRoles[r] = NULL
        /\ "local" # NULL
    BY NullAssumption, Zenon DEF NoRoles, Bindings, Sources
  <1>5. ASSUME NEW r \in Roles PROVE c[r] = NULL \/ (c[r] = "local" /\ r \in rs)
    <2>1. b \in [Roles -> Sources \cup {NULL, "gone"}] /\ (b[r] # NULL => b[r] = "local" /\ r \in rs)
      BY <1>3, <1>4, ChangesLemma
    <2>2. (b[r] = NULL => c[r] = NoRoles[r]) /\ (b[r] \in Sources => c[r] = b[r])
      BY <1>3, <1>4, <2>1, ChangedLemma, Zenon
    <2>3. QED
      BY <1>4, <2>1, <2>2, Zenon
  <1>6. /\ binding'[p] = c /\ granted'[p] = rs
        /\ \A q \in Ids \ {p} : binding'[q] = binding[q] /\ granted'[q] = granted[q]
    BY <1>3, Zenon DEF IdentityInv, Tables, BindingTable
  <1>7. \A r \in Roles : /\ binding'[p][r] = "local" => r \in granted'[p]
                         /\ binding'[p][r] = "idp" => r \in token'[p]
                         /\ binding'[p][r] = "scim" => binding[p][r] = "scim"
    BY <1>5, <1>6, NullAssumption, Zenon DEF Sources
  <1>8. /\ p \in Ids /\ UNCHANGED <<group, member>>
        /\ \A q \in Ids \ {p} : granted'[q] = granted[q] /\ token'[q] = token[q]
        /\ pc'[h] \notin {"grant", "reconcile", "scimroles"}
    BY <1>2, <1>3, <1>6, Zenon
  <1>9. QED
    BY <1>1, <1>6, <1>7, <1>8, OneRowExplained, Zenon

(* ReplaceRoles' DELETE takes all that was granted. *)
LEMMA ClearRolesExplained ==
  ASSUME IdentityInv, Explanation, OneAdmin, NEW h \in Handlers, h \in Admins, ClearRoles(h)
  PROVE  Explanation'
  <1>1. /\ StepOf(h) /\ pc'[h] = "grant" /\ mem'[h].p = mem[h].p
        /\ \A r \in Roles : binding[mem[h].p][r] # NULL => mem'[h].write[mem[h].p][r] = "gone"
    BY ClearRolesKeeps, Zenon
  <1>2. UNCHANGED <<binding, granted, token, group, member>>
    BY Zenon DEF ClearRoles, rows, history
  <1>3. GrantOK(h)'
    BY <1>1, <1>2, NullAssumption, Zenon DEF GrantOK, Sources
  <1>4. SyncOK(h)'
    BY <1>1, Zenon DEF SyncOK
  <1>5. QED
    BY <1>1, <1>2, <1>3, <1>4, SameExplained, StepExplained, Zenon

(* Its INSERTs leave what was given, or what another source has written. *)
LEMMA ReplaceRolesExplained ==
  ASSUME IdentityInv, Explanation, OneAdmin, NEW h \in Handlers, h \in Admins, ReplaceRoles(h)
  PROVE  Explanation'
  <1>1. StepOf(h)
    BY ReplaceRolesKeeps, Zenon
  <1>2. PICK p \in Ids :
          /\ p = mem[h].p /\ granted' = [granted EXCEPT ![p] = mem[h].roles]
          /\ \A q \in Ids \ {p} : binding'[q] = binding[q]
          /\ \A r \in Roles :
               \/ binding'[p][r] = "local" /\ r \in mem[h].roles
               \/ binding'[p][r] = NULL
               \/ binding'[p][r] = binding[p][r] /\ mem[h].write[p][r] # "gone"
    BY ReplaceRolesKeeps, Zenon
  <1>3. pc[h] = "grant" /\ Done(h) /\ UNCHANGED <<group, member, token>>
    BY Zenon DEF ReplaceRoles
  <1>4. pc'[h] = "idle" /\ GrantOK(h)
    BY <1>3, Arrives, Zenon DEF Done, Explanation
  <1>5. granted'[p] = mem[h].roles /\ \A q \in Ids \ {p} : granted'[q] = granted[q]
    BY <1>2, Zenon DEF IdentityInv, Tables, BindingTable
  <1>6. ASSUME NEW r \in Roles
        PROVE  /\ binding'[p][r] = "local" => r \in granted'[p]
               /\ binding'[p][r] = "idp" => r \in token'[p]
               /\ binding'[p][r] = "scim" => binding[p][r] = "scim"
    <2>1. Explained(p, r) /\ (binding[p][r] = "local" => mem[h].write[p][r] = "gone")
      BY <1>2, <1>3, <1>4, Zenon DEF Explanation, GrantOK
    <2>2. QED
      BY <1>2, <1>3, <1>5, <2>1, NullAssumption, Zenon DEF Explained, Sources
  <1>7. QED
    BY <1>1, <1>2, <1>3, <1>4, <1>5, <1>6, OneRowExplained

(* Steps that neither grant nor sync. *)
LEMMA OthersExplained ==
  ASSUME IdentityInv, Explanation, OneAdmin, NEW h \in Handlers, StepOf(h),
         \/ \E p \in Ids : \/ Rotate(h, p) \/ Enable(h, p) \/ Target(h, p, "disable", {})
                           \/ \E rs \in SUBSET Roles : Target(h, p, "clear", rs)
         \/ CountAdmins(h) \/ Disable(h) \/ CheckEnabled(h)
         \/ \E s \in Sessions : StartSession(h, s)
         \/ \E n, u \in Names, active \in BOOLEAN : FindExisting(h, n, u, active)
         \/ InsertUser(h) \/ AdoptUser(h)
         \/ \E id, u, active : WriteUser(h, id, u, active)
         \/ CountOthers(h) \/ IsAdmin(h) \/ SetUser(h)
         \/ \E g, op, n, ps : PatchGroup(h, g, op, n, ps)
         \/ Fail(h)
  PROVE  Explanation'
  <1>1. UNCHANGED <<binding, granted, token, group, member>>
    BY Zenon
       DEF Rotate, Enable, Target, CountAdmins, Disable, CheckEnabled, StartSession, FindExisting,
           InsertUser, AdoptUser, WriteUser, CountOthers, IsAdmin, SetUser, PatchGroup, Fail,
           rows, history
  <1>2. HandlerOK(h)
    BY HandlerHas, Zenon
  <1>3. CASE \E p \in Ids : Rotate(h, p) \/ Enable(h, p)
    <2>1. pc'[h] = "idle"
      BY <1>3, Zenon DEF Rotate, Enable, Begin
    <2>2. QED
      BY <1>1, <2>1, QuietExplained, Zenon
  <1>4. CASE \E p, rs : Target(h, p, "disable", rs) \/ Target(h, p, "clear", rs)
    <2>1. \E l \in {"count", "disable", "clear"} : \E m : Goto(h, l, m)
      BY <1>4, Zenon DEF Target
    <2>2. QED
      BY <1>1, <2>1, PlainExplained, Zenon
  <1>5. CASE CountAdmins(h)
    <2>1. \E l \in {"idle", "disable", "clear"} : \E m : Goto(h, l, m)
      BY <1>2, <1>5, Zenon DEF CountAdmins, Continue, Done, HandlerOK
    <2>2. QED
      BY <1>1, <2>1, PlainExplained, Zenon
  <1>6. CASE Disable(h) \/ InsertUser(h) \/ AdoptUser(h) \/ SetUser(h) \/ Fail(h)
               \/ \E s \in Sessions : StartSession(h, s)
    <2>1. Goto(h, "idle", Idle)
      BY <1>6, Zenon DEF Disable, InsertUser, AdoptUser, SetUser, Fail, StartSession, Done
    <2>2. QED
      BY <1>1, <2>1, PlainExplained, Zenon
  <1>7. CASE CheckEnabled(h) \/ CountOthers(h) \/ IsAdmin(h)
    <2>1. \E l \in {"idle", "session", "write", "isadmin"} : \E m : Goto(h, l, m)
      BY <1>7, Zenon DEF CheckEnabled, CountOthers, IsAdmin, Done, Continue
    <2>2. QED
      BY <1>1, <2>1, PlainExplained, Zenon
  <1>8. CASE \/ \E n, u \in Names, active \in BOOLEAN : FindExisting(h, n, u, active)
             \/ \E id, u, active : WriteUser(h, id, u, active)
             \/ \E g, op, n, ps : PatchGroup(h, g, op, n, ps)
    <2>1. \E l \in {"insert", "adopt", "write", "others", "patch"} : \E m : Goto(h, l, m)
      BY <1>8, Zenon DEF FindExisting, WriteUser, PatchGroup
    <2>2. QED
      BY <1>1, <2>1, PlainExplained, Zenon
  <1>9. QED
    BY <1>3, <1>4, <1>5, <1>6, <1>7, <1>8, Zenon

(* A request to change a group begins a sync. *)
LEMMA WriteGroupExplained ==
  ASSUME IdentityInv, Explanation, OneAdmin, NEW h \in Handlers, StepOf(h), NEW g \in Groups,
         NEW n, NEW add, NEW remove, WriteGroup(h, g, n, add, remove)
  PROVE  Explanation'
  <1>1. PICK t, m : t = Tx(g, n, add, remove) /\ m = [Idle EXCEPT !.tx = t] /\ Goto(h, "reconcile", m)
    BY Zenon DEF WriteGroup
  <1>2. m.tx = t /\ m.write = NoWrites
    BY <1>1, Zenon DEF Idle
  <1>3. UNCHANGED <<rows, history>>
    BY Zenon DEF WriteGroup
  <1>4. QED
    BY <1>1, <1>2, <1>3, SyncBegins, Zenon

(* So does a patch. *)
LEMMA PatchGroupMembersExplained ==
  ASSUME IdentityInv, Explanation, OneAdmin, NEW h \in Handlers, h \in Directory, PatchGroupMembers(h)
  PROVE  Explanation'
  <1>1. StepOf(h) /\ pc[h] = "patch" /\ UNCHANGED <<rows, history>>
    BY PatchGroupMembersKeeps, Zenon DEF PatchGroupMembers
  <1>2. mem[h] \in Memory /\ mem[h].user \in GroupPatch /\ mem[h].write = NoWrites
    BY <1>1, HandlerHas, NoTransaction, Zenon DEF HandlerOK
  <1>3. PICK w, n, t, m : /\ w = mem[h].user /\ t = Tx(w.g, n, Known(w.add), Known(w.remove))
                          /\ m = [mem[h] EXCEPT !.tx = t] /\ Goto(h, "reconcile", m)
    BY Zenon DEF PatchGroupMembers
  <1>4. w.g \in Groups
    BY <1>2, <1>3, Zenon DEF GroupPatch
  <1>5. m.tx = t /\ m.write = NoWrites
    BY <1>2, <1>3, Zenon DEF Memory
  <1>6. QED
    BY <1>1, <1>3, <1>4, <1>5, SyncBegins, ZenonT(60)

(* Every step explains the bindings it leaves. *)
LEMMA ExplanationStep ==
  ASSUME IdentityInv, Explanation, OneAdmin, [Next]_vars
  PROVE  Explanation'
  <1>1. ASSUME NEW h \in Admins, AdminNext(h) PROVE Explanation'
    <2>0. h \in Handlers
      BY Zenon DEF Handlers
    <2>1. ASSUME NEW n \in Names, NEW rs \in SUBSET Roles, CreateKey(h, n, rs) PROVE Explanation'
      BY <2>0, <2>1, CreateKeyExplained, Zenon
    <2>2. ASSUME ClearRoles(h) \/ ReplaceRoles(h) PROVE Explanation'
      BY <2>0, <2>2, ClearRolesExplained, ReplaceRolesExplained, Zenon
    <2>3. ASSUME NEW p \in Ids, Rotate(h, p) \/ Enable(h, p) PROVE Explanation'
      BY <2>0, <2>3, RotateKeeps, OthersExplained, Zenon
    <2>4. ASSUME NEW p \in Ids, NEW rs \in SUBSET Roles,
                 Target(h, p, "disable", {}) \/ Target(h, p, "clear", rs)
          PROVE  Explanation'
      <3>1. StepOf(h)
        BY <2>0, <2>4, TargetKeeps
      <3>2. QED
        BY <2>0, <2>4, <3>1, OthersExplained, Zenon
    <2>5. ASSUME CountAdmins(h) \/ Disable(h) PROVE Explanation'
      <3>1. StepOf(h)
        BY <2>0, <2>5, CountAdminsKeeps, DisableKeeps, Zenon
      <3>2. QED
        BY <2>0, <2>5, <3>1, OthersExplained, Zenon
    <2>6. QED
      BY <1>1, <2>1, <2>2, <2>3, <2>4, <2>5, Zenon DEF AdminNext
  <1>2. ASSUME NEW h \in Browsers, BrowserNext(h) PROVE Explanation'
    <2>0. h \in Handlers
      BY Zenon DEF Handlers
    <2>1. ASSUME NEW x \in People, NEW n \in Names, NEW names, NEW rs \in SUBSET Roles,
                 Upsert(h, x, n, names, rs)
          PROVE  Explanation'
      BY <2>0, <2>1, UpsertExplained, Zenon
    <2>2. ASSUME CheckEnabled(h) PROVE Explanation'
      BY <2>0, <2>2, CheckEnabledKeeps, OthersExplained, Zenon
    <2>3. ASSUME NEW s \in Sessions, StartSession(h, s) PROVE Explanation'
      BY <2>0, <2>3, StartSessionKeeps, OthersExplained, Zenon
    <2>4. QED
      BY <1>2, <2>1, <2>2, <2>3, Zenon DEF BrowserNext
  <1>3. ASSUME NEW h \in Directory, DirectoryNext(h) PROVE Explanation'
    <2>0. h \in Handlers
      BY Zenon DEF Handlers
    <2>1. ASSUME NEW n \in Names, NEW u \in Names, NEW active \in BOOLEAN, FindExisting(h, n, u, active)
          PROVE  Explanation'
      BY <2>0, <2>1, FindExistingKeeps, OthersExplained, Zenon
    <2>2. ASSUME InsertUser(h) \/ AdoptUser(h) \/ SetUser(h) \/ CountOthers(h) \/ IsAdmin(h)
          PROVE  Explanation'
      <3>1. StepOf(h)
        BY <2>0, <2>2, InsertUserKeeps, AdoptUserKeeps, SetUserKeeps, CountOthersKeeps, Zenon
      <3>2. QED
        BY <2>0, <2>2, <3>1, OthersExplained, Zenon
    <2>3. ASSUME NEW id \in handed, NEW u \in Names \cup {NULL}, NEW active \in BOOLEAN,
                 WriteUser(h, id, u, active)
          PROVE  Explanation'
      BY <2>0, <2>3, WriteUserKeeps, OthersExplained, Zenon
    <2>4. ASSUME NEW g \in Groups, NEW n \in GroupNames, NEW ps \in SUBSET Ids,
                 CreateGroup(h, g, n, ps) \/ ReplaceGroup(h, g, n, ps)
          PROVE  Explanation'
      <3>1. StepOf(h)
        BY <2>0, <2>4, GroupRequestKeeps, Zenon
      <3>2. \E add, remove : WriteGroup(h, g, n, add, remove)
        BY <2>4, Zenon DEF CreateGroup, ReplaceGroup
      <3>3. QED
        BY <2>0, <3>1, <3>2, WriteGroupExplained, Zenon
    <2>5. ASSUME NEW g \in Groups, DeleteGroup(h, g) PROVE Explanation'
      <3>1. member[g] \subseteq {p \in Ids : Exists(p)} /\ WriteGroup(h, g, NULL, {}, member[g])
        BY <2>5, Zenon DEF IdentityInv, Tables, GroupTable, DeleteGroup
      <3>2. StepOf(h)
        BY <2>0, <3>1, WriteGroupKeeps, Zenon
      <3>3. QED
        BY <2>0, <3>1, <3>2, WriteGroupExplained, Zenon
    <2>6. ASSUME NEW g \in Groups, NEW op, NEW n \in GroupNames \cup {NULL}, NEW ps \in SUBSET Ids,
                 PatchGroup(h, g, op, n, ps)
          PROVE  Explanation'
      BY <2>0, <2>6, PatchGroupKeeps, OthersExplained, Zenon
    <2>7. ASSUME PatchGroupMembers(h) \/ ReadGroups(h) \/ WriteRoles(h) \/ CommitGroup(h)
          PROVE  Explanation'
      BY <2>0, <2>7, PatchGroupMembersExplained, ReadGroupsExplained, WriteRolesExplained,
         CommitGroupExplained, Zenon
    <2>8. QED
      BY <1>3, <2>1, <2>2, <2>3, <2>4, <2>5, <2>6, <2>7, ZenonT(60) DEF DirectoryNext
  <1>4. ASSUME NEW h \in Handlers, Fail(h) PROVE Explanation'
    BY <1>4, FailKeeps, OthersExplained, Zenon
  <1>5. ASSUME SessionStep PROVE Explanation'
    <2>1. \A p : RolesNow(p)' = RolesNow(p)
      BY <1>5, Zenon DEF SessionStep, RolesNow
    <2>2. \A tx, p : RolesIn(tx, p)' = RolesIn(tx, p)
      BY <1>5, ZenonT(60) DEF SessionStep, RolesIn, MembersIn, NameIn
    <2>3. \A h, p, r : WillBeScim(h, p, r)' <=> WillBeScim(h, p, r)
      BY <1>5, Zenon DEF SessionStep, WillBeScim
    <2>4. \A h \in Handlers : GrantOK(h)' /\ SyncOK(h)'
      BY <1>5, <2>2, <2>3, Zenon DEF SessionStep, GrantOK, SyncOK, Explanation
    <2>5. \A p \in Ids, r \in Roles : Explained(p, r)'
      BY <1>5, <2>1, Zenon DEF SessionStep, Explained, Explanation
    <2>6. QED
      BY <2>4, <2>5, Zenon DEF Explanation
  <1>6. QED
    BY <1>1, <1>2, <1>3, <1>4, <1>5, SessionStepKeeps, Zenon DEF Next

(* Every role somebody holds is still given by the source recorded for it: *)
(* the administrator's last edit, the last login's token, or a group the   *)
(* person is in now.  The directory waits for each answer; of the Access   *)
(* tab it is assumed that one administrator uses it at a time.             *)
THEOREM RolesAreExplained == OneAdmin /\ Spec => []BindingsExplained
  <1>1. Init => Explanation
    <2> SUFFICES ASSUME Init PROVE Explanation
      BY Zenon
    <2>1. \A h \in Handlers : GrantOK(h) /\ SyncOK(h)
      BY Zenon DEF Init, GrantOK, SyncOK
    <2>2. ASSUME NEW p \in Ids, NEW r \in Roles PROVE Explained(p, r)
      <3>1. CASE p = 1
        <4>1. granted[p] = {"admin"} /\ binding[p] = [NoRoles EXCEPT !["admin"] = "local"]
          BY <3>1, Zenon DEF Init
        <4>2. binding[p][r] = IF r = "admin" THEN "local" ELSE NULL
          BY <4>1, Zenon DEF NoRoles
        <4>3. QED
          BY <4>1, <4>2, NullAssumption, Zenon DEF Explained, Sources
      <3>2. CASE p # 1
        <4>1. binding[p][r] = NULL
          BY <3>2, Zenon DEF Init, NoRoles
        <4>2. QED
          BY <4>1, NullAssumption, Zenon DEF Explained, Sources
      <3>3. QED
        BY <3>1, <3>2, Zenon
    <2>3. QED
      BY <2>1, <2>2, Zenon DEF Explanation
  <1>2. OneAdmin /\ IdentityInv /\ Explanation /\ [Next]_vars => Explanation'
    BY ExplanationStep, Zenon
  <1>3. Explanation => BindingsExplained
    BY Zenon DEF Explanation, Explained, RolesNow, BindingsExplained
  <1>4. OneAdmin => OneAdmin'
    BY Zenon DEF OneAdmin
  <1>5. QED
    BY IdentityInvHolds, <1>1, <1>2, <1>3, <1>4, PTL DEF Spec
=============================================================================
