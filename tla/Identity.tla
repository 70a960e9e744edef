------------------------------ MODULE Identity ------------------------------
(***************************************************************************)
(* Who may use the store: the tables principals, role_bindings, sessions,  *)
(* scim_groups and scim_group_members, and the handlers that write them.   *)
(* Three kinds of client are served concurrently: administrators on the    *)
(* Access tab, the directory that provisions people over SCIM, and         *)
(* browsers that log in through the identity provider.                     *)
(*                                                                         *)
(* A step is one autocommitted statement or one short transaction; a       *)
(* transaction that another one can come between is split where it can:    *)
(* replacing roles between its DELETE and its INSERTs, a group request at  *)
(* the reads of its role reconciliation.  Such a transaction keeps its     *)
(* writes to role_bindings in mem[h].write, where they lock the rows,      *)
(* until it commits.  A request refused at once changes nothing and is no  *)
(* step; Fail ends one that has begun.                                     *)
(***************************************************************************)
EXTENDS Naturals, FiniteSets

CONSTANTS
  NULL,
  Admins, Directory, Browsers,  \* handlers serving a request of each client
  People,         \* external_id: how the identity provider names somebody
  Names,          \* subjects and login names
  Root,           \* EVIDENCE_BOOTSTRAP_ADMIN
  Roles,
  Groups,         \* ids of scim_groups rows
  GroupNames,
  RoleMap,        \* role map: group name -> role, or NULL
  Sessions,       \* ids of sessions rows
  MaxPrincipals,  \* bound on principals rows
  MaxRequests     \* bound on requests served

ASSUME IdentityAssumption ==
  /\ MaxPrincipals \in Nat \ {0} /\ MaxRequests \in Nat
  /\ Root \in Names /\ "admin" \in Roles
  /\ NULL \notin People \cup Names \cup Roles \cup GroupNames \cup Nat
  /\ RoleMap \in [GroupNames -> Roles \cup {NULL}]
  /\ \A d, e \in Directory : d = e   \* it waits for each answer

Ids == 1..MaxPrincipals
Handlers == Admins \cup Directory \cup Browsers
Serials == 0..MaxRequests   \* what a request mints: a key or a SCIM id
Sources == {"local", "idp", "scim"}

Row == [subject: Names, kind: {"api_key", "user"}, key: Serials \cup {NULL},
        external: People \cup {NULL}, scim: Serials \cup {NULL},
        userName: Names \cup {NULL}, disabled: BOOLEAN]

ASSUME NullAssumption ==
  NULL \notin Sources \cup {"gone"} \cup Row \cup [owner: Ids, expired: BOOLEAN]

VARIABLES
  principal,  \* principals rows
  binding,    \* source of each store-wide role_bindings row: unique by principal and role
  group,      \* scim_groups.display_name
  member,     \* scim_group_members
  session,    \* sessions rows
  pc, mem,    \* where each handler is and what it has read
  served,     \* requests so far
  handed,     \* history: SCIM ids the directory was given
  granted,    \* history: the roles an administrator last gave each principal
  token       \* history: the roles of each principal's last login

rows == <<principal, binding, group, member, session>>
history == <<handed, granted, token>>
vars == <<rows, pc, mem, served, history>>

Exists(p) == principal[p] # NULL
RolesOf(p) == {r \in Roles : binding[p][r] # NULL}
EnabledAdmins ==
  {p \in Ids : Exists(p) /\ ~principal[p].disabled /\ "admin" \in RolesOf(p)}
NoRoles == [r \in Roles |-> NULL]

(* The first unused row id. *)
Fresh(p) == ~Exists(p) /\ \A q \in Ids : q < p => Exists(q)

(* The unique columns: another row has this value. *)
SubjectTaken(p, n) == \E q \in Ids \ {p} : Exists(q) /\ principal[q].subject = n
UserNameTaken(p, u) == \E q \in Ids \ {p} : Exists(q) /\ principal[q].userName = u
ExternalTaken(p, x) == \E q \in Ids \ {p} : Exists(q) /\ principal[q].external = x

NoWrites == [p \in Ids |-> NoRoles]
Idle == [p |-> NULL, op |-> NULL, roles |-> {}, user |-> NULL, tx |-> NULL, write |-> NoWrites]

(* A row as BootstrapAdmin and the Access tab create it. *)
KeyRow(n, k) ==
  [subject |-> n, kind |-> "api_key", key |-> k, external |-> NULL,
   scim |-> NULL, userName |-> NULL, disabled |-> FALSE]

Init ==
  /\ principal = [p \in Ids |-> IF p = 1 THEN KeyRow(Root, 0) ELSE NULL]
  /\ binding = [p \in Ids |-> IF p = 1 THEN [NoRoles EXCEPT !["admin"] = "local"]
                                       ELSE NoRoles]
  /\ group = [g \in Groups |-> NULL]
  /\ member = [g \in Groups |-> {}]
  /\ session = [s \in Sessions |-> NULL]
  /\ pc = [h \in Handlers |-> "idle"]
  /\ mem = [h \in Handlers |-> Idle]
  /\ served = 0
  /\ handed = {}
  /\ granted = [p \in Ids |-> IF p = 1 THEN {"admin"} ELSE {}]
  /\ token = [p \in Ids |-> {}]

Begin(h) == pc[h] = "idle" /\ served < MaxRequests /\ served' = served + 1
Goto(h, label, m) == pc' = [pc EXCEPT ![h] = label] /\ mem' = [mem EXCEPT ![h] = m]
Continue(h, label) == Goto(h, label, mem[h])
Done(h) == Goto(h, "idle", Idle)

(***************************************************************************)
(* Role bindings.  A reconciliation by one source deletes the bindings of  *)
(* that source that are no longer implied and inserts the implied ones ON  *)
(* CONFLICT DO NOTHING, so a role keeps the source that granted it first.  *)
(* A change of a row is its new source, "gone", or NULL for no change.     *)
(***************************************************************************)
(* Mutant: the DELETE does not look at the source. *)
MutantAnySource(b, source, rs) ==
  [r \in Roles |-> CASE b[r] = NULL /\ r \in rs -> source
                     [] b[r] # NULL /\ r \notin rs -> "gone"
                     [] OTHER -> NULL]

(* Mutant: what is no longer implied is kept. *)
MutantKeepStale(b, source, rs) == [r \in Roles |-> IF b[r] = NULL /\ r \in rs THEN source ELSE NULL]

Changes(b, source, rs) ==
  [r \in Roles |-> CASE b[r] = NULL /\ r \in rs -> source
                     [] b[r] = source /\ r \notin rs -> "gone"
                     [] OTHER -> NULL]

Changed(b, w) ==
  [r \in Roles |-> CASE w[r] = NULL -> b[r] [] w[r] = "gone" -> NULL [] OTHER -> w[r]]

(* No other transaction has written these bindings without committing.  A  *)
(* statement waits for the rows it deletes and for the keys it inserts.    *)
Unlocked(h, p, rs) == \A k \in Handlers \ {h} : \A r \in rs : mem[k].write[p][r] = NULL
CanReconcile(h, p, source, rs) ==
  Unlocked(h, p, rs \cup {r \in Roles : binding[p][r] = source})

(***************************************************************************)
(* The Access tab.                                                         *)
(***************************************************************************)
CreateKey(h, n, rs) ==
  /\ Begin(h)
  /\ \A q \in Ids : Exists(q) => principal[q].subject # n
  /\ \E p \in Ids :
       /\ Fresh(p)
       /\ principal' = [principal EXCEPT ![p] = KeyRow(n, served')]
       /\ binding' = [binding EXCEPT ![p] = Changed(NoRoles, Changes(NoRoles, "local", rs))]
       /\ granted' = [granted EXCEPT ![p] = rs]
  /\ UNCHANGED <<group, member, session, pc, mem, handed, token>>

Rotate(h, p) ==
  /\ Begin(h) /\ Exists(p) /\ principal[p].kind = "api_key"
  /\ principal' = [principal EXCEPT ![p].key = served']
  /\ UNCHANGED <<binding, group, member, session, pc, mem, history>>

Enable(h, p) ==
  /\ Begin(h) /\ Exists(p)
  /\ principal' = [principal EXCEPT ![p].disabled = FALSE]
  /\ UNCHANGED <<binding, group, member, session, pc, mem, history>>

(* lookup and the first half of refuseIfLastAdmin: only the loss of an     *)
(* enabled administrator needs the count.                                  *)
Target(h, p, op, rs) ==
  /\ Begin(h) /\ Exists(p)
  /\ LET losing == p \in EnabledAdmins /\ ~(op = "clear" /\ "admin" \in rs)
     IN Goto(h, IF losing THEN "count" ELSE op, [Idle EXCEPT !.p = p, !.op = op, !.roles = rs])
  /\ UNCHANGED <<rows, history>>

OtherAdmins(p) == EnabledAdmins \ {p} # {}

CountAdmins(h) ==
  /\ pc[h] = "count"
  /\ IF OtherAdmins(mem[h].p) THEN Continue(h, mem[h].op) ELSE Done(h)
  /\ UNCHANGED <<rows, served, history>>

Disable(h) ==
  /\ pc[h] = "disable"
  /\ principal' = [principal EXCEPT ![mem[h].p].disabled = TRUE]
  /\ Done(h)
  /\ UNCHANGED <<binding, group, member, session, served, history>>

(* ReplaceRoles: the DELETE takes the bindings it sees ... *)
ClearRoles(h) ==
  /\ pc[h] = "clear"
  /\ LET p == mem[h].p IN
     /\ Unlocked(h, p, RolesOf(p))
     /\ Goto(h, "grant", [mem[h] EXCEPT !.write[p] =
               [r \in Roles |-> IF r \in RolesOf(p) THEN "gone" ELSE NULL]])
  /\ UNCHANGED <<rows, served, history>>

(* ... and the INSERTs leave alone what has appeared since. *)
ReplaceRoles(h) ==
  /\ pc[h] = "grant"
  /\ LET p == mem[h].p
         cleared == Changed(binding[p], mem[h].write[p])
     IN /\ Unlocked(h, p, mem[h].roles)
        /\ binding' = [binding EXCEPT ![p] =
                         Changed(cleared, [r \in Roles |-> IF cleared[r] = NULL /\ r \in mem[h].roles
                                                           THEN "local" ELSE NULL])]
        /\ granted' = [granted EXCEPT ![p] = mem[h].roles]
  /\ Done(h)
  /\ UNCHANGED <<principal, group, member, session, served, handed, token>>

(***************************************************************************)
(* Logins and sessions.                                                    *)
(***************************************************************************)
(* Mutant: a row that another login has claimed can be claimed again. *)
MutantClaimAny(n, names) ==
  {p \in Ids : /\ Exists(p) /\ principal[p].scim # NULL
               /\ principal[p].kind = "user"
               /\ principal[p].subject = n \/ principal[p].userName \in names}

Claimable(n, names) ==
  {p \in Ids : /\ Exists(p) /\ principal[p].scim # NULL
               /\ principal[p].external = NULL /\ principal[p].kind = "user"
               /\ principal[p].subject = n \/ principal[p].userName \in names}

PersonRow(x, n) ==
  [subject |-> n, kind |-> "user", key |-> NULL, external |-> x,
   scim |-> NULL, userName |-> NULL, disabled |-> FALSE]

(* UpsertFromIdP: one claimable row is taken, otherwise the row with this   *)
(* external id is corrected or a new one inserted.  Several claimable rows, *)
(* or a unique column of another row, make the login fail.                  *)
Upsert(h, x, n, names, rs) ==
  /\ Begin(h)
  /\ \E p \in Ids :
       /\ ~SubjectTaken(p, n) /\ ~ExternalTaken(p, x)
       /\ \/ /\ Claimable(n, names) = {p}
             /\ principal' = [principal EXCEPT ![p] = [@ EXCEPT !.external = x, !.subject = n]]
          \/ /\ Claimable(n, names) = {}
             /\ Exists(p) /\ principal[p].external = x
             /\ principal' = [principal EXCEPT ![p].subject = n]
          \/ /\ Claimable(n, names) = {}
             /\ Fresh(p)
             /\ principal' = [principal EXCEPT ![p] = PersonRow(x, n)]
       /\ CanReconcile(h, p, "idp", rs)
       /\ binding' = [binding EXCEPT ![p] = Changed(@, Changes(@, "idp", rs))]
       /\ token' = [token EXCEPT ![p] = rs]
       /\ Goto(h, "check", [Idle EXCEPT !.p = p])
  /\ UNCHANGED <<group, member, session, handed, granted>>

(* completeLogin reads the row again and refuses a disabled account. *)
CheckEnabled(h) ==
  /\ pc[h] = "check"
  /\ IF principal[mem[h].p].disabled THEN Done(h) ELSE Continue(h, "session")
  /\ UNCHANGED <<rows, served, history>>

StartSession(h, s) ==
  /\ pc[h] = "session" /\ session[s] = NULL
  /\ session' = [session EXCEPT ![s] = [owner |-> mem[h].p, expired |-> FALSE]]
  /\ Done(h)
  /\ UNCHANGED <<principal, binding, group, member, served, history>>

Logout(s) ==
  /\ session[s] # NULL
  /\ session' = [session EXCEPT ![s] = NULL]
  /\ UNCHANGED <<principal, binding, group, member, pc, mem, served, history>>

Expire(s) ==
  /\ session[s] # NULL /\ ~session[s].expired
  /\ session' = [session EXCEPT ![s].expired = TRUE]
  /\ UNCHANGED <<principal, binding, group, member, pc, mem, served, history>>

DeleteExpired ==
  /\ \E s \in Sessions : session[s] # NULL /\ session[s].expired
  /\ session' = [s \in Sessions |->
                   IF session[s] # NULL /\ session[s].expired THEN NULL ELSE session[s]]
  /\ UNCHANGED <<principal, binding, group, member, pc, mem, served, history>>

(***************************************************************************)
(* SCIM users.                                                             *)
(***************************************************************************)
User(id, n, u, active) == [id |-> id, subject |-> n, userName |-> u, active |-> active]

ProvisionedRow(w) ==
  [subject |-> w.subject, kind |-> "user", key |-> NULL, external |-> NULL,
   scim |-> w.id, userName |-> w.userName, disabled |-> ~w.active]

(* Mutant: a key is adopted. *)
MutantAdoptKey(p) == principal[p].scim = NULL

Adoptable(p) == principal[p].scim = NULL /\ principal[p].kind = "user"

(* CreateUser's SELECT ... LIMIT 1 and the errors it decides. *)
FindExisting(h, n, u, active) ==
  /\ Begin(h)
  /\ LET found == {p \in Ids : Exists(p) /\ (principal[p].subject = n \/ principal[p].userName = u)}
         w == User(served', n, u, active)
     IN \/ /\ found = {}
           /\ Goto(h, "insert", [Idle EXCEPT !.user = w])
        \/ \E p \in found :
             /\ Adoptable(p)
             /\ Goto(h, "adopt", [Idle EXCEPT !.user = w, !.p = p])
  /\ UNCHANGED <<rows, history>>

InsertUser(h) ==
  /\ pc[h] = "insert"
  /\ LET w == mem[h].user IN
     \E p \in Ids :
       /\ Fresh(p) /\ ~SubjectTaken(p, w.subject) /\ ~UserNameTaken(p, w.userName)
       /\ principal' = [principal EXCEPT ![p] = ProvisionedRow(w)]
       /\ handed' = handed \cup {w.id}
  /\ Done(h)
  /\ UNCHANGED <<binding, group, member, session, served, granted, token>>

AdoptUser(h) ==
  /\ pc[h] = "adopt"
  /\ LET w == mem[h].user
         p == mem[h].p
     IN /\ ~UserNameTaken(p, w.userName)
        /\ principal' = [principal EXCEPT ![p] =
             [@ EXCEPT !.scim = w.id, !.userName = w.userName, !.disabled = ~w.active]]
        /\ handed' = handed \cup {w.id}
  /\ Done(h)
  /\ UNCHANGED <<binding, group, member, session, served, granted, token>>

(* PUT (with a userName), PATCH of active and DELETE (without). *)
WriteUser(h, id, u, active) ==
  /\ Begin(h)
  /\ Goto(h, IF active THEN "write" ELSE "others", [Idle EXCEPT !.user = User(id, NULL, u, active)])
  /\ UNCHANGED <<rows, history>>

(* deactivate: the count first, then whether this is an administrator. *)
CountOthers(h) ==
  /\ pc[h] = "others"
  /\ IF \E p \in EnabledAdmins : principal[p].scim # mem[h].user.id
     THEN Continue(h, "write") ELSE Continue(h, "isadmin")
  /\ UNCHANGED <<rows, served, history>>

IsAdmin(h) ==
  /\ pc[h] = "isadmin"
  /\ IF \E p \in Ids : /\ Exists(p) /\ principal[p].scim = mem[h].user.id
                       /\ "admin" \in RolesOf(p)
     THEN Done(h) ELSE Continue(h, "write")
  /\ UNCHANGED <<rows, served, history>>

(* ReplaceUser leaves the sessions alone, SetActive ends them. *)
SetUser(h) ==
  /\ pc[h] = "write"
  /\ LET w == mem[h].user
         put == w.userName # NULL
     IN \E p \in Ids :
          /\ Exists(p) /\ principal[p].scim = w.id
          /\ put => ~UserNameTaken(p, w.userName)
          /\ principal' = [principal EXCEPT ![p] =
               [@ EXCEPT !.disabled = ~w.active,
                         !.userName = IF put THEN w.userName ELSE principal[p].userName]]
          /\ session' = [s \in Sessions |->
                           IF ~put /\ ~w.active /\ session[s] # NULL /\ session[s].owner = p
                           THEN NULL ELSE session[s]]
  /\ Done(h)
  /\ UNCHANGED <<binding, group, member, served, history>>

(***************************************************************************)
(* SCIM groups.  A transaction is the group it changes, its name           *)
(* afterwards (NULL when deleted), the members it adds and removes, the    *)
(* principals it still has to reconcile.                                   *)
(***************************************************************************)
Known(ps) == {p \in ps : Exists(p) /\ principal[p].scim # NULL}

Tx(g, n, add, remove) ==
  [g |-> g, name |-> n, add |-> add, remove |-> remove,
   todo |-> member[g] \cup add \cup remove]

(* display_name is unique. *)
NameTaken(g, n) == \E f \in Groups \ {g} : group[f] = n

WriteGroup(h, g, n, add, remove) ==
  /\ Begin(h)
  /\ n = NULL \/ ~NameTaken(g, n)
  /\ Goto(h, "reconcile", [Idle EXCEPT !.tx = Tx(g, n, add, remove)])
  /\ UNCHANGED <<rows, history>>

CreateGroup(h, g, n, ps) ==
  group[g] = NULL /\ member[g] = {} /\ WriteGroup(h, g, n, Known(ps), {})
ReplaceGroup(h, g, n, ps) ==
  group[g] # NULL /\ WriteGroup(h, g, n, Known(ps), member[g] \ Known(ps))
DeleteGroup(h, g) ==
  group[g] # NULL /\ WriteGroup(h, g, NULL, {}, member[g])

(* PatchGroup.  Replacing the members attribute reads the group before the *)
(* transaction begins: everyone in it is removed, everyone named is added. *)
PatchGroup(h, g, op, n, ps) ==
  /\ Begin(h) /\ group[g] # NULL
  /\ Goto(h, "patch",
          [Idle EXCEPT
             !.user = [g |-> g, name |-> n,
                       add |-> IF op = "remove" THEN {} ELSE ps,
                       remove |-> CASE op = "remove" -> ps
                                    [] op = "replace" -> Known(member[g])
                                    [] OTHER -> {}]])
  /\ UNCHANGED <<rows, history>>

(* PatchGroupMembers inserts the added members, then deletes the removed.  *)
PatchGroupMembers(h) ==
  /\ pc[h] = "patch"
  /\ LET w == mem[h].user
         n == IF w.name = NULL THEN group[w.g] ELSE w.name
     IN /\ group[w.g] # NULL /\ ~NameTaken(w.g, n)
        /\ Goto(h, "reconcile",
                [mem[h] EXCEPT !.tx = Tx(w.g, n, Known(w.add), Known(w.remove))])
  /\ UNCHANGED <<rows, served, history>>

(* The groups as the transaction sees them. *)
NameIn(tx, g) == IF g = tx.g THEN tx.name ELSE group[g]
MembersIn(tx, g) == IF g = tx.g THEN (member[g] \cup tx.add) \ tx.remove ELSE member[g]

RolesForGroups(names) == {RoleMap[n] : n \in names} \ {NULL}

(* reconcileSCIMRoles, one principal at a time: read the groups ... *)
ReadGroups(h) ==
  /\ pc[h] = "reconcile"
  /\ LET tx == mem[h].tx IN
     \E p \in tx.todo :
       LET names == {NameIn(tx, g) : g \in {f \in Groups : p \in MembersIn(tx, f)}} \ {NULL}
       IN Goto(h, "scimroles", [mem[h] EXCEPT !.p = p, !.roles = RolesForGroups(names)])
  /\ UNCHANGED <<rows, served, history>>

(* ... and rewrite the principal's directory-granted bindings. *)
WriteRoles(h) ==
  /\ pc[h] = "scimroles"
  /\ LET p == mem[h].p IN
     /\ CanReconcile(h, p, "scim", mem[h].roles)
     /\ Goto(h, "reconcile",
             [mem[h] EXCEPT !.tx.todo = @ \ {p},
                            !.write[p] = Changes(binding[p], "scim", mem[h].roles)])
  /\ UNCHANGED <<rows, served, history>>

CommitGroup(h) ==
  /\ pc[h] = "reconcile" /\ mem[h].tx.todo = {}
  /\ LET tx == mem[h].tx IN
     /\ group' = [group EXCEPT ![tx.g] = tx.name]
     /\ member' = [member EXCEPT ![tx.g] = MembersIn(tx, tx.g)]
     /\ binding' = [p \in Ids |-> Changed(binding[p], mem[h].write[p])]
  /\ Done(h)
  /\ UNCHANGED <<principal, session, served, history>>

(* A statement fails, by a unique column, a row that is gone, a deadlock   *)
(* or a client that went away: the transaction is rolled back.             *)
Fail(h) ==
  /\ pc[h] # "idle"
  /\ Done(h)
  /\ UNCHANGED <<rows, served, history>>

(***************************************************************************)
(* The specification.                                                      *)
(***************************************************************************)
AdminNext(h) ==
  \/ \E n \in Names, rs \in SUBSET Roles : CreateKey(h, n, rs)
  \/ \E p \in Ids : Rotate(h, p) \/ Enable(h, p) \/ Target(h, p, "disable", {})
  \/ \E p \in Ids, rs \in SUBSET Roles : Target(h, p, "clear", rs)
  \/ CountAdmins(h) \/ Disable(h) \/ ClearRoles(h) \/ ReplaceRoles(h)

BrowserNext(h) ==
  \/ \E x \in People, n \in Names, m \in Names, rs \in SUBSET Roles :
       Upsert(h, x, n, {n, m}, rs) \/ Upsert(h, x, n, {}, rs)
  \/ CheckEnabled(h)
  \/ \E s \in Sessions : StartSession(h, s)

DirectoryNext(h) ==
  \/ \E n \in Names, u \in Names, active \in BOOLEAN : FindExisting(h, n, u, active)
  \/ InsertUser(h) \/ AdoptUser(h)
  \/ \E id \in handed, u \in Names \cup {NULL}, active \in BOOLEAN : WriteUser(h, id, u, active)
  \/ CountOthers(h) \/ IsAdmin(h) \/ SetUser(h)
  \/ \E g \in Groups, n \in GroupNames, ps \in SUBSET Ids :
       CreateGroup(h, g, n, ps) \/ ReplaceGroup(h, g, n, ps)
  \/ \E g \in Groups : DeleteGroup(h, g)
  \/ \E g \in Groups, op \in {"add", "remove", "replace"}, n \in GroupNames \cup {NULL},
        ps \in SUBSET Ids : PatchGroup(h, g, op, n, ps)
  \/ PatchGroupMembers(h) \/ ReadGroups(h) \/ WriteRoles(h) \/ CommitGroup(h)

Next ==
  \/ \E h \in Admins : AdminNext(h)
  \/ \E h \in Browsers : BrowserNext(h)
  \/ \E h \in Directory : DirectoryNext(h)
  \/ \E s \in Sessions : Logout(s) \/ Expire(s)
  \/ DeleteExpired
  \/ \E h \in Handlers : Fail(h)

Spec == Init /\ [][Next]_vars

(***************************************************************************)
(* Properties.                                                             *)
(***************************************************************************)
(* Every column has its type. *)
TypeOK ==
  /\ principal \in [Ids -> Row \cup {NULL}]
  /\ binding \in [Ids -> [Roles -> Sources \cup {NULL}]]
  /\ group \in [Groups -> GroupNames \cup {NULL}]
  /\ member \in [Groups -> SUBSET Ids]
  /\ session \in [Sessions -> [owner: Ids, expired: BOOLEAN] \cup {NULL}]
  /\ handed \subseteq Serials
  /\ granted \in [Ids -> SUBSET Roles] /\ token \in [Ids -> SUBSET Roles]

(* A credential stays what it is: an API key is never adopted by the       *)
(* directory, claimed by a login or given a browser session, and a person  *)
(* never gets a key (ErrNotProvisionable, the kind guards of RotateKey and *)
(* claimProvisionedPrincipal).                                             *)
KeysAreNotPeople ==
  /\ \A p \in Ids : Exists(p) =>
       /\ (principal[p].kind = "api_key") = (principal[p].key # NULL)
       /\ principal[p].kind = "api_key" =>
            principal[p].external = NULL /\ principal[p].scim = NULL
  /\ \A s \in Sessions : session[s] # NULL => principal[session[s].owner].external # NULL

(* Every role somebody holds is still given by the source recorded for it: *)
(* the administrator's last edit, the last login's token, or a group the   *)
(* person is in now, so leaving a group takes away what it granted         *)
(* (reconcileIdPRoles, reconcileSCIMRoles), while each source is served    *)
(* one request at a time.                                                  *)
BindingsExplained ==
  \A p \in Ids :
    /\ {r \in Roles : binding[p][r] = "local"} \subseteq granted[p]
    /\ {r \in Roles : binding[p][r] = "idp"} \subseteq token[p]
    /\ {r \in Roles : binding[p][r] = "scim"} \subseteq
         RolesForGroups({group[g] : g \in {f \in Groups : p \in member[f]}} \ {NULL})

(* What an administrator granted on the Access tab is taken away only on   *)
(* the Access tab: it survives logins and syncs, also those that imply the *)
(* same role and later cease to.                                           *)
LocalGrantsStay ==
  [][\A p \in Ids, r \in Roles :
       binding[p][r] = "local" /\ binding'[p][r] # "local"
         => \E h \in Admins : pc[h] = "grant" /\ mem[h].p = p /\ pc'[h] = "idle"]_vars

(* The id the directory was given for somebody goes on addressing them:    *)
(* CreateUser refuses whoever is provisioned already, and no other         *)
(* operation touches scim_id.                                              *)
ProvisionedIdLasts ==
  \A id \in handed : \E p \in Ids : Exists(p) /\ principal[p].scim = id

(* A row stays whose it is, whatever the Access tab, the directory and     *)
(* logins do to it at once.                                                *)
IdentitiesHold == TypeOK /\ KeysAreNotPeople /\ ProvisionedIdLasts

(* A row belongs to one account of the identity provider forever: somebody *)
(* who inherits a departed colleague's address cannot inherit their        *)
(* history with it (claimProvisionedPrincipal).                            *)
ExternalIdIsPermanent ==
  [][\A p \in Ids : (Exists(p) /\ principal[p].external # NULL)
       => principal'[p].external = principal[p].external]_vars

(* Disabling and editing roles on the Access tab never leave the store     *)
(* without an enabled administrator (refuseIfLastAdmin).  Stated for a     *)
(* store that only the Access tab changes.                                 *)
AdministratorRemains == EnabledAdmins # {}

=============================================================================
