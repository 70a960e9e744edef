-------------------------------- MODULE Access --------------------------------
(***************************************************************************)
(* How a request gets in: the login flows that start a session, the chain  *)
(* of authenticators, the checks between it and a handler, and the sweeper *)
(* of expired rows, while accounts are disabled, deactivated, enabled and  *)
(* given other roles.  Identity has the tables' own operations in full.    *)
(*                                                                         *)
(* A step is one statement.  A principal's permissions are abstracted to   *)
(* reading and writing, a request to the credentials it carries, whether   *)
(* it writes and whether it echoes the CSRF cookie.                        *)
(***************************************************************************)
EXTENDS Naturals, FiniteSets

CONSTANTS
  Humans, Keys,    \* principals that log in, and that are API keys
  StaticBearers,   \* the tokens in EVIDENCE_API_KEYS, all of them rw
  StrayBearers,    \* other tokens, that do not look like a key of ours
  Cookies,         \* session tokens
  Handshakes,      \* SAML request ids
  Browsers,        \* login requests under way at once
  Arrivals,        \* API requests under way at once
  LoginTimeout, SessionTTL,
  MaxHour,         \* bound: the clock
  MaxOutages,      \* bound: statements that fail
  MaxDeactivated,  \* bound: deactivations
  ABSENT

ASSUME AccessAssumption ==
  /\ LoginTimeout \in Nat /\ SessionTTL \in Nat
  /\ MaxHour \in Nat /\ MaxOutages \in Nat /\ MaxDeactivated \in Nat
  /\ ABSENT \notin Humans \cup Keys \cup StaticBearers \cup StrayBearers \cup Cookies \cup Handshakes
  /\ Humans \cap StaticBearers = {}   \* a person is no configured token
  /\ Cookies \cap (Keys \cup StaticBearers \cup StrayBearers) = {}

Accounts == Humans \cup Keys
Bearers == Keys \cup StaticBearers \cup StrayBearers   \* a key is its own token

VARIABLES
  hour,         \* the clock
  enabled,      \* disabled_at is null
  writer,       \* the account's roles grant writing; all grant reading
  cookie,       \* sessions rows
  handshake,    \* saml_requests rows: when each expires, or ABSENT
  login,        \* each login
  arrival,      \* each API request
  outages,      \* failed statements so far
  deactivated,  \* how often each person was deactivated
  chances,      \* what each request was entitled to at some moment since it arrived
  steady        \* ... and at every moment

accessTables == <<hour, enabled, writer, cookie, handshake, outages, deactivated>>
accessVars == <<accessTables, login, arrival, chances, steady>>

NoLogin == [pc |-> "idle", who |-> ABSENT, request |-> ABSENT, seen |-> 0, raced |-> FALSE]
NoArrival == [pc |-> "idle", bearer |-> ABSENT, cookie |-> ABSENT, write |-> FALSE, echo |-> FALSE,
              who |-> ABSENT, session |-> FALSE, may |-> FALSE, status |-> "none"]

AccessInit ==
  /\ hour = 0
  /\ enabled = [a \in Accounts |-> TRUE]
  /\ writer \in [Accounts -> BOOLEAN]
  /\ cookie = [t \in Cookies |-> ABSENT]
  /\ handshake = [h \in Handshakes |-> ABSENT]
  /\ login = [b \in Browsers |-> NoLogin]
  /\ arrival = [r \in Arrivals |-> NoArrival]
  /\ outages = 0
  /\ deactivated = [p \in Humans |-> 0]
  /\ chances = [r \in Arrivals |-> {}] /\ steady = [r \in Arrivals |-> {}]

Outage == outages < MaxOutages /\ outages' = outages + 1
LoginAt(b, l) == login' = [login EXCEPT ![b] = l]
AtDesk(b, l) == LoginAt(b, l) /\ UNCHANGED <<hour, enabled, writer, deactivated, arrival>>

(***************************************************************************)
(* Login, Callback, SAMLLogin and SAMLACS, and completeLogin.              *)
(***************************************************************************)
(* An OIDC login keeps its state in the browser, a SAML login in a row. *)
BeginLogin(b, p) ==
  /\ login[b].pc = "idle"
  /\ \/ /\ AtDesk(b, [NoLogin EXCEPT !.pc = "verified", !.who = p])
        /\ UNCHANGED handshake
     \/ \E h \in Handshakes :
          /\ handshake[h] = ABSENT
          /\ handshake' = [handshake EXCEPT ![h] = hour + LoginTimeout]
          /\ AtDesk(b, [NoLogin EXCEPT !.pc = "away", !.who = p, !.request = h])
  /\ UNCHANGED <<cookie, outages>>

(* Pending: an answer to no pending request ends the login. *)
ACS(b) ==
  /\ login[b].pc = "away"
  /\ LET h == login[b].request IN
     AtDesk(b, IF handshake[h] # ABSENT /\ handshake[h] > hour
               THEN [login[b] EXCEPT !.pc = "consume"] ELSE NoLogin)
  /\ UNCHANGED <<cookie, handshake, outages>>

(* Best effort. *)
Forget(b) ==
  /\ login[b].pc = "consume"
  /\ \/ handshake' = [handshake EXCEPT ![login[b].request] = ABSENT] /\ UNCHANGED outages
     \/ Outage /\ UNCHANGED handshake
  /\ AtDesk(b, [login[b] EXCEPT !.pc = "verified"])
  /\ UNCHANGED cookie

(* UpsertFromIdP, and the row it returns. *)
CheckAccount(b) ==
  /\ login[b].pc = "verified"
  /\ LET p == login[b].who IN
     AtDesk(b, IF enabled[p] THEN [login[b] EXCEPT !.pc = "start", !.seen = deactivated[p]] ELSE NoLogin)
  /\ UNCHANGED <<cookie, handshake, outages>>

SessionEnd == hour + SessionTTL

(* sessions.Create, and the cookies. *)
CreateSession(b) ==
  /\ login[b].pc = "start"
  /\ \E t \in Cookies :
       /\ cookie[t] = ABSENT
       /\ cookie' = [cookie EXCEPT ![t] = [owner |-> login[b].who, expires |-> SessionEnd,
                                           seen |-> login[b].seen, raced |-> login[b].raced]]
  /\ AtDesk(b, NoLogin)
  /\ UNCHANGED <<handshake, outages>>

(* The provider refuses, its answer does not verify, or a statement fails. *)
LoginFails(b) ==
  /\ login[b].pc # "idle"
  /\ AtDesk(b, NoLogin)
  /\ UNCHANGED <<cookie, handshake, outages>>

SignOut(t) ==
  /\ cookie[t] # ABSENT
  /\ cookie' = [cookie EXCEPT ![t] = ABSENT]
  /\ UNCHANGED <<hour, enabled, writer, handshake, outages, deactivated, login, arrival>>

(***************************************************************************)
(* Accounts change.                                                        *)
(***************************************************************************)
SetEnabled(a, on) ==
  /\ enabled[a] # on
  /\ enabled' = [enabled EXCEPT ![a] = on]
  /\ UNCHANGED <<hour, writer, cookie, handshake, outages, deactivated, login, arrival>>

SetRoles(a) ==
  /\ writer' = [writer EXCEPT ![a] = ~@]
  /\ UNCHANGED <<hour, enabled, cookie, handshake, outages, deactivated, login, arrival>>

(* Mutant: the sessions are left alone. *)
MutantKeepSessions(p) == cookie

(* DeleteForPrincipal *)
WithoutSessions(p) ==
  [t \in Cookies |-> IF cookie[t] # ABSENT /\ cookie[t].owner = p THEN ABSENT ELSE cookie[t]]

(* The directory's SetActive(false): the account and its sessions at once. *)
Deactivate(p) ==
  /\ deactivated[p] < MaxDeactivated
  /\ deactivated' = [deactivated EXCEPT ![p] = @ + 1]
  /\ enabled' = [enabled EXCEPT ![p] = FALSE]
  /\ cookie' = WithoutSessions(p)
  /\ login' = [b \in Browsers |-> IF login[b].pc = "start" /\ login[b].who = p
                                  THEN [login[b] EXCEPT !.raced = TRUE] ELSE login[b]]
  /\ UNCHANGED <<hour, writer, handshake, outages, arrival>>

HourPasses ==
  /\ hour < MaxHour /\ hour' = hour + 1
  /\ UNCHANGED <<enabled, writer, cookie, handshake, outages, deactivated, login, arrival>>

(***************************************************************************)
(* The sweeper: both tables, and a failure of one does not stop the other. *)
(***************************************************************************)

ExpiredHandshakes == {h \in Handshakes : handshake[h] # ABSENT /\ handshake[h] <= hour}
ExpiredCookies == {t \in Cookies : cookie[t] # ABSENT /\ cookie[t].expires <= hour}

SweptHandshakes == [h \in Handshakes |-> IF h \in ExpiredHandshakes THEN ABSENT ELSE handshake[h]]
SweptCookies == [t \in Cookies |-> IF t \in ExpiredCookies THEN ABSENT ELSE cookie[t]]

SweepExpired ==
  /\ ExpiredHandshakes # {} \/ ExpiredCookies # {}
  /\ \/ handshake' = SweptHandshakes /\ cookie' = SweptCookies /\ UNCHANGED outages
     \/ handshake' = SweptHandshakes /\ UNCHANGED cookie /\ Outage
     \/ cookie' = SweptCookies /\ UNCHANGED handshake /\ Outage
  /\ UNCHANGED <<hour, enabled, writer, deactivated, login, arrival>>

(***************************************************************************)
(* The authenticators.  A verdict is a principal or a reason.              *)
(***************************************************************************)
Says(reason) == [reason |-> reason, who |-> ABSENT, session |-> FALSE]
Accepts(who, session) == [reason |-> "ok", who |-> who, session |-> session]

StaticVerdict(q) ==
  CASE StaticBearers = {} \/ q.bearer = ABSENT -> Says("no credentials")
    [] q.bearer \in StaticBearers -> Accepts(q.bearer, FALSE)
    [] StaticBearers # {} /\ q.bearer \in Bearers \ StaticBearers -> Says("invalid")

KeyVerdict(q, down) ==
  CASE q.bearer \notin Keys -> Says("no credentials")
    [] q.bearer \in Keys /\ down -> Says("unavailable")
    [] q.bearer \in Keys /\ ~down -> IF enabled[q.bearer] THEN Accepts(q.bearer, FALSE) ELSE Says("invalid")

GoodSession(t) == cookie[t] # ABSENT /\ cookie[t].expires > hour /\ enabled[cookie[t].owner]

SessionVerdict(q, down) ==
  CASE q.cookie = ABSENT -> Says("no credentials")
    [] q.cookie # ABSENT /\ down -> Says("unavailable")
    [] q.cookie # ABSENT /\ ~down -> IF GoodSession(q.cookie) THEN Accepts(cookie[q.cookie].owner, TRUE)
                                     ELSE Says("invalid")

(* Mutant: a rejection ends the chain. *)
MutantFirstRejection(vs) ==
  LET stops == {n \in DOMAIN vs : vs[n].reason \in {"ok", "unavailable", "invalid"}} IN
  IF stops # {} THEN vs[CHOOSE n \in stops : \A m \in stops : n <= m] ELSE Says("no credentials")

(* Chain: the first that accepts, or cannot tell; else the rejection, if   *)
(* there was one.  Sessions are never "disabled", so neither is the chain. *)
Chain(vs) ==
  LET stops == {n \in DOMAIN vs : vs[n].reason \in {"ok", "unavailable"}} IN
  IF stops # {} THEN vs[CHOOSE n \in stops : \A m \in stops : n <= m]
  ELSE Says(IF \E n \in DOMAIN vs : vs[n].reason = "invalid" THEN "invalid" ELSE "no credentials")

Arrive(r, b, t, write, echo) ==
  /\ arrival[r].pc = "idle" /\ (echo => write)
  /\ arrival' = [arrival EXCEPT ![r] = [NoArrival EXCEPT !.pc = "arrived", !.bearer = b, !.cookie = t,
                                                         !.write = write, !.echo = echo]]
  /\ UNCHANGED <<accessTables, login>>

Status(reason) == IF reason = "unavailable" THEN "503" ELSE "401"
Answers(q, status) == [q EXCEPT !.pc = "answered", !.status = status]

(* Each lookup may find the database down. *)
Authenticate(r) ==
  /\ arrival[r].pc = "arrived"
  /\ LET q == arrival[r] IN
     \E down1, down2 \in BOOLEAN :
       LET v == Chain(<<StaticVerdict(q), KeyVerdict(q, down1), SessionVerdict(q, down2)>>) IN
       /\ IF down1 \/ down2 THEN v.reason = "unavailable" /\ Outage ELSE UNCHANGED outages
       /\ arrival' = [arrival EXCEPT ![r] =
            IF v.reason = "ok"
            THEN [q EXCEPT !.pc = "known", !.who = v.who, !.session = v.session,
                           !.may = ~q.write \/ v.who \in StaticBearers \/ writer[v.who]]
            ELSE Answers(q, Status(v.reason))]
  /\ UNCHANGED <<hour, enabled, writer, cookie, handshake, deactivated, login>>

(* RequireCSRF refuses. *)
Forged(q) == q.write /\ q.session /\ ~q.echo

(* RequireCSRF, the rate limit, Require, and the handler. *)
Handle(r) ==
  /\ arrival[r].pc = "known"
  /\ LET q == arrival[r] IN
     arrival' = [arrival EXCEPT ![r] = Answers(q, IF Forged(q) \/ ~q.may THEN "403" ELSE "served")]
  /\ UNCHANGED <<accessTables, login>>

Leave(r) ==
  /\ arrival[r].pc = "answered"
  /\ arrival' = [arrival EXCEPT ![r] = NoArrival]
  /\ UNCHANGED <<accessTables, login>>

(***************************************************************************)
(* The specification, with what each request is entitled to.               *)
(***************************************************************************)
(* The credentials of a request that are good for what it asks. *)
Entitled(q) ==
  {x \in {q.bearer, q.cookie} \ {ABSENT} :
     \/ x \in StaticBearers
     \/ x \in Keys /\ enabled[x] /\ (q.write => writer[x])
     \/ x \in Cookies /\ cookie[x] # ABSENT /\ cookie[x].expires > hour
        /\ enabled[cookie[x].owner] /\ (q.write => writer[cookie[x].owner] /\ q.echo)}

InFlight(q) == q.pc \in {"arrived", "known"}

Watch ==
  /\ chances' = [r \in Arrivals |->
       CASE arrival'[r].pc = "idle" -> {}
         [] InFlight(arrival'[r]) -> chances[r] \cup Entitled(arrival[r])'
         [] OTHER -> chances[r]]
  /\ steady' = [r \in Arrivals |->
       CASE arrival'[r].pc = "idle" -> {}
         [] InFlight(arrival'[r]) -> IF arrival[r].pc = "idle" THEN Entitled(arrival[r])'
                                     ELSE steady[r] \cap Entitled(arrival[r])'
         [] OTHER -> steady[r]]

LoginStep(b) == ACS(b) \/ Forget(b) \/ CheckAccount(b) \/ CreateSession(b) \/ LoginFails(b)
RequestStep(r) == Authenticate(r) \/ Handle(r)

AccessStep ==
  \/ \E b \in Browsers : LoginStep(b) \/ \E p \in Humans : BeginLogin(b, p)
  \/ \E t \in Cookies : SignOut(t)
  \/ \E a \in Accounts : SetRoles(a) \/ \E on \in BOOLEAN : SetEnabled(a, on)
  \/ \E p \in Humans : Deactivate(p)
  \/ HourPasses \/ SweepExpired
  \/ \E r \in Arrivals : RequestStep(r) \/ Leave(r)
       \/ \E b \in Bearers \cup {ABSENT}, t \in Cookies \cup {ABSENT}, write, echo \in BOOLEAN :
            Arrive(r, b, t, write, echo)

AccessNext == AccessStep /\ Watch

(* The sweeper runs every hour. *)
AccessSpec ==
  /\ AccessInit /\ [][AccessNext]_accessVars
  /\ WF_accessVars(SweepExpired /\ Watch)

(***************************************************************************)
(* Properties.                                                             *)
(***************************************************************************)
(* Every variable has its type. *)
AccessTypeOK ==
  /\ enabled \in [Accounts -> BOOLEAN] /\ writer \in [Accounts -> BOOLEAN]
  /\ handshake \in [Handshakes -> Nat \cup {ABSENT}]
  /\ \A t \in Cookies : cookie[t] # ABSENT =>
       cookie[t].owner \in Humans /\ cookie[t].expires <= hour + SessionTTL
  /\ \A r \in Arrivals : steady[r] \subseteq chances[r]

(* A revoked key is refused "on the next request" (auth/dbkey.go): a       *)
(* request is served only if one of its credentials was good for it at     *)
(* some moment since it arrived: the session there and not timed out, its  *)
(* owner or the key enabled and holding the permission.                    *)
ServedWhileEntitled == \A r \in Arrivals : arrival[r].status = "served" => chances[r] # {}

(* "a stale bearer token should not shadow a valid session cookie on the   *)
(* same request", and an outage is no wrong key (auth/authenticator.go): a *)
(* request that carried a good credential all along is not answered 401.   *)
NotShadowed == \A r \in Arrivals : arrival[r].status = "401" => steady[r] = {}

(* Whatever is revoked, expires or fails while a request is on its way, it *)
(* is answered as its credentials deserve.                                 *)
RightlyAnswered == AccessTypeOK /\ ServedWhileEntitled /\ NotShadowed

(* Deactivation "stops the browsers they left open from being restored by  *)
(* an enable" (store/session.go): a session there is of a login that was   *)
(* admitted since the owner's last deactivation, or was being recorded     *)
(* while it happened.                                                      *)
DeactivationSticks ==
  \A t \in Cookies : cookie[t] # ABSENT =>
    cookie[t].seen = deactivated[cookie[t].owner] \/ cookie[t].raced

(* "Nothing except the table growing for as long as the deployment lives"  *)
(* (expiry/sweeper.go): expired sessions and handshakes are deleted, also  *)
(* when the sweep of one of the tables has failed.                         *)
ExpiredRowsGo ==
  /\ \A h \in Handshakes : []<>(h \notin ExpiredHandshakes)
  /\ \A t \in Cookies : []<>(t \notin ExpiredCookies)
===============================================================================
