----------------------------- MODULE AccessProofs -----------------------------
(***************************************************************************)
(* Proofs about Access: a request is answered as its credentials           *)
(* deserve and a deactivation sticks, for every set of people,             *)
(* keys, tokens and requests, and every lifetime.                          *)
(***************************************************************************)
EXTENDS Access, TLAPS

CookieRow == [owner: Humans, expires: Nat, seen: Nat, raced: BOOLEAN]
LoginRow ==
  [pc: {"idle", "away", "consume", "verified", "start"}, who: Humans \cup {ABSENT},
   request: Handshakes \cup {ABSENT}, seen: Nat, raced: BOOLEAN]
ArrivalRow ==
  [pc: {"idle", "arrived", "known", "answered"}, bearer: Bearers \cup {ABSENT},
   cookie: Cookies \cup {ABSENT}, write: BOOLEAN, echo: BOOLEAN,
   who: Accounts \cup Bearers \cup {ABSENT}, session: BOOLEAN, may: BOOLEAN,
   status: {"none", "401", "403", "503", "served"}]

(* A session or a login that was admitted after n deactivations, or that a *)
(* deactivation came across.                                               *)
Admitted(c, n) == c.seen = n \/ c.raced = TRUE

(***************************************************************************)
(* The tables and the logins.                                              *)
(***************************************************************************)
AccountTables ==
  /\ hour \in Nat
  /\ enabled \in [Accounts -> BOOLEAN] /\ writer \in [Accounts -> BOOLEAN]
  /\ handshake \in [Handshakes -> Nat \cup {ABSENT}]
  /\ deactivated \in [Humans -> Nat]

SessionTable ==
  /\ cookie \in [Cookies -> CookieRow \cup {ABSENT}]
  /\ \A t \in Cookies : cookie[t] # ABSENT =>
       /\ cookie[t] \in CookieRow
       /\ cookie[t].expires <= hour + SessionTTL
       /\ Admitted(cookie[t], deactivated[cookie[t].owner])

LoginTable ==
  /\ login \in [Browsers -> LoginRow]
  /\ \A b \in Browsers :
       /\ login[b].pc # "idle" => login[b].who \in Humans
       /\ login[b].pc = "start" => Admitted(login[b], deactivated[login[b].who])

TableInv == AccountTables /\ SessionTable /\ LoginTable

(* A login that gets on or ends, while nothing else of it changes. *)
LEMMA LoginMoves ==
  ASSUME TableInv, NEW b \in Browsers, NEW l \in LoginRow, LoginAt(b, l),
         l.pc # "idle" => l.who \in Humans,
         l.pc = "start" => Admitted(l, deactivated[l.who]),
         UNCHANGED deactivated
  PROVE  LoginTable'
  <1>1. login' \in [Browsers -> LoginRow]
    BY Zenon DEF TableInv, LoginTable, LoginAt
  <1>2. ASSUME NEW c \in Browsers
        PROVE  /\ login'[c].pc # "idle" => login'[c].who \in Humans
               /\ login'[c].pc = "start" => Admitted(login'[c], deactivated'[login'[c].who])
    <2>1. CASE c = b
      <3>1. login'[c] = l
        BY <2>1, Zenon DEF TableInv, LoginTable, LoginAt
      <3>2. QED
        BY <3>1, Zenon
    <2>2. CASE c # b
      <3>1. login'[c] = login[c]
        BY <2>2, Zenon DEF TableInv, LoginTable, LoginAt
      <3>2. QED
        BY <3>1, Zenon DEF TableInv, LoginTable
    <2>3. QED
      BY <2>1, <2>2, Zenon
  <1>3. QED
    BY <1>1, <1>2, Zenon DEF LoginTable

(* The login that was and the one that ended. *)
LEMMA NoLoginRow == NoLogin \in LoginRow /\ NoLogin.pc = "idle"
  BY Zenon DEF NoLogin, LoginRow

(* The sessions stay while time passes and accounts change. *)
LEMMA SessionsStay ==
  ASSUME TableInv, UNCHANGED <<cookie, deactivated>>, hour' \in Nat, hour' >= hour
  PROVE  SessionTable'
  <1>1. ASSUME NEW t \in Cookies, cookie[t] # ABSENT
        PROVE  cookie[t].expires <= hour' + SessionTTL
    <2>1. cookie[t] \in CookieRow /\ cookie[t].expires <= hour + SessionTTL
      BY <1>1, Zenon DEF TableInv, SessionTable
    <2>2. cookie[t].expires \in Nat
      BY <2>1, Zenon DEF CookieRow
    <2>3. QED
      BY <2>1, <2>2, AccessAssumption DEF TableInv, AccountTables
  <1>2. QED
    BY <1>1, Zenon DEF TableInv, SessionTable

(* Some sessions go. *)
LEMMA SessionsGo ==
  ASSUME TableInv, UNCHANGED <<hour, deactivated>>,
         cookie' = [t \in Cookies |-> cookie'[t]],
         \A t \in Cookies : cookie'[t] \in {ABSENT, cookie[t]}
  PROVE  SessionTable'
  BY Zenon DEF TableInv, SessionTable

(* The steps of a login. *)
LEMMA LoginStepTables ==
  ASSUME TableInv, NEW b \in Browsers,
         LoginStep(b) \/ \E p \in Humans : BeginLogin(b, p)
  PROVE  TableInv'
  <1>0. login[b] \in LoginRow /\ (login[b].pc # "idle" => login[b].who \in Humans)
    BY Zenon DEF TableInv, LoginTable
  <1>1. ASSUME NEW p \in Humans, BeginLogin(b, p) PROVE TableInv'
    <2>1. ASSUME NEW l, l = [NoLogin EXCEPT !.pc = "verified", !.who = p], AtDesk(b, l),
                 UNCHANGED handshake, UNCHANGED cookie
          PROVE  TableInv'
      <3>1. l \in LoginRow /\ l.pc = "verified" /\ l.who = p
        BY <2>1, Zenon DEF NoLogin, LoginRow
      <3>2. LoginTable'
        BY <2>1, <3>1, LoginMoves, Zenon DEF AtDesk
      <3>3. SessionTable'
        BY <2>1, SessionsStay DEF AtDesk, TableInv, AccountTables
      <3>4. QED
        BY <2>1, <3>2, <3>3, Zenon DEF AtDesk, TableInv, AccountTables
    <2>2. ASSUME NEW h \in Handshakes, NEW l,
                 handshake' = [handshake EXCEPT ![h] = hour + LoginTimeout],
                 l = [NoLogin EXCEPT !.pc = "away", !.who = p, !.request = h], AtDesk(b, l),
                 UNCHANGED cookie
          PROVE  TableInv'
      <3>1. l \in LoginRow /\ l.pc = "away" /\ l.who = p
        BY <2>2, Zenon DEF NoLogin, LoginRow
      <3>2. LoginTable'
        BY <2>2, <3>1, LoginMoves, Zenon DEF AtDesk
      <3>3. SessionTable'
        BY <2>2, SessionsStay DEF AtDesk, TableInv, AccountTables
      <3>4. handshake' \in [Handshakes -> Nat \cup {ABSENT}]
        BY <2>2, AccessAssumption DEF TableInv, AccountTables
      <3>5. QED
        BY <2>2, <3>2, <3>3, <3>4, Zenon DEF AtDesk, TableInv, AccountTables
    <2>3. QED
      BY <1>1, <2>1, <2>2, Zenon DEF BeginLogin
  <1>2. ASSUME NEW l \in LoginRow, AtDesk(b, l), UNCHANGED cookie,
               l.pc # "idle" => l.who \in Humans,
               l.pc = "start" => Admitted(l, deactivated[l.who]),
               handshake' \in [Handshakes -> Nat \cup {ABSENT}]
        PROVE  TableInv'
    <2>1. LoginTable'
      BY <1>2, LoginMoves, Zenon DEF AtDesk
    <2>2. SessionTable'
      BY <1>2, SessionsStay DEF AtDesk, TableInv, AccountTables
    <2>3. QED
      BY <1>2, <2>1, <2>2, Zenon DEF AtDesk, TableInv, AccountTables
  <1>3. CASE ACS(b)
    <2>1. PICK l \in {[login[b] EXCEPT !.pc = "consume"], NoLogin} : AtDesk(b, l)
      BY <1>3, Zenon DEF ACS
    <2>2. /\ l \in LoginRow /\ (l.pc # "idle" => l.who \in Humans) /\ l.pc # "start"
      BY <1>0, <1>3, <2>1, NoLoginRow, Zenon DEF LoginRow, ACS
    <2>3. QED
      BY <1>2, <1>3, <2>1, <2>2, Zenon DEF ACS, TableInv, AccountTables
  <1>4. CASE Forget(b)
    <2>1. PICK l : l = [login[b] EXCEPT !.pc = "verified"] /\ AtDesk(b, l)
      BY <1>4, Zenon DEF Forget
    <2>2. /\ l \in LoginRow /\ (l.pc # "idle" => l.who \in Humans) /\ l.pc # "start"
      BY <1>0, <1>4, <2>1, Zenon DEF LoginRow, Forget
    <2>3. handshake' \in [Handshakes -> Nat \cup {ABSENT}]
      BY <1>4, Zenon DEF Forget, TableInv, AccountTables
    <2>4. QED
      BY <1>2, <1>4, <2>1, <2>2, <2>3, Zenon DEF Forget
  <1>5. CASE CheckAccount(b)
    <2>1. PICK l \in {[login[b] EXCEPT !.pc = "start", !.seen = deactivated[login[b].who]], NoLogin} :
            AtDesk(b, l)
      BY <1>5, Zenon DEF CheckAccount
    <2>2. login[b].who \in Humans /\ deactivated[login[b].who] \in Nat
      BY <1>0, <1>5, Zenon DEF CheckAccount, TableInv, AccountTables
    <2>3. /\ l \in LoginRow /\ (l.pc # "idle" => l.who \in Humans)
          /\ l.pc = "start" => l.seen = deactivated[l.who]
      BY <1>0, <2>1, <2>2, NoLoginRow, Zenon DEF LoginRow
    <2>4. QED
      BY <1>2, <1>5, <2>1, <2>3, Zenon DEF CheckAccount, TableInv, AccountTables, Admitted
  <1>6. CASE CreateSession(b)
    <2>0. login[b].who \in Humans /\ login[b].pc = "start"
      BY <1>0, <1>6, Zenon DEF CreateSession
    <2>1. PICK t, c :
            /\ t \in Cookies
            /\ c = [owner |-> login[b].who, expires |-> SessionEnd,
                    seen |-> login[b].seen, raced |-> login[b].raced]
            /\ cookie' = [cookie EXCEPT ![t] = c]
      BY <1>6, Zenon DEF CreateSession
    <2>2. /\ hour' = hour /\ deactivated' = deactivated /\ handshake' = handshake
          /\ LoginAt(b, NoLogin) /\ enabled' = enabled /\ writer' = writer
      BY <1>6, Zenon DEF CreateSession, AtDesk
    <2>3. c \in CookieRow /\ c.expires <= hour + SessionTTL
      BY <1>0, <2>0, <2>1, AccessAssumption
         DEF CookieRow, LoginRow, SessionEnd, TableInv, AccountTables
    <2>4. Admitted(c, deactivated[c.owner])
      BY <2>0, <2>1, Zenon DEF Admitted, TableInv, LoginTable
    <2>5. SessionTable'
      <3>1. cookie' \in [Cookies -> CookieRow \cup {ABSENT}]
        BY <2>1, <2>3, Zenon DEF TableInv, SessionTable
      <3>2. \A u \in Cookies : cookie'[u] = c \/ cookie'[u] = cookie[u]
        BY <2>1, Zenon DEF TableInv, SessionTable
      <3>3. QED
        BY <2>2, <2>3, <2>4, <3>1, <3>2, Zenon DEF TableInv, SessionTable
    <2>6. LoginTable'
      BY <2>2, NoLoginRow, LoginMoves, Zenon
    <2>7. QED
      BY <2>2, <2>5, <2>6, Zenon DEF TableInv, AccountTables
  <1>7. CASE LoginFails(b)
    BY <1>2, <1>7, NoLoginRow, Zenon DEF LoginFails, TableInv, AccountTables
  <1>8. QED
    BY <1>1, <1>3, <1>4, <1>5, <1>6, <1>7, Zenon DEF LoginStep

(* The other steps on the tables. *)
LEMMA AccountStepTables ==
  ASSUME TableInv,
         \/ \E t \in Cookies : SignOut(t)
         \/ \E a \in Accounts : SetRoles(a) \/ \E on \in BOOLEAN : SetEnabled(a, on)
         \/ \E p \in Humans : Deactivate(p)
         \/ HourPasses \/ SweepExpired
  PROVE  TableInv'
  <1>0. ASSUME UNCHANGED <<login, deactivated>> PROVE LoginTable'
    BY <1>0, Zenon DEF TableInv, LoginTable
  <1>1. ASSUME NEW t \in Cookies, SignOut(t) PROVE TableInv'
    <2>1. SessionTable'
      BY <1>1, SessionsGo, Zenon DEF SignOut, TableInv, SessionTable
    <2>2. QED
      BY <1>0, <1>1, <2>1, Zenon DEF SignOut, TableInv, AccountTables
  <1>2. ASSUME NEW a \in Accounts, SetRoles(a) PROVE TableInv'
    <2>1. SessionTable'
      BY <1>2, SessionsStay DEF SetRoles, TableInv, AccountTables
    <2>2. writer' \in [Accounts -> BOOLEAN]
      BY <1>2, Zenon DEF SetRoles, TableInv, AccountTables
    <2>3. QED
      BY <1>0, <1>2, <2>1, <2>2, Zenon DEF SetRoles, TableInv, AccountTables
  <1>3. ASSUME NEW a \in Accounts, NEW on \in BOOLEAN, SetEnabled(a, on) PROVE TableInv'
    <2>1. SessionTable'
      BY <1>3, SessionsStay DEF SetEnabled, TableInv, AccountTables
    <2>2. enabled' \in [Accounts -> BOOLEAN]
      BY <1>3, Zenon DEF SetEnabled, TableInv, AccountTables
    <2>3. QED
      BY <1>0, <1>3, <2>1, <2>2, Zenon DEF SetEnabled, TableInv, AccountTables
  <1>4. ASSUME NEW p \in Humans, Deactivate(p) PROVE TableInv'
    <2>1. /\ deactivated' \in [Humans -> Nat]
          /\ \A q \in Humans \ {p} : deactivated'[q] = deactivated[q]
      BY <1>4 DEF Deactivate, TableInv, AccountTables
    <2>2. enabled' \in [Accounts -> BOOLEAN] /\ hour' = hour /\ writer' = writer /\ handshake' = handshake
      BY <1>4, Zenon DEF Deactivate, TableInv, AccountTables, Accounts
    <2>3. SessionTable'
      <3>1. cookie' = [t \in Cookies |-> IF cookie[t] # ABSENT /\ cookie[t].owner = p
                                         THEN ABSENT ELSE cookie[t]]
        BY <1>4, Zenon DEF Deactivate, WithoutSessions
      <3>2. ASSUME NEW t \in Cookies, cookie'[t] # ABSENT
            PROVE  cookie'[t] = cookie[t] /\ cookie[t].owner # p
        BY <3>1, <3>2, Zenon
      <3>3. cookie' \in [Cookies -> CookieRow \cup {ABSENT}]
        BY <3>1, Zenon DEF TableInv, SessionTable
      <3>4. ASSUME NEW t \in Cookies, cookie'[t] # ABSENT
            PROVE  /\ cookie'[t] \in CookieRow
                   /\ cookie'[t].expires <= hour' + SessionTTL
                   /\ Admitted(cookie'[t], deactivated'[cookie'[t].owner])
        <4>1. /\ cookie[t] \in CookieRow /\ cookie[t].expires <= hour + SessionTTL
              /\ Admitted(cookie[t], deactivated[cookie[t].owner])
          BY <3>2, <3>4, Zenon DEF TableInv, SessionTable
        <4>2. cookie[t].owner \in Humans
          BY <4>1, Zenon DEF CookieRow
        <4>3. QED
          BY <2>1, <2>2, <3>2, <3>4, <4>1, <4>2, Zenon
      <3>5. QED
        BY <3>3, <3>4, Zenon DEF SessionTable
    <2>4. LoginTable'
      <3>1. login' = [b \in Browsers |-> IF login[b].pc = "start" /\ login[b].who = p
                                         THEN [login[b] EXCEPT !.raced = TRUE] ELSE login[b]]
        BY <1>4, Zenon DEF Deactivate
      <3>2. ASSUME NEW b \in Browsers
            PROVE  /\ login'[b] \in LoginRow
                   /\ login'[b].pc # "idle" => login'[b].who \in Humans
                   /\ login'[b].pc = "start" => Admitted(login'[b], deactivated'[login'[b].who])
        <4>0. /\ login[b] \in LoginRow
              /\ login[b].pc # "idle" => login[b].who \in Humans
              /\ login[b].pc = "start" => Admitted(login[b], deactivated[login[b].who])
          BY Zenon DEF TableInv, LoginTable
        <4>1. CASE login[b].pc = "start" /\ login[b].who = p
          <5>1. login'[b] = [login[b] EXCEPT !.raced = TRUE]
            BY <3>1, <4>1, Zenon
          <5>2. QED
            BY <4>0, <4>1, <5>1, Zenon DEF LoginRow, Admitted
        <4>2. CASE ~(login[b].pc = "start" /\ login[b].who = p)
          <5>1. login'[b] = login[b]
            BY <3>1, <4>2, Zenon
          <5>2. QED
            BY <2>1, <4>0, <4>2, <5>1, Zenon
        <4>3. QED
          BY <4>1, <4>2, Zenon
      <3>3. login' \in [Browsers -> LoginRow]
        BY <3>1, <3>2, Zenon
      <3>4. QED
        BY <3>2, <3>3, Zenon DEF LoginTable
    <2>5. QED
      BY <2>1, <2>2, <2>3, <2>4, Zenon DEF TableInv, AccountTables
  <1>5. CASE HourPasses
    <2>1. SessionTable'
      BY <1>5, SessionsStay DEF HourPasses, TableInv, AccountTables
    <2>2. QED
      BY <1>0, <1>5, <2>1 DEF HourPasses, TableInv, AccountTables
  <1>6. CASE SweepExpired
    <2>1. /\ cookie' = SweptCookies \/ cookie' = cookie
          /\ handshake' = SweptHandshakes \/ handshake' = handshake
          /\ UNCHANGED <<hour, enabled, writer, deactivated, login>>
      BY <1>6, Zenon DEF SweepExpired
    <2>2. SessionTable'
      BY <2>1, SessionsGo, Zenon DEF SweptCookies, TableInv, SessionTable
    <2>3. handshake' \in [Handshakes -> Nat \cup {ABSENT}]
      BY <2>1, Zenon DEF SweptHandshakes, TableInv, AccountTables
    <2>4. QED
      BY <1>0, <2>1, <2>2, <2>3, Zenon DEF TableInv, AccountTables
  <1>7. QED
    BY <1>1, <1>2, <1>3, <1>4, <1>5, <1>6, Zenon

(***************************************************************************)
(* The requests.                                                           *)
(***************************************************************************)
(* Past the authenticators, with nothing left that refuses it. *)
ToBeServed(r) == arrival[r].pc = "known" /\ arrival[r].may = TRUE /\ ~Forged(arrival[r])

(* What holds of a request between two of its steps. *)
RequestOK(r) ==
  /\ steady[r] \subseteq chances[r]
  /\ arrival[r].pc # "answered" => arrival[r].status = "none"
  /\ InFlight(arrival[r]) => steady[r] \subseteq Entitled(arrival[r])
  /\ ToBeServed(r) => chances[r] # {}
  /\ arrival[r].status = "served" => chances[r] # {}
  /\ arrival[r].status = "401" => steady[r] = {}

RequestInv == arrival \in [Arrivals -> ArrivalRow] /\ \A r \in Arrivals : RequestOK(r)

(* What the history variables record of a request. *)
LEMMA WatchLemma ==
  ASSUME Watch, NEW r \in Arrivals
  PROVE  /\ arrival'[r].pc = "idle" => chances'[r] = {} /\ steady'[r] = {}
         /\ InFlight(arrival'[r]) =>
              /\ chances'[r] = chances[r] \cup Entitled(arrival[r])'
              /\ steady'[r] = IF arrival[r].pc = "idle" THEN Entitled(arrival[r])'
                              ELSE steady[r] \cap Entitled(arrival[r])'
         /\ arrival'[r].pc = "answered" => chances'[r] = chances[r] /\ steady'[r] = steady[r]
  BY Zenon DEF Watch, InFlight

(* A request that does not move, whatever happens to the tables. *)
LEMMA RequestWaits ==
  ASSUME Watch, NEW r \in Arrivals, RequestOK(r), arrival'[r] = arrival[r],
         arrival[r] \in ArrivalRow
  PROVE  RequestOK(r)'
  <1>1. CASE arrival[r].pc = "idle"
    <2>1. chances'[r] = {} /\ steady'[r] = {} /\ arrival'[r].status = "none"
      BY <1>1, WatchLemma, Zenon DEF RequestOK
    <2>2. ~InFlight(arrival[r])' /\ ~ToBeServed(r)'
      BY <1>1, Zenon DEF InFlight, ToBeServed
    <2>3. QED
      BY <2>1, <2>2, Zenon DEF RequestOK
  <1>2. CASE InFlight(arrival[r])
    <2>1. /\ chances'[r] = chances[r] \cup Entitled(arrival[r])'
          /\ steady'[r] = steady[r] \cap Entitled(arrival[r])'
          /\ arrival[r].pc \in {"arrived", "known"}
      BY <1>2, WatchLemma, Zenon DEF InFlight
    <2>2. arrival'[r].status = "none"
      BY <2>1, Zenon DEF RequestOK
    <2>3. ToBeServed(r)' => ToBeServed(r)
      BY Zenon DEF ToBeServed
    <2>4. steady'[r] \subseteq chances'[r] /\ steady'[r] \subseteq Entitled(arrival[r])'
      BY <2>1, Zenon
    <2>5. ToBeServed(r)' => chances'[r] # {}
      BY <2>1, <2>3, Zenon DEF RequestOK
    <2>6. QED
      BY <2>2, <2>4, <2>5, Zenon DEF RequestOK
  <1>3. CASE arrival[r].pc = "answered"
    <2>1. chances'[r] = chances[r] /\ steady'[r] = steady[r]
      BY <1>3, WatchLemma, Zenon
    <2>2. ~InFlight(arrival[r])' /\ ~ToBeServed(r)'
      BY <1>3, Zenon DEF InFlight, ToBeServed
    <2>3. QED
      BY <1>3, <2>1, <2>2, Zenon DEF RequestOK
  <1>4. QED
    BY <1>1, <1>2, <1>3, Zenon DEF InFlight, ArrivalRow

(* Chain answers with the verdict of one authenticator that accepts or     *)
(* cannot tell, if there is one.                                           *)
LEMMA ChainLemma ==
  ASSUME NEW v1, NEW v2, NEW v3, NEW v, v = Chain(<<v1, v2, v3>>)
  PROVE  \/ v \in {v1, v2, v3} /\ v.reason \in {"ok", "unavailable"}
         \/ /\ v.reason \in {"invalid", "no credentials"}
            /\ \A w \in {v1, v2, v3} : w.reason \notin {"ok", "unavailable"}
  <1>1. PICK vs : vs = <<v1, v2, v3>>
    BY Zenon
  <1>2. DOMAIN vs = 1..3 /\ vs[1] = v1 /\ vs[2] = v2 /\ vs[3] = v3
    BY <1>1
  <1>3. PICK stops : stops = {n \in DOMAIN vs : vs[n].reason \in {"ok", "unavailable"}}
    BY Zenon
  <1>4. /\ stops # {} => v = vs[CHOOSE n \in stops : \A m \in stops : n <= m]
        /\ stops = {} => v \in {Says("invalid"), Says("no credentials")}
    BY <1>1, <1>3, Zenon DEF Chain
  <1>5. \A n : n \in stops <=> n \in {1, 2, 3} /\ vs[n].reason \in {"ok", "unavailable"}
    BY <1>2, <1>3
  <1>6. CASE stops # {}
    <2>1. \E n \in stops : \A m \in stops : n <= m
      <3>1. stops \subseteq {1, 2, 3}
        BY <1>5, Zenon
      <3>2. CASE 1 \in stops
        BY <3>1, <3>2
      <3>3. CASE 1 \notin stops /\ 2 \in stops
        BY <3>1, <3>3
      <3>4. CASE 1 \notin stops /\ 2 \notin stops
        <4>1. 3 \in stops /\ \A m \in stops : m = 3
          BY <1>6, <3>1, <3>4, Zenon
        <4>2. QED
          BY <4>1
      <3>5. QED
        BY <3>2, <3>3, <3>4, Zenon
    <2>2. PICK n : n = CHOOSE k \in stops : \A m \in stops : k <= m
      BY Zenon
    <2>3. n \in stops
      BY <2>1, <2>2, Zenon
    <2>4. v = vs[n]
      BY <1>4, <1>6, <2>2, Zenon
    <2>5. v.reason \in {"ok", "unavailable"} /\ n \in {1, 2, 3}
      BY <1>5, <2>3, <2>4, Zenon
    <2>6. QED
      BY <1>2, <2>4, <2>5, Zenon
  <1>7. CASE stops = {}
    <2>1. Says("invalid").reason = "invalid" /\ Says("no credentials").reason = "no credentials"
      BY Zenon DEF Says
    <2>2. v.reason \in {"invalid", "no credentials"}
      BY <1>4, <1>7, <2>1, Zenon
    <2>3. \A n \in {1, 2, 3} : vs[n].reason \notin {"ok", "unavailable"}
      BY <1>5, <1>7, Zenon
    <2>4. QED
      BY <1>2, <2>2, <2>3, Zenon
  <1>8. QED
    BY <1>6, <1>7, Zenon

(* A credential of the request that is good, and whose it is. *)
Found(q, who, session) ==
  \/ q.bearer \in StaticBearers /\ who = q.bearer /\ session = FALSE
  \/ q.bearer \in Keys /\ enabled[q.bearer] /\ who = q.bearer /\ session = FALSE
  \/ q.cookie \in Cookies /\ GoodSession(q.cookie) /\ who = cookie[q.cookie].owner /\ session = TRUE

(* What an authenticator that accepts has found. *)
LEMMA Accepted ==
  ASSUME NEW q \in ArrivalRow, NEW down1 \in BOOLEAN, NEW down2 \in BOOLEAN, NEW v,
         v = StaticVerdict(q) \/ v = KeyVerdict(q, down1) \/ v = SessionVerdict(q, down2),
         v.reason = "ok"
  PROVE  Found(q, v.who, v.session)
  <1>0. q.bearer \in Bearers \cup {ABSENT} /\ q.cookie \in Cookies \cup {ABSENT}
    BY Zenon DEF ArrivalRow
  <1>1. CASE v = StaticVerdict(q)
    BY <1>0, <1>1, Zenon DEF StaticVerdict, Says, Accepts, Found
  <1>2. CASE v = KeyVerdict(q, down1)
    <2>1. CASE q.bearer \notin Keys
      BY <1>2, <2>1, Zenon DEF KeyVerdict, Says
    <2>2. CASE q.bearer \in Keys /\ down1
      BY <1>2, <2>2, Zenon DEF KeyVerdict, Says
    <2>3. CASE q.bearer \in Keys /\ ~down1
      <3>1. v = IF enabled[q.bearer] THEN Accepts(q.bearer, FALSE) ELSE Says("invalid")
        BY <1>2, <2>3, Zenon DEF KeyVerdict
      <3>2. QED
        BY <2>3, <3>1, Zenon DEF Says, Accepts, Found
    <2>4. QED
      BY <2>1, <2>2, <2>3, Zenon
  <1>3. CASE v = SessionVerdict(q, down2)
    <2>1. CASE q.cookie = ABSENT
      BY <1>3, <2>1, Zenon DEF SessionVerdict, Says
    <2>2. CASE q.cookie # ABSENT /\ down2
      BY <1>3, <2>2, Zenon DEF SessionVerdict, Says
    <2>3. CASE q.cookie # ABSENT /\ ~down2
      <3>1. v = IF GoodSession(q.cookie) THEN Accepts(cookie[q.cookie].owner, TRUE) ELSE Says("invalid")
        BY <1>3, <2>3, Zenon DEF SessionVerdict
      <3>2. QED
        BY <1>0, <2>3, <3>1, Zenon DEF Says, Accepts, Found
    <2>4. QED
      BY <2>1, <2>2, <2>3, Zenon
  <1>4. QED
    BY <1>1, <1>2, <1>3, Zenon

(* A good credential is accepted by its authenticator, or that one cannot  *)
(* tell.                                                                   *)
LEMMA GoodIsNotRejected ==
  ASSUME NEW q \in ArrivalRow, NEW down1 \in BOOLEAN, NEW down2 \in BOOLEAN, Entitled(q) # {}
  PROVE  \E w \in {StaticVerdict(q), KeyVerdict(q, down1), SessionVerdict(q, down2)} :
           w.reason \in {"ok", "unavailable"}
  <1>0. q.bearer \in Bearers \cup {ABSENT} /\ q.cookie \in Cookies \cup {ABSENT}
    BY Zenon DEF ArrivalRow
  <1>1. PICK x : x \in Entitled(q)
    BY Zenon
  <1>2. \/ q.bearer \in StaticBearers
        \/ q.bearer \in Keys /\ enabled[q.bearer]
        \/ q.cookie \in Cookies /\ GoodSession(q.cookie)
    <2>1. /\ x \in {q.bearer, q.cookie} /\ x # ABSENT
          /\ \/ x \in StaticBearers
             \/ x \in Keys /\ enabled[x]
             \/ x \in Cookies /\ GoodSession(x)
      BY <1>1, Zenon DEF Entitled, GoodSession
    <2>2. QED
      BY <1>0, <2>1, AccessAssumption DEF Bearers
  <1>3. CASE q.bearer \in StaticBearers
    <2>1. StaticVerdict(q) = Accepts(q.bearer, FALSE)
      BY <1>3, AccessAssumption, Zenon DEF StaticVerdict
    <2>2. QED
      BY <2>1 DEF Accepts
  <1>4. CASE q.bearer \in Keys /\ enabled[q.bearer]
    <2>1. KeyVerdict(q, down1) \in {Says("unavailable"), Accepts(q.bearer, FALSE)}
      BY <1>4, Zenon DEF KeyVerdict
    <2>2. QED
      BY <2>1 DEF Says, Accepts
  <1>5. CASE q.cookie \in Cookies /\ GoodSession(q.cookie)
    <2>0. q.cookie # ABSENT
      BY <1>5, AccessAssumption, Zenon
    <2>1. SessionVerdict(q, down2) \in {Says("unavailable"), Accepts(cookie[q.cookie].owner, TRUE)}
      BY <1>5, <2>0, Zenon DEF SessionVerdict
    <2>2. QED
      BY <2>1 DEF Says, Accepts
  <1>6. QED
    BY <1>2, <1>3, <1>4, <1>5, Zenon

(* What a request is entitled to depends on what it carries and on the     *)
(* tables only.                                                            *)
LEMMA SameCredentials ==
  ASSUME UNCHANGED <<hour, enabled, writer, cookie>>, NEW q, NEW n,
         n.bearer = q.bearer, n.cookie = q.cookie, n.write = q.write, n.echo = q.echo,
         NEW r \in Arrivals, arrival'[r] = n
  PROVE  Entitled(arrival[r])' = Entitled(q)
  BY Zenon DEF Entitled

(* A request that arrives. *)
LEMMA ArriveOK ==
  ASSUME RequestInv, Watch, NEW r \in Arrivals, NEW b \in Bearers \cup {ABSENT},
         NEW t \in Cookies \cup {ABSENT}, NEW write \in BOOLEAN, NEW echo \in BOOLEAN,
         Arrive(r, b, t, write, echo)
  PROVE  arrival'[r] \in ArrivalRow /\ RequestOK(r)'
  <1>1. PICK n : /\ n = [NoArrival EXCEPT !.pc = "arrived", !.bearer = b, !.cookie = t,
                                          !.write = write, !.echo = echo]
                 /\ arrival' = [arrival EXCEPT ![r] = n]
    BY Zenon DEF Arrive
  <1>2. arrival'[r] = n /\ arrival[r].pc = "idle"
    BY <1>1, Zenon DEF RequestInv, Arrive
  <1>3. n \in ArrivalRow /\ n.pc = "arrived" /\ n.status = "none"
    BY <1>1, Zenon DEF NoArrival, ArrivalRow
  <1>4. InFlight(arrival'[r]) /\ ~ToBeServed(r)'
    BY <1>2, <1>3, Zenon DEF InFlight, ToBeServed
  <1>5. chances'[r] = chances[r] \cup Entitled(arrival[r])' /\ steady'[r] = Entitled(arrival[r])'
    BY <1>2, <1>4, WatchLemma, Zenon
  <1>6. QED
    BY <1>2, <1>3, <1>4, <1>5, Zenon DEF RequestOK

(* A request that the handler answers. *)
LEMMA HandleOK ==
  ASSUME RequestInv, Watch, NEW r \in Arrivals, Handle(r)
  PROVE  arrival'[r] \in ArrivalRow /\ RequestOK(r)'
  <1>0. arrival[r] \in ArrivalRow /\ RequestOK(r) /\ arrival[r].pc = "known"
    BY Zenon DEF RequestInv, Handle
  <1>1. PICK s, n : /\ s = IF Forged(arrival[r]) \/ ~arrival[r].may THEN "403" ELSE "served"
                    /\ n = Answers(arrival[r], s)
                    /\ arrival' = [arrival EXCEPT ![r] = n]
    BY Zenon DEF Handle
  <1>2. arrival'[r] = n
    BY <1>1, Zenon DEF RequestInv
  <1>3. s \in {"403", "served"} /\ (s = "served" => ToBeServed(r))
    BY <1>0, <1>1, Zenon DEF ToBeServed, ArrivalRow
  <1>4. n \in ArrivalRow /\ n.pc = "answered" /\ n.status = s
    BY <1>0, <1>1, <1>3, ZenonT(60) DEF Answers, ArrivalRow
  <1>5. chances'[r] = chances[r] /\ steady'[r] = steady[r]
    BY <1>2, <1>4, WatchLemma, Zenon
  <1>6. ~InFlight(arrival[r])' /\ ~ToBeServed(r)'
    BY <1>2, <1>4, Zenon DEF InFlight, ToBeServed
  <1>7. s = "served" => chances[r] # {}
    BY <1>0, <1>3, Zenon DEF RequestOK
  <1>8. steady[r] \subseteq chances[r]
    BY <1>0, Zenon DEF RequestOK
  <1>9. QED
    BY <1>2, <1>3, <1>4, <1>5, <1>6, <1>7, <1>8, Zenon DEF RequestOK

(* A request that is over. *)
LEMMA LeaveOK ==
  ASSUME RequestInv, Watch, NEW r \in Arrivals, Leave(r)
  PROVE  arrival'[r] \in ArrivalRow /\ RequestOK(r)'
  <1>1. arrival'[r] = NoArrival
    BY Zenon DEF RequestInv, Leave
  <1>2. NoArrival \in ArrivalRow /\ NoArrival.pc = "idle" /\ NoArrival.status = "none"
    BY Zenon DEF NoArrival, ArrivalRow
  <1>3. chances'[r] = {} /\ steady'[r] = {}
    BY <1>1, <1>2, WatchLemma, Zenon
  <1>4. ~InFlight(arrival[r])' /\ ~ToBeServed(r)'
    BY <1>1, <1>2, Zenon DEF InFlight, ToBeServed
  <1>5. QED
    BY <1>1, <1>2, <1>3, <1>4, Zenon DEF RequestOK

(* A credential that was found good, of a request that may do what it asks *)
(* and that the CSRF check lets pass, is one it is entitled to.            *)
LEMMA FoundGood ==
  ASSUME TableInv, NEW q \in ArrivalRow, NEW who, NEW session,
         Found(q, who, session),
         ~q.write \/ who \in StaticBearers \/ writer[who],
         ~(q.write /\ session /\ ~q.echo)
  PROVE  Entitled(q) # {}
  <1>1. CASE q.bearer \in StaticBearers /\ who = q.bearer /\ session = FALSE
    <2>1. q.bearer # ABSENT
      BY <1>1, AccessAssumption, Zenon
    <2>2. q.bearer \in Entitled(q)
      BY <1>1, <2>1, Zenon DEF Entitled
    <2>3. QED
      BY <2>2, Zenon
  <1>2. CASE q.bearer \in Keys /\ enabled[q.bearer] /\ who = q.bearer /\ session = FALSE
    <2>1. q.bearer # ABSENT
      BY <1>2, AccessAssumption, Zenon
    <2>2. q.bearer \in StaticBearers \/ (q.write => writer[q.bearer])
      BY <1>2, Zenon
    <2>3. q.bearer \in Entitled(q)
      BY <1>2, <2>1, <2>2, Zenon DEF Entitled
    <2>4. QED
      BY <2>3, Zenon
  <1>3. CASE q.cookie \in Cookies /\ GoodSession(q.cookie) /\ who = cookie[q.cookie].owner /\ session = TRUE
    <2>1. q.cookie # ABSENT
      BY <1>3, AccessAssumption, Zenon
    <2>2. who \in Humans
      BY <1>3, Zenon DEF GoodSession, TableInv, SessionTable, CookieRow
    <2>3. who \notin StaticBearers
      BY <2>2, AccessAssumption, Zenon
    <2>4. q.write => writer[cookie[q.cookie].owner] /\ q.echo
      BY <1>3, <2>3, Zenon
    <2>5. q.cookie \in Entitled(q)
      BY <1>3, <2>1, <2>4, Zenon DEF Entitled, GoodSession
    <2>6. QED
      BY <2>5, Zenon
  <1>4. QED
    BY <1>1, <1>2, <1>3, Zenon DEF Found

(* The chain of authenticators, for one request. *)
LEMMA AuthenticateOK ==
  ASSUME TableInv, RequestInv, Watch, NEW r \in Arrivals, Authenticate(r)
  PROVE  arrival'[r] \in ArrivalRow /\ RequestOK(r)'
  <1>0. PICK q : q = arrival[r]
    BY Zenon
  <1>1. q \in ArrivalRow /\ q.pc = "arrived" /\ q.status = "none"
    BY <1>0, Zenon DEF RequestInv, RequestOK, Authenticate
  <1>2. steady[r] \subseteq Entitled(q) /\ steady[r] \subseteq chances[r]
    BY <1>0, <1>1, Zenon DEF RequestInv, RequestOK, InFlight
  <1>a. PICK down1 \in BOOLEAN, down2 \in BOOLEAN : \E v, n :
          /\ v = Chain(<<StaticVerdict(q), KeyVerdict(q, down1), SessionVerdict(q, down2)>>)
          /\ n = IF v.reason = "ok"
                 THEN [q EXCEPT !.pc = "known", !.who = v.who, !.session = v.session,
                                !.may = ~q.write \/ v.who \in StaticBearers \/ writer[v.who]]
                 ELSE Answers(q, Status(v.reason))
          /\ arrival' = [arrival EXCEPT ![r] = n]
    BY <1>0, ZenonT(60) DEF Authenticate
  <1>3. PICK v, n :
          /\ v = Chain(<<StaticVerdict(q), KeyVerdict(q, down1), SessionVerdict(q, down2)>>)
          /\ n = IF v.reason = "ok"
                 THEN [q EXCEPT !.pc = "known", !.who = v.who, !.session = v.session,
                                !.may = ~q.write \/ v.who \in StaticBearers \/ writer[v.who]]
                 ELSE Answers(q, Status(v.reason))
          /\ arrival' = [arrival EXCEPT ![r] = n]
    BY <1>a, Zenon
  <1>4. arrival'[r] = n
    BY <1>3, Zenon DEF RequestInv
  <1>5. UNCHANGED <<hour, enabled, writer, cookie>>
    BY Zenon DEF Authenticate
  <1>6. PICK v1, v2, v3 : v1 = StaticVerdict(q) /\ v2 = KeyVerdict(q, down1) /\ v3 = SessionVerdict(q, down2)
    BY Zenon
  <1>7. v = Chain(<<v1, v2, v3>>)
    BY <1>3, <1>6, Zenon
  <1>8. \/ v \in {v1, v2, v3} /\ v.reason \in {"ok", "unavailable"}
        \/ /\ v.reason \in {"invalid", "no credentials"}
           /\ \A w \in {v1, v2, v3} : w.reason \notin {"ok", "unavailable"}
    BY <1>7, ChainLemma, ZenonT(60)
  <1>9. CASE v.reason = "ok"
    <2>0. v \in {v1, v2, v3}
      BY <1>9, <1>8, Zenon
    <2>1. v = StaticVerdict(q) \/ v = KeyVerdict(q, down1) \/ v = SessionVerdict(q, down2)
      BY <1>6, <2>0, Zenon
    <2>2. Found(q, v.who, v.session)
      BY <1>1, <1>9, <2>1, Accepted, Zenon
    <2>3. v.who \in Accounts \cup Bearers /\ v.session \in BOOLEAN
      BY <2>2, Zenon DEF Found, Accounts, Bearers, GoodSession, TableInv, SessionTable, CookieRow
    <2>4. PICK may \in BOOLEAN : may = (~q.write \/ v.who \in StaticBearers \/ writer[v.who])
      BY Zenon
    <2>5. n = [q EXCEPT !.pc = "known", !.who = v.who, !.session = v.session, !.may = may]
      BY <1>3, <1>9, <2>4, Zenon
    <2>6. /\ n \in ArrivalRow /\ n.pc = "known" /\ n.status = "none"
          /\ n.may = may /\ n.session = v.session
          /\ n.bearer = q.bearer /\ n.cookie = q.cookie /\ n.write = q.write /\ n.echo = q.echo
      BY <1>1, <2>3, <2>5, Zenon DEF ArrivalRow
    <2>7. Entitled(arrival[r])' = Entitled(q)
      BY <1>4, <1>5, <2>6, SameCredentials, Zenon
    <2>8. /\ chances'[r] = chances[r] \cup Entitled(q)
          /\ steady'[r] = steady[r] \cap Entitled(q)
      BY <1>0, <1>1, <1>4, <2>6, <2>7, WatchLemma, Zenon DEF InFlight
    <2>9. ToBeServed(r)' => Entitled(q) # {}
      <3>1. SUFFICES ASSUME n.may = TRUE, ~Forged(n)
                     PROVE  Entitled(q) # {}
        BY <1>4, Zenon DEF ToBeServed, Forged
      <3>2. ~q.write \/ v.who \in StaticBearers \/ writer[v.who]
        BY <2>4, <2>6, <3>1, Zenon
      <3>3. ~(q.write /\ v.session /\ ~q.echo)
        BY <2>6, <3>1, Zenon DEF Forged
      <3>4. QED
        BY <1>1, <2>2, <3>2, <3>3, FoundGood, Zenon
    <2>10. QED
      BY <1>2, <1>4, <2>6, <2>7, <2>8, <2>9, Zenon DEF RequestOK
  <1>10. CASE v.reason # "ok"
    <2>1. PICK s : s = Status(v.reason) /\ n = Answers(q, s)
      BY <1>3, <1>10, Zenon
    <2>2. s \in {"503", "401"} /\ (s = "401" => v.reason # "unavailable")
      BY <2>1, Zenon DEF Status
    <2>3. n \in ArrivalRow /\ n.pc = "answered" /\ n.status = s
      BY <1>1, <2>1, <2>2, Zenon DEF Answers, ArrivalRow
    <2>4. s = "401" => Entitled(q) = {}
      <3>1. SUFFICES ASSUME v.reason \notin {"ok", "unavailable"}, Entitled(q) # {}
                     PROVE  FALSE
        BY <1>10, <2>2, Zenon
      <3>2. \A w \in {StaticVerdict(q), KeyVerdict(q, down1), SessionVerdict(q, down2)} :
              w.reason \notin {"ok", "unavailable"}
        <4>1. \A w \in {v1, v2, v3} : w.reason \notin {"ok", "unavailable"}
          BY <1>8, <3>1, Zenon
        <4>2. QED
          BY <1>6, <4>1, Zenon
      <3>3. QED
        BY <1>1, <3>1, <3>2, GoodIsNotRejected, Zenon
    <2>5. chances'[r] = chances[r] /\ steady'[r] = steady[r]
      BY <1>4, <2>3, WatchLemma, Zenon
    <2>6. ~InFlight(arrival[r])' /\ ~ToBeServed(r)'
      BY <1>4, <2>3, Zenon DEF InFlight, ToBeServed
    <2>7. QED
      BY <1>2, <1>4, <2>2, <2>3, <2>4, <2>5, <2>6, Zenon DEF RequestOK
  <1>11. QED
    BY <1>9, <1>10, Zenon

(***************************************************************************)
(* The invariant and the theorems.                                         *)
(***************************************************************************)
AccessInv == TableInv /\ RequestInv

(* One request moves and the others wait. *)
LEMMA RequestMoves ==
  ASSUME RequestInv, Watch, NEW r \in Arrivals, NEW n, arrival' = [arrival EXCEPT ![r] = n],
         arrival'[r] \in ArrivalRow /\ RequestOK(r)'
  PROVE  RequestInv'
  <1>1. ASSUME NEW x \in Arrivals PROVE arrival'[x] \in ArrivalRow /\ RequestOK(x)'
    <2>1. CASE x = r
      BY <2>1, Zenon
    <2>2. CASE x # r
      <3>1. arrival'[x] = arrival[x] /\ arrival[x] \in ArrivalRow /\ RequestOK(x)
        BY <2>2, Zenon DEF RequestInv
      <3>2. QED
        BY <3>1, RequestWaits, Zenon
    <2>3. QED
      BY <2>1, <2>2, Zenon
  <1>2. arrival' \in [Arrivals -> ArrivalRow]
    BY <1>1, Zenon DEF RequestInv
  <1>3. QED
    BY <1>1, <1>2, Zenon DEF RequestInv

(* The tables do not notice a request. *)
LEMMA TablesStay ==
  ASSUME TableInv, UNCHANGED <<hour, enabled, writer, cookie, handshake, deactivated, login>>
  PROVE  TableInv'
  BY Zenon DEF TableInv, AccountTables, SessionTable, LoginTable

(* At the start nobody is logged in and nothing has arrived. *)
LEMMA AccessInvInit == AccessInit => AccessInv
  <1> SUFFICES ASSUME AccessInit PROVE AccessInv
    BY Zenon
  <1>1. TableInv
    <2>1. AccountTables
      BY Zenon DEF AccessInit, AccountTables
    <2>2. SessionTable
      BY Zenon DEF AccessInit, SessionTable
    <2>3. LoginTable
      BY NoLoginRow, Zenon DEF AccessInit, LoginTable
    <2>4. QED
      BY <2>1, <2>2, <2>3, Zenon DEF TableInv
  <1>2. NoArrival \in ArrivalRow /\ NoArrival.pc = "idle" /\ NoArrival.status = "none"
    BY Zenon DEF NoArrival, ArrivalRow
  <1>3. arrival \in [Arrivals -> ArrivalRow]
    BY <1>2, Zenon DEF AccessInit
  <1>4. ASSUME NEW r \in Arrivals PROVE RequestOK(r)
    <2>1. arrival[r] = NoArrival /\ chances[r] = {} /\ steady[r] = {}
      BY Zenon DEF AccessInit
    <2>2. QED
      BY <1>2, <2>1, Zenon DEF RequestOK, InFlight, ToBeServed
  <1>5. QED
    BY <1>1, <1>3, <1>4, Zenon DEF AccessInv, RequestInv

(* Every step keeps the invariant: the tables by the lemmas above, the     *)
(* request that moves by the lemma of its step, the others by waiting.     *)
LEMMA AccessInvStep == AccessInv /\ AccessNext => AccessInv'
  <1> SUFFICES ASSUME AccessInv, AccessStep, Watch PROVE AccessInv'
    BY Zenon DEF AccessNext
  <1>0. TableInv /\ RequestInv
    BY Zenon DEF AccessInv
  <1>1. ASSUME UNCHANGED arrival PROVE RequestInv'
    <2>1. ASSUME NEW r \in Arrivals PROVE RequestOK(r)'
      <3>1. arrival'[r] = arrival[r] /\ arrival[r] \in ArrivalRow /\ RequestOK(r)
        BY <1>0, <1>1, Zenon DEF RequestInv
      <3>2. QED
        BY <3>1, RequestWaits, Zenon
    <2>2. QED
      BY <1>0, <1>1, <2>1, Zenon DEF RequestInv
  <1>2. ASSUME NEW b \in Browsers, LoginStep(b) \/ \E p \in Humans : BeginLogin(b, p)
        PROVE  AccessInv'
    <2>1. UNCHANGED arrival
      BY <1>2, Zenon
         DEF LoginStep, BeginLogin, ACS, Forget, CheckAccount, CreateSession, LoginFails, AtDesk
    <2>2. QED
      BY <1>0, <1>1, <1>2, <2>1, LoginStepTables, Zenon DEF AccessInv
  <1>3. ASSUME \/ \E t \in Cookies : SignOut(t)
               \/ \E a \in Accounts : SetRoles(a) \/ \E on \in BOOLEAN : SetEnabled(a, on)
               \/ \E p \in Humans : Deactivate(p)
               \/ HourPasses \/ SweepExpired
        PROVE  AccessInv'
    <2>1. UNCHANGED arrival
      BY <1>3, Zenon DEF SignOut, SetRoles, SetEnabled, Deactivate, HourPasses, SweepExpired
    <2>2. QED
      BY <1>0, <1>1, <1>3, <2>1, AccountStepTables, Zenon DEF AccessInv
  <1>4. ASSUME NEW r \in Arrivals, Authenticate(r) PROVE AccessInv'
    <2>1. arrival'[r] \in ArrivalRow /\ RequestOK(r)'
      BY <1>0, <1>4, AuthenticateOK, Zenon
    <2>2. \E n : arrival' = [arrival EXCEPT ![r] = n]
      BY <1>4, Zenon DEF Authenticate
    <2>3. RequestInv'
      BY <1>0, <2>1, <2>2, RequestMoves, Zenon
    <2>4. TableInv'
      BY <1>0, <1>4, TablesStay, Zenon DEF Authenticate
    <2>5. QED
      BY <2>3, <2>4, Zenon DEF AccessInv
  <1>5. ASSUME NEW r \in Arrivals,
               \/ Handle(r) \/ Leave(r)
               \/ \E b \in Bearers \cup {ABSENT}, t \in Cookies \cup {ABSENT}, write, echo \in BOOLEAN :
                    Arrive(r, b, t, write, echo)
        PROVE  AccessInv'
    <2>1. arrival'[r] \in ArrivalRow /\ RequestOK(r)'
      BY <1>0, <1>5, HandleOK, LeaveOK, ArriveOK, Zenon
    <2>2. \E n : arrival' = [arrival EXCEPT ![r] = n]
      BY <1>5, Zenon DEF Handle, Leave, Arrive
    <2>3. RequestInv'
      BY <1>0, <2>1, <2>2, RequestMoves, Zenon
    <2>4. TableInv'
      BY <1>0, <1>5, TablesStay, Zenon DEF Handle, Leave, Arrive, accessTables
    <2>5. QED
      BY <2>3, <2>4, Zenon DEF AccessInv
  <1>6. QED
    BY <1>2, <1>3, <1>4, <1>5, Zenon DEF AccessStep, RequestStep

(* And so does a step of something else. *)
LEMMA AccessInvStutter == AccessInv /\ UNCHANGED accessVars => AccessInv'
  <1> SUFFICES ASSUME AccessInv, UNCHANGED accessVars PROVE AccessInv'
    BY Zenon
  <1>1. TableInv'
    BY TablesStay, Zenon DEF AccessInv, accessVars, accessTables
  <1>2. UNCHANGED <<hour, enabled, writer, cookie, arrival, chances, steady>>
    BY Zenon DEF accessVars, accessTables
  <1>3. ASSUME NEW r \in Arrivals PROVE RequestOK(r)'
    <2>1. RequestOK(r)
      BY Zenon DEF AccessInv, RequestInv
    <2>2. QED
      BY <1>2, <2>1, Zenon DEF RequestOK, InFlight, Entitled, ToBeServed, Forged
  <1>4. QED
    BY <1>1, <1>2, <1>3, Zenon DEF AccessInv, RequestInv

(* The invariant holds throughout. *)
LEMMA AccessInvHolds == AccessSpec => []AccessInv
  <1>1. AccessInv /\ [AccessNext]_accessVars => AccessInv'
    BY AccessInvStep, AccessInvStutter, Zenon
  <1>2. QED
    BY AccessInvInit, <1>1, PTL DEF AccessSpec

(* Whatever is revoked, expires or fails while a request is on its way, a  *)
(* request is served only if one of its credentials was good for it at     *)
(* some moment since it arrived, and one that carried a good credential    *)
(* all along is not answered 401: for every number of requests, people,    *)
(* keys and tokens, and every lifetime of a session.                       *)
THEOREM RequestsRightlyAnswered == AccessSpec => []RightlyAnswered
  <1>1. AccessInv => RightlyAnswered
    <2> SUFFICES ASSUME AccessInv PROVE RightlyAnswered
      BY Zenon
    <2>1. ASSUME NEW t \in Cookies, cookie[t] # ABSENT
          PROVE  cookie[t].owner \in Humans /\ cookie[t].expires <= hour + SessionTTL
      BY <2>1, Zenon DEF AccessInv, TableInv, SessionTable, CookieRow
    <2>2. ASSUME NEW r \in Arrivals
          PROVE  /\ steady[r] \subseteq chances[r]
                 /\ arrival[r].status = "served" => chances[r] # {}
                 /\ arrival[r].status = "401" => steady[r] = {}
      BY Zenon DEF AccessInv, RequestInv, RequestOK
    <2>3. AccessTypeOK
      BY <2>1, <2>2, Zenon DEF AccessTypeOK, AccessInv, TableInv, AccountTables
    <2>4. QED
      BY <2>2, <2>3, Zenon DEF RightlyAnswered, ServedWhileEntitled, NotShadowed
  <1>2. QED
    BY AccessInvHolds, <1>1, PTL

(* A session that is there was admitted since its owner's last             *)
(* deactivation, or was being recorded while that happened: a deactivation *)
(* leaves no older session behind for a later enable to restore.           *)
THEOREM SessionsEndWithDeactivation == AccessSpec => []DeactivationSticks
  <1>1. AccessInv => DeactivationSticks
    <2> SUFFICES ASSUME AccessInv, NEW t \in Cookies, cookie[t] # ABSENT
                 PROVE  cookie[t].seen = deactivated[cookie[t].owner] \/ cookie[t].raced
      BY Zenon DEF DeactivationSticks
    <2>1. Admitted(cookie[t], deactivated[cookie[t].owner])
      BY Zenon DEF AccessInv, TableInv, SessionTable
    <2>2. QED
      BY <2>1, Zenon DEF Admitted
  <1>2. QED
    BY AccessInvHolds, <1>1, PTL
=============================================================================
