---------------------------- MODULE ServicesProofs ----------------------------
(***************************************************************************)
(* Proofs about three services that share no state: the cache of test      *)
(* statistics (CacheSound), the import of test packages (ImportedWhole)    *)
(* and the ingestion of evidence, which implements EvidenceLog.            *)
(***************************************************************************)
EXTENDS StatsCache, PackageImport, Ingest, FiniteSetTheorems, TLAPS

(***************************************************************************)
(* CacheSound for every number of requests, filters and entries, every     *)
(* lifetime of an entry and every query budget.                            *)
(***************************************************************************)
StatsRequest ==
  [pc: {"idle", "miss", "result", "held"}, filter: Filters, began: Nat,
   rows: Queries \cup {NOENTRY}]

(* The variables' types; an entry's rows are in its own array. *)
StatsTypes ==
  /\ clock \in 0..MaxClock /\ state \in 0..MaxState
  /\ changed \in [0..MaxState -> Nat]
  /\ array \in [Queries \cup Filters -> [of: 0..MaxState, raw: BOOLEAN]]
  /\ entry \in [Filters -> [rows: Filters, expires: Nat] \cup {NOENTRY}]
  /\ query \in [Queries -> StatsRequest]
  /\ served \in [of: 0..MaxState, raw: BOOLEAN, given: BOOLEAN]

(* Nobody has derived anything in an array. *)
Untouched(x) == array[x].raw = TRUE

(* Entries and requests own their arrays, and nobody has derived anything  *)
(* in one that will be read again.                                         *)
OwnRows ==
  /\ \A f \in Filters : entry[f] # NOENTRY => entry[f].rows = f /\ Untouched(f)
  /\ \A q \in Queries :
       /\ query[q].pc # "idle" => query[q].rows = q
       /\ query[q].pc \in {"result", "held"} => Untouched(q)
  /\ NothingLeaks

(* What an entry holds was true when its query ran: an entry expires, and  *)
(* a query ends, before it could be older than it may be.                  *)
EntryRecent(f) ==
  entry[f] # NOENTRY =>
    /\ entry[f].expires <= clock + TTL
    /\ array[f].of = state \/ entry[f].expires <= changed[array[f].of] + TTL + Budget

QueryRecent(q) ==
  /\ query[q].pc # "idle" => query[q].began <= clock
  /\ Querying(q) => clock <= query[q].began + Budget
  /\ query[q].pc = "result" => array[q].of = state \/ query[q].began <= changed[array[q].of]
  /\ query[q].pc = "held" => array[q].of = state \/ clock <= changed[array[q].of] + TTL + Budget

Recent ==
  /\ \A f \in Filters : EntryRecent(f)
  /\ \A q \in Queries : QueryRecent(q)
  /\ AnswersAreRecent

Bounded == IsFiniteSet(Entries) /\ Cardinality(Entries) <= MaxEntries

StatsInv == StatsTypes /\ OwnRows /\ Recent /\ Bounded

(***************************************************************************)
(* Lemmas.                                                                 *)
(***************************************************************************)
LEMMA NoQueryLemma == NoQuery \in StatsRequest /\ NoQuery.pc = "idle"
  BY StatsAssumption, Zenon DEF NoQuery, StatsRequest

(* NoAnswer is a well-formed answer that was not given. *)
LEMMA NoAnswerLemma ==
  NoAnswer \in [of: 0..MaxState, raw: BOOLEAN, given: BOOLEAN] /\ NoAnswer.given = FALSE
  BY StatsAssumption DEF NoAnswer

(* Moving one request on, with its other fields as they were. *)
LEMMA TurnLemma ==
  ASSUME query \in [Queries -> StatsRequest], NEW q \in Queries, NEW r \in StatsRequest, Turn(q, r)
  PROVE  /\ query' \in [Queries -> StatsRequest] /\ query'[q] = r
         /\ \A p \in Queries : p # q => query'[p] = query[p]
  BY Zenon DEF Turn

(* A request that only moves to its next statement keeps all it has read. *)
LEMMA MovedLemma ==
  ASSUME query \in [Queries -> StatsRequest], NEW q \in Queries, NEW to \in {"result", "held"},
         Turn(q, [query[q] EXCEPT !.pc = to])
  PROVE  /\ query' \in [Queries -> StatsRequest]
         /\ query'[q].pc = to /\ query'[q].filter = query[q].filter
         /\ query'[q].began = query[q].began /\ query'[q].rows = query[q].rows
         /\ \A p \in Queries : p # q => query'[p] = query[p]
  <1>1. query[q] \in StatsRequest
    BY Zenon
  <1>2. [query[q] EXCEPT !.pc = to] \in StatsRequest
    BY <1>1, Zenon DEF StatsRequest
  <1>3. QED
    BY <1>1, <1>2, TurnLemma DEF StatsRequest

(* A copy of an untouched array is untouched. *)
LEMMA UntouchedLemma ==
  ASSUME NEW x, NEW y, array'[x] = array[y], Untouched(y) PROVE Untouched(x)'
  BY Zenon DEF Untouched

(* The cache starts empty. *)
LEMMA StatsInitially == StatsInit => StatsInv
  <1> SUFFICES ASSUME StatsInit PROVE StatsInv
    BY Zenon
  <1>1. StatsTypes
    BY StatsAssumption, NoQueryLemma DEF StatsInit, StatsTypes, Empty, NoAnswer
  <1>2. OwnRows
    BY NoQueryLemma, Zenon DEF StatsInit, OwnRows, NothingLeaks, NoAnswer
  <1>3. Recent
    BY NoQueryLemma, Zenon
       DEF StatsInit, Recent, EntryRecent, QueryRecent, AnswersAreRecent, NoAnswer, Querying
  <1>4. Entries = {}
    BY Zenon DEF StatsInit, Entries
  <1>5. Bounded
    BY <1>4, FS_EmptySet, StatsAssumption DEF Bounded
  <1>6. QED
    BY <1>1, <1>2, <1>3, <1>5, Zenon DEF StatsInv

(* Every step keeps the types. *)
LEMMA StatsTypesStep == StatsTypes /\ OwnRows /\ [StatsNext]_statsVars => StatsTypes'
  <1> SUFFICES ASSUME StatsTypes, OwnRows, [StatsNext]_statsVars PROVE StatsTypes'
    BY Zenon
  <1> USE StatsAssumption, NoAnswerLemma DEF StatsTypes
  <1>1. CASE UNCHANGED statsVars
    BY <1>1, Zenon DEF statsVars
  <1>2. CASE EvidenceChanges
    BY <1>2 DEF EvidenceChanges
  <1>3. CASE ClockTicks
    BY <1>3 DEF ClockTicks
  <1>4. ASSUME NEW q \in Queries, RunQuery(q) PROVE StatsTypes'
    <2>1. query' \in [Queries -> StatsRequest]
      BY <1>4, MovedLemma, Zenon DEF RunQuery
    <2>2. [of |-> state, raw |-> TRUE] \in [of: 0..MaxState, raw: BOOLEAN]
      BY Zenon
    <2>3. array' \in [Queries \cup Filters -> [of: 0..MaxState, raw: BOOLEAN]]
      BY <1>4, <2>2, Zenon DEF RunQuery
    <2>4. QED
      BY <1>4, <2>1, <2>3, Zenon DEF RunQuery
  <1>5. ASSUME NEW q \in Queries, Return(q) PROVE StatsTypes'
    <2>1. query' \in [Queries -> StatsRequest] /\ query[q].filter \in Filters
      BY <1>5, MovedLemma, Zenon DEF Return, StatsRequest
    <2>2. array' \in [Queries \cup Filters -> [of: 0..MaxState, raw: BOOLEAN]]
      BY <1>5, <2>1, Zenon DEF Return
    <2>3. entry' \in [Filters -> [rows: Filters, expires: Nat] \cup {NOENTRY}]
      <3> DEFINE f == query[q].filter
      <3>1. [rows |-> f, expires |-> clock + TTL] \in [rows: Filters, expires: Nat]
        BY <2>1
      <3>2. entry' = [g \in Filters |->
               IF g = f /\ HasRoom(Room) THEN [rows |-> f, expires |-> clock + TTL]
               ELSE IF g \in Room THEN entry[g] ELSE NOENTRY]
        BY <1>5, Zenon DEF Return, Put, Expiry, copyStats
      <3>3. QED
        BY <3>1, <3>2, Zenon
    <2>4. QED
      BY <1>5, <2>1, <2>2, <2>3, Zenon DEF Return
  <1>6. ASSUME NEW q \in Queries, QueryFails(q) PROVE StatsTypes'
    BY <1>6, NoQueryLemma, Zenon DEF QueryFails, Turn
  <1>7. ASSUME NEW q \in Queries, Answer(q) PROVE StatsTypes'
    <2>1. query[q].rows = q
      BY <1>7, Zenon DEF Answer, OwnRows
    <2>2. QED
      BY <1>7, <2>1, NoQueryLemma, ZenonT(60) DEF Answer, Turn
  <1>8. ASSUME NEW q \in Queries, NEW f \in Filters, Get(q, f) PROVE StatsTypes'
    <2>1. CASE Fresh(f)
      <3>1. entry[f].rows = f
        BY <2>1, Zenon DEF Fresh, OwnRows
      <3>2. array' \in [Queries \cup Filters -> [of: 0..MaxState, raw: BOOLEAN]]
        <4>1. array' = [array EXCEPT ![q] = array[f]]
          BY <1>8, <2>1, <3>1, Zenon DEF Get, Copied
        <4>2. QED
          BY <4>1, Zenon
      <3>3. [pc |-> "held", filter |-> f, began |-> clock, rows |-> q] \in StatsRequest
        BY DEF StatsRequest
      <3>4. query' \in [Queries -> StatsRequest]
        BY <1>8, <2>1, <3>3, TurnLemma, Zenon DEF Get, copyStats
      <3>5. QED
        <4>1. UNCHANGED <<clock, state, changed, entry>> /\ served' = NoAnswer
          BY <1>8, <2>1, Zenon DEF Get
        <4>2. QED
          BY <3>2, <3>4, <4>1, Zenon
    <2>2. CASE ~Fresh(f)
      <3>1. [pc |-> "miss", filter |-> f, began |-> clock, rows |-> q] \in StatsRequest
        BY DEF StatsRequest
      <3>2. query' \in [Queries -> StatsRequest]
        BY <1>8, <2>2, <3>1, TurnLemma, Zenon DEF Get
      <3>3. QED
        <4>1. entry' = [entry EXCEPT ![f] = NOENTRY]
          BY <1>8, <2>2, Zenon DEF Get
        <4>2. UNCHANGED <<clock, state, changed, array>> /\ served' = NoAnswer
          BY <1>8, <2>2, Zenon DEF Get
        <4>3. QED
          BY <3>2, <4>1, <4>2, Zenon
    <2>3. QED
      BY <2>1, <2>2, Zenon
  <1>9. QED
    BY <1>1, <1>2, <1>3, <1>4, <1>5, <1>6, <1>7, <1>8, Zenon DEF StatsNext

(* A step hands nobody else's array on, and labels only what is answered. *)
LEMMA OwnRowsStep == StatsTypes /\ OwnRows /\ [StatsNext]_statsVars => OwnRows'
  <1> SUFFICES ASSUME StatsTypes, OwnRows, [StatsNext]_statsVars PROVE OwnRows'
    BY Zenon
  <1> USE StatsAssumption, NoAnswerLemma DEF StatsTypes, NothingLeaks
  <1>0. \A q \in Queries, f \in Filters : q # f
    BY Zenon
  <1>1. CASE UNCHANGED statsVars
    BY <1>1, Zenon DEF statsVars, OwnRows, Untouched
  <1>2. CASE EvidenceChanges \/ ClockTicks
    BY <1>2, ZenonT(60) DEF EvidenceChanges, ClockTicks, OwnRows, Untouched
  <1>3. ASSUME NEW q \in Queries, RunQuery(q) PROVE OwnRows'
    <2>1. /\ query'[q].rows = query[q].rows /\ query[q].pc = "miss"
          /\ \A p \in Queries : p # q => query'[p] = query[p]
      BY <1>3, MovedLemma, Zenon DEF RunQuery
    <2>2. /\ array'[q].raw = TRUE
          /\ \A p \in Queries : p # q => array'[p] = array[p]
          /\ \A g \in Filters : array'[g] = array[g]
      BY <1>0, <1>3, Zenon DEF RunQuery
    <2>3. /\ Untouched(q)'
          /\ \A p \in Queries : p # q /\ Untouched(p) => Untouched(p)'
          /\ \A g \in Filters : Untouched(g) => Untouched(g)'
      BY <2>2, Zenon DEF Untouched
    <2>4. entry' = entry /\ served' = NoAnswer
      BY <1>3, Zenon DEF RunQuery
    <2>5. QED
      BY <2>1, <2>3, <2>4, ZenonT(60) DEF OwnRows
  <1>4. ASSUME NEW q \in Queries, Return(q) PROVE OwnRows'
    <2> DEFINE f == query[q].filter
    <2>1. /\ query'[q].rows = query[q].rows /\ query[q].pc = "result" /\ f \in Filters
          /\ \A p \in Queries : p # q => query'[p] = query[p]
      BY <1>4, MovedLemma, Zenon DEF Return, StatsRequest
    <2>2. /\ \A p \in Queries : array'[p] = array[p]
          /\ \A g \in Filters : array'[g] = IF g = f /\ HasRoom(Room) THEN array[q] ELSE array[g]
      BY <1>0, <1>4, <2>1, Zenon DEF Return
    <2>3. \A g \in Filters : entry'[g] # NOENTRY =>
            \/ g = f /\ HasRoom(Room) /\ entry'[g].rows = f
            \/ ~(g = f /\ HasRoom(Room)) /\ entry'[g] = entry[g]
      BY <1>4, Zenon DEF Return, Put, copyStats
    <2>4. served' = NoAnswer
      BY <1>4, Zenon DEF Return
    <2>5. ASSUME NEW g \in Filters, entry'[g] # NOENTRY
          PROVE  entry'[g].rows = g /\ Untouched(g)'
      <3>1. CASE g = f /\ HasRoom(Room)
        BY <2>1, <2>2, <2>3, <2>5, <3>1, UntouchedLemma, Zenon DEF OwnRows
      <3>2. CASE ~(g = f /\ HasRoom(Room))
        BY <2>2, <2>3, <2>5, <3>2, UntouchedLemma, Zenon DEF OwnRows
      <3>3. QED
        BY <3>1, <3>2, Zenon
    <2>6. ASSUME NEW p \in Queries
          PROVE  /\ query'[p].pc # "idle" => query'[p].rows = p
                 /\ query'[p].pc \in {"result", "held"} => Untouched(p)'
      BY <2>1, <2>2, UntouchedLemma, ZenonT(60) DEF OwnRows
    <2>7. QED
      BY <2>4, <2>5, <2>6, Zenon DEF OwnRows
  <1>5. ASSUME NEW q \in Queries, QueryFails(q) PROVE OwnRows'
    <2>1. query'[q].pc = "idle" /\ \A p \in Queries : p # q => query'[p] = query[p]
      BY <1>5, TurnLemma, NoQueryLemma, Zenon DEF QueryFails
    <2>2. array' = array /\ entry' = entry /\ served' = NoAnswer
      BY <1>5, Zenon DEF QueryFails
    <2>3. \A x \in Queries \cup Filters : Untouched(x) => Untouched(x)'
      BY <2>2, Zenon DEF Untouched
    <2>4. QED
      BY <2>1, <2>2, <2>3, Zenon DEF OwnRows
  <1>6. ASSUME NEW q \in Queries, Answer(q) PROVE OwnRows'
    <2>1. query[q].rows = q /\ Untouched(q)
      BY <1>6, Zenon DEF Answer, OwnRows
    <2>2. query'[q].pc = "idle" /\ \A p \in Queries : p # q => query'[p] = query[p]
      BY <1>6, TurnLemma, NoQueryLemma, Zenon DEF Answer
    <2>3. /\ \A p \in Queries : p # q => array'[p] = array[p]
          /\ \A g \in Filters : array'[g] = array[g]
      BY <1>0, <1>6, <2>1, Zenon DEF Answer
    <2>4. /\ \A p \in Queries : p # q /\ Untouched(p) => Untouched(p)'
          /\ \A g \in Filters : Untouched(g) => Untouched(g)'
      BY <2>3, Zenon DEF Untouched
    <2>5. NothingLeaks' /\ entry' = entry
      BY <1>6, <2>1, Zenon DEF Answer, Untouched
    <2>6. QED
      BY <2>2, <2>4, <2>5, Zenon DEF OwnRows
  <1>7. ASSUME NEW q \in Queries, NEW f \in Filters, Get(q, f) PROVE OwnRows'
    <2>1. CASE Fresh(f)
      <3>1. entry[f].rows = f /\ Untouched(f)
        BY <2>1, Zenon DEF Fresh, OwnRows
      <3>2. /\ array'[q] = array[f]
            /\ \A p \in Queries : p # q => array'[p] = array[p]
            /\ \A g \in Filters : array'[g] = array[g]
        BY <1>0, <1>7, <2>1, <3>1 DEF Get, Copied
      <3>3. /\ Untouched(q)'
            /\ \A p \in Queries : p # q /\ Untouched(p) => Untouched(p)'
            /\ \A g \in Filters : Untouched(g) => Untouched(g)'
        BY <3>1, <3>2, Zenon DEF Untouched
      <3>4. query'[q].rows = q /\ \A p \in Queries : p # q => query'[p] = query[p]
        BY <1>7, <2>1 DEF Get, Turn, copyStats
      <3>5. entry' = entry /\ served' = NoAnswer
        BY <1>7, <2>1, Zenon DEF Get
      <3>6. QED
        BY <3>3, <3>4, <3>5, Zenon DEF OwnRows
    <2>2. CASE ~Fresh(f)
      <3>1. /\ query'[q].rows = q /\ query'[q].pc = "miss"
            /\ \A p \in Queries : p # q => query'[p] = query[p]
        BY <1>7, <2>2 DEF Get, Turn
      <3>2. array' = array /\ served' = NoAnswer /\ \A g \in Filters : entry'[g] # NOENTRY => entry'[g] = entry[g]
        BY <1>7, <2>2, Zenon DEF Get
      <3>3. \A x \in Queries \cup Filters : Untouched(x) => Untouched(x)'
        BY <3>2, Zenon DEF Untouched
      <3>4. QED
        BY <3>1, <3>2, <3>3, ZenonT(60) DEF OwnRows
    <2>3. QED
      BY <2>1, <2>2, Zenon
  <1>8. QED
    BY <1>1, <1>2, <1>3, <1>4, <1>5, <1>6, <1>7, Zenon DEF StatsNext

(* Time and the evidence pass, and what is kept stays recent enough. *)
LEMMA RecentStep == StatsTypes /\ OwnRows /\ Recent /\ [StatsNext]_statsVars => Recent'
  <1> SUFFICES ASSUME StatsTypes, OwnRows, Recent, [StatsNext]_statsVars PROVE Recent'
    BY Zenon
  <1>0. \A q \in Queries, f \in Filters : q # f
    BY StatsAssumption, Zenon
  <1>a. /\ clock \in Nat /\ state \in 0..MaxState /\ changed \in [0..MaxState -> Nat]
        /\ \A x \in Queries \cup Filters : array[x].of \in 0..MaxState
        /\ \A f \in Filters : entry[f] # NOENTRY => entry[f].expires \in Nat
        /\ \A q \in Queries : query[q].began \in Nat /\ query[q].filter \in Filters
    BY DEF StatsTypes, StatsRequest
  <1>b. \A x \in Queries \cup Filters : changed[array[x].of] \in Nat
    BY <1>a, Zenon
  <1>c. TTL \in Nat /\ Budget \in Nat
    BY StatsAssumption, Zenon
  <1>d. ASSUME served' = NoAnswer PROVE AnswersAreRecent'
    BY <1>d, NoAnswerLemma, Zenon DEF AnswersAreRecent
  <1>1. CASE UNCHANGED statsVars
    BY <1>1, Zenon DEF statsVars, Recent, EntryRecent, QueryRecent, Querying, AnswersAreRecent
  <1>2. CASE EvidenceChanges
    <2>1. /\ state' = state + 1 /\ UNCHANGED <<clock, array, entry, query>> /\ served' = NoAnswer
          /\ \A n \in 0..MaxState : changed'[n] = IF n = state THEN clock ELSE changed[n]
      BY <1>2, <1>a, Zenon DEF EvidenceChanges
    <2>2. ASSUME NEW f \in Filters, entry[f] # NOENTRY
          PROVE  entry[f].expires <= changed'[array[f].of] + TTL + Budget
      <3>1. /\ entry[f].expires \in Nat /\ entry[f].expires <= clock + TTL
            /\ array[f].of = state \/ entry[f].expires <= changed[array[f].of] + TTL + Budget
        BY <1>a, <2>2, Zenon DEF Recent, EntryRecent, QueryRecent
      <3>2. changed'[array[f].of] = IF array[f].of = state THEN clock ELSE changed[array[f].of]
        BY <1>a, <2>1, Zenon
      <3>3. QED
        BY <1>a, <1>b, <1>c, <3>1, <3>2
    <2>3. ASSUME NEW q \in Queries
          PROVE  /\ query[q].pc = "result" => query[q].began <= changed'[array[q].of]
                 /\ query[q].pc = "held" => clock <= changed'[array[q].of] + TTL + Budget
      <3>1. /\ query[q].pc # "idle" => query[q].began <= clock
            /\ query[q].pc = "result" => array[q].of = state \/ query[q].began <= changed[array[q].of]
            /\ query[q].pc = "held" =>
                 array[q].of = state \/ clock <= changed[array[q].of] + TTL + Budget
        BY Zenon DEF Recent, QueryRecent
      <3>2. changed'[array[q].of] = IF array[q].of = state THEN clock ELSE changed[array[q].of]
        BY <1>a, <2>1, Zenon
      <3>3. changed[array[q].of] \in Nat /\ query[q].began \in Nat /\ clock \in Nat
        BY <1>a, <1>b, Zenon
      <3>4. QED
        BY <1>c, <3>1, <3>2, <3>3
    <2>4. QED
      BY <1>d, <2>1, <2>2, <2>3, Zenon DEF Recent, EntryRecent, QueryRecent, Querying
  <1>3. CASE ClockTicks
    <2>1. /\ clock' = clock + 1 /\ UNCHANGED <<state, changed, array, entry, query>> /\ served' = NoAnswer
          /\ \A q \in Queries : query[q].pc # "held" /\ (Querying(q) => clock < query[q].began + Budget)
      BY <1>3, Zenon DEF ClockTicks
    <2>2. QED
      <3>1. ASSUME NEW f \in Filters PROVE EntryRecent(f)'
        BY <1>a, <1>c, <2>1 DEF Recent, EntryRecent
      <3>2. ASSUME NEW q \in Queries PROVE QueryRecent(q)'
        BY <1>a, <1>c, <2>1 DEF Recent, QueryRecent, Querying
      <3>3. QED
        BY <1>d, <2>1, <3>1, <3>2, Zenon DEF Recent
  <1>4. ASSUME NEW q \in Queries, RunQuery(q) PROVE Recent'
    <2>1. /\ query[q].pc = "miss" /\ query'[q].pc = "result" /\ query'[q].began = query[q].began
          /\ \A p \in Queries : p # q => query'[p] = query[p]
      BY <1>4, MovedLemma, Zenon DEF RunQuery, StatsTypes
    <2>2. /\ array'[q].of = state
          /\ \A p \in Queries : p # q => array'[p] = array[p]
          /\ \A g \in Filters : array'[g] = array[g]
      BY <1>0, <1>4, Zenon DEF RunQuery, StatsTypes
    <2>3. UNCHANGED <<clock, state, changed, entry>> /\ served' = NoAnswer
      BY <1>4, Zenon DEF RunQuery
    <2>4. QED
      BY <1>a, <1>c, <1>d, <2>1, <2>2, <2>3, ZenonT(60) DEF Recent, EntryRecent, QueryRecent, Querying
  <1>5. ASSUME NEW q \in Queries, Return(q) PROVE Recent'
    <2> DEFINE f == query[q].filter
    <2>1. /\ query[q].pc = "result" /\ query'[q].pc = "held" /\ query'[q].began = query[q].began
          /\ \A p \in Queries : p # q => query'[p] = query[p]
      BY <1>5, MovedLemma, Zenon DEF Return, StatsTypes
    <2>2. /\ \A p \in Queries : array'[p] = array[p]
          /\ \A g \in Filters : array'[g] = IF g = f /\ HasRoom(Room) THEN array[q] ELSE array[g]
      BY <1>0, <1>a, <1>5, Zenon DEF Return, StatsTypes
    <2>3. \A g \in Filters : entry'[g] # NOENTRY =>
            \/ g = f /\ HasRoom(Room) /\ entry'[g].expires = clock + TTL
            \/ ~(g = f /\ HasRoom(Room)) /\ entry'[g] = entry[g]
      BY <1>5, Zenon DEF Return, Put, Expiry
    <2>4. UNCHANGED <<clock, state, changed>> /\ served' = NoAnswer
      BY <1>5, Zenon DEF Return
    <2>5. array[q].of = state \/ clock <= changed[array[q].of] + Budget
      BY <1>a, <1>b, <1>c, <1>d, <2>1 DEF Recent, EntryRecent, QueryRecent, Querying
    <2>6. ASSUME NEW g \in Filters, entry'[g] # NOENTRY PROVE EntryRecent(g)'
      <3>1. CASE g = f /\ HasRoom(Room)
        <4>1. entry'[g].expires = clock + TTL /\ array'[g].of = array[q].of
          BY <2>2, <2>3, <2>6, <3>1, Zenon
        <4>2. changed[array[q].of] \in Nat
          BY <1>b, Zenon
        <4>3. QED
          BY <1>a, <1>c, <2>4, <2>5, <4>1, <4>2 DEF EntryRecent
      <3>2. CASE ~(g = f /\ HasRoom(Room))
        BY <2>2, <2>3, <2>4, <2>6, <3>2, Zenon DEF Recent, EntryRecent
      <3>3. QED
        BY <3>1, <3>2, Zenon
    <2>7. ASSUME NEW p \in Queries PROVE QueryRecent(p)'
      <3>1. CASE p = q
        <4>1. query[q].began <= clock /\ clock <= query[q].began + Budget /\ changed[array[q].of] \in Nat
          BY <1>b, <2>1, Zenon DEF Recent, QueryRecent, Querying
        <4>2. array[q].of = state \/ clock <= changed[array[q].of] + TTL + Budget
          BY <1>a, <1>c, <2>5, <4>1
        <4>3. query'[p].pc = "held" /\ query'[p].began = query[q].began /\ array'[p] = array[q]
          BY <2>1, <2>2, <3>1, Zenon
        <4>4. QED
          BY <2>4, <4>1, <4>2, <4>3, Zenon DEF QueryRecent, Querying
      <3>2. CASE p # q
        BY <2>1, <2>2, <2>4, <3>2, Zenon DEF Recent, EntryRecent, QueryRecent, Querying
      <3>3. QED
        BY <3>1, <3>2, Zenon
    <2>8. QED
      BY <1>d, <2>4, <2>6, <2>7, Zenon DEF Recent, EntryRecent, QueryRecent
  <1>6. ASSUME NEW q \in Queries, QueryFails(q) PROVE Recent'
    <2>1. query'[q].pc = "idle" /\ \A p \in Queries : p # q => query'[p] = query[p]
      BY <1>6, TurnLemma, NoQueryLemma, Zenon DEF QueryFails, StatsTypes
    <2>2. UNCHANGED <<clock, state, changed, array, entry>> /\ served' = NoAnswer
      BY <1>6, Zenon DEF QueryFails
    <2>3. QED
      BY <1>d, <2>1, <2>2, Zenon DEF Recent, EntryRecent, QueryRecent, Querying
  <1>7. ASSUME NEW q \in Queries, Answer(q) PROVE Recent'
    <2>1. query[q].rows = q /\ query[q].pc = "held"
      BY <1>7, Zenon DEF Answer, OwnRows
    <2>2. query'[q].pc = "idle" /\ \A p \in Queries : p # q => query'[p] = query[p]
      BY <1>7, TurnLemma, NoQueryLemma, Zenon DEF Answer, StatsTypes
    <2>3. /\ \A p \in Queries : p # q => array'[p] = array[p]
          /\ \A g \in Filters : array'[g] = array[g]
      BY <1>0, <1>7, <2>1, Zenon DEF Answer, StatsTypes
    <2>4. UNCHANGED <<clock, state, changed, entry>> /\ served'.of = array[q].of
      BY <1>7, <2>1, Zenon DEF Answer
    <2>5. QED
      BY <2>1, <2>2, <2>3, <2>4, Zenon DEF Recent, EntryRecent, QueryRecent, Querying, AnswersAreRecent
  <1>8. ASSUME NEW q \in Queries, NEW f \in Filters, Get(q, f) PROVE Recent'
    <2>1. CASE Fresh(f)
      <3>1. entry[f].rows = f /\ entry[f] # NOENTRY /\ clock <= entry[f].expires
        BY <2>1, Zenon DEF Fresh, Expires, OwnRows
      <3>2. /\ array'[q] = array[f]
            /\ \A p \in Queries : p # q => array'[p] = array[p]
            /\ \A g \in Filters : array'[g] = array[g]
        BY <1>0, <1>8, <2>1, <3>1, ZenonT(60) DEF Get, Copied, StatsTypes
      <3>3. /\ query'[q].pc = "held" /\ query'[q].began = clock
            /\ \A p \in Queries : p # q => query'[p] = query[p]
        BY <1>8, <2>1 DEF Get, Turn, StatsTypes
      <3>4. UNCHANGED <<clock, state, changed, entry>> /\ served' = NoAnswer
        BY <1>8, <2>1, Zenon DEF Get
      <3>5. QED
        <4>1. entry[f].expires <= clock + TTL /\ entry[f].expires \in Nat /\ changed[array[f].of] \in Nat
          BY <1>a, <1>b, <3>1, Zenon DEF Recent, EntryRecent, QueryRecent
        <4>2. array[f].of = state \/ clock <= changed[array[f].of] + TTL + Budget
          <5>1. array[f].of = state \/ entry[f].expires <= changed[array[f].of] + TTL + Budget
            BY <3>1, Zenon DEF Recent, EntryRecent
          <5>2. clock \in Nat /\ TTL \in Nat /\ Budget \in Nat /\ clock <= entry[f].expires
            BY <1>a, <1>c, <3>1, Zenon
          <5>3. QED
            BY <4>1, <5>1, <5>2
        <4>3. ASSUME NEW p \in Queries PROVE QueryRecent(p)'
          <5>1. CASE p = q
            BY <1>a, <1>c, <3>2, <3>3, <3>4, <4>2, <5>1 DEF QueryRecent, Querying
          <5>2. CASE p # q
            BY <3>2, <3>3, <3>4, <5>2 DEF Recent, QueryRecent, Querying
          <5>3. QED
            BY <5>1, <5>2, Zenon
        <4>4. QED
          BY <1>d, <3>2, <3>4, <4>3, Zenon DEF Recent, EntryRecent, QueryRecent
    <2>2. CASE ~Fresh(f)
      <3>1. /\ query'[q].pc = "miss" /\ query'[q].began = clock
            /\ \A p \in Queries : p # q => query'[p] = query[p]
        BY <1>8, <2>2 DEF Get, Turn, StatsTypes
      <3>2. /\ UNCHANGED <<clock, state, changed, array>> /\ served' = NoAnswer
            /\ \A g \in Filters : entry'[g] # NOENTRY => entry'[g] = entry[g]
        BY <1>8, <2>2, Zenon DEF Get, StatsTypes
      <3>3. QED
        <4>1. ASSUME NEW p \in Queries PROVE QueryRecent(p)'
          <5>1. CASE p = q
            BY <1>a, <1>c, <3>1, <3>2, <5>1 DEF QueryRecent, Querying
          <5>2. CASE p # q
            BY <3>1, <3>2, <5>2 DEF Recent, QueryRecent, Querying
          <5>3. QED
            BY <5>1, <5>2, Zenon
        <4>2. QED
          BY <1>d, <3>2, <4>1, Zenon DEF Recent, EntryRecent, QueryRecent
    <2>3. QED
      BY <2>1, <2>2, Zenon
  <1>9. QED
    BY <1>1, <1>2, <1>3, <1>4, <1>5, <1>6, <1>7, <1>8, Zenon DEF StatsNext

(* A miss adds an entry only where there is room for it. *)
LEMMA BoundedStep == StatsTypes /\ Bounded /\ [StatsNext]_statsVars => Bounded'
  <1> SUFFICES ASSUME StatsTypes, Bounded, [StatsNext]_statsVars PROVE Bounded'
    BY Zenon
  <1>1. CASE Entries' \subseteq Entries
    <2>1. IsFiniteSet(Entries') /\ Cardinality(Entries') <= Cardinality(Entries)
      BY <1>1, FS_Subset, Zenon DEF Bounded
    <2>2. Cardinality(Entries) \in Nat /\ Cardinality(Entries') \in Nat
      BY <2>1, FS_CardinalityType, Zenon DEF Bounded
    <2>3. QED
      BY <2>1, <2>2, StatsAssumption DEF Bounded
  <1>2. ASSUME NEW q \in Queries, Return(q) PROVE Bounded'
    <2> DEFINE f == query[q].filter
    <2>1. Room \subseteq Entries
      BY Zenon DEF Room
    <2>2. IsFiniteSet(Room) /\ Cardinality(Room) \in Nat
      BY <2>1, FS_Subset, FS_CardinalityType, Zenon DEF Bounded
    <2>3. CASE ~HasRoom(Room)
      <3>1. Entries' \subseteq Entries
        BY <1>2, <2>1, <2>3, Zenon DEF Return, Put, Entries
      <3>2. QED
        BY <1>1, <3>1, Zenon
    <2>4. CASE HasRoom(Room)
      <3>1. Entries' \subseteq Room \cup {f}
        BY <1>2, Zenon DEF Return, Put, Entries
      <3>2. IsFiniteSet(Room \cup {f}) /\ Cardinality(Room \cup {f}) <= Cardinality(Room) + 1
        BY <2>2, FS_AddElement
      <3>3. IsFiniteSet(Entries') /\ Cardinality(Entries') <= Cardinality(Room \cup {f})
        BY <3>1, <3>2, FS_Subset, Zenon
      <3>4. Cardinality(Entries') \in Nat /\ Cardinality(Room \cup {f}) \in Nat
        BY <3>2, <3>3, FS_CardinalityType, Zenon
      <3>5. QED
        BY <2>2, <2>4, <3>2, <3>3, <3>4, StatsAssumption DEF Bounded, HasRoom
    <2>5. QED
      BY <2>3, <2>4, Zenon
  <1>3. ASSUME NEW q \in Queries, NEW f \in Filters, Get(q, f) PROVE Entries' \subseteq Entries
    BY <1>3, Zenon DEF Get, Entries, StatsTypes
  <1>4. CASE entry' = entry
    BY <1>1, <1>4, Zenon DEF Entries
  <1>5. QED
    BY <1>1, <1>2, <1>3, <1>4, Zenon
       DEF StatsNext, statsVars, EvidenceChanges, ClockTicks, RunQuery, QueryFails, Answer

(* store/cache.go: whatever the thresholds, the number of filters and the  *)
(* order in which slow queries return, nobody gets rows another request    *)
(* has worked on, nobody gets an answer older than an entry lives and a    *)
(* query takes, and the cache never grows past its maximum.                *)
THEOREM CacheIsSound == StatsSpec => []CacheSound
  <1>1. StatsInv /\ [StatsNext]_statsVars => StatsInv'
    BY StatsTypesStep, OwnRowsStep, RecentStep, BoundedStep, Zenon DEF StatsInv
  <1>2. StatsInv => CacheSound
    <2> SUFFICES ASSUME StatsInv PROVE CacheSound
      BY Zenon
    <2>1. NothingLeaks /\ AnswersAreRecent /\ CacheBounded
      BY Zenon DEF StatsInv, OwnRows, Recent, Bounded, CacheBounded
    <2>2. \A f \in Entries : entry[f].rows \in Queries \cup Filters /\ entry[f].expires \in 0..(clock + TTL)
      BY StatsAssumption DEF StatsInv, StatsTypes, Recent, EntryRecent, Entries
    <2>3. StatsTypeOK
      BY <2>2, Zenon DEF StatsInv, StatsTypes, StatsTypeOK
    <2>4. QED
      BY <2>1, <2>3, Zenon DEF CacheSound
  <1>3. QED
    BY StatsInitially, <1>1, <1>2, PTL DEF StatsSpec

(***************************************************************************)
(* ImportedWhole for every set of archives and any number of imports under *)
(* way at once.                                                            *)
(***************************************************************************)
Contents == {a.content : a \in Archives}
Needs(a) == {a.digest} \cup a.assets
Row == [digest: Objects, content: Contents]

ImportRequest ==
  [pc: {"idle", "begun", "queued", "put", "wait", "publish"},
   archive: Archives \cup {NoImport.archive}, todo: SUBSET (Objects \cup Row)]

ImportTypes ==
  /\ packages \subseteq Row
  /\ pins \subseteq {r.digest : r \in packages} \X Objects
  /\ cas \subseteq Objects
  /\ import \in [Importers -> ImportRequest]
  /\ \A p \in Importers : import[p].pc # "idle" => import[p].archive \in Archives
  /\ sweeper \in [pc: {"idle", "listed", "locked", "deleting"}, listed: SUBSET Objects, todo: SUBSET Objects]
  /\ sweeper.todo \subseteq sweeper.listed
  /\ creations \in [Contents -> Nat]

(* The two advisory locks: no import shares the sweep lock while the sweep *)
(* holds it, and one import at a time publishes a content.                 *)
Exclusive ==
  /\ \A p \in Importers : import[p].pc \in {"put", "wait", "publish"} => ~Sweeping
  /\ \A p, q \in Importers :
       /\ import[p].pc = "publish" /\ import[q].pc = "publish"
       /\ import[p].archive.content = import[q].archive.content
       => p = q

(* What an import has written is there until it publishes, and the row its *)
(* query found, or did not find, is still all there is.                    *)
Written(p) ==
  LET a == import[p].archive IN
  /\ import[p].pc \in {"begun", "queued"} => import[p].todo = Needs(a)
  /\ import[p].pc = "put" => import[p].todo \subseteq Needs(a) /\ Needs(a) \ import[p].todo \subseteq cas
  /\ import[p].pc \in {"wait", "publish"} => Needs(a) \subseteq cas
  /\ import[p].pc = "publish" => import[p].todo = {r \in packages : r.content = a.content}

(* A package's objects are pinned, and what is pinned is not deleted. *)
Whole(r) ==
  \E a \in Archives :
    /\ a.digest = r.digest /\ a.content = r.content
    /\ \A o \in Needs(a) : <<r.digest, o>> \in pins

Pinned ==
  /\ \A x \in pins : x[2] \in cas
  /\ sweeper.pc = "deleting" => \A x \in pins : x[2] \notin sweeper.todo
  /\ \A r \in packages : Whole(r)

ImportInv ==
  ImportTypes /\ Exclusive /\ (\A p \in Importers : Written(p)) /\ Pinned /\ OneRowPerContent

(***************************************************************************)
(* Lemmas.                                                                 *)
(***************************************************************************)
LEMMA NeedsLemma == \A a \in Archives : Needs(a) \subseteq Objects /\ a.content \in Contents
  BY Zenon DEF Needs, Objects, Contents

(* An idle import is a well-formed one. *)
LEMMA NoImportLemma == NoImport \in ImportRequest /\ NoImport.pc = "idle"
  BY Zenon DEF NoImport, ImportRequest

(* One request moves, the others stay. *)
LEMMA SetLemma ==
  ASSUME ImportTypes, NEW p \in Importers, NEW r \in ImportRequest, Set(p, r),
         r.pc # "idle" => r.archive \in Archives
  PROVE  /\ import' \in [Importers -> ImportRequest]
         /\ import'[p] = r
         /\ \A q \in Importers : q # p => import'[q] = import[q]
         /\ \A q \in Importers : import'[q].pc # "idle" => import'[q].archive \in Archives
  BY Zenon DEF ImportTypes, Set

(* The tables and the store only gain what is written: what others have    *)
(* written stays so.                                                       *)
LEMMA WrittenLemma ==
  ASSUME NEW q \in Importers, Written(q), import'[q] = import[q], cas \subseteq cas',
         import[q].pc = "publish" =>
           {r \in packages' : r.content = import[q].archive.content}
             = {r \in packages : r.content = import[q].archive.content}
  PROVE  Written(q)'
  BY Zenon DEF Written

(* The invariant of the imports holds before the first import. *)
LEMMA ImportInitially == ImportInit => ImportInv
  <1> SUFFICES ASSUME ImportInit PROVE ImportInv
    BY Zenon
  <1>1. ImportTypes
    BY NoImportLemma, Zenon DEF ImportInit, ImportTypes, NoSweep, Contents
  <1>2. Exclusive /\ \A p \in Importers : Written(p)
    BY NoImportLemma, Zenon DEF ImportInit, Exclusive, Written
  <1>3. Pinned /\ OneRowPerContent
    BY Zenon DEF ImportInit, Pinned, NoSweep, OneRowPerContent
  <1>4. QED
    BY <1>1, <1>2, <1>3, Zenon DEF ImportInv

(* A step of an import that neither publishes nor touches the tables. *)
LEMMA MoveLemma ==
  ASSUME ImportInv, NEW p \in Importers, NEW r \in ImportRequest, Set(p, r),
         r.pc # "idle" => r.archive \in Archives,
         UNCHANGED <<packages, pins, sweeper, creations>>,
         cas \subseteq cas', cas' \subseteq Objects,
         r.pc \in {"put", "wait", "publish"} => ~Sweeping,
         r.pc = "publish" => ContentFree(p) /\ r.archive = import[p].archive,
         Written(p)'
  PROVE  ImportInv'
  <1>1. ImportTypes'
    BY SetLemma, Zenon DEF ImportInv, ImportTypes
  <1>2. import'[p] = r /\ \A q \in Importers : q # p => import'[q] = import[q]
    BY SetLemma, Zenon DEF ImportInv
  <1>3. \A q \in Importers : Written(q)'
    BY <1>2, WrittenLemma, Zenon DEF ImportInv
  <1>4. Exclusive'
    <2>1. Sweeping' = Sweeping
      BY Zenon DEF Sweeping
    <2>2. ASSUME NEW q \in Importers, import'[q].pc \in {"put", "wait", "publish"} PROVE ~Sweeping'
      BY <1>2, <2>1, <2>2, Zenon DEF ImportInv, Exclusive
    <2>3. ASSUME NEW q \in Importers, NEW s \in Importers,
                 import'[q].pc = "publish", import'[s].pc = "publish",
                 import'[q].archive.content = import'[s].archive.content
          PROVE  q = s
      BY <1>2, <2>3, Zenon DEF ImportInv, Exclusive, ContentFree, Publishing
    <2>4. QED
      BY <2>2, <2>3, Zenon DEF Exclusive
  <1>5. Pinned'
    BY Zenon DEF ImportInv, Pinned, Whole
  <1>6. OneRowPerContent'
    BY Zenon DEF ImportInv, OneRowPerContent
  <1>7. QED
    BY <1>1, <1>3, <1>4, <1>5, <1>6, Zenon DEF ImportInv

(* Publishing: the new references hold objects that are there. *)
LEMMA PublishKeeps ==
  ASSUME ImportInv, NEW p \in Importers, Publish(p)
  PROVE  ImportInv'
  <1>0. PICK a, row : /\ a = import[p].archive
                      /\ row = IF import[p].todo # {} THEN CHOOSE r \in import[p].todo : TRUE
                               ELSE [digest |-> a.digest, content |-> a.content]
    BY Zenon
  <1>1. /\ import[p].pc = "publish" /\ a \in Archives /\ Needs(a) \subseteq cas
        /\ import[p].todo = {r \in packages : r.content = a.content}
    BY <1>0, Zenon DEF Publish, ImportInv, ImportTypes, Written
  <1>2. /\ packages' = packages \cup {row} /\ pins' = pins \cup PinsOf(row, a)
        /\ creations' = [creations EXCEPT ![a.content] = @ + IF import[p].todo = {} THEN 1 ELSE 0]
        /\ Set(p, NoImport) /\ UNCHANGED <<cas, sweeper>>
    BY <1>0, Zenon DEF Publish
  <1>3. /\ import'[p].pc = "idle" /\ \A q \in Importers : q # p => import'[q] = import[q]
        /\ import' \in [Importers -> ImportRequest]
        /\ \A q \in Importers : import'[q].pc # "idle" => import'[q].archive \in Archives
    BY <1>2, SetLemma, NoImportLemma, Zenon DEF ImportInv
  <1>4. /\ row.content = a.content
        /\ import[p].todo # {} => row \in packages
        /\ import[p].todo = {} => row.digest = a.digest /\ row \in Row
    BY <1>0, <1>1, Zenon DEF Row, Objects, Contents
  <1>5. row \in Row /\ row.digest \in cas
    <2>1. CASE import[p].todo = {}
      BY <1>1, <1>4, <2>1, Zenon DEF Needs
    <2>2. CASE import[p].todo # {}
      <3>1. Whole(row) /\ row \in Row
        BY <1>4, <2>2, Zenon DEF ImportInv, ImportTypes, Pinned
      <3>2. <<row.digest, row.digest>> \in pins
        BY <3>1, Zenon DEF Whole, Needs
      <3>3. QED
        BY <3>1, <3>2, Zenon DEF ImportInv, Pinned
    <2>3. QED
      BY <2>1, <2>2, Zenon
  <1>6. \A o \in {row.digest} \cup a.assets : o \in cas /\ o \in Objects
    BY <1>1, <1>5, Zenon DEF Needs, ImportInv, ImportTypes
  <1>7. ~Sweeping
    BY <1>1, Zenon DEF ImportInv, Exclusive
  <1>8. ImportTypes'
    <2>1. packages' \subseteq Row
      BY <1>2, <1>5, Zenon DEF ImportInv, ImportTypes
    <2>2. pins' \subseteq {r.digest : r \in packages'} \X Objects
      <3>1. PinsOf(row, a) \subseteq {r.digest : r \in packages'} \X Objects
        BY <1>2, <1>6 DEF PinsOf
      <3>2. pins \subseteq {r.digest : r \in packages'} \X Objects
        BY <1>2, ZenonT(60) DEF ImportInv, ImportTypes
      <3>3. QED
        BY <1>2, <3>1, <3>2, Zenon
    <2>3. creations' \in [Contents -> Nat]
      BY <1>1, <1>2, NeedsLemma DEF ImportInv, ImportTypes
    <2>4. QED
      BY <1>2, <1>3, <2>1, <2>2, <2>3, Zenon DEF ImportInv, ImportTypes
  <1>9. Exclusive'
    BY <1>2, <1>3, <1>7, Zenon DEF ImportInv, Exclusive, Sweeping
  <1>10. ASSUME NEW q \in Importers PROVE Written(q)'
    <2>1. CASE q = p
      BY <1>3, <2>1, Zenon DEF Written
    <2>2. CASE q # p
      <3>1. import[q].pc = "publish" => import[q].archive.content # a.content
        BY <1>0, <1>1, <2>2, Zenon DEF ImportInv, Exclusive
      <3>2. QED
        BY <1>2, <1>3, <1>4, <2>2, <3>1, WrittenLemma, Zenon DEF ImportInv
    <2>3. QED
      BY <2>1, <2>2, Zenon
  <1>11. Pinned'
    <2>1. \A x \in pins' : x[2] \in cas'
      BY <1>2, <1>6 DEF ImportInv, Pinned, PinsOf
    <2>2. sweeper'.pc # "deleting"
      BY <1>2, <1>7, Zenon DEF Sweeping
    <2>3. \A r \in packages : Whole(r)'
      BY <1>2, Zenon DEF ImportInv, Pinned, Whole
    <2>4. CASE import[p].todo = {}
      <3>1. Whole(row)'
        BY <1>1, <1>2, <1>4, <2>4, Zenon DEF Whole, PinsOf, Needs
      <3>2. QED
        BY <1>2, <2>1, <2>2, <2>3, <3>1, Zenon DEF Pinned
    <2>5. CASE import[p].todo # {}
      BY <1>2, <1>4, <2>1, <2>2, <2>3, <2>5, Zenon DEF Pinned
    <2>6. QED
      BY <2>4, <2>5, Zenon
  <1>12. OneRowPerContent'
    <2>1. CASE import[p].todo # {}
      <3>1. packages' = packages /\ creations' = creations
        BY <1>2, <1>4, <2>1, NeedsLemma, <1>1 DEF ImportInv, ImportTypes
      <3>2. QED
        BY <3>1, Zenon DEF ImportInv, OneRowPerContent
    <2>2. CASE import[p].todo = {}
      <3>1. \A r \in packages : r.content # a.content
        BY <1>1, <2>2, Zenon
      <3>2. creations[a.content] = 0 /\ a.content \in Contents
        BY <1>1, <3>1, NeedsLemma, Zenon DEF ImportInv, ImportTypes, OneRowPerContent
      <3>3. creations'[a.content] = 1 /\ DOMAIN creations' = Contents
            /\ \A c \in Contents : c # a.content => creations'[c] = creations[c]
        BY <1>2, <2>2, <3>2 DEF ImportInv, ImportTypes
      <3>4. QED
        BY <1>2, <1>4, <3>1, <3>3 DEF ImportInv, ImportTypes, OneRowPerContent
    <2>3. QED
      BY <2>1, <2>2, Zenon
  <1>13. QED
    BY <1>8, <1>9, <1>10, <1>11, <1>12, Zenon DEF ImportInv

(* The sweep deletes only while it holds its lock, and nothing pinned. *)
LEMMA SweepKeeps == ImportInv /\ (ListObjects \/ SweepStep) => ImportInv'
  <1> SUFFICES ASSUME ImportInv, ListObjects \/ SweepStep PROVE ImportInv'
    BY Zenon
  <1>1. CASE ListObjects
    <2>1. /\ sweeper'.pc = "listed" /\ UNCHANGED <<packages, pins, cas, import, creations>>
          /\ sweeper' \in [pc: {"idle", "listed", "locked", "deleting"}, listed: SUBSET Objects, todo: SUBSET Objects]
          /\ sweeper'.todo \subseteq sweeper'.listed
      BY <1>1, ZenonT(60) DEF ListObjects, NoSweep, ImportInv, ImportTypes
    <2>2. QED
      BY <2>1, ZenonT(60) DEF ImportInv, ImportTypes, Exclusive, Sweeping, Written, Pinned, Whole, OneRowPerContent
  <1>2. CASE TakeSweepLock
    <2>1. /\ sweeper'.pc = "locked" /\ UNCHANGED <<packages, pins, cas, import, creations>>
          /\ sweeper' \in [pc: {"idle", "listed", "locked", "deleting"}, listed: SUBSET Objects, todo: SUBSET Objects]
          /\ sweeper'.todo \subseteq sweeper'.listed
          /\ \A p \in Importers : import[p].pc \notin {"put", "wait", "publish"}
      BY <1>2, Zenon DEF TakeSweepLock, Sharing, ImportInv, ImportTypes
    <2>2. QED
      BY <2>1, Zenon DEF ImportInv, ImportTypes, Exclusive, Sweeping, Written, Pinned, Whole, OneRowPerContent
  <1>3. CASE QueryPins
    <2>1. /\ sweeper.pc = "locked" /\ sweeper'.pc = "deleting"
          /\ UNCHANGED <<packages, pins, cas, import, creations>>
          /\ sweeper' \in [pc: {"idle", "listed", "locked", "deleting"}, listed: SUBSET Objects, todo: SUBSET Objects]
          /\ sweeper'.todo \subseteq sweeper'.listed
          /\ \A x \in pins : x[2] \notin sweeper'.todo
      BY <1>3, Zenon DEF QueryPins, ImportInv, ImportTypes
    <2>2. QED
      BY <2>1, Zenon DEF ImportInv, ImportTypes, Exclusive, Sweeping, Written, Pinned, Whole, OneRowPerContent
  <1>4. CASE DeleteObject
    <2>1. PICK o \in sweeper.todo : sweeper' = [sweeper EXCEPT !.todo = @ \ {o}] /\ cas' = cas \ {o}
      BY <1>4, Zenon DEF DeleteObject
    <2>2. sweeper.pc = "deleting" /\ UNCHANGED <<packages, pins, import, creations>>
      BY <1>4, Zenon DEF DeleteObject
    <2>3. /\ sweeper'.pc = "deleting" /\ sweeper'.todo \subseteq sweeper.todo
          /\ sweeper' \in [pc: {"idle", "listed", "locked", "deleting"}, listed: SUBSET Objects, todo: SUBSET Objects]
          /\ sweeper'.todo \subseteq sweeper'.listed
      BY <2>1, <2>2, Zenon DEF ImportInv, ImportTypes
    <2>4. \A p \in Importers : import[p].pc \notin {"put", "wait", "publish"}
      BY <2>2, Zenon DEF ImportInv, Exclusive, Sweeping
    <2>5. QED
      BY <2>1, <2>2, <2>3, <2>4
         DEF ImportInv, ImportTypes, Exclusive, Written, Pinned, Whole, OneRowPerContent
  <1>5. CASE EndSweep
    <2>1. /\ sweeper' = NoSweep /\ UNCHANGED <<packages, pins, cas, creations>> /\ import' = Granted
      BY <1>5, Zenon DEF EndSweep
    <2>2. /\ import' \in [Importers -> ImportRequest]
          /\ \A p \in Importers :
               \/ import'[p] = import[p]
               \/ /\ import[p].pc = "queued" /\ import'[p].pc = "put"
                  /\ import'[p].archive = import[p].archive /\ import'[p].todo = import[p].todo
      BY <2>1, ZenonT(60) DEF Granted, ImportInv, ImportTypes, ImportRequest
    <2>3. ImportTypes'
      BY <2>1, <2>2, Zenon DEF ImportInv, ImportTypes, NoSweep
    <2>4. Exclusive'
      BY <2>1, <2>2 DEF ImportInv, Exclusive, NoSweep, Sweeping
    <2>5. \A p \in Importers : Written(p)'
      BY <2>1, <2>2 DEF ImportInv, Written
    <2>6. QED
      BY <2>1, <2>3, <2>4, <2>5, Zenon DEF ImportInv, Pinned, NoSweep, Whole, OneRowPerContent
  <1>6. QED
    BY <1>1, <1>2, <1>3, <1>4, <1>5, Zenon DEF SweepStep

(* No step of an import or of the sweep breaks the invariant. *)
LEMMA ImportStepKeeps ==
  ASSUME ImportInv, NEW p \in Importers,
         ImportStep(p) \/ ImportFails(p) \/ \E a \in Archives : BeginImport(p, a)
  PROVE  ImportInv'
  <1>a. import[p] \in ImportRequest /\ (import[p].pc # "idle" => import[p].archive \in Archives)
    BY Zenon DEF ImportInv, ImportTypes
  <1>b. Written(p) /\ cas \subseteq Objects /\ import \in [Importers -> ImportRequest]
    BY Zenon DEF ImportInv, ImportTypes
  <1>1. ASSUME NEW a \in Archives, BeginImport(p, a) PROVE ImportInv'
    <2> DEFINE r == [pc |-> "begun", archive |-> a, todo |-> {a.digest} \cup a.assets]
    <2>1. r \in ImportRequest /\ r.pc = "begun" /\ r.archive = a /\ r.todo = Needs(a)
      BY NeedsLemma, Zenon DEF ImportRequest, Needs
    <2>2. Set(p, r) /\ UNCHANGED <<packages, pins, cas, sweeper, creations>>
      BY <1>1, Zenon DEF BeginImport
    <2>3. Written(p)'
      BY <1>b, <2>1, <2>2, Zenon DEF Set, Written
    <2>4. QED
      BY <1>b, <2>1, <2>2, <2>3, MoveLemma, Zenon
  <1>2. CASE ImportFails(p)
    <2>1. Set(p, NoImport) /\ UNCHANGED <<packages, pins, cas, sweeper, creations>>
      BY <1>2, Zenon DEF ImportFails
    <2>2. Written(p)'
      BY <1>b, <2>1, NoImportLemma, Zenon DEF Set, Written
    <2>3. QED
      BY <1>b, <2>1, <2>2, MoveLemma, NoImportLemma, Zenon
  <1>3. CASE ShareSweepLock(p)
    <2> DEFINE r == [import[p] EXCEPT !.pc = IF Sweeping THEN "queued" ELSE "put"]
    <2>1. /\ r \in ImportRequest /\ r.archive = import[p].archive /\ r.todo = import[p].todo
          /\ r.pc = IF Sweeping THEN "queued" ELSE "put"
      BY <1>a, Zenon DEF ImportRequest
    <2>2. Set(p, r) /\ import[p].pc = "begun" /\ UNCHANGED <<packages, pins, cas, sweeper, creations>>
      BY <1>3, Zenon DEF ShareSweepLock
    <2>3. Written(p)'
      BY <1>b, <2>1, <2>2 DEF Set, Written
    <2>4. /\ r.pc # "idle" /\ r.pc # "publish" /\ r.archive \in Archives
          /\ r.pc \in {"put", "wait", "publish"} => ~Sweeping
      BY <1>a, <2>1, <2>2
    <2> HIDE DEF r
    <2>5. QED
      BY <1>b, <2>1, <2>2, <2>3, <2>4, MoveLemma, Zenon
  <1>4. ASSUME NEW o \in import[p].todo, PutObject(p, o) PROVE ImportInv'
    <2> DEFINE r == [import[p] EXCEPT !.todo = StillToPut(p, o),
                                      !.pc = IF StillToPut(p, o) = {} THEN "wait" ELSE "put"]
    <2>1. /\ r \in ImportRequest /\ r.archive = import[p].archive /\ r.todo = import[p].todo \ {o}
          /\ r.pc = IF import[p].todo \ {o} = {} THEN "wait" ELSE "put"
      BY <1>a, Zenon DEF ImportRequest, StillToPut
    <2>2. /\ Set(p, r) /\ import[p].pc = "put" /\ cas' = cas \cup {o}
          /\ UNCHANGED <<packages, pins, sweeper, creations>>
      BY <1>4, Zenon DEF PutObject
    <2>3. Written(p)'
      BY <1>b, <2>1, <2>2 DEF Set, Written
    <2>4. o \in Objects /\ ~Sweeping
      BY <1>a, <1>b, <2>2, NeedsLemma, Zenon DEF Written, ImportInv, Exclusive
    <2>5. /\ r.pc # "idle" /\ r.pc # "publish" /\ r.archive \in Archives
          /\ cas \subseteq cas' /\ cas' \subseteq Objects
      BY <1>a, <1>b, <2>1, <2>2, <2>4
    <2> HIDE DEF r
    <2>6. QED
      BY <2>1, <2>2, <2>3, <2>4, <2>5, MoveLemma, Zenon
  <1>5. CASE LockContent(p)
    <2> DEFINE r == [import[p] EXCEPT !.pc = "publish",
                       !.todo = {x \in packages : x.content = import[p].archive.content}]
    <2>1. /\ r \in ImportRequest /\ r.archive = import[p].archive /\ r.pc = "publish"
          /\ r.todo = {x \in packages : x.content = import[p].archive.content}
      BY <1>a, Zenon DEF ImportRequest, ImportInv, ImportTypes
    <2>2. /\ Set(p, r) /\ import[p].pc = "wait" /\ ContentFree(p)
          /\ UNCHANGED <<packages, pins, cas, sweeper, creations>>
      BY <1>5, Zenon DEF LockContent
    <2>3. Written(p)'
      BY <1>b, <2>1, <2>2, Zenon DEF Set, Written
    <2>4. ~Sweeping
      BY <2>2, Zenon DEF ImportInv, Exclusive
    <2>5. QED
      BY <1>a, <1>b, <2>1, <2>2, <2>3, <2>4, MoveLemma, Zenon
  <1>6. QED
    BY <1>1, <1>2, <1>3, <1>4, <1>5, PublishKeeps, Zenon DEF ImportStep

(* ImportCampaign and SweepBlobs (store/campaign.go): however many imports *)
(* and sweeps interleave or fail, a content has one row, told to one       *)
(* caller as created, and every object of a published campaign is there.   *)
THEOREM ImportsAreWhole == ImportSpec => []ImportedWhole
  <1>1. ImportInv /\ [ImportNext]_importVars => ImportInv'
    <2> SUFFICES ASSUME ImportInv, [ImportNext]_importVars PROVE ImportInv'
      BY Zenon
    <2>1. CASE UNCHANGED importVars
      BY <2>1
         DEF importVars, ImportInv, ImportTypes, Exclusive, Sweeping, Written, Pinned, Whole, OneRowPerContent
    <2>2. QED
      BY <2>1, ImportStepKeeps, SweepKeeps, Zenon DEF ImportNext
  <1>2. ImportInv => ImportedWhole
    <2> SUFFICES ASSUME ImportInv PROVE ImportedWhole
      BY Zenon
    <2>1. ImportTypeOK
      BY Zenon DEF ImportInv, ImportTypes, ImportTypeOK, ImportRequest
    <2>2. PublishedComplete
      <3> SUFFICES ASSUME NEW r \in packages
                   PROVE  \E a \in Archives : /\ a.digest = r.digest /\ a.content = r.content
                                             /\ {a.digest} \cup a.assets \subseteq cas
        BY Zenon DEF PublishedComplete
      <3>1. PICK a \in Archives : /\ a.digest = r.digest /\ a.content = r.content
                                 /\ \A o \in Needs(a) : <<r.digest, o>> \in pins
        BY Zenon DEF ImportInv, Pinned, Whole
      <3>2. Needs(a) \subseteq cas
        BY <3>1, Zenon DEF ImportInv, Pinned
      <3>3. QED
        BY <3>1, <3>2, Zenon DEF Needs
    <2>3. QED
      BY <2>1, <2>2, Zenon DEF ImportInv, ImportedWhole
  <1>3. QED
    BY ImportInitially, <1>1, <1>2, PTL DEF ImportSpec

(***************************************************************************)
(* Ingest implements EvidenceLog, for every number of callers, every set   *)
(* of batches and every bound.                                             *)
(***************************************************************************)
Tokens == UNION {{b[n].token : n \in DOMAIN b} : b \in Batches}
RowType == [id: RowIds, token: Tokens, at: Nat, tx: Callers \cup {NULL}]
ResultType == [status: {"created", "duplicate", "error"}, id: Nat]
JobType ==
  [pc: {"idle", "refused", "insert", "readback", "failed", "done"},
   batch: Batches \cup {<<>>}, next: Nat \ {0}, at: Nat, res: Seq(ResultType)]

IngestTypes ==
  /\ rows \subseteq RowType
  /\ purgedRows \subseteq RowType
  /\ \A r \in purgedRows : r.tx = NULL
  /\ time \in Nat
  /\ job \in [Callers -> JobType]
  /\ answer \in [Callers -> Seq(ResultType)]

(* The indexes: an id is drawn once, a token is held once. *)
Indexed ==
  /\ \A r, q \in rows \cup purgedRows : r.id = q.id => r = q
  /\ rows \cap purgedRows = {}
  /\ \A r, q \in rows : r.token = q.token /\ r.token # NOTOKEN => r = q

Active(c) == job[c].pc \in {"insert", "readback"}

(* No result before the nth names this id. *)
FirstNamed(j, n, id) == \A k \in 1..(n - 1) : j.res[k].status = "error" \/ j.res[k].id # id

(* The nth result of c's request j names row r. *)
Names(c, j, n, r) ==
  /\ r.id = j.res[n].id /\ r.token = j.batch[n].token
  /\ r.tx \in {NULL, c}
  /\ j.res[n].status = "created" <=> r.tx = c /\ FirstNamed(j, n, r.id)

Settled(c, j, n, R) ==
  IF j.batch[n].kind = "bad" THEN j.res[n].status = "error"
  ELSE j.res[n].status \in {"created", "duplicate"} /\ \E r \in R : Names(c, j, n, r)

(* What a transaction has done so far is what its results say. *)
Sound(c, j, R) ==
  j.pc \in {"insert", "readback"} =>
    /\ j.batch \in Batches /\ ~Unbindable(j.batch)
    /\ j.next <= Len(j.batch) + 1 /\ Len(j.res) = j.next - 1
    /\ j.pc = "readback" => j.next <= Len(j.batch) /\ j.batch[j.next].kind = "ok"
    /\ \A n \in 1..(j.next - 1) : Settled(c, j, n, R)

(* A row that is not committed belongs to a request under way, which says  *)
(* that it created it.                                                     *)
Created(j, id) == \E n \in 1..(j.next - 1) : j.res[n].status = "created" /\ j.res[n].id = id
Owned == \A r \in rows : r.tx # NULL => Active(r.tx) /\ Created(job[r.tx], r.id)

IngestInv ==
  /\ IngestTypes /\ Indexed /\ Owned
  /\ \A c \in Callers : Sound(c, job[c], rows \cup purgedRows)

(***************************************************************************)
(* Lemmas.                                                                 *)
(***************************************************************************)
LEMMA BatchLemma ==
  \A b \in Batches : /\ Len(b) \in Nat \ {0} /\ DOMAIN b = 1..Len(b)
                     /\ \A n \in DOMAIN b : b[n].kind \in {"ok", "bad", "foreign"} /\ b[n].token \in Tokens
  BY IngestAssumption DEF Tokens

(* An idle caller has a well-formed job. *)
LEMMA NoJobLemma == NoJob \in JobType /\ NoJob.pc = "idle"
  BY DEF NoJob, JobType

(* The end of a request, answered or failed, leaves a well-formed job. *)
LEMMA OverLemma ==
  ASSUME NEW c \in Callers, job[c] \in JobType, NEW end \in {"done", "failed"}
  PROVE  Over(c, end) \in JobType /\ Over(c, end).pc = end
  BY NoJobLemma, Zenon DEF Over, JobType

(* One row further, a job keeps its shape. *)
LEMMA StepLemma ==
  ASSUME NEW c \in Callers, NEW j, job \in [Callers -> JobType], j \in JobType, Step(c, j)
  PROVE  /\ job' \in [Callers -> JobType] /\ job'[c] = j
         /\ \A d \in Callers : d # c => job'[d] = job[d]
  BY Zenon DEF Step

(* The results of a request stand while the rows they name do. *)
LEMMA SoundLemma ==
  ASSUME NEW c, NEW j, NEW R, NEW S, Sound(c, j, R),
         \A r \in R : r.tx \in {NULL, c} => r \in S
  PROVE  Sound(c, j, S)
  BY Zenon DEF Sound, Settled, Names

(* One more result: the earlier ones stand. *)
LEMMA AdvanceLemma ==
  ASSUME NEW c \in Callers, NEW R, NEW S, NEW res \in ResultType,
         job[c] \in JobType, Active(c), Sound(c, job[c], R), R \subseteq S,
         job[c].next <= Len(job[c].batch),
         Settled(c, Advance(c, res), job[c].next, S)
  PROVE  /\ Advance(c, res) \in JobType /\ Sound(c, Advance(c, res), S)
         /\ \A id : Created(job[c], id) => Created(Advance(c, res), id)
         /\ \A id : res.status = "created" /\ res.id = id => Created(Advance(c, res), id)
  <1> DEFINE j == job[c]
             i == Advance(c, res)
  <1>1. /\ j.next \in Nat \ {0} /\ j.res \in Seq(ResultType) /\ Len(j.res) = j.next - 1
        /\ j.batch \in Batches /\ ~Unbindable(j.batch) /\ Len(j.batch) \in Nat
        /\ \A n \in 1..(j.next - 1) : Settled(c, j, n, R)
    BY BatchLemma, Zenon DEF JobType, Sound, Active
  <1>2. /\ i.pc = "insert" /\ i.batch = j.batch /\ i.next = j.next + 1 /\ i.at = j.at
        /\ i.res = Append(j.res, res) /\ i \in JobType
    <2>1. Append(j.res, res) \in Seq(ResultType) /\ j.next + 1 \in Nat \ {0}
      BY <1>1
    <2>2. QED
      BY <2>1, Zenon DEF Advance, JobType
  <1> HIDE DEF i, j
  <1>3. /\ Len(i.res) = j.next /\ i.res[j.next] = res
        /\ \A n \in 1..(j.next - 1) : i.res[n] = j.res[n]
    BY <1>1, <1>2
  <1>4. ASSUME NEW n \in 1..(j.next - 1) PROVE Settled(c, i, n, S)
    <2>0. \A k \in 1..(n - 1) : i.res[k] = j.res[k]
      BY <1>1, <1>3
    <2>1. \A id : FirstNamed(i, n, id) <=> FirstNamed(j, n, id)
      BY <2>0, Zenon DEF FirstNamed
    <2>2. Settled(c, j, n, R) /\ i.res[n] = j.res[n] /\ i.batch = j.batch
      BY <1>1, <1>2, <1>3, Zenon
    <2>3. \A r : Names(c, j, n, r) => Names(c, i, n, r)
      BY <2>1, <2>2, Zenon DEF Names
    <2>4. QED
      BY <2>2, <2>3, Zenon DEF Settled
  <1>5. \A n \in 1..(i.next - 1) : Settled(c, i, n, S)
    BY <1>1, <1>2, <1>4 DEF i, j
  <1>6. Sound(c, i, S)
    BY <1>1, <1>2, <1>3, <1>5 DEF Sound, j
  <1>7. \A id : Created(j, id) => Created(i, id)
    BY <1>1, <1>2, <1>3 DEF Created
  <1>8. \A id : res.status = "created" /\ res.id = id => Created(i, id)
    BY <1>1, <1>2, <1>3 DEF Created
  <1>9. QED
    BY <1>2, <1>6, <1>7, <1>8, Zenon DEF i, j

(* The invariant of the ingestion holds before the first batch. *)
LEMMA IngestInitially == IngestInit => IngestInv
  BY IngestAssumption, NoJobLemma DEF IngestInit, IngestInv, IngestTypes, Indexed, Owned, Sound

(***************************************************************************)
(* The steps keep the invariant.                                           *)
(***************************************************************************)
LEMMA SubmitKeeps ==
  ASSUME IngestInv, NEW c \in Callers, NEW b \in Batches, Submit(c, b)
  PROVE  IngestInv'
  <1>1. /\ rows' = rows /\ purgedRows' = purgedRows /\ answer' = answer /\ time' \in Nat
        /\ job[c].pc \in {"idle", "failed"} /\ job \in [Callers -> JobType]
    BY DEF Submit, IngestInv, IngestTypes
  <1>2. PICK j \in JobType : Step(c, j) /\ Sound(c, j, rows \cup purgedRows)
    <2>1. CASE Unbindable(b)
      BY <2>1, NoJobLemma DEF Submit, JobType, Sound
    <2>2. CASE ~Unbindable(b)
      <3> DEFINE j == [NoJob EXCEPT !.pc = "insert", !.batch = b, !.at = time']
      <3>1. j \in JobType /\ j.batch = b
        BY <1>1, NoJobLemma, Zenon DEF JobType
      <3>2. j.next = 1 /\ j.res = <<>> /\ j.pc = "insert"
        BY Zenon DEF NoJob
      <3>3. Step(c, j)
        BY <2>2, Zenon DEF Submit
      <3> HIDE DEF j
      <3>4. Sound(c, j, rows \cup purgedRows)
        BY <2>2, <3>1, <3>2, BatchLemma DEF Sound
      <3>5. QED
        BY <3>1, <3>3, <3>4, Zenon
    <2>3. QED
      BY <2>1, <2>2, Zenon
  <1>3. /\ job' \in [Callers -> JobType] /\ job'[c] = j
        /\ \A d \in Callers : d # c => job'[d] = job[d]
    BY <1>1, <1>2, StepLemma, Zenon
  <1>4. IngestTypes'
    BY <1>1, <1>3, Zenon DEF IngestInv, IngestTypes
  <1>5. Owned'
    <2>1. \A r \in rows : r.tx # NULL => r.tx # c /\ r.tx \in Callers
      BY <1>1, Zenon DEF IngestInv, IngestTypes, RowType, Owned, Active
    <2>2. QED
      BY <1>1, <1>3, <2>1, Zenon DEF IngestInv, Owned, Active
  <1>6. QED
    BY <1>1, <1>2, <1>3, <1>4, <1>5, Zenon DEF IngestInv, Indexed

(* A request that ends takes its uncommitted rows with it. *)
LEMMA FailsKeeps ==
  ASSUME IngestInv, NEW c \in Callers, Fails(c)
  PROVE  IngestInv'
  <1>1. /\ rows' = {r \in rows : r.tx # c} /\ Step(c, Over(c, "failed"))
        /\ UNCHANGED <<purgedRows, time, answer>>
    BY Zenon DEF Fails, AfterError, Rollback
  <1>2. /\ job' \in [Callers -> JobType] /\ job'[c].pc = "failed"
        /\ \A d \in Callers : d # c => job'[d] = job[d]
    BY <1>1, OverLemma, StepLemma, ZenonT(60) DEF IngestInv, IngestTypes
  <1>3. IngestTypes' /\ Indexed'
    BY <1>1, <1>2, Zenon DEF IngestInv, IngestTypes, Indexed
  <1>4. Owned'
    <2>1. \A r \in rows' : r \in rows /\ r.tx # c /\ (r.tx # NULL => r.tx \in Callers)
      BY <1>1, Zenon DEF IngestInv, IngestTypes, RowType
    <2>2. QED
      BY <1>2, <2>1, Zenon DEF IngestInv, Owned, Active
  <1>5. ASSUME NEW d \in Callers PROVE Sound(d, job'[d], rows' \cup purgedRows')
    <2>1. CASE d = c
      BY <1>2, <2>1, Zenon DEF Sound
    <2>2. CASE d # c
      <3>1. \A r \in rows \cup purgedRows : r.tx \in {NULL, d} => r \in rows' \cup purgedRows'
        BY <1>1, <2>2, IngestAssumption, Zenon
      <3>2. QED
        BY <1>2, <2>2, <3>1, SoundLemma, Zenon DEF IngestInv
    <2>3. QED
      BY <2>1, <2>2, Zenon
  <1>6. QED
    BY <1>3, <1>4, <1>5, Zenon DEF IngestInv

(* One more result of c, with the rows and the requests of others as they  *)
(* were.                                                                   *)
LEMMA ResultKeeps ==
  ASSUME IngestInv, NEW c \in Callers, NEW res \in ResultType,
         Active(c), job[c].next <= Len(job[c].batch), Step(c, Advance(c, res)),
         UNCHANGED <<purgedRows, time, answer>>,
         rows \subseteq rows', rows' \subseteq RowType, Indexed',
         \A r \in rows' \ rows : r.tx = c /\ res.status = "created" /\ res.id = r.id,
         Settled(c, Advance(c, res), job[c].next, rows' \cup purgedRows)
  PROVE  IngestInv'
  <1> DEFINE i == Advance(c, res)
             R == rows \cup purgedRows
             S == rows' \cup purgedRows
  <1>0. job \in [Callers -> JobType] /\ Sound(c, job[c], R) /\ R \subseteq S
    BY Zenon DEF IngestInv, IngestTypes
  <1>1. /\ i \in JobType /\ Sound(c, i, S)
        /\ \A id : Created(job[c], id) => Created(i, id)
        /\ \A id : res.status = "created" /\ res.id = id => Created(i, id)
    BY <1>0, AdvanceLemma, Zenon
  <1>2. /\ job' \in [Callers -> JobType] /\ job'[c] = i
        /\ \A d \in Callers : d # c => job'[d] = job[d]
    BY <1>0, <1>1, StepLemma, Zenon
  <1>3. i.pc = "insert"
    BY <1>0, Zenon DEF Advance, JobType
  <1> HIDE DEF i
  <1>4. IngestTypes'
    BY <1>2, Zenon DEF IngestInv, IngestTypes
  <1>5. ASSUME NEW r \in rows', r.tx # NULL PROVE Active(r.tx)' /\ Created(job'[r.tx], r.id)
    <2>0. r.tx \in Callers
      BY <1>4, <1>5, Zenon DEF IngestTypes, RowType
    <2>1. CASE r.tx = c
      BY <1>1, <1>2, <1>3, <1>5, <2>1, Zenon DEF Active, IngestInv, Owned
    <2>2. CASE r.tx # c
      BY <1>2, <1>5, <2>0, <2>2, Zenon DEF Active, IngestInv, Owned
    <2>3. QED
      BY <2>1, <2>2, Zenon
  <1>6. ASSUME NEW d \in Callers PROVE Sound(d, job'[d], S)
    <2>1. CASE d = c
      BY <1>1, <1>2, <2>1, Zenon
    <2>2. CASE d # c
      BY <1>0, <1>2, <2>2, SoundLemma, Zenon DEF IngestInv
    <2>3. QED
      BY <2>1, <2>2, Zenon
  <1>7. QED
    BY <1>4, <1>5, <1>6, Zenon DEF IngestInv, Owned

(* Reporting an invalid record keeps the invariant. *)
LEMMA SkipInvalidKeeps ==
  ASSUME IngestInv, NEW c \in Callers, SkipInvalid(c)
  PROVE  IngestInv'
  <1> DEFINE j == job[c]
             res == Result("error", 0)
  <1>1. /\ j.pc = "insert" /\ ~Finished(c) /\ Current(c).kind # "ok" /\ Step(c, Advance(c, res))
        /\ UNCHANGED <<rows, purgedRows, time, answer>>
    BY Zenon DEF SkipInvalid
  <1>2. /\ j \in JobType /\ j.batch \in Batches /\ ~Unbindable(j.batch) /\ Len(j.res) = j.next - 1
    BY <1>1, Zenon DEF IngestInv, IngestTypes, Sound
  <1>3. j.next \in DOMAIN j.batch /\ j.next <= Len(j.batch)
    BY <1>1, <1>2, BatchLemma DEF Finished, JobType
  <1>4. j.batch[j.next].kind = "bad"
    BY <1>1, <1>2, <1>3, BatchLemma, Zenon DEF Unbindable, Current
  <1>5. res \in ResultType /\ res.status = "error"
    BY Zenon DEF Result, ResultType
  <1>6. Advance(c, res).batch = j.batch /\ Advance(c, res).res[j.next] = res
    BY <1>2, <1>5 DEF Advance, JobType
  <1>7. Settled(c, Advance(c, res), j.next, rows' \cup purgedRows)
    BY <1>4, <1>5, <1>6, Zenon DEF Settled
  <1>8. Indexed' /\ rows' \subseteq RowType /\ Active(c)
    BY <1>1, Zenon DEF IngestInv, IngestTypes, Indexed, Active
  <1> HIDE DEF res
  <1>9. QED
    BY <1>1, <1>3, <1>5, <1>7, <1>8, ResultKeeps, Zenon

(* Inserting a row, or meeting its idempotency key, keeps the invariant. *)
LEMMA InsertKeeps ==
  ASSUME IngestInv, NEW c \in Callers, InsertOne(c)
  PROVE  IngestInv'
  <1>1. Inserting(c) /\ WaitsFor(c) = {} /\ UNCHANGED <<purgedRows, time, answer>>
    BY Zenon DEF InsertOne
  <1>2. PICK j : j = job[c]
    BY Zenon
  <1>3. /\ j \in JobType /\ j.batch \in Batches /\ ~Unbindable(j.batch)
        /\ Len(j.res) = j.next - 1 /\ j.next \in DOMAIN j.batch /\ j.next <= Len(j.batch)
        /\ j.batch[j.next].kind = "ok" /\ j.batch[j.next].token \in Tokens
        /\ j.pc = "insert" /\ Current(c) = j.batch[j.next]
    <2>1. /\ j \in JobType /\ j.batch \in Batches /\ ~Unbindable(j.batch) /\ Len(j.res) = j.next - 1
      BY <1>1, <1>2, Zenon DEF IngestInv, IngestTypes, Sound, Inserting
    <2>2. QED
      BY <1>1, <1>2, <2>1, BatchLemma DEF Inserting, Finished, Current, JobType
  <1>4. CASE Holding(Current(c).token) = {}
    <2>1. PICK id \in RowIds \ {r.id : r \in rows \cup purgedRows} :
            rows' = rows \cup {NewRow(c, id)} /\ Step(c, Advance(c, Result("created", id)))
      BY <1>4, Zenon DEF InsertOne
    <2>2. PICK x : x = NewRow(c, id)
      BY Zenon
    <2>3. /\ x \in RowType /\ x.id = id /\ x.token = j.batch[j.next].token /\ x.tx = c
      BY <1>2, <1>3, <2>2, Zenon DEF NewRow, RowType, JobType
    <2>4. rows' \subseteq RowType
      BY <2>1, <2>2, <2>3, Zenon DEF IngestInv, IngestTypes
    <2>5. Indexed'
      <3>1. \A r \in rows : r.token = x.token => x.token = NOTOKEN
        BY <1>3, <1>4, <2>3, Zenon DEF Holding
      <3>2. \A r \in rows \cup purgedRows : r.id # x.id
        BY <2>1, <2>3, Zenon
      <3>3. QED
        BY <1>1, <2>1, <2>2, <3>1, <3>2, ZenonT(60) DEF IngestInv, Indexed
    <2>6. PICK res : res = Result("created", id)
      BY Zenon
    <2>7. res \in ResultType /\ res.status = "created" /\ res.id = id
      BY <2>6, IngestAssumption, Zenon DEF Result, ResultType
    <2>8. PICK i : i = Advance(c, res)
      BY Zenon
    <2>9. /\ i.batch = j.batch /\ i.res[j.next] = res
          /\ \A n \in 1..(j.next - 1) : i.res[n] = j.res[n]
      BY <1>2, <1>3, <2>7, <2>8 DEF Advance, JobType
    <2>10. FirstNamed(i, j.next, id)
      <3> SUFFICES ASSUME NEW k \in 1..(j.next - 1), i.res[k].status # "error" PROVE i.res[k].id # id
        BY Zenon DEF FirstNamed
      <3>1. Settled(c, j, k, rows \cup purgedRows) /\ j.res[k].status # "error"
        BY <1>2, <1>3, <2>9, Zenon DEF IngestInv, Sound
      <3>2. \E r \in rows \cup purgedRows : r.id = j.res[k].id
        BY <3>1, Zenon DEF Settled, Names
      <3>3. QED
        BY <2>1, <2>9, <3>2, Zenon
    <2>11. Names(c, i, j.next, x)
      BY <2>3, <2>7, <2>9, <2>10, Zenon DEF Names
    <2>12. Settled(c, i, j.next, rows' \cup purgedRows)
      BY <1>3, <2>1, <2>2, <2>7, <2>9, <2>11, Zenon DEF Settled
    <2>13. Active(c) /\ \A r \in rows' \ rows : r.tx = c /\ res.status = "created" /\ res.id = r.id
      BY <1>2, <1>3, <2>1, <2>2, <2>3, <2>7, Zenon DEF Active
    <2>14. QED
      BY <1>1, <1>2, <1>3, <2>1, <2>4, <2>5, <2>6, <2>7, <2>8, <2>12, <2>13, ResultKeeps, Zenon
  <1>5. CASE Holding(Current(c).token) # {}
    <2> DEFINE i == [job[c] EXCEPT !.pc = "readback"]
    <2>1. UNCHANGED rows /\ Step(c, i)
      BY <1>5, Zenon DEF InsertOne
    <2>2. /\ i \in JobType /\ i.pc = "readback" /\ i.batch = j.batch /\ i.next = j.next /\ i.res = j.res
      BY <1>2, <1>3, Zenon DEF JobType
    <2> HIDE DEF i
    <2>3. /\ job' \in [Callers -> JobType] /\ job'[c] = i
          /\ \A d \in Callers : d # c => job'[d] = job[d]
      BY <2>1, <2>2, StepLemma, Zenon DEF IngestInv, IngestTypes
    <2>4. Sound(c, i, rows \cup purgedRows)
      <3>1. \A n \in 1..(j.next - 1) : Settled(c, i, n, rows \cup purgedRows)
        <4>1. Sound(c, j, rows \cup purgedRows)
          BY <1>2, Zenon DEF IngestInv
        <4>2. ASSUME NEW n \in 1..(j.next - 1) PROVE Settled(c, i, n, rows \cup purgedRows)
          <5>1. Settled(c, j, n, rows \cup purgedRows)
            BY <1>3, <4>1, Zenon DEF Sound
          <5>2. QED
            BY <2>2, <5>1, Zenon DEF Settled, Names, FirstNamed
        <4>3. QED
          BY <4>2, Zenon
      <3>2. j.next <= Len(j.batch) + 1
        BY <1>3, BatchLemma DEF JobType
      <3>3. QED
        BY <1>3, <2>2, <3>1, <3>2, Zenon DEF Sound
    <2>5. IngestTypes' /\ Indexed'
      BY <1>1, <2>1, <2>3, Zenon DEF IngestInv, IngestTypes, Indexed
    <2>6. \A id : Created(j, id) => Created(i, id)
      BY <2>2, Zenon DEF Created
    <2>7. Owned'
      <3> SUFFICES ASSUME NEW r \in rows, r.tx # NULL PROVE Active(r.tx)' /\ Created(job'[r.tx], r.id)
        BY <2>1, Zenon DEF Owned
      <3>1. r.tx \in Callers /\ Active(r.tx) /\ Created(job[r.tx], r.id)
        BY Zenon DEF IngestInv, IngestTypes, RowType, Owned
      <3>2. CASE r.tx = c
        <4>1. job'[r.tx] = i /\ job[r.tx] = j
          BY <1>2, <2>3, <3>2, Zenon
        <4>2. QED
          BY <2>2, <2>6, <3>1, <4>1, Zenon DEF Active
      <3>3. CASE r.tx # c
        BY <2>3, <3>1, <3>3, Zenon DEF Active
      <3>4. QED
        BY <3>2, <3>3, Zenon
    <2>8. QED
      BY <1>1, <2>1, <2>3, <2>4, <2>5, <2>7, Zenon DEF IngestInv
  <1>6. QED
    BY <1>4, <1>5, Zenon

(* Reading back the row of a duplicate keeps the invariant. *)
LEMMA ReadBackKeeps ==
  ASSUME IngestInv, NEW c \in Callers, ReadBack(c)
  PROVE  IngestInv'
  <1>1. PICK j : j = job[c]
    BY Zenon
  <1>2. /\ j \in JobType /\ j.pc = "readback" /\ j.batch \in Batches /\ Len(j.res) = j.next - 1
        /\ j.next <= Len(j.batch) /\ j.batch[j.next].kind = "ok" /\ Current(c) = j.batch[j.next]
    BY <1>1, Zenon DEF ReadBack, IngestInv, IngestTypes, Sound, Current
  <1>3. CASE Fails(c)
    BY <1>3, FailsKeeps, Zenon
  <1>4. ASSUME NEW r \in Holding(Current(c).token), r.tx \in {NULL, c},
               Step(c, Advance(c, Result("duplicate", r.id))),
               UNCHANGED <<rows, purgedRows, time, answer>>
        PROVE  IngestInv'
    <2>1. r \in rows /\ r \in RowType /\ r.token = j.batch[j.next].token
      BY <1>2, Zenon DEF Holding, IngestInv, IngestTypes
    <2>2. PICK res : res = Result("duplicate", r.id)
      BY Zenon
    <2>3. res \in ResultType /\ res.status = "duplicate" /\ res.id = r.id
      BY <2>1, <2>2, IngestAssumption, Zenon DEF Result, ResultType, RowType
    <2>4. PICK i : i = Advance(c, res)
      BY Zenon
    <2>5. /\ i.batch = j.batch /\ i.res[j.next] = res
          /\ \A n \in 1..(j.next - 1) : i.res[n] = j.res[n]
      BY <1>1, <1>2, <2>3, <2>4 DEF Advance, JobType
    <2>6. r.tx = c => ~FirstNamed(i, j.next, r.id)
      <3> SUFFICES ASSUME r.tx = c PROVE \E k \in 1..(j.next - 1) : i.res[k].status # "error" /\ i.res[k].id = r.id
        BY Zenon DEF FirstNamed
      <3>1. PICK n \in 1..(j.next - 1) : j.res[n].status = "created" /\ j.res[n].id = r.id
        BY <1>1, <2>1, IngestAssumption, Zenon DEF IngestInv, Owned, Created
      <3>2. QED
        BY <2>5, <3>1, Zenon
    <2>7. Names(c, i, j.next, r)
      BY <1>4, <2>1, <2>3, <2>5, <2>6, Zenon DEF Names
    <2>8. Settled(c, i, j.next, rows' \cup purgedRows)
      BY <1>2, <1>4, <2>1, <2>3, <2>5, <2>7, Zenon DEF Settled
    <2>9. Active(c) /\ rows' \subseteq RowType /\ Indexed'
      BY <1>1, <1>2, <1>4, Zenon DEF Active, IngestInv, IngestTypes, Indexed
    <2>10. QED
      BY <1>1, <1>2, <1>4, <2>2, <2>3, <2>4, <2>8, <2>9, ResultKeeps, Zenon
  <1>5. QED
    BY <1>3, <1>4, Zenon DEF ReadBack

(* Commit keeps ids and tokens, and its rows are nobody's. *)
LEMMA CommitRows ==
  ASSUME NEW c \in Callers, rows \subseteq RowType,
         rows' = {IF r.tx = c THEN [r EXCEPT !.tx = NULL] ELSE r : r \in rows}
  PROVE  /\ rows' \subseteq RowType
         /\ \A x \in rows : x.tx # c => x \in rows'
         /\ \A x \in rows : x.tx = c => \E y \in rows' : y.id = x.id /\ y.token = x.token /\ y.tx = NULL
         /\ \A y \in rows' : \/ y \in rows /\ y.tx # c
                            \/ \E x \in rows : /\ x.tx = c /\ y = [x EXCEPT !.tx = NULL]
                                              /\ y.id = x.id /\ y.token = x.token /\ y.tx = NULL
  <1>1. \A r \in rows : /\ [r EXCEPT !.tx = NULL] \in RowType
                        /\ [r EXCEPT !.tx = NULL].id = r.id /\ [r EXCEPT !.tx = NULL].token = r.token
                        /\ [r EXCEPT !.tx = NULL].tx = NULL
    BY Zenon DEF RowType
  <1>2. QED
    BY <1>1, Zenon

(* Committing a batch keeps the invariant. *)
LEMMA CommitKeeps ==
  ASSUME IngestInv, NEW c \in Callers, Commit(c)
  PROVE  IngestInv'
  <1>1. /\ rows' = {IF r.tx = c THEN [r EXCEPT !.tx = NULL] ELSE r : r \in rows}
        /\ answer' = [answer EXCEPT ![c] = job[c].res] /\ UNCHANGED <<purgedRows, time>>
    BY Zenon DEF Commit
  <1>2. /\ rows' \subseteq RowType
        /\ \A x \in rows : x.tx # c => x \in rows'
        /\ \A y \in rows' : \/ y \in rows /\ y.tx # c
                           \/ \E x \in rows : /\ x.tx = c /\ y = [x EXCEPT !.tx = NULL]
                                             /\ y.id = x.id /\ y.token = x.token /\ y.tx = NULL
    BY <1>1, CommitRows, Zenon DEF IngestInv, IngestTypes
  <1>3. PICK end \in {"done", "failed"} : Step(c, Over(c, end))
    BY Zenon DEF Commit
  <1>4. /\ job' \in [Callers -> JobType] /\ job'[c].pc = end
        /\ \A d \in Callers : d # c => job'[d] = job[d]
    BY <1>3, OverLemma, StepLemma, ZenonT(60) DEF IngestInv, IngestTypes
  <1>5. IngestTypes'
    <2>1. job[c].res \in Seq(ResultType)
      BY Zenon DEF IngestInv, IngestTypes, JobType
    <2>2. QED
      BY <1>1, <1>2, <1>4, <2>1, Zenon DEF IngestInv, IngestTypes
  <1>6. Indexed'
    <2>1. \A y \in rows' \cup purgedRows : \E x \in rows \cup purgedRows :
            x.id = y.id /\ y = IF x.tx = c THEN [x EXCEPT !.tx = NULL] ELSE x
      BY <1>2, IngestAssumption, Zenon DEF IngestInv, IngestTypes
    <2>2. ASSUME NEW y \in rows' \cup purgedRows, NEW z \in rows' \cup purgedRows, y.id = z.id PROVE y = z
      <3>1. PICK u \in rows \cup purgedRows : u.id = y.id /\ y = IF u.tx = c THEN [u EXCEPT !.tx = NULL] ELSE u
        BY <2>1, Zenon
      <3>2. PICK v \in rows \cup purgedRows : v.id = z.id /\ z = IF v.tx = c THEN [v EXCEPT !.tx = NULL] ELSE v
        BY <2>1, Zenon
      <3>3. u = v
        BY <2>2, <3>1, <3>2, Zenon DEF IngestInv, Indexed
      <3>4. QED
        BY <3>1, <3>2, <3>3, Zenon
    <2>3. rows' \cap purgedRows = {}
      <3> SUFFICES ASSUME NEW y \in rows', y \in purgedRows PROVE FALSE
        BY Zenon
      <3>1. PICK x \in rows : x.id = y.id
        BY <1>2, Zenon
      <3>2. QED
        BY <3>1, Zenon DEF IngestInv, Indexed
    <2>4. ASSUME NEW y \in rows', NEW z \in rows', y.token = z.token, y.token # NOTOKEN PROVE y = z
      BY <1>2, <2>4 DEF IngestInv, Indexed
    <2>5. QED
      BY <1>1, <2>2, <2>3, <2>4, Zenon DEF Indexed
  <1>7. Owned'
    <2> SUFFICES ASSUME NEW r \in rows', r.tx # NULL PROVE Active(r.tx)' /\ Created(job'[r.tx], r.id)
      BY Zenon DEF Owned
    <2>1. r \in rows /\ r.tx # c /\ r.tx \in Callers
      BY <1>2, Zenon DEF RowType
    <2>2. QED
      BY <1>4, <2>1, Zenon DEF IngestInv, Owned, Active
  <1>8. ASSUME NEW d \in Callers PROVE Sound(d, job'[d], rows' \cup purgedRows')
    <2>1. CASE d = c
      BY <1>4, <2>1, Zenon DEF Sound
    <2>2. CASE d # c
      <3>1. \A r \in rows \cup purgedRows : r.tx \in {NULL, d} => r \in rows' \cup purgedRows'
        BY <1>1, <1>2, <2>2, IngestAssumption, Zenon
      <3>2. QED
        BY <1>4, <2>2, <3>1, SoundLemma, Zenon DEF IngestInv
    <2>3. QED
      BY <2>1, <2>2, Zenon
  <1>9. QED
    BY <1>5, <1>6, <1>7, <1>8, Zenon DEF IngestInv

(* No step of the ingestion breaks its invariant. *)
LEMMA IngestInvStep == IngestInv /\ [IngestNext]_ingestVars => IngestInv'
  <1> SUFFICES ASSUME IngestInv, [IngestNext]_ingestVars PROVE IngestInv'
    BY Zenon
  <1>1. CASE UNCHANGED <<rows, purgedRows, time, job, answer>>
    BY <1>1, Zenon DEF IngestInv, IngestTypes, Indexed, Owned, Active
  <1>2. ASSUME NEW r \in rows, RetentionDeletes(r) PROVE IngestInv'
    <2>1. /\ r \in rows /\ r.tx = NULL /\ rows' = rows \ {r} /\ purgedRows' = purgedRows \cup {r}
          /\ UNCHANGED <<time, job, answer>>
      BY <1>2, Zenon DEF RetentionDeletes, Committed
    <2>2. IngestTypes' /\ Indexed'
      BY <2>1, ZenonT(60) DEF IngestInv, IngestTypes, Indexed
    <2>3. Owned'
      BY <2>1, Zenon DEF IngestInv, Owned, Active
    <2>4. rows' \cup purgedRows' = rows \cup purgedRows
      BY <2>1, Zenon
    <2>5. QED
      BY <2>1, <2>2, <2>3, <2>4, Zenon DEF IngestInv
  <1>3. ASSUME NEW c \in Callers, IngestStep(c) \/ Abort(c) \/ \E b \in Batches : Submit(c, b)
        PROVE  IngestInv'
    BY <1>3, SkipInvalidKeeps, InsertKeeps, ReadBackKeeps, CommitKeeps, FailsKeeps, SubmitKeeps, Zenon
       DEF IngestStep, DeadlockDetected, Abort
  <1>4. QED
    BY <1>1, <1>2, <1>3, Zenon DEF IngestNext, BeginWalk, ListPage, ingestVars

(***************************************************************************)
(* Refinement: a commit files the batch, retention's delete purges a       *)
(* record, and nothing else is seen.                                       *)
(***************************************************************************)
View(r) == [id |-> r.id, token |-> r.token]

(* A commit is one step of the log: it files the whole batch. *)
LEMMA CommitFiles ==
  ASSUME IngestInv, NEW c \in Callers, Commit(c)
  PROVE  Log!File(c, job[c].batch)
  <1>0. PICK j, L, M, P : /\ j = job[c]
                          /\ L = Shown(Committed) /\ M = Shown(Committed)' /\ P = Shown(purgedRows)
    BY Zenon
  <1>1. /\ rows' = {IF r.tx = c THEN [r EXCEPT !.tx = NULL] ELSE r : r \in rows}
        /\ answer' = [answer EXCEPT ![c] = j.res] /\ purgedRows' = purgedRows
        /\ j.pc = "insert" /\ Finished(c)
    BY <1>0, Zenon DEF Commit
  <1>2. /\ j \in JobType /\ j.batch \in Batches /\ ~Unbindable(j.batch)
        /\ j.next = Len(j.batch) + 1 /\ DOMAIN j.res = 1..Len(j.batch) /\ DOMAIN j.batch = 1..Len(j.batch)
        /\ \A n \in DOMAIN j.batch : Settled(c, j, n, rows \cup purgedRows)
    <2>1. /\ j \in JobType /\ j.batch \in Batches /\ ~Unbindable(j.batch)
          /\ j.next <= Len(j.batch) + 1 /\ Len(j.res) = j.next - 1
          /\ \A n \in 1..(j.next - 1) : Settled(c, j, n, rows \cup purgedRows)
      BY <1>0, <1>1, Zenon DEF IngestInv, IngestTypes, Sound
    <2>2. Len(j.batch) \in Nat /\ DOMAIN j.batch = 1..Len(j.batch) /\ j.next \in Nat /\ j.res \in Seq(ResultType)
      BY <2>1, BatchLemma, Zenon DEF JobType
    <2>3. j.next = Len(j.batch) + 1
      BY <1>0, <1>1, <2>1, <2>2 DEF Finished
    <2>4. DOMAIN j.res = 1..Len(j.res) /\ Len(j.res) = Len(j.batch)
      BY <2>1, <2>2, <2>3
    <2>5. j.next - 1 = Len(j.batch)
      BY <2>2, <2>3
    <2>6. QED
      BY <2>1, <2>2, <2>3, <2>4, <2>5, Zenon
  <1>3. \A v : v \in L <=> \E r \in rows : r.tx = NULL /\ v = View(r)
    BY <1>0, Zenon DEF Shown, Committed, View
  <1>4. \A v : v \in M <=> \E r \in rows : r.tx \in {NULL, c} /\ v = View(r)
    <2>1. \A v : v \in M <=> \E r \in rows' : r.tx = NULL /\ v = View(r)
      BY <1>0, Zenon DEF Shown, Committed, View
    <2>0. rows \subseteq RowType
      BY Zenon DEF IngestInv, IngestTypes
    <2>2. /\ \A x \in rows : x.tx # c => x \in rows'
          /\ \A x \in rows : x.tx = c => \E y \in rows' : y.id = x.id /\ y.token = x.token /\ y.tx = NULL
          /\ \A y \in rows' : \/ y \in rows /\ y.tx # c
                             \/ \E x \in rows : /\ x.tx = c /\ y = [x EXCEPT !.tx = NULL]
                                               /\ y.id = x.id /\ y.token = x.token /\ y.tx = NULL
      BY <1>1, <2>0, CommitRows, Zenon
    <2>3. \A x, y : x.id = y.id /\ x.token = y.token => View(x) = View(y)
      BY Zenon DEF View
    <2>4. QED
      BY <2>1, <2>2, <2>3, IngestAssumption
  <1>5. \A v : v \in P <=> \E r \in purgedRows : v = View(r)
    BY <1>0, Zenon DEF Shown, View
  <1>6. \A r : View(r).id = r.id /\ View(r).token = r.token
    BY Zenon DEF View
  <1>7. \A r, q \in rows \cup purgedRows : View(r) = View(q) => r = q
    BY <1>6, ZenonT(60) DEF IngestInv, Indexed
  <1>8. ASSUME NEW x \in rows \cup purgedRows, x.tx \in {NULL, c}
        PROVE  View(x) \in M \cup P /\ (View(x) \in M \ L <=> x.tx = c)
    <2>1. CASE x \in rows
      BY <1>3, <1>4, <1>7, <1>8, <2>1, IngestAssumption
    <2>2. CASE x \in purgedRows
      <3>1. x.tx = NULL /\ x \notin rows
        BY <2>2, Zenon DEF IngestInv, IngestTypes, Indexed
      <3>2. View(x) \notin M
        BY <1>4, <1>7, <2>2, <3>1, Zenon
      <3>3. QED
        BY <1>5, <2>2, <3>1, <3>2, IngestAssumption, Zenon
    <2>3. QED
      BY <2>1, <2>2, Zenon
  <1>9. answer'[c] = j.res /\ \A d \in Callers \ {c} : answer'[d] = answer[d]
    BY <1>1, Zenon DEF IngestInv, IngestTypes
  <1>10. \A n \in DOMAIN j.batch : j.batch[n].kind # "foreign"
    BY <1>2, Zenon DEF Unbindable
  <1>11. L \subseteq M
    BY <1>3, <1>4, Zenon
  <1>12. ASSUME NEW r \in M \ L, NEW q \in M, r.token = q.token, r.token # NOTOKEN PROVE q = r
    <2>1. PICK x \in rows : r = View(x)
      BY <1>4, Zenon
    <2>2. PICK y \in rows : q = View(y)
      BY <1>4, Zenon
    <2>3. x = y
      BY <1>6, <1>12, <2>1, <2>2, ZenonT(60) DEF IngestInv, Indexed
    <2>4. QED
      BY <2>1, <2>2, <2>3, Zenon
  <1>13. ASSUME NEW n \in DOMAIN j.batch
         PROVE  IF j.batch[n].kind = "bad" THEN j.res[n].status = "error"
                ELSE /\ j.res[n].status \in {"created", "duplicate"}
                     /\ \E r \in {v \in M \cup P : v.id = j.res[n].id} :
                          /\ r.token = j.batch[n].token
                          /\ j.res[n].status = "created" <=>
                               /\ r \in M \ L
                               /\ \A k \in 1..(n - 1) : j.res[k].status = "error" \/ j.res[k].id # r.id
    <2>1. Settled(c, j, n, rows \cup purgedRows)
      BY <1>2, Zenon
    <2>2. CASE j.batch[n].kind = "bad"
      BY <2>1, <2>2, Zenon DEF Settled
    <2>3. CASE j.batch[n].kind # "bad"
      <3>1. PICK x \in rows \cup purgedRows : Names(c, j, n, x)
        BY <2>1, <2>3, Zenon DEF Settled
      <3>2. /\ x.tx \in {NULL, c} /\ x.id = j.res[n].id /\ x.token = j.batch[n].token
            /\ j.res[n].status = "created" <=>
                 /\ x.tx = c
                 /\ \A k \in 1..(n - 1) : j.res[k].status = "error" \/ j.res[k].id # x.id
        BY <3>1, Zenon DEF Names, FirstNamed
      <3>3. View(x) \in M \cup P /\ (View(x) \in M \ L <=> x.tx = c)
        BY <1>8, <3>2, Zenon
      <3>4. QED
        BY <1>6, <2>1, <2>3, <3>2, <3>3 DEF Settled
    <2>4. QED
      BY <2>2, <2>3, Zenon
  <1>14. \A r \in M \ L : \E n \in DOMAIN j.res : j.res[n].status = "created" /\ j.res[n].id = r.id
    <2> SUFFICES ASSUME NEW r \in M, r \notin L
                 PROVE  \E n \in DOMAIN j.res : j.res[n].status = "created" /\ j.res[n].id = r.id
      BY Zenon
    <2>1. PICK x \in rows : x.tx = c /\ r = View(x)
      BY <1>3, <1>4, Zenon
    <2>2. Created(j, x.id)
      BY <1>0, <2>1, IngestAssumption, Zenon DEF IngestInv, Owned
    <2>3. PICK n \in 1..(j.next - 1) : j.res[n].status = "created" /\ j.res[n].id = x.id
      BY <2>2, Zenon DEF Created
    <2>4. n \in DOMAIN j.res
      BY <1>2, <2>3, BatchLemma
    <2>5. QED
      BY <1>6, <2>1, <2>3, <2>4, Zenon
  <1>15. UNCHANGED Shown(purgedRows)
    BY <1>1, Zenon DEF Shown
  <1>16. \A n \in DOMAIN j.batch : Log!Became(j.batch, j.res, n)
    BY <1>0, <1>13 DEF Log!Became, Log!Named
  <1>17. QED
    BY <1>0, <1>2, <1>9, <1>10, <1>11, <1>12, <1>14, <1>15, <1>16 DEF Log!File

(* Every step of the ingestion is a step of the log or leaves it as it was. *)
LEMMA IngestImplementsLog == IngestInv /\ [IngestNext]_ingestVars => [Log!LogNext]_(Log!logVars)
  <1> SUFFICES ASSUME IngestInv, [IngestNext]_ingestVars PROVE [Log!LogNext]_(Log!logVars)
    BY Zenon
  <1>1. ASSUME Committed' = Committed, UNCHANGED <<purgedRows, answer>>
        PROVE  UNCHANGED Log!logVars
    BY <1>1, Zenon DEF Log!logVars, Shown
  <1>2. ASSUME NEW c \in Callers, Fails(c) PROVE UNCHANGED Log!logVars
    <2>1. rows' = {r \in rows : r.tx # c} /\ UNCHANGED <<purgedRows, answer>>
      BY <1>2, Zenon DEF Fails, AfterError, Rollback
    <2>2. Committed' = Committed
      BY <2>1, IngestAssumption, Zenon DEF Committed
    <2>3. QED
      BY <1>1, <2>1, <2>2, Zenon
  <1>3. ASSUME NEW c \in Callers, InsertOne(c) PROVE UNCHANGED Log!logVars
    <2>1. UNCHANGED <<purgedRows, answer>>
      BY <1>3, Zenon DEF InsertOne
    <2>2. rows' = rows \/ \E id \in RowIds : rows' = rows \cup {NewRow(c, id)}
      BY <1>3, Zenon DEF InsertOne
    <2>3. \A id : NewRow(c, id).tx = c
      BY Zenon DEF NewRow
    <2>4. Committed' = Committed
      BY <2>2, <2>3, IngestAssumption, Zenon DEF Committed
    <2>5. QED
      BY <1>1, <2>1, <2>4, Zenon
  <1>4. ASSUME NEW c \in Callers, Commit(c) PROVE Log!LogNext
    <2>1. job[c].batch \in Batches
      BY <1>4, Zenon DEF Commit, IngestInv, Sound
    <2>2. QED
      BY <1>4, <2>1, CommitFiles, Zenon DEF Log!LogNext
  <1>5. ASSUME NEW r \in rows, RetentionDeletes(r) PROVE Log!LogNext
    <2>1. /\ r.tx = NULL /\ rows' = rows \ {r} /\ purgedRows' = purgedRows \cup {r} /\ answer' = answer
      BY <1>5, Zenon DEF RetentionDeletes, Committed
    <2>2. View(r) \in Shown(Committed)
      BY <2>1, Zenon DEF Shown, Committed, View
    <2>3. \A q \in rows : View(q) = View(r) => q = r
      BY Zenon DEF View, IngestInv, Indexed
    <2>4. Shown(Committed)' = Shown(Committed) \ {View(r)}
      <3>1. Committed' = Committed \ {r} /\ Committed \subseteq rows
        BY <2>1, Zenon DEF Committed
      <3>2. Shown(Committed)' = {View(q) : q \in Committed'} /\ Shown(Committed) = {View(q) : q \in Committed}
        BY Zenon DEF Shown, View
      <3>3. QED
        BY <2>3, <3>1, <3>2, Zenon
    <2>5. Shown(purgedRows)' = Shown(purgedRows) \cup {View(r)}
      BY <2>1, Zenon DEF Shown, View
    <2>6. Log!Purge(View(r))
      BY <2>1, <2>4, <2>5, Zenon DEF Log!Purge
    <2>7. QED
      BY <2>2, <2>6, Zenon DEF Log!LogNext
  <1>6. ASSUME UNCHANGED <<rows, purgedRows, answer>> PROVE UNCHANGED Log!logVars
    BY <1>1, <1>6, Zenon DEF Committed
  <1>7. ASSUME NEW c \in Callers, IngestStep(c) \/ Abort(c) \/ \E b \in Batches : Submit(c, b)
        PROVE  Log!LogNext \/ UNCHANGED Log!logVars
    BY <1>2, <1>3, <1>4, <1>6, <1>7, Zenon
       DEF IngestStep, DeadlockDetected, Abort, ReadBack, SkipInvalid, Submit
  <1>8. QED
    BY <1>5, <1>6, <1>7, Zenon DEF IngestNext, BeginWalk, ListPage, ingestVars

(* InsertBatch and insertOne (store/evidence.go): whatever transactions    *)
(* interleave, deadlock, fail or lose their answer, and whatever retention *)
(* deletes meanwhile, every batch is filed whole in one instant, no token  *)
(* twice, and each answer names what its records became.                   *)
THEOREM BatchesAreFiledWhole == IngestSpec => FilesWhole
  <1>1. IngestInit => Log!LogInit
    BY Zenon DEF IngestInit, Log!LogInit, Shown, Committed
  <1>2. QED
    BY IngestInitially, IngestInvStep, IngestImplementsLog, <1>1, PTL DEF IngestSpec, FilesWhole, Log!LogSpec
===============================================================================
