------------------------------ MODULE StatsCache ------------------------------
(***************************************************************************)
(* GET /analytics/tests: concurrent requests share a cache of aggregations *)
(* by filter, query the database under a time budget when it misses, and   *)
(* derive rates, labels and order in place in the rows they hold.          *)
(*                                                                         *)
(* An aggregation is abstracted to the state of the evidence it was        *)
(* computed from and to whether somebody has derived anything in it.  Rows *)
(* live in arrays: every request has one to read or copy into, every cache *)
(* key one for its entry.                                                  *)
(***************************************************************************)
EXTENDS Naturals, FiniteSets

CONSTANTS
  Queries,      \* requests under way at once
  Filters,      \* filter and grouping: statsCacheKey
  TTL,          \* how long an entry serves
  Budget,       \* the query timeout
  MaxEntries,
  MaxClock,     \* bound: the clock
  MaxState,     \* bound: changes of the evidence
  NOENTRY

ASSUME StatsAssumption ==
  /\ TTL \in Nat \ {0} /\ Budget \in Nat /\ MaxEntries \in Nat
  /\ MaxClock \in Nat /\ MaxState \in Nat
  /\ Queries \cap Filters = {} /\ Filters # {}
  /\ NOENTRY \notin [rows: Filters, expires: Nat]

VARIABLES
  clock,
  state,      \* the evidence, as the number of changes to it so far
  changed,    \* when each state of it ended
  array,      \* the rows: [of, raw]
  entry,      \* the cache: NOENTRY or [rows, expires] by filter
  query,      \* each request
  served      \* the last answer, if the last step gave one

statsVars == <<clock, state, changed, array, entry, query, served>>

NoQuery == [pc |-> "idle", filter |-> CHOOSE f \in Filters : TRUE, began |-> 0, rows |-> NOENTRY]
NoAnswer == [of |-> 0, raw |-> TRUE, given |-> FALSE]
Empty == [of |-> 0, raw |-> TRUE]

StatsInit ==
  /\ clock = 0 /\ state = 0
  /\ changed = [n \in 0..MaxState |-> MaxClock]
  /\ array = [x \in Queries \cup Filters |-> Empty]
  /\ entry = [f \in Filters |-> NOENTRY]
  /\ query = [q \in Queries |-> NoQuery]
  /\ served = NoAnswer

Entries == {f \in Filters : entry[f] # NOENTRY}
Expires(f) == entry[f].expires
Querying(q) == query[q].pc \in {"miss", "result"}
Turn(q, r) == query' = [query EXCEPT ![q] = r]

(***************************************************************************)
(* The evidence changes and time passes.  A query past its budget is       *)
(* cancelled; what follows the query takes no time.                        *)
(***************************************************************************)
EvidenceChanges ==
  /\ state < MaxState
  /\ state' = state + 1 /\ changed' = [changed EXCEPT ![state] = clock]
  /\ served' = NoAnswer
  /\ UNCHANGED <<clock, array, entry, query>>

ClockTicks ==
  /\ clock < MaxClock /\ clock' = clock + 1
  /\ \A q \in Queries : /\ Querying(q) => clock < query[q].began + Budget
                        /\ query[q].pc # "held"
  /\ served' = NoAnswer
  /\ UNCHANGED <<state, changed, array, entry, query>>

(***************************************************************************)
(* The cache.                                                              *)
(***************************************************************************)

(* copyStats: which array the copy is in. *)
copyStats(to, from) == to

Copied(to, from) == array' = [array EXCEPT ![to] = array[from]]

(* Mutant: an entry never expires. *)
MutantLasting(f) == entry[f] # NOENTRY

Fresh(f) == entry[f] # NOENTRY /\ clock <= Expires(f)

(* get: an expired entry is removed. *)
Get(q, f) ==
  /\ query[q].pc = "idle"
  /\ IF Fresh(f)
     THEN /\ Copied(q, entry[f].rows)
          /\ Turn(q, [pc |-> "held", filter |-> f, began |-> clock, rows |-> copyStats(q, entry[f].rows)])
          /\ UNCHANGED entry
     ELSE /\ entry' = [entry EXCEPT ![f] = NOENTRY]
          /\ Turn(q, [pc |-> "miss", filter |-> f, began |-> clock, rows |-> q])
          /\ UNCHANGED array
  /\ served' = NoAnswer
  /\ UNCHANGED <<clock, state, changed>>

(* The entries left once a full cache has dropped the expired ones. *)
Room == IF Cardinality(Entries) >= MaxEntries THEN {f \in Entries : Fresh(f)} ELSE Entries

HasRoom(S) == Cardinality(S) < MaxEntries

Expiry(q) == clock + TTL

(* put, with the array the caller goes on to use. *)
Put(q, f) ==
  entry' = [g \in Filters |->
     IF g = f /\ HasRoom(Room) THEN [rows |-> copyStats(f, q), expires |-> Expiry(q)]
     ELSE IF g \in Room THEN entry[g] ELSE NOENTRY]

(***************************************************************************)
(* TestStats and the handler.                                              *)
(***************************************************************************)
RunQuery(q) ==
  /\ query[q].pc = "miss"
  /\ array' = [array EXCEPT ![q] = [of |-> state, raw |-> TRUE]]
  /\ Turn(q, [query[q] EXCEPT !.pc = "result"])
  /\ served' = NoAnswer
  /\ UNCHANGED <<clock, state, changed, entry>>

(* The rows arrive and are cached ... *)
Return(q) ==
  /\ query[q].pc = "result"
  /\ LET f == query[q].filter IN
     /\ Put(q, f)
     /\ array' = IF HasRoom(Room) THEN [array EXCEPT ![f] = array[q]] ELSE array
  /\ Turn(q, [query[q] EXCEPT !.pc = "held"])
  /\ served' = NoAnswer
  /\ UNCHANGED <<clock, state, changed>>

(* ... or the budget is exceeded, the groups are too many, the query fails. *)
QueryFails(q) ==
  /\ Querying(q)
  /\ Turn(q, NoQuery)
  /\ served' = NoAnswer
  /\ UNCHANGED <<clock, state, changed, array, entry>>

(* Finalize, WithLabel and Sort on the rows at hand, then the answer. *)
Answer(q) ==
  /\ query[q].pc = "held"
  /\ served' = [of |-> array[query[q].rows].of, raw |-> array[query[q].rows].raw, given |-> TRUE]
  /\ array' = [array EXCEPT ![query[q].rows].raw = FALSE]
  /\ Turn(q, NoQuery)
  /\ UNCHANGED <<clock, state, changed, entry>>

StatsNext ==
  \/ EvidenceChanges \/ ClockTicks
  \/ \E q \in Queries : RunQuery(q) \/ Return(q) \/ QueryFails(q) \/ Answer(q)
                        \/ \E f \in Filters : Get(q, f)

StatsSpec == StatsInit /\ [][StatsNext]_statsVars

(***************************************************************************)
(* Properties.                                                             *)
(***************************************************************************)
(* Every variable has its type, and no entry outlives its time. *)
StatsTypeOK ==
  /\ clock \in 0..MaxClock /\ state \in 0..MaxState
  /\ array \in [Queries \cup Filters -> [of: 0..MaxState, raw: BOOLEAN]]
  /\ \A f \in Entries : /\ entry[f].rows \in Queries \cup Filters
                         /\ entry[f].expires \in 0..(clock + TTL)

(* "sharing the stored slice would let one request's thresholds and        *)
(* ordering leak into the next" (store/cache.go): no request answers from  *)
(* rows that another one has labelled or sorted.                           *)
NothingLeaks == served.given => served.raw

(* However slow a query was and whichever of two concurrent ones was       *)
(* cached last, an answer describes the evidence as it was no longer ago   *)
(* than an entry lives plus the time a query may take.                     *)
AnswersAreRecent ==
  served.given => \/ served.of = state
                  \/ clock <= changed[served.of] + TTL + Budget

(* "an unbounded map keyed by user input is a slow leak" (store/cache.go): *)
(* concurrent misses never leave more than the maximum in the cache.       *)
CacheBounded == Cardinality(Entries) <= MaxEntries

(* The cache may be used: what it serves is untouched and recent, and it   *)
(* stays within its bound.                                                 *)
CacheSound == StatsTypeOK /\ NothingLeaks /\ AnswersAreRecent /\ CacheBounded
===============================================================================
