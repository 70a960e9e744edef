-------------------------------- MODULE Ingest --------------------------------
(***************************************************************************)
(* POST /evidence and POST /evidence/batch as PostgreSQL runs them, one    *)
(* statement at a time, beside retention's deletes and a client that pages *)
(* through GET /evidence with the cursor.                                  *)
(*                                                                         *)
(* A transaction holds the unique index entry of every token it inserted;  *)
(* a second insert of that token waits for it to end, and PostgreSQL ends  *)
(* a cycle of waits by failing one of them.  ingested_at is the time the   *)
(* transaction began, the same for every row of a batch.  A record is      *)
(* abstracted to its token and to whether validation finds it bad or its   *)
(* source is not the caller's.                                             *)
(***************************************************************************)
EXTENDS Naturals, Sequences, FiniteSets

CONSTANTS
  Callers,     \* requests that may be under way at once
  Batches,     \* the batches a caller may submit
  RowIds,      \* the identifiers the database may draw, ordered
  PageSize,    \* records per page
  MaxTime,     \* bound: the clock
  MaxTries,    \* bound: submissions, resent ones included,
  MaxWalked,   \* and submissions while somebody pages
  MaxPurged,   \* bound: rows retention deletes
  NOTOKEN, NULL

ASSUME IngestAssumption ==
  /\ \A b \in Batches : /\ Len(b) \in Nat \ {0} /\ DOMAIN b = 1..Len(b)
                         /\ \A n \in DOMAIN b : b[n].kind \in {"ok", "bad", "foreign"}
  /\ NULL \notin Callers
  /\ RowIds \subseteq Nat
  /\ PageSize \in Nat \ {0}
  /\ MaxTime \in Nat /\ MaxTries \in Nat /\ MaxWalked \in Nat /\ MaxPurged \in Nat

VARIABLES
  rows,      \* the evidence table: [id, token, at, tx], tx NULL once committed
  purgedRows,\* rows retention has deleted
  time,      \* the database's clock
  job,       \* each caller's request
  answer,    \* the last answer to each caller
  tries,     \* submissions so far
  walk       \* the client paging through the evidence

ingestVars == <<rows, purgedRows, time, job, answer, tries, walk>>

(* A request: where it is, its batch, its valid records still to insert,   *)
(* when its transaction began, and the results so far.                     *)
NoJob == [pc |-> "idle", batch |-> <<>>, next |-> 1, at |-> 0, res |-> <<>>]

(* The pages fetched: where the cursor stands, the rows returned, the rows *)
(* that were there when it began.                                          *)
NoWalk == [pc |-> "idle", cursor |-> <<0, 0>>, seen |-> <<>>, owed |-> {}]

IngestInit ==
  /\ rows = {} /\ purgedRows = {}
  /\ time = 1
  /\ job = [c \in Callers |-> NoJob]
  /\ answer = [c \in Callers |-> <<>>]
  /\ tries = 0
  /\ walk \in {NoWalk, [NoWalk EXCEPT !.pc = "none"]}

Committed == {r \in rows : r.tx = NULL}
Current(c) == job[c].batch[job[c].next]
Finished(c) == job[c].next > Len(job[c].batch)
Result(status, id) == [status |-> status, id |-> id]
Step(c, j) == job' = [job EXCEPT ![c] = j]

(* A request that is over remembers its batch for another try. *)
Over(c, end) == [NoJob EXCEPT !.pc = end, !.batch = job[c].batch]

(* One more result, and on to the next record. *)
Advance(c, r) == [job[c] EXCEPT !.pc = "insert", !.next = @ + 1, !.res = Append(@, r)]

(***************************************************************************)
(* Create and CreateBatch.                                                 *)
(***************************************************************************)
(* Mutant: a source that is not the caller's is one more bad record. *)
MutantForeignIsBad(b) == FALSE

(* BindSource refuses some record of the batch. *)
Unbindable(b) == \E n \in DOMAIN b : b[n].kind = "foreign"

(* A refused batch is answered 403; else the transaction begins. *)
Submit(c, b) ==
  /\ job[c].pc \in {"idle", "failed"} /\ tries' = tries + 1
  /\ tries < IF walk.pc = "none" THEN MaxTries ELSE MaxWalked
  /\ job[c].pc = "failed" => b = job[c].batch
  /\ \/ /\ Unbindable(b)
        /\ Step(c, [NoJob EXCEPT !.pc = "refused"])
        /\ UNCHANGED time
     \/ /\ ~Unbindable(b)
        /\ time' \in {time, time + 1} /\ time' <= MaxTime
        /\ Step(c, [NoJob EXCEPT !.pc = "insert", !.batch = b, !.at = time'])
  /\ UNCHANGED <<rows, purgedRows, answer, walk>>

(* A record validation rejects is reported and the batch goes on. *)
SkipInvalid(c) ==
  /\ job[c].pc = "insert" /\ ~Finished(c) /\ Current(c).kind # "ok"
  /\ Step(c, Advance(c, Result("error", 0)))
  /\ UNCHANGED <<rows, purgedRows, time, answer, tries, walk>>

(***************************************************************************)
(* insertOne.                                                              *)
(***************************************************************************)
Holding(token) == {r \in rows : r.token = token /\ token # NOTOKEN}

(* The transaction whose uncommitted row the next insert waits for. *)
WaitsFor(c) == {r.tx : r \in Holding(Current(c).token)} \ {NULL, c}
Inserting(c) == job[c].pc = "insert" /\ ~Finished(c) /\ Current(c).kind = "ok"
Waiting(c) == Inserting(c) /\ WaitsFor(c) # {}

NewRow(c, id) == [id |-> id, token |-> Current(c).token, at |-> job[c].at, tx |-> c]

InsertOne(c) ==
  /\ Inserting(c) /\ WaitsFor(c) = {}
  /\ IF Holding(Current(c).token) = {}
     THEN \E id \in RowIds \ {r.id : r \in rows \cup purgedRows} :
            /\ rows' = rows \cup {NewRow(c, id)}
            /\ Step(c, Advance(c, Result("created", id)))
     ELSE UNCHANGED rows /\ Step(c, [job[c] EXCEPT !.pc = "readback"])
  /\ UNCHANGED <<purgedRows, time, answer, tries, walk>>

(* defer tx.Rollback *)
Rollback(c) == {r \in rows : r.tx # c}

(* Mutant: an error leaves the transaction open. *)
MutantStayOpen(c) == rows

AfterError(c) == Rollback(c)

Fails(c) ==
  /\ rows' = AfterError(c)
  /\ Step(c, Over(c, "failed"))
  /\ UNCHANGED <<purgedRows, time, answer, tries, walk>>

(* findByClientRecordID: the record this submission already became; an     *)
(* error if retention has deleted it since the insert conflicted.          *)
ReadBack(c) ==
  /\ job[c].pc = "readback"
  /\ LET found == {r \in Holding(Current(c).token) : r.tx \in {NULL, c}} IN
     \/ /\ found # {}
        /\ \E r \in found : Step(c, Advance(c, Result("duplicate", r.id)))
        /\ UNCHANGED <<rows, purgedRows, time, answer, tries, walk>>
     \/ found = {} /\ Fails(c)

(* The client gone, the connection lost, the server stopped. *)
Abort(c) == job[c].pc \in {"insert", "readback"} /\ Fails(c)

(* PostgreSQL fails a transaction that is part of a cycle of waits. *)
DeadlockDetected(c) ==
  /\ \E S \in SUBSET Callers :
       /\ c \in S
       /\ \A d \in S : Waiting(d) /\ WaitsFor(d) \subseteq S
       /\ UNION {WaitsFor(d) : d \in S} = S
  /\ Fails(c)

(* tx.Commit and the answer, which the caller may not receive. *)
Commit(c) ==
  /\ job[c].pc = "insert" /\ Finished(c)
  /\ rows' = {IF r.tx = c THEN [r EXCEPT !.tx = NULL] ELSE r : r \in rows}
  /\ answer' = [answer EXCEPT ![c] = job[c].res]
  /\ \E end \in {"done", "failed"} : Step(c, Over(c, end))
  /\ UNCHANGED <<purgedRows, time, tries, walk>>

(* DeleteBatch of a retention pass. *)
RetentionDeletes(r) ==
  /\ r \in Committed /\ Cardinality(purgedRows) < MaxPurged
  /\ rows' = rows \ {r}
  /\ purgedRows' = purgedRows \cup {r}
  /\ UNCHANGED <<time, job, answer, tries, walk>>

(***************************************************************************)
(* GET /evidence with the cursor.                                          *)
(***************************************************************************)
(* r sorts after this key. *)
After(r, cursor) == r.at > cursor[1] \/ (r.at = cursor[1] /\ r.id > cursor[2])

Key(r) == <<r.at, r.id>>

(* The first n of a set of rows by (ingested_at, id). *)
FirstRows(S, n) == {r \in S : Cardinality({q \in S : After(r, Key(q))}) < n}
Last(S) == CHOOSE r \in S : \A q \in S : q = r \/ After(r, Key(q))
InKeyOrder(S) == [n \in 1..Cardinality(S) |->
                    (CHOOSE r \in S : Cardinality({q \in S : After(r, Key(q))}) = n - 1).id]

(* Mutant: the cursor compares times only. *)
MutantAfterTime(cursor) == {r \in Committed : r.at > cursor[1]}

(* (ingested_at, id) > cursor *)
Matching(cursor) == {r \in Committed : After(r, cursor)}

BeginWalk ==
  /\ walk.pc = "idle" /\ Committed # {}
  /\ walk' = [NoWalk EXCEPT !.pc = "walking", !.owed = {r.id : r \in Committed}]
  /\ UNCHANGED <<rows, purgedRows, time, job, answer, tries>>

(* One page: a next cursor if a row is left over. *)
ListPage ==
  /\ walk.pc = "walking"
  /\ LET matching == Matching(walk.cursor)
         page == FirstRows(matching, PageSize)
     IN walk' = [walk EXCEPT !.seen = @ \o InKeyOrder(page),
                             !.cursor = IF page = {} THEN @ ELSE Key(Last(page)),
                             !.pc = IF matching = page THEN "over" ELSE "walking"]
  /\ UNCHANGED <<rows, purgedRows, time, job, answer, tries>>

IngestStep(c) == SkipInvalid(c) \/ InsertOne(c) \/ ReadBack(c) \/ Commit(c) \/ DeadlockDetected(c)

IngestNext ==
  \/ \E c \in Callers : IngestStep(c) \/ Abort(c) \/ \E b \in Batches : Submit(c, b)
  \/ \E r \in rows : RetentionDeletes(r)
  \/ BeginWalk \/ ListPage

(* A request under way goes on, and PostgreSQL looks for deadlocks. *)
IngestSpec ==
  IngestInit /\ [][IngestNext]_ingestVars /\ \A c \in Callers : WF_ingestVars(IngestStep(c))

(***************************************************************************)
(* Properties.                                                             *)
(***************************************************************************)
Shown(S) == {[id |-> r.id, token |-> r.token] : r \in S}

Log == INSTANCE EvidenceLog WITH
         log <- Shown(Committed), purged <- Shown(purgedRows), answer <- answer

(* Interleaved batches, waits, deadlocks, lost answers and deletes keep    *)
(* EvidenceLog's promise: "a submission the store already had is not       *)
(* stored again" (store/evidence.go), a batch is filed whole, and every    *)
(* answer names what each record became.                                   *)
FilesWhole == Log!LogSpec

(* A request under way always ends (InsertBatch in store/evidence.go), also *)
(* when two batches hold each other's tokens.                               *)
RequestsEnd == \A c \in Callers : []<>(job[c].pc \notin {"insert", "readback"})

(* "Stable while records are being inserted" (docs/api-reference.md): a    *)
(* walk to the last page returns no record twice, and every record that    *)
(* was there when it began and has not been deleted.                       *)
WalkComplete ==
  walk.pc = "over" =>
    /\ \A m, n \in DOMAIN walk.seen : walk.seen[m] = walk.seen[n] => m = n
    /\ walk.owed \cap {r.id : r \in Committed} \subseteq {walk.seen[n] : n \in DOMAIN walk.seen}

===============================================================================
