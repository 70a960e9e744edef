-------------------------------- MODULE Outbox --------------------------------
(***************************************************************************)
(* The web page's outbox: records written on a device, in IndexedDB until  *)
(* the store has them, the Add Result form that files or queues one, the   *)
(* sync that drains the queue, and the ingestion that answers both.        *)
(*                                                                         *)
(* JavaScript runs between awaits without interruption, so a step here is  *)
(* the code from one await to the next: one IndexedDB request or one HTTP  *)
(* request.  Several syncs, the start-up recovery and a weather lookup     *)
(* from the outbox dialog may be between awaits at once, in one page or in *)
(* several pages of one browser.                                           *)
(*                                                                         *)
(* A record's fields are abstracted to its text, which says which photos   *)
(* it mentions and whether the store finds it well-formed, and to whether  *)
(* it has a weather line.                                                  *)
(***************************************************************************)
EXTENDS Naturals, Sequences, FiniteSets

CONSTANTS
  Runs,        \* test runs somebody writes a log of
  Texts,       \* what a log may say
  Malformed,   \* the texts whose record fails validation
  Photos,      \* digests of photographs
  Mentions,    \* the photos each text mentions
  Skies,       \* whether a tester writes the weather down
  Subjects,    \* who may be signed in
  Syncs,       \* concurrent runSync calls
  Helpers,     \* which of Mount and Dialog run beside the syncs
  CHUNK,       \* records per request
  MaxIds,      \* bound: tokens minted
  NULL

ASSUME OutboxAssumption ==
  /\ Malformed \subseteq Texts
  /\ Mentions \in [Texts -> SUBSET Photos]
  /\ Skies \subseteq BOOLEAN
  /\ Helpers \subseteq {"mount", "dialog"}
  /\ CHUNK \in Nat \ {0}
  /\ MaxIds \in Nat

Ids == 1..MaxIds
Mount == "mount"     \* mountOutbox's recovery and sweep
Dialog == "dialog"   \* a weather lookup from the outbox dialog
Procs == Syncs \cup Helpers

(* The entry of a record: its token, what it says and who captured it. *)
Entry == [id: Ids, run: Runs, text: Texts, weather: BOOLEAN, by: Subjects,
          state: {"queued", "blocked"}]

(* Evidence in the store, with the principal that sent it. *)
Row == [id: Ids, run: Runs, text: Texts, weather: BOOLEAN, by: Subjects, sender: Subjects]

VARIABLES
  queue,      \* the records in IndexedDB
  stash,      \* the photos in IndexedDB: none, fresh, old or sent (uploadedAt set)
  evidence,   \* the store's evidence
  blobs,      \* the store's objects
  link,       \* a request would be answered by a healthy store, signed in
  conn,       \* connectionState: what the page believes
  subject,    \* who the page is signed in as
  syncing,    \* outboxview's flag
  pc,         \* what a process does after its current await
  mem,        \* what it remembers across awaits
  form,       \* the Add Result form
  minted,     \* tokens used so far
  captured,   \* the last entry the page told the tester it has kept, by token
  discarded   \* tokens whose record the tester deleted

device == <<queue, stash>>
store == <<evidence, blobs>>
page == <<conn, subject, syncing, pc, mem, form, minted>>
ghost == <<captured, discarded>>
vars == <<device, store, link, page, ghost>>

Queued == {i \in Ids : queue[i] # NULL}
Filed(i) == \E r \in evidence : r.id = i

Blank == [ready |-> <<>>, chunk |-> <<>>, reachable |-> {}, todo |-> {}, copy |-> NULL]
NoForm == [pc |-> "empty", run |-> NULL, text |-> NULL, weather |-> FALSE,
           editing |-> NULL, entry |-> NULL]

Init ==
  /\ queue = [i \in Ids |-> NULL]
  /\ stash = [p \in Photos |-> "none"]
  /\ evidence = {}
  /\ blobs = {}
  /\ link \in BOOLEAN
  /\ conn = "online"
  /\ subject \in Subjects
  /\ syncing = FALSE
  /\ pc = [p \in Procs |-> "idle"]
  /\ mem = [p \in Procs |-> Blank]
  /\ form = NoForm
  /\ minted = 0
  /\ captured = [i \in Ids |-> NULL]
  /\ discarded = {}

Goto(p, label) == pc' = [pc EXCEPT ![p] = label]
Remember(p, m) == mem' = [mem EXCEPT ![p] = m]

(***************************************************************************)
(* The store: POST /evidence, POST /evidence/batch and POST /blobs.        *)
(***************************************************************************)
(* Mutant: attachments are not looked up. *)
MutantSkipAttachments(e) == e.text \notin Malformed

validateCreate(e) == e.text \notin Malformed /\ Mentions[e.text] \subseteq blobs

RowOf(e) == [id |-> e.id, run |-> e.run, text |-> e.text, weather |-> e.weather,
             by |-> e.by, sender |-> subject]

(* Mutant: the insert does not look for the token. *)
MutantBlindInsert(S) == evidence' = evidence \cup {RowOf(e) : e \in {f \in S : validateCreate(f)}}

(* insertOne: a token the store has seen changes nothing. *)
InsertBatch(S) ==
  evidence' = evidence \cup {RowOf(e) : e \in {f \in S : validateCreate(f) /\ ~Filed(f.id)}}

(* The per-record results of CreateBatch. *)
Fate(e) == IF validateCreate(e) THEN "filed" ELSE "refused"

(***************************************************************************)
(* runSync and syncOutbox.                                                 *)
(***************************************************************************)
(* Called on load, on reconnecting and by the button.  The flag is only    *)
(* set after the count has come back.                                      *)
RunSync(s) ==
  /\ pc[s] = "idle" /\ ~syncing
  /\ Goto(s, "count")
  /\ UNCHANGED <<device, store, link, conn, subject, syncing, mem, form, minted, ghost>>

Count(s) ==
  /\ pc[s] = "count"
  /\ IF Queued = {} THEN Goto(s, "idle") /\ UNCHANGED syncing
     ELSE Goto(s, "list") /\ syncing' = TRUE
  /\ UNCHANGED <<device, store, link, conn, subject, mem, form, minted, ghost>>

sendableBy(e) == e.state # "blocked" /\ e.by = subject

(* The entries of a set of tokens, oldest token first. *)
InOrder(S) ==
  LET rank(i) == Cardinality({j \in S : j <= i}) IN
  [n \in 1..Cardinality(S) |-> queue[CHOOSE i \in S : rank(i) = n]]

List(s) ==
  /\ pc[s] = "list"
  /\ LET ready == InOrder({i \in Queued : sendableBy(queue[i])}) IN
     /\ Remember(s, [Blank EXCEPT !.ready = ready])
     /\ Goto(s, IF ready = <<>> THEN "sweep" ELSE "weather")
  /\ UNCHANGED <<device, store, link, conn, subject, syncing, form, minted, ghost>>

(* addWeather saves the whole entry as it was listed.  A lookup that fails *)
(* changes nothing.                                                        *)
AddWeather(s) ==
  /\ pc[s] = "weather"
  /\ \/ \E n \in DOMAIN mem[s].ready :
          LET filled == [mem[s].ready[n] EXCEPT !.weather = TRUE] IN
          /\ ~mem[s].ready[n].weather
          /\ queue' = [queue EXCEPT ![filled.id] = filled]
          /\ Remember(s, [mem[s] EXCEPT !.ready[n] = filled])
          /\ UNCHANGED pc
     \/ Goto(s, "photos") /\ UNCHANGED <<queue, mem>>
  /\ UNCHANGED <<stash, store, link, conn, subject, syncing, form, minted, ghost>>

MentionedBy(es) == UNION {Mentions[es[n].text] : n \in DOMAIN es}

ListPhotos(s) ==
  /\ pc[s] = "photos"
  /\ Remember(s, [mem[s] EXCEPT !.todo =
                    {p \in MentionedBy(mem[s].ready) : stash[p] # "none"}])
  /\ Goto(s, "put")
  /\ UNCHANGED <<device, store, link, conn, subject, syncing, form, minted, ghost>>

(* markBlobUploaded; nothing to mark once the photo is gone. *)
Sent(p) == IF stash[p] = "none" THEN stash ELSE [stash EXCEPT ![p] = "sent"]

(* putBlob, then the mark.  A lost link or session, or a refusal, ends the *)
(* sync before any record is sent; the bytes may have arrived.             *)
PutPhoto(s) ==
  /\ pc[s] = "put"
  /\ \/ /\ mem[s].todo = {}
        /\ Goto(s, "post")
        /\ UNCHANGED <<stash, blobs, mem>>
     \/ \E p \in mem[s].todo :
        \/ /\ link
           /\ blobs' = blobs \cup {p}
           /\ stash' = Sent(p)
           /\ Remember(s, [mem[s] EXCEPT !.todo = @ \ {p}])
           /\ UNCHANGED pc
        \/ /\ ~link
           /\ blobs' \in {blobs, blobs \cup {p}}
           /\ Goto(s, "sweep")
           /\ Remember(s, Blank)
           /\ UNCHANGED stash
  /\ UNCHANGED <<queue, evidence, link, conn, subject, syncing, form, minted, ghost>>

(* What is left to do for each record of a chunk. *)
Fates(es, fate(_)) == [n \in DOMAIN es |-> [id |-> es[n].id, fate |-> fate(es[n])]]

(* sendChunk up to the answer.  Without a link the request or its answer   *)
(* is lost, the store answers 5xx, or the session has expired.             *)
SendChunk(s) ==
  /\ pc[s] = "post"
  /\ LET ready == mem[s].ready
         n == IF CHUNK < Len(ready) THEN CHUNK ELSE Len(ready)
         chunk == SubSeq(ready, 1, n)
         rest == SubSeq(ready, n + 1, Len(ready))
         sent == {chunk[k] : k \in DOMAIN chunk}
         Answer(fates, left) ==
           /\ Remember(s, [Blank EXCEPT !.chunk = fates, !.ready = left])
           /\ Goto(s, "apply")
     IN \/ /\ ready = <<>>
           /\ Goto(s, "sweep") /\ UNCHANGED <<mem, evidence>>
        \/ /\ ready # <<>> /\ link
           /\ InsertBatch(sent)
           /\ Answer(Fates(chunk, Fate), rest)
        \/ /\ ready # <<>> /\ link
           /\ Answer(Fates(chunk, LAMBDA e : "refused"), rest)
           /\ UNCHANGED evidence
        \/ /\ ready # <<>> /\ ~link
           /\ InsertBatch(sent) \/ UNCHANGED evidence
           /\ Answer(Fates(chunk, LAMBDA e : "retry"), <<>>)
        \/ /\ ready # <<>> /\ ~link
           /\ Goto(s, "sweep") /\ Remember(s, Blank) /\ UNCHANGED evidence
  /\ UNCHANGED <<device, blobs, link, conn, subject, syncing, form, minted, ghost>>

(* Mutant: a record that could not be delivered leaves the queue. *)
MutantSettleAll(fate) == TRUE

Settles(fate) == fate = "filed"

(* The answer, record by record: settle deletes, block and recordAttempt   *)
(* read the entry now and write it back after another await.               *)
Apply(s) ==
  /\ pc[s] = "apply"
  /\ LET chunk == mem[s].chunk IN
     \/ /\ chunk = <<>>
        /\ Goto(s, "post") /\ UNCHANGED <<queue, mem>>
     \/ /\ chunk # <<>> /\ Settles(Head(chunk).fate)
        /\ queue' = [queue EXCEPT ![Head(chunk).id] = NULL]
        /\ Remember(s, [mem[s] EXCEPT !.chunk = Tail(@)])
        /\ UNCHANGED pc
     \/ /\ chunk # <<>> /\ ~Settles(Head(chunk).fate)
        /\ LET read == queue[Head(chunk).id] IN
           IF read = NULL
           THEN Remember(s, [mem[s] EXCEPT !.chunk = Tail(@)]) /\ UNCHANGED pc
           ELSE /\ Remember(s, [mem[s] EXCEPT !.copy = read])
                /\ Goto(s, "write")
        /\ UNCHANGED queue
  /\ UNCHANGED <<stash, store, link, conn, subject, syncing, form, minted, ghost>>

(* block changes the state, recordAttempt only counts. *)
StateAfter(e, fate) == IF fate = "refused" THEN "blocked" ELSE e.state

WriteBack(s) ==
  /\ pc[s] = "write"
  /\ LET e == mem[s].copy
         fate == Head(mem[s].chunk).fate
     IN queue' = [queue EXCEPT ![e.id] = [e EXCEPT !.state = StateAfter(e, fate)]]
  /\ Remember(s, [mem[s] EXCEPT !.chunk = Tail(@), !.copy = NULL])
  /\ Goto(s, "apply")
  /\ UNCHANGED <<stash, store, link, conn, subject, syncing, form, minted, ghost>>

(***************************************************************************)
(* sweepBlobs, at the end of a sync and of the recovery.                   *)
(***************************************************************************)
(* Mutant: an abandoned sync leaves the flag set. *)
MutantKeepFlag(p) ==
  /\ Goto(p, "idle")
  /\ Remember(p, Blank)
  /\ UNCHANGED syncing

(* The finally clause of runSync. *)
Finish(p) ==
  /\ Goto(p, "idle")
  /\ Remember(p, Blank)
  /\ syncing' = IF p \in Syncs THEN FALSE ELSE syncing

SweepEntries(p) ==
  /\ pc[p] = "sweep"
  /\ Remember(p, [Blank EXCEPT !.reachable = UNION {Mentions[queue[i].text] : i \in Queued}])
  /\ Goto(p, "sweepblobs")
  /\ UNCHANGED <<device, store, link, conn, subject, syncing, form, minted, ghost>>

SweepList(p) ==
  /\ pc[p] = "sweepblobs"
  /\ Remember(p, [Blank EXCEPT !.todo =
                    {b \in Photos \ mem[p].reachable : stash[b] \in {"old", "sent"}}])
  /\ Goto(p, "sweepdelete")
  /\ UNCHANGED <<device, store, link, conn, subject, syncing, form, minted, ghost>>

SweepDelete(p) ==
  /\ pc[p] = "sweepdelete"
  /\ \/ mem[p].todo = {} /\ Finish(p) /\ UNCHANGED stash
     \/ \E b \in mem[p].todo :
          /\ stash' = [stash EXCEPT ![b] = "none"]
          /\ Remember(p, [mem[p] EXCEPT !.todo = @ \ {b}])
          /\ UNCHANGED <<pc, syncing>>
  /\ UNCHANGED <<queue, store, link, conn, subject, form, minted, ghost>>

(* IndexedDB refuses a request: the rest of the process is skipped. *)
StorageFails(p) ==
  /\ pc[p] \notin {"idle", "count"}
  /\ Finish(p)
  /\ UNCHANGED <<device, store, link, conn, subject, form, minted, ghost>>

(***************************************************************************)
(* mountOutbox's recoverUnsentPhotos, then its sweep.                      *)
(***************************************************************************)
Recover ==
  /\ pc[Mount] = "recover"
  /\ IF conn = "offline" THEN Goto(Mount, "sweep") /\ UNCHANGED mem
     ELSE LET reachable == UNION {Mentions[queue[i].text] : i \in Queued} IN
          /\ Remember(Mount, [Blank EXCEPT !.todo =
                                {b \in Photos \ reachable : stash[b] \in {"fresh", "old"}}])
          /\ Goto(Mount, "recoverput")
  /\ UNCHANGED <<device, store, link, conn, subject, syncing, form, minted, ghost>>

(* Unmarked: the device keeps its copy. *)
RecoverPut ==
  /\ pc[Mount] = "recoverput"
  /\ \/ mem[Mount].todo = {} /\ Goto(Mount, "sweep") /\ UNCHANGED <<blobs, mem>>
     \/ \E b \in mem[Mount].todo :
        \/ /\ link
           /\ blobs' = blobs \cup {b}
           /\ Remember(Mount, [mem[Mount] EXCEPT !.todo = @ \ {b}])
           /\ UNCHANGED pc
        \/ /\ ~link
           /\ blobs' \in {blobs, blobs \cup {b}}
           /\ Goto(Mount, "sweep") /\ Remember(Mount, Blank)
  /\ UNCHANGED <<device, evidence, link, conn, subject, syncing, form, minted, ghost>>

(***************************************************************************)
(* The outbox dialog.                                                      *)
(***************************************************************************)
LookUpQueuedWeather(i) ==
  /\ pc[Dialog] = "idle"
  /\ queue[i] # NULL /\ ~queue[i].weather
  /\ Remember(Dialog, [Blank EXCEPT !.copy = queue[i]])
  /\ Goto(Dialog, "reading")
  /\ UNCHANGED <<device, store, link, conn, subject, syncing, form, minted, ghost>>

SaveReading ==
  /\ pc[Dialog] = "reading"
  /\ LET e == mem[Dialog].copy IN
     queue' = IF link THEN [queue EXCEPT ![e.id] = [e EXCEPT !.weather = TRUE]] ELSE queue
  /\ Remember(Dialog, Blank) /\ Goto(Dialog, "idle")
  /\ UNCHANGED <<stash, store, link, conn, subject, syncing, form, minted, ghost>>

DeleteQueued(i) ==
  /\ queue[i] # NULL
  /\ queue' = [queue EXCEPT ![i] = NULL]
  /\ discarded' = discarded \cup {i}
  /\ UNCHANGED <<stash, store, link, page, captured>>

(***************************************************************************)
(* The Add Result form.                                                    *)
(***************************************************************************)
(* stashBlob keeps an entry it already has, its age included. *)
Stashed(ps) == [p \in Photos |-> IF p \in ps /\ stash[p] = "none" THEN "fresh" ELSE stash[p]]

(* The runs somebody has already written down. *)
Written == {captured[i].run : i \in {j \in Ids : captured[j] # NULL}}
             \cup {r.run : r \in evidence} \cup {form.run}

NewLog(r, t, w) ==
  /\ form.pc = "empty"
  /\ r \notin Written /\ minted < MaxIds
  /\ form' = [NoForm EXCEPT !.pc = "typing", !.run = r, !.text = t, !.weather = w]
  /\ stash' = Stashed(Mentions[t])
  /\ UNCHANGED <<queue, store, link, conn, subject, syncing, pc, mem, minted, ghost>>

(* The queued copy stays where it is. *)
BeginCorrection(i) ==
  /\ form.pc = "empty"
  /\ queue[i] # NULL
  /\ form' = [NoForm EXCEPT !.pc = "typing", !.run = queue[i].run, !.text = queue[i].text,
                            !.weather = queue[i].weather, !.editing = i]
  /\ UNCHANGED <<device, store, link, conn, subject, syncing, pc, mem, minted, ghost>>

Retype(t) ==
  /\ form.pc = "typing" /\ form.text # t
  /\ form' = [form EXCEPT !.text = t]
  /\ stash' = Stashed(Mentions[t])
  /\ UNCHANGED <<queue, store, link, conn, subject, syncing, pc, mem, minted, ghost>>

(* newEntry: a correction keeps its token. *)
Token == IF form.editing # NULL THEN form.editing ELSE minted + 1

Submit ==
  /\ form.pc = "typing"
  /\ Token <= MaxIds
  /\ minted' = IF Token > minted THEN Token ELSE minted
  /\ form' = [form EXCEPT !.pc = IF conn = "offline" THEN "queue" ELSE "upload",
                          !.entry = [id |-> Token, run |-> form.run, text |-> form.text,
                                     weather |-> form.weather, by |-> subject,
                                     state |-> "queued"]]
  /\ UNCHANGED <<device, store, link, conn, subject, syncing, pc, mem, ghost>>

(* uploadStashedPhotos, marking each. *)
UploadPhotos ==
  /\ form.pc = "upload"
  /\ LET owed == {p \in Mentions[form.entry.text] : stash[p] \in {"fresh", "old"}} IN
     \/ /\ owed = {}
        /\ form' = [form EXCEPT !.pc = "post"]
        /\ UNCHANGED <<stash, blobs>>
     \/ \E p \in owed :
        \/ link /\ blobs' = blobs \cup {p} /\ stash' = Sent(p) /\ UNCHANGED form
        \/ /\ ~link
           /\ blobs' \in {blobs, blobs \cup {p}}
           /\ form' = [form EXCEPT !.pc = "queue"]
           /\ UNCHANGED stash
  /\ UNCHANGED <<queue, evidence, link, conn, subject, syncing, pc, mem, minted, ghost>>

(* The direct post: filed; refused or 5xx, which leaves the log in the     *)
(* form; lost, which queues it; or a 401, which navigates to the login.    *)
PostForm ==
  /\ form.pc = "post"
  /\ \/ /\ link /\ validateCreate(form.entry)
        /\ InsertBatch({form.entry})
        /\ form' = [form EXCEPT !.pc = "drop"]
     \/ /\ ~link \/ ~validateCreate(form.entry)
        /\ form' = [form EXCEPT !.pc = "typing", !.entry = NULL]
        /\ UNCHANGED evidence
     \/ /\ ~link
        /\ InsertBatch({form.entry}) \/ UNCHANGED evidence
        /\ form' = [form EXCEPT !.pc = "queue"]
     \/ /\ ~link
        /\ form' = NoForm
        /\ UNCHANGED evidence
  /\ UNCHANGED <<device, blobs, link, conn, subject, syncing, pc, mem, minted, ghost>>

QueueEntry ==
  /\ form.pc = "queue"
  /\ queue' = [queue EXCEPT ![form.entry.id] = form.entry]
  /\ captured' = [captured EXCEPT ![form.entry.id] = form.entry]
  /\ discarded' = discarded \ {form.entry.id}
  /\ form' = NoForm
  /\ UNCHANGED <<stash, store, link, conn, subject, syncing, pc, mem, minted>>

DropQueued ==
  /\ form.pc = "drop"
  /\ queue' = IF form.editing # NULL THEN [queue EXCEPT ![form.editing] = NULL] ELSE queue
  /\ captured' = [captured EXCEPT ![form.entry.id] = form.entry]
  /\ form' = NoForm
  /\ UNCHANGED <<stash, store, link, conn, subject, syncing, pc, mem, minted, discarded>>

(***************************************************************************)
(* The environment.                                                        *)
(***************************************************************************)
(* The page is closed, crashes or reloads: what is not in IndexedDB goes.  *)
(* init mounts the outbox and calls runSync.                               *)
Load ==
  /\ \E who \in Subjects : subject' = who
  /\ \E s \in Syncs :
       pc' = [p \in Procs |-> IF p = s THEN "count" ELSE IF p = Mount THEN "recover" ELSE "idle"]
  /\ mem' = [p \in Procs |-> Blank]
  /\ conn' = "online"
  /\ syncing' = FALSE
  /\ form' = NoForm
  /\ UNCHANGED <<device, store, link, minted, ghost>>

(* The health poll.  Reconnecting calls runSync. *)
Tick ==
  /\ conn' = IF link THEN "online" ELSE "offline"
  /\ conn' # conn
  /\ LET free == {s \in Syncs : pc[s] = "idle"} IN
     IF conn' = "online" /\ ~syncing /\ free # {}
     THEN \E s \in free : Goto(s, "count")
     ELSE UNCHANGED pc
  /\ UNCHANGED <<device, store, link, subject, syncing, mem, form, minted, ghost>>

LinkChanges ==
  /\ link' = ~link
  /\ UNCHANGED <<device, store, page, ghost>>

FormMentions == IF form.text = NULL THEN {} ELSE Mentions[form.text]

(* No request and no sweep is in flight. *)
Quiet == (\A q \in Procs : pc[q] = "idle") /\ form.pc \in {"empty", "typing"}

(* A day passes for a photo no log being written mentions. *)
PhotoAges(p) ==
  /\ Quiet
  /\ stash[p] = "fresh"
  /\ p \notin FormMentions
  /\ stash' = [stash EXCEPT ![p] = "old"]
  /\ UNCHANGED <<queue, store, link, page, ghost>>

(* The store's own sweep: an unreferenced object a day after its upload,   *)
(* which no request in flight outlasts.                                    *)
StoreSweeps(p) ==
  /\ p \in blobs
  /\ \A r \in evidence : p \notin Mentions[r.text]
  /\ Quiet
  /\ blobs' = blobs \ {p}
  /\ UNCHANGED <<device, evidence, link, page, ghost>>

SyncStep(s) ==
  \/ Count(s) \/ List(s) \/ AddWeather(s) \/ ListPhotos(s) \/ PutPhoto(s)
  \/ SendChunk(s) \/ Apply(s) \/ WriteBack(s)

SweepStep(p) == SweepEntries(p) \/ SweepList(p) \/ SweepDelete(p)

FormStep == UploadPhotos \/ PostForm \/ QueueEntry \/ DropQueued

(* Logs are queued and sent, with the helpers of the page idle. *)
QueueNext ==
  \/ \E s \in Syncs : RunSync(s) \/ SyncStep(s)
  \/ \E p \in Procs : SweepStep(p) \/ StorageFails(p)
  \/ \E i \in Ids : DeleteQueued(i) \/ BeginCorrection(i)
  \/ \E r \in Runs, t \in Texts, w \in Skies : NewLog(r, t, w)
  \/ Submit \/ FormStep
  \/ Load \/ Tick \/ LinkChanges
  \/ \E p \in Photos : PhotoAges(p) \/ StoreSweeps(p)

(* The page mounts, the weather dialog is open, the text is edited. *)
PageNext ==
  \/ Mount \in Procs /\ (Recover \/ RecoverPut)
  \/ Dialog \in Procs /\ ((\E i \in Ids : LookUpQueuedWeather(i)) \/ SaveReading)
  \/ \E t \in Texts : Retype(t)

Next == QueueNext \/ PageNext

Spec == Init /\ [][Next]_vars

(* The event loop runs every continuation of a process: its requests are   *)
(* answered or fail.                                                       *)
Fairness ==
  /\ \A s \in Syncs : WF_vars(SyncStep(s) \/ SweepStep(s))
  /\ WF_vars(Mount \in Procs /\ (Recover \/ RecoverPut \/ SweepStep(Mount)))
  /\ WF_vars(Dialog \in Procs /\ SaveReading)

FairSpec == Spec /\ Fairness

(***************************************************************************)
(* Properties.                                                             *)
(***************************************************************************)
(* Every variable has its type, and an entry is kept under its own token. *)
TypeOK ==
  /\ queue \in [Ids -> Entry \cup {NULL}]
  /\ \A i \in Queued : queue[i].id = i
  /\ stash \in [Photos -> {"none", "fresh", "old", "sent"}]
  /\ evidence \subseteq Row
  /\ blobs \subseteq Photos
  /\ link \in BOOLEAN /\ syncing \in BOOLEAN
  /\ conn \in {"online", "offline"} /\ subject \in Subjects
  /\ \A p \in Procs : mem[p].copy \in Entry \cup {NULL}
  /\ form.entry \in Entry \cup {NULL}
  /\ minted \in 0..MaxIds
  /\ captured \in [Ids -> Entry \cup {NULL}] /\ discarded \subseteq Ids

(* "It leaves only when the server has confirmed it"                       *)
(* (docs/offline-support-plan.md): a submission that was queued and that   *)
(* the tester has not deleted is in the queue or in the store, whatever    *)
(* syncs, corrections, lost answers and reloads happened.                  *)
SubmissionKept ==
  /\ TypeOK
  /\ \A i \in Ids : captured[i] # NULL /\ i \notin discarded => queue[i] # NULL \/ Filed(i)

(* The token minted at capture, and "It is only ever sent by that person"  *)
(* (outbox.js, sendableBy): however often a record is resent, edited or    *)
(* resent by concurrent syncs, and whoever uses the browser next, a test   *)
(* run is evidence at most once, sent by the session that captured it.     *)
FiledOnce ==
  /\ \A r1, r2 \in evidence : r1.run = r2.run => r1 = r2
  /\ \A r \in evidence : r.sender = r.by

(* "A record must never be filed pointing at bytes the store does not      *)
(* have" (sync.js): also when the device or the store has swept the photo. *)
FiledPhotosStored == \A r \in evidence : Mentions[r.text] \subseteq blobs

(* A submission is kept until it is filed, and filed with its photos. *)
KeptWithPhotos == SubmissionKept /\ FiledPhotosStored

(* A sync in progress ends and lets the next one start. *)
SyncsEnd == []<>~syncing

(* "There is no state in which the page has forgotten a record the store   *)
(* never received" (sync.js), of the record as the tester last saved it.   *)
CorrectionKept ==
  \A i \in Ids :
    captured[i] # NULL /\ i \notin discarded =>
      \/ queue[i] # NULL /\ queue[i].text = captured[i].text
      \/ \E r \in evidence : r.id = i /\ r.text = captured[i].text
=============================================================================
