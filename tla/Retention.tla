------------------------------- MODULE Retention -------------------------------
(***************************************************************************)
(* The retention worker beside a live store.  A pass expires records by    *)
(* the configured rules and then sweeps the objects no record references;  *)
(* meanwhile media are uploaded, records filed and inheritance declared.   *)
(*                                                                         *)
(* A step is one statement or one call of the object store.  A record is   *)
(* abstracted to what retention reads of it: its commit, its evidence      *)
(* type, whether it is pinned, the object its log mentions and when it     *)
(* finished.  References from campaigns are CampaignTx's.                  *)
(***************************************************************************)
EXTENDS Naturals, Integers, FiniteSets

CONSTANTS
  Kinds,       \* what a record may be: [ref, type, pinned, media]
  Rules,       \* the configured rules: [type, priority, maxAge]
  Refs,        \* commits a declaration may name
  Digests,     \* of media
  Filers,      \* requests that file a record
  RecordIds,   \* identifiers, ordered
  ScanSize,    \* defaultBatchSize
  Grace,       \* orphanGrace
  MaxDay,      \* bound: the clock
  MaxErrors,   \* bound: database and object store errors
  ANY,         \* a rule that matches every type
  NOMEDIA

ASSUME RetentionAssumption ==
  /\ \A k \in Kinds : k.media \in Digests \cup {NOMEDIA}
  /\ \A r \in Rules : r.maxAge \in Nat /\ r.priority \in Int
  /\ RecordIds \subseteq Nat \ {0}
  /\ ScanSize \in Nat \ {0} /\ Grace \in Nat /\ MaxDay \in Nat /\ MaxErrors \in Nat

VARIABLES
  kept,       \* the evidence table: [id, kind, finished]
  objects,    \* the object store: when each object was last written, -1 for none
  declared,   \* source commits of inheritance declarations
  day,        \* the clock
  filing,     \* each filer's request
  pass,       \* the worker
  errors,     \* errors so far
  exposed     \* of the records filed while a sweep had their object on its
              \* list, whether it was old or young when the record was checked

retentionVars == <<kept, objects, declared, day, filing, pass, errors, exposed>>

(* The commits read at its start, the clock then, the scan's position, the *)
(* records to delete, whether another batch follows, the objects listed,   *)
(* the objects to delete, and the commits truly declared at its start.     *)
NoPass == [pc |-> "idle", refs |-> {}, now |-> 0, cursor |-> <<-1, 0>>, ids |-> {},
           more |-> FALSE, listed |-> {}, todo |-> {}, before |-> {}]

NoFiling == [pc |-> "idle", kind |-> CHOOSE k \in Kinds : TRUE, finished |-> 0, exposure |-> "none"]

RetentionInit ==
  /\ kept = {}
  /\ objects = [b \in Digests |-> -1]
  /\ declared = {}
  /\ day = 0
  /\ filing = [f \in Filers |-> NoFiling]
  /\ pass = NoPass
  /\ errors = 0
  /\ exposed = [id \in RecordIds |-> "none"]

Stored(b) == objects[b] >= 0

(* Not younger than the grace period. *)
Old(b) == Stored(b) /\ objects[b] <= day - Grace

Age(b) == IF Old(b) THEN "old" ELSE "young"
Error == errors < MaxErrors /\ errors' = errors + 1

(***************************************************************************)
(* The live store.                                                         *)
(***************************************************************************)
(* Put replaces the object, so that it is young again. *)
Upload(b) ==
  /\ objects[b] # day
  /\ objects' = [objects EXCEPT ![b] = day]
  /\ UNCHANGED <<kept, declared, day, filing, pass, errors, exposed>>

Idle(f) == filing[f].pc = "idle"

(* validateCreate opens the object the log mentions. *)
Check(f, k) ==
  /\ Idle(f)
  /\ Cardinality({g \in Filers : ~Idle(g)}) < Cardinality(RecordIds \ {r.id : r \in kept})
  /\ k.media # NOMEDIA => Stored(k.media)
  /\ filing' = [filing EXCEPT ![f] = [pc |-> "checked", kind |-> k, finished |-> day,
                                      exposure |-> IF k.media \in pass.listed THEN Age(k.media)
                                                   ELSE "none"]]
  /\ UNCHANGED <<kept, objects, declared, day, pass, errors, exposed>>

(* The record and its reference row commit together, or the request fails. *)
Insert(f) ==
  /\ filing[f].pc = "checked"
  /\ \/ \E id \in RecordIds \ {r.id : r \in kept} :
          /\ kept' = kept \cup {[id |-> id, kind |-> filing[f].kind, finished |-> filing[f].finished]}
          /\ exposed' = [exposed EXCEPT ![id] = filing[f].exposure]
     \/ UNCHANGED <<kept, exposed>>
  /\ filing' = [filing EXCEPT ![f] = NoFiling]
  /\ UNCHANGED <<objects, declared, day, pass, errors>>

DeclareInheritance(ref) ==
  /\ ref \notin declared
  /\ declared' = declared \cup {ref}
  /\ UNCHANGED <<kept, objects, day, filing, pass, errors, exposed>>

(* No request outlasts a tick of this clock. *)
DayPasses ==
  /\ day < MaxDay /\ day' = day + 1
  /\ \A f \in Filers : Idle(f)
  /\ UNCHANGED <<kept, objects, declared, filing, pass, errors, exposed>>

(***************************************************************************)
(* The rules.                                                              *)
(***************************************************************************)
Matches(k, rule) == rule.type \in {ANY, k.type}

(* The first matching rule of those of the highest priority, -1 if none    *)
(* matches.  Rules of one priority are in no particular order.             *)
MaxAges(k) ==
  LET matching == {r \in Rules : Matches(k, r)} IN
  IF matching = {} THEN {-1}
  ELSE {r.maxAge : r \in {s \in matching : \A q \in matching : q.priority <= s.priority}}

(* Mutant: a maximum age of 0 means at once. *)
MutantZeroIsNow(r, refs, now) ==
  /\ ~r.kind.pinned /\ r.kind.ref \notin refs
  /\ \E age \in MaxAges(r.kind) : age >= 0 /\ now - r.finished >= age

Expired(r, refs, now) ==
  /\ ~r.kind.pinned /\ r.kind.ref \notin refs
  /\ \E age \in MaxAges(r.kind) : age > 0 /\ now - r.finished >= age

(***************************************************************************)
(* RunOnce: the declarations, then ScanAll batch by batch.                 *)
(***************************************************************************)
AllSourceRefs == declared

(* An error skips the expiry, not the sweep. *)
StartPass ==
  /\ pass.pc = "idle"
  /\ \/ /\ pass' = [NoPass EXCEPT !.pc = "scan", !.refs = AllSourceRefs, !.now = day,
                                  !.before = declared]
        /\ UNCHANGED errors
     \/ Error /\ pass' = [NoPass EXCEPT !.pc = "list"]
  /\ UNCHANGED <<kept, objects, declared, day, filing, exposed>>

(* Mutant: the scan goes on after the last finish time. *)
MutantBeyondTime(r, cursor) == r.finished > cursor[1]

(* (finished_at, id) > cursor *)
Beyond(r, cursor) == r.finished > cursor[1] \/ (r.finished = cursor[1] /\ r.id > cursor[2])

Position(r) == <<r.finished, r.id>>
ScanBatch(cursor) ==
  LET rest == {r \in kept : Beyond(r, cursor)} IN
  {r \in rest : Cardinality({q \in rest : Position(q) # Position(r) /\ ~Beyond(q, Position(r))}) < ScanSize}

Scan ==
  /\ pass.pc = "scan"
  /\ LET batch == ScanBatch(pass.cursor)
         more == Cardinality(batch) = ScanSize
         last == CHOOSE r \in batch : \A q \in batch : q = r \/ ~Beyond(q, Position(r))
         ids == {r.id : r \in {q \in batch : Expired(q, pass.refs, pass.now)}}
     IN \/ /\ pass' = [pass EXCEPT !.cursor = IF batch = {} THEN @ ELSE Position(last),
                                   !.ids = ids, !.more = more,
                                   !.pc = IF ids # {} THEN "delete" ELSE IF more THEN "scan" ELSE "list"]
           /\ UNCHANGED errors
        \/ Error /\ pass' = [NoPass EXCEPT !.pc = "list"]
  /\ UNCHANGED <<kept, objects, declared, day, filing, exposed>>

(* DeleteBatch, which releases the references by cascade. *)
DeleteBatch ==
  /\ pass.pc = "delete"
  /\ \/ /\ kept' = {r \in kept : r.id \notin pass.ids}
        /\ pass' = [pass EXCEPT !.pc = IF pass.more THEN "scan" ELSE "list", !.ids = {}]
        /\ UNCHANGED errors
     \/ Error /\ pass' = [NoPass EXCEPT !.pc = "list"] /\ UNCHANGED kept
  /\ UNCHANGED <<objects, declared, day, filing, exposed>>

(***************************************************************************)
(* SweepBlobs.                                                             *)
(***************************************************************************)

(* Every batch is flushed, the last one too. *)
Flushed(S) == S

(* List; a walk that meets a vanished file, or an error, ends early. *)
SweepList ==
  /\ pass.pc = "list"
  /\ LET Take(S) ==
           /\ pass' = [NoPass EXCEPT !.pc = "query", !.listed = Flushed(S)]
           /\ filing' = [f \in Filers |->
                IF filing[f].pc = "checked" /\ filing[f].kind.media \in S
                THEN [filing[f] EXCEPT !.exposure = "old"] ELSE filing[f]]
         old == {b \in Digests : Old(b)}
     IN \/ Take(old) /\ UNCHANGED errors
        \/ Error /\ \E S \in SUBSET old : S # old /\ Take(S)
  /\ UNCHANGED <<kept, objects, declared, day, exposed>>

Referenced == {r.kind.media : r \in kept}

(* WithSweepLock's query. *)
Unreferenced(S) == S \ Referenced

SweepQuery ==
  /\ pass.pc = "query"
  /\ \/ /\ pass' = [pass EXCEPT !.pc = "remove", !.todo = Unreferenced(pass.listed)]
        /\ UNCHANGED errors
     \/ Error /\ pass' = NoPass
  /\ UNCHANGED <<kept, objects, declared, day, filing, exposed>>

(* An object that cannot be deleted is left for the next pass. *)
SweepDelete ==
  /\ pass.pc = "remove"
  /\ \/ /\ pass.todo = {}
        /\ pass' = NoPass /\ UNCHANGED <<objects, errors>>
     \/ \E b \in pass.todo :
          /\ pass' = [pass EXCEPT !.todo = @ \ {b}]
          /\ \/ objects' = [objects EXCEPT ![b] = -1] /\ UNCHANGED errors
             \/ Error /\ UNCHANGED objects
  /\ UNCHANGED <<kept, declared, day, filing, exposed>>

PassStep == StartPass \/ Scan \/ DeleteBatch \/ SweepList \/ SweepQuery \/ SweepDelete

RetentionNext ==
  \/ \E b \in Digests : Upload(b)
  \/ \E f \in Filers : Insert(f) \/ \E k \in Kinds : Check(f, k)
  \/ \E ref \in Refs : DeclareInheritance(ref)
  \/ DayPasses
  \/ PassStep

(* Start runs a pass at once and then on every tick. *)
RetentionSpec ==
  RetentionInit /\ [][RetentionNext]_retentionVars /\ WF_retentionVars(PassStep)

(***************************************************************************)
(* Properties.                                                             *)
(***************************************************************************)
(* Every variable has its type. *)
RetentionTypeOK ==
  /\ \A r \in kept : r.id \in RecordIds /\ r.kind \in Kinds /\ r.finished \in 0..MaxDay
  /\ \A r, q \in kept : r.id = q.id => r = q
  /\ objects \in [Digests -> -1..MaxDay]
  /\ declared \subseteq Refs /\ day \in 0..MaxDay /\ errors \in 0..MaxErrors
  /\ exposed \in [RecordIds -> {"none", "old", "young"}]
  /\ pass.listed \subseteq Digests /\ pass.todo \subseteq pass.listed

(* "Pinned records ... are always exempt" (docs/retention-rules-plan.md):  *)
(* whatever is filed or declared while a pass runs, a record goes only if  *)
(* it is not pinned, its commit was not declared when the pass began, and  *)
(* the rule of highest priority that matches it has expired.               *)
OnlyExpiredGo ==
  \A r \in kept : r \notin kept' =>
    /\ ~r.kind.pinned
    /\ r.kind.ref \notin pass.before
    /\ \E rule \in Rules :
         /\ rule.type \in {ANY, r.kind.type} /\ rule.maxAge # 0
         /\ \A q \in Rules : q.type \in {ANY, r.kind.type} => q.priority <= rule.priority
         /\ r.finished + rule.maxAge <= day

(* "Objects younger than the grace period are therefore left alone"        *)
(* (retention/sweep.go): a record keeps its object, whichever way uploads, *)
(* filings and passes interleave, unless a sweep had the object on its     *)
(* list as old while the record was being filed.                           *)
MediaKept ==
  \A r \in kept : r.kind.media # NOMEDIA /\ exposed[r.id] = "none" => Stored(r.kind.media)

(* Retention takes what has expired and nothing else, neither a record nor *)
(* the object of one that stays.                                           *)
RecordsKept == [][OnlyExpiredGo /\ MediaKept' /\ RetentionTypeOK']_retentionVars

(* Somewhere in the order of the scan an expired record waits: it goes, or *)
(* inheritance from it is declared, however many kept records precede it.  *)
DueToGo(i) == \E r \in kept : r.id = i /\ Expired(r, declared, day)
ExpiredRecordsGo == \A i \in RecordIds : []<>~DueToGo(i)

(* "an object with no reference row is garbage" (retention/sweep.go): an   *)
(* old object nothing references goes, is referenced or is uploaded again. *)
Garbage(b) == Old(b) /\ b \notin Referenced
GarbageGoes == \A b \in Digests : []<>~Garbage(b)

(* "The grace period is what makes this safe to run against a live store"  *)
(* (retention/sweep.go): a record whose object had been uploaded within    *)
(* the grace period when it was filed does not lose it.                    *)
SafeOnLiveStore ==
  \A r \in kept : r.kind.media # NOMEDIA /\ exposed[r.id] # "old" => Stored(r.kind.media)
================================================================================
