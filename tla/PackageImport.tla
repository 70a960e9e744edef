----------------------------- MODULE PackageImport -----------------------------
(***************************************************************************)
(* POST /campaigns: concurrent imports of campaign archives beside the     *)
(* orphan sweep.  An import writes every object to the object store under  *)
(* the shared sweep lock, then publishes the row and its references; equal *)
(* content is serialised by a second advisory lock, however the archives   *)
(* that carry it differ.                                                   *)
(*                                                                         *)
(* A step is one statement or one call of the object store.  An archive is *)
(* abstracted to its digest, the content it normalises to and its assets.  *)
(***************************************************************************)
EXTENDS Naturals, FiniteSets

CONSTANTS
  Importers,    \* import requests under way at once
  Archives,     \* what may be imported: [digest, content, assets]
  MaxImports    \* bound: import requests

Objects == {a.digest : a \in Archives} \cup UNION {a.assets : a \in Archives}

ASSUME ImportAssumption ==
  /\ MaxImports \in Nat
  /\ \A a, b \in Archives : a.digest = b.digest => a = b
  /\ \A a, b \in Archives : a.content = b.content => a.assets = b.assets

VARIABLES
  packages,   \* campaign_package rows: [digest, content]
  pins,       \* campaign_blob_ref rows: <<digest of the package, object>>
  cas,        \* the objects in the store
  import,     \* each request
  sweeper,    \* the orphan sweep
  imports,    \* requests so far
  creations   \* how many answers said "created", by content

importVars == <<packages, pins, cas, import, sweeper, imports, creations>>

NoImport == [pc |-> "idle", archive |-> CHOOSE a \in Archives : TRUE, todo |-> {}]
NoSweep == [pc |-> "idle", listed |-> {}, todo |-> {}]

ImportInit ==
  /\ packages = {} /\ pins = {} /\ cas = {}
  /\ import = [p \in Importers |-> NoImport]
  /\ sweeper = NoSweep
  /\ imports = 0
  /\ creations = [c \in {a.content : a \in Archives} |-> 0]

Set(p, r) == import' = [import EXCEPT ![p] = r]

(***************************************************************************)
(* Import.                                                                 *)
(***************************************************************************)
(* The archive is read and valid. *)
BeginImport(p, a) ==
  /\ import[p].pc = "idle" /\ imports < MaxImports
  /\ imports' = imports + 1
  /\ Set(p, [pc |-> "begun", archive |-> a, todo |-> {a.digest} \cup a.assets])
  /\ UNCHANGED <<packages, pins, cas, sweeper, creations>>

(* Mutant: the import does not keep the sweep out. *)
MutantNoLock(p) ==
  /\ import[p].pc = "begun"
  /\ Set(p, [import[p] EXCEPT !.pc = "put"])
  /\ UNCHANGED <<packages, pins, cas, sweeper, imports, creations>>

Sweeping == sweeper.pc \in {"locked", "deleting"}

(* pg_advisory_xact_lock_shared, which waits in line for a sweep. *)
ShareSweepLock(p) ==
  /\ import[p].pc = "begun"
  /\ Set(p, [import[p] EXCEPT !.pc = IF Sweeping THEN "queued" ELSE "put"])
  /\ UNCHANGED <<packages, pins, cas, sweeper, imports, creations>>

StillToPut(p, o) == import[p].todo \ {o}

(* putCampaignObjects: the archive first, the assets in any order. *)
PutObject(p, o) ==
  /\ import[p].pc = "put" /\ o \in import[p].todo
  /\ import[p].archive.digest \in import[p].todo => o = import[p].archive.digest
  /\ cas' = cas \cup {o}
  /\ Set(p, [import[p] EXCEPT !.todo = StillToPut(p, o),
                              !.pc = IF StillToPut(p, o) = {} THEN "wait" ELSE "put"])
  /\ UNCHANGED <<packages, pins, sweeper, imports, creations>>

(* Those that hold the lock of a content. *)
Publishing(c) == {q \in Importers : import[q].pc = "publish" /\ import[q].archive.content = c}

ContentFree(p) == Publishing(import[p].archive.content) = {}

(* pg_advisory_xact_lock of the content, and the query after it. *)
LockContent(p) ==
  /\ import[p].pc = "wait" /\ ContentFree(p)
  /\ Set(p, [import[p] EXCEPT !.pc = "publish", !.todo = {r \in packages : r.content = import[p].archive.content}])
  /\ UNCHANGED <<packages, pins, cas, sweeper, imports, creations>>

(* insertCampaignRefs *)
PinsOf(row, a) == {<<row.digest, o>> : o \in {row.digest} \cup a.assets}

(* The row that was found, or a new one; its references; Commit. *)
Publish(p) ==
  /\ import[p].pc = "publish"
  /\ LET a == import[p].archive
         row == IF import[p].todo # {} THEN CHOOSE r \in import[p].todo : TRUE
                ELSE [digest |-> a.digest, content |-> a.content]
     IN /\ packages' = packages \cup {row}
        /\ pins' = pins \cup PinsOf(row, a)
        /\ creations' = [creations EXCEPT ![a.content] = @ + IF import[p].todo = {} THEN 1 ELSE 0]
  /\ Set(p, NoImport)
  /\ UNCHANGED <<cas, sweeper, imports>>

(* Any step fails, the client leaves or the server stops: Rollback. *)
ImportFails(p) ==
  /\ import[p].pc # "idle"
  /\ Set(p, NoImport)
  /\ UNCHANGED <<packages, pins, cas, sweeper, imports, creations>>

(***************************************************************************)
(* SweepBlobs; any object may be past the grace period.                    *)
(***************************************************************************)
ListObjects ==
  /\ sweeper.pc = "idle" /\ cas # {}
  /\ \E S \in SUBSET cas : S # {} /\ sweeper' = [NoSweep EXCEPT !.pc = "listed", !.listed = S]
  /\ UNCHANGED <<packages, pins, cas, import, imports, creations>>

Sharing == {p \in Importers : import[p].pc \in {"put", "wait", "publish"}}

(* pg_advisory_xact_lock, once no import shares it. *)
TakeSweepLock ==
  /\ sweeper.pc = "listed" /\ Sharing = {}
  /\ sweeper' = [sweeper EXCEPT !.pc = "locked"]
  /\ UNCHANGED <<packages, pins, cas, import, imports, creations>>

QueryPins ==
  /\ sweeper.pc = "locked"
  /\ sweeper' = [sweeper EXCEPT !.pc = "deleting", !.todo = sweeper.listed \ {r[2] : r \in pins}]
  /\ UNCHANGED <<packages, pins, cas, import, imports, creations>>

DeleteObject ==
  /\ sweeper.pc = "deleting"
  /\ \E o \in sweeper.todo : sweeper' = [sweeper EXCEPT !.todo = @ \ {o}] /\ cas' = cas \ {o}
  /\ UNCHANGED <<packages, pins, import, imports, creations>>

Granted == [p \in Importers |-> IF import[p].pc = "queued" THEN [import[p] EXCEPT !.pc = "put"] ELSE import[p]]

(* The lock is released to those in line. *)
EndSweep ==
  /\ sweeper.pc = "deleting" /\ sweeper.todo = {}
  /\ sweeper' = NoSweep /\ import' = Granted
  /\ UNCHANGED <<packages, pins, cas, imports, creations>>

SweepStep == TakeSweepLock \/ QueryPins \/ DeleteObject \/ EndSweep

ImportStep(p) == ShareSweepLock(p) \/ (\E o \in import[p].todo : PutObject(p, o)) \/ LockContent(p) \/ Publish(p)

ImportNext ==
  \/ \E p \in Importers : ImportStep(p) \/ ImportFails(p) \/ \E a \in Archives : BeginImport(p, a)
  \/ ListObjects \/ SweepStep

(* A request and a sweep under way go on. *)
ImportSpec ==
  /\ ImportInit /\ [][ImportNext]_importVars
  /\ WF_importVars(SweepStep)
  /\ \A p \in Importers : WF_importVars(ImportStep(p))

(***************************************************************************)
(* Properties.                                                             *)
(***************************************************************************)
(* Every variable has its type. *)
ImportTypeOK ==
  /\ cas \subseteq Objects
  /\ pins \subseteq {r.digest : r \in packages} \X Objects
  /\ \A p \in Importers : import[p].pc \in {"idle", "begun", "queued", "put", "wait", "publish"}
  /\ sweeper.todo \subseteq sweeper.listed

(* "publishes metadata and reachability roots in one transaction, after    *)
(* writing every object to CAS" (store/campaign.go): whichever imports     *)
(* failed or ran together, and however sweeps fell between their steps, a  *)
(* campaign there is can be downloaded and run: its archive and all its    *)
(* assets are in the store.                                                *)
PublishedComplete ==
  \A r \in packages : \E a \in Archives :
    a.digest = r.digest /\ a.content = r.content /\ {a.digest} \cup a.assets \subseteq cas

(* "Serialize equivalent imports even if archive headers or v1/v2 differ"  *)
(* (store/campaign.go): one content has one row, and of the imports of it  *)
(* one is told that it created it.                                         *)
OneRowPerContent ==
  /\ \A r, q \in packages : r.content = q.content => r = q
  /\ \A c \in DOMAIN creations : creations[c] = IF \E r \in packages : r.content = c THEN 1 ELSE 0

(* However imports and sweeps interleave, a campaign is there once and     *)
(* whole.                                                                  *)
ImportedWhole == ImportTypeOK /\ PublishedComplete /\ OneRowPerContent

(* Imports wait for a sweep, sweeps for imports and imports for each       *)
(* other; every import ends nevertheless, and every sweep.                 *)
ImportsEnd ==
  /\ \A p \in Importers : []<>(import[p].pc = "idle")
  /\ []<>(sweeper.pc = "idle")
================================================================================
