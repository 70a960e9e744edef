------------------------------ MODULE MCProgress ------------------------------
(***************************************************************************)
(* What must happen eventually, and the steps of ingestion and retention   *)
(* against what they promise.  As in MCServices, a behaviour is of one     *)
(* component; each is fair to its own steps.                               *)
(***************************************************************************)
EXTENDS BazelWatch, Access, CoFailure, PackageImport, Ingest, Retention

VARIABLE part

(* Every matrix of up to three tests and runs, chains of similar tests,    *)
(* and matrices on which the greedy choice is not the best one.            *)
MCMatrices ==
  UNION {[1..n -> SUBSET (1..3) \ {{}}] : n \in 0..3}
  \cup {<<{1}, {1, 2}, {2, 3}, {3, 4}, {4, 5}>>, <<{1, 2}, {3, 4}, {2, 3}, {4, 1}>>,
        <<{2, 3, 4, 5}, {1, 2, 3}, {4, 5, 6}>>, <<{3, 4}, {1, 2}, {5}, {1, 2, 3, 4, 5, 6}, {6}>>}
MCSimilarities == {<<1, 3>>, <<1, 2>>}

(* An analysis of no tests, done. *)
CoOver ==
  /\ fails = <<>> /\ similarity = <<1, 2>> /\ stage = "done" /\ parent = <<>>
  /\ i = 1 /\ j = 2 /\ x = 1 /\ root = 0
  /\ group = <<>> /\ active = {} /\ steps = <<>>

(* Two archives of one content, and another that shares its asset. *)
Archive(digest, content) == [digest |-> digest, content |-> content, assets |-> {"image"}]
MCArchives == {Archive("v1", "x"), Archive("v2", "x"), Archive("other", "y")}

(* Two tokens in either order, a bad record, and a foreign source. *)
Rec(token, kind) == [token |-> token, kind |-> kind]
MCBatches ==
  {<<Rec("x", "ok"), Rec("y", "ok")>>, <<Rec("y", "ok"), Rec("x", "ok"), Rec(NOTOKEN, "bad")>>,
   <<Rec("x", "ok"), Rec("x", "foreign")>>}

(* A record with media, a pinned one, and one its own rule keeps for ever. *)
Kind(ref, type, pinned, media) == [ref |-> ref, type |-> type, pinned |-> pinned, media |-> media]
MCKinds == {Kind("c1", "ci", FALSE, "b1"), Kind("c1", "ci", TRUE, NOMEDIA), Kind("c2", "lab", FALSE, NOMEDIA)}
MCRules == {[type |-> ANY, priority |-> 1, maxAge |-> 1], [type |-> "lab", priority |-> 2, maxAge |-> 0]}

Lone == CHOOSE w \in Watchers : TRUE
One == CHOOSE t \in Tests \ Invalid : TRUE
AllOff(S) == \A p \in S : at[p] = "off"

(* One watcher watches two tests, two watchers one, and ingest runs alone; *)
(* nobody makes requests with the sessions; a pass that fails meets no     *)
(* declaration and has one record to see to.                               *)
Plays ==
  CASE part = "watch" -> AllOff(Users \ {Lone})
    [] part = "watchers" -> AllOff(Ingesters) /\ now <= 2 /\ \A t \in Tests \ {One} : xml[t] = Absent
    [] part = "upload" -> AllOff(Watchers)
    [] part = "logins" -> \A r \in Arrivals : arrival[r] = NoArrival /\ \A a \in Accounts : ~writer[a]
    [] part = "retention" -> errors = 0
    [] part = "failures" -> declared = {} /\ Cardinality(kept) <= 1
    [] OTHER -> TRUE

Init ==
  /\ part \in {"watch", "watchers", "upload", "logins", "clusters", "import", "records", "retention", "failures"}
  /\ WatchInit /\ AccessInit /\ ImportInit /\ IngestInit /\ RetentionInit
  /\ IF part = "clusters" THEN CoInit ELSE CoOver
  /\ \A a \in Accounts : ~writer[a]
  /\ walk.pc = "none"

Next ==
  \/ part \in {"watch", "watchers", "upload"} /\ WatchNext
     /\ UNCHANGED <<part, accessVars, coVars, importVars, ingestVars, retentionVars>> /\ Plays'
  \/ part = "logins" /\ AccessNext
     /\ UNCHANGED <<part, watchVars, coVars, importVars, ingestVars, retentionVars>> /\ Plays'
  \/ part = "clusters" /\ CoNext
     /\ UNCHANGED <<part, watchVars, accessVars, importVars, ingestVars, retentionVars>>
  \/ part = "import" /\ ImportNext
     /\ UNCHANGED <<part, watchVars, accessVars, coVars, ingestVars, retentionVars>>
  \/ part = "records" /\ IngestNext
     /\ UNCHANGED <<part, watchVars, accessVars, coVars, importVars, retentionVars>>
  \/ part \in {"retention", "failures"} /\ RetentionNext
     /\ UNCHANGED <<part, watchVars, accessVars, coVars, importVars, ingestVars>> /\ Plays'

vars == <<part, watchVars, accessVars, coVars, importVars, ingestVars, retentionVars>>

(* The fairness of each module, while its part plays. *)
Fairness ==
  /\ WF_watchVars(part \in {"watch", "watchers"} /\ BuildEnds)
  /\ \A w \in Watchers : WF_watchVars(part \in {"watch", "watchers"} /\ WatchStep(w))
  /\ WF_accessVars(part = "logins" /\ SweepExpired /\ Watch)
  /\ WF_coVars(part = "clusters" /\ CoNext)
  /\ WF_importVars(part = "import" /\ SweepStep)
  /\ \A p \in Importers : WF_importVars(part = "import" /\ ImportStep(p))
  /\ \A c \in Callers : WF_ingestVars(part = "records" /\ IngestStep(c))
  /\ WF_retentionVars(part \in {"retention", "failures"} /\ PassStep)

Spec == Init /\ [][Next]_vars /\ Fairness

(* What somebody waits for comes to an end: batches that hold each other's *)
(* tokens, imports and sweeps that queue for each other's locks, the loops *)
(* of the analysis, and the upload of a result that stays.                 *)
OperationsEnd == RequestsEnd /\ ImportsEnd /\ AnalysisEnds /\ ResultsUploaded

(* What has expired goes, wherever it lies in the order of a scan and      *)
(* whatever failed before: records, objects, sessions and handshakes.      *)
ExpiredGoes == ExpiredRecordsGo /\ GarbageGoes /\ ExpiredRowsGo
===============================================================================
