------------------------------ MODULE BazelWatch ------------------------------
(***************************************************************************)
(* The Bazel adapter: `watch start`, `watch stop` and `watch status`, the  *)
(* poll that uploads what changed under bazel-testlogs, the snapshot file  *)
(* that remembers what was uploaded, and the one-shot ingest command.      *)
(*                                                                         *)
(* Bazel, the workspace's files and the processes interleave; a step of a  *)
(* process ends where it touches a file or the network.  A test.xml is     *)
(* abstracted to the time it was written and whether a result can be read  *)
(* from it.  The records carry no token, so the store files every copy it  *)
(* is sent.                                                                *)
(***************************************************************************)
EXTENDS Naturals, FiniteSets

CONSTANTS
  Tests,        \* the test.xml files
  Invalid,      \* tests whose record the store refuses
  Watchers,     \* processes that may run `watch start`
  Ingesters,    \* the one-shot ingest command, or nothing: a set of processes
  LockKnown,    \* `bazel info output_base` answers
  BatchSize,    \* maxBatchSize
  MaxMtime,      \* bound: builds begun and files written
  MaxFaults,    \* bound: lost requests, refused writes, crashes
  MaxCopies,    \* bound: copies of one version the store is asked to count
  NOPID

ASSUME WatchAssumption ==
  /\ Invalid \subseteq Tests
  /\ LockKnown \in BOOLEAN
  /\ BatchSize \in Nat \ {0}
  /\ MaxMtime \in Nat /\ MaxFaults \in Nat /\ MaxCopies \in Nat
  /\ NOPID \notin Watchers

Users == Watchers \cup Ingesters
Mtimes == 1..MaxMtime

(* A file that is not there was written at time 0. *)
Absent == [mtime |-> 0, good |-> FALSE]
NoSnapshot == [t \in Tests |-> 0]

VARIABLES
  xml,        \* the test.xml files
  now,        \* the file system's clock
  building,   \* Bazel runs and holds its lock
  snapshot,   \* .evidence/last-upload.json: mtimes by file
  pidfile,    \* .evidence/watch.pid
  at,         \* where each process is
  local,      \* what it has in memory
  signalled,  \* watchers that were sent SIGTERM
  filed,      \* how often each version of a test's result is in the store
  faults,     \* faults so far
  overlapped, \* two watch commands have been under way at once
  clobbered   \* versions written while an earlier one was being uploaded

files == <<xml, now, building>>
watchVars == <<files, snapshot, pidfile, at, local, signalled, filed, faults, overlapped, clobbered>>

(* The loaded snapshot, the changed files, the version read of each file,  *)
(* the records still to post, and whether anything went wrong.             *)
Blank == [snap |-> NoSnapshot, changed |-> {}, read |-> NoSnapshot, queue |-> {}, bad |-> FALSE]

WatchInit ==
  /\ xml = [t \in Tests |-> Absent]
  /\ now = 0 /\ building = FALSE
  /\ snapshot = NoSnapshot
  /\ pidfile = NOPID
  /\ at = [p \in Users |-> "off"]
  /\ local = [p \in Users |-> Blank]
  /\ signalled = {}
  /\ filed = [t \in Tests |-> [m \in Mtimes |-> 0]]
  /\ faults = 0 /\ overlapped = FALSE /\ clobbered = {}

Move(p, label) == at' = [at EXCEPT ![p] = label]
Hold(p, m) == local' = [local EXCEPT ![p] = m]
Fault == faults < MaxFaults /\ faults' = faults + 1
Alive(w) == at[w] # "off"

(***************************************************************************)
(* Bazel.                                                                  *)
(***************************************************************************)
BuildBegins ==
  /\ ~building /\ now < MaxMtime
  /\ building' = TRUE /\ now' = now + 1
  /\ UNCHANGED <<xml, snapshot, pidfile, at, local, signalled, filed, faults, overlapped, clobbered>>

(* Some watcher has read t and not yet noted it in the snapshot. *)
BeingUploaded(t) == \E w \in Watchers : at[w] = "post" /\ local[w].read[t] > 0

TestWritten(t, good) ==
  /\ building /\ now < MaxMtime
  /\ now' = now + 1
  /\ xml' = [xml EXCEPT ![t] = [mtime |-> now', good |-> good]]
  /\ clobbered' = IF BeingUploaded(t) THEN clobbered \cup {<<t, now'>>} ELSE clobbered
  /\ UNCHANGED <<building, snapshot, pidfile, at, local, signalled, filed, faults, overlapped>>

TestRemoved(t) ==
  /\ building /\ xml[t] # Absent
  /\ xml' = [xml EXCEPT ![t] = Absent]
  /\ UNCHANGED <<now, building, snapshot, pidfile, at, local, signalled, filed, faults, overlapped, clobbered>>

BuildEnds ==
  /\ building /\ building' = FALSE
  /\ UNCHANGED <<xml, now, snapshot, pidfile, at, local, signalled, filed, faults, overlapped, clobbered>>

(***************************************************************************)
(* watch start, stop and status.                                           *)
(***************************************************************************)
(* The pid file names a process that answers signal 0. *)
IsRunning == pidfile # NOPID /\ Alive(pidfile)

(* start, stop and status ask IsRunning first.  start goes on when nothing *)
(* runs; whoever found a stale file removes it a step later.               *)
CheckPID(w) ==
  /\ at[w] = "off" /\ ~IsRunning
  /\ Move(w, IF pidfile = NOPID THEN "starting" ELSE "stale")
  /\ overlapped' = (overlapped \/ \E v \in Watchers : Alive(v))
  /\ UNCHANGED <<files, snapshot, pidfile, local, signalled, filed, faults, clobbered>>

(* stop and status are over then. *)
RemoveStale(w) ==
  /\ at[w] = "stale"
  /\ pidfile' = NOPID
  /\ Move(w, "starting") \/ Move(w, "off")
  /\ UNCHANGED <<files, snapshot, local, signalled, filed, faults, overlapped, clobbered>>

WritePID(w) ==
  /\ at[w] = "starting"
  /\ pidfile' = w /\ Move(w, "sleep")
  /\ UNCHANGED <<files, snapshot, local, signalled, filed, faults, overlapped, clobbered>>

StopWatcher ==
  /\ IsRunning /\ signalled' = signalled \cup {pidfile}
  /\ signalled' # signalled
  /\ UNCHANGED <<files, snapshot, pidfile, at, local, filed, faults, overlapped, clobbered>>

(* The deferred RemovePID, then the process ends. *)
Shutdown(w) ==
  /\ at[w] = "sleep" /\ w \in signalled
  /\ pidfile' = NOPID /\ Move(w, "exit")
  /\ UNCHANGED <<files, snapshot, local, signalled, filed, faults, overlapped, clobbered>>

Exit(w) ==
  /\ at[w] = "exit"
  /\ Move(w, "off") /\ Hold(w, Blank) /\ signalled' = signalled \ {w}
  /\ UNCHANGED <<files, snapshot, pidfile, filed, faults, overlapped, clobbered>>

(* Killed, or the machine goes down. *)
Crash(w) ==
  /\ Alive(w) /\ Fault
  /\ Move(w, "off") /\ Hold(w, Blank) /\ signalled' = signalled \ {w}
  /\ UNCHANGED <<files, snapshot, pidfile, filed, overlapped, clobbered>>

(***************************************************************************)
(* poll.                                                                   *)
(***************************************************************************)

(* ChangedFiles over what Scan found. *)
ChangedFiles(snap) == {t \in Tests : xml[t].mtime > snap[t]}

Poll(w) ==
  /\ at[w] = "sleep"
  /\ ChangedFiles(snapshot) # {}
  /\ Hold(w, [Blank EXCEPT !.snap = snapshot, !.changed = ChangedFiles(snapshot)])
  /\ Move(w, "wait")
  /\ UNCHANGED <<files, snapshot, pidfile, signalled, filed, faults, overlapped, clobbered>>

(* The lock is free, or its place unknown and the debounce time over. *)
WaitForBazelIdle(w) ==
  /\ at[w] = "wait"
  /\ \/ /\ LockKnown => ~building
        /\ Move(w, "read") /\ UNCHANGED local
     \/ w \in signalled /\ Move(w, "sleep") /\ Hold(w, Blank)
  /\ UNCHANGED <<files, snapshot, pidfile, signalled, filed, faults, overlapped, clobbered>>

(* Reading what is there of S; a file gone or unreadable is left out. *)
ParseEntries(S) == [t \in Tests |-> IF t \in S /\ xml[t].good THEN xml[t].mtime ELSE 0]
Parsed(read) == {t \in Tests : read[t] > 0}

(* Nothing readable, or no repository, ends the cycle. *)
ReadResults(w) ==
  /\ at[w] = "read"
  /\ LET read == ParseEntries(local[w].changed) IN
     \/ /\ Parsed(read) # {}
        /\ Hold(w, [local[w] EXCEPT !.read = read, !.queue = Parsed(read)])
        /\ Move(w, "post") /\ UNCHANGED faults
     \/ /\ Parsed(read) = {}
        /\ Hold(w, Blank) /\ Move(w, "sleep") /\ UNCHANGED faults
     \/ Fault /\ Hold(w, Blank) /\ Move(w, "sleep")
  /\ UNCHANGED <<files, snapshot, pidfile, signalled, filed, overlapped, clobbered>>

(***************************************************************************)
(* PostBatch, for a poll or for the ingest command.                        *)
(***************************************************************************)
OneMore(n) == IF n < MaxCopies THEN n + 1 ELSE n

(* The store files what it finds valid of a chunk. *)
Accept(p, chunk) ==
  filed' = [t \in Tests |->
    IF t \in chunk \ Invalid THEN [filed[t] EXCEPT ![local[p].read[t]] = OneMore(@)]
    ELSE filed[t]]

Chunks(S) == {c \in SUBSET S : Cardinality(c) = IF BatchSize < Cardinality(S) THEN BatchSize
                                                ELSE Cardinality(S)}

(* One chunk, answered 201 or 207. *)
PostChunk(p) ==
  /\ at[p] = "post" /\ local[p].queue # {}
  /\ \E chunk \in Chunks(local[p].queue) :
       /\ Accept(p, chunk)
       /\ Hold(p, [local[p] EXCEPT !.queue = @ \ chunk, !.bad = @ \/ chunk \cap Invalid # {}])
  /\ UNCHANGED <<files, snapshot, pidfile, at, signalled, faults, overlapped, clobbered>>

(* The chunk or its answer is lost, times out, is answered 5xx, or is      *)
(* cancelled by a signal.                                                  *)
PostFails(p) ==
  /\ at[p] = "post" /\ local[p].queue # {}
  /\ Fault
  /\ \E chunk \in Chunks(local[p].queue) : Accept(p, chunk) \/ UNCHANGED filed
  /\ Move(p, IF p \in Ingesters THEN "failed" ELSE "sleep") /\ Hold(p, Blank)
  /\ UNCHANGED <<files, snapshot, pidfile, signalled, overlapped, clobbered>>

(***************************************************************************)
(* The snapshot is noted once every chunk is answered.                     *)
(***************************************************************************)
(* Mutant: every changed file is noted, the unreadable ones too. *)
MutantRecordChanged(w) ==
  [t \in Tests |-> IF t \in local[w].changed /\ xml[t] # Absent THEN xml[t].mtime
                   ELSE local[w].snap[t]]

(* Record takes the modification time the file has now. *)
Record(w) ==
  [t \in Tests |-> IF local[w].read[t] > 0 /\ xml[t] # Absent THEN xml[t].mtime
                   ELSE local[w].snap[t]]

(* WriteFile truncates first; a snapshot that does not parse counts as none. *)
SaveBegins(w) ==
  /\ at[w] = "post" /\ local[w].queue = {}
  /\ \/ /\ snapshot' = NoSnapshot /\ Move(w, "save")
        /\ Hold(w, [Blank EXCEPT !.snap = Record(w)]) /\ UNCHANGED faults
     \/ Fault /\ Move(w, "sleep") /\ Hold(w, Blank) /\ UNCHANGED snapshot
  /\ UNCHANGED <<files, pidfile, signalled, filed, overlapped, clobbered>>

SaveEnds(w) ==
  /\ at[w] = "save"
  /\ snapshot' = local[w].snap
  /\ Move(w, "sleep") /\ Hold(w, Blank)
  /\ UNCHANGED <<files, pidfile, signalled, filed, faults, overlapped, clobbered>>

(***************************************************************************)
(* The ingest command.                                                     *)
(***************************************************************************)
ScanOnce(p) ==
  /\ at[p] = "off"
  /\ Hold(p, [Blank EXCEPT !.changed = {t \in Tests : xml[t] # Absent}])
  /\ Move(p, "parse")
  /\ UNCHANGED <<files, snapshot, pidfile, signalled, filed, faults, overlapped, clobbered>>

ParseOnce(p) ==
  /\ at[p] = "parse"
  /\ LET read == ParseEntries(local[p].changed) IN
     Hold(p, [local[p] EXCEPT !.read = read, !.queue = Parsed(read),
                              !.bad = Parsed(read) # local[p].changed])
  /\ Move(p, "post")
  /\ UNCHANGED <<files, snapshot, pidfile, signalled, filed, faults, overlapped, clobbered>>

ExitStatus(p) == IF local[p].bad THEN "failed" ELSE "ok"

ExitOnce(p) ==
  /\ at[p] = "post" /\ local[p].queue = {}
  /\ Move(p, ExitStatus(p))
  /\ UNCHANGED <<files, snapshot, pidfile, local, signalled, filed, faults, overlapped, clobbered>>

WatchStep(w) ==
  \/ Poll(w) \/ WaitForBazelIdle(w) \/ ReadResults(w) \/ PostChunk(w)
  \/ SaveBegins(w) \/ SaveEnds(w)

WatchNext ==
  \/ BuildBegins \/ BuildEnds
  \/ \E t \in Tests : TestRemoved(t) \/ \E good \in BOOLEAN : TestWritten(t, good)
  \/ \E w \in Watchers : CheckPID(w) \/ RemoveStale(w) \/ WritePID(w) \/ Shutdown(w)
                         \/ Exit(w) \/ Crash(w) \/ WatchStep(w)
  \/ StopWatcher
  \/ \E p \in Users : PostFails(p)
  \/ \E p \in Ingesters : ScanOnce(p) \/ ParseOnce(p) \/ PostChunk(p) \/ ExitOnce(p)

(* A build ends, and a watcher that is running keeps polling. *)
WatchFairness ==
  /\ WF_watchVars(BuildEnds)
  /\ \A w \in Watchers : WF_watchVars(WatchStep(w))

WatchSpec == WatchInit /\ [][WatchNext]_watchVars /\ WatchFairness

(***************************************************************************)
(* Properties.                                                             *)
(***************************************************************************)
(* The snapshot keeps a result from being uploaded again, so it must not   *)
(* name one that never was: whatever uploads failed, whatever crashed, a   *)
(* version the snapshot names is in the store or was refused by it, unless *)
(* it was written while its predecessor was being uploaded.                *)
SnapshotUploaded ==
  \A t \in Tests : snapshot[t] > 0 =>
    \/ filed[t][snapshot[t]] > 0
    \/ t \in Invalid
    \/ <<t, snapshot[t]>> \in clobbered

(* "uploads only new/changed results" (README.md): with one watcher at a   *)
(* time a version is filed twice only if something failed in between.      *)
UploadedOnce ==
  ~overlapped => \A t \in Tests, m \in Mtimes :
                   filed[t][m] <= 1 + faults + Cardinality(Ingesters)

(* "Stop" (README.md): a watcher that is running alone is the one the pid  *)
(* file names, so `watch stop` reaches it and `watch start` refuses.       *)
PidFileNamesWatcher ==
  ~overlapped => \A w \in Watchers :
                   at[w] \notin {"off", "stale", "starting", "exit"} => pidfile = w

(* The ingest command succeeds only if every result it found is filed. *)
SuccessMeansFiled ==
  \A p \in Ingesters : at[p] = "ok" =>
    \A t \in local[p].changed : local[p].read[t] > 0 /\ filed[t][local[p].read[t]] > 0

(* The files and the exit status tell the truth about what was uploaded    *)
(* and by whom, through builds, failures, crashes and restarts.            *)
UploadsAccounted == SnapshotUploaded /\ UploadedOnce /\ PidFileNamesWatcher /\ SuccessMeansFiled

(* Nothing more is to be done about the result of t. *)
Handled(t) ==
  \/ ~xml[t].good \/ t \in Invalid
  \/ filed[t][xml[t].mtime] > 0
  \/ <<t, xml[t].mtime>> \in clobbered

WatcherUp == \E w \in Watchers : at[w] \in {"sleep", "wait", "read", "post", "save"}
                                    /\ w \notin signalled

(* "uploads only new/changed results" (README.md): a readable result that  *)
(* stays is uploaded while a watcher runs, whatever failed before, if it   *)
(* was not written while its predecessor was being uploaded.               *)
ResultsUploaded == \A t \in Tests : []<>(WatcherUp => Handled(t))
===============================================================================
