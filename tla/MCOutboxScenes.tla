---------------------------- MODULE MCOutboxScenes ----------------------------
(***************************************************************************)
(* Outbox on three small instances side by side, one sync each: a photo    *)
(* that comes and goes with corrections of its log while the page mounts,  *)
(* the weather that the dialog and the sync look up for one log, and two   *)
(* logs that a sync sends in two chunks.                                   *)
(***************************************************************************)
EXTENDS MCOutbox

VARIABLE scene

FirstRun == CHOOSE r \in Runs : TRUE
OneLog == minted <= 1 /\ form.run \in {NULL, FirstRun}
NoPhotos == form.text \in {NULL, "plain"} /\ pc[Mount] \in {"idle", "recover"}
WeatherIs(w) == form.pc # "empty" => form.weather = w

(* Of the sync, the mounting page and the form, two are under way at once. *)
TwoAtOnce ==
  \/ form.pc = "empty"
  \/ \E p \in {Mount} \cup Syncs : pc[p] = "idle"

(* What happens in each scene. *)
Plays(s) ==
  CASE s = "photos"  -> OneLog /\ WeatherIs(TRUE) /\ discarded = {}
                          /\ pc[Dialog] = "idle" /\ TwoAtOnce
    [] s = "weather" -> OneLog /\ NoPhotos
    [] s = "chunks"  -> NoPhotos /\ WeatherIs(TRUE) /\ discarded = {} /\ pc[Dialog] = "idle"

SceneInit == Init /\ scene \in {"photos", "weather", "chunks"}
QueueScene == QueueNext /\ UNCHANGED scene /\ Plays(scene)'
PageScene == PageNext /\ UNCHANGED scene /\ Plays(scene)'
SceneSpec == SceneInit /\ [][QueueScene \/ PageScene]_<<vars, scene>>
===============================================================================
