----------------------------- MODULE MCCampaignTx -----------------------------
(***************************************************************************)
(* CampaignTx on small instances: which requests clients make.  A behaviour *)
(* plays one of two scenes, and each scene bounds its own requests.        *)
(***************************************************************************)
EXTENDS CampaignTx, TLC

CONSTANTS b1, e1, p1, u1, u2, a1, a2, o1, o2, t1

VARIABLE scene

mcPass == [ctx |-> "given", notes |-> "", result |-> "PASS",
           checks |-> [c \in Checks |-> "PASS"], inputs |-> Inputs, media |-> {}]
mcMediaPass == [mcPass EXCEPT !.media = Blobs]
mcPartial == [ctx |-> "given", notes |-> "", result |-> "",
              checks |-> [c \in Checks |-> ""], inputs |-> {}, media |-> {}]
mcEdits == {mcPass, mcPartial, mcMediaPass}

mcSymmetry == Permutations(Txs)

mcOne == <<p1>>

Start(a, p) == [kind |-> "start", execution |-> e1, id |-> a, ref |-> p, actor |-> u1]
Save(a, u, r, o, d) == [kind |-> "save", id |-> a, actor |-> u, revision |-> r, op |-> o, data |-> d]
Finalize(a, r) == [kind |-> "finalize", id |-> a, actor |-> u1, revision |-> r, finished |-> t1]
States == {[kind |-> "state", execution |-> e1, actor |-> u1, revision |-> r, closed |-> c,
            finished |-> t1] : r \in 1..MaxRevision, c \in BOOLEAN}

(* Colleagues start the same procedure, save over each other, finalize,    *)
(* close and reopen.                                                       *)
mcLifecycle ==
  {Start(a1, p1), Start(a2, p1), Save(a1, u1, 1, o1, mcPass), Save(a1, u2, 1, o2, mcPartial),
   Finalize(a1, 2), [kind |-> "get", execution |-> e1]} \cup States

(* Attachments: uploads, shared and personal drafts and evidence that      *)
(* mention them, a colleague's save that a personal attempt refuses,       *)
(* closure, the sweep and retention.                                       *)
mcMedia ==
  {Start(a1, p1), [kind |-> "create", id |-> a1, ref |-> p1, actor |-> u1],
   Save(a1, u1, 1, o1, mcMediaPass), Save(a1, u2, 2, o2, mcPartial), Finalize(a1, 2),
   [kind |-> "put", digest |-> b1], [kind |-> "sweep"], [kind |-> "retain"]} \cup States

mcRequests == mcLifecycle \cup mcMedia

(* The scene's requests.  Those of one statement are told by their effect: *)
(* uploads and personal attempts in one scene, reads in the other.         *)
Lifecycle ==
  /\ \A x \in Txs : req[x] \in mcLifecycle \cup {NULL}
  /\ stored = {}
  /\ \A a \in ClientIds : attempt[a] # NULL => attempt[a].execution # NULL
  /\ execution[e1] # NULL => execution[e1].revision < MaxRevision

Media ==
  /\ \A x \in Txs : req[x] \in mcMedia \cup {NULL}
  /\ Cardinality({x \in Txs : pc[x] # "idle"}) <= 2
  /\ view[e1] = NULL

Plays ==
  /\ scene = "lifecycle" => Lifecycle
  /\ scene = "media" => Media

SceneInit == TxInit /\ scene \in {"lifecycle", "media"}
SceneNext == TxNext /\ UNCHANGED scene /\ Plays'
SceneSpec == SceneInit /\ [][SceneNext]_<<allvars, scene>>
=============================================================================
