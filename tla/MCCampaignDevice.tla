--------------------------- MODULE MCCampaignDevice ---------------------------
(***************************************************************************)
(* What must come to an end around campaigns.  A behaviour plays one of    *)
(* four scenes: database transactions that a retention batch can deadlock  *)
(* with, and a prepared campaign on a device that loses answers, that      *)
(* shares procedures with a colleague, or whose campaign is closed.        *)
(***************************************************************************)
EXTENDS CampaignTx, CampaignOffline, TLC

CONSTANTS e1, p1, p2, u1, a1, o1, o2, o3, t1

VARIABLE scene

mcScenarios == <<p1, p2>>
mcTheirs == [ctx |-> "given", notes |-> "", result |-> "PASS",
             checks |-> [c \in Checks |-> "PASS"], inputs |-> Inputs, media |-> {}]
mcOurs == [mcTheirs EXCEPT !.media = Blobs]
mcEdits == {mcTheirs, mcOurs}
mcLocalEdits == {mcOurs}

(* Two procedures, finalized by closures, whose evidence expires while the *)
(* reopened campaign is closed again.                                      *)
mcRequests ==
  {[kind |-> "start", execution |-> e1, id |-> a1, ref |-> p1, actor |-> u1], [kind |-> "retain"]}
  \cup {[kind |-> "state", execution |-> e1, actor |-> u1, revision |-> r, closed |-> c,
         finished |-> t1] : r \in 1..4, c \in BOOLEAN}

(* Random ids are drawn in a fixed order, and the colleague enters other   *)
(* answers than the tester, for the first procedure only.                  *)
TheirOps == {op \in minted \cap Ops : \E a \in AttemptIds :
               attempt[a] # NULL /\ attempt[a].lastOp = op /\ op \notin delivered}

Device ==
  /\ o2 \in minted => o1 \in minted
  /\ o3 \in minted => o2 \in minted
  /\ \A a \in ClientIds : attempt[a] # NULL =>
       attempt[a].ref = p1 /\ (attempt[a].lastOp \in TheirOps => attempt[a].data # mcOurs)
  /\ \A a \in LocalIds \cap Entries : journal[a].ref = p1

(* Up to two passes are cut off, with nobody else around. *)
Lost == event = {} /\ touched = {}

(* Work that nobody completes may meet one pass that is cut off, or a      *)
(* third save, made by a resolution.                                       *)
Shared ==
  /\ event = {}
  /\ lock.pc = "prepare" => prepared = NULL
  /\ Cardinality(TheirOps) <= 1
  /\ faults <= IF o3 \in minted THEN 0 ELSE 1
  /\ faults = 1 \/ o3 \in minted =>
       /\ evidence = {}
       /\ \A a \in Entries : journal[a].completion = NULL

(* The campaign is closed and reopened, and the sweep runs. *)
Closed ==
  /\ lock.pc = "prepare" => prepared = NULL
  /\ o3 \notin minted
  /\ faults = 0 \/ (faults = 1 /\ o2 \notin minted)
  /\ touched \subseteq GeneratedIds \cup LocalIds
  /\ minted \cap Ops \subseteq saved \cup archive \cup delivered

Plays ==
  /\ scene = "lost" => Lost
  /\ scene = "shared" => Shared
  /\ scene = "closed" => Closed

DeviceNext ==
  /\ scene # "transactions"
  /\ OfflineNext
  /\ scene # "closed" => stored \subseteq stored'
  /\ scene = "shared" /\ o3 \in minted' => o3 \in minted \/ lock'.pc = "archive"
  /\ UNCHANGED <<txvars, scene>>
  /\ Plays' /\ Device'

TransactionsNext ==
  /\ scene = "transactions"
  /\ TxNext
  /\ UNCHANGED <<deviceVars, scene>>

mcInit == TxInit /\ DeviceInit /\ scene \in {"transactions", "lost", "shared", "closed"}

mcSpec ==
  /\ mcInit
  /\ [][DeviceNext \/ TransactionsNext]_<<allvars, deviceVars, scene>>
  /\ \A x \in Txs : SF_allvars(scene = "transactions" /\ Step(x))
  /\ WF_offlineVars(scene # "transactions" /\ PassStep)
  /\ SF_offlineVars(scene # "transactions" /\ BeginSync)
=============================================================================
