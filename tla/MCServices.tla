------------------------------ MODULE MCServices ------------------------------
(***************************************************************************)
(* Components that share no state, each on a small instance of its own: a  *)
(* behaviour is a behaviour of one of them, chosen at the start, while the *)
(* others keep still.                                                      *)
(***************************************************************************)
EXTENDS StatsCache, RateLimit, Access, Reliability, Procedure, Ingest, MCCampaignDraft

VARIABLE part

MCAlwaysFailingRate == <<2, 3>>
MCFlipRate == <<1, 2>>
MCErrorRate == <<1, 3>>

Fence(marker, width, info, flush) ==
  [kind |-> "fence", marker |-> marker, width |-> width, info |-> info, flush |-> flush, id |-> "", bound |-> FALSE]
Line(kind, id, bound) ==
  [kind |-> kind, marker |-> "", width |-> 0, info |-> "", flush |-> TRUE, id |-> id, bound |-> bound]
Ticks == Fence("tick", 3, "", TRUE)
Field == Fence("tick", 3, "test-field", TRUE)
MCLineKinds ==
  {Ticks, Field, Fence("tick", 3, "", FALSE), Fence("tick", 4, "", TRUE), Fence("tilde", 3, "test-field", TRUE),
   Line("declaration", "a", FALSE), Line("image", "", FALSE)}

(* Two and three controls, with the same and with other names. *)
Control(id, bound) == <<Field, Line("declaration", id, bound), Ticks>>
MCSamples ==
  {Control("a", b) \o Control(id, c) \o rest :
     b, c \in BOOLEAN, id \in {"a", "b"}, rest \in {<<>>, <<Line("text", "", FALSE)>>, Control("c", FALSE)}}

(* Two records of one time, and a third. *)
Rec(token) == [token |-> token, kind |-> "ok"]
MCBatches == {<<Rec("x"), Rec("y")>>, <<Rec("z")>>}

SomeDraft == CHOOSE d \in DraftData : TRUE

(* Nobody logs in while requests are made, except at once. *)
Plays ==
  part = "requests" => /\ \A h \in Handshakes : handshake[h] = ABSENT
                       /\ \A p \in Humans : deactivated[p] = 0

Init ==
  /\ part \in {"stats", "rate", "requests", "reliability", "procedure", "paging", "draft"}
  /\ StatsInit /\ RateInit /\ AccessInit /\ ReliabilityInit /\ IngestInit
  /\ IF part = "procedure" THEN ProcInit ELSE doc = <<Ticks>> /\ ProcStart
  /\ IF part = "draft" THEN DraftInit ELSE draft = SomeDraft
  /\ part = "requests" \/ \A a \in Accounts : ~writer[a]
  /\ walk = NoWalk

Next ==
  \/ part = "stats" /\ StatsNext /\ UNCHANGED <<part, rateVars, accessVars, history, procVars, ingestVars, draft>>
  \/ part = "rate" /\ RateNext /\ UNCHANGED <<part, statsVars, accessVars, history, procVars, ingestVars, draft>>
  \/ part = "requests" /\ AccessNext /\ UNCHANGED <<part, statsVars, rateVars, history, procVars, ingestVars, draft>> /\ Plays'
  \/ part = "reliability" /\ ReliabilityNext /\ UNCHANGED <<part, statsVars, rateVars, accessVars, procVars, ingestVars, draft>>
  \/ part = "procedure" /\ ProcNext /\ UNCHANGED <<part, statsVars, rateVars, accessVars, history, ingestVars, draft>>
  \/ part = "paging" /\ IngestNext /\ UNCHANGED <<part, statsVars, rateVars, accessVars, history, procVars, draft>>
  \/ part = "draft" /\ CloseDraft /\ UNCHANGED <<part, statsVars, rateVars, accessVars, history, procVars, ingestVars>>

vars == <<part, statsVars, rateVars, accessVars, history, procVars, ingestVars, draft>>

Spec == Init /\ [][Next]_vars
===============================================================================
