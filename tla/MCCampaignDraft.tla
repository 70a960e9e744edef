--------------------------- MODULE MCCampaignDraft ---------------------------
(* The draft validators on every draft of a small procedure: a run starts  *)
(* with any saved draft, and closure may skip it.                          *)
EXTENDS CampaignDraft

VARIABLE draft

DraftInit == draft \in DraftData

CloseDraft == draft' = SkipUnfinished(draft)

DraftSpec == DraftInit /\ [][CloseDraft]_draft

NotPerformed == {c \in Checks : draft.checks[c] = "NOT_EXECUTED"}
Explained == draft.notes = "given"

(* The validation contract of docs/campaign-finalization.md, result by     *)
(* result, is what ValidateFinalization and finalCheck accept.             *)
FinalizationContract ==
  LET assessed == \A c \in Checks : draft.checks[c] \in Outcomes
      complete == draft.inputs = Inputs
      contract ==
        CASE draft.result = "PASS" -> complete /\ \A c \in Checks : draft.checks[c] = "PASS"
          [] draft.result = "FAIL" -> Explained \/ (complete /\ FailedChecks(draft) # {})
          [] draft.result = "ERROR" -> Explained
          [] draft.result = "SKIPPED" -> Explained /\ NotPerformed = Checks
          [] OTHER -> FALSE
  IN  ValidateFinalization(draft) <=> draft.ctx = "given" /\ assessed /\ contract

(* closeUnfinished bypasses ValidateFinalization.  What it files is still  *)
(* accepted by the evidence validator whenever the draft has a software    *)
(* context, and meets the finalization contract unless a tester had        *)
(* performed a check.                                                      *)
ClosureFilesValidEvidence ==
  LET closed == SkipUnfinished(draft) IN
  /\ draft.ctx # "" => EvidenceCreate(closed)
  /\ draft.ctx = "given" /\ (\A c \in Checks : draft.checks[c] \in {"", "NOT_EXECUTED"})
       => ValidateFinalization(closed)

(* Every draft there can be is finalized and closed by the rules. *)
DraftRulesHold == FinalizationContract /\ ClosureFilesValidEvidence
=============================================================================
