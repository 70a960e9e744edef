---------------------------- MODULE CampaignDraft ----------------------------
(***************************************************************************)
(* The data of a campaign attempt: what a tester may save, what may be     *)
(* finalized as evidence, and what closing a campaign makes of unfinished  *)
(* work.                                                                   *)
(*                                                                         *)
(* A procedure declares checks (answered PASS, FAIL or NOT_EXECUTED) and   *)
(* required inputs (present or missing).  Text is abstracted to the three  *)
(* cases the validators tell apart: absent, white space only, and given.   *)
(* Every value of DraftData passes ValidateDraft: malformed answers are    *)
(* refused by the HTTP handler before they reach a transaction.            *)
(***************************************************************************)

CONSTANTS
  Checks,        \* the check controls of a procedure
  Inputs,        \* its required acquisition inputs
  Blobs          \* digests a test log can mention

Text == {"", "blank", "given"}
Results == {"PASS", "FAIL", "ERROR", "SKIPPED"}
Outcomes == {"PASS", "FAIL", "NOT_EXECUTED"}

(* ctx stands for repo, branch and rcs_ref together. *)
DraftData ==
  [ctx: Text, notes: Text, result: Results \cup {""},
   checks: [Checks -> Outcomes \cup {""}], inputs: SUBSET Inputs,
   media: SUBSET Blobs]

(* What the evidence-expiry trigger leaves of an attempt's data: '{}'. *)
Cleared ==
  [ctx |-> "", notes |-> "", result |-> "", checks |-> [c \in Checks |-> ""],
   inputs |-> {}, media |-> {}]

(* No check outcome and no overall result is ever copied from a default;   *)
(* an input may be.                                                        *)
InitialDraft(ctx, defaults, media) ==
  [Cleared EXCEPT !.ctx = ctx, !.inputs = defaults, !.media = media]

missingAnswers(d) == Inputs \ d.inputs

FailedChecks(d) == {c \in Checks : d.checks[c] = "FAIL"}

(* finalCheck: a check needs an outcome that the overall result allows. *)
FinalCheck(d, c) ==
  /\ d.checks[c] # ""
  /\ d.result = "PASS" => d.checks[c] = "PASS"
  /\ d.result = "SKIPPED" => d.checks[c] = "NOT_EXECUTED"

(* Mutant: a FAIL never needs a reason. *)
MutantFailNeedsNone(d) ==
  \/ missingAnswers(d) # {}
  \/ d.result \in {"ERROR", "SKIPPED"}

needsReason(d) ==
  \/ missingAnswers(d) # {}
  \/ d.result \in {"ERROR", "SKIPPED"}
  \/ d.result = "FAIL" /\ FailedChecks(d) = {}

ValidateFinalization(d) ==
  /\ d.ctx = "given"
  /\ d.result # ""
  /\ \A c \in Checks : FinalCheck(d, c)
  /\ d.result = "PASS" => missingAnswers(d) = {}
  /\ needsReason(d) => d.notes = "given"

(* validate.EvidenceCreate on the record built from an attempt: the        *)
(* software context must not be empty (white space is accepted here) and   *)
(* the result must be one of the four.  Type and source fall back to       *)
(* nonempty defaults in attemptEvidence.                                   *)
EvidenceCreate(d) == d.ctx # "" /\ d.result \in Results

(* Mutants: closure overwrites performed checks; keeps the draft's result. *)
MutantSkipChecks(d) ==
  [d EXCEPT !.result = "SKIPPED", !.notes = "given", !.checks = [c \in Checks |-> "NOT_EXECUTED"]]

MutantKeepResult(d) ==
  [d EXCEPT !.result = IF @ = "" THEN "SKIPPED" ELSE @, !.notes = "given",
            !.checks = [c \in Checks |-> IF d.checks[c] = "" THEN "NOT_EXECUTED"
                                                             ELSE d.checks[c]]]

(* closeUnfinished: the result becomes SKIPPED, unanswered checks become   *)
(* NOT_EXECUTED and the reason is appended to the notes.                   *)
SkipUnfinished(d) ==
  [d EXCEPT !.result = "SKIPPED", !.notes = "given",
            !.checks = [c \in Checks |-> IF d.checks[c] = "" THEN "NOT_EXECUTED"
                                                             ELSE d.checks[c]]]
=============================================================================
