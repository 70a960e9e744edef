----------------------------- MODULE CampaignInv -----------------------------
(***************************************************************************)
(* What Campaign keeps: the invariant its proofs, and those about the      *)
(* transactions that implement it, rest on.                                *)
(***************************************************************************)
EXTENDS Campaign

(* campaign_attempt_execution_package: a shared attempt has its execution. *)
ExecutionExists ==
  \A a \in AttemptIds : attempt[a] # NULL /\ attempt[a].execution # NULL =>
    execution[attempt[a].execution] # NULL

(* Naming what closure creates after its execution and procedure is sound: *)
(* no other attempt has such an id.                                        *)
GeneratedIdIsOwn ==
  \A e \in Executions, p \in Procs : attempt[GeneratedId(e, p)] # NULL =>
    attempt[GeneratedId(e, p)].execution = e /\ attempt[GeneratedId(e, p)].ref = p

(* Evidence belongs to a finalized attempt, and one attempt has no two     *)
(* records.                                                                *)
EvidenceIsFinal ==
  /\ \A ev \in evidence : attempt[ev.attempt] # NULL /\ Finalized(ev.attempt)
  /\ \A v, w \in evidence : v.attempt = w.attempt => v = w

(* The inductive invariant of Campaign: its safety invariants together, for
   no one of them is inductive alone, and the three facts above. *)
IInv ==
  /\ TypeOK /\ ExecutionExists /\ GeneratedIdIsOwn
  /\ EvidenceMatchesAttempt /\ EvidenceIsFinal
  /\ OneSharedDraft /\ ClosedIsComplete
  /\ MentionedIsReferenced /\ ReferencedIsStored
  /\ PassIsEarned /\ RevisionIdentifiesWork

=============================================================================
