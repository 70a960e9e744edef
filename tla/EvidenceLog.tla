------------------------------ MODULE EvidenceLog ------------------------------
(***************************************************************************)
(* What ingestion promises: a submission is filed whole or not at all, in  *)
(* one instant; a token the log has is not filed again, and the answer     *)
(* names, record by record, the evidence each submission became.           *)
(***************************************************************************)
EXTENDS Naturals, Sequences

CONSTANTS
  Callers,    \* who submits
  Batches,    \* what may be submitted: sequences of records
  NOTOKEN     \* a record without a client_record_id

VARIABLES
  log,        \* the evidence there is: [id, token]
  purged,     \* the evidence retention has deleted
  answer      \* the last answer to each caller

logVars == <<log, purged, answer>>

LogInit ==
  /\ log = {}
  /\ purged = {}
  /\ answer = [c \in Callers |-> <<>>]

Named(a, S) == {r \in S : r.id = a.id}

(* Record n of b became the row its answer names; the call created the row *)
(* if it is new and no earlier record of the batch became it.              *)
Became(b, ans, n) ==
  IF b[n].kind = "bad" THEN ans[n].status = "error"
  ELSE /\ ans[n].status \in {"created", "duplicate"}
       /\ \E r \in Named(ans[n], log' \cup purged) :
            /\ r.token = b[n].token
            /\ ans[n].status = "created" <=>
                 r \in log' \ log /\ \A k \in 1..(n - 1) : ans[k].status = "error" \/ ans[k].id # r.id

File(c, b) ==
  /\ \A n \in DOMAIN b : b[n].kind # "foreign"
  /\ log \subseteq log'
  /\ \A r \in log' \ log : \A q \in log' : r.token = q.token /\ r.token # NOTOKEN => q = r
  /\ LET ans == answer'[c] IN
     /\ DOMAIN ans = DOMAIN b
     /\ \A n \in DOMAIN b : Became(b, ans, n)
     /\ \A r \in log' \ log : \E n \in DOMAIN ans : ans[n].status = "created" /\ ans[n].id = r.id
  /\ \A d \in Callers \ {c} : answer'[d] = answer[d]
  /\ UNCHANGED purged

Purge(r) ==
  /\ log' = log \ {r}
  /\ purged' = purged \cup {r}
  /\ UNCHANGED answer

LogNext == (\E c \in Callers, b \in Batches : File(c, b)) \/ \E r \in log : Purge(r)

LogSpec == LogInit /\ [][LogNext]_logVars
================================================================================
