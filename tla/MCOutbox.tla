------------------------------- MODULE MCOutbox -------------------------------
(***************************************************************************)
(* Instances of Outbox for model checking.                                 *)
(***************************************************************************)
EXTENDS Outbox

(* Only the text "photo" mentions a photo. *)
MCMentions == [t \in Texts |-> IF t = "photo" THEN Photos ELSE {}]

(* With one text and no helper on the page, all there is to do is to queue *)
(* logs and to send them.                                                  *)
QueueSpec == Init /\ [][QueueNext]_vars /\ Fairness
===============================================================================
