------------------------------ MODULE MCCampaign ------------------------------
(* Campaign on a small instance. *)
EXTENDS Campaign, TLC

(* A complete PASS with attachments, a half-finished FAIL, and a draft     *)
(* whose software context was emptied.                                     *)
mcPass == [ctx |-> "given", notes |-> "", result |-> "PASS",
           checks |-> [c \in Checks |-> "PASS"], inputs |-> Inputs, media |-> Blobs]
mcPartial == [ctx |-> "given", notes |-> "", result |-> "FAIL",
              checks |-> [c \in Checks |-> ""], inputs |-> {}, media |-> {}]
mcNoContext == [mcPass EXCEPT !.ctx = "", !.media = {}]
mcEdits == {mcPass, mcPartial, mcNoContext}

mcSymmetry == Permutations(ClientIds) \cup Permutations(Ops)
=============================================================================
