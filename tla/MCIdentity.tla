----------------------------- MODULE MCIdentity -----------------------------
(* Identity on small instances: the group "leads" grants admin, others nothing. *)
EXTENDS Identity, TLC

MCRoleMap == [n \in GroupNames |-> IF n = "leads" THEN "admin" ELSE NULL]
MCSymmetry == Permutations(People) \cup Permutations(Groups)
=============================================================================
