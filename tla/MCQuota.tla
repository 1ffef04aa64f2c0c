------------------------------ MODULE MCQuota ------------------------------
(* The quota object on two login sessions and two overlapping requests.    *)
EXTENDS SshSessionQuota, TLC

Symmetry ==
  Permutations(SessionKey) \cup Permutations(LeaseId) \cup Permutations(Request)
=============================================================================
