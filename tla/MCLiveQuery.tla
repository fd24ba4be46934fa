----------------------------- MODULE MCLiveQuery -----------------------------
(* Values for the constants of LiveQuery.                                  *)
EXTENDS LiveQuery, TLC

CONSTANTS l1, l2, d1, d2

Perms == Permutations({l1, l2}) \cup Permutations({d1, d2})
=============================================================================
