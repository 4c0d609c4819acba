------------------------- MODULE MCAccountSessions -------------------------
(* Instances of AccountSessions for TLC. *)
EXTENDS AccountSessions, TLC

CONSTANTS k0, k1, k2

Interchangeable == Permutations(Requests) \cup Permutations({k1, k2})
=============================================================================
