---------------------------- MODULE MCAccountLogins ----------------------------
(* Every login is one of the same person. *)
EXTENDS AccountLogins, TLC

CONSTANTS c1, c2

OnePerson == [l \in Logins |-> "person"]
SameRequests == Permutations(Callers)
===============================================================================
