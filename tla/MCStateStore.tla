----------------------------- MODULE MCStateStore -----------------------------
(* StateStore on small sets. *)
EXTENDS StateStore
=============================================================================
