--------------------------- MODULE MCBalancedRuntime ---------------------------
(* BalancedRuntime on small sets. *)
EXTENDS BalancedRuntime
===============================================================================
