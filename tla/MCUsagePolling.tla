---------------------------- MODULE MCUsagePolling ----------------------------
(* UsagePolling on small sets. *)
EXTENDS UsagePolling
===============================================================================
