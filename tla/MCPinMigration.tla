---------------------------- MODULE MCPinMigration ----------------------------
(* PinMigration on small sets of requests and accounts. *)
EXTENDS PinMigration
===============================================================================
