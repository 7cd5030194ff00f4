------------------------------- MODULE MCAskJobs -------------------------------
(* Three jobs, two conversations, one MCP session. *)
EXTENDS AskJobs, TLC

CONSTANTS j1, j2, j3, t1, t2, s1
===============================================================================
