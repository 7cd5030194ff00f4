----------------------------- MODULE MCAskRuntime -----------------------------
(* Two calls, a limit of one or two, two browser launches. *)
EXTENDS AskRuntime, TLC

CONSTANTS a1, a2
===============================================================================
