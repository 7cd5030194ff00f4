------------------------------- MODULE MCAskTurn -------------------------------
(* Two asks, one of them followed to its answer; two selectors. *)
EXTENDS AskTurn, TLC

CONSTANTS a1, a2, s1, s2
===============================================================================
