--------------------------- MODULE MCResponseStream ---------------------------
(* Two calls whose events carry one identity or all of them; the id of the *)
(* second is too long for the backend.                                     *)
EXTENDS ResponseStream, TLC

Told == {{"call"}, {"index"}}
Long == {<<"call", 2>>}
===============================================================================
