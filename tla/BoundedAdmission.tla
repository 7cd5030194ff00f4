--------------------------- MODULE BoundedAdmission ---------------------------
(***************************************************************************)
(* What an admission limit promises, whatever keeps it: an ask is admitted *)
(* only while fewer asks are inside than the limit of that moment, it      *)
(* leaves when it ends, and the limit may be changed at any time without   *)
(* turning anybody out.                                                    *)
(***************************************************************************)
EXTENDS Integers, FiniteSets

CONSTANTS Asks,   \* the asks that may come
          Limits  \* the limits that may be set

VARIABLES limit,    \* the limit in force
          admitted  \* the asks inside

vars == <<limit, admitted>>

Init == limit \in Limits /\ admitted = {}

Admit(a) ==
  /\ a \notin admitted
  /\ Cardinality(admitted) < limit
  /\ admitted' = admitted \union {a}
  /\ UNCHANGED limit

Leave(a) ==
  /\ a \in admitted
  /\ admitted' = admitted \ {a}
  /\ UNCHANGED limit

SetLimit(n) ==
  /\ limit' = n
  /\ UNCHANGED admitted

Next == \/ \E a \in Asks : Admit(a) \/ Leave(a)
        \/ \E n \in Limits : SetLimit(n)

Spec == Init /\ [][Next]_vars
===============================================================================
